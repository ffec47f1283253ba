------------------------------- MODULE MCScd -------------------------------
(* Small instances of Scd for TLC.  Time unit: five minutes.               *)
EXTENDS Scd, TLC

CONSTANTS a, b, p

Vol(cells, start, end) == [cells |-> cells, alts |-> {0}, start |-> start, end |-> end]
SubVol(cells, start, end) == [cells |-> cells, alts |-> {0}, start |-> start, end |-> end]

NoChildren == [x \in {} |-> {}]
Siblings   == [x \in {p} |-> {a, b}]
NoSuffixTime == [x \in {} |-> 0]
EarlySuffixTime == [x \in Suffixes |-> 1]

\* Two areas, and one that starts late: implicit subscriptions get extended both ways.
LifecycleVolumes == {Vol({a}, 1, 2), Vol({b}, 0, 1)}
LifecycleSubVolumes == {SubVol({a, b}, 0, 2), SubVol({a}, None, None),
                        [cells |-> {a, b}, alts |-> None, start |-> 0, end |-> 2]}

AreaVolumes == {Vol({a}, 0, 1), Vol({b}, 0, 1)}
NoSubVolumes == {}

EvictionVolumes == {Vol({a}, 0, 1), Vol({a}, 1, 3)}
EvictionSubVolumes == {SubVol({a}, 1, 3), SubVol({a}, 0, 1)}

Symmetry == Permutations(OIRs) \cup Permutations(Subs)
ConflictSymmetry == Symmetry \cup Permutations(Managers)
=============================================================================
