------------------------------- MODULE MCRid -------------------------------
(* Small instances of Rid for TLC.  Time unit: five minutes.               *)
EXTENDS Rid, TLC

CONSTANTS a, b, p

Siblings == [x \in {p} |-> {a, b}]

Vol(cells, start, end) == [cells |-> cells, start |-> start, end |-> end]

\* An ISA moves between two areas and is renewed, a subscription moves and is renewed.
AreasInTime == {Vol({a}, None, 1), Vol({b}, None, 2), Vol({b}, 2, None)}
SubscribedAreas == {Vol({a}, 0, 1), Vol({a, b}, None, None), Vol({b}, 2, 3)}

Symmetry == Permutations(ISAs) \cup Permutations(Subs) \cup Permutations(Owners)
=============================================================================
