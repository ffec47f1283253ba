----------------------------- MODULE ScdProofs ------------------------------
(***************************************************************************)
(* Proofs about Scd, for any sets of entities, managers, cells and         *)
(* requests: the subscription an OIR is attached to exists, belongs to its *)
(* manager and covers it, and no implicit subscription is leaked; everyone *)
(* concerned is notified, as long as no cells are replaced by their parent;*)
(* and, as long as a search returns all that it matches, the later of two  *)
(* intersecting OIRs was written by someone who had seen the earlier one.  *)
(***************************************************************************)
EXTENDS Scd, FiniteSetTheorems, TLAPS

-----------------------------------------------------------------------------
(* Cells.                                                                  *)

\* Normalizing a union of cells (s2.CellUnionFromUnion) keeps the area.
LEMMA NormalizingKeepsArea ==
  ASSUME NEW x \in CellUnions, NEW y \in CellUnions
  PROVE  /\ CellUnionFromUnion(x, y) \in CellUnions
         /\ Levelify(CellUnionFromUnion(x, y)) = Levelify(x) \cup Levelify(y)
<1> DEFINE leaves == Levelify(x \cup y)
           full   == {p \in Coarse : Children[p] \subseteq leaves}
           rest   == {c \in leaves : \A p \in full : c \notin Children[p]}
<1>1. leaves = Levelify(x) \cup Levelify(y)
  BY Zenon DEF Levelify
<1>2. leaves \subseteq Leaf
  BY CellsAssumption DEF Levelify, CellUnions
<1>3. CellUnionFromUnion(x, y) = full \cup rest
  BY Zenon DEF CellUnionFromUnion
<1>4. (full \cup rest) \cap Leaf = rest /\ (full \cup rest) \cap Coarse = full
  BY <1>2, CellsAssumption, Zenon
<1>5. Levelify(full \cup rest) = rest \cup UNION {Children[p] : p \in full}
  BY <1>4, Zenon DEF Levelify
<1>6. rest \cup UNION {Children[p] : p \in full} = leaves
  BY Zenon
<1> QED
  BY <1>1, <1>2, <1>3, <1>5, <1>6, Zenon DEF CellUnions

-----------------------------------------------------------------------------
(* Maps.                                                                   *)

\* Upserting a well-formed record keeps a repository's map well formed.
LEMMA PutIsMap ==
  ASSUME NEW f, NEW K, NEW V, IsMap(f, K, V), NEW k \in K, NEW v \in V
  PROVE  IsMap(Put(f, k, v), K, V)
BY Zenon DEF IsMap, Put

\* So does deleting records.
LEMMA WithoutIsMap ==
  ASSUME NEW f, NEW K, NEW V, IsMap(f, K, V), NEW D
  PROVE  IsMap(Without(f, D), K, V)
BY Zenon DEF IsMap, Without

\* Notifying changes nothing but notification indices.
SameButIndex(m1, m2) ==
  /\ DOMAIN m1 = DOMAIN m2
  /\ \A i \in DOMAIN m1 : /\ m2[i] = [m1[i] EXCEPT !.index = m2[i].index]
                          /\ m2[i].index \in {m1[i].index, m1[i].index + 1}

\* IncrementNotificationIndicesFor... keeps the records but for their indices.
LEMMA NotifyingKeepsRecords ==
  ASSUME NEW m, IsMap(m, Subs, SubRecords), NEW v
  PROVE  /\ IsMap(NotifiedForOps(m, v), Subs, SubRecords)
         /\ IsMap(NotifiedForConstraints(m, v), Subs, SubRecords)
         /\ SameButIndex(m, NotifiedForOps(m, v))
         /\ SameButIndex(m, NotifiedForConstraints(m, v))
<1>1. \A i \in DOMAIN m : m[i] \in SubRecords
  BY Zenon DEF IsMap
<1>2. \A i \in DOMAIN m : /\ [m[i] EXCEPT !.index = @ + 1] \in SubRecords
                          /\ [m[i] EXCEPT !.index = @ + 1].index = m[i].index + 1
                          /\ m[i] = [m[i] EXCEPT !.index = m[i].index]
                          /\ [m[i] EXCEPT !.index = @ + 1] = [m[i] EXCEPT !.index = m[i].index + 1]
  BY <1>1 DEF SubRecords
<1> QED
  BY <1>1, <1>2, Zenon DEF IsMap, NotifiedForOps, NotifiedForConstraints, SameButIndex

-----------------------------------------------------------------------------
(* Subscriptions grow when an OIR is attached to them.                     *)

\* t is s, possibly extended in area and time.
Grown(s, t) ==
  /\ t.manager = s.manager /\ t.implicit = s.implicit
  /\ Levelify(s.cells) \subseteq Levelify(t.cells)
  /\ t.start <= s.start /\ t.end >= s.end
  /\ t.index >= s.index

\* A time that is not later than another is within any skew of it.
LEMMA NoLaterIsWithinSkew ==
  ASSUME NEW a \in Int, NEW b \in Int, NEW k \in Nat, a <= b
  PROVE  a - b <= k
OBVIOUS

\* What starts earlier than something within the skew is within the skew.
LEMMA EarlierStartsWithinSkew ==
  ASSUME NEW a \in Int, NEW b \in Int, NEW c \in Int, NEW k \in Int, a <= b, b - c <= k
  PROVE  a - c <= k
OBVIOUS

\* The order of times is transitive.
LEMMA NoLaterTransitive ==
  ASSUME NEW a \in Int, NEW b \in Int, NEW c \in Int, a <= b, b <= c
  PROVE  a <= c
OBVIOUS

\* The fields of a subscription that the lemmas on growing compare.
LEMMA SubFields ==
  ASSUME NEW s \in SubRecords
  PROVE  s.start \in Int /\ s.end \in Int /\ s.index \in Int
BY DEF SubRecords

\* The times of an OIR.
LEMMA OIRFields ==
  ASSUME NEW oir \in OIRRecords
  PROVE  oir.start \in Int /\ oir.end \in Int
BY Zenon DEF OIRRecords

\* Extending a subscription and then notifying it grows it.
LEMMA GrownTransitive ==
  ASSUME NEW s \in SubRecords, NEW t \in SubRecords, NEW u \in SubRecords,
         Grown(s, t), Grown(t, u)
  PROVE  Grown(s, u)
<1>1. /\ s.start \in Int /\ s.end \in Int /\ s.index \in Int
      /\ t.start \in Int /\ t.end \in Int /\ t.index \in Int
      /\ u.start \in Int /\ u.end \in Int /\ u.index \in Int
  BY SubFields, Zenon
<1>2. u.start <= s.start /\ u.end >= s.end /\ u.index >= s.index
  BY <1>1 DEF Grown
<1>3. Levelify(s.cells) \subseteq Levelify(u.cells)
  BY Zenon DEF Grown
<1> QED
  BY <1>2, <1>3, Zenon DEF Grown

\* A grown subscription covers what it covered.
LEMMA GrownCovers ==
  ASSUME NEW s \in SubRecords, NEW t \in SubRecords, NEW v \in OIRVolumes,
         Grown(s, t), Covers(s, v)
  PROVE  Covers(t, v)
<1>1. /\ s.start \in Int /\ s.end \in Int /\ t.start \in Int /\ t.end \in Int
      /\ v.start \in Int /\ v.end \in Int
  BY SubFields, ScdAssumption, Zenon
<1> QED
  BY <1>1 DEF Grown, Covers, Contains

\* ensureSubscriptionCoversOIR makes a subscription cover the OIR and only grows it.
LEMMA ExtendedGrows ==
  ASSUME NEW s \in SubRecords, NEW v \in OIRVolumes
  PROVE  /\ Extended(s, v) \in SubRecords
         /\ Grown(s, Extended(s, v))
         /\ Covers(Extended(s, v), v)
         /\ Extended(s, v).manager = s.manager
<1> DEFINE cells == IF Contains(s.cells, v.cells) THEN s.cells
                    ELSE CellUnionFromUnion(s.cells, v.cells)
<1>1. s.cells \in CellUnions /\ v.cells \in CellUnions /\ v.start \in Int /\ v.end \in Int
  BY ScdAssumption, Zenon DEF SubRecords, CellUnions
<1>2. /\ cells \in CellUnions
      /\ Levelify(s.cells) \subseteq Levelify(cells)
      /\ Levelify(v.cells) \subseteq Levelify(cells)
  BY <1>1, NormalizingKeepsArea, Zenon DEF Contains
<1>3. Extended(s, v) = [s EXCEPT !.start = Earlier(s.start, v.start),
                                 !.end   = Later(s.end, v.end), !.cells = cells]
  BY Zenon DEF Extended
<1>4. /\ Earlier(s.start, v.start) \in Int /\ Later(s.end, v.end) \in Int
      /\ Earlier(s.start, v.start) <= s.start /\ Earlier(s.start, v.start) <= v.start
      /\ Later(s.end, v.end) >= s.end /\ Later(s.end, v.end) >= v.end
  BY <1>1 DEF Earlier, Later, SubRecords
<1>5. /\ Extended(s, v).start = Earlier(s.start, v.start)
      /\ Extended(s, v).end = Later(s.end, v.end)
      /\ Extended(s, v).cells = cells
      /\ Extended(s, v).manager = s.manager
      /\ Extended(s, v).implicit = s.implicit
      /\ Extended(s, v).index = s.index /\ s.index \in Nat
      /\ Extended(s, v) \in SubRecords
  BY <1>2, <1>3, <1>4, Zenon DEF SubRecords
<1> QED
  BY <1>2, <1>4, <1>5 DEF Grown, Covers, Contains

\* A is subs with the subscription sub, if there is one, made to serve m in v.
GrownFor(A, m, v, sub) ==
  /\ IsMap(A, Subs, SubRecords)
  /\ DOMAIN A = DOMAIN subs \cup ({sub} \ {None})
  /\ \A i \in DOMAIN subs : Grown(subs[i], A[i])
  /\ sub # None => A[sub].manager = m /\ Covers(A[sub], v)

\* Creating or extending a subscription for an OIR (resolveSubscription) makes it
\* serve the OIR and shrinks no subscription.
LEMMA AttachingGrows ==
  ASSUME NEW m \in Managers, NEW v \in OIRVolumes, NEW sub \in Subs \cup {None},
         NEW implicit \in BOOLEAN, NEW forCons \in BOOLEAN,
         IsMap(subs, Subs, SubRecords), CanAttach(m, v, sub, implicit)
  PROVE  GrownFor(Attached(m, v, sub, implicit, forCons), m, v, sub)
<1> DEFINE A == Attached(m, v, sub, implicit, forCons)
           new == IF implicit THEN NewImplicitSubscription(m, v, forCons) ELSE Extended(subs[sub], v)
<1>1. \A i \in DOMAIN subs : subs[i] \in SubRecords /\ Grown(subs[i], subs[i])
  BY DEF IsMap, Grown, SubRecords
<1>2. CASE sub = None
  BY <1>1, <1>2, Zenon DEF Attached, GrownFor
<1>3. CASE sub # None
  <2>1. sub \in Subs /\ A = Put(subs, sub, new)
    BY <1>3, Zenon DEF Attached
  <2>2. /\ new \in SubRecords /\ new.manager = m /\ Covers(new, v)
        /\ sub \in DOMAIN subs => Grown(subs[sub], new)
    <3>1. CASE implicit
      <4>1. v.cells \in CellUnions /\ v.start \in Int /\ v.end \in Int
        BY ScdAssumption, Zenon DEF CellUnions
      <4>2. sub \notin DOMAIN subs
        BY <3>1, Zenon DEF CanAttach
      <4> QED
        BY <3>1, <4>1, <4>2 DEF NewImplicitSubscription, SubRecords, Covers, Contains
    <3>2. CASE ~ implicit
      <4>1. sub \in DOMAIN subs /\ subs[sub].manager = m
        BY <3>2, <1>3, Zenon DEF CanAttach
      <4> QED
        BY <3>2, <4>1, <1>1, ExtendedGrows, Zenon
    <3> QED
      BY <3>1, <3>2, Zenon
  <2>3. IsMap(A, Subs, SubRecords)
    BY <2>1, <2>2, PutIsMap, Zenon
  <2>4. DOMAIN A = DOMAIN subs \cup {sub} /\ A[sub] = new
        /\ \A i \in DOMAIN subs : i # sub => A[i] = subs[i]
    BY <2>1, Zenon DEF Put
  <2> QED
    BY <1>1, <1>3, <2>2, <2>3, <2>4, Zenon DEF GrownFor
<1> QED
  BY <1>2, <1>3, Zenon

-----------------------------------------------------------------------------
(* Type correctness.                                                       *)

\* The OVNs read from the repository are OVNs.
LEMMA OVNsHaveTheirType ==
  ASSUME TypeOK
  PROVE  /\ \A o \in DOMAIN oirs : OVN(o) \in OVNs
         /\ \A c \in DOMAIN cons : ConstraintOVN(c) \in OVNs
         /\ \A o, v : RelevantOVNs(o, v) \subseteq OVNs
         /\ \A o : PastOVNs(o) \subseteq OVNs
<1>1. ASSUME NEW o \in DOMAIN oirs PROVE OVN(o) \in OVNs /\ oirs[o].past \subseteq OVNs
  <2>1. o \in OIRs /\ oirs[o] \in OIRRecords
    BY Zenon DEF TypeOK, IsMap
  <2>2. /\ oirs[o].requested \in Suffixes \cup {None} /\ oirs[o].updatedAt \in Int
        /\ oirs[o].past \subseteq OVNs
    BY <2>1 DEF OIRRecords
  <2> QED
    BY <2>1, <2>2, Zenon DEF OVN, OVNs, IDs
<1>2. ASSUME NEW c \in DOMAIN cons PROVE ConstraintOVN(c) \in OVNs
  <2>1. c \in Constraints /\ cons[c] \in ConstraintRecords
    BY Zenon DEF TypeOK, IsMap
  <2>2. cons[c].updatedAt \in Int
    BY <2>1 DEF ConstraintRecords
  <2> QED
    BY <2>1, <2>2, Zenon DEF ConstraintOVN, OVNs, IDs
<1> QED
  BY <1>1, <1>2, Zenon DEF RelevantOVNs, PastOVNs, MatchingOIRs, MatchingConstraints

\* Every operation of pkg/scd/operations, and eviction, keeps the records well formed.
LEMMA TypeStep == TypeOK /\ [Next]_vars => TypeOK'
<1> SUFFICES ASSUME TypeOK, [Next]_vars PROVE TypeOK'
  BY Zenon
<1>maps. /\ IsMap(oirs, OIRs, OIRRecords) /\ IsMap(subs, Subs, SubRecords)
         /\ IsMap(cons, Constraints, ConstraintRecords)
         /\ IsMap(avail, Managers, AvailabilityStates)
         /\ IsMap(keys, OIRs, KeyRecords) /\ DOMAIN keys = DOMAIN oirs
         /\ given \subseteq [ovn : OIRs \X Suffixes, at : Nat]
         /\ now \in Nat /\ seq \in Nat
  BY Zenon DEF TypeOK
<1>seq. seq + 1 \in Nat
  BY DEF TypeOK
<1>vol. \A v \in OIRVolumes : /\ v.cells \in SUBSET Leaf /\ v.alts \in SUBSET Int
                              /\ v.start \in Int /\ v.end \in Int
  BY ScdAssumption, Zenon
<1>1. CASE PutSomeOIR
  <2>a. PICK o \in OIRs, m \in Managers, st \in States, v \in OIRVolumes,
             sub \in Subs \cup {None}, implicit \in BOOLEAN, forCons \in BOOLEAN,
             sfx \in Suffixes \cup {None} :
               \E key \in SUBSET RelevantOVNs(o, v) :
                 PutOIR(o, m, st, v, sub, implicit, forCons, sfx, key)
    BY <1>1, Zenon DEF PutSomeOIR
  <2>put. PICK key \in SUBSET RelevantOVNs(o, v) :
            PutOIR(o, m, st, v, sub, implicit, forCons, sfx, key)
    BY <2>a, Zenon
  <2> DEFINE A == Attached(m, v, sub, implicit, forCons)
             rec == [manager |-> m, state |-> st, sub |-> sub, cells |-> v.cells,
                     alts |-> v.alts, start |-> v.start, end |-> v.end,
                     requested |-> sfx, past |-> PastOVNs(o), updatedAt |-> seq + 1]
             knew == [ovns |-> key, down |-> {x \in Managers : Availability(x) = "Down"}]
  <2>1. /\ CanAttach(m, v, sub, implicit)
        /\ subs' = NotifiedForOps(Without(A, Replaced(o, sub)), NotifyVolume(o, v))
        /\ oirs' = Put(oirs, o, rec) /\ keys' = Put(keys, o, knew)
        /\ seq' = seq + 1 /\ UNCHANGED <<cons, avail, now>>
    BY <2>put, Zenon DEF PutOIR
  <2>2. rec \in OIRRecords
    <3>1. st \in OIRStates
      BY ScdAssumption, Zenon DEF OIRStates
    <3>2. PastOVNs(o) \subseteq OVNs /\ seq + 1 \in Nat
      BY <1>maps, OVNsHaveTheirType
    <3>3. v.cells \in SUBSET Leaf /\ v.alts \in SUBSET Int /\ v.start \in Int /\ v.end \in Int
      BY <1>vol, Zenon
    <3> QED
      BY <3>1, <3>2, <3>3, Zenon DEF OIRRecords
  <2>3. knew \in KeyRecords
    BY OVNsHaveTheirType, Zenon DEF KeyRecords
  <2>4. IsMap(subs', Subs, SubRecords)
    <3>a. GrownFor(A, m, v, sub)
      BY <2>1, <1>maps, AttachingGrows, Zenon
    <3>1. IsMap(A, Subs, SubRecords)
      BY <3>a, Zenon DEF GrownFor
    <3>2. IsMap(Without(A, Replaced(o, sub)), Subs, SubRecords)
      BY <3>1, WithoutIsMap, Zenon
    <3> QED
      BY <2>1, <3>2, NotifyingKeepsRecords, Zenon
  <2>5. IsMap(oirs', OIRs, OIRRecords) /\ IsMap(keys', OIRs, KeyRecords)
    BY <2>1, <2>2, <2>3, <1>maps, PutIsMap, Zenon
  <2>6. DOMAIN keys' = DOMAIN oirs'
    BY <2>1, <1>maps, Zenon DEF Put
  <2>7. cons' = cons /\ avail' = avail /\ now' = now /\ seq' \in Nat
    BY <2>1, <1>seq, Zenon
  <2>8. given' \subseteq [ovn : OIRs \X Suffixes, at : Nat]
    <3>1. CASE sfx = None
      BY <2>put, <3>1, <1>maps, Zenon DEF PutOIR
    <3>2. CASE sfx # None
      <4>1. given' = given \cup {[ovn |-> <<o, sfx>>, at |-> now]}
        BY <2>put, <3>2, Zenon DEF PutOIR
      <4>2. [ovn |-> <<o, sfx>>, at |-> now] \in [ovn : OIRs \X Suffixes, at : Nat]
        BY <3>2, <1>maps, Zenon
      <4> QED
        BY <4>1, <4>2, <1>maps, Zenon
    <3> QED
      BY <3>1, <3>2, Zenon
  <2> QED
    BY <2>4, <2>5, <2>6, <2>7, <2>8, <1>maps, Zenon DEF TypeOK
<1>2. ASSUME NEW o \in OIRs, DeleteOIR(o) PROVE TypeOK'
  <2>1. /\ IsMap(subs', Subs, SubRecords)
        /\ IsMap(oirs', OIRs, OIRRecords) /\ IsMap(keys', OIRs, KeyRecords)
    BY <1>2, <1>maps, WithoutIsMap, NotifyingKeepsRecords, Zenon DEF DeleteOIR
  <2>2. DOMAIN keys' = DOMAIN oirs'
    BY <1>2, <1>maps, Zenon DEF DeleteOIR, Without
  <2> QED
    BY <1>2, <2>1, <2>2, <1>maps DEF DeleteOIR, TypeOK
<1>3. ASSUME NEW i \in Subs, NEW m \in Managers, NEW v \in SubVolumes,
             NEW forOps \in BOOLEAN, NEW forCons \in BOOLEAN, PutSub(i, m, v, forOps, forCons)
      PROVE  TypeOK'
  <2> DEFINE s == [manager |-> m, index |-> IF i \in DOMAIN subs THEN subs[i].index ELSE 0,
                   notifyOps |-> forOps, notifyCons |-> forCons, implicit |-> FALSE,
                   cells |-> v.cells, start |-> AdjustedStart(i, v), end |-> AdjustedEnd(i, v)]
  <2>1. subs' = Put(subs, i, s) /\ seq' = seq + 1 /\ UNCHANGED <<oirs, cons, avail, keys, given, now>>
    BY <1>3, Zenon DEF PutSub, KeptIndex
  <2>2. i \in DOMAIN subs => subs[i].index \in Nat /\ subs[i].start \in Int /\ subs[i].end \in Int
    BY <1>maps, Zenon DEF IsMap, SubRecords
  <2>3. v.cells \in CellUnions /\ v.start \in Int \cup {None} /\ v.end \in Int \cup {None}
    BY ScdAssumption, Zenon DEF CellUnions
  <2>4. AdjustedStart(i, v) \in Int
    BY <2>2, <2>3, <1>maps DEF AdjustedStart
  <2>5. AdjustedEnd(i, v) \in Int
    BY <2>2, <2>3, <2>4, ScdAssumption DEF AdjustedEnd
  <2>6. s \in SubRecords
    BY <2>2, <2>3, <2>4, <2>5, Zenon DEF SubRecords
  <2>7. IsMap(subs', Subs, SubRecords)
    BY <2>1, <2>6, <1>maps, PutIsMap, Zenon
  <2>8. /\ oirs' = oirs /\ cons' = cons /\ avail' = avail /\ keys' = keys /\ now' = now
        /\ given' = given /\ seq' \in Nat
    BY <2>1, <1>seq, Zenon
  <2> QED
    BY <2>7, <2>8, <1>maps, Zenon DEF TypeOK
<1>4. ASSUME NEW i \in Subs, DeleteSub(i) PROVE TypeOK'
  <2>1. IsMap(subs', Subs, SubRecords)
    BY <1>4, <1>maps, WithoutIsMap, Zenon DEF DeleteSub
  <2> QED
    BY <1>4, <2>1, <1>maps DEF DeleteSub, TypeOK
<1>5. ASSUME NEW c \in Constraints, NEW m \in Managers, NEW v \in OIRVolumes, PutConstraint(c, m, v)
      PROVE  TypeOK'
  <2> DEFINE rec == [manager |-> m, cells |-> v.cells, start |-> v.start,
                     end |-> v.end, updatedAt |-> seq + 1]
  <2>1. rec \in ConstraintRecords
    BY <1>vol, <1>maps DEF ConstraintRecords
  <2>2. IsMap(cons', Constraints, ConstraintRecords)
    BY <1>5, <2>1, <1>maps, PutIsMap, Zenon DEF PutConstraint
  <2>3. IsMap(subs', Subs, SubRecords)
    BY <1>5, <1>maps, NotifyingKeepsRecords, Zenon DEF PutConstraint
  <2>4. oirs' = oirs /\ avail' = avail /\ keys' = keys /\ given' = given /\ now' = now /\ seq' \in Nat
    BY <1>5, <1>seq, Zenon DEF PutConstraint
  <2> QED
    BY <2>2, <2>3, <2>4, <1>maps, Zenon DEF TypeOK
<1>6. ASSUME NEW c \in Constraints, DeleteConstraint(c) PROVE TypeOK'
  <2>1. IsMap(cons', Constraints, ConstraintRecords) /\ IsMap(subs', Subs, SubRecords)
    BY <1>6, <1>maps, WithoutIsMap, NotifyingKeepsRecords, Zenon DEF DeleteConstraint
  <2> QED
    BY <1>6, <2>1, <1>maps DEF DeleteConstraint, TypeOK
<1>7. ASSUME NEW m \in Managers, NEW a \in Availabilities, SetAvailability(m, a) PROVE TypeOK'
  <2>1. a \in AvailabilityStates
    BY ScdAssumption, Zenon DEF AvailabilityStates
  <2>2. IsMap(avail', Managers, AvailabilityStates)
    BY <1>7, <2>1, <1>maps, PutIsMap, Zenon DEF SetAvailability
  <2> QED
    BY <1>7, <2>2, <1>maps DEF SetAvailability, TypeOK
<1>8. ASSUME NEW batch \in SUBSET DOMAIN oirs, EvictOIRs(batch) PROVE TypeOK'
  <2>1. IsMap(oirs', OIRs, OIRRecords) /\ IsMap(keys', OIRs, KeyRecords)
    BY <1>8, <1>maps, WithoutIsMap, Zenon DEF EvictOIRs
  <2>2. DOMAIN keys' = DOMAIN oirs'
    BY <1>8, <1>maps, Zenon DEF EvictOIRs, Without
  <2> QED
    BY <1>8, <2>1, <2>2, <1>maps, Zenon DEF EvictOIRs, TypeOK
<1>9. ASSUME NEW batch \in SUBSET DOMAIN subs, EvictSubs(batch) PROVE TypeOK'
  <2>1. /\ IsMap(oirs', OIRs, OIRRecords) /\ IsMap(keys', OIRs, KeyRecords)
        /\ IsMap(subs', Subs, SubRecords)
    BY <1>9, <1>maps, WithoutIsMap, Zenon DEF EvictSubs
  <2>2. DOMAIN keys' = DOMAIN oirs'
    BY <1>9, <1>maps, Zenon DEF EvictSubs, Without
  <2> QED
    BY <1>9, <2>1, <2>2, <1>maps, Zenon DEF EvictSubs, TypeOK
<1>10. CASE Tick
  BY <1>10, <1>maps DEF Tick, TypeOK
<1>11. CASE UNCHANGED vars
  BY <1>11, <1>maps, Zenon DEF vars, TypeOK
<1>a. CASE OIRStep
  BY <1>a, <1>1, <1>2, Zenon DEF OIRStep, DeleteSomeOIR
<1>b. CASE SubStep
  BY <1>b, <1>3, <1>4, Zenon DEF SubStep, PutSomeSub, DeleteSomeSub
<1>c. CASE ConstraintStep
  BY <1>c, <1>5, <1>6, Zenon DEF ConstraintStep, PutSomeConstraint, DeleteSomeConstraint
<1>d. CASE AvailabilityStep
  BY <1>d, <1>7, Zenon DEF AvailabilityStep
<1>e. CASE EvictionStep
  BY <1>e, <1>8, <1>9, Zenon DEF EvictionStep
<1> QED
  BY <1>a, <1>b, <1>c, <1>d, <1>e, <1>10, <1>11, Zenon DEF Next

-----------------------------------------------------------------------------
(* An OIR is served by the subscription it is attached to.                 *)

Served(oir, S) ==
  /\ oir.state # "Accepted" => oir.sub # None
  /\ oir.sub # None => /\ oir.sub \in DOMAIN S
                       /\ S[oir.sub].manager = oir.manager
                       /\ CoversDependent(S[oir.sub], oir)

\* The two invariants on attached subscriptions, as one statement on each OIR.
LEMMA ServedMeans ==
  (\A o \in DOMAIN oirs : Served(oirs[o], subs))
    <=> AttachedSubscriptionExists /\ AttachedSubscriptionCovers
BY Zenon DEF Served, AttachedSubscriptionExists, AttachedSubscriptionCovers

\* Growing its subscription keeps an OIR served.
LEMMA GrowingKeepsServing ==
  ASSUME NEW oir \in OIRRecords, NEW S, NEW T,
         IsMap(S, Subs, SubRecords), IsMap(T, Subs, SubRecords), Served(oir, S),
         oir.sub # None => oir.sub \in DOMAIN T /\ Grown(S[oir.sub], T[oir.sub])
  PROVE  Served(oir, T)
<1> SUFFICES ASSUME oir.sub # None
             PROVE  T[oir.sub].manager = oir.manager /\ CoversDependent(T[oir.sub], oir)
  BY Zenon DEF Served
<1> DEFINE s == S[oir.sub]
           t == T[oir.sub]
<1>1. s \in SubRecords /\ t \in SubRecords /\ Grown(s, t)
  BY Zenon DEF Served, IsMap
<1>2. s.start \in Int /\ s.end \in Int /\ t.start \in Int /\ t.end \in Int
  BY <1>1, SubFields, Zenon
<1>3. oir.start \in Int /\ oir.end \in Int /\ Skew \in Int
  BY ScdAssumption, OIRFields
<1>4. s.manager = oir.manager /\ CoversDependent(s, oir)
  BY Zenon DEF Served
<1>5. Contains(t.cells, oir.cells) /\ t.manager = oir.manager
  BY <1>1, <1>4, Zenon DEF Grown, CoversDependent, Contains
<1>6. /\ t.start <= s.start /\ s.start - oir.start <= Skew
      /\ s.end <= t.end /\ oir.end <= s.end
  BY <1>1, <1>4, <1>2, <1>3, Zenon DEF Grown, CoversDependent
<1>7. t.start - oir.start <= Skew /\ oir.end <= t.end
  BY <1>2, <1>3, <1>6, EarlierStartsWithinSkew, NoLaterTransitive, Zenon
<1> QED
  BY <1>2, <1>3, <1>5, <1>7, Zenon DEF CoversDependent

\* Notifying neither grows nor shrinks a subscription.
LEMMA SameButIndexGrows ==
  ASSUME NEW S, NEW T, IsMap(S, Subs, SubRecords), SameButIndex(S, T)
  PROVE  DOMAIN S = DOMAIN T /\ \A i \in DOMAIN S : Grown(S[i], T[i]) /\ T[i].implicit = S[i].implicit
<1> SUFFICES ASSUME NEW i \in DOMAIN S PROVE Grown(S[i], T[i])
  BY Zenon DEF SameButIndex, Grown
<1>1. S[i] \in SubRecords /\ T[i] = [S[i] EXCEPT !.index = T[i].index]
  BY Zenon DEF IsMap, SameButIndex
<1>2. /\ T[i].manager = S[i].manager /\ T[i].implicit = S[i].implicit
      /\ T[i].cells = S[i].cells /\ T[i].start = S[i].start /\ T[i].end = S[i].end
  BY <1>1, Zenon DEF SubRecords
<1>3. S[i].index \in Nat /\ T[i].index >= S[i].index
  BY <1>1 DEF SubRecords, SameButIndex
<1> QED
  BY <1>1, <1>2, <1>3 DEF Grown, SubRecords

SubsAfterPut(o, m, v, sub) ==
  /\ DOMAIN subs' = (DOMAIN subs \cup ({sub} \ {None})) \ Replaced(o, sub)
  /\ \A i \in DOMAIN subs \ Replaced(o, sub) : Grown(subs[i], subs'[i])
  /\ sub # None => /\ sub \in DOMAIN subs' /\ subs'[sub].manager = m
                   /\ Covers(subs'[sub], v)

\* The subscriptions after PutOIR: those replaced are gone, the others have
\* grown, and the attached one belongs to the manager and covers the volume.
LEMMA PutOIRSubscriptions ==
  ASSUME TypeOK, TypeOK',
         NEW o \in OIRs, NEW m \in Managers, NEW st, NEW v \in OIRVolumes,
         NEW sub \in Subs \cup {None}, NEW implicit \in BOOLEAN, NEW forCons \in BOOLEAN,
         NEW sfx, NEW key, PutOIR(o, m, st, v, sub, implicit, forCons, sfx, key)
  PROVE  SubsAfterPut(o, m, v, sub)
<1> DEFINE A == Attached(m, v, sub, implicit, forCons)
           B == Without(A, Replaced(o, sub))
<1>1. CanAttach(m, v, sub, implicit) /\ subs' = NotifiedForOps(B, NotifyVolume(o, v))
  BY Zenon DEF PutOIR
<1>2. /\ IsMap(A, Subs, SubRecords)
      /\ DOMAIN A = DOMAIN subs \cup ({sub} \ {None})
      /\ \A i \in DOMAIN subs : Grown(subs[i], A[i])
      /\ sub # None => A[sub].manager = m /\ Covers(A[sub], v)
  <2>1. IsMap(subs, Subs, SubRecords)
    BY Zenon DEF TypeOK
  <2>2. GrownFor(A, m, v, sub)
    BY <1>1, <2>1, AttachingGrows, Zenon
  <2> QED
    BY <2>2, Zenon DEF GrownFor
<1>3. IsMap(B, Subs, SubRecords)
  BY <1>2, WithoutIsMap, Zenon
<1>4. DOMAIN B = DOMAIN A \ Replaced(o, sub) /\ \A i \in DOMAIN B : B[i] = A[i]
  BY Zenon DEF Without
<1>5. DOMAIN subs' = DOMAIN B /\ \A i \in DOMAIN B : Grown(B[i], subs'[i])
  BY <1>1, <1>3, NotifyingKeepsRecords, SameButIndexGrows, Zenon
<1>6. sub \notin Replaced(o, sub)
  BY Zenon DEF Replaced
<1>7. ASSUME NEW i \in DOMAIN subs \ Replaced(o, sub) PROVE Grown(subs[i], subs'[i])
  <2>1. i \in DOMAIN B /\ i \in DOMAIN A /\ Grown(subs[i], A[i]) /\ Grown(A[i], subs'[i])
    BY <1>2, <1>4, <1>5, Zenon
  <2>2. subs[i] \in SubRecords /\ A[i] \in SubRecords /\ subs'[i] \in SubRecords
    BY <2>1, <1>2, <1>5, Zenon DEF TypeOK, IsMap
  <2> QED
    BY <2>1, <2>2, GrownTransitive, Zenon
<1>8. ASSUME sub # None
      PROVE  sub \in DOMAIN subs' /\ subs'[sub].manager = m /\ Covers(subs'[sub], v)
  <2>1. sub \in DOMAIN B /\ B[sub] = A[sub] /\ Grown(A[sub], subs'[sub])
    BY <1>2, <1>4, <1>5, <1>6, <1>8, Zenon
  <2>2. A[sub] \in SubRecords /\ subs'[sub] \in SubRecords
    BY <2>1, <1>2, <1>4, <1>5, Zenon DEF TypeOK, IsMap
  <2>3. Covers(subs'[sub], v)
    BY <2>1, <2>2, <1>2, <1>8, GrownCovers, Zenon
  <2>4. subs'[sub].manager = m
    BY <2>1, <1>2, <1>8, Zenon DEF Grown
  <2> QED
    BY <2>1, <2>3, <2>4, <1>5, Zenon
<1> QED
  BY <1>2, <1>4, <1>5, <1>7, <1>8, Zenon DEF SubsAfterPut

AllServed == \A o \in DOMAIN oirs : Served(oirs[o], subs)

\* A step keeps an OIR served that it does not write, if the subscription of the
\* OIR survives and does not shrink.
LEMMA UntouchedStaysServed ==
  ASSUME TypeOK, TypeOK', AllServed, NEW x \in DOMAIN oirs, oirs'[x] = oirs[x],
         oirs[x].sub # None => oirs[x].sub \in DOMAIN subs' /\ Grown(subs[oirs[x].sub], subs'[oirs[x].sub])
  PROVE  Served(oirs'[x], subs')
BY GrowingKeepsServing, Zenon DEF TypeOK, IsMap, AllServed

\* A subscription that nothing is done to has trivially not shrunk.
LEMMA GrownReflexive ==
  ASSUME NEW S, IsMap(S, Subs, SubRecords), NEW i \in DOMAIN S
  PROVE  Grown(S[i], S[i])
BY DEF IsMap, Grown, SubRecords

\* Every operation, and eviction, leaves every OIR served.
LEMMA ServedStep == TypeOK /\ TypeOK' /\ AllServed /\ [Next]_vars => AllServed'
<1> SUFFICES ASSUME TypeOK, TypeOK', AllServed, [Next]_vars PROVE AllServed'
  BY Zenon
<1>maps. IsMap(oirs, OIRs, OIRRecords) /\ IsMap(subs, Subs, SubRecords)
  BY Zenon DEF TypeOK
<1>refl. \A i \in DOMAIN subs : Grown(subs[i], subs[i])
  BY <1>maps, GrownReflexive, Zenon
<1>sub. \A x \in DOMAIN oirs : oirs[x].sub # None => oirs[x].sub \in DOMAIN subs
  BY Zenon DEF AllServed, Served
<1>1. CASE PutSomeOIR
  <2>a. PICK o \in OIRs, m \in Managers, st \in States, v \in OIRVolumes,
             sub \in Subs \cup {None}, implicit \in BOOLEAN, forCons \in BOOLEAN,
             sfx \in Suffixes \cup {None} :
               \E key \in SUBSET RelevantOVNs(o, v) :
                 PutOIR(o, m, st, v, sub, implicit, forCons, sfx, key)
    BY <1>1, Zenon DEF PutSomeOIR
  <2>put. PICK key \in SUBSET RelevantOVNs(o, v) :
            PutOIR(o, m, st, v, sub, implicit, forCons, sfx, key)
    BY <2>a, Zenon
  <2> SUFFICES ASSUME NEW x \in DOMAIN oirs' PROVE Served(oirs'[x], subs')
    BY Zenon DEF AllServed
  <2>1. /\ DOMAIN subs' = (DOMAIN subs \cup ({sub} \ {None})) \ Replaced(o, sub)
        /\ \A i \in DOMAIN subs \ Replaced(o, sub) : Grown(subs[i], subs'[i])
        /\ sub # None => /\ sub \in DOMAIN subs' /\ subs'[sub].manager = m
                         /\ Covers(subs'[sub], v)
    <3>1. SubsAfterPut(o, m, v, sub)
      BY <2>put, PutOIRSubscriptions, Zenon
    <3> QED
      BY <3>1, Zenon DEF SubsAfterPut
  <2>2. /\ DOMAIN oirs' = DOMAIN oirs \cup {o}
        /\ \A y \in DOMAIN oirs : y # o => oirs'[y] = oirs[y]
    BY <2>put, Zenon DEF PutOIR, Put
  <2>3. CASE x = o
    <3>1. /\ oirs'[o].sub = sub /\ oirs'[o].manager = m /\ oirs'[o].state = st
          /\ oirs'[o].cells = v.cells /\ oirs'[o].start = v.start /\ oirs'[o].end = v.end
      BY <2>put, Zenon DEF PutOIR, Put
    <3>2. st # "Accepted" => sub # None
      BY <2>put, Zenon DEF PutOIR, ValidOIRParams
    <3>3. ASSUME sub # None PROVE CoversDependent(subs'[sub], oirs'[o])
      <4>1. subs'[sub] \in SubRecords
        BY <2>1, <3>3, Zenon DEF TypeOK, IsMap
      <4>2. /\ subs'[sub].start \in Int /\ v.start \in Int /\ Skew \in Nat
            /\ subs'[sub].start <= v.start
        BY <4>1, <2>1, <3>3, SubFields, ScdAssumption, Zenon DEF Covers
      <4>3. subs'[sub].start - v.start <= Skew
        BY <4>2, NoLaterIsWithinSkew, Zenon
      <4> QED
        BY <4>2, <4>3, <2>1, <3>1, <3>3, Zenon DEF CoversDependent, Covers
    <3> QED
      BY <2>1, <2>3, <3>1, <3>2, <3>3, Zenon DEF Served
  <2>4. CASE x # o
    <3>1. x \in DOMAIN oirs /\ oirs'[x] = oirs[x]
      BY <2>2, <2>4, Zenon
    <3>2. oirs[x].sub \notin Replaced(o, sub)
      BY <3>1, <2>4, Zenon DEF Replaced, ImplicitAndOnlyAttachedTo, Dependents
    <3> QED
      BY <3>1, <3>2, <2>1, <1>sub, UntouchedStaysServed, Zenon
  <2> QED
    BY <2>3, <2>4, Zenon
<1>2. ASSUME NEW o \in OIRs, DeleteOIR(o) PROVE AllServed'
  <2> SUFFICES ASSUME NEW x \in DOMAIN oirs' PROVE Served(oirs'[x], subs')
    BY Zenon DEF AllServed
  <2> DEFINE N == NotifiedForOps(subs, oirs[o])
  <2>1. x \in DOMAIN oirs /\ x # o /\ oirs'[x] = oirs[x]
    BY <1>2, Zenon DEF DeleteOIR, Without
  <2>2. DOMAIN N = DOMAIN subs /\ \A i \in DOMAIN subs : Grown(subs[i], N[i])
    BY <1>maps, NotifyingKeepsRecords, SameButIndexGrows, Zenon
  <2>3. oirs[x].sub \notin Replaced(o, None)
    BY <2>1, Zenon DEF Replaced, ImplicitAndOnlyAttachedTo, Dependents
  <2>4. /\ DOMAIN subs' = DOMAIN N \ Replaced(o, None)
        /\ \A i \in DOMAIN subs' : subs'[i] = N[i]
    BY <1>2, Zenon DEF DeleteOIR, Without
  <2> QED
    BY <2>1, <2>2, <2>3, <2>4, <1>sub, UntouchedStaysServed, Zenon
<1>3. ASSUME NEW i \in Subs, NEW m \in Managers, NEW v \in SubVolumes,
             NEW forOps \in BOOLEAN, NEW forCons \in BOOLEAN, PutSub(i, m, v, forOps, forCons)
      PROVE  AllServed'
  <2> SUFFICES ASSUME NEW x \in DOMAIN oirs' PROVE Served(oirs'[x], subs')
    BY Zenon DEF AllServed
  <2>1. /\ oirs' = oirs /\ DOMAIN subs' = DOMAIN subs \cup {i}
        /\ \A j \in DOMAIN subs : j # i => subs'[j] = subs[j]
    BY <1>3, Zenon DEF PutSub, Put
  <2>2. CASE oirs[x].sub # i
    BY <2>1, <2>2, <1>refl, <1>sub, UntouchedStaysServed, Zenon
  <2>3. CASE oirs[x].sub = i
    <3>1. i # None
      BY ScdAssumption, Zenon
    <3>2. i \in DOMAIN subs /\ subs[i].manager = oirs[x].manager
      BY <2>1, <2>3, <3>1, Zenon DEF AllServed, Served
    <3>3. x \in Dependents(i)
      BY <2>1, <2>3, Zenon DEF Dependents
    <3>4. subs'[i].manager = m /\ subs[i].manager = m /\ CoversDependent(subs'[i], oirs[x])
      BY <1>3, <3>2, <3>3, Zenon DEF PutSub, Put
    <3> QED
      BY <2>1, <2>3, <3>1, <3>2, <3>4, Zenon DEF Served
  <2> QED
    BY <2>2, <2>3, Zenon
<1>4. ASSUME NEW i \in Subs, DeleteSub(i) PROVE AllServed'
  <2> SUFFICES ASSUME NEW x \in DOMAIN oirs' PROVE Served(oirs'[x], subs')
    BY Zenon DEF AllServed
  <2>1. /\ oirs' = oirs /\ DOMAIN subs' = DOMAIN subs \ {i}
        /\ \A j \in DOMAIN subs' : subs'[j] = subs[j]
    BY <1>4, Zenon DEF DeleteSub, Without
  <2>2. oirs[x].sub # i
    BY <1>4, <2>1, Zenon DEF DeleteSub, Dependents
  <2> QED
    BY <2>1, <2>2, <1>refl, <1>sub, UntouchedStaysServed, Zenon
<1>5. ASSUME NEW c \in Constraints, NEW m \in Managers, NEW v \in OIRVolumes, PutConstraint(c, m, v)
      PROVE  AllServed'
  <2> SUFFICES ASSUME NEW x \in DOMAIN oirs' PROVE Served(oirs'[x], subs')
    BY Zenon DEF AllServed
  <2>1. oirs' = oirs /\ DOMAIN subs' = DOMAIN subs /\ \A i \in DOMAIN subs : Grown(subs[i], subs'[i])
    BY <1>5, <1>maps, NotifyingKeepsRecords, SameButIndexGrows, Zenon DEF PutConstraint
  <2> QED
    BY <2>1, <1>sub, UntouchedStaysServed, Zenon
<1>6. ASSUME NEW c \in Constraints, DeleteConstraint(c) PROVE AllServed'
  <2> SUFFICES ASSUME NEW x \in DOMAIN oirs' PROVE Served(oirs'[x], subs')
    BY Zenon DEF AllServed
  <2>1. oirs' = oirs /\ DOMAIN subs' = DOMAIN subs /\ \A i \in DOMAIN subs : Grown(subs[i], subs'[i])
    BY <1>6, <1>maps, NotifyingKeepsRecords, SameButIndexGrows, Zenon DEF DeleteConstraint
  <2> QED
    BY <2>1, <1>sub, UntouchedStaysServed, Zenon
<1>7. ASSUME NEW m \in Managers, NEW a \in Availabilities, SetAvailability(m, a)
      PROVE  AllServed'
  BY <1>7, Zenon DEF SetAvailability, AllServed
<1>8. ASSUME NEW batch \in SUBSET DOMAIN oirs, EvictOIRs(batch) PROVE AllServed'
  <2> SUFFICES ASSUME NEW x \in DOMAIN oirs' PROVE Served(oirs'[x], subs')
    BY Zenon DEF AllServed
  <2> QED
    BY <1>8, Zenon DEF EvictOIRs, Without, AllServed
<1>9. ASSUME NEW batch \in SUBSET DOMAIN subs, EvictSubs(batch) PROVE AllServed'
  <2> SUFFICES ASSUME NEW x \in DOMAIN oirs' PROVE Served(oirs'[x], subs')
    BY Zenon DEF AllServed
  <2>1. x \in DOMAIN oirs /\ oirs'[x] = oirs[x] /\ oirs[x].sub \notin batch
    BY <1>9, Zenon DEF EvictSubs, Without
  <2>2. DOMAIN subs' = DOMAIN subs \ batch /\ \A i \in DOMAIN subs' : subs'[i] = subs[i]
    BY <1>9, Zenon DEF EvictSubs, Without
  <2> QED
    BY <2>1, <2>2, <1>refl, <1>sub, UntouchedStaysServed, Zenon
<1>10. CASE Tick \/ UNCHANGED vars
  BY <1>10, Zenon DEF Tick, vars, AllServed
<1>a. CASE OIRStep
  BY <1>a, <1>1, <1>2, Zenon DEF OIRStep, DeleteSomeOIR
<1>b. CASE SubStep
  BY <1>b, <1>3, <1>4, Zenon DEF SubStep, PutSomeSub, DeleteSomeSub
<1>c. CASE ConstraintStep
  BY <1>c, <1>5, <1>6, Zenon DEF ConstraintStep, PutSomeConstraint, DeleteSomeConstraint
<1>d. CASE AvailabilityStep
  BY <1>d, <1>7, Zenon DEF AvailabilityStep
<1>e. CASE EvictionStep
  BY <1>e, <1>8, <1>9, Zenon DEF EvictionStep
<1> QED
  BY <1>a, <1>b, <1>c, <1>d, <1>e, <1>10, Zenon DEF Next

-----------------------------------------------------------------------------
(* Implicit subscriptions.                                                 *)

\* A subscription with a dependent OIR, but not exactly this one, has another.
LEMMA AnotherDependent ==
  ASSUME NEW i, NEW o, NEW z \in DOMAIN oirs, oirs[z].sub = i, Dependents(i) # {o}
  PROVE  \E y \in DOMAIN oirs : y # o /\ oirs[y].sub = i
BY Zenon DEF Dependents

\* Without eviction, no operation leaves an implicit subscription unused.
LEMMA InUseStep ==
  TypeOK /\ TypeOK' /\ ImplicitSubscriptionInUse /\ [Next]_vars => ImplicitSubscriptionInUse'
<1> SUFFICES ASSUME TypeOK, TypeOK', ImplicitSubscriptionInUse, [Next]_vars, Backend = "mem"
             PROVE  \A i \in DOMAIN subs' : subs'[i].implicit =>
                      \E x \in DOMAIN oirs' : oirs'[x].sub = i
  BY Zenon DEF ImplicitSubscriptionInUse, Dependents
<1> DEFINE InUse == \A i \in DOMAIN subs' : subs'[i].implicit =>
                      \E x \in DOMAIN oirs' : oirs'[x].sub = i
<1>was. \A i \in DOMAIN subs : subs[i].implicit => \E x \in DOMAIN oirs : oirs[x].sub = i
  BY Zenon DEF ImplicitSubscriptionInUse, Dependents
<1>maps. IsMap(subs, Subs, SubRecords)
  BY Zenon DEF TypeOK
<1>1. CASE PutSomeOIR
  <2>a. PICK o \in OIRs, m \in Managers, st \in States, v \in OIRVolumes,
             sub \in Subs \cup {None}, implicit \in BOOLEAN, forCons \in BOOLEAN,
             sfx \in Suffixes \cup {None} :
               \E key \in SUBSET RelevantOVNs(o, v) :
                 PutOIR(o, m, st, v, sub, implicit, forCons, sfx, key)
    BY <1>1, Zenon DEF PutSomeOIR
  <2>put. PICK key \in SUBSET RelevantOVNs(o, v) :
            PutOIR(o, m, st, v, sub, implicit, forCons, sfx, key)
    BY <2>a, Zenon
  <2>1. SubsAfterPut(o, m, v, sub)
    BY <2>put, PutOIRSubscriptions, Zenon
  <2>2. /\ o \in DOMAIN oirs' /\ oirs'[o].sub = sub
        /\ \A y \in DOMAIN oirs : y # o => y \in DOMAIN oirs' /\ oirs'[y] = oirs[y]
    BY <2>put, Zenon DEF PutOIR, Put
  <2> SUFFICES ASSUME NEW i \in DOMAIN subs', subs'[i].implicit, i # sub
               PROVE  \E x \in DOMAIN oirs' : oirs'[x].sub = i
    BY <2>2, Zenon
  <2>3. i \in DOMAIN subs /\ i \notin Replaced(o, sub) /\ subs[i].implicit
    BY <2>1, Zenon DEF SubsAfterPut, Grown
  <2>4. Dependents(i) # {o}
    BY <2>3, Zenon DEF Replaced, ImplicitAndOnlyAttachedTo, Dependents
  <2>5. PICK y \in DOMAIN oirs : y # o /\ oirs[y].sub = i
    BY <2>3, <2>4, <1>was, AnotherDependent, Zenon
  <2> QED
    BY <2>2, <2>5, Zenon
<1>2. ASSUME NEW o \in OIRs, DeleteOIR(o) PROVE InUse
  <2> DEFINE N == NotifiedForOps(subs, oirs[o])
  <2>1. DOMAIN N = DOMAIN subs /\ \A i \in DOMAIN subs : N[i].implicit = subs[i].implicit
    BY <1>maps, NotifyingKeepsRecords, SameButIndexGrows, Zenon
  <2>2. /\ DOMAIN subs' = DOMAIN N \ Replaced(o, None) /\ \A i \in DOMAIN subs' : subs'[i] = N[i]
        /\ o \in DOMAIN oirs
        /\ \A y \in DOMAIN oirs : y # o => y \in DOMAIN oirs' /\ oirs'[y] = oirs[y]
    BY <1>2, Zenon DEF DeleteOIR, Without
  <2> SUFFICES ASSUME NEW i \in DOMAIN subs', subs'[i].implicit
               PROVE  \E x \in DOMAIN oirs' : oirs'[x].sub = i
    BY Zenon
  <2>3. i \in DOMAIN subs /\ i \in Subs /\ i \notin Replaced(o, None) /\ subs[i].implicit
    BY <2>1, <2>2, <1>maps, Zenon DEF IsMap
  <2>4. Dependents(i) # {o}
    BY <2>2, <2>3, ScdAssumption, Zenon DEF Replaced, ImplicitAndOnlyAttachedTo, Dependents
  <2>5. PICK y \in DOMAIN oirs : y # o /\ oirs[y].sub = i
    BY <2>3, <2>4, <1>was, AnotherDependent, Zenon
  <2> QED
    BY <2>2, <2>5, Zenon
<1>3. ASSUME NEW i \in Subs, NEW m \in Managers, NEW v \in SubVolumes,
             NEW forOps \in BOOLEAN, NEW forCons \in BOOLEAN, PutSub(i, m, v, forOps, forCons)
      PROVE  InUse
  BY <1>3, <1>was, Zenon DEF PutSub, Put
<1>4. ASSUME NEW i \in Subs, DeleteSub(i) PROVE InUse
  BY <1>4, <1>was, Zenon DEF DeleteSub, Without
<1>5. ASSUME NEW c \in Constraints, NEW m \in Managers, NEW v \in OIRVolumes, PutConstraint(c, m, v)
      PROVE  InUse
  <2>1. oirs' = oirs /\ SameButIndex(subs, subs')
    BY <1>5, <1>maps, NotifyingKeepsRecords, Zenon DEF PutConstraint
  <2>2. DOMAIN subs' = DOMAIN subs /\ \A i \in DOMAIN subs : subs'[i].implicit = subs[i].implicit
    BY <2>1, <1>maps, SameButIndexGrows, Zenon
  <2> QED
    BY <2>1, <2>2, <1>was, Zenon
<1>6. ASSUME NEW c \in Constraints, DeleteConstraint(c) PROVE InUse
  <2>1. oirs' = oirs /\ SameButIndex(subs, subs')
    BY <1>6, <1>maps, NotifyingKeepsRecords, Zenon DEF DeleteConstraint
  <2>2. DOMAIN subs' = DOMAIN subs /\ \A i \in DOMAIN subs : subs'[i].implicit = subs[i].implicit
    BY <2>1, <1>maps, SameButIndexGrows, Zenon
  <2> QED
    BY <2>1, <2>2, <1>was, Zenon
<1>7. CASE AvailabilityStep \/ Tick \/ UNCHANGED vars
  BY <1>7, <1>was, Zenon DEF AvailabilityStep, SetAvailability, Tick, vars
<1>8. ~ EvictionStep
  BY Zenon DEF EvictionStep, EvictOIRs, EvictSubs
<1>a. CASE OIRStep
  BY <1>a, <1>1, <1>2, Zenon DEF OIRStep, DeleteSomeOIR
<1>b. CASE SubStep
  BY <1>b, <1>3, <1>4, Zenon DEF SubStep, PutSomeSub, DeleteSomeSub
<1>c. CASE ConstraintStep
  BY <1>c, <1>5, <1>6, Zenon DEF ConstraintStep, PutSomeConstraint, DeleteSomeConstraint
<1> QED
  BY <1>a, <1>b, <1>c, <1>7, <1>8, Zenon DEF Next

-----------------------------------------------------------------------------
(* The theorems.                                                           *)

\* The inductive invariant: well-formed records, every OIR served by the
\* subscription it is attached to, every implicit subscription in use.
IInv == TypeOK /\ AllServed /\ ImplicitSubscriptionInUse

\* The empty repository satisfies the invariant and every step keeps it.
THEOREM Invariance == Spec => []IInv
<1>1. Init => IInv
  BY DEF Init, IInv, TypeOK, IsMap, AllServed, ImplicitSubscriptionInUse
<1>2. IInv /\ [Next]_vars => IInv'
  BY TypeStep, ServedStep, InUseStep, Zenon DEF IInv
<1> QED
  BY <1>1, <1>2, PTL DEF Spec

\* The repository holds only well-formed records, whatever operations run.
THEOREM TypeCorrect == Spec => []TypeOK
<1>1. IInv => TypeOK
  BY Zenon DEF IInv
<1> QED
  BY <1>1, Invariance, PTL

\* No operation, and no eviction, leaves an OIR with a dangling subscription.
THEOREM NoDanglingSubscription == Spec => []AttachedSubscriptionExists
<1>1. IInv => AttachedSubscriptionExists
  BY ServedMeans, Zenon DEF IInv, AllServed
<1> QED
  BY <1>1, Invariance, PTL

\* The subscription of every OIR covers it, and belongs to its manager.
THEOREM SubscriptionsCover == Spec => []AttachedSubscriptionCovers
<1>1. IInv => AttachedSubscriptionCovers
  BY ServedMeans, Zenon DEF IInv, AllServed
<1> QED
  BY <1>1, Invariance, PTL

\* No implicit subscription is leaked by the raft-backed store.
THEOREM NoLeakedSubscription == Spec => []ImplicitSubscriptionInUse
<1>1. IInv => ImplicitSubscriptionInUse
  BY Zenon DEF IInv
<1> QED
  BY <1>1, Invariance, PTL

-----------------------------------------------------------------------------
(* Action properties.                                                      *)

\* An OIR ends no later than its subscription, so the rows that the database
\* deletes with an expired subscription (ON DELETE CASCADE) are expired too.
THEOREM EvictionIsSafe == Spec => EvictionSparesLiveOIRs
<1> DEFINE Spares == seq' = seq => \A o \in DOMAIN oirs \ DOMAIN oirs' : Expired(oirs[o])
<1>1. IInv /\ [Next]_vars => Spares
  <2> SUFFICES ASSUME IInv, [Next]_vars, seq' = seq, NEW o \in DOMAIN oirs, o \notin DOMAIN oirs'
               PROVE  Expired(oirs[o])
    BY Zenon
  <2>1. seq \in Nat /\ now \in Nat /\ TTL \in Nat
    BY ScdAssumption, Zenon DEF IInv, TypeOK
  <2>2. seq' # seq + 1
    BY <2>1
  <2>3. ~ OIRStep /\ ~ SubStep /\ ~ ConstraintStep /\ ~ AvailabilityStep
    <3>1. ~ PutSomeOIR
      <4> SUFFICES ASSUME NEW x, NEW m, NEW st, NEW v, NEW sub, NEW implicit, NEW forCons,
                          NEW sfx, NEW key, PutOIR(x, m, st, v, sub, implicit, forCons, sfx, key)
                   PROVE  FALSE
        BY Zenon DEF PutSomeOIR
      <4> QED
        BY <2>2, Zenon DEF PutOIR
    <3>2. ~ (\E x \in OIRs : DeleteOIR(x)) /\ ~ SubStep
      <4>1. ASSUME NEW x, NEW m, NEW v, NEW forOps, NEW forCons, PutSub(x, m, v, forOps, forCons)
            PROVE  FALSE
        BY <2>2, <4>1, Zenon DEF PutSub
      <4> QED
        BY <2>2, <4>1, Zenon DEF SubStep, PutSomeSub, DeleteSomeSub, DeleteSub, DeleteOIR
    <3>3. ~ ConstraintStep /\ ~ AvailabilityStep
      BY <2>2, Zenon DEF ConstraintStep, PutSomeConstraint, DeleteSomeConstraint, AvailabilityStep,
                         PutConstraint, DeleteConstraint, SetAvailability
    <3> QED
      BY <3>1, <3>2, <3>3, Zenon DEF OIRStep, DeleteSomeOIR
  <2>4. ASSUME NEW batch \in SUBSET DOMAIN oirs, EvictOIRs(batch) PROVE Expired(oirs[o])
    BY <2>4, Zenon DEF EvictOIRs, Without
  <2>5. ASSUME NEW batch \in SUBSET DOMAIN subs, EvictSubs(batch) PROVE Expired(oirs[o])
    <3>1. oirs[o].sub \in batch /\ Expired(subs[oirs[o].sub])
      BY <2>5, Zenon DEF EvictSubs, Without
    <3>2. oirs[o].sub \in Subs /\ subs[oirs[o].sub] \in SubRecords /\ oirs[o] \in OIRRecords
      BY <3>1, Zenon DEF IInv, TypeOK, IsMap
    <3>3. oirs[o].end <= subs[oirs[o].sub].end
      BY <3>2, ScdAssumption, Zenon DEF IInv, AllServed, Served, CoversDependent, SubRecords, OIRRecords
    <3>4. oirs[o].end \in Int /\ subs[oirs[o].sub].end \in Int
      BY <3>2, SubFields, OIRFields, Zenon
    <3>5. now - TTL \in Int
      BY <2>1
    <3> QED
      BY <3>1, <3>3, <3>4, <3>5, NoLaterTransitive, Zenon DEF Expired
  <2> QED
    BY <2>3, <2>4, <2>5, Zenon DEF Next, EvictionStep, Tick, vars
<1> QED
  BY <1>1, Invariance, PTL DEF Spec, EvictionSparesLiveOIRs

\* No operation takes the notification index of a subscription back.
THEOREM IndicesAdvance == Spec => IndexNeverDecreases
<1> DEFINE Advance == \A i \in DOMAIN subs \cap DOMAIN subs' : subs'[i].index >= subs[i].index
<1>1. TypeOK /\ TypeOK' /\ [Next]_vars => Advance
  <2> SUFFICES ASSUME TypeOK, TypeOK', [Next]_vars PROVE Advance
    BY Zenon
  <2>maps. IsMap(subs, Subs, SubRecords) /\ \A i \in DOMAIN subs : Grown(subs[i], subs[i])
    BY GrownReflexive, Zenon DEF TypeOK
  <2>nat. \A i \in DOMAIN subs : subs[i].index >= subs[i].index
    BY <2>maps, Zenon DEF Grown
  <2>1. CASE PutSomeOIR
    <3>1. PICK o \in OIRs, m \in Managers, st \in States, v \in OIRVolumes,
               sub \in Subs \cup {None}, implicit \in BOOLEAN, forCons \in BOOLEAN,
               sfx \in Suffixes \cup {None} :
                 \E key \in SUBSET RelevantOVNs(o, v) :
                   PutOIR(o, m, st, v, sub, implicit, forCons, sfx, key)
      BY <2>1, Zenon DEF PutSomeOIR
    <3>2. SubsAfterPut(o, m, v, sub)
      BY <3>1, PutOIRSubscriptions, Zenon
    <3> QED
      BY <3>2, Zenon DEF SubsAfterPut, Grown
  <2>2. ASSUME NEW o \in OIRs, DeleteOIR(o) PROVE Advance
    <3> DEFINE N == NotifiedForOps(subs, oirs[o])
    <3>1. DOMAIN N = DOMAIN subs /\ \A i \in DOMAIN subs : Grown(subs[i], N[i])
      BY <2>maps, NotifyingKeepsRecords, SameButIndexGrows, Zenon
    <3>2. \A i \in DOMAIN subs' : i \in DOMAIN N /\ subs'[i] = N[i]
      BY <2>2, Zenon DEF DeleteOIR, Without
    <3> QED
      BY <3>1, <3>2, Zenon DEF Grown
  <2>3. ASSUME NEW i \in Subs, NEW m \in Managers, NEW v \in SubVolumes,
               NEW forOps \in BOOLEAN, NEW forCons \in BOOLEAN, PutSub(i, m, v, forOps, forCons)
        PROVE  Advance
    <3>1. /\ i \in DOMAIN subs => subs'[i].index = subs[i].index
          /\ \A j \in DOMAIN subs : j # i => subs'[j] = subs[j]
      BY <2>3, Zenon DEF PutSub, KeptIndex, Put
    <3> QED
      BY <3>1, <2>nat, Zenon
  <2>4. ASSUME NEW c \in Constraints, NEW m \in Managers, NEW v \in OIRVolumes, PutConstraint(c, m, v)
        PROVE  Advance
    <3>1. \A i \in DOMAIN subs : Grown(subs[i], subs'[i])
      BY <2>4, <2>maps, NotifyingKeepsRecords, SameButIndexGrows, Zenon DEF PutConstraint
    <3> QED
      BY <3>1, Zenon DEF Grown
  <2>5. ASSUME NEW c \in Constraints, DeleteConstraint(c) PROVE Advance
    <3>1. \A i \in DOMAIN subs : Grown(subs[i], subs'[i])
      BY <2>5, <2>maps, NotifyingKeepsRecords, SameButIndexGrows, Zenon DEF DeleteConstraint
    <3> QED
      BY <3>1, Zenon DEF Grown
  <2>6. ASSUME \A i \in DOMAIN subs' : subs'[i] = subs[i] PROVE Advance
    BY <2>6, <2>nat, Zenon
  <2>7. CASE OIRStep
    BY <2>7, <2>1, <2>2, Zenon DEF OIRStep, DeleteSomeOIR
  <2>8. CASE SubStep
    BY <2>8, <2>3, <2>6, Zenon DEF SubStep, PutSomeSub, DeleteSomeSub, DeleteSub, Without
  <2>9. CASE ConstraintStep
    BY <2>9, <2>4, <2>5, Zenon DEF ConstraintStep, PutSomeConstraint, DeleteSomeConstraint
  <2>10. CASE EvictionStep
    BY <2>10, <2>6, Zenon DEF EvictionStep, EvictOIRs, EvictSubs, Without
  <2>11. CASE AvailabilityStep \/ Tick \/ UNCHANGED vars
    BY <2>11, <2>6, Zenon DEF AvailabilityStep, SetAvailability, Tick, vars
  <2> QED
    BY <2>7, <2>8, <2>9, <2>10, <2>11, Zenon DEF Next
<1> QED
  BY <1>1, TypeCorrect, PTL DEF Spec, IndexNeverDecreases

-----------------------------------------------------------------------------
(* Who is notified.                                                        *)

\* Whether all that r occupies lies in the volume v.
Within(r, v) == Levelify(r.cells) \subseteq v.cells /\ v.start <= r.start /\ r.end <= v.end

\* A volume with its cells and times as those of requests and stored entities.
IsVolume(r) == r.cells \in SUBSET Leaf /\ r.start \in Int /\ r.end \in Int

\* Without coarse cells the leaves of a union of cells are its cells.
LEMMA LeavesOnly ==
  ASSUME Coarse = {}, NEW cu \in CellUnions
  PROVE  Levelify(cu) = cu
BY Zenon DEF Levelify, CellUnions

\* The volume to notify for an update contains both the old and the new one.
LEMMA UnionContains ==
  ASSUME NEW v, NEW w, IsVolume(v), IsVolume(w)
  PROVE  /\ Within(v, UnionVolume(v, w)) /\ Within(w, UnionVolume(v, w))
         /\ UnionVolume(v, w).start \in Int /\ UnionVolume(v, w).end \in Int
<1> DEFINE cu == CellUnionFromUnion(v.cells, w.cells)
<1>1. v.cells \in CellUnions /\ w.cells \in CellUnions
  BY Zenon DEF IsVolume, CellUnions
<1>2. cu \in CellUnions /\ Levelify(cu) = Levelify(v.cells) \cup Levelify(w.cells)
  BY <1>1, NormalizingKeepsArea, Zenon
<1>3. UnionVolume(v, w).cells = Levelify(cu)
  BY Zenon DEF UnionVolume
<1>4. /\ UnionVolume(v, w).start = Earlier(v.start, w.start)
      /\ UnionVolume(v, w).end = Later(v.end, w.end)
  BY Zenon DEF UnionVolume
<1>5. /\ Earlier(v.start, w.start) <= v.start /\ Earlier(v.start, w.start) <= w.start
      /\ v.end <= Later(v.end, w.end) /\ w.end <= Later(v.end, w.end)
      /\ Earlier(v.start, w.start) \in Int /\ Later(v.end, w.end) \in Int
  BY DEF IsVolume, Earlier, Later
<1> QED
  BY <1>2, <1>3, <1>4, <1>5, Zenon DEF Within

\* A closed interval that meets another meets every one that contains it.
LEMMA MeetsLonger ==
  ASSUME NEW a \in Int, NEW b \in Int, NEW c \in Int, NEW d \in Int, NEW e \in Int, NEW f \in Int,
         a <= d, b >= c, e <= c, d <= f
  PROVE  a <= f /\ b >= e
OBVIOUS

\* A subscription that an entity concerns meets any volume the entity lies in.
LEMMA ConcernedMeets ==
  ASSUME Coarse = {}, NEW s \in SubRecords, NEW r, IsVolume(r), NEW v, v.start \in Int, v.end \in Int,
         Within(r, v), Concerns(s, r)
  PROVE  Intersects(s, v)
<1>1. s.cells \in CellUnions /\ s.start \in Int /\ s.end \in Int
  BY Zenon DEF SubRecords
<1>2. Levelify(s.cells) = s.cells
  BY <1>1, LeavesOnly, Zenon
<1>3. Overlaps(s.cells, v.cells)
  BY <1>2, Zenon DEF Concerns, Within, Overlaps
<1>4. OverlapsTime(s, v)
  BY <1>1, MeetsLonger DEF IsVolume, Within, Concerns, OverlapsTime
<1> QED
  BY <1>3, <1>4, Zenon DEF Intersects

\* A notification index that is one more than it was is greater.
LEMMA OneMoreIsMore ==
  ASSUME NEW n \in Nat, NEW a, NEW b, a = n + 1, b = n
  PROVE  a > b
OBVIOUS

\* What notifying leaves of a subscription that is concerned: a higher index.
LEMMA ConcernedIsNotified ==
  ASSUME Coarse = {}, NEW m, IsMap(m, Subs, SubRecords), NEW v, v.start \in Int, v.end \in Int,
         NEW i \in DOMAIN m, NEW r, IsVolume(r), Within(r, v)
  PROVE  /\ NotifiedForOps(m, v)[i].notifyOps /\ Concerns(NotifiedForOps(m, v)[i], r)
              => NotifiedForOps(m, v)[i].index = m[i].index + 1
         /\ NotifiedForConstraints(m, v)[i].notifyCons /\ Concerns(NotifiedForConstraints(m, v)[i], r)
              => NotifiedForConstraints(m, v)[i].index = m[i].index + 1
<1>1. m[i] \in SubRecords
  BY Zenon DEF IsMap
<1>2. ASSUME NEW n, n = m[i] \/ n = [m[i] EXCEPT !.index = @ + 1], Concerns(n, r)
      PROVE  Concerns(m[i], r)
  <2>1. n.cells = m[i].cells /\ n.start = m[i].start /\ n.end = m[i].end
    BY <1>1, <1>2, Zenon DEF SubRecords
  <2> QED
    BY <1>2, <2>1, Zenon DEF Concerns, OverlapsTime
<1>3. Concerns(m[i], r) => Intersects(m[i], v)
  BY <1>1, ConcernedMeets, Zenon
<1>4. /\ [m[i] EXCEPT !.index = @ + 1].index = m[i].index + 1
      /\ [m[i] EXCEPT !.index = @ + 1].notifyOps = m[i].notifyOps
      /\ [m[i] EXCEPT !.index = @ + 1].notifyCons = m[i].notifyCons
  BY <1>1, Zenon DEF SubRecords
<1>5. NotifiedForOps(m, v)[i] = IF m[i].notifyOps /\ Intersects(m[i], v)
                                THEN [m[i] EXCEPT !.index = @ + 1] ELSE m[i]
  BY Zenon DEF NotifiedForOps
<1>6. NotifiedForConstraints(m, v)[i] = IF m[i].notifyCons /\ Intersects(m[i], v)
                                        THEN [m[i] EXCEPT !.index = @ + 1] ELSE m[i]
  BY Zenon DEF NotifiedForConstraints
<1>7. ASSUME NotifiedForOps(m, v)[i].notifyOps, Concerns(NotifiedForOps(m, v)[i], r)
      PROVE  NotifiedForOps(m, v)[i].index = m[i].index + 1
  <2>1. Concerns(m[i], r)
    BY <1>2, <1>5, <1>7, Zenon
  <2> QED
    BY <2>1, <1>3, <1>4, <1>5, <1>7, Zenon
<1>8. ASSUME NotifiedForConstraints(m, v)[i].notifyCons, Concerns(NotifiedForConstraints(m, v)[i], r)
      PROVE  NotifiedForConstraints(m, v)[i].index = m[i].index + 1
  <2>1. Concerns(m[i], r)
    BY <1>2, <1>6, <1>8, Zenon
  <2> QED
    BY <2>1, <1>3, <1>4, <1>6, <1>8, Zenon
<1> QED
  BY <1>7, <1>8, Zenon

-----------------------------------------------------------------------------
(* The steps that write entities.                                          *)

Before(i) == IF i \in DOMAIN subs THEN subs[i].index ELSE 0

\* The body of EverySubscriberNotified for subscription i.
Told(i) ==
  \/ subs'[i].index > Before(i)
  \/ /\ \A o \in OIRs : Versions(oirs, o) # Versions(oirs', o) /\ subs'[i].notifyOps =>
          \A r \in Versions(oirs, o) \cup Versions(oirs', o) : ~ Concerns(subs'[i], r)
     /\ \A c \in Constraints : Versions(cons, c) # Versions(cons', c) /\ subs'[i].notifyCons =>
          \A r \in Versions(cons, c) \cup Versions(cons', c) : ~ Concerns(subs'[i], r)

\* Stored entities and the volumes of requests are volumes.
LEMMA StoredVolumes ==
  ASSUME TypeOK
  PROVE  /\ \A o \in DOMAIN oirs : IsVolume(oirs[o])
         /\ \A c \in DOMAIN cons : IsVolume(cons[c])
         /\ \A v \in OIRVolumes : IsVolume(v) /\ Within(v, v)
         /\ \A o \in DOMAIN oirs : Within(oirs[o], oirs[o])
         /\ \A c \in DOMAIN cons : Within(cons[c], cons[c])
<1>1. ASSUME NEW r, IsVolume(r) PROVE Within(r, r)
  <2>1. r.cells \cap Coarse = {} /\ r.start <= r.start /\ r.end <= r.end
    BY <1>1, CellsAssumption DEF IsVolume
  <2> QED
    BY <2>1, Zenon DEF Within, Levelify
<1>2. \A o \in DOMAIN oirs : IsVolume(oirs[o])
  BY Zenon DEF TypeOK, IsMap, OIRRecords, IsVolume
<1>3. \A c \in DOMAIN cons : IsVolume(cons[c])
  BY Zenon DEF TypeOK, IsMap, ConstraintRecords, IsVolume
<1>4. \A v \in OIRVolumes : IsVolume(v)
  BY ScdAssumption, Zenon DEF IsVolume
<1> QED
  BY <1>1, <1>2, <1>3, <1>4, Zenon

\* An upsert notifies the volume the OIR leaves and the one it enters.
LEMMA PutOIRTells ==
  ASSUME Coarse = {}, TypeOK, TypeOK', NEW o \in OIRs, NEW m \in Managers, NEW st, NEW v \in OIRVolumes,
         NEW sub \in Subs \cup {None}, NEW implicit \in BOOLEAN, NEW forCons \in BOOLEAN,
         NEW sfx, NEW key, PutOIR(o, m, st, v, sub, implicit, forCons, sfx, key), NEW i \in DOMAIN subs'
  PROVE  Told(i)
<1> DEFINE attached == Attached(m, v, sub, implicit, forCons)
           rest     == Without(attached, Replaced(o, sub))
           whole    == NotifyVolume(o, v)
<1>maps. IsMap(subs, Subs, SubRecords) /\ CanAttach(m, v, sub, implicit)
  BY Zenon DEF TypeOK, PutOIR
<1>0. GrownFor(attached, m, v, sub)
  BY <1>maps, AttachingGrows, Zenon
<1>1. IsMap(attached, Subs, SubRecords)
  BY <1>0, Zenon DEF GrownFor
<1>2. IsMap(rest, Subs, SubRecords)
  BY <1>1, WithoutIsMap, Zenon
<1>3. subs' = NotifiedForOps(rest, whole)
  BY Zenon DEF PutOIR
<1>4. i \in DOMAIN rest /\ i \in DOMAIN attached /\ rest[i] = attached[i]
  BY <1>3, Zenon DEF NotifiedForOps, Without
<1>5. attached[i].index = Before(i)
  <2>1. CASE sub = None \/ i # sub
    BY <2>1, <1>4, Zenon DEF Attached, Put, Before
  <2>2. CASE sub # None /\ i = sub /\ implicit
    BY <2>2, <1>maps, Zenon DEF Attached, Put, Before, CanAttach, NewImplicitSubscription
  <2>3. CASE sub # None /\ i = sub /\ ~ implicit
    <3>1. i \in DOMAIN subs /\ subs[i] \in SubRecords /\ attached[i] = Extended(subs[i], v)
      BY <2>3, <1>maps, Zenon DEF CanAttach, Attached, Put, IsMap
    <3>2. Extended(subs[i], v).index = subs[i].index
      BY <3>1, Zenon DEF Extended, SubRecords
    <3> QED
      BY <3>1, <3>2, Zenon DEF Before
  <2> QED
    BY <2>1, <2>2, <2>3, Zenon
<1>6. rest[i].index \in Nat
  BY <1>2, <1>4, Zenon DEF IsMap, SubRecords
<1>7. /\ cons' = cons /\ \A x \in OIRs : x # o => Versions(oirs, x) = Versions(oirs', x)
      /\ o \in DOMAIN oirs' /\ oirs'[o].cells = v.cells /\ oirs'[o].start = v.start /\ oirs'[o].end = v.end
  BY Zenon DEF PutOIR, Put, Versions
<1>8. /\ IsVolume(v) /\ IsVolume(oirs'[o])
      /\ o \in DOMAIN oirs => IsVolume(oirs[o])
  BY <1>7, StoredVolumes, Zenon DEF IsVolume
<1>9. /\ Within(v, whole) /\ whole.start \in Int /\ whole.end \in Int
      /\ o \in DOMAIN oirs => Within(oirs[o], whole)
  <2>1. CASE o \in DOMAIN oirs
    BY <2>1, <1>8, UnionContains, Zenon DEF NotifyVolume
  <2>2. CASE o \notin DOMAIN oirs
    BY <2>2, <1>8, StoredVolumes, Zenon DEF NotifyVolume, IsVolume
  <2> QED
    BY <2>1, <2>2, Zenon
<1>10. Within(oirs'[o], whole)
  BY <1>7, <1>9, Zenon DEF Within
<1>11. ASSUME subs'[i].notifyOps, NEW r \in Versions(oirs, o) \cup Versions(oirs', o), Concerns(subs'[i], r)
       PROVE  subs'[i].index > Before(i)
  <2>1. IsVolume(r) /\ Within(r, whole)
    BY <1>8, <1>9, <1>10, <1>11, Zenon DEF Versions
  <2>2. NotifiedForOps(rest, whole)[i].notifyOps /\ Concerns(NotifiedForOps(rest, whole)[i], r)
    BY <1>3, <1>11, Zenon
  <2>3. NotifiedForOps(rest, whole)[i].index = rest[i].index + 1
    <3> HIDE DEF rest, whole
    <3> QED
      BY <1>2, <1>4, <1>9, <2>1, <2>2, ConcernedIsNotified, Zenon
  <2>4. subs'[i].index = rest[i].index + 1 /\ Before(i) = rest[i].index
    BY <2>3, <1>3, <1>4, <1>5, Zenon
  <2> QED
    BY <2>4, <1>6, OneMoreIsMore, Zenon
<1> QED
  BY <1>7, <1>11, Zenon DEF Told

\* A deletion notifies the volume the OIR had.
LEMMA DeleteOIRTells ==
  ASSUME Coarse = {}, TypeOK, NEW o \in OIRs, DeleteOIR(o), NEW i \in DOMAIN subs'
  PROVE  Told(i)
<1> DEFINE N == NotifiedForOps(subs, oirs[o])
<1>1. IsMap(subs, Subs, SubRecords) /\ o \in DOMAIN oirs
  BY Zenon DEF TypeOK, DeleteOIR
<1>2. i \in DOMAIN subs /\ subs'[i] = N[i]
  BY Zenon DEF DeleteOIR, Without, NotifiedForOps
<1>3. subs[i].index \in Nat
  BY <1>1, <1>2, Zenon DEF IsMap, SubRecords
<1>4. /\ cons' = cons /\ \A x \in OIRs : x # o => Versions(oirs, x) = Versions(oirs', x)
      /\ Versions(oirs', o) = {} /\ Versions(oirs, o) = {oirs[o]}
  BY <1>1, Zenon DEF DeleteOIR, Without, Versions
<1>5. IsVolume(oirs[o]) /\ Within(oirs[o], oirs[o]) /\ oirs[o].start \in Int /\ oirs[o].end \in Int
  BY <1>1, StoredVolumes, Zenon DEF IsVolume
<1>6. subs'[i].notifyOps /\ Concerns(subs'[i], oirs[o]) => subs'[i].index = subs[i].index + 1
  <2> SUFFICES ASSUME subs'[i].notifyOps, Concerns(subs'[i], oirs[o]) PROVE N[i].index = subs[i].index + 1
    BY <1>2, Zenon
  <2>1. N[i].notifyOps /\ Concerns(N[i], oirs[o])
    BY <1>2, Zenon
  <2> QED
    BY <1>1, <1>2, <1>5, <2>1, ConcernedIsNotified, Zenon
<1>7. subs'[i].notifyOps /\ Concerns(subs'[i], oirs[o]) => subs'[i].index > Before(i)
  <2>1. Before(i) = subs[i].index
    BY <1>2, Zenon DEF Before
  <2> QED
    BY <1>3, <1>6, <2>1, OneMoreIsMore, Zenon
<1> QED
  BY <1>4, <1>7, Zenon DEF Told

\* The upsert of a constraint notifies the volume it leaves and the one it enters.
LEMMA PutConstraintTells ==
  ASSUME Coarse = {}, TypeOK, NEW c \in Constraints, NEW m \in Managers, NEW v \in OIRVolumes,
         PutConstraint(c, m, v), NEW i \in DOMAIN subs'
  PROVE  Told(i)
<1> DEFINE whole == IF c \in DOMAIN cons THEN UnionVolume(v, cons[c]) ELSE v
<1>1. IsMap(subs, Subs, SubRecords)
  BY Zenon DEF TypeOK
<1>2. subs' = NotifiedForConstraints(subs, whole) /\ i \in DOMAIN subs
  BY Zenon DEF PutConstraint, NotifiedForConstraints
<1>3. subs[i].index \in Nat
  BY <1>1, <1>2, Zenon DEF IsMap, SubRecords
<1>4. /\ oirs' = oirs /\ \A x \in Constraints : x # c => Versions(cons, x) = Versions(cons', x)
      /\ c \in DOMAIN cons' /\ cons'[c].cells = v.cells /\ cons'[c].start = v.start /\ cons'[c].end = v.end
  BY Zenon DEF PutConstraint, Put, Versions
<1>5. /\ IsVolume(v) /\ IsVolume(cons'[c])
      /\ c \in DOMAIN cons => IsVolume(cons[c])
  BY <1>4, StoredVolumes, Zenon DEF IsVolume
<1>6. /\ Within(v, whole) /\ whole.start \in Int /\ whole.end \in Int
      /\ c \in DOMAIN cons => Within(cons[c], whole)
  <2>1. CASE c \in DOMAIN cons
    BY <2>1, <1>5, UnionContains, Zenon
  <2>2. CASE c \notin DOMAIN cons
    BY <2>2, <1>5, StoredVolumes, Zenon DEF IsVolume
  <2> QED
    BY <2>1, <2>2, Zenon
<1>7. Within(cons'[c], whole)
  BY <1>4, <1>6, Zenon DEF Within
<1>8. ASSUME subs'[i].notifyCons, NEW r \in Versions(cons, c) \cup Versions(cons', c), Concerns(subs'[i], r)
      PROVE  subs'[i].index > Before(i)
  <2>1. IsVolume(r) /\ Within(r, whole)
    BY <1>5, <1>6, <1>7, <1>8, Zenon DEF Versions
  <2>2. subs'[i].index = subs[i].index + 1
    BY <1>1, <1>2, <1>6, <1>8, <2>1, ConcernedIsNotified, Zenon
  <2>3. Before(i) = subs[i].index
    BY <1>2, Zenon DEF Before
  <2> QED
    BY <1>3, <2>2, <2>3, OneMoreIsMore, Zenon
<1> QED
  BY <1>4, <1>8, Zenon DEF Told

\* The deletion of a constraint notifies the volume it had.
LEMMA DeleteConstraintTells ==
  ASSUME Coarse = {}, TypeOK, NEW c \in Constraints, DeleteConstraint(c), NEW i \in DOMAIN subs'
  PROVE  Told(i)
<1>1. IsMap(subs, Subs, SubRecords) /\ c \in DOMAIN cons
  BY Zenon DEF TypeOK, DeleteConstraint
<1>2. subs' = NotifiedForConstraints(subs, cons[c]) /\ i \in DOMAIN subs
  BY Zenon DEF DeleteConstraint, NotifiedForConstraints
<1>3. subs[i].index \in Nat
  BY <1>1, <1>2, Zenon DEF IsMap, SubRecords
<1>4. /\ oirs' = oirs /\ \A x \in Constraints : x # c => Versions(cons, x) = Versions(cons', x)
      /\ Versions(cons', c) = {} /\ Versions(cons, c) = {cons[c]}
  BY <1>1, Zenon DEF DeleteConstraint, Without, Versions
<1>5. IsVolume(cons[c]) /\ Within(cons[c], cons[c]) /\ cons[c].start \in Int /\ cons[c].end \in Int
  BY <1>1, StoredVolumes, Zenon DEF IsVolume
<1>6. subs'[i].notifyCons /\ Concerns(subs'[i], cons[c]) => subs'[i].index = subs[i].index + 1
  BY <1>1, <1>2, <1>5, ConcernedIsNotified, Zenon
<1>7. subs'[i].notifyCons /\ Concerns(subs'[i], cons[c]) => subs'[i].index > Before(i)
  <2>1. Before(i) = subs[i].index
    BY <1>2, Zenon DEF Before
  <2> QED
    BY <1>3, <1>6, <2>1, OneMoreIsMore, Zenon
<1> QED
  BY <1>4, <1>7, Zenon DEF Told

\* Any other step writes no entity.
LEMMA OthersTell ==
  ASSUME oirs' = oirs, cons' = cons, NEW i
  PROVE  Told(i)
BY Zenon DEF Told

\* Whatever operation writes, moves or deletes an OIR or a constraint, every
\* subscription it concerns, before or after, gets a new notification index,
\* provided the cells of subscriptions are never normalised to coarser ones
\* (IncrementNotificationIndicesForOperations and ...ForConstraints).
THEOREM EveryoneIsNotified ==
  ASSUME Coarse = {}
  PROVE  Spec => EverySubscriberNotified
<1> DEFINE Tells == seq' # seq => \A i \in DOMAIN subs' : Told(i)
<1>1. TypeOK /\ TypeOK' /\ [Next]_vars => Tells
  <2> SUFFICES ASSUME TypeOK, TypeOK', [Next]_vars, seq' # seq, NEW i \in DOMAIN subs' PROVE Told(i)
    BY Zenon
  <2>1. CASE PutSomeOIR
    <3>1. PICK o \in OIRs, m \in Managers, st \in States, v \in OIRVolumes,
               sub \in Subs \cup {None}, implicit \in BOOLEAN, forCons \in BOOLEAN,
               sfx \in Suffixes \cup {None} :
                 \E key \in SUBSET RelevantOVNs(o, v) :
                   PutOIR(o, m, st, v, sub, implicit, forCons, sfx, key)
      BY <2>1, Zenon DEF PutSomeOIR
    <3> QED
      BY <3>1, PutOIRTells, Zenon
  <2>2. CASE DeleteSomeOIR
    BY <2>2, DeleteOIRTells, Zenon DEF DeleteSomeOIR
  <2>3. CASE PutSomeConstraint
    BY <2>3, PutConstraintTells, Zenon DEF PutSomeConstraint
  <2>4. CASE DeleteSomeConstraint
    BY <2>4, DeleteConstraintTells, Zenon DEF DeleteSomeConstraint
  <2>5. CASE SubStep
    <3>1. ASSUME NEW x, NEW m, NEW v, NEW forOps, NEW forCons, PutSub(x, m, v, forOps, forCons)
          PROVE  Told(i)
      BY <3>1, OthersTell, Zenon DEF PutSub
    <3>2. ASSUME NEW x, DeleteSub(x) PROVE Told(i)
      BY <3>2, OthersTell, Zenon DEF DeleteSub
    <3> QED
      BY <2>5, <3>1, <3>2, Zenon DEF SubStep, PutSomeSub, DeleteSomeSub
  <2>6. CASE AvailabilityStep
    BY <2>6, OthersTell, Zenon DEF AvailabilityStep, SetAvailability
  <2>7. ~ EvictionStep /\ ~ Tick /\ ~ UNCHANGED vars
    BY Zenon DEF EvictionStep, EvictOIRs, EvictSubs, Tick, vars
  <2> QED
    BY <2>1, <2>2, <2>3, <2>4, <2>5, <2>6, <2>7, Zenon DEF Next, OIRStep, ConstraintStep
<1>2. Spec => [][Tells]_vars
  BY <1>1, TypeCorrect, PTL DEF Spec
<1> QED
  BY <1>2, Zenon DEF EverySubscriberNotified, Told, Before

-----------------------------------------------------------------------------
(* What the writers of OIRs know.                                          *)

\* No search is cut off at MaxResultLimit.
SearchesAreComplete ==
  /\ IsFiniteSet(OIRs) /\ Cardinality(OIRs) <= MaxResultLimit
  /\ IsFiniteSet(Constraints) /\ Cardinality(Constraints) <= MaxResultLimit

\* A search returns all it matches when the limit is not below their number.
LEMMA SearchReturnsAll ==
  ASSUME NEW S, IsFiniteSet(S), Cardinality(S) <= MaxResultLimit, NEW matches \in SUBSET S,
         NEW found \in SearchResults(matches)
  PROVE  found = matches
<1>1. found \in SUBSET S /\ found \subseteq matches
  BY Zenon DEF SearchResults
<1>2. CASE Cardinality(found) = MaxResultLimit
  <2>1. Cardinality(found) <= Cardinality(S) /\ (Cardinality(S) = Cardinality(found) => S = found)
    BY <1>1, FS_Subset, Zenon
  <2>2. Cardinality(S) \in Nat /\ MaxResultLimit \in Nat
    BY FS_CardinalityType, ScdAssumption, Zenon
  <2>3. Cardinality(S) = Cardinality(found)
    BY <1>2, <2>1, <2>2
  <2> QED
    BY <1>1, <2>1, <2>3, Zenon
<1> QED
  BY <1>2, Zenon DEF SearchResults

-----------------------------------------------------------------------------
(* Two OIRs.                                                               *)

OVNOf(o, r) == <<o, IF r.requested # None THEN r.requested ELSE r.updatedAt>>

\* What LaterWriterIsAware says of an OIR o with record r1 and another with
\* record r2 whose last write had the key k2.
PairIsAware(o, r1, r2, k2) ==
  /\ r1.updatedAt < r2.updatedAt
  /\ StateRequiresKey(r2.state)
  /\ Intersects(r1, r2) /\ r1.alts \cap r2.alts # {}
  /\ r1.state # "Accepted" \/ r1.manager \notin k2.down
  => OVNOf(o, r1) \in k2.ovns

AllAware ==
  /\ \A x, y \in DOMAIN oirs : PairIsAware(x, oirs[x], oirs[y], keys[y])
  /\ \A x \in DOMAIN oirs : oirs[x].updatedAt <= seq

\* The property of the model is the one on pairs.
LEMMA AwareMeans == AllAware => LaterWriterIsAware
BY Zenon DEF AllAware, PairIsAware, LaterWriterIsAware, MatchingOIRs, OVN, OVNOf

\* Nothing but the upsert of an OIR can disturb what writers knew.
LEMMA KeepsAware ==
  ASSUME TypeOK, TypeOK', AllAware, seq <= seq', DOMAIN oirs' \subseteq DOMAIN oirs,
         \A x \in DOMAIN oirs' : oirs'[x] = oirs[x] /\ keys'[x] = keys[x]
  PROVE  AllAware'
<1>1. \A x \in DOMAIN oirs : oirs[x].updatedAt \in Nat
  BY Zenon DEF TypeOK, IsMap, OIRRecords
<1>2. seq \in Nat /\ seq' \in Nat
  BY Zenon DEF TypeOK
<1>3. \A x \in DOMAIN oirs' : oirs'[x].updatedAt <= seq'
  BY <1>1, <1>2 DEF AllAware
<1> QED
  BY <1>3, Zenon DEF AllAware

\* The key of an upsert is compared with the OVNs of all the OIRs it meets.
LEMMA PutIsAware ==
  ASSUME SearchesAreComplete, TypeOK, TypeOK', AllAware,
         NEW o \in OIRs, NEW m \in Managers, NEW st \in States, NEW v \in OIRVolumes,
         NEW sub \in Subs \cup {None}, NEW implicit \in BOOLEAN, NEW forCons \in BOOLEAN,
         NEW sfx, NEW key, PutOIR(o, m, st, v, sub, implicit, forCons, sfx, key)
  PROVE  AllAware'
<1>types. /\ seq \in Nat /\ seq' = seq + 1
          /\ \A x \in DOMAIN oirs : oirs[x].updatedAt \in Nat /\ oirs[x].updatedAt <= seq
  BY Zenon DEF TypeOK, IsMap, OIRRecords, AllAware, PutOIR
<1>dom. /\ DOMAIN oirs' = DOMAIN oirs \cup {o}
        /\ \A x \in DOMAIN oirs : x # o => oirs'[x] = oirs[x] /\ keys'[x] = keys[x]
  BY Zenon DEF PutOIR, Put, TypeOK
<1>new. /\ oirs'[o].updatedAt = seq + 1 /\ oirs'[o].state = st
        /\ oirs'[o].cells = v.cells /\ oirs'[o].alts = v.alts
        /\ oirs'[o].start = v.start /\ oirs'[o].end = v.end
        /\ keys'[o].ovns = key /\ keys'[o].down = {x \in Managers : Availability(x) = "Down"}
  BY Zenon DEF PutOIR, Put
<1>1. \A x \in DOMAIN oirs' : oirs'[x].updatedAt <= seq'
  <2> SUFFICES ASSUME NEW x \in DOMAIN oirs' PROVE oirs'[x].updatedAt <= seq'
    BY Zenon
  <2>1. CASE x = o
    BY <2>1, <1>new, <1>types
  <2>2. CASE x # o
    <3>1. oirs'[x].updatedAt = oirs[x].updatedAt /\ x \in DOMAIN oirs
      BY <2>2, <1>dom, Zenon
    <3> QED
      BY <3>1, <1>types
  <2> QED
    BY <2>1, <2>2, Zenon
<1>2. ASSUME NEW y \in DOMAIN oirs' PROVE PairIsAware(o, oirs'[o], oirs'[y], keys'[y])
  <2>1. oirs'[y].updatedAt \in Nat /\ oirs'[y].updatedAt <= oirs'[o].updatedAt
    BY <1>1, <1>types, <1>new, Zenon DEF TypeOK, IsMap, OIRRecords
  <2>2. ~ (oirs'[o].updatedAt < oirs'[y].updatedAt)
    BY <2>1, <1>new, <1>types
  <2> QED
    BY <2>2, Zenon DEF PairIsAware
<1>3. ASSUME NEW x \in DOMAIN oirs, x # o PROVE PairIsAware(x, oirs[x], oirs'[o], keys'[o])
  <2> SUFFICES ASSUME StateRequiresKey(st), Intersects(oirs[x], oirs'[o]), oirs[x].alts \cap v.alts # {},
                      oirs[x].state # "Accepted" \/ oirs[x].manager \notin keys'[o].down
               PROVE  OVNOf(x, oirs[x]) \in key
    BY <1>new, Zenon DEF PairIsAware
  <2>1. x \in MatchingOIRs(v)
    BY <1>new, Zenon DEF MatchingOIRs, Intersects, OverlapsTime
  <2>2. PICK foundOps \in SearchResults(MatchingOIRs(v)) :
             \E foundCons : KeyIsComplete(o, foundOps, foundCons, key)
    BY Zenon DEF PutOIR
  <2>3. MatchingOIRs(v) \in SUBSET OIRs
    BY Zenon DEF MatchingOIRs, TypeOK, IsMap
  <2>4. foundOps = MatchingOIRs(v)
    BY <2>2, <2>3, SearchReturnsAll, Zenon DEF SearchesAreComplete
  <2>5. oirs[x].manager \in Managers
    BY Zenon DEF TypeOK, IsMap, OIRRecords
  <2>6. OIRRequiresKey(x)
    BY <2>5, <1>new, Zenon DEF OIRRequiresKey
  <2>7. OVN(x) \in key
    BY <1>3, <2>1, <2>2, <2>4, <2>6, Zenon DEF KeyIsComplete
  <2> QED
    BY <2>7, Zenon DEF OVN, OVNOf
<1>4. \A x, y \in DOMAIN oirs' : PairIsAware(x, oirs'[x], oirs'[y], keys'[y])
  <2> SUFFICES ASSUME NEW x \in DOMAIN oirs', NEW y \in DOMAIN oirs'
               PROVE  PairIsAware(x, oirs'[x], oirs'[y], keys'[y])
    BY Zenon
  <2>1. CASE x = o
    BY <2>1, <1>2, Zenon
  <2>2. CASE x # o /\ y = o
    <3>1. x \in DOMAIN oirs /\ oirs'[x] = oirs[x]
      BY <2>2, <1>dom, Zenon
    <3> QED
      BY <3>1, <2>2, <1>3, Zenon
  <2>3. CASE x # o /\ y # o
    <3>1. x \in DOMAIN oirs /\ oirs'[x] = oirs[x] /\ y \in DOMAIN oirs /\ oirs'[y] = oirs[y] /\ keys'[y] = keys[y]
      BY <2>3, <1>dom, Zenon
    <3> QED
      BY <3>1, Zenon DEF AllAware
  <2> QED
    BY <2>1, <2>2, <2>3, Zenon
<1> QED
  BY <1>1, <1>4, Zenon DEF AllAware

\* Every step keeps all pairs of OIRs aware.
LEMMA AwareStep ==
  SearchesAreComplete /\ TypeOK /\ TypeOK' /\ AllAware /\ [Next]_vars => AllAware'
<1> SUFFICES ASSUME SearchesAreComplete, TypeOK, TypeOK', AllAware, [Next]_vars PROVE AllAware'
  BY Zenon
<1>seq. seq \in Nat /\ seq <= seq /\ seq <= seq + 1
  BY DEF TypeOK
<1>same. ASSUME oirs' = oirs, keys' = keys, seq' \in {seq, seq + 1} PROVE AllAware'
  BY <1>same, <1>seq, KeepsAware, Zenon
<1>1. CASE PutSomeOIR
  <2>1. PICK o \in OIRs, m \in Managers, st \in States, v \in OIRVolumes,
             sub \in Subs \cup {None}, implicit \in BOOLEAN, forCons \in BOOLEAN,
             sfx \in Suffixes \cup {None} :
               \E key \in SUBSET RelevantOVNs(o, v) :
                 PutOIR(o, m, st, v, sub, implicit, forCons, sfx, key)
    BY <1>1, Zenon DEF PutSomeOIR
  <2> QED
    BY <2>1, PutIsAware, Zenon
<1>2. ASSUME NEW D, oirs' = Without(oirs, D), keys' = Without(keys, D), seq' \in {seq, seq + 1}
      PROVE  AllAware'
  <2>1. DOMAIN keys = DOMAIN oirs
    BY Zenon DEF TypeOK
  <2>2. /\ DOMAIN oirs' \subseteq DOMAIN oirs
        /\ \A x \in DOMAIN oirs' : oirs'[x] = oirs[x] /\ keys'[x] = keys[x]
    BY <1>2, <2>1, Zenon DEF Without
  <2> QED
    BY <1>2, <1>seq, <2>2, KeepsAware, Zenon
<1>3. CASE DeleteSomeOIR
  BY <1>3, <1>2, Zenon DEF DeleteSomeOIR, DeleteOIR
<1>4. CASE EvictionStep
  BY <1>4, <1>2, Zenon DEF EvictionStep, EvictOIRs, EvictSubs
<1>5. CASE SubStep
  <2>1. ASSUME NEW i, NEW m, NEW v, NEW forOps, NEW forCons, PutSub(i, m, v, forOps, forCons)
        PROVE  AllAware'
    BY <2>1, <1>same, Zenon DEF PutSub
  <2>2. ASSUME NEW i, DeleteSub(i) PROVE AllAware'
    BY <2>2, <1>same, Zenon DEF DeleteSub
  <2> QED
    BY <1>5, <2>1, <2>2, Zenon DEF SubStep, PutSomeSub, DeleteSomeSub
<1>6. CASE ConstraintStep
  BY <1>6, <1>same, Zenon DEF ConstraintStep, PutSomeConstraint, DeleteSomeConstraint, PutConstraint, DeleteConstraint
<1>7. CASE AvailabilityStep \/ Tick \/ UNCHANGED vars
  BY <1>7, <1>same, Zenon DEF AvailabilityStep, SetAvailability, Tick, vars
<1> QED
  BY <1>1, <1>3, <1>4, <1>5, <1>6, <1>7, Zenon DEF Next, OIRStep

\* Of two intersecting OIRs the later writer has presented the current OVN of
\* the earlier one (the key check of executePutOperationalIntentReference),
\* whatever the number of OIRs up to the limit of a search.
THEOREM WritersAreAware ==
  ASSUME SearchesAreComplete
  PROVE  Spec => []LaterWriterIsAware
<1>1. Init => AllAware
  BY Zenon DEF Init, AllAware
<1>2. TypeOK /\ TypeOK' /\ AllAware /\ [Next]_vars => AllAware'
  BY AwareStep, Zenon
<1>3. AllAware => LaterWriterIsAware
  BY AwareMeans, Zenon
<1> QED
  BY <1>1, <1>2, <1>3, TypeCorrect, PTL DEF Spec

-----------------------------------------------------------------------------
(* An OIR and a constraint.                                                *)

\* A subscription that makes its OIRs show the constraints they know.
Asks(s) == s.implicit /\ s.notifyCons

\* What ConstraintProcessorIsAware says of a constraint c with record k and an
\* OIR with record r, attached to s, whose last write had the given key.
ProcessorIsAware(c, k, r, s, key) ==
  /\ Asks(s)
  /\ k.updatedAt < r.updatedAt
  /\ StateRequiresKey(r.state)
  /\ Intersects(k, r)
  => <<c, k.updatedAt>> \in key.ovns

AllProcessorsAware ==
  /\ \A x \in DOMAIN oirs : oirs[x].sub # None =>
       \A c \in DOMAIN cons : ProcessorIsAware(c, cons[c], oirs[x], subs[oirs[x].sub], keys[x])
  /\ \A x \in DOMAIN oirs : oirs[x].updatedAt <= seq
  /\ \A c \in DOMAIN cons : cons[c].updatedAt <= seq

\* The property of the model is the one on OIRs and constraints one by one.
LEMMA ProcessorsAwareMeans == AllProcessorsAware => ConstraintProcessorIsAware
BY Zenon DEF AllProcessorsAware, ProcessorIsAware, Asks, ConstraintProcessorIsAware, MatchingConstraints, ConstraintOVN

\* Whether a pair is aware depends on the subscription only through what it asks.
LEMMA NotAskingMore ==
  ASSUME NEW c, NEW k, NEW r, NEW s, NEW t, NEW key, ProcessorIsAware(c, k, r, s, key), Asks(t) => Asks(s)
  PROVE  ProcessorIsAware(c, k, r, t, key)
BY Zenon DEF ProcessorIsAware

\* A step that writes neither OIRs nor constraints, deletes some of them or
\* none, and makes no subscription in use ask more, leaves all aware.
LEMMA KeepsProcessorsAware ==
  ASSUME TypeOK, TypeOK', AllProcessorsAware, seq <= seq',
         DOMAIN oirs' \subseteq DOMAIN oirs, DOMAIN cons' \subseteq DOMAIN cons,
         \A x \in DOMAIN oirs' : oirs'[x] = oirs[x] /\ keys'[x] = keys[x],
         \A c \in DOMAIN cons' : cons'[c] = cons[c],
         \A x \in DOMAIN oirs' : oirs[x].sub # None => (Asks(subs'[oirs[x].sub]) => Asks(subs[oirs[x].sub]))
  PROVE  AllProcessorsAware'
<1>1. \A x \in DOMAIN oirs : oirs[x].updatedAt \in Nat
  BY Zenon DEF TypeOK, IsMap, OIRRecords
<1>2. \A c \in DOMAIN cons : cons[c].updatedAt \in Nat
  BY Zenon DEF TypeOK, IsMap, ConstraintRecords
<1>3. seq \in Nat /\ seq' \in Nat
  BY Zenon DEF TypeOK
<1>4. ASSUME NEW x \in DOMAIN oirs' PROVE oirs'[x].updatedAt <= seq'
  <2> DEFINE u == oirs[x].updatedAt
  <2>1. x \in DOMAIN oirs /\ oirs'[x] = oirs[x] /\ u <= seq
    BY <1>4, Zenon DEF AllProcessorsAware
  <2>2. u \in Nat
    BY <1>1, <2>1, Zenon
  <2> HIDE DEF u
  <2>3. u <= seq'
    BY <1>3, <2>1, <2>2
  <2> QED
    BY <2>1, <2>3, Zenon DEF u
<1>5. ASSUME NEW c \in DOMAIN cons' PROVE cons'[c].updatedAt <= seq'
  <2> DEFINE u == cons[c].updatedAt
  <2>1. c \in DOMAIN cons /\ cons'[c] = cons[c] /\ u <= seq
    BY <1>5, Zenon DEF AllProcessorsAware
  <2>2. u \in Nat
    BY <1>2, <2>1, Zenon
  <2> HIDE DEF u
  <2>3. u <= seq'
    BY <1>3, <2>1, <2>2
  <2> QED
    BY <2>1, <2>3, Zenon DEF u
<1>6. ASSUME NEW x \in DOMAIN oirs', oirs'[x].sub # None, NEW c \in DOMAIN cons'
      PROVE  ProcessorIsAware(c, cons'[c], oirs'[x], subs'[oirs'[x].sub], keys'[x])
  <2>1. /\ x \in DOMAIN oirs /\ c \in DOMAIN cons /\ oirs[x].sub # None
        /\ oirs'[x] = oirs[x] /\ keys'[x] = keys[x] /\ cons'[c] = cons[c]
    BY <1>6, Zenon
  <2>2. ProcessorIsAware(c, cons[c], oirs[x], subs[oirs[x].sub], keys[x])
    BY <2>1, Zenon DEF AllProcessorsAware
  <2>3. Asks(subs'[oirs[x].sub]) => Asks(subs[oirs[x].sub])
    BY <1>6, <2>1, Zenon
  <2>4. ProcessorIsAware(c, cons[c], oirs[x], subs'[oirs[x].sub], keys[x])
    BY <2>2, <2>3, NotAskingMore, Zenon
  <2> QED
    BY <2>1, <2>4, Zenon
<1> QED
  BY <1>4, <1>5, <1>6, Zenon DEF AllProcessorsAware

\* Notifying and deleting subscriptions makes none of the others ask more.
LEMMA NotifiedAsksTheSame ==
  ASSUME NEW S, NEW T, IsMap(S, Subs, SubRecords), SameButIndex(S, T), NEW i \in DOMAIN S
  PROVE  Asks(T[i]) <=> Asks(S[i])
<1>1. S[i] \in SubRecords /\ T[i] = [S[i] EXCEPT !.index = T[i].index]
  BY Zenon DEF IsMap, SameButIndex
<1>2. T[i].implicit = S[i].implicit /\ T[i].notifyCons = S[i].notifyCons
  BY <1>1, Zenon DEF SubRecords
<1> QED
  BY <1>2, Zenon DEF Asks

\* The attached subscription comes out of an upsert asking what the key was
\* checked for; the others ask no more than before.
LEMMA PutOIRAsks ==
  ASSUME TypeOK, NEW o \in OIRs, NEW m \in Managers, NEW st, NEW v \in OIRVolumes,
         NEW sub \in Subs \cup {None}, NEW implicit \in BOOLEAN, NEW forCons \in BOOLEAN,
         NEW sfx, NEW key, PutOIR(o, m, st, v, sub, implicit, forCons, sfx, key)
  PROVE  LET attached == Attached(m, v, sub, implicit, forCons)
         IN  /\ sub # None => (Asks(subs'[sub]) => attached[sub].notifyCons)
             /\ \A i \in DOMAIN subs \cap DOMAIN subs' : Asks(subs'[i]) => Asks(subs[i])
<1> DEFINE attached == Attached(m, v, sub, implicit, forCons)
           rest     == Without(attached, Replaced(o, sub))
<1>maps. IsMap(subs, Subs, SubRecords) /\ CanAttach(m, v, sub, implicit)
  BY Zenon DEF TypeOK, PutOIR
<1>0. GrownFor(attached, m, v, sub)
  BY <1>maps, AttachingGrows, Zenon
<1>1. IsMap(attached, Subs, SubRecords)
  BY <1>0, Zenon DEF GrownFor
<1>2. IsMap(rest, Subs, SubRecords)
  BY <1>1, WithoutIsMap, Zenon
<1>3. subs' = NotifiedForOps(rest, NotifyVolume(o, v))
  BY Zenon DEF PutOIR
<1>4. SameButIndex(rest, subs')
  BY <1>2, <1>3, NotifyingKeepsRecords, Zenon
<1>5. DOMAIN subs' = DOMAIN rest /\ \A i \in DOMAIN rest : Asks(subs'[i]) <=> Asks(rest[i])
  BY <1>2, <1>4, NotifiedAsksTheSame, Zenon DEF SameButIndex
<1>6. DOMAIN rest \subseteq DOMAIN attached /\ \A i \in DOMAIN rest : rest[i] = attached[i]
  BY Zenon DEF Without
<1>7. sub # None => sub \in DOMAIN rest
  BY Zenon DEF Attached, Put, Without, Replaced
<1>8. sub # None => (Asks(subs'[sub]) => attached[sub].notifyCons)
  BY <1>5, <1>6, <1>7, Zenon DEF Asks
<1>9. ASSUME NEW i \in DOMAIN subs, i \in DOMAIN subs', Asks(subs'[i]) PROVE Asks(subs[i])
  <2>1. Asks(attached[i])
    BY <1>5, <1>6, <1>9, Zenon
  <2>2. CASE sub = None \/ i # sub
    BY <2>1, <2>2, Zenon DEF Attached, Put
  <2>3. CASE sub # None /\ i = sub
    <3>1. ~ implicit /\ attached[i] = Extended(subs[i], v)
      BY <2>3, <1>9, <1>maps, Zenon DEF CanAttach, Attached, Put
    <3>2. subs[i] \in SubRecords
      BY <1>maps, Zenon DEF IsMap
    <3>3. Extended(subs[i], v).implicit = subs[i].implicit /\ Extended(subs[i], v).notifyCons = subs[i].notifyCons
      BY <3>2, Zenon DEF Extended, SubRecords
    <3> QED
      BY <2>1, <3>1, <3>3, Zenon DEF Asks
  <2> QED
    BY <2>2, <2>3, Zenon
<1> QED
  BY <1>8, <1>9, Zenon

\* Stamps given up to now are not above the next one.
LEMMA StampsBelowNext ==
  ASSUME NEW n \in Nat
  PROVE  n <= n + 1 /\ n + 1 <= n + 1 /\ \A u \in Nat : u <= n => u <= n + 1
OBVIOUS

\* The key of an upsert that attaches a subscription asking for constraints is
\* compared with the OVNs of all the constraints the OIR meets.
LEMMA PutKeepsProcessorsAware ==
  ASSUME SearchesAreComplete, IInv, IInv', AllProcessorsAware,
         NEW o \in OIRs, NEW m \in Managers, NEW st \in States, NEW v \in OIRVolumes,
         NEW sub \in Subs \cup {None}, NEW implicit \in BOOLEAN, NEW forCons \in BOOLEAN,
         NEW sfx, NEW key, PutOIR(o, m, st, v, sub, implicit, forCons, sfx, key)
  PROVE  AllProcessorsAware'
<1> DEFINE attached == Attached(m, v, sub, implicit, forCons)
<1>inv. TypeOK /\ TypeOK' /\ AllServed /\ AllServed'
  BY Zenon DEF IInv
<1>types. /\ seq \in Nat /\ seq' = seq + 1 /\ cons' = cons
          /\ \A x \in DOMAIN oirs : oirs[x].updatedAt \in Nat /\ oirs[x].updatedAt <= seq
          /\ \A c \in DOMAIN cons : cons[c].updatedAt \in Nat /\ cons[c].updatedAt <= seq
  BY <1>inv, Zenon DEF TypeOK, IsMap, OIRRecords, ConstraintRecords, AllProcessorsAware, PutOIR
<1>dom. /\ DOMAIN oirs' = DOMAIN oirs \cup {o}
        /\ \A x \in DOMAIN oirs : x # o => oirs'[x] = oirs[x] /\ keys'[x] = keys[x]
  BY <1>inv, Zenon DEF PutOIR, Put, TypeOK
<1>new. /\ oirs'[o].updatedAt = seq + 1 /\ oirs'[o].state = st /\ oirs'[o].sub = sub
        /\ oirs'[o].cells = v.cells /\ oirs'[o].start = v.start /\ oirs'[o].end = v.end
        /\ keys'[o].ovns = key
  BY Zenon DEF PutOIR, Put
<1>1. \A x \in DOMAIN oirs' : oirs'[x].updatedAt <= seq'
  <2> SUFFICES ASSUME NEW x \in DOMAIN oirs' PROVE oirs'[x].updatedAt <= seq'
    BY Zenon
  <2>1. CASE x = o
    BY <2>1, <1>new, <1>types, StampsBelowNext, Zenon
  <2>2. CASE x # o
    <3>1. oirs'[x].updatedAt = oirs[x].updatedAt /\ x \in DOMAIN oirs
      BY <2>2, <1>dom, Zenon
    <3> QED
      BY <3>1, <1>types, StampsBelowNext, Zenon
  <2> QED
    BY <2>1, <2>2, Zenon
<1>2. \A c \in DOMAIN cons' : cons'[c].updatedAt <= seq'
  BY <1>types, StampsBelowNext, Zenon
<1>3. ASSUME sub # None, NEW c \in DOMAIN cons
      PROVE  ProcessorIsAware(c, cons[c], oirs'[o], subs'[sub], keys'[o])
  <2> SUFFICES ASSUME Asks(subs'[sub]), StateRequiresKey(st), Intersects(cons[c], oirs'[o])
               PROVE  <<c, cons[c].updatedAt>> \in key
    BY <1>new, Zenon DEF ProcessorIsAware
  <2>1. attached[sub].notifyCons
    BY <1>3, <1>inv, PutOIRAsks, Zenon
  <2>2. c \in MatchingConstraints(v)
    BY <1>new, Zenon DEF MatchingConstraints, Intersects, OverlapsTime
  <2>3. PICK foundOps \in SearchResults(MatchingOIRs(v)),
             foundCons \in SearchResults(MatchingConstraints(v)) :
          KeyIsComplete(o, foundOps, IF sub # None /\ attached[sub].notifyCons THEN foundCons ELSE {}, key)
    BY Zenon DEF PutOIR
  <2>4. MatchingConstraints(v) \in SUBSET Constraints
    BY <1>inv, Zenon DEF MatchingConstraints, TypeOK, IsMap
  <2>5. foundCons = MatchingConstraints(v)
    BY <2>3, <2>4, SearchReturnsAll, Zenon DEF SearchesAreComplete
  <2>6. ConstraintOVN(c) \in key
    BY <1>3, <2>1, <2>2, <2>3, <2>5, Zenon DEF KeyIsComplete
  <2> QED
    BY <2>6, Zenon DEF ConstraintOVN
<1>4. ASSUME NEW x \in DOMAIN oirs', oirs'[x].sub # None, NEW c \in DOMAIN cons'
      PROVE  ProcessorIsAware(c, cons'[c], oirs'[x], subs'[oirs'[x].sub], keys'[x])
  <2>1. CASE x = o
    <3>1. sub # None /\ c \in DOMAIN cons /\ cons' = cons /\ oirs'[x].sub = sub
      BY <2>1, <1>4, <1>types, <1>new, Zenon
    <3>2. ProcessorIsAware(c, cons[c], oirs'[o], subs'[sub], keys'[o])
      BY <1>3, <3>1, Zenon
    <3> QED
      BY <2>1, <3>1, <3>2, Zenon
  <2>2. CASE x # o
    <3>1. /\ x \in DOMAIN oirs /\ oirs'[x] = oirs[x] /\ keys'[x] = keys[x]
          /\ oirs[x].sub # None /\ c \in DOMAIN cons /\ cons' = cons
      BY <2>2, <1>4, <1>dom, <1>types, Zenon
    <3>2. oirs[x].sub \in DOMAIN subs \cap DOMAIN subs'
      BY <1>4, <3>1, <1>inv, Zenon DEF AllServed, Served
    <3>3. Asks(subs'[oirs[x].sub]) => Asks(subs[oirs[x].sub])
      BY <3>2, <1>inv, PutOIRAsks, Zenon
    <3>4. ProcessorIsAware(c, cons[c], oirs[x], subs[oirs[x].sub], keys[x])
      BY <3>1, Zenon DEF AllProcessorsAware
    <3>5. ProcessorIsAware(c, cons[c], oirs[x], subs'[oirs[x].sub], keys[x])
      BY <3>3, <3>4, NotAskingMore, Zenon
    <3> QED
      BY <3>1, <3>5, Zenon
  <2> QED
    BY <2>1, <2>2, Zenon
<1> QED
  BY <1>1, <1>2, <1>4, Zenon DEF AllProcessorsAware

\* Every step keeps all OIRs aware of the constraints they process.
LEMMA ProcessorsAwareStep ==
  SearchesAreComplete /\ IInv /\ IInv' /\ AllProcessorsAware /\ [Next]_vars => AllProcessorsAware'
<1> SUFFICES ASSUME SearchesAreComplete, IInv, IInv', AllProcessorsAware, [Next]_vars
             PROVE  AllProcessorsAware'
  BY Zenon
<1>inv. TypeOK /\ TypeOK' /\ AllServed /\ AllServed' /\ IsMap(subs, Subs, SubRecords)
  BY Zenon DEF IInv, TypeOK
<1>seq. seq \in Nat /\ seq <= seq /\ seq <= seq + 1
  BY <1>inv DEF TypeOK
<1>sub. \A x \in DOMAIN oirs : oirs[x].sub # None => oirs[x].sub \in DOMAIN subs
  BY <1>inv, Zenon DEF AllServed, Served
<1>1. CASE PutSomeOIR
  <2>1. PICK o \in OIRs, m \in Managers, st \in States, v \in OIRVolumes,
             sub \in Subs \cup {None}, implicit \in BOOLEAN, forCons \in BOOLEAN,
             sfx \in Suffixes \cup {None} :
               \E key \in SUBSET RelevantOVNs(o, v) :
                 PutOIR(o, m, st, v, sub, implicit, forCons, sfx, key)
    BY <1>1, Zenon DEF PutSomeOIR
  <2> QED
    BY <2>1, PutKeepsProcessorsAware, Zenon
<1>2. ASSUME NEW D, oirs' = Without(oirs, D), keys' = Without(keys, D), cons' = cons,
             seq' \in {seq, seq + 1},
             \A x \in DOMAIN oirs \ D : oirs[x].sub # None =>
               (Asks(subs'[oirs[x].sub]) => Asks(subs[oirs[x].sub]))
      PROVE  AllProcessorsAware'
  <2>1. DOMAIN keys = DOMAIN oirs /\ seq <= seq'
    BY <1>2, <1>inv, <1>seq, Zenon DEF TypeOK
  <2>2. /\ DOMAIN oirs' = DOMAIN oirs \ D
        /\ \A x \in DOMAIN oirs' : oirs'[x] = oirs[x] /\ keys'[x] = keys[x]
    BY <1>2, <2>1, Zenon DEF Without
  <2> QED
    BY <1>2, <1>inv, <2>1, <2>2, KeepsProcessorsAware, Zenon
<1>3. ASSUME NEW o \in OIRs, DeleteOIR(o) PROVE AllProcessorsAware'
  <2> DEFINE N == NotifiedForOps(subs, oirs[o])
  <2>1. \A i \in DOMAIN subs : Asks(N[i]) <=> Asks(subs[i])
    BY <1>inv, NotifyingKeepsRecords, NotifiedAsksTheSame, Zenon
  <2>2. \A i \in DOMAIN subs' : subs'[i] = N[i]
    BY <1>3, Zenon DEF DeleteOIR, Without
  <2>3. /\ oirs' = Without(oirs, {o}) /\ keys' = Without(keys, {o}) /\ cons' = cons /\ seq' = seq + 1
    BY <1>3, Zenon DEF DeleteOIR
  <2>4. \A x \in DOMAIN oirs \ {o} : oirs[x].sub # None => oirs[x].sub \in DOMAIN subs'
    BY <2>3, <1>inv, Zenon DEF Without, AllServed, Served
  <2> QED
    BY <1>2, <1>sub, <2>1, <2>2, <2>3, <2>4, Zenon
<1>4. ASSUME oirs' = oirs, keys' = keys, seq' \in {seq, seq + 1}, DOMAIN cons' \subseteq DOMAIN cons,
             \A c \in DOMAIN cons' : cons'[c] = cons[c],
             \A i \in DOMAIN subs \cap DOMAIN subs' : Asks(subs'[i]) => Asks(subs[i])
      PROVE  AllProcessorsAware'
  <2>1. \A x \in DOMAIN oirs : oirs[x].sub # None => oirs[x].sub \in DOMAIN subs \cap DOMAIN subs'
    BY <1>4, <1>sub, <1>inv, Zenon DEF AllServed, Served
  <2> QED
    BY <1>4, <1>inv, <1>seq, <2>1, KeepsProcessorsAware, Zenon
<1>5. ASSUME NEW i, NEW m, NEW v, NEW forOps, NEW forCons, PutSub(i, m, v, forOps, forCons)
      PROVE  AllProcessorsAware'
  <2>1. /\ oirs' = oirs /\ keys' = keys /\ seq' = seq + 1 /\ cons' = cons
        /\ \A j \in DOMAIN subs : j # i => subs'[j] = subs[j]
        /\ subs'[i].implicit = FALSE
    BY <1>5, Zenon DEF PutSub, Put
  <2>2. \A j \in DOMAIN subs : Asks(subs'[j]) => Asks(subs[j])
    BY <2>1, Zenon DEF Asks
  <2> QED
    BY <2>1, <2>2, <1>4, Zenon
<1>6. ASSUME NEW i, DeleteSub(i) PROVE AllProcessorsAware'
  <2>1. /\ oirs' = oirs /\ keys' = keys /\ seq' = seq + 1 /\ cons' = cons
        /\ \A j \in DOMAIN subs' : subs'[j] = subs[j]
    BY <1>6, Zenon DEF DeleteSub, Without
  <2> QED
    BY <2>1, <1>4, Zenon
<1>7. ASSUME NEW c \in Constraints, NEW m \in Managers, NEW v \in OIRVolumes, PutConstraint(c, m, v)
      PROVE  AllProcessorsAware'
  <2>1. /\ oirs' = oirs /\ keys' = keys /\ seq' = seq + 1 /\ DOMAIN cons' = DOMAIN cons \cup {c}
        /\ \A d \in DOMAIN cons : d # c => cons'[d] = cons[d]
        /\ cons'[c].updatedAt = seq + 1
    BY <1>7, Zenon DEF PutConstraint, Put
  <2>2. SameButIndex(subs, subs')
    BY <1>7, <1>inv, NotifyingKeepsRecords, Zenon DEF PutConstraint
  <2>3. \A i \in DOMAIN subs : Asks(subs'[i]) <=> Asks(subs[i])
    BY <2>2, <1>inv, NotifiedAsksTheSame, Zenon
  <2>4. /\ \A x \in DOMAIN oirs : oirs[x].updatedAt \in Nat /\ oirs[x].updatedAt <= seq
        /\ \A d \in DOMAIN cons : cons[d].updatedAt \in Nat /\ cons[d].updatedAt <= seq
    BY <1>inv, Zenon DEF TypeOK, IsMap, OIRRecords, ConstraintRecords, AllProcessorsAware
  <2>5. \A x \in DOMAIN oirs' : oirs'[x].updatedAt <= seq'
    BY <2>1, <2>4, <1>seq
  <2>6. ASSUME NEW d \in DOMAIN cons' PROVE cons'[d].updatedAt <= seq'
    <3>1. CASE d = c
      BY <3>1, <2>1, <1>seq
    <3>2. CASE d # c
      <4>1. d \in DOMAIN cons /\ cons'[d].updatedAt = cons[d].updatedAt
        BY <3>2, <2>1, Zenon
      <4> QED
        BY <4>1, <2>1, <2>4, <1>seq
    <3> QED
      BY <3>1, <3>2, Zenon
  <2>7. ASSUME NEW x \in DOMAIN oirs', oirs'[x].sub # None, NEW d \in DOMAIN cons'
        PROVE  ProcessorIsAware(d, cons'[d], oirs'[x], subs'[oirs'[x].sub], keys'[x])
    <3>0. x \in DOMAIN oirs /\ oirs[x].sub # None /\ oirs[x].sub \in DOMAIN subs
      BY <2>1, <2>7, <1>sub, Zenon
    <3>1. CASE d = c
      <4>1. ~ (cons'[d].updatedAt < oirs'[x].updatedAt)
        BY <3>0, <3>1, <2>1, <2>4, <1>seq
      <4> QED
        BY <4>1, Zenon DEF ProcessorIsAware
    <3>2. CASE d # c
      <4>1. d \in DOMAIN cons /\ cons'[d] = cons[d]
        BY <3>2, <2>1, Zenon
      <4>2. ProcessorIsAware(d, cons[d], oirs[x], subs[oirs[x].sub], keys[x])
        BY <3>0, <4>1, Zenon DEF AllProcessorsAware
      <4>3. ProcessorIsAware(d, cons[d], oirs[x], subs'[oirs[x].sub], keys[x])
        BY <3>0, <2>3, <4>2, NotAskingMore, Zenon
      <4> QED
        BY <2>1, <4>1, <4>3, Zenon
    <3> QED
      BY <3>1, <3>2, Zenon
  <2> QED
    BY <2>5, <2>6, <2>7, Zenon DEF AllProcessorsAware
<1>8. ASSUME NEW c \in Constraints, DeleteConstraint(c) PROVE AllProcessorsAware'
  <2>1. /\ oirs' = oirs /\ keys' = keys /\ seq' = seq + 1 /\ DOMAIN cons' \subseteq DOMAIN cons
        /\ \A d \in DOMAIN cons' : cons'[d] = cons[d]
    BY <1>8, Zenon DEF DeleteConstraint, Without
  <2>2. SameButIndex(subs, subs')
    BY <1>8, <1>inv, NotifyingKeepsRecords, Zenon DEF DeleteConstraint
  <2>3. \A i \in DOMAIN subs : Asks(subs'[i]) <=> Asks(subs[i])
    BY <2>2, <1>inv, NotifiedAsksTheSame, Zenon
  <2> QED
    BY <2>1, <2>3, <1>4, Zenon
<1>9. ASSUME NEW batch \in SUBSET DOMAIN oirs, EvictOIRs(batch) PROVE AllProcessorsAware'
  BY <1>9, <1>2, Zenon DEF EvictOIRs
<1>10. ASSUME NEW batch \in SUBSET DOMAIN subs, EvictSubs(batch) PROVE AllProcessorsAware'
  <2> DEFINE D == {o \in DOMAIN oirs : oirs[o].sub \in batch}
  <2>1. /\ oirs' = Without(oirs, D) /\ keys' = Without(keys, D) /\ cons' = cons /\ seq' = seq
        /\ \A i \in DOMAIN subs \ batch : subs'[i] = subs[i]
    BY <1>10, Zenon DEF EvictSubs, Without
  <2> QED
    BY <2>1, <1>2, <1>sub, Zenon
<1>11. CASE AvailabilityStep \/ Tick \/ UNCHANGED vars
  BY <1>11, <1>4, Zenon DEF AvailabilityStep, SetAvailability, Tick, vars
<1>a. CASE OIRStep
  BY <1>a, <1>1, <1>3, Zenon DEF OIRStep, DeleteSomeOIR
<1>b. CASE SubStep
  BY <1>b, <1>5, <1>6, Zenon DEF SubStep, PutSomeSub, DeleteSomeSub
<1>c. CASE ConstraintStep
  BY <1>c, <1>7, <1>8, Zenon DEF ConstraintStep, PutSomeConstraint, DeleteSomeConstraint
<1>d. CASE EvictionStep
  BY <1>d, <1>9, <1>10, Zenon DEF EvictionStep
<1> QED
  BY <1>a, <1>b, <1>c, <1>d, <1>11, Zenon DEF Next

\* An OIR whose implicit subscription asks for constraints was last written with
\* the OVNs of those already in its volume, although the subscription may be
\* created, extended or shared later (needsConstraints in the key check).
THEOREM ProcessorsAreAware ==
  ASSUME SearchesAreComplete
  PROVE  Spec => []ConstraintProcessorIsAware
<1>1. Init => AllProcessorsAware
  BY Zenon DEF Init, AllProcessorsAware
<1>2. IInv /\ IInv' /\ AllProcessorsAware /\ [Next]_vars => AllProcessorsAware'
  BY ProcessorsAwareStep, Zenon
<1>3. AllProcessorsAware => ConstraintProcessorIsAware
  BY ProcessorsAwareMeans, Zenon
<1> QED
  BY <1>1, <1>2, <1>3, Invariance, PTL DEF Spec

-----------------------------------------------------------------------------
(* OVNs on request.                                                        *)

\* An OVN was given while its suffix was within the clock skew.
GivenInTime(g) == SuffixTime[g.ovn[2]] \in (g.at - Skew)..(g.at + Skew)

AllGivenInTime == \A g \in given : GivenInTime(g)

\* Two times within the skew of a third are within twice the skew of each other.
LEMMA WithinTwiceTheSkew ==
  ASSUME NEW a \in Int, NEW b \in Int, NEW t \in Int, NEW s \in Nat,
         t \in (a - s)..(a + s), t \in (b - s)..(b + s)
  PROVE  a - b <= 2 * s
OBVIOUS

\* What was given in time came back soon, if it came back.
LEMMA GivenInTimeMeans == TypeOK /\ AllGivenInTime => OVNComesBackSoon
<1> SUFFICES ASSUME TypeOK, AllGivenInTime, NEW g \in given, NEW h \in given, g.ovn = h.ovn
             PROVE  g.at - h.at <= 2 * Skew
  BY Zenon DEF OVNComesBackSoon
<1> DEFINE t == SuffixTime[g.ovn[2]]
<1>1. g \in [ovn : OIRs \X Suffixes, at : Nat] /\ h \in [ovn : OIRs \X Suffixes, at : Nat]
  BY Zenon DEF TypeOK
<1>2. g.at \in Int /\ h.at \in Int /\ g.ovn[2] \in Suffixes
  BY <1>1
<1>3. t \in Int /\ Skew \in Nat
  BY <1>2, ScdAssumption, Zenon
<1>4. t \in (g.at - Skew)..(g.at + Skew) /\ t \in (h.at - Skew)..(h.at + Skew)
  BY Zenon DEF AllGivenInTime, GivenInTime
<1> HIDE DEF t
<1> QED
  BY <1>2, <1>3, <1>4, WithinTwiceTheSkew, Zenon

\* Only an upsert gives an OVN, and it compares the suffix with the clock first;
\* no deletion or eviction makes an OVN given before be forgotten.
LEMMA GivenInTimeStep == AllGivenInTime /\ [Next]_vars => AllGivenInTime'
<1> SUFFICES ASSUME AllGivenInTime, [Next]_vars PROVE AllGivenInTime'
  BY Zenon
<1>same. ASSUME given' = given PROVE AllGivenInTime'
  BY <1>same, Zenon DEF AllGivenInTime
<1>1. ASSUME NEW o, NEW m, NEW st, NEW v, NEW sub, NEW implicit, NEW forCons, NEW sfx, NEW key,
             PutOIR(o, m, st, v, sub, implicit, forCons, sfx, key)
      PROVE  AllGivenInTime'
  <2> DEFINE new == [ovn |-> <<o, sfx>>, at |-> now]
  <2>1. CASE sfx = None
    BY <1>1, <2>1, <1>same, Zenon DEF PutOIR
  <2>2. CASE sfx # None
    <3>1. given' = given \cup {new} /\ SuffixTime[sfx] \in (now - Skew)..(now + Skew)
      BY <1>1, <2>2, Zenon DEF PutOIR, ValidOIRParams
    <3>2. new.ovn[2] = sfx /\ new.at = now
      BY Zenon
    <3>3. GivenInTime(new)
      BY <3>1, <3>2, Zenon DEF GivenInTime
    <3> HIDE DEF new
    <3> QED
      BY <3>1, <3>3, Zenon DEF AllGivenInTime
  <2> QED
    BY <2>1, <2>2, Zenon
<1>2. CASE PutSomeOIR
  BY <1>2, <1>1, Zenon DEF PutSomeOIR
<1>3. CASE DeleteSomeOIR
  BY <1>3, <1>same, Zenon DEF DeleteSomeOIR, DeleteOIR
<1>4. CASE EvictionStep
  BY <1>4, <1>same, Zenon DEF EvictionStep, EvictOIRs, EvictSubs
<1>5. CASE SubStep
  <2>1. ASSUME NEW i, NEW m, NEW v, NEW forOps, NEW forCons, PutSub(i, m, v, forOps, forCons)
        PROVE  given' = given
    BY <2>1, Zenon DEF PutSub
  <2>2. ASSUME NEW i, DeleteSub(i) PROVE given' = given
    BY <2>2, Zenon DEF DeleteSub
  <2> QED
    BY <1>5, <1>same, <2>1, <2>2, Zenon DEF SubStep, PutSomeSub, DeleteSomeSub
<1>6. CASE ConstraintStep
  BY <1>6, <1>same, Zenon DEF ConstraintStep, PutSomeConstraint, DeleteSomeConstraint, PutConstraint, DeleteConstraint
<1>7. CASE AvailabilityStep \/ Tick \/ UNCHANGED vars
  BY <1>7, <1>same, Zenon DEF AvailabilityStep, SetAvailability, Tick, vars
<1> QED
  BY <1>2, <1>3, <1>4, <1>5, <1>6, <1>7, Zenon DEF Next, OIRStep

\* In every store, and over deletions and evictions, an OIR is given the same
\* requested OVN only at times within twice the clock skew of each other
\* (NewOVNFromUUIDv7Suffix).
THEOREM RequestedOVNsComeBackSoon == Spec => []OVNComesBackSoon
<1>1. Init => AllGivenInTime
  BY Zenon DEF Init, AllGivenInTime
<1>2. AllGivenInTime /\ [Next]_vars => AllGivenInTime'
  BY GivenInTimeStep, Zenon
<1>3. TypeOK /\ AllGivenInTime => OVNComesBackSoon
  BY GivenInTimeMeans, Zenon
<1> QED
  BY <1>1, <1>2, <1>3, TypeCorrect, PTL DEF Spec
=============================================================================
