----------------------------- MODULE RidProofs -----------------------------
(***************************************************************************)
(* Proofs about Rid, for any owners, ISAs, subscriptions, areas and times: *)
(* the subscription quota, for which counting before each write is enough  *)
(* although subscriptions move, expire and are renewed; the types of the   *)
(* records; and that the USSs of live subscriptions know the ISAs in their *)
(* areas, while no search for ISAs is cut short.                           *)
(***************************************************************************)
EXTENDS Rid, FiniteSetTheorems, TLAPS

IsSub(r) ==
  /\ r.end \in Int /\ r.start \in Int
  /\ r = [owner |-> r.owner, index |-> r.index, cells |-> r.cells, start |-> r.start, end |-> r.end,
          updatedAt |-> r.updatedAt]

\* the live subscriptions of owner o in cell c, were the store f and the time t
LiveOf(f, t, o, c) == {i \in DOMAIN f : f[i].owner = o /\ f[i].end >= t /\ c \in f[i].cells}

\* the quota, in a store f at time t
Quota(f, t) ==
  \A o \in Owners, c \in Leaf : Cardinality(LiveOf(f, t, o, c)) <= maxSubscriptionsPerArea

(* The inductive invariant. *)
QInv ==
  /\ now \in Int
  /\ IsFiniteSet(DOMAIN subs)
  /\ \A i \in DOMAIN subs : IsSub(subs[i])
  /\ Quota(subs, now)

-----------------------------------------------------------------------------
(* What checkSubscriptionCount counts. *)
LEMMA CountsLive ==
  ASSUME NEW o, NEW c
  PROVE  LiveInCell(o, c) = LiveOf(subs, now, o, c)
BY Zenon DEF LiveInCell, LiveOf, Live

(* Fewer live subscriptions, or the same ones, respect the quota. *)
LEMMA FewerLive ==
  ASSUME NEW f, NEW t, NEW g, NEW u, Quota(f, t), IsFiniteSet(DOMAIN f),
         \A o \in Owners, c \in Leaf : LiveOf(g, u, o, c) \subseteq LiveOf(f, t, o, c)
  PROVE  Quota(g, u)
<1> SUFFICES ASSUME NEW o \in Owners, NEW c \in Leaf
             PROVE  Cardinality(LiveOf(g, u, o, c)) <= maxSubscriptionsPerArea
  BY Zenon DEF Quota
<1> DEFINE S == LiveOf(f, t, o, c)
<1> DEFINE T == LiveOf(g, u, o, c)
<1>1. T \subseteq S /\ S \subseteq DOMAIN f /\ Cardinality(S) <= maxSubscriptionsPerArea
  BY Zenon DEF Quota, LiveOf
<1> HIDE DEF S, T
<1>2. IsFiniteSet(S) /\ IsFiniteSet(T)
  BY <1>1, FS_Subset, Zenon
<1>3. Cardinality(T) <= Cardinality(S) /\ Cardinality(T) \in Nat /\ Cardinality(S) \in Nat
  BY <1>1, <1>2, FS_Subset, FS_CardinalityType, Zenon
<1>4. Cardinality(T) <= maxSubscriptionsPerArea
  BY <1>1, <1>3, RidAssumption
<1> QED BY <1>4, Zenon DEF T

(* A write after the count: the subscription written is at most one more in *)
(* the cells that were counted, and no more than before elsewhere.          *)
LEMMA OneMoreLive ==
  ASSUME NEW f, NEW t, NEW g, NEW i, NEW o, NEW cells, Quota(f, t), IsFiniteSet(DOMAIN f),
         \A c \in cells : Cardinality(LiveOf(f, t, o, c)) < maxSubscriptionsPerArea,
         DOMAIN g = DOMAIN f \cup {i}, \A k \in DOMAIN f : k # i => g[k] = f[k],
         g[i].owner = o, g[i].cells = cells
  PROVE  Quota(g, t)
<1> SUFFICES ASSUME NEW p \in Owners, NEW c \in Leaf
             PROVE  Cardinality(LiveOf(g, t, p, c)) <= maxSubscriptionsPerArea
  BY Zenon DEF Quota
<1> DEFINE S == LiveOf(f, t, p, c)
<1> DEFINE T == LiveOf(g, t, p, c)
<1>1. S \subseteq DOMAIN f /\ Cardinality(S) <= maxSubscriptionsPerArea
  BY Zenon DEF Quota, LiveOf
<1>2. T \subseteq S \cup {i}
  BY Zenon DEF LiveOf
<1>3. (p # o \/ c \notin cells) => T \subseteq S
  BY Zenon DEF LiveOf
<1>4. (p = o /\ c \in cells) => Cardinality(S) < maxSubscriptionsPerArea
  BY Zenon
<1> HIDE DEF S, T
<1>5. IsFiniteSet(S) /\ Cardinality(S) \in Nat
  BY <1>1, FS_Subset, FS_CardinalityType, Zenon
<1>6. CASE T \subseteq S
  <2>1. Cardinality(T) <= Cardinality(S) /\ Cardinality(T) \in Nat
    BY <1>5, <1>6, FS_Subset, FS_CardinalityType, Zenon
  <2>2. Cardinality(T) <= maxSubscriptionsPerArea
    BY <1>1, <1>5, <2>1, RidAssumption
  <2> QED BY <2>2, Zenon DEF T
<1>7. CASE Cardinality(S) < maxSubscriptionsPerArea
  <2>1. IsFiniteSet(S \cup {i}) /\ Cardinality(S \cup {i}) <= Cardinality(S) + 1
        /\ Cardinality(S \cup {i}) \in Nat
    <3>1. IsFiniteSet(S \cup {i})
          /\ (Cardinality(S \cup {i}) = Cardinality(S) \/ Cardinality(S \cup {i}) = Cardinality(S) + 1)
      BY <1>5, FS_AddElement, Zenon
    <3> QED BY <1>5, <3>1
  <2>2. Cardinality(T) <= Cardinality(S \cup {i}) /\ Cardinality(T) \in Nat
    BY <1>2, <2>1, FS_Subset, FS_CardinalityType, Zenon
  <2>3. Cardinality(T) <= maxSubscriptionsPerArea
    BY <1>5, <1>7, <2>1, <2>2, RidAssumption
  <2> QED BY <2>3, Zenon DEF T
<1> QED BY <1>3, <1>4, <1>6, <1>7, Zenon

-----------------------------------------------------------------------------
(* Notifications only advance indices. *)
LEMMA NotifyKeeps ==
  ASSUME QInv, NEW cells, subs' = UpdateNotificationIdxsInCells(cells), now' = now
  PROVE  QInv'
<1>1. DOMAIN subs' = DOMAIN subs
  BY Zenon DEF UpdateNotificationIdxsInCells
<1>2. ASSUME NEW i \in DOMAIN subs
      PROVE  IsSub(subs'[i]) /\ subs'[i].owner = subs[i].owner /\ subs'[i].cells = subs[i].cells
             /\ subs'[i].end = subs[i].end
  <2> DEFINE r == subs[i]
  <2> DEFINE n == r.index + 1
  <2>1. subs'[i] = r \/ subs'[i] = [r EXCEPT !.index = n]
    BY Zenon DEF UpdateNotificationIdxsInCells
  <2>2. IsSub(r)
    BY Zenon DEF QInv
  <2> HIDE DEF r, n
  <2>3. /\ IsSub([r EXCEPT !.index = n]) /\ [r EXCEPT !.index = n].owner = r.owner
        /\ [r EXCEPT !.index = n].cells = r.cells /\ [r EXCEPT !.index = n].end = r.end
    BY <2>2 DEF IsSub
  <2> QED BY <2>1, <2>2, <2>3, Zenon DEF r
<1>3. \A o \in Owners, c \in Leaf : LiveOf(subs', now, o, c) \subseteq LiveOf(subs, now, o, c)
  BY <1>1, <1>2, Zenon DEF LiveOf
<1>4. Quota(subs', now)
  BY <1>3, FewerLive, Zenon DEF QInv
<1> QED BY <1>1, <1>2, <1>4, Zenon DEF QInv

(* Deletion and eviction. *)
LEMMA RemoveKeeps ==
  ASSUME QInv, NEW K, subs' = Without(subs, K), now' = now
  PROVE  QInv'
<1>1. DOMAIN subs' \subseteq DOMAIN subs /\ \A i \in DOMAIN subs' : subs'[i] = subs[i]
  BY Zenon DEF Without
<1>2. \A o \in Owners, c \in Leaf : LiveOf(subs', now, o, c) \subseteq LiveOf(subs, now, o, c)
  BY <1>1, Zenon DEF LiveOf
<1>3. Quota(subs', now) /\ IsFiniteSet(DOMAIN subs')
  BY <1>1, <1>2, FewerLive, FS_Subset, Zenon DEF QInv
<1> QED BY <1>1, <1>3, Zenon DEF QInv

(* Time makes subscriptions expire, never live again. *)
LEMMA TickKeeps ==
  ASSUME QInv, Tick
  PROVE  QInv'
<1>1. now \in Int /\ now' = now + 1 /\ subs' = subs
  BY Zenon DEF QInv, Tick
<1>2. \A i \in DOMAIN subs : subs[i].end \in Int
  BY Zenon DEF QInv, IsSub
<1>3. \A o \in Owners, c \in Leaf : LiveOf(subs, now + 1, o, c) \subseteq LiveOf(subs, now, o, c)
  BY <1>1, <1>2 DEF LiveOf
<1>4. Quota(subs, now + 1)
  BY <1>3, FewerLive, Zenon DEF QInv
<1> QED BY <1>1, <1>4 DEF QInv

(* A write of a subscription counts first. *)
LEMMA WriteSubKeeps ==
  ASSUME QInv, NEW i \in Subs, NEW o \in Owners, NEW v \in SubVolumes, WriteSub(i, o, v)
  PROVE  QInv'
<1> DEFINE start == AdjustedStart(subs, i, v)
<1> DEFINE end == AdjustedEnd(subs, i, v, start + MaxDuration)
<1> DEFINE r == [owner |-> o, index |-> 0, cells |-> v.cells, start |-> start, end |-> end, updatedAt |-> seq + 1]
<1>1. now' = now /\ CheckSubscriptionCount(o, v.cells) /\ subs' = Put(subs, i, r)
  BY Zenon DEF WriteSub
<1>2. v.start \in {None} \cup Int /\ v.end \in {None} \cup Int /\ MaxDuration \in Int
  BY RidAssumption
<1>3. now \in Int /\ \A k \in DOMAIN subs : subs[k].start \in Int /\ subs[k].end \in Int
  BY Zenon DEF QInv, IsSub
<1>4. start \in Int
  BY <1>2, <1>3, Zenon DEF AdjustedStart
<1> HIDE DEF start
<1>5. end \in Int
  BY <1>2, <1>3, <1>4 DEF AdjustedEnd
<1> HIDE DEF end
<1>6. IsSub(r) /\ r.owner = o /\ r.cells = v.cells
  BY <1>4, <1>5, Zenon DEF IsSub
<1> HIDE DEF r
<1>7. /\ DOMAIN subs' = DOMAIN subs \cup {i} /\ subs'[i] = r
      /\ \A k \in DOMAIN subs : k # i => subs'[k] = subs[k]
  BY <1>1, Zenon DEF Put
<1>8. \A c \in v.cells : Cardinality(LiveOf(subs, now, o, c)) < maxSubscriptionsPerArea
  BY <1>1, CountsLive, Zenon DEF CheckSubscriptionCount
<1>9. Quota(subs, now) /\ IsFiniteSet(DOMAIN subs)
  BY Zenon DEF QInv
<1>10. Quota(subs', now)
  BY <1>6, <1>7, <1>8, <1>9, OneMoreLive, Zenon
<1>11. IsFiniteSet(DOMAIN subs')
  BY <1>7, <1>9, FS_AddElement, Zenon
<1>12. \A k \in DOMAIN subs' : IsSub(subs'[k])
  BY <1>6, <1>7, Zenon DEF QInv
<1> QED BY <1>1, <1>3, <1>10, <1>11, <1>12, Zenon DEF QInv

-----------------------------------------------------------------------------
(* No subscriptions yet. *)
LEMMA InitQuota == Init => QInv
<1> SUFFICES ASSUME Init PROVE QInv
  BY Zenon
<1>1. DOMAIN subs = {} /\ now = 0
  BY Zenon DEF Init
<1>2. IsFiniteSet(DOMAIN subs)
  BY <1>1, FS_EmptySet, Zenon
<1>3. \A o \in Owners, c \in Leaf : LiveOf(subs, now, o, c) = {}
  BY <1>1, Zenon DEF LiveOf
<1>4. Cardinality({}) = 0 /\ 0 <= maxSubscriptionsPerArea
  BY FS_EmptySet, RidAssumption
<1>5. Quota(subs, now)
  BY <1>3, <1>4, Zenon DEF Quota
<1> QED BY <1>1, <1>2, <1>5 DEF QInv

(* Every step keeps the invariant. *)
LEMMA StepQuota == QInv /\ [Next]_vars => QInv'
<1> SUFFICES ASSUME QInv, [Next]_vars PROVE QInv'
  BY Zenon
<1>1. ASSUME NEW x, NEW o, NEW v, NEW cells, WriteISA(x, o, v, cells) PROVE QInv'
  BY <1>1, NotifyKeeps, Zenon DEF WriteISA
<1>2. CASE PutSomeISA
  BY <1>1, <1>2, Zenon DEF PutSomeISA, InsertISA, UpdateISA
<1>3. CASE DeleteSomeISA
  BY <1>3, NotifyKeeps, Zenon DEF DeleteSomeISA, DeleteISA
<1>4. CASE PutSomeSubscription
  BY <1>4, WriteSubKeeps, Zenon DEF PutSomeSubscription, CreateSubscription, UpdateSubscription
<1>5. CASE DeleteSomeSubscription
  BY <1>5, RemoveKeeps, Zenon DEF DeleteSomeSubscription, DeleteSubscription
<1>6. ASSUME NEW batch \in SUBSET DOMAIN isas, DeleteExpiredISAs(batch) PROVE QInv'
  BY <1>6, Zenon DEF DeleteExpiredISAs, QInv
<1>7. ASSUME NEW batch \in SUBSET DOMAIN subs, DeleteExpiredSubscriptions(batch) PROVE QInv'
  BY <1>7, RemoveKeeps, Zenon DEF DeleteExpiredSubscriptions
<1>8. CASE Tick
  BY <1>8, TickKeeps, Zenon
<1>9. CASE UNCHANGED vars
  BY <1>9, Zenon DEF vars, QInv
<1> QED BY <1>2, <1>3, <1>4, <1>5, <1>6, <1>7, <1>8, <1>9, Zenon DEF Next

(* No owner ever has more than maxSubscriptionsPerArea live subscriptions   *)
(* in a cell: checkSubscriptionCount before each write is enough, on either *)
(* store.                                                                   *)
THEOREM QuotaHolds == Spec => []BoundedSubscriptionsPerArea
<1>1. QInv => BoundedSubscriptionsPerArea
  BY CountsLive, Zenon DEF QInv, Quota, BoundedSubscriptionsPerArea
<1> QED BY <1>1, InitQuota, StepQuota, PTL DEF Spec

-----------------------------------------------------------------------------
(* Types. *)

(* A record put in a map. *)
LEMMA PutMap ==
  ASSUME NEW f, NEW K, NEW V, IsMap(f, K, V), NEW k \in K, NEW v \in V
  PROVE  /\ IsMap(Put(f, k, v), K, V) /\ DOMAIN Put(f, k, v) = DOMAIN f \cup {k}
         /\ Put(f, k, v)[k] = v /\ \A x \in DOMAIN f : x # k => Put(f, k, v)[x] = f[x]
BY Zenon DEF IsMap, Put

(* Records removed from a map. *)
LEMMA WithoutMap ==
  ASSUME NEW f, NEW K, NEW V, IsMap(f, K, V), NEW R
  PROVE  /\ IsMap(Without(f, R), K, V) /\ DOMAIN Without(f, R) = DOMAIN f \ R
         /\ \A x \in DOMAIN f \ R : Without(f, R)[x] = f[x]
BY Zenon DEF IsMap, Without

(* The cells a request or a stored ISA brings are leaf cells, and so are those notified. *)
LEMMA NotifiedCovers ==
  ASSUME NEW old \in SUBSET Leaf, NEW cells \in SUBSET Leaf
  PROVE  NotifiedCells(old, cells) = old \cup cells
<1> DEFINE leaves == Levelify(old \cup cells)
<1> DEFINE full == {p \in Coarse : Children[p] \subseteq leaves}
<1> DEFINE u == CellUnionFromUnion(old, cells)
<1>1. leaves = old \cup cells
  BY CellsAssumption, Zenon DEF Levelify
<1>2. u = full \cup {c \in leaves : \A p \in full : c \notin Children[p]}
  BY Zenon DEF CellUnionFromUnion
<1> HIDE DEF leaves, u
<1>3. u \cap Leaf = {c \in leaves : \A p \in full : c \notin Children[p]} /\ u \cap Coarse = full
  BY <1>1, <1>2, CellsAssumption, Zenon
<1>4. Levelify(u) = leaves
  BY <1>1, <1>3, Zenon DEF Levelify
<1> QED BY <1>1, <1>4, Zenon DEF NotifiedCells, u

(* Times are adjusted to times. *)
LEMMA AdjustedTimes ==
  ASSUME TypeOK, NEW f, f = isas \/ f = subs, NEW k, NEW v \in ISAVolumes \cup SubVolumes,
         NEW default \in {None} \cup Int
  PROVE  /\ v.cells \in SUBSET Leaf
         /\ AdjustedStart(f, k, v) \in Int
         /\ AdjustedEnd(f, k, v, default) \in Int \cup {default}
<1>1. v.cells \in SUBSET Leaf /\ v.start \in {None} \cup Int /\ v.end \in {None} \cup Int
  BY RidAssumption, Zenon
<1>2. now \in Int /\ (k \in DOMAIN f => f[k].start \in Int /\ f[k].end \in Int)
  BY DEF TypeOK, IsMap, ISARecords, SubRecords
<1> QED BY <1>1, <1>2, Zenon DEF AdjustedStart, AdjustedEnd

(* Notified subscriptions stay where they are and as long as they were. *)
LEMMA NotifiedSubs ==
  ASSUME TypeOK, NEW cells
  PROVE  LET g == UpdateNotificationIdxsInCells(cells) IN
         /\ IsMap(g, Subs, SubRecords) /\ DOMAIN g = DOMAIN subs
         /\ \A i \in DOMAIN subs : g[i].cells = subs[i].cells /\ g[i].end = subs[i].end
<1> DEFINE g == UpdateNotificationIdxsInCells(cells)
<1>1. DOMAIN g = DOMAIN subs /\ g \in [DOMAIN subs -> {g[i] : i \in DOMAIN subs}]
  BY Zenon DEF UpdateNotificationIdxsInCells
<1>2. ASSUME NEW i \in DOMAIN subs
      PROVE  g[i] \in SubRecords /\ g[i].cells = subs[i].cells /\ g[i].end = subs[i].end
  <2> DEFINE r == subs[i]
  <2> DEFINE n == r.index + 1
  <2>1. g[i] = r \/ g[i] = [r EXCEPT !.index = n]
    BY Zenon DEF UpdateNotificationIdxsInCells
  <2>2. r \in SubRecords
    BY Zenon DEF TypeOK, IsMap
  <2>3. n \in Nat
    BY <2>2 DEF SubRecords
  <2> HIDE DEF r, n, g
  <2>4. /\ [r EXCEPT !.index = n] \in SubRecords
        /\ [r EXCEPT !.index = n].cells = r.cells /\ [r EXCEPT !.index = n].end = r.end
    BY <2>2, <2>3, Zenon DEF SubRecords
  <2> QED BY <2>1, <2>2, <2>4, Zenon DEF r
<1> HIDE DEF g
<1>3. IsMap(g, Subs, SubRecords)
  BY <1>1, <1>2, Zenon DEF IsMap, TypeOK
<1> QED BY <1>1, <1>2, <1>3, Zenon DEF g

\* t: the views once the subscribers in cells, and no others, hold x as it is in f
IsTold(t, cells, x, f) ==
  /\ DOMAIN t = DOMAIN view
  /\ \A i \in DOMAIN view : IsMap(t[i], ISAs, ISARecords)
  /\ \A i \in DOMAIN view : i \notin Subscribers(cells) => t[i] = view[i]
  /\ \A i \in DOMAIN view : i \in Subscribers(cells) =>
       /\ x \in DOMAIN t[i] <=> x \in DOMAIN f
       /\ x \in DOMAIN f => t[i][x] = f[x]
       /\ \A y \in ISAs \ {x} : /\ y \in DOMAIN t[i] <=> y \in DOMAIN view[i]
                                /\ y \in DOMAIN view[i] => t[i][y] = view[i][y]

(* What a subscriber holds after it is told of an ISA. *)
LEMMA ToldView ==
  ASSUME TypeOK, NEW cells, NEW x \in ISAs, NEW f, IsMap(f, ISAs, ISARecords),
         NEW t, t = Told(cells, x, f)
  PROVE  IsTold(t, cells, x, f)
<1>1. DOMAIN t = DOMAIN view
  BY Zenon DEF Told
<1>2. \A i \in DOMAIN view : i \notin Subscribers(cells) => t[i] = view[i]
  BY Zenon DEF Told
<1>3. \A i \in DOMAIN view : i \in Subscribers(cells) /\ x \in DOMAIN f => t[i] = Put(view[i], x, f[x])
  BY Zenon DEF Told
<1>4. \A i \in DOMAIN view : i \in Subscribers(cells) /\ x \notin DOMAIN f => t[i] = Without(view[i], {x})
  BY Zenon DEF Told
<1>5. \A i \in DOMAIN view : IsMap(view[i], ISAs, ISARecords)
  BY Zenon DEF TypeOK
<1>6. x \in DOMAIN f => f[x] \in ISARecords
  BY Zenon DEF IsMap
<1>7. \A i \in DOMAIN view : IsMap(t[i], ISAs, ISARecords)
  <2> SUFFICES ASSUME NEW i \in DOMAIN view PROVE IsMap(t[i], ISAs, ISARecords)
    BY Zenon
  <2>1. IsMap(view[i], ISAs, ISARecords)
    BY <1>5, Zenon
  <2>2. CASE i \in Subscribers(cells) /\ x \in DOMAIN f
    <3>1. t[i] = Put(view[i], x, f[x]) /\ f[x] \in ISARecords
      BY <1>3, <1>6, <2>2, Zenon
    <3>2. IsMap(Put(view[i], x, f[x]), ISAs, ISARecords)
      BY <2>1, <3>1, PutMap, Zenon
    <3> QED BY <3>1, <3>2, Zenon
  <2>3. CASE i \in Subscribers(cells) /\ x \notin DOMAIN f
    BY <1>4, <2>1, <2>3, Zenon DEF IsMap, Without
  <2>4. CASE i \notin Subscribers(cells)
    BY <1>2, <2>1, <2>4, Zenon
  <2> QED BY <2>2, <2>3, <2>4, Zenon
<1>8. ASSUME NEW i \in DOMAIN view, i \in Subscribers(cells), x \in DOMAIN f
      PROVE  /\ x \in DOMAIN t[i] /\ t[i][x] = f[x]
             /\ \A y \in ISAs \ {x} : /\ y \in DOMAIN t[i] <=> y \in DOMAIN view[i]
                                      /\ y \in DOMAIN view[i] => t[i][y] = view[i][y]
  BY <1>3, <1>8, Zenon DEF Put
<1>9. ASSUME NEW i \in DOMAIN view, i \in Subscribers(cells), x \notin DOMAIN f
      PROVE  /\ x \notin DOMAIN t[i]
             /\ \A y \in ISAs \ {x} : /\ y \in DOMAIN t[i] <=> y \in DOMAIN view[i]
                                      /\ y \in DOMAIN view[i] => t[i][y] = view[i][y]
  BY <1>4, <1>9, Zenon DEF Without
<1> QED BY <1>1, <1>2, <1>7, <1>8, <1>9, Zenon DEF IsTold

(* A record to store, of an ISA or of a subscription. *)
LEMMA NewISA ==
  ASSUME NEW o \in Owners, NEW cells \in SUBSET Leaf, NEW start \in Int, NEW end \in Int, NEW n \in Nat
  PROVE  [owner |-> o, cells |-> cells, start |-> start, end |-> end, updatedAt |-> n] \in ISARecords
BY Zenon DEF ISARecords

(* A record to store of a subscription. *)
LEMMA NewSub ==
  ASSUME NEW o \in Owners, NEW cells \in SUBSET Leaf, NEW start \in Int, NEW end \in Int, NEW n \in Nat
  PROVE  [owner |-> o, index |-> 0, cells |-> cells, start |-> start, end |-> end, updatedAt |-> n]
           \in SubRecords
BY Zenon DEF SubRecords

(* What a write of an ISA stores, and whom it tells. *)
LEMMA WriteISAStores ==
  ASSUME TypeOK, NEW x \in ISAs, NEW o \in Owners, NEW v \in ISAVolumes, NEW cells,
         WriteISA(x, o, v, cells)
  PROVE  /\ IsMap(isas', ISAs, ISARecords) /\ DOMAIN isas' = DOMAIN isas \cup {x}
         /\ isas'[x].cells = v.cells /\ \A y \in DOMAIN isas : y # x => isas'[y] = isas[y]
         /\ subs' = UpdateNotificationIdxsInCells(cells) /\ view' = Told(cells, x, isas')
         /\ now' = now /\ seq' = seq + 1
<1> DEFINE start == AdjustedStart(isas, x, v)
<1> DEFINE end == AdjustedEnd(isas, x, v, None)
<1> DEFINE r == [owner |-> o, cells |-> v.cells, start |-> start, end |-> end, updatedAt |-> seq + 1]
<1>1. end # None /\ isas' = Put(isas, x, r)
  BY Zenon DEF WriteISA
<1>2. subs' = UpdateNotificationIdxsInCells(cells) /\ view' = Told(cells, x, isas')
      /\ now' = now /\ seq' = seq + 1
  BY Zenon DEF WriteISA
<1>3. v.cells \in SUBSET Leaf /\ start \in Int /\ end \in Int
  BY <1>1, AdjustedTimes
<1>4. seq + 1 \in Nat /\ IsMap(isas, ISAs, ISARecords)
  BY DEF TypeOK
<1> HIDE DEF start, end
<1>5. r \in ISARecords
  BY <1>3, <1>4, NewISA, Zenon
<1>6. r.cells = v.cells
  BY Zenon
<1> HIDE DEF r
<1>7. /\ DOMAIN isas' = DOMAIN isas \cup {x} /\ isas'[x] = r
      /\ \A y \in DOMAIN isas : y # x => isas'[y] = isas[y]
  BY <1>1, Zenon DEF Put
<1>8. IsMap(isas', ISAs, ISARecords)
  <2>1. IsMap(Put(isas, x, r), ISAs, ISARecords)
    BY <1>4, <1>5, PutMap, Zenon
  <2> QED BY <1>1, <2>1, Zenon
<1> QED BY <1>2, <1>6, <1>7, <1>8, Zenon

(* What a write of a subscription stores, and what its answer holds. *)
LEMMA WriteSubStores ==
  ASSUME TypeOK, NEW i \in Subs, NEW o \in Owners, NEW v \in SubVolumes, WriteSub(i, o, v)
  PROVE  /\ IsMap(subs', Subs, SubRecords) /\ DOMAIN subs' = DOMAIN subs \cup {i}
         /\ subs'[i].cells = v.cells /\ \A k \in DOMAIN subs : k # i => subs'[k] = subs[k]
         /\ v.cells \in SUBSET Leaf
         /\ \E found \in SearchISAs(v.cells) : view' = Put(view, i, [x \in found |-> isas[x]])
         /\ isas' = isas /\ now' = now /\ seq' = seq + 1
<1> DEFINE start == AdjustedStart(subs, i, v)
<1> DEFINE end == AdjustedEnd(subs, i, v, start + MaxDuration)
<1> DEFINE r == [owner |-> o, index |-> 0, cells |-> v.cells, start |-> start, end |-> end, updatedAt |-> seq + 1]
<1>1. subs' = Put(subs, i, r)
  BY Zenon DEF WriteSub
<1>2. \E found \in SearchISAs(v.cells) : view' = Put(view, i, [x \in found |-> isas[x]])
  BY Zenon DEF WriteSub
<1>3. isas' = isas /\ now' = now /\ seq' = seq + 1
  BY Zenon DEF WriteSub
<1>4. v.cells \in SUBSET Leaf /\ start \in Int
  BY AdjustedTimes, Zenon
<1>5. end \in Int
  <2> HIDE DEF start
  <2>1. start + MaxDuration \in Int
    BY <1>4, RidAssumption
  <2>2. v.end \in {None} \cup Int /\ (i \in DOMAIN subs => subs[i].end \in Int)
    BY RidAssumption, Zenon DEF TypeOK, IsMap, SubRecords
  <2> QED BY <2>1, <2>2, Zenon DEF AdjustedEnd
<1>6. seq + 1 \in Nat /\ IsMap(subs, Subs, SubRecords)
  BY DEF TypeOK
<1> HIDE DEF start, end
<1>7. r \in SubRecords
  BY <1>4, <1>5, <1>6, NewSub, Zenon
<1>8. r.cells = v.cells
  BY Zenon
<1> HIDE DEF r
<1>9. /\ DOMAIN subs' = DOMAIN subs \cup {i} /\ subs'[i] = r
      /\ \A k \in DOMAIN subs : k # i => subs'[k] = subs[k]
  BY <1>1, Zenon DEF Put
<1>10. IsMap(subs', Subs, SubRecords)
  <2>1. IsMap(Put(subs, i, r), Subs, SubRecords)
    BY <1>6, <1>7, PutMap, Zenon
  <2> QED BY <1>1, <2>1, Zenon
<1> QED BY <1>2, <1>3, <1>4, <1>8, <1>9, <1>10, Zenon

(* The ISAs of an answer are ISAs of the store. *)
LEMMA AnswerIsAView ==
  ASSUME TypeOK, NEW cells, NEW found \in SearchISAs(cells)
  PROVE  IsMap([x \in found |-> isas[x]], ISAs, ISARecords) /\ found \subseteq MatchingISAs(cells)
<1>1. found \subseteq MatchingISAs(cells)
  BY Zenon DEF SearchISAs
<1>2. found \subseteq DOMAIN isas
  BY <1>1, Zenon DEF MatchingISAs
<1> QED BY <1>1, <1>2, Zenon DEF TypeOK, IsMap

(* Types are kept. *)
LEMMA StepTypes == TypeOK /\ [Next]_vars => TypeOK'
<1> SUFFICES ASSUME TypeOK, [Next]_vars PROVE TypeOK'
  BY Zenon
<1>0. now \in Nat /\ seq \in Nat /\ DOMAIN view = DOMAIN subs
  BY Zenon DEF TypeOK
<1>1. ASSUME NEW cells, NEW x \in ISAs, IsMap(isas', ISAs, ISARecords),
             subs' = UpdateNotificationIdxsInCells(cells), view' = Told(cells, x, isas'),
             now' = now, seq' = seq + 1
      PROVE  TypeOK'
  <2>1. IsMap(subs', Subs, SubRecords) /\ DOMAIN subs' = DOMAIN subs
    BY <1>1, NotifiedSubs, Zenon
  <2>2. PICK f : f = isas'
    BY Zenon
  <2>3. DOMAIN view' = DOMAIN view /\ \A i \in DOMAIN view : IsMap(view'[i], ISAs, ISARecords)
    <3>1. PICK t : t = view'
      BY Zenon
    <3>2. t = Told(cells, x, f) /\ IsMap(f, ISAs, ISARecords)
      BY <1>1, <2>2, <3>1, Zenon
    <3>3. IsTold(t, cells, x, f)
      BY <3>2, ToldView, Zenon
    <3> QED BY <3>1, <3>3, Zenon DEF IsTold
  <2> QED BY <1>0, <1>1, <2>1, <2>2, <2>3 DEF TypeOK
<1>2. CASE PutSomeISA
  <2>1. PICK x \in ISAs, o \in Owners, v \in ISAVolumes : \E cells : WriteISA(x, o, v, cells)
    BY <1>2, Zenon DEF PutSomeISA, InsertISA, UpdateISA
  <2>2. PICK cells : WriteISA(x, o, v, cells)
    BY <2>1, Zenon
  <2> QED BY <1>1, <2>2, WriteISAStores, Zenon
<1>3. CASE DeleteSomeISA
  <2>1. PICK x \in ISAs : DeleteISA(x)
    BY <1>3, Zenon DEF DeleteSomeISA
  <2>2. isas' = Without(isas, {x}) /\ IsMap(isas, ISAs, ISARecords)
    BY <2>1, Zenon DEF DeleteISA, TypeOK
  <2>3. IsMap(isas', ISAs, ISARecords)
    BY <2>2, WithoutMap, Zenon
  <2> QED BY <1>1, <2>1, <2>3, Zenon DEF DeleteISA
<1>4. CASE PutSomeSubscription
  <2>1. PICK i \in Subs, o \in Owners, v \in SubVolumes : WriteSub(i, o, v)
    BY <1>4, Zenon DEF PutSomeSubscription, CreateSubscription, UpdateSubscription
  <2>2. /\ IsMap(subs', Subs, SubRecords) /\ DOMAIN subs' = DOMAIN subs \cup {i}
        /\ isas' = isas /\ now' = now /\ seq' = seq + 1
    BY <2>1, WriteSubStores, Zenon
  <2>3. PICK found \in SearchISAs(v.cells) : view' = Put(view, i, [x \in found |-> isas[x]])
    BY <2>1, WriteSubStores, Zenon
  <2> DEFINE a == [x \in found |-> isas[x]]
  <2>4. IsMap(a, ISAs, ISARecords)
    BY AnswerIsAView, Zenon
  <2> HIDE DEF a
  <2>5. DOMAIN view' = DOMAIN view \cup {i} /\ \A k \in DOMAIN view' : view'[k] = a \/ (k \in DOMAIN view /\ view'[k] = view[k])
    BY <2>3, Zenon DEF Put, a
  <2>6. \A k \in DOMAIN view' : IsMap(view'[k], ISAs, ISARecords)
    BY <2>4, <2>5, Zenon DEF TypeOK
  <2> QED BY <1>0, <2>2, <2>5, <2>6 DEF TypeOK
<1>5. ASSUME NEW K, subs' = Without(subs, K), view' = Without(view, K), isas' = isas, now' = now, seq' \in Nat
      PROVE  TypeOK'
  <2>1. IsMap(subs', Subs, SubRecords) /\ DOMAIN subs' = DOMAIN subs \ K
    BY <1>5, WithoutMap, Zenon DEF TypeOK
  <2>2. DOMAIN view' = DOMAIN view \ K /\ \A k \in DOMAIN view' : view'[k] = view[k]
    BY <1>5, Zenon DEF Without
  <2> QED BY <1>0, <1>5, <2>1, <2>2, Zenon DEF TypeOK
<1>6. CASE DeleteSomeSubscription
  BY <1>0, <1>5, <1>6 DEF DeleteSomeSubscription, DeleteSubscription
<1>7. ASSUME NEW batch \in SUBSET DOMAIN isas, DeleteExpiredISAs(batch) PROVE TypeOK'
  <2>1. IsMap(Without(isas, batch), ISAs, ISARecords)
    BY WithoutMap, Zenon DEF TypeOK
  <2> QED BY <1>7, <2>1, Zenon DEF DeleteExpiredISAs, TypeOK
<1>8. ASSUME NEW batch \in SUBSET DOMAIN subs, DeleteExpiredSubscriptions(batch) PROVE TypeOK'
  BY <1>0, <1>5, <1>8, Zenon DEF DeleteExpiredSubscriptions
<1>9. CASE Tick
  BY <1>9 DEF Tick, TypeOK
<1>10. CASE UNCHANGED vars
  BY <1>10, Zenon DEF vars, TypeOK
<1> QED BY <1>2, <1>3, <1>4, <1>6, <1>7, <1>8, <1>9, <1>10, Zenon DEF Next

(* Every reachable state of the remote identification store is well typed. *)
THEOREM RidTypes == Spec => []TypeOK
<1>1. Init => TypeOK
  BY DEF Init, TypeOK, IsMap
<1> QED BY <1>1, StepTypes, PTL DEF Spec

-----------------------------------------------------------------------------
(* What subscribers know. *)

\* f has an ISA x that is live at time t and in cells
Shows(f, x, t, cells) == x \in DOMAIN f /\ f[x].end >= t /\ Overlaps(f[x].cells, cells)

\* v and f show the same ISAs, in the same versions
Agree(v, f, t, cells) ==
  \A x \in ISAs : /\ Shows(v, x, t, cells) <=> Shows(f, x, t, cells)
                  /\ Shows(v, x, t, cells) => v[x] = f[x]

(* The inductive invariant. *)
UInv ==
  /\ TypeOK
  /\ IsFiniteSet(DOMAIN isas)
  /\ \A i \in DOMAIN subs : subs[i].end >= now => Agree(view[i], isas, now, subs[i].cells)

\* No search for ISAs goes beyond the limit of a result (models.MaxResultLimit).
ISASearchesAreComplete ==
  \A cells \in SUBSET Leaf : Cardinality(MatchingISAs(cells)) <= MaxResultLimit

(* The invariant is what the subscribers need. *)
LEMMA AgreementIsUpToDate == UInv => SubscriberIsUpToDate
<1> SUFFICES ASSUME UInv, NEW i \in DOMAIN subs, Live(subs[i])
             PROVE  LiveIn(view[i], i) = LiveIn(isas, i)
  BY Zenon DEF SubscriberIsUpToDate
<1> DEFINE v == view[i]
<1> DEFINE cells == subs[i].cells
<1>1. Agree(v, isas, now, cells)
  BY Zenon DEF UInv, Live
<1>2. DOMAIN v \subseteq ISAs /\ DOMAIN isas \subseteq ISAs
  BY Zenon DEF UInv, TypeOK, IsMap
<1>3. LiveIn(v, i) = {<<x, v[x]>> : x \in {y \in DOMAIN v : Shows(v, y, now, cells)}}
  BY Zenon DEF LiveIn, Shows, Live
<1>4. LiveIn(isas, i) = {<<x, isas[x]>> : x \in {y \in DOMAIN isas : Shows(isas, y, now, cells)}}
  BY Zenon DEF LiveIn, Shows, Live
<1> DEFINE S == {y \in DOMAIN v : Shows(v, y, now, cells)}
<1> DEFINE T == {y \in DOMAIN isas : Shows(isas, y, now, cells)}
<1>5. S = T /\ \A x \in S : v[x] = isas[x]
  <2> HIDE DEF v, cells
  <2>1. \A x \in ISAs : Shows(v, x, now, cells) => x \in DOMAIN v
    BY Zenon DEF Shows
  <2>2. \A x \in ISAs : Shows(isas, x, now, cells) => x \in DOMAIN isas
    BY Zenon DEF Shows
  <2> QED BY <1>1, <1>2, <2>1, <2>2, Zenon DEF Agree
<1>6. {<<x, v[x]>> : x \in S} = {<<x, isas[x]>> : x \in T}
  <2> HIDE DEF S, T, v
  <2> QED BY <1>5, Zenon
<1> QED BY <1>3, <1>4, <1>6, Zenon

(* Two maps that agree go on agreeing as time passes. *)
LEMMA AgreeLater ==
  ASSUME NEW v, NEW f, NEW t \in Int, NEW cells, Agree(v, f, t, cells),
         \A x \in DOMAIN v : v[x].end \in Int, \A x \in DOMAIN f : f[x].end \in Int
  PROVE  Agree(v, f, t + 1, cells)
<1> SUFFICES ASSUME NEW x \in ISAs
             PROVE  /\ Shows(v, x, t + 1, cells) <=> Shows(f, x, t + 1, cells)
                    /\ Shows(v, x, t + 1, cells) => v[x] = f[x]
  BY Zenon DEF Agree
<1>1. Shows(v, x, t + 1, cells) => Shows(v, x, t, cells)
  BY DEF Shows
<1>2. Shows(f, x, t + 1, cells) => Shows(f, x, t, cells)
  BY DEF Shows
<1>3. Shows(v, x, t, cells) => Shows(f, x, t, cells) /\ v[x] = f[x]
  BY Zenon DEF Agree
<1>4. Shows(f, x, t, cells) => Shows(v, x, t, cells) /\ v[x] = f[x]
  BY Zenon DEF Agree
<1>5. v[x] = f[x] /\ x \in DOMAIN v /\ x \in DOMAIN f => (Shows(v, x, t + 1, cells) <=> Shows(f, x, t + 1, cells))
  BY Zenon DEF Shows
<1>6. Shows(v, x, t, cells) => x \in DOMAIN v
  BY Zenon DEF Shows
<1>7. Shows(f, x, t, cells) => x \in DOMAIN f
  BY Zenon DEF Shows
<1> QED BY <1>1, <1>2, <1>3, <1>4, <1>5, <1>6, <1>7, Zenon

(* One ISA changed in both maps, or in the store alone where neither its old *)
(* nor its new version is in the area of the subscription.                   *)
LEMMA AgreeAfterOne ==
  ASSUME NEW v, NEW f, NEW t, NEW cells, NEW x \in ISAs, Agree(v, f, t, cells), NEW w, NEW g,
         \A y \in ISAs \ {x} : (y \in DOMAIN g <=> y \in DOMAIN f) /\ (y \in DOMAIN f => g[y] = f[y]),
         \A y \in ISAs \ {x} : (y \in DOMAIN w <=> y \in DOMAIN v) /\ (y \in DOMAIN v => w[y] = v[y]),
         \/ (x \in DOMAIN w <=> x \in DOMAIN g) /\ (x \in DOMAIN g => w[x] = g[x])
         \/ ~Shows(w, x, t, cells) /\ ~Shows(g, x, t, cells)
  PROVE  Agree(w, g, t, cells)
<1>1. ASSUME NEW y \in ISAs \ {x}
      PROVE  /\ Shows(w, y, t, cells) <=> Shows(v, y, t, cells)
             /\ Shows(g, y, t, cells) <=> Shows(f, y, t, cells)
             /\ Shows(v, y, t, cells) /\ Shows(f, y, t, cells) => w[y] = v[y] /\ g[y] = f[y]
  BY <1>1, Zenon DEF Shows
<1>2. Shows(w, x, t, cells) <=> Shows(g, x, t, cells)
  BY Zenon DEF Shows
<1>3. Shows(w, x, t, cells) /\ Shows(g, x, t, cells) => w[x] = g[x]
  BY Zenon DEF Shows
<1> QED BY <1>1, <1>2, <1>3, Zenon DEF Agree

\* g differs from the stored ISAs in x only, whose versions, old and new, lie in cells
OnlyChanges(g, x, cells) ==
  /\ \A y \in ISAs \ {x} : (y \in DOMAIN g <=> y \in DOMAIN isas) /\ (y \in DOMAIN isas => g[y] = isas[y])
  /\ x \in DOMAIN isas => isas[x].cells \subseteq cells
  /\ x \in DOMAIN g => g[x].cells \subseteq cells

(* A subscriber, told or not, knows the ISAs in its area after one changed: *)
(* those told are the ones whose area the ISA was or is now in.             *)
LEMMA ToldAgree ==
  ASSUME UInv, NEW x \in ISAs, NEW cells, NEW g, NEW w, OnlyChanges(g, x, cells), IsTold(w, cells, x, g),
         NEW i \in DOMAIN subs, subs[i].end >= now
  PROVE  Agree(w[i], g, now, subs[i].cells)
<1>1. Agree(view[i], isas, now, subs[i].cells) /\ i \in DOMAIN view
  BY Zenon DEF UInv, TypeOK
<1>2. \A y \in ISAs \ {x} : (y \in DOMAIN g <=> y \in DOMAIN isas) /\ (y \in DOMAIN isas => g[y] = isas[y])
  BY Zenon DEF OnlyChanges
<1>3. CASE i \in Subscribers(cells)
  <2>1. /\ (x \in DOMAIN w[i] <=> x \in DOMAIN g) /\ (x \in DOMAIN g => w[i][x] = g[x])
        /\ \A y \in ISAs \ {x} : /\ y \in DOMAIN w[i] <=> y \in DOMAIN view[i]
                                 /\ y \in DOMAIN view[i] => w[i][y] = view[i][y]
    BY <1>1, <1>3, Zenon DEF IsTold
  <2> QED BY <1>1, <1>2, <2>1, AgreeAfterOne
<1>4. CASE i \notin Subscribers(cells)
  <2>1. w[i] = view[i]
    BY <1>1, <1>4, Zenon DEF IsTold
  <2>2. subs[i].cells \cap cells = {}
    BY <1>4, Zenon DEF Subscribers, Live, Overlaps
  <2>3. ~Shows(g, x, now, subs[i].cells) /\ ~Shows(isas, x, now, subs[i].cells)
    BY <2>2, Zenon DEF OnlyChanges, Shows, Overlaps
  <2>4. ~Shows(w[i], x, now, subs[i].cells)
    BY <1>1, <2>1, <2>3, Zenon DEF Agree
  <2>5. \A y \in ISAs \ {x} : /\ y \in DOMAIN w[i] <=> y \in DOMAIN view[i]
                              /\ y \in DOMAIN view[i] => w[i][y] = view[i][y]
    BY <2>1, Zenon
  <2> QED BY <1>1, <1>2, <2>3, <2>4, <2>5, AgreeAfterOne
<1> QED BY <1>3, <1>4, Zenon

(* A change of one ISA keeps every subscriber up to date. *)
LEMMA ChangeKeepsUpToDate ==
  ASSUME UInv, TypeOK', NEW x \in ISAs, NEW cells,
         subs' = UpdateNotificationIdxsInCells(cells), view' = Told(cells, x, isas'), now' = now,
         OnlyChanges(isas', x, cells), IsFiniteSet(DOMAIN isas')
  PROVE  UInv'
<1>1. PICK g : g = isas'
  BY Zenon
<1>2. PICK w : w = view'
  BY Zenon
<1>3. IsMap(g, ISAs, ISARecords) /\ w = Told(cells, x, g) /\ OnlyChanges(g, x, cells)
  BY <1>1, <1>2, Zenon DEF TypeOK
<1>4. IsTold(w, cells, x, g)
  BY <1>3, ToldView, Zenon DEF UInv
<1>5. DOMAIN subs' = DOMAIN subs /\ \A i \in DOMAIN subs : subs'[i].cells = subs[i].cells /\ subs'[i].end = subs[i].end
  BY NotifiedSubs, Zenon DEF UInv
<1>6. \A i \in DOMAIN subs : subs[i].end >= now => Agree(w[i], g, now, subs[i].cells)
  BY <1>3, <1>4, ToldAgree, Zenon
<1>7. \A i \in DOMAIN subs' : subs'[i].end >= now' => Agree(view'[i], isas', now', subs'[i].cells)
  BY <1>1, <1>2, <1>5, <1>6, Zenon
<1> QED BY <1>7, Zenon DEF UInv

(* An insertion or update of an ISA. *)
LEMMA PutISAKeepsUpToDate ==
  ASSUME UInv, TypeOK', PutSomeISA
  PROVE  UInv'
<1>1. PICK x \in ISAs, o \in Owners, v \in ISAVolumes : InsertISA(x, o, v) \/ UpdateISA(x, o, v)
  BY Zenon DEF PutSomeISA
<1>2. PICK cells : /\ WriteISA(x, o, v, cells)
                   /\ \/ x \notin DOMAIN isas /\ cells = v.cells
                      \/ x \in DOMAIN isas /\ cells = NotifiedCells(isas[x].cells, v.cells)
  BY <1>1, Zenon DEF InsertISA, UpdateISA
<1>3. v.cells \subseteq Leaf /\ (x \in DOMAIN isas => isas[x].cells \subseteq Leaf) /\ DOMAIN isas \subseteq ISAs
  BY RidAssumption, Zenon DEF UInv, TypeOK, IsMap, ISARecords
<1>4. v.cells \subseteq cells /\ (x \in DOMAIN isas => isas[x].cells \subseteq cells)
  BY <1>2, <1>3, NotifiedCovers
<1>5. /\ IsMap(isas', ISAs, ISARecords) /\ DOMAIN isas' = DOMAIN isas \cup {x}
      /\ isas'[x].cells = v.cells /\ \A y \in DOMAIN isas : y # x => isas'[y] = isas[y]
      /\ subs' = UpdateNotificationIdxsInCells(cells) /\ view' = Told(cells, x, isas')
      /\ now' = now /\ seq' = seq + 1
  BY <1>2, WriteISAStores, Zenon DEF UInv
<1>6. OnlyChanges(isas', x, cells)
  BY <1>4, <1>5, Zenon DEF OnlyChanges
<1>7. IsFiniteSet(DOMAIN isas')
  BY <1>5, FS_AddElement, Zenon DEF UInv
<1> QED BY <1>5, <1>6, <1>7, ChangeKeepsUpToDate, Zenon

(* A deletion of an ISA. *)
LEMMA DeleteISAKeepsUpToDate ==
  ASSUME UInv, TypeOK', DeleteSomeISA
  PROVE  UInv'
<1>1. PICK x \in ISAs : DeleteISA(x)
  BY Zenon DEF DeleteSomeISA
<1>2. PICK cells : cells = isas[x].cells
  BY Zenon
<1>3. /\ isas' = Without(isas, {x}) /\ now' = now
      /\ subs' = UpdateNotificationIdxsInCells(cells) /\ view' = Told(cells, x, isas')
  BY <1>1, <1>2, Zenon DEF DeleteISA
<1>4. DOMAIN isas' = DOMAIN isas \ {x} /\ \A y \in DOMAIN isas \ {x} : isas'[y] = isas[y]
  BY <1>3, Zenon DEF Without
<1>5. OnlyChanges(isas', x, cells)
  BY <1>2, <1>4, Zenon DEF OnlyChanges
<1>6. IsFiniteSet(DOMAIN isas')
  BY <1>4, FS_Subset, Zenon DEF UInv
<1> QED BY <1>3, <1>5, <1>6, ChangeKeepsUpToDate, Zenon

(* A search that is not cut short returns every live ISA in the area. *)
LEMMA SearchFindsAll ==
  ASSUME IsFiniteSet(DOMAIN isas), NEW cells, Cardinality(MatchingISAs(cells)) <= MaxResultLimit,
         NEW found \in SearchISAs(cells)
  PROVE  found = MatchingISAs(cells)
<1> DEFINE M == MatchingISAs(cells)
<1>1. found \in SUBSET M /\ (found = M \/ Cardinality(found) = Limit)
  BY Zenon DEF SearchISAs
<1>2. M \subseteq DOMAIN isas
  BY Zenon DEF MatchingISAs
<1>3. Limit >= MaxResultLimit /\ Limit \in Nat /\ MaxResultLimit \in Nat
  BY RidAssumption DEF Limit
<1> HIDE DEF M
<1>4. IsFiniteSet(M)
  BY <1>2, FS_Subset, Zenon
<1>5. Cardinality(M) \in Nat /\ Cardinality(found) \in Nat /\ Cardinality(found) <= Cardinality(M)
      /\ (Cardinality(M) = Cardinality(found) => M = found)
  BY <1>1, <1>4, FS_Subset, FS_CardinalityType, Zenon
<1>6. Cardinality(M) <= MaxResultLimit
  BY Zenon DEF M
<1>7. found = M
  BY <1>1, <1>3, <1>5, <1>6
<1> QED BY <1>7, Zenon DEF M

(* The answer to a request for a subscription, and those that others hold. *)
LEMMA PutSubKeepsUpToDate ==
  ASSUME UInv, TypeOK', ISASearchesAreComplete, PutSomeSubscription
  PROVE  UInv'
<1>1. PICK i \in Subs, o \in Owners, v \in SubVolumes : WriteSub(i, o, v)
  BY Zenon DEF PutSomeSubscription, CreateSubscription, UpdateSubscription
<1>2. /\ DOMAIN subs' = DOMAIN subs \cup {i}
      /\ subs'[i].cells = v.cells /\ \A k \in DOMAIN subs : k # i => subs'[k] = subs[k]
      /\ v.cells \in SUBSET Leaf /\ isas' = isas /\ now' = now
  BY <1>1, WriteSubStores, Zenon DEF UInv
<1>3. PICK found \in SearchISAs(v.cells) : view' = Put(view, i, [x \in found |-> isas[x]])
  BY <1>1, WriteSubStores, Zenon DEF UInv
<1>4. found = MatchingISAs(v.cells)
  BY <1>2, SearchFindsAll, Zenon DEF UInv, ISASearchesAreComplete
<1> DEFINE a == [x \in found |-> isas[x]]
<1>5. found = {x \in DOMAIN isas : Shows(isas, x, now, v.cells)}
  BY <1>4, Zenon DEF MatchingISAs, Shows, Live
<1>6. Agree(a, isas, now, v.cells)
  <2>1. ASSUME NEW x \in ISAs
        PROVE  /\ Shows(a, x, now, v.cells) <=> Shows(isas, x, now, v.cells)
               /\ Shows(a, x, now, v.cells) => a[x] = isas[x]
    <3>1. x \in found => a[x] = isas[x] /\ x \in DOMAIN a /\ x \in DOMAIN isas
      BY <1>5, Zenon
    <3>2. x \in found => (Shows(a, x, now, v.cells) <=> Shows(isas, x, now, v.cells))
      BY <3>1, Zenon DEF Shows
    <3>3. x \notin found => ~Shows(a, x, now, v.cells)
      BY Zenon DEF Shows
    <3>4. x \notin found => ~Shows(isas, x, now, v.cells)
      BY <1>5, Zenon DEF Shows
    <3> QED BY <3>1, <3>2, <3>3, <3>4, Zenon
  <2> HIDE DEF a
  <2> QED BY <2>1, Zenon DEF Agree
<1> HIDE DEF a
<1>7. view'[i] = a /\ \A k \in DOMAIN view : k # i => view'[k] = view[k]
  BY <1>3, Zenon DEF Put, a
<1>8. \A k \in DOMAIN subs' : subs'[k].end >= now' => Agree(view'[k], isas', now', subs'[k].cells)
  <2> SUFFICES ASSUME NEW k \in DOMAIN subs', subs'[k].end >= now'
               PROVE  Agree(view'[k], isas', now', subs'[k].cells)
    BY Zenon
  <2>1. CASE k = i
    BY <1>2, <1>6, <1>7, <2>1, Zenon
  <2>2. CASE k # i
    BY <1>2, <1>7, <2>2, Zenon DEF UInv, TypeOK
  <2> QED BY <2>1, <2>2, Zenon
<1> QED BY <1>2, <1>8, Zenon DEF UInv

(* Subscriptions deleted or evicted. *)
LEMMA RemoveSubsKeepsUpToDate ==
  ASSUME UInv, TypeOK', NEW K, subs' = Without(subs, K), view' = Without(view, K), isas' = isas, now' = now
  PROVE  UInv'
<1>1. DOMAIN subs' \subseteq DOMAIN subs /\ \A i \in DOMAIN subs' : subs'[i] = subs[i]
  BY Zenon DEF Without
<1>2. \A i \in DOMAIN subs' : view'[i] = view[i]
  BY Zenon DEF Without, UInv, TypeOK
<1> QED BY <1>1, <1>2, Zenon DEF UInv

(* ISAs are evicted once no subscriber shows them. *)
LEMMA EvictISAsKeepsUpToDate ==
  ASSUME UInv, TypeOK', TTL > 0, NEW batch \in SUBSET DOMAIN isas, DeleteExpiredISAs(batch)
  PROVE  UInv'
<1>1. /\ \A x \in batch : isas[x].end <= now - TTL
      /\ isas' = Without(isas, batch) /\ subs' = subs /\ view' = view /\ now' = now
  BY Zenon DEF DeleteExpiredISAs, Expired
<1>2. DOMAIN isas' = DOMAIN isas \ batch /\ \A x \in DOMAIN isas' : isas'[x] = isas[x]
  BY <1>1, Zenon DEF Without
<1>3. now \in Int /\ TTL \in Int /\ \A x \in DOMAIN isas : isas[x].end \in Int
  BY RidAssumption DEF UInv, TypeOK, IsMap, ISARecords
<1>4. \A x \in batch : ~(isas[x].end >= now)
  BY <1>1, <1>3
<1>5. ASSUME NEW cells, NEW x
      PROVE  /\ Shows(isas', x, now, cells) <=> Shows(isas, x, now, cells)
             /\ Shows(isas', x, now, cells) => isas'[x] = isas[x]
  BY <1>2, <1>4, Zenon DEF Shows
<1>6. \A i \in DOMAIN subs : subs[i].end >= now => Agree(view[i], isas', now, subs[i].cells)
  BY <1>5, Zenon DEF UInv, Agree
<1>7. IsFiniteSet(DOMAIN isas')
  BY <1>2, FS_Subset, Zenon DEF UInv
<1> QED BY <1>1, <1>6, <1>7, Zenon DEF UInv

(* Time. *)
LEMMA TickKeepsUpToDate ==
  ASSUME UInv, TypeOK', Tick
  PROVE  UInv'
<1>1. now \in Int /\ now' = now + 1 /\ subs' = subs /\ view' = view /\ isas' = isas
  BY DEF UInv, TypeOK, Tick
<1>2. \A x \in DOMAIN isas : isas[x].end \in Int
  BY Zenon DEF UInv, TypeOK, IsMap, ISARecords
<1>3. \A i \in DOMAIN subs : subs[i].end \in Int /\ \A x \in DOMAIN view[i] : view[i][x].end \in Int
  BY Zenon DEF UInv, TypeOK, IsMap, ISARecords, SubRecords
<1>4. ASSUME NEW i \in DOMAIN subs, subs[i].end >= now + 1
      PROVE  Agree(view[i], isas, now + 1, subs[i].cells)
  <2>1. subs[i].end >= now
    BY <1>1, <1>3, <1>4
  <2>2. Agree(view[i], isas, now, subs[i].cells)
    BY <2>1, Zenon DEF UInv
  <2> QED BY <1>1, <1>2, <1>3, <2>2, AgreeLater, Zenon
<1> QED BY <1>1, <1>4, Zenon DEF UInv

(* Every step keeps subscribers up to date. *)
LEMMA StepUpToDate ==
  ASSUME TTL > 0
  PROVE  UInv /\ ISASearchesAreComplete /\ [Next]_vars => UInv'
<1> SUFFICES ASSUME UInv, ISASearchesAreComplete, [Next]_vars PROVE UInv'
  BY Zenon
<1>1. TypeOK'
  BY StepTypes, Zenon DEF UInv
<1>2. CASE PutSomeISA
  BY <1>1, <1>2, PutISAKeepsUpToDate, Zenon
<1>3. CASE DeleteSomeISA
  BY <1>1, <1>3, DeleteISAKeepsUpToDate, Zenon
<1>4. CASE PutSomeSubscription
  BY <1>1, <1>4, PutSubKeepsUpToDate, Zenon
<1>5. CASE DeleteSomeSubscription
  BY <1>1, <1>5, RemoveSubsKeepsUpToDate, Zenon DEF DeleteSomeSubscription, DeleteSubscription
<1>6. ASSUME NEW batch \in SUBSET DOMAIN isas, DeleteExpiredISAs(batch) PROVE UInv'
  BY <1>1, <1>6, EvictISAsKeepsUpToDate, Zenon
<1>7. ASSUME NEW batch \in SUBSET DOMAIN subs, DeleteExpiredSubscriptions(batch) PROVE UInv'
  BY <1>1, <1>7, RemoveSubsKeepsUpToDate, Zenon DEF DeleteExpiredSubscriptions
<1>8. CASE Tick
  BY <1>1, <1>8, TickKeepsUpToDate, Zenon
<1>9. CASE UNCHANGED vars
  <2>1. isas' = isas /\ subs' = subs /\ view' = view /\ now' = now
    BY <1>9, Zenon DEF vars
  <2> QED BY <1>1, <2>1, Zenon DEF UInv
<1> QED BY <1>2, <1>3, <1>4, <1>5, <1>6, <1>7, <1>8, <1>9, Zenon DEF Next

(* The USS of a live subscription always knows the live ISAs in its area, in *)
(* their current versions, and no other, while no search for ISAs is cut     *)
(* short by the limit of a result.  Eviction must leave an entity until      *)
(* after its end (a time-to-live of 0 evicts an ISA at its last instant,     *)
(* when subscribers still hold it).                                          *)
THEOREM SubscribersStayUpToDate ==
  ASSUME TTL > 0
  PROVE  Spec /\ []ISASearchesAreComplete => []SubscriberIsUpToDate
<1>1. Init => UInv
  <2>1. Init => TypeOK
    BY DEF Init, TypeOK, IsMap
  <2>2. Init => DOMAIN isas = {} /\ DOMAIN subs = {}
    BY Zenon DEF Init
  <2> QED BY <2>1, <2>2, FS_EmptySet, Zenon DEF UInv
<1>2. UInv /\ ISASearchesAreComplete /\ [Next]_vars => UInv'
  BY StepUpToDate, Zenon
<1> QED BY <1>1, <1>2, AgreementIsUpToDate, PTL DEF Spec
=============================================================================
