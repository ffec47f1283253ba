-------------------------------- MODULE Rid --------------------------------
(***************************************************************************)
(* Remote identification: identification service areas (ISAs) and the      *)
(* subscriptions to them, as pkg/rid/operations changes them.              *)
(*                                                                         *)
(* As in Scd, an action is an operation the store accepts, run atomically. *)
(* view is a history variable: what the USS of each subscription holds of  *)
(* the ISAs, from the answers to its own requests and from the             *)
(* notifications that every writer of an ISA sends to the subscriptions    *)
(* the DSS returns to it.  Those are exchanged between USSs: the model     *)
(* delivers them with the write.                                           *)
(***************************************************************************)
EXTENDS Volumes, FiniteSets

CONSTANTS ISAs, Subs, Owners,
          None,            \* an absent time
          ISAVolumes,      \* what requests ask for: cells, start, end; times may be None
          SubVolumes,
          Skew,            \* maxClockSkew, five minutes
          MaxDuration,     \* maxSubscriptionDuration, one day
          maxSubscriptionsPerArea,
          TTL,             \* age at which db-manager evicts an entity
          MaxResultLimit,  \* most rows a search returns
          Backend,         \* "sql" (sqlstore) or "mem" (memstore, under raftstore)
          MaxNow, MaxSeq   \* bounds of the model

ASSUME RidAssumption ==
  /\ None \notin Int
  /\ ISAVolumes \cup SubVolumes \subseteq
       [cells : SUBSET Leaf, start : {None} \cup Int, end : {None} \cup Int]
  /\ {Skew, MaxDuration, maxSubscriptionsPerArea, TTL, MaxResultLimit, MaxNow, MaxSeq} \subseteq Nat
  /\ Backend \in {"sql", "mem"}

VARIABLES isas,   \* ISAs by ID
          subs,   \* subscriptions by ID
          view,   \* history: per subscription, the ISAs its USS knows, by ID
          now, seq

vars == <<isas, subs, view, now, seq>>

ISARecords == [owner : Owners, cells : SUBSET Leaf, start : Int, end : Int, updatedAt : Nat]
SubRecords == [owner : Owners, index : Nat, cells : SUBSET Leaf, start : Int, end : Int,
               updatedAt : Nat]

IsMap(f, K, V) == DOMAIN f \subseteq K /\ f \in [DOMAIN f -> V]
Put(f, k, v) == [x \in DOMAIN f \cup {k} |-> IF x = k THEN v ELSE f[x]]
Without(f, K) == [x \in DOMAIN f \ K |-> f[x]]

Init == /\ isas = [x \in {} |-> {}] /\ subs = [x \in {} |-> {}] /\ view = [x \in {} |-> {}]
        /\ now = 0 /\ seq = 0

-----------------------------------------------------------------------------
(* The repository.                                                         *)

Live(r) == r.end >= now

\* liveSubscriptionsInCells
Subscribers(cells) == {i \in DOMAIN subs : Live(subs[i]) /\ Overlaps(subs[i].cells, cells)}

\* SearchISAs(cells, now, nil)
MatchingISAs(cells) == {x \in DOMAIN isas : Live(isas[x]) /\ Overlaps(isas[x].cells, cells)}

\* The memory store checks the limit once it has gone beyond it.
Limit == IF Backend = "sql" THEN MaxResultLimit ELSE MaxResultLimit + 1

SearchISAs(cells) ==
  LET matches == MatchingISAs(cells)
  IN  {found \in SUBSET matches : \/ found = matches /\ Cardinality(matches) <= Limit
                                  \/ Cardinality(found) = Limit}

\* validateWriteData, and the CHECK constraints of the SQL schema
ValidWriteData(cells, start, end) == cells # {} /\ start < end

\* UpdateNotificationIdxsInCells
UpdateNotificationIdxsInCells(cells) ==
  [i \in DOMAIN subs |-> IF i \in Subscribers(cells)
                         THEN [subs[i] EXCEPT !.index = @ + 1] ELSE subs[i]]

\* The views once the writer of an ISA has told the subscribers in cells that x is now as in f.
Told(cells, x, f) ==
  [i \in DOMAIN view |-> IF i \notin Subscribers(cells) THEN view[i]
                         ELSE IF x \in DOMAIN f THEN Put(view[i], x, f[x])
                                                ELSE Without(view[i], {x})]

-----------------------------------------------------------------------------
(* AdjustTimeRange: the start and the end asked for, those of the previous *)
(* version in f, or a default.                                             *)

AdjustedStart(f, k, v) ==
  IF v.start # None THEN v.start ELSE IF k \in DOMAIN f THEN f[k].start ELSE now

AdjustedEnd(f, k, v, default) ==
  IF v.end # None THEN v.end ELSE IF k \in DOMAIN f THEN f[k].end ELSE default

NotInThePast(v) == v.start # None => now - v.start <= Skew

-----------------------------------------------------------------------------
(* Identification service areas.                                           *)

WriteISA(x, o, v, notified) ==
  LET start == AdjustedStart(isas, x, v)
      end   == AdjustedEnd(isas, x, v, None)
  IN  /\ seq < MaxSeq
      /\ NotInThePast(v)
      /\ end # None /\ end >= start
      /\ ValidWriteData(v.cells, start, end)
      /\ isas' = Put(isas, x, [owner |-> o, cells |-> v.cells, start |-> start, end |-> end,
                               updatedAt |-> seq + 1])
      /\ subs' = UpdateNotificationIdxsInCells(notified)
      /\ view' = Told(notified, x, isas')
      /\ seq' = seq + 1
      /\ UNCHANGED now

InsertISA(x, o, v) == x \notin DOMAIN isas /\ WriteISA(x, o, v, v.cells)

\* mutant: the union is left with coarse cells, which no subscription has
UnionNotLevelled(old, cells) == CellUnionFromUnion(old, cells)

NotifiedCells(old, cells) == Levelify(CellUnionFromUnion(old, cells))

\* mutant: the union is not only notified but stored
UpdateISAWithUnion(x, o, v) ==
  /\ x \in DOMAIN isas /\ isas[x].owner = o
  /\ WriteISA(x, o, [v EXCEPT !.cells = CellUnionFromUnion(isas[x].cells, @)],
              NotifiedCells(isas[x].cells, v.cells))

UpdateISA(x, o, v) ==
  /\ x \in DOMAIN isas /\ isas[x].owner = o
  /\ WriteISA(x, o, v, NotifiedCells(isas[x].cells, v.cells))

DeleteISA(x) ==
  /\ seq < MaxSeq
  /\ x \in DOMAIN isas
  /\ isas' = Without(isas, {x})
  /\ subs' = UpdateNotificationIdxsInCells(isas[x].cells)
  /\ view' = Told(isas[x].cells, x, isas')
  /\ seq' = seq + 1
  /\ UNCHANGED now

-----------------------------------------------------------------------------
(* Subscriptions.                                                          *)

LiveInCell(o, c) == {i \in DOMAIN subs : subs[i].owner = o /\ Live(subs[i]) /\ c \in subs[i].cells}

\* mutant: one too many
CountAtMost(o, cells) ==
  \A c \in cells : Cardinality(LiveInCell(o, c)) <= maxSubscriptionsPerArea

\* checkSubscriptionCount; on an update the subscription itself is counted
CheckSubscriptionCount(o, cells) ==
  \A c \in cells : Cardinality(LiveInCell(o, c)) < maxSubscriptionsPerArea

\* executeCreateSubscription and executeUpdateSubscription: a request carries no notification
\* index, so an update starts it again from 0.  The answer holds the ISAs found.
WriteSub(i, o, v) ==
  LET start == AdjustedStart(subs, i, v)
      end   == AdjustedEnd(subs, i, v, start + MaxDuration)
  IN  /\ seq < MaxSeq
      /\ NotInThePast(v)
      /\ end - start \in 0..MaxDuration
      /\ CheckSubscriptionCount(o, v.cells)
      /\ ValidWriteData(v.cells, start, end)
      /\ subs' = Put(subs, i, [owner |-> o, index |-> 0, cells |-> v.cells, start |-> start,
                               end |-> end, updatedAt |-> seq + 1])
      /\ \E found \in SearchISAs(v.cells) : view' = Put(view, i, [x \in found |-> isas[x]])
      /\ seq' = seq + 1
      /\ UNCHANGED <<isas, now>>

CreateSubscription(i, o, v) == i \notin DOMAIN subs /\ WriteSub(i, o, v)

UpdateSubscription(i, o, v) == i \in DOMAIN subs /\ subs[i].owner = o /\ WriteSub(i, o, v)

DeleteSubscription(i) ==
  /\ seq < MaxSeq
  /\ i \in DOMAIN subs
  /\ subs' = Without(subs, {i})
  /\ view' = Without(view, {i})
  /\ seq' = seq + 1
  /\ UNCHANGED <<isas, now>>

-----------------------------------------------------------------------------
(* Eviction, of sqlstore only, and time.                                   *)

Expired(r) == r.end <= now - TTL

DeleteExpiredISAs(batch) ==
  /\ Backend = "sql"
  /\ batch # {} /\ \A x \in batch : Expired(isas[x])
  /\ isas' = Without(isas, batch)
  /\ UNCHANGED <<subs, view, now, seq>>

DeleteExpiredSubscriptions(batch) ==
  /\ Backend = "sql"
  /\ batch # {} /\ \A i \in batch : Expired(subs[i])
  /\ subs' = Without(subs, batch)
  /\ view' = Without(view, batch)
  /\ UNCHANGED <<isas, now, seq>>

Tick == now < MaxNow /\ now' = now + 1 /\ UNCHANGED <<isas, subs, view, seq>>

\* The requests: a handler of pkg/rid/server (v1 and v2 run the same operations)
\* reads one, refuses it if it is malformed or incomplete, and runs its operation
\* in one transaction of the store.
PutSomeISA ==
  \E x \in ISAs, o \in Owners, v \in ISAVolumes : InsertISA(x, o, v) \/ UpdateISA(x, o, v)

DeleteSomeISA == \E x \in ISAs : DeleteISA(x)

PutSomeSubscription ==
  \E i \in Subs, o \in Owners, v \in SubVolumes :
    CreateSubscription(i, o, v) \/ UpdateSubscription(i, o, v)

DeleteSomeSubscription == \E i \in Subs : DeleteSubscription(i)

Next ==
  \/ PutSomeISA
  \/ DeleteSomeISA
  \/ PutSomeSubscription
  \/ DeleteSomeSubscription
  \/ \E batch \in SUBSET DOMAIN isas : DeleteExpiredISAs(batch)
  \/ \E batch \in SUBSET DOMAIN subs : DeleteExpiredSubscriptions(batch)
  \/ Tick

Spec == Init /\ [][Next]_vars

-----------------------------------------------------------------------------
(* Properties.                                                             *)

\* The repository holds well-formed records, and a view for each subscription.
TypeOK ==
  /\ IsMap(isas, ISAs, ISARecords) /\ IsMap(subs, Subs, SubRecords)
  /\ DOMAIN view = DOMAIN subs
  /\ \A i \in DOMAIN view : IsMap(view[i], ISAs, ISARecords)
  /\ now \in Nat /\ seq \in Nat

\* the live ISAs of f in the area of subscription i, with their versions
LiveIn(f, i) == {<<x, f[x]>> : x \in {y \in DOMAIN f : /\ Live(f[y])
                                                       /\ Overlaps(f[y].cells, subs[i].cells)}}

\* The USS of a live subscription knows the live ISAs in its area, in their current
\* versions, and no other: the answer to its last request and the notifications since
\* add up, wherever ISAs and the subscription moved, expired or were renewed
\* (executeUpdateISA notifies the area an ISA leaves as well as the one it enters).
SubscriberIsUpToDate ==
  \A i \in DOMAIN subs : Live(subs[i]) => LiveIn(view[i], i) = LiveIn(isas, i)

\* No owner has more than maxSubscriptionsPerArea live subscriptions in a cell (DSS0030),
\* although subscriptions move and expired ones are renewed (checkSubscriptionCount).
BoundedSubscriptionsPerArea ==
  \A o \in Owners, c \in Leaf : Cardinality(LiveInCell(o, c)) <= maxSubscriptionsPerArea
=============================================================================
