------------------------- MODULE RaftRequestProofs --------------------------
(***************************************************************************)
(* Proofs about the requests made to the servers of RaftStore, replicas of *)
(* one log, for any number of servers, entries, requests, snapshots and    *)
(* crashes: the answers are those of the log, and each write is proposed   *)
(* and decided once.                                                       *)
(***************************************************************************)
EXTENDS RaftLogProofs

-----------------------------------------------------------------------------
\* Requests and proposals.

IsRequest(q) == q = [st |-> q.st, at |-> q.at, floor |-> q.floor, index |-> q.index, res |-> q.res]

ReadStages == {"new", "asked", "answered", "carried", "indexed", "ready", "reading", "done", "failed"}
WriteStages == {"new", "wait", "done", "rejected", "failed"}

\* what is true of request r, in progress q, when the log has L entries that amount to t
RequestOf(r, q, t, L) ==
  /\ IsRequest(q) /\ q.at \in Server \cup {None}
  /\ q.st # "new" => q.at \in Server
  /\ q.st = "new" => q.at = None /\ q.floor = 0 /\ q.res = None
  /\ r \notin Reads => q.st \in WriteStages /\ q.floor = 0
  /\ r \in Reads => /\ q.st \in ReadStages /\ q.floor \in 0..L
                    /\ q.st \in {"answered", "carried", "indexed", "ready", "reading"} => q.index \in q.floor..L
                    /\ q.st = "done" => \E k \in q.floor..L : q.res = StateAfter(t, k)

\* how much of the log server n has handed over
Reached(n) == Done(vol[n], cons[n])

\* request r, in progress q, is released only when its index is reached
Served(q) == q.st \in {"ready", "reading"} => q.index <= Reached(q.at)

\* processCommits of a server holds no read but one of the server's requests
ReadAtHome(n, x) == x.kind = "read" => x.id \in Reads /\ req[x.id].at = n

(* The inductive invariant on the requests. *)
QInv ==
  /\ DOMAIN req = Requests
  /\ \A r \in Requests : RequestOf(r, req[r], meaning, Len(log)) /\ Served(req[r])
  /\ \A n \in Server : ReadAtHome(n, exec[n])

(* The inductive invariant on the proposals: each is committed once, by a   *)
(* caller that was not answered before.                                     *)
PInv ==
  /\ \A x \in pending : req[x].st \in {"wait", "failed"} /\ \A i \in 1..Len(log) : log[i] # x
  /\ \A i \in 1..Len(log) : log[i] # Empty => req[log[i]].st # "new"
  /\ \A i, j \in 1..Len(log) : log[i] = log[j] => i = j \/ log[i] = Empty
  /\ \A k \in 1..Len(meaning.writes) : \E i \in 1..Len(log) : log[i] = meaning.writes[k]

(* A request's fields once its stage is replaced. *)
LEMMA RequestStage ==
  ASSUME NEW q, IsRequest(q), NEW x
  PROVE  [q EXCEPT !.st = x]
           = [st |-> x, at |-> q.at, floor |-> q.floor, index |-> q.index, res |-> q.res]
<1> DEFINE s == q.st
<1> DEFINE a == q.at
<1> DEFINE f == q.floor
<1> DEFINE i == q.index
<1> DEFINE e == q.res
<1>1. q = [st |-> s, at |-> a, floor |-> f, index |-> i, res |-> e]
  BY Zenon DEF IsRequest
<1> HIDE DEF s, a, f, i, e
<1>2. [q EXCEPT !.st = x] = [st |-> x, at |-> a, floor |-> f, index |-> i, res |-> e]
  BY <1>1
<1> QED BY <1>2, Zenon DEF a, f, i, e

(* Its stage and its server. *)
LEMMA RequestStageAt ==
  ASSUME NEW q, IsRequest(q), NEW x, NEW y
  PROVE  [q EXCEPT !.st = x, !.at = y]
           = [st |-> x, at |-> y, floor |-> q.floor, index |-> q.index, res |-> q.res]
<1> DEFINE s == q.st
<1> DEFINE a == q.at
<1> DEFINE f == q.floor
<1> DEFINE i == q.index
<1> DEFINE e == q.res
<1>1. q = [st |-> s, at |-> a, floor |-> f, index |-> i, res |-> e]
  BY Zenon DEF IsRequest
<1> HIDE DEF s, a, f, i, e
<1> DEFINE q1 == [q EXCEPT !.st = x]
<1> DEFINE q2 == [q1 EXCEPT !.at = y]
<1>2. [q EXCEPT !.st = x, !.at = y] = q2
  BY Zenon
<1>3. q1 = [st |-> x, at |-> a, floor |-> f, index |-> i, res |-> e]
  BY <1>1
<1> HIDE DEF q1
<1>4. q2 = [st |-> x, at |-> y, floor |-> f, index |-> i, res |-> e]
  BY <1>3
<1> HIDE DEF q2
<1> QED BY <1>2, <1>4, Zenon DEF s, a, f, i, e

(* Its stage and its index. *)
LEMMA RequestStageIndex ==
  ASSUME NEW q, IsRequest(q), NEW x, NEW y
  PROVE  [q EXCEPT !.st = x, !.index = y]
           = [st |-> x, at |-> q.at, floor |-> q.floor, index |-> y, res |-> q.res]
<1> DEFINE s == q.st
<1> DEFINE a == q.at
<1> DEFINE f == q.floor
<1> DEFINE i == q.index
<1> DEFINE e == q.res
<1>1. q = [st |-> s, at |-> a, floor |-> f, index |-> i, res |-> e]
  BY Zenon DEF IsRequest
<1> HIDE DEF s, a, f, i, e
<1> DEFINE q1 == [q EXCEPT !.st = x]
<1> DEFINE q2 == [q1 EXCEPT !.index = y]
<1>2. [q EXCEPT !.st = x, !.index = y] = q2
  BY Zenon
<1>3. q1 = [st |-> x, at |-> a, floor |-> f, index |-> i, res |-> e]
  BY <1>1
<1> HIDE DEF q1
<1>4. q2 = [st |-> x, at |-> a, floor |-> f, index |-> y, res |-> e]
  BY <1>3
<1> HIDE DEF q2
<1> QED BY <1>2, <1>4, Zenon DEF s, a, f, i, e

(* Its stage and its result. *)
LEMMA RequestStageRes ==
  ASSUME NEW q, IsRequest(q), NEW x, NEW y
  PROVE  [q EXCEPT !.st = x, !.res = y]
           = [st |-> x, at |-> q.at, floor |-> q.floor, index |-> q.index, res |-> y]
<1> DEFINE s == q.st
<1> DEFINE a == q.at
<1> DEFINE f == q.floor
<1> DEFINE i == q.index
<1> DEFINE e == q.res
<1>1. q = [st |-> s, at |-> a, floor |-> f, index |-> i, res |-> e]
  BY Zenon DEF IsRequest
<1> HIDE DEF s, a, f, i, e
<1> DEFINE q1 == [q EXCEPT !.st = x]
<1> DEFINE q2 == [q1 EXCEPT !.res = y]
<1>2. [q EXCEPT !.st = x, !.res = y] = q2
  BY Zenon
<1>3. q1 = [st |-> x, at |-> a, floor |-> f, index |-> i, res |-> e]
  BY <1>1
<1> HIDE DEF q1
<1>4. q2 = [st |-> x, at |-> a, floor |-> f, index |-> i, res |-> y]
  BY <1>3
<1> HIDE DEF q2
<1> QED BY <1>2, <1>4, Zenon DEF s, a, f, i, e

(* What a server has handed over is part of the log. *)
LEMMA ReachedInLog ==
  ASSUME MInv, NEW n \in Server
  PROVE  Reached(n) \in 0..Len(log) /\ Reached(n) \in Nat /\ Len(log) \in Nat
BY ThisMatch, DoneInLog, Zenon DEF Reached

(* No consumer goes back. *)
LEMMA ReachedGrows ==
  ASSUME MInv, RInv, NEW n \in Server, Receive(n) \/ Consume(n), NEW m \in Server
  PROVE  Reached(m) <= Reached(m)' /\ Reached(m)' \in Nat
<1> DEFINE c == cons[n]
<1> DEFINE v == vol[n]
<1>0. /\ LogMeans(log, meaning) /\ ConsMatches(log, meaning, v, c) /\ VolMatches(log, meaning, v, c)
      /\ IsCons(c) /\ IsVol(v) /\ Reached(n) = Done(v, c) /\ Reached(n) \in Nat
      /\ Reached(n)' = Done(vol'[n], cons'[n])
  BY ThisServer, ThisMatch, ReachedInLog, Zenon DEF Reached
<1>1. CASE m # n
  <2>1. vol'[m] = vol[m] /\ cons'[m] = cons[m]
    BY <1>1, ThisServer, Zenon DEF Receive, Consume, ReceiveEntries, ReceiveSnapshot, RecordSnapshot, SaveState, HandOffSnapshot,
       PublishWrite, PublishEmpty, PublishChange, FinishBatch, CompactLog, ReleaseReads
  <2> QED BY <2>1, ReachedInLog DEF Reached
<1>2. ASSUME vol' = vol, c.pc # "publish", cons'[n].pc # "publish"
      PROVE  Reached(n)' = Reached(n)
  BY <1>0, <1>2, Zenon DEF Done
<1>3. ASSUME NEW k \in v.applied..Len(log), ReceiveEntries(n, k) PROVE Reached(n)' = Reached(n)
  <2> DEFINE f == v.applied + 1
  <2> DEFINE b == [c EXCEPT !.pc = "publish", !.next = f, !.upto = k, !.reads = AnsweredAt(n)]
  <2>1. vol' = vol /\ c.pc = "idle" /\ cons'[n] = b
    BY <1>3, ThisServer, Zenon DEF ReceiveEntries
  <2>2. f - 1 = v.applied
    BY <1>0, LogLength DEF VolMatches
  <2> HIDE DEF f
  <2>3. b = [pc |-> "publish", snap |-> c.snap, next |-> f, upto |-> k, reads |-> AnsweredAt(n)]
    BY <1>0, ConsReceives, Zenon
  <2> HIDE DEF b
  <2>4. b.pc = "publish" /\ b.next = f
    BY <2>3, Zenon
  <2> QED BY <1>0, <2>1, <2>2, <2>4, Zenon DEF Done
<1>4. ASSUME NEW o \in Server, ReceiveSnapshot(n, o) PROVE Reached(n)' = Reached(n)
  <2> DEFINE s == [vol[o].snap EXCEPT !.conf = vol[o].conf]
  <2> DEFINE b == [c EXCEPT !.pc = "record"]
  <2>1. vol' = vol /\ c.pc = "idle" /\ cons'[n] = [b EXCEPT !.snap = s]
    BY <1>4, ThisServer, Zenon DEF ReceiveSnapshot
  <2>2. b = [pc |-> "record", snap |-> c.snap, next |-> c.next, upto |-> c.upto, reads |-> c.reads]
    BY <1>0, ConsField, Zenon
  <2> HIDE DEF b, s
  <2>3. cons'[n].pc = "record"
    BY <2>1, <2>2, Zenon
  <2> QED BY <1>2, <2>1, <2>3, Zenon
<1>5. ASSUME NEW p \in {"save", "handoff"}, vol' = vol, c.pc # "publish", cons' = [cons EXCEPT ![n].pc = p]
      PROVE  Reached(n)' = Reached(n)
  <2>1. cons'[n] = [c EXCEPT !.pc = p]
    BY <1>5, ThisServer, Zenon
  <2>2. cons'[n].pc = p
    BY <1>0, <2>1, ConsField
  <2> QED BY <1>2, <1>5, <2>2, Zenon
<1>6. \A p : [c EXCEPT !.pc = p].pc = p
  <2> SUFFICES ASSUME NEW p PROVE [c EXCEPT !.pc = p].pc = p
    BY Zenon
  <2>1. [c EXCEPT !.pc = p] = [pc |-> p, snap |-> c.snap, next |-> c.next, upto |-> c.upto, reads |-> c.reads]
    BY <1>0, ConsField, Zenon
  <2> QED BY <2>1, Zenon
<1>7. ASSUME HandOffSnapshot(n) PROVE Reached(n) <= Reached(n)' /\ Reached(n)' \in Nat
  <2>1. c.pc = "handoff" /\ vol'[n] = Recovered(c.snap) /\ cons'[n] = [Waiting EXCEPT !.pc = "reads"]
    BY <1>7, ThisServer, Zenon DEF HandOffSnapshot
  <2>2. cons'[n].pc = "reads" /\ vol'[n].applied = c.snap.index
    BY <2>1 DEF Waiting, Recovered
  <2>3. v.applied < c.snap.index /\ c.snap.index \in Nat /\ v.applied \in Nat
    BY <1>0, <2>1, LogLength DEF ConsMatches, SnapshotOf, IsSnapshot, VolMatches
  <2>4. Reached(n) = v.applied /\ Reached(n)' = c.snap.index
    BY <1>0, <2>1, <2>2, Zenon DEF Done
  <2> QED BY <2>3, <2>4
<1>8. ASSUME c.pc = "publish", cons' = [cons EXCEPT ![n].next = @ + 1] PROVE Reached(n)' = Reached(n) + 1
  <2> DEFINE x == c.next
  <2> DEFINE y == x + 1
  <2>1. cons'[n] = [c EXCEPT !.next = y]
    BY <1>8, ThisServer, Zenon
  <2>2. x \in Nat
    BY <1>0, <1>8, Zenon DEF ConsMatches
  <2> HIDE DEF y
  <2>3. cons'[n] = [pc |-> c.pc, snap |-> c.snap, next |-> y, upto |-> c.upto, reads |-> c.reads]
    BY <1>0, <2>1, ConsField, Zenon
  <2>4. Done(v, c) = x - 1 /\ Done(vol'[n], cons'[n]) = y - 1
    BY <1>8, <2>3 DEF Done
  <2> HIDE DEF x
  <2>5. y - 1 = (x - 1) + 1
    BY <2>2 DEF y
  <2> QED BY <1>0, <2>4, <2>5, Zenon
<1>9. ASSUME FinishBatch(n) PROVE Reached(n)' = Reached(n)
  <2>1. c.pc = "publish" /\ c.next > c.upto
        /\ \/ vol' = [vol EXCEPT ![n].applied = c.upto, ![n].snap = EncodeSnapshot(n, c.upto)]
              /\ cons' = [cons EXCEPT ![n].pc = "compact"]
           \/ vol' = [vol EXCEPT ![n].applied = c.upto] /\ cons' = [cons EXCEPT ![n].pc = "reads"]
    BY <1>9, Zenon DEF FinishBatch
  <2>2. Done(v, c) = c.upto
    BY <1>0, <2>1, BatchEnds
  <2>3. cons'[n] = [c EXCEPT !.pc = "compact"] \/ cons'[n] = [c EXCEPT !.pc = "reads"]
    BY <2>1, ThisServer, Zenon
  <2>4. cons'[n].pc \in {"compact", "reads"}
    BY <2>3, <1>6, Zenon
  <2> DEFINE k == c.upto
  <2> DEFINE q == [v EXCEPT !.applied = k]
  <2> DEFINE s == EncodeSnapshot(n, k)
  <2>5. vol'[n] = [q EXCEPT !.snap = s] \/ vol'[n] = q
    BY <2>1, ThisServer, Zenon
  <2> HIDE DEF k, s
  <2>6. q = [applied |-> k, snap |-> v.snap, first |-> v.first, group |-> v.group, conf |-> v.conf]
    BY <1>0, VolField, Zenon
  <2> HIDE DEF q
  <2>7. vol'[n].applied = k
    BY <2>5, <2>6
  <2> QED BY <1>0, <2>2, <2>4, <2>7 DEF Done, k
<1>10. ASSUME CompactLog(n) PROVE Reached(n)' = Reached(n)
  <2> DEFINE f == CompactedAt(v.applied, v.first)
  <2>1. c.pc = "compact" /\ vol'[n] = [v EXCEPT !.first = f] /\ cons'[n] = [c EXCEPT !.pc = "reads"]
    BY <1>10, ThisServer, Zenon DEF CompactLog
  <2> HIDE DEF f
  <2>2. [v EXCEPT !.first = f]
          = [applied |-> v.applied, snap |-> v.snap, first |-> f, group |-> v.group, conf |-> v.conf]
    BY <1>0, VolField, Zenon
  <2>3. cons'[n].pc = "reads" /\ vol'[n].applied = v.applied
    BY <1>6, <2>1, <2>2, Zenon
  <2> QED BY <1>0, <2>1, <2>3, Zenon DEF Done
<1>11. ASSUME ReleaseReads(n) PROVE Reached(n)' = Reached(n)
  <2>1. vol' = vol /\ c.pc = "reads" /\ cons'[n] = Waiting
    BY <1>11, ThisServer, Zenon DEF ReleaseReads
  <2> QED BY <1>2, <2>1 DEF Waiting
<1>12. CASE m = n /\ Receive(n)
  BY <1>0, <1>3, <1>4, <1>12 DEF Receive
<1>13. CASE m = n /\ (PublishWrite(n) \/ PublishEmpty(n) \/ PublishChange(n))
  <2>1. Reached(n)' = Reached(n) + 1
    BY <1>8, <1>13, Zenon DEF PublishWrite, PublishEmpty, PublishChange
  <2> QED BY <1>0, <1>13, <2>1
<1>14. CASE m = n /\ (RecordSnapshot(n) \/ SaveState(n))
  BY <1>0, <1>5, <1>14 DEF RecordSnapshot, SaveState
<1>15. CASE m = n /\ (HandOffSnapshot(n) \/ FinishBatch(n) \/ CompactLog(n) \/ ReleaseReads(n))
  BY <1>0, <1>7, <1>9, <1>10, <1>11, <1>15
<1> QED BY <1>1, <1>12, <1>13, <1>14, <1>15, Zenon DEF Consume

(* A step that changes one request and no consumer. *)
LEMMA OneRequest ==
  ASSUME QInv, UNCHANGED <<logVars, vol, cons>>, NEW r \in Requests, NEW q, req' = [req EXCEPT ![r] = q],
         RequestOf(r, q, meaning, Len(log)), Served(q), q.at = req[r].at \/ req[r].st = "new",
         \A n \in Server : \/ exec'[n] = exec[n] \/ exec'[n].kind = "idle"
                           \/ exec'[n].kind = "read" /\ exec'[n].id = r /\ r \in Reads /\ q.at = n
  PROVE  QInv'
<1>1. log' = log /\ meaning' = meaning /\ DOMAIN req = Requests
  BY Zenon DEF logVars, QInv
<1>2. req'[r] = q /\ \A x \in Requests \ {r} : req'[x] = req[x]
  BY <1>1, Zenon
<1>3. ASSUME NEW x \in Requests PROVE RequestOf(x, req'[x], meaning', Len(log')) /\ Served(req[x])'
  <2>1. CASE x = r
    BY <1>1, <1>2, <2>1, Zenon DEF Served, Reached
  <2>2. CASE x # r
    <3>1. RequestOf(x, req[x], meaning, Len(log)) /\ Served(req[x]) /\ req'[x] = req[x]
      BY <1>2, <2>2, Zenon DEF QInv
    <3> QED BY <1>1, <3>1, Zenon DEF Served, Reached
  <2> QED BY <2>1, <2>2, Zenon
<1>4. ASSUME NEW n \in Server PROVE ReadAtHome(n, exec[n])'
  <2>1. CASE exec'[n] = exec[n]
    <3> SUFFICES ASSUME exec[n].kind = "read" PROVE exec[n].id \in Reads /\ req'[exec[n].id].at = n
      BY <2>1, Zenon DEF ReadAtHome
    <3>1. exec[n].id \in Reads /\ exec[n].id \in Requests /\ req[exec[n].id].at = n
      BY Zenon DEF QInv, ReadAtHome, Requests
    <3>2. req[r].st = "new" => req[r].at # n
      BY NamesAreDistinct, Zenon DEF QInv, RequestOf
    <3> QED BY <1>2, <3>1, <3>2, Zenon
  <2>2. CASE exec'[n].kind = "idle"
    BY <2>2, Zenon DEF ReadAtHome
  <2>3. CASE exec'[n].kind = "read" /\ exec'[n].id = r /\ r \in Reads /\ q.at = n
    BY <1>2, <2>3, Zenon DEF ReadAtHome
  <2> QED BY <2>1, <2>2, <2>3, Zenon
<1> QED BY <1>1, <1>3, <1>4, Zenon DEF QInv

(* A step that changes no request, no consumer and hands over no read. *)
LEMMA NoRequest ==
  ASSUME QInv, UNCHANGED <<logVars, vol, cons, req>>, \A n \in Server : exec'[n] = exec[n] \/ exec'[n].kind # "read"
  PROVE  QInv'
<1>1. log' = log /\ meaning' = meaning /\ req' = req
  BY Zenon DEF logVars
<1>2. ASSUME NEW x \in Requests PROVE RequestOf(x, req'[x], meaning', Len(log')) /\ Served(req[x])'
  BY <1>1, Zenon DEF QInv, Served, Reached
<1>3. ASSUME NEW n \in Server PROVE ReadAtHome(n, exec[n])'
  BY <1>1, Zenon DEF QInv, ReadAtHome
<1> QED BY <1>1, <1>2, <1>3, Zenon DEF QInv

(* A step of a consumer. *)
LEMMA ConsumerRequests ==
  ASSUME QInv, MInv, RInv, NEW n \in Server, Receive(n) \/ Consume(n), UNCHANGED logVars, DOMAIN req' = Requests,
         \A r \in Requests : \/ req'[r] = req[r]
                             \/ /\ RequestOf(r, req'[r], meaning, Len(log)) /\ Served(req[r])'
                                /\ req'[r].at = req[r].at,
         \A m \in Server : exec'[m] = exec[m] \/ exec'[m].kind # "read"
  PROVE  QInv'
<1>1. log' = log /\ meaning' = meaning
  BY Zenon DEF logVars
<1>2. ASSUME NEW x \in Requests
      PROVE  RequestOf(x, req'[x], meaning', Len(log')) /\ Served(req[x])' /\ req'[x].at = req[x].at
  <2>1. CASE req'[x] = req[x]
    <3>1. RequestOf(x, req[x], meaning, Len(log)) /\ Served(req[x])
      BY Zenon DEF QInv
    <3>2. ASSUME req[x].st \in {"ready", "reading"} PROVE req[x].index <= Reached(req[x].at)'
      <4>1. req[x].at \in Server /\ x \in Reads
        BY <3>1, <3>2, Zenon DEF RequestOf, WriteStages
      <4>2. req[x].index \in req[x].floor..Len(log) /\ req[x].floor \in 0..Len(log)
        BY <3>1, <3>2, <4>1, Zenon DEF RequestOf
      <4> DEFINE i == req[x].index
      <4> DEFINE f == req[x].floor
      <4> DEFINE a == Reached(req[x].at)
      <4> DEFINE b == Reached(req[x].at)'
      <4>3. a <= b /\ a \in Nat /\ b \in Nat /\ Len(log) \in Nat
        BY <4>1, ReachedGrows, ReachedInLog, Zenon
      <4>4. i <= a
        BY <3>1, <3>2, Zenon DEF Served
      <4>5. i \in f..Len(log) /\ f \in 0..Len(log)
        BY <4>2, Zenon
      <4> HIDE DEF i, f, a, b
      <4>6. i <= b
        BY <4>3, <4>4, <4>5
      <4> QED BY <4>6, Zenon DEF i, b
    <3> QED BY <1>1, <2>1, <3>1, <3>2, Zenon DEF Served
  <2>2. CASE RequestOf(x, req'[x], meaning, Len(log)) /\ Served(req[x])' /\ req'[x].at = req[x].at
    BY <1>1, <2>2, Zenon
  <2> QED BY <2>1, <2>2, Zenon
<1>3. ASSUME NEW m \in Server PROVE ReadAtHome(m, exec[m])'
  <2>1. exec[m].kind = "read" => exec[m].id \in Reads /\ exec[m].id \in Requests /\ req[exec[m].id].at = m
    BY Zenon DEF QInv, ReadAtHome, Requests
  <2> QED BY <1>2, <2>1, Zenon DEF ReadAtHome
<1> QED BY <1>2, <1>3, Zenon DEF QInv

(* The request of a step, before it. *)
LEMMA ThisRequest ==
  ASSUME QInv, NEW r \in Requests
  PROVE  /\ RequestOf(r, req[r], meaning, Len(log)) /\ Served(req[r]) /\ IsRequest(req[r])
         /\ DOMAIN req = Requests
BY Zenon DEF QInv, RequestOf

(* A request is made. *)
LEMMA RequestMade ==
  ASSUME QInv, MInv, NEW n \in Server, NEW r \in Requests,
         \/ ProposeWrite(r, n) /\ r \in Writes
         \/ ProposeChange(r, n) /\ r \in Changes
         \/ AskRead(r, n) /\ r \in Reads
  PROVE  QInv'
<1> DEFINE o == req[r]
<1>0. /\ UNCHANGED <<logVars, vol, cons, exec>> /\ o.st = "new" /\ Len(log) \in Nat
  BY ThisMatch, Zenon DEF ProposeWrite, ProposeChange, AskRead
<1>1. IsRequest(o) /\ RequestOf(r, o, meaning, Len(log)) /\ DOMAIN req = Requests
  BY ThisRequest, Zenon
<1>2. CASE r \in Writes \cup Changes
  <2> DEFINE q == [o EXCEPT !.st = "wait", !.at = n]
  <2>1. req' = [req EXCEPT ![r] = q] /\ r \notin Reads
    BY <1>1, <1>2, NamesAreDistinct, Zenon DEF ProposeWrite, ProposeChange, AskRead
  <2>2. q = [st |-> "wait", at |-> n, floor |-> o.floor, index |-> o.index, res |-> o.res]
    BY <1>1, RequestStageAt, Zenon
  <2> HIDE DEF q
  <2>3. q.st = "wait" /\ q.at = n /\ q.floor = o.floor /\ q.res = o.res /\ IsRequest(q)
    BY <2>2, Zenon DEF IsRequest
  <2>4. RequestOf(r, q, meaning, Len(log)) /\ Served(q)
    BY <1>0, <1>1, <2>1, <2>3, Zenon DEF RequestOf, Served, WriteStages
  <2> QED BY <1>0, <2>1, <2>4, OneRequest, Zenon
<1>3. CASE r \in Reads
  <2> DEFINE L == Len(log)
  <2> DEFINE q == [o EXCEPT !.st = "asked", !.at = n, !.floor = L]
  <2>1. req' = [req EXCEPT ![r] = q]
    BY <1>1, <1>3, NamesAreDistinct, Zenon DEF ProposeWrite, ProposeChange, AskRead
  <2>2. q = [st |-> "asked", at |-> n, floor |-> L, index |-> o.index, res |-> o.res]
    <3> DEFINE m == [o EXCEPT !.st = "asked", !.at = n]
    <3>1. m = [st |-> "asked", at |-> n, floor |-> o.floor, index |-> o.index, res |-> o.res]
      BY <1>1, RequestStageAt, Zenon
    <3>2. q = [m EXCEPT !.floor = L]
      BY Zenon
    <3> HIDE DEF L, o, m, q
    <3> QED BY <3>1, <3>2, Zenon
  <2> HIDE DEF q
  <2>3. q.st = "asked" /\ q.at = n /\ q.floor = Len(log) /\ q.res = o.res /\ IsRequest(q)
    BY <2>2, Zenon DEF IsRequest
  <2>4. Len(log) \in 0..Len(log)
    BY <1>0
  <2>5. RequestOf(r, q, meaning, Len(log)) /\ Served(q)
    BY <1>3, <2>3, <2>4, Zenon DEF RequestOf, Served, ReadStages
  <2> QED BY <1>0, <2>1, <2>5, OneRequest, Zenon
<1> QED BY <1>2, <1>3, Zenon DEF Requests

(* A request advances, or its caller gives up. *)
LEMMA RequestAdvances ==
  ASSUME QInv, MInv, NEW r \in Requests,
         \/ SubmitRead(r) /\ r \in Reads
         \/ AnswerRead(r) /\ r \in Reads
         \/ Cancel(r)
  PROVE  QInv'
<1> DEFINE o == req[r]
<1>0. /\ UNCHANGED <<logVars, vol, cons>>
  BY Zenon DEF SubmitRead, AnswerRead, Cancel
<1>1. IsRequest(o) /\ RequestOf(r, o, meaning, Len(log)) /\ Served(o) /\ DOMAIN req = Requests
  BY ThisRequest, Zenon
<1>2. CASE AnswerRead(r) /\ r \in Reads
  <2> DEFINE q == [o EXCEPT !.st = "answered", !.index = Len(log)]
  <2>1. req' = [req EXCEPT ![r] = q] /\ o.st = "asked" /\ UNCHANGED exec
    BY <1>1, <1>2, Zenon DEF AnswerRead
  <2>2. q = [st |-> "answered", at |-> o.at, floor |-> o.floor, index |-> Len(log), res |-> o.res]
    BY <1>1, RequestStageIndex, Zenon
  <2> HIDE DEF q
  <2>3. q.st = "answered" /\ q.at = o.at /\ q.floor = o.floor /\ q.index = Len(log) /\ q.res = o.res /\ IsRequest(q)
    BY <2>2, Zenon DEF IsRequest
  <2>4. Len(log) \in o.floor..Len(log)
    <3> DEFINE f == o.floor
    <3>1. f \in 0..Len(log) /\ Len(log) \in Nat
      BY <1>1, <1>2, LogLength, Zenon DEF RequestOf, MInv
    <3> HIDE DEF f
    <3>2. Len(log) \in f..Len(log)
      BY <3>1
    <3> QED BY <3>2, Zenon DEF f
  <2>5. RequestOf(r, q, meaning, Len(log)) /\ Served(q)
    BY <1>1, <1>2, <2>1, <2>3, <2>4, Zenon DEF RequestOf, Served, ReadStages
  <2> QED BY <1>0, <2>1, <2>3, <2>5, OneRequest, Zenon
<1>3. CASE SubmitRead(r) /\ r \in Reads
  <2> DEFINE q == [o EXCEPT !.st = "reading"]
  <2>1. req' = [req EXCEPT ![r] = q] /\ o.st = "ready" /\ exec' = [exec EXCEPT ![o.at] = [kind |-> "read", id |-> r]]
    BY <1>1, <1>3, Zenon DEF SubmitRead
  <2>2. q = [st |-> "reading", at |-> o.at, floor |-> o.floor, index |-> o.index, res |-> o.res]
    BY <1>1, RequestStage, Zenon
  <2> HIDE DEF q
  <2>3. q.st = "reading" /\ q.at = o.at /\ q.floor = o.floor /\ q.index = o.index /\ q.res = o.res /\ IsRequest(q)
    BY <2>2, Zenon DEF IsRequest
  <2>4. RequestOf(r, q, meaning, Len(log)) /\ Served(q)
    BY <1>1, <1>3, <2>1, <2>3, Zenon DEF RequestOf, Served, ReadStages
  <2>5. \A n \in Server : \/ exec'[n] = exec[n]
                          \/ exec'[n].kind = "read" /\ exec'[n].id = r /\ r \in Reads /\ q.at = n
    BY <1>3, <2>1, <2>3, ThisMatch, Zenon
  <2> QED BY <1>0, <2>1, <2>3, <2>4, <2>5, OneRequest, Zenon
<1>4. CASE Cancel(r)
  <2> DEFINE q == [o EXCEPT !.st = "failed"]
  <2>1. req' = [req EXCEPT ![r] = q] /\ o.st # "new" /\ UNCHANGED exec
    BY <1>1, <1>4, Zenon DEF Cancel
  <2>2. q = [st |-> "failed", at |-> o.at, floor |-> o.floor, index |-> o.index, res |-> o.res]
    BY <1>1, RequestStage, Zenon
  <2> HIDE DEF q
  <2>3. q.st = "failed" /\ q.at = o.at /\ q.floor = o.floor /\ q.res = o.res /\ IsRequest(q)
    BY <2>2, Zenon DEF IsRequest
  <2>4. RequestOf(r, q, meaning, Len(log)) /\ Served(q)
    BY <1>1, <2>1, <2>3, Zenon DEF RequestOf, Served, ReadStages, WriteStages
  <2> QED BY <1>0, <2>1, <2>3, <2>4, OneRequest, Zenon
<1> QED BY <1>2, <1>3, <1>4, Zenon

(* What is true of a request stays true of a longer log. *)
LEMMA RequestGrows ==
  ASSUME NEW l, NEW t, NEW m, NEW u, Grows(l, t, m, u), NEW r, NEW q, RequestOf(r, q, t, Len(l))
  PROVE  RequestOf(r, q, u, Len(m))
<1> DEFINE f == q.floor
<1> DEFINE i == q.index
<1>1. Len(l) \in Nat /\ Len(m) \in Nat /\ Len(l) <= Len(m)
      /\ \A k \in 0..Len(l) : StateAfter(u, k) = StateAfter(t, k)
  BY Zenon DEF Grows
<1>2. CASE r \in Reads
  <2>1. f \in 0..Len(l)
    BY <1>2, Zenon DEF RequestOf
  <2>2. q.st \in {"answered", "carried", "indexed", "ready", "reading"} => i \in f..Len(l)
    BY <1>2, Zenon DEF RequestOf
  <2>3. q.st = "done" => \E k \in f..Len(l) : q.res = StateAfter(t, k)
    BY <1>2, Zenon DEF RequestOf
  <2> HIDE DEF f, i
  <2>4. f \in 0..Len(m) /\ \A k \in f..Len(l) : k \in 0..Len(l) /\ k \in f..Len(m)
    BY <1>1, <2>1
  <2>5. q.st \in {"answered", "carried", "indexed", "ready", "reading"} => i \in f..Len(m)
    BY <2>2, <2>4, Zenon
  <2>6. q.st = "done" => \E k \in f..Len(m) : q.res = StateAfter(u, k)
    BY <1>1, <2>3, <2>4, Zenon
  <2> QED BY <1>2, <2>4, <2>5, <2>6, Zenon DEF RequestOf, f, i
<1>3. CASE r \notin Reads
  BY <1>3, Zenon DEF RequestOf
<1> QED BY <1>2, <1>3, Zenon

(* The group commits an entry. *)
LEMMA CommitRequests ==
  ASSUME QInv, MInv, RInv, NEW e \in pending \cup {Empty}, Commit(e)
  PROVE  QInv'
<1>1. /\ log' = Append(log, e) /\ meaning' = Extended(meaning, Len(log), e)
      /\ UNCHANGED <<cons, vol, exec, req>>
  BY Zenon DEF Commit
<1>2. e \in Writes \cup Changes \cup {Empty}
  BY Zenon DEF RInv
<1>3. Grows(log, meaning, log', meaning')
  BY <1>1, <1>2, LogGrows, Zenon DEF MInv
<1>4. ASSUME NEW r \in Requests PROVE RequestOf(r, req'[r], meaning', Len(log')) /\ Served(req[r])'
  <2>1. RequestOf(r, req[r], meaning, Len(log)) /\ Served(req[r])
    BY Zenon DEF QInv
  <2>2. RequestOf(r, req[r], meaning', Len(log'))
    BY <1>3, <2>1, RequestGrows, Zenon
  <2> QED BY <1>1, <2>1, <2>2, Zenon DEF Served, Reached
<1>5. ASSUME NEW n \in Server PROVE ReadAtHome(n, exec[n])'
  BY <1>1, Zenon DEF QInv, ReadAtHome
<1> QED BY <1>1, <1>4, <1>5, Zenon DEF QInv

(* A read that processCommits executes returns the state of an index it     *)
(* waited for.                                                              *)
LEMMA ReadExecuted ==
  ASSUME QInv, MInv, NEW n \in Server, exec[n].kind = "read", req[exec[n].id].st = "reading"
  PROVE  /\ exec[n].id \in Reads /\ exec[n].id \in Requests
         /\ Reached(n) \in req[exec[n].id].floor..Len(log) /\ app[n] = StateAfter(meaning, Reached(n))
<1> DEFINE r == exec[n].id
<1> DEFINE o == req[r]
<1>1. r \in Reads /\ o.at = n /\ r \in Requests
  BY Zenon DEF QInv, ReadAtHome, Requests
<1>2. RequestOf(r, o, meaning, Len(log)) /\ Served(o)
  BY <1>1, ThisRequest, Zenon
<1> DEFINE i == o.index
<1> DEFINE f == o.floor
<1> DEFINE k == Reached(n)
<1>3. i \in f..Len(log) /\ f \in 0..Len(log) /\ i <= k
  BY <1>1, <1>2, Zenon DEF RequestOf, Served
<1>4. k \in 0..Len(log) /\ Len(log) \in Nat
  BY ReachedInLog, Zenon
<1> HIDE DEF i, f, k
<1>5. k \in f..Len(log)
  BY <1>3, <1>4
<1>6. app[n] = StateAfter(meaning, k)
  BY ThisMatch, Zenon DEF ExecMatches, Reached, k
<1> QED BY <1>1, <1>5, <1>6, Zenon DEF f, k

(* processCommits. *)
LEMMA ExecuteRequests ==
  ASSUME QInv, MInv, NEW n \in Server, Execute(n)
  PROVE  QInv'
<1>0. UNCHANGED <<logVars, vol, cons>> /\ exec' = [exec EXCEPT ![n] = Idle]
  BY Zenon DEF Execute, ExecuteRestore, ExecuteWrite, ExecuteRead
<1>1. \A m \in Server : exec'[m] = exec[m] \/ exec'[m].kind = "idle"
  BY <1>0, ThisMatch, Zenon DEF Idle
<1>2. CASE UNCHANGED req
  BY <1>0, <1>1, <1>2, NoRequest, Zenon
<1>3. CASE ExecuteRead(n) /\ req[exec[n].id].st = "reading"
  <2> DEFINE r == exec[n].id
  <2> DEFINE o == req[r]
  <2> DEFINE a == app[n]
  <2> DEFINE q == [o EXCEPT !.st = "done", !.res = a]
  <2>0. exec[n].kind = "read" /\ o.st = "reading"
    BY <1>3, Zenon DEF ExecuteRead
  <2>1. r \in Reads /\ r \in Requests /\ Reached(n) \in o.floor..Len(log) /\ app[n] = StateAfter(meaning, Reached(n))
    BY <2>0, ReadExecuted, Zenon
  <2>2. IsRequest(o) /\ RequestOf(r, o, meaning, Len(log)) /\ DOMAIN req = Requests
    BY <2>1, ThisRequest, Zenon
  <2>3. req' = [req EXCEPT ![r] = q]
    BY <1>3, <2>1, <2>2, Zenon DEF ExecuteRead
  <2>4. q = [st |-> "done", at |-> o.at, floor |-> o.floor, index |-> o.index, res |-> a]
    <3> HIDE DEF o, a
    <3> QED BY <2>2, RequestStageRes, Zenon
  <2> HIDE DEF q
  <2>5. q.st = "done" /\ q.at = o.at /\ q.floor = o.floor /\ q.res = app[n] /\ IsRequest(q)
    BY <2>4, Zenon DEF IsRequest
  <2>6. RequestOf(r, q, meaning, Len(log)) /\ Served(q)
    BY <2>0, <2>1, <2>2, <2>5, Zenon DEF RequestOf, Served, ReadStages
  <2> QED BY <1>0, <1>1, <2>1, <2>3, <2>5, <2>6, OneRequest, Zenon
<1> QED BY <1>2, <1>3, Zenon DEF Execute, ExecuteRestore, ExecuteWrite, ExecuteRead

(* The untracking goroutines. *)
LEMMA UntrackRequests ==
  ASSUME QInv, MInv, NEW n \in Server, Untrack(n)
  PROVE  QInv'
<1>1. PICK x \in results[n] :
        /\ UNCHANGED <<logVars, vol, cons, exec>>
        /\ req' = IF ~TrackedAt(x.id, n) THEN req
                  ELSE [req EXCEPT ![x.id].st = IF x.id \in Fails THEN "rejected" ELSE "done", ![x.id].res = x.res]
  BY Zenon DEF Untrack
<1>2. CASE ~TrackedAt(x.id, n)
  BY <1>1, <1>2, NoRequest, Zenon
<1>3. CASE TrackedAt(x.id, n)
  <2> DEFINE r == x.id
  <2> DEFINE o == req[r]
  <2> DEFINE a == x.res
  <2> DEFINE s == IF r \in Fails THEN "rejected" ELSE "done"
  <2> DEFINE q == [o EXCEPT !.st = s, !.res = a]
  <2>1. r \in Writes /\ r \in Requests /\ r \notin Reads /\ o.st = "wait"
    BY <1>3, ThisMatch, NamesAreDistinct, Zenon DEF ResultsMatch, Requests, TrackedAt
  <2>2. IsRequest(o) /\ RequestOf(r, o, meaning, Len(log)) /\ DOMAIN req = Requests
    BY <2>1, ThisRequest, Zenon
  <2>3. req' = [req EXCEPT ![r] = q]
    BY <1>1, <1>3, <2>1, <2>2, Zenon
  <2>4. s \in {"done", "rejected"}
    BY Zenon
  <2>5. q = [st |-> s, at |-> o.at, floor |-> o.floor, index |-> o.index, res |-> a]
    <3> HIDE DEF o, a, s
    <3> QED BY <2>2, RequestStageRes, Zenon
  <2> HIDE DEF q, s
  <2>6. q.st = s /\ q.at = o.at /\ q.floor = o.floor /\ IsRequest(q)
    BY <2>5, Zenon DEF IsRequest
  <2>7. RequestOf(r, q, meaning, Len(log)) /\ Served(q)
    BY <2>1, <2>2, <2>4, <2>6, Zenon DEF RequestOf, Served, WriteStages
  <2> QED BY <1>1, <2>1, <2>3, <2>6, <2>7, OneRequest, Zenon
<1> QED BY <1>2, <1>3, Zenon

(* A Ready takes the answers to reads along. *)
LEMMA ReceiveEntriesRequests ==
  ASSUME QInv, MInv, RInv, NEW n \in Server, Receive(n), NEW k, ReceiveEntries(n, k)
  PROVE  QInv'
<1>1. /\ UNCHANGED <<logVars, exec>>
      /\ req' = [r \in Requests |-> IF r \in AnsweredAt(n) THEN [req[r] EXCEPT !.st = "carried"] ELSE req[r]]
  BY Zenon DEF ReceiveEntries
<1>2. ASSUME NEW r \in Requests
      PROVE  \/ req'[r] = req[r]
             \/ /\ RequestOf(r, req'[r], meaning, Len(log)) /\ Served(req[r])'
                /\ req'[r].at = req[r].at
  <2>1. CASE r \in AnsweredAt(n)
    <3> DEFINE o == req[r]
    <3> DEFINE q == [o EXCEPT !.st = "carried"]
    <3>1. req'[r] = q /\ r \in Reads /\ o.st = "answered"
      BY <1>1, <2>1, Zenon DEF AnsweredAt
    <3>2. IsRequest(o) /\ RequestOf(r, o, meaning, Len(log))
      BY ThisRequest, Zenon
    <3>3. q = [st |-> "carried", at |-> o.at, floor |-> o.floor, index |-> o.index, res |-> o.res]
      BY <3>2, RequestStage, Zenon
    <3> HIDE DEF q
    <3>4. q.st = "carried" /\ q.at = o.at /\ q.floor = o.floor /\ q.index = o.index /\ q.res = o.res /\ IsRequest(q)
      BY <3>3, Zenon DEF IsRequest
    <3>5. RequestOf(r, q, meaning, Len(log))
      BY <3>1, <3>2, <3>4, Zenon DEF RequestOf, ReadStages
    <3> QED BY <3>1, <3>4, <3>5, Zenon DEF Served
  <2>2. CASE r \notin AnsweredAt(n)
    BY <1>1, <2>2, Zenon
  <2> QED BY <2>1, <2>2, Zenon
<1>3. DOMAIN req' = Requests
  BY <1>1, Zenon
<1> QED BY <1>1, <1>2, <1>3, ConsumerRequests, Zenon

(* A membership change answers its request. *)
LEMMA PublishChangeRequests ==
  ASSUME QInv, MInv, RInv, NEW n \in Server, PublishChange(n)
  PROVE  QInv'
<1> DEFINE r == log[cons[n].next]
<1>0. Consume(n) /\ UNCHANGED <<logVars, exec>> /\ r \in Changes
  BY Zenon DEF PublishChange, Consume
<1>1. PICK s \in {"done", "rejected"} :
        req' = IF ~TrackedAt(r, n) THEN req ELSE [req EXCEPT ![r].st = s]
  BY Zenon DEF PublishChange
<1> HIDE DEF r
<1>2. r \in Requests /\ r \notin Reads
  BY <1>0, NamesAreDistinct, Zenon DEF Requests
<1>3. CASE ~TrackedAt(r, n)
  <2>1. req' = req /\ DOMAIN req' = Requests
    BY <1>1, <1>2, <1>3, ThisRequest, Zenon
  <2> QED BY <1>0, <2>1, ConsumerRequests, Zenon
<1>4. CASE TrackedAt(r, n)
  <2> DEFINE o == req[r]
  <2> DEFINE q == [o EXCEPT !.st = s]
  <2>1. o.st = "wait" /\ IsRequest(o) /\ RequestOf(r, o, meaning, Len(log)) /\ DOMAIN req = Requests
    BY <1>2, <1>4, ThisRequest, Zenon DEF TrackedAt
  <2>2. req'[r] = q /\ DOMAIN req' = Requests /\ \A x \in Requests \ {r} : req'[x] = req[x]
    BY <1>1, <1>2, <1>4, <2>1, Zenon
  <2>3. q = [st |-> s, at |-> o.at, floor |-> o.floor, index |-> o.index, res |-> o.res]
    BY <2>1, RequestStage, Zenon
  <2> HIDE DEF q
  <2>4. q.st = s /\ q.at = o.at /\ q.floor = o.floor /\ IsRequest(q)
    BY <2>3, Zenon DEF IsRequest
  <2>5. RequestOf(r, q, meaning, Len(log))
    BY <1>2, <2>1, <2>4, Zenon DEF RequestOf, WriteStages
  <2>6. \A x \in Requests : \/ req'[x] = req[x]
                            \/ /\ RequestOf(x, req'[x], meaning, Len(log)) /\ Served(req[x])'
                               /\ req'[x].at = req[x].at
    BY <2>2, <2>4, <2>5, Zenon DEF Served
  <2> QED BY <1>0, <2>2, <2>6, ConsumerRequests, Zenon
<1> QED BY <1>3, <1>4, Zenon

(* Reads are released when their index is applied. *)
LEMMA ReleaseReadsRequests ==
  ASSUME QInv, MInv, RInv, NEW n \in Server, ReleaseReads(n)
  PROVE  QInv'
<1> DEFINE a == vol[n].applied
<1>0. /\ Consume(n) /\ UNCHANGED <<logVars, exec, vol>> /\ cons' = [cons EXCEPT ![n] = Waiting]
      /\ req' = [r \in Requests |-> Released(r, n, a)]
  BY Zenon DEF ReleaseReads, Consume
<1>1. Reached(n)' = a
  <2>1. cons'[n] = Waiting /\ vol'[n] = vol[n]
    BY <1>0, ThisServer, Zenon
  <2>2. cons'[n].pc = "idle"
    BY <2>1 DEF Waiting
  <2> QED BY <2>1, <2>2, Zenon DEF Reached, Done
<1>2. ASSUME NEW r \in Requests
      PROVE  \/ req'[r] = req[r]
             \/ /\ RequestOf(r, req'[r], meaning, Len(log)) /\ Served(req[r])'
                /\ req'[r].at = req[r].at
  <2> DEFINE o == req[r]
  <2> DEFINE s == IF o.index <= a THEN "ready" ELSE "indexed"
  <2> DEFINE q == [o EXCEPT !.st = s]
  <2>1. CASE req'[r] = o
    BY <2>1, Zenon
  <2>2. CASE req'[r] = q /\ o.at = n /\ o.st \in {"indexed", "carried"}
    <3>1. IsRequest(o) /\ RequestOf(r, o, meaning, Len(log))
      BY ThisRequest, Zenon
    <3>2. r \in Reads
      BY <2>2, <3>1, Zenon DEF RequestOf, WriteStages
    <3>3. s \in {"ready", "indexed"} /\ (s = "ready" => o.index <= a)
      BY Zenon
    <3>4. q = [st |-> s, at |-> o.at, floor |-> o.floor, index |-> o.index, res |-> o.res]
      <4> HIDE DEF s
      <4> QED BY <3>1, RequestStage, Zenon
    <3> HIDE DEF q, s
    <3>5. q.st = s /\ q.at = o.at /\ q.floor = o.floor /\ q.index = o.index /\ q.res = o.res /\ IsRequest(q)
      BY <3>4, Zenon DEF IsRequest
    <3>6. RequestOf(r, q, meaning, Len(log))
      BY <2>2, <3>1, <3>2, <3>3, <3>5, Zenon DEF RequestOf, ReadStages
    <3>7. Served(req[r])'
      BY <1>1, <2>2, <3>3, <3>5, Zenon DEF Served
    <3> QED BY <2>2, <3>5, <3>6, <3>7, Zenon
  <2>3. req'[r] = Released(r, n, a)
    BY <1>0, Zenon
  <2> QED BY <2>1, <2>2, <2>3, Zenon DEF Released
<1>3. DOMAIN req' = Requests
  BY <1>0, Zenon
<1> QED BY <1>0, <1>2, <1>3, ConsumerRequests, Zenon

(* The requests of a server end with its process. *)
LEMMA RestartRequests ==
  ASSUME QInv, MInv, RInv, NEW n \in Server, Restart(n)
  PROVE  QInv'
<1> DEFINE s == LoadSnapshot(disk[n])
<1>1. /\ cons' = [cons EXCEPT ![n] = Waiting] /\ vol' = [vol EXCEPT ![n] = Recovered(s)]
      /\ exec' = [exec EXCEPT ![n] = IF s.index = 0 THEN Idle ELSE [kind |-> "restore", app |-> s.app]]
      /\ req' = [r \in Requests |->
                   IF req[r].at = n /\ req[r].st \notin {"done", "rejected"}
                   THEN [req[r] EXCEPT !.st = "failed"] ELSE req[r]]
      /\ log' = log /\ meaning' = meaning
  BY Zenon DEF Restart, logVars
<1>2. \A m \in Server \ {n} : Reached(m)' = Reached(m) /\ exec'[m] = exec[m]
  BY <1>1, ThisServer, ThisMatch, Zenon DEF Reached
<1>3. exec'[n].kind # "read"
  <2>1. exec'[n] = Idle \/ exec'[n] = [kind |-> "restore", app |-> s.app]
    BY <1>1, ThisMatch, Zenon
  <2> QED BY <2>1 DEF Idle
<1>4. ASSUME NEW r \in Requests
      PROVE  RequestOf(r, req'[r], meaning, Len(log)) /\ Served(req[r])' /\ req'[r].at = req[r].at
  <2> DEFINE o == req[r]
  <2> DEFINE q == [o EXCEPT !.st = "failed"]
  <2>0. RequestOf(r, o, meaning, Len(log)) /\ IsRequest(o) /\ Served(o)
    BY ThisRequest, Zenon
  <2>1. CASE o.at = n /\ o.st \notin {"done", "rejected"}
    <3>1. req'[r] = q
      BY <1>1, <2>1, Zenon
    <3>2. q = [st |-> "failed", at |-> o.at, floor |-> o.floor, index |-> o.index, res |-> o.res]
      BY <2>0, RequestStage, Zenon
    <3> HIDE DEF q
    <3>3. q.st = "failed" /\ q.at = o.at /\ q.floor = o.floor /\ q.res = o.res /\ IsRequest(q)
      BY <3>2, Zenon DEF IsRequest
    <3>4. RequestOf(r, q, meaning, Len(log))
      BY <2>0, <2>1, <3>3, NamesAreDistinct, Zenon DEF RequestOf, ReadStages, WriteStages
    <3> QED BY <3>1, <3>3, <3>4, Zenon DEF Served
  <2>2. CASE ~(o.at = n /\ o.st \notin {"done", "rejected"})
    <3>1. req'[r] = o
      BY <1>1, <2>2, Zenon
    <3>2. ASSUME o.st \in {"ready", "reading"} PROVE o.index <= Reached(o.at)'
      <4>1. o.at \in Server \ {n}
        BY <2>0, <2>2, <3>2, Zenon DEF RequestOf
      <4>2. PICK m \in Server \ {n} : m = o.at
        BY <4>1, Zenon
      <4>3. o.index <= Reached(m) /\ Reached(m)' = Reached(m)
        BY <1>2, <2>0, <3>2, <4>2, Zenon DEF Served
      <4> QED BY <3>1, <4>2, <4>3, Zenon
    <3> QED BY <2>0, <3>1, <3>2, Zenon DEF Served
  <2> QED BY <2>1, <2>2, Zenon
<1>5. ASSUME NEW m \in Server PROVE ReadAtHome(m, exec[m])'
  <2>1. CASE m = n
    BY <1>3, <2>1, Zenon DEF ReadAtHome
  <2>2. CASE m # n
    <3>1. exec'[m] = exec[m]
      BY <1>2, <2>2, Zenon
    <3>2. exec[m].kind = "read" => exec[m].id \in Reads /\ exec[m].id \in Requests /\ req[exec[m].id].at = m
      BY Zenon DEF QInv, ReadAtHome, Requests
    <3> QED BY <1>4, <3>1, <3>2, Zenon DEF ReadAtHome
  <2> QED BY <2>1, <2>2, Zenon
<1>6. DOMAIN req' = Requests
  BY <1>1, Zenon
<1> QED BY <1>1, <1>4, <1>5, <1>6, Zenon DEF QInv

(* At the start no request is made. *)
LEMMA InitRequests == Init => QInv
<1> SUFFICES ASSUME Init PROVE QInv
  BY Zenon
<1> DEFINE q == [st |-> "new", at |-> None, floor |-> 0, index |-> 0, res |-> None]
<1>1. req = [r \in Requests |-> q] /\ exec = [n \in Server |-> Idle]
  BY Zenon DEF Init, q
<1>2. q.st = "new" /\ q.at = None /\ q.floor = 0 /\ q.res = None /\ IsRequest(q)
  BY Zenon DEF IsRequest
<1>3. 0 \in 0..Len(log)
  BY InitMatches, LogLength, Zenon DEF MInv
<1> HIDE DEF q
<1>4. \A r \in Requests : RequestOf(r, q, meaning, Len(log)) /\ Served(q)
  BY <1>2, <1>3, Zenon DEF RequestOf, Served, ReadStages, WriteStages
<1>5. \A n \in Server : ReadAtHome(n, exec[n])
  BY <1>1, Zenon DEF ReadAtHome, Idle
<1> QED BY <1>1, <1>4, <1>5, Zenon DEF QInv

(* Every step keeps what is true of the requests. *)
LEMMA StepRequests == RInv /\ MInv /\ QInv /\ [Next]_vars => QInv'
<1> SUFFICES ASSUME RInv, MInv, QInv, [Next]_vars PROVE QInv'
  BY Zenon
<1>1. CASE UNCHANGED vars
  BY <1>1, NoRequest, Zenon DEF vars
<1>2. ASSUME NEW n \in Server, NEW w \in Writes, ProposeWrite(w, n) PROVE QInv'
  BY <1>2, RequestMade, Zenon DEF Requests
<1>3. ASSUME NEW n \in Server, NEW c \in Changes, ProposeChange(c, n) PROVE QInv'
  BY <1>3, RequestMade, Zenon DEF Requests
<1>4. ASSUME NEW n \in Server, NEW r \in Reads, AskRead(r, n) PROVE QInv'
  BY <1>4, RequestMade, Zenon DEF Requests
<1>5. ASSUME NEW r \in Reads, SubmitRead(r) \/ AnswerRead(r) PROVE QInv'
  BY <1>5, RequestAdvances, Zenon DEF Requests
<1>6. ASSUME NEW r \in Requests, Cancel(r) PROVE QInv'
  BY <1>6, RequestAdvances, Zenon
<1>7. CASE Client
  BY <1>2, <1>3, <1>4, <1>5, <1>6, <1>7, Zenon DEF Client
<1>8. CASE Library
  BY <1>5, <1>8, CommitRequests, Zenon DEF Library
<1>9. ASSUME NEW n \in Server, Receive(n) PROVE QInv'
  <2>1. ASSUME NEW m \in Server, ReceiveSnapshot(n, m) PROVE QInv'
    <3>1. UNCHANGED <<logVars, exec, req>>
      BY <2>1, Zenon DEF ReceiveSnapshot
    <3>2. DOMAIN req' = Requests
      BY <3>1, Zenon DEF QInv
    <3> QED BY <1>9, <3>1, <3>2, ConsumerRequests, Zenon
  <2> QED BY <1>9, <2>1, ReceiveEntriesRequests, Zenon DEF Receive
<1>10. ASSUME NEW n \in Server, Consume(n), UNCHANGED req PROVE QInv'
  <2>1. UNCHANGED logVars
    BY <1>10, Zenon DEF Consume, RecordSnapshot, SaveState, HandOffSnapshot, PublishWrite, PublishEmpty, PublishChange,
       FinishBatch, CompactLog, ReleaseReads
  <2>2. \A m \in Server : exec'[m] = exec[m] \/ exec'[m].kind # "read"
    <3>1. \/ UNCHANGED exec
          \/ exec' = [exec EXCEPT ![n] = [kind |-> "restore", app |-> cons[n].snap.app]]
          \/ exec' = [exec EXCEPT ![n] = [kind |-> "entry", id |-> log[cons[n].next]]]
      BY <1>10, Zenon DEF Consume, RecordSnapshot, SaveState, HandOffSnapshot, PublishWrite, PublishEmpty, PublishChange,
         FinishBatch, CompactLog, ReleaseReads
    <3> DEFINE S == [kind |-> "restore", app |-> cons[n].snap.app]
               E == [kind |-> "entry", id |-> log[cons[n].next]]
    <3>2. S.kind # "read" /\ E.kind # "read"
      BY Zenon
    <3>3. DOMAIN exec = Server
      BY ThisMatch, Zenon
    <3> HIDE DEF S, E
    <3>4. \/ UNCHANGED exec
          \/ exec' = [exec EXCEPT ![n] = S] \/ exec' = [exec EXCEPT ![n] = E]
      BY <3>1, Zenon DEF S, E
    <3> QED BY <3>2, <3>3, <3>4, Zenon
  <2>3. DOMAIN req' = Requests
    BY <1>10, Zenon DEF QInv
  <2> QED BY <1>10, <2>1, <2>2, <2>3, ConsumerRequests, Zenon
<1>11. ASSUME NEW n \in Server, Consume(n) PROVE QInv'
  <2>1. UNCHANGED req \/ PublishChange(n) \/ ReleaseReads(n)
    BY <1>11, Zenon DEF Consume, RecordSnapshot, SaveState, HandOffSnapshot, PublishWrite, PublishEmpty,
       FinishBatch, CompactLog
  <2> QED BY <1>10, <1>11, <2>1, PublishChangeRequests, ReleaseReadsRequests, Zenon
<1>12. ASSUME NEW n \in Server, Execute(n) \/ Untrack(n) \/ Restart(n) PROVE QInv'
  BY <1>12, ExecuteRequests, UntrackRequests, RestartRequests, Zenon
<1>13. ASSUME NEW n \in Server, NEW m \in Server, RefusedByPeer(n, m) PROVE QInv'
  BY <1>13, NoRequest, Zenon DEF RefusedByPeer
<1> QED BY <1>1, <1>7, <1>8, <1>9, <1>11, <1>12, <1>13, Zenon DEF Next

(* HandleReadRequest is linearizable: a read returns a state no older than   *)
(* what was committed when the request arrived, although the answer to it,  *)
(* the entries it waits for and its execution come in steps of three        *)
(* goroutines between which servers restore snapshots and crash.            *)
THEOREM ReadsAreLinearizable == Spec /\ []BurstsAreShort => []LinearizableReads
<1>1. QInv => LinearizableReads
  <2> SUFFICES ASSUME QInv, NEW r \in Reads, req[r].st = "done"
               PROVE  \E k \in req[r].floor..Len(log) : req[r].res = Effects(k)
    BY Zenon DEF LinearizableReads
  <2>1. RequestOf(r, req[r], meaning, Len(log))
    BY Zenon DEF QInv, Requests
  <2> QED BY <2>1, Zenon DEF RequestOf, Effects
<1> QED BY <1>1, ServersMatchLog, InitRequests, StepRequests, PTL DEF Spec

-----------------------------------------------------------------------------
\* Each proposal takes one place in the log.

\* the stage of a proposal, where a step changes it
Moves(x) ==
  \/ req'[x].st = req[x].st
  \/ /\ req[x].st # "new" /\ req'[x].st # "new"
     /\ x \in pending => req'[x].st \in {"wait", "failed"}

(* The proposals and the log as the servers' steps find them. *)
LEMMA TheseProposals ==
  ASSUME RInv
  PROVE  /\ pending \subseteq Writes \cup Changes /\ Len(log) \in Nat
         /\ log \in Seq(Writes \cup Changes \cup {Empty})
         /\ \A i \in 1..Len(log) : log[i] \in Writes \cup Changes \cup {Empty}
BY DEF RInv

(* A step that proposes and commits nothing. *)
LEMMA ProposalsKept ==
  ASSUME RInv, PInv, UNCHANGED <<logVars, pending>>, \A x \in Writes \cup Changes : Moves(x)
  PROVE  PInv'
<1>1. log' = log /\ meaning' = meaning /\ pending' = pending
  BY Zenon DEF logVars
<1>2. ASSUME NEW x \in pending
      PROVE  req'[x].st \in {"wait", "failed"} /\ \A i \in 1..Len(log) : log[i] # x
  BY TheseProposals, Zenon DEF PInv, Moves
<1>3. ASSUME NEW i \in 1..Len(log), log[i] # Empty PROVE req'[log[i]].st # "new"
  <2>1. log[i] \in Writes \cup Changes /\ req[log[i]].st # "new"
    BY <1>3, TheseProposals, Zenon DEF PInv
  <2> QED BY <2>1, Zenon DEF Moves
<1> QED BY <1>1, <1>2, <1>3, Zenon DEF PInv

(* A proposal is handed to the library. *)
LEMMA ProposalMade ==
  ASSUME RInv, PInv, QInv, NEW r \in Writes \cup Changes, NEW n \in Server, ProposeWrite(r, n) \/ ProposeChange(r, n)
  PROVE  PInv'
<1>1. /\ log' = log /\ meaning' = meaning /\ pending' = pending \cup {r} /\ req[r].st = "new"
      /\ req' = [req EXCEPT ![r].st = "wait", ![r].at = n]
  BY Zenon DEF ProposeWrite, ProposeChange, logVars
<1> DEFINE o == req[r]
<1> DEFINE q == [o EXCEPT !.st = "wait", !.at = n]
<1>2. r \in Requests /\ DOMAIN req = Requests /\ IsRequest(o) /\ r # Empty
  BY ThisRequest, NamesAreDistinct, Zenon DEF Requests
<1>3. q = [st |-> "wait", at |-> n, floor |-> o.floor, index |-> o.index, res |-> o.res]
  BY <1>2, RequestStageAt, Zenon
<1>4. req'[r] = q /\ \A x \in Requests \ {r} : req'[x] = req[x]
  BY <1>1, <1>2, Zenon
<1> HIDE DEF q, o
<1>5. req'[r].st = "wait"
  BY <1>3, <1>4
<1>6. \A i \in 1..Len(log) : log[i] # r
  BY <1>1, <1>2, Zenon DEF PInv
<1>7. ASSUME NEW x \in pending \cup {r}
      PROVE  req'[x].st \in {"wait", "failed"} /\ \A i \in 1..Len(log) : log[i] # x
  <2>1. CASE x = r
    BY <2>1, <1>5, <1>6, Zenon
  <2>2. CASE x # r
    BY <2>2, <1>4, TheseProposals, Zenon DEF PInv, Requests
  <2> QED BY <2>1, <2>2, Zenon
<1>8. ASSUME NEW i \in 1..Len(log), log[i] # Empty PROVE req'[log[i]].st # "new"
  <2>1. log[i] \in Requests \ {r} /\ req[log[i]].st # "new"
    BY <1>6, <1>8, TheseProposals, Zenon DEF PInv, Requests
  <2> QED BY <1>4, <2>1, Zenon
<1>9. \A x \in pending' : req'[x].st \in {"wait", "failed"} /\ \A i \in 1..Len(log') : log'[i] # x
  BY <1>1, <1>7, Zenon
<1>10. \A i \in 1..Len(log') : log'[i] # Empty => req'[log'[i]].st # "new"
  BY <1>1, <1>8, Zenon
<1>11. /\ \A i, j \in 1..Len(log) : log[i] = log[j] => i = j \/ log[i] = Empty
       /\ \A k \in 1..Len(meaning.writes) : \E i \in 1..Len(log) : log[i] = meaning.writes[k]
  BY Zenon DEF PInv
<1> QED BY <1>1, <1>9, <1>10, <1>11, Zenon DEF PInv

(* A proposal takes its place. *)
LEMMA ProposalCommitted ==
  ASSUME RInv, PInv, MInv, NEW e \in pending \cup {Empty}, Commit(e)
  PROVE  PInv'
<1> DEFINE L == Len(log)
<1> DEFINE W == meaning.writes
<1>1. /\ e \in pending \/ e = Empty
      /\ log' = Append(log, e) /\ meaning' = Extended(meaning, Len(log), e) /\ pending' = pending \ {e} /\ req' = req
  BY Zenon DEF Commit
<1>2. L \in Nat /\ Len(log') = L + 1 /\ log'[L + 1] = e /\ \A i \in 1..L : log'[i] = log[i]
  BY <1>1, TheseProposals
<1>3. meaning'.writes = IF e \in Writes THEN Append(W, e) ELSE W
  BY <1>1, Zenon DEF Extended
<1>4. W \in Seq(Writes)
  BY Zenon DEF MInv, LogMeans
<1>5. e # Empty => req[e].st # "new" /\ \A i \in 1..L : log[i] # e
  BY <1>1, Zenon DEF PInv
<1> HIDE DEF L, W
<1>6. \A i \in 1..L + 1 : i \in 1..L \/ i = L + 1
  BY <1>2
<1>7. \A x \in pending' : req'[x].st \in {"wait", "failed"} /\ \A i \in 1..L + 1 : log'[i] # x
  <2> SUFFICES ASSUME NEW x \in pending, x # e
               PROVE  req[x].st \in {"wait", "failed"} /\ \A i \in 1..L + 1 : log'[i] # x
    BY <1>1, Zenon
  <2>1. req[x].st \in {"wait", "failed"} /\ \A i \in 1..L : log[i] # x
    BY Zenon DEF PInv, L
  <2> QED BY <1>2, <1>6, <2>1, Zenon
<1>8. \A i \in 1..L + 1 : log'[i] # Empty => req'[log'[i]].st # "new"
  <2>1. \A i \in 1..L : log[i] # Empty => req[log[i]].st # "new"
    BY Zenon DEF PInv, L
  <2> QED BY <1>1, <1>2, <1>5, <1>6, <2>1, Zenon
<1>9. \A i, j \in 1..L + 1 : log'[i] = log'[j] => i = j \/ log'[i] = Empty
  <2>1. \A i, j \in 1..L : log[i] = log[j] => i = j \/ log[i] = Empty
    BY Zenon DEF PInv, L
  <2> QED BY <1>2, <1>5, <1>6, <2>1
<1>10. \A k \in 1..Len(meaning'.writes) : \E i \in 1..L + 1 : log'[i] = meaning'.writes[k]
  <2>1. \A k \in 1..Len(W) : \E i \in 1..L : log[i] = W[k]
    BY Zenon DEF PInv, L, W
  <2>2. \A k \in 1..Len(W) : \E i \in 1..L + 1 : log'[i] = W[k]
    BY <1>2, <2>1
  <2>3. CASE e \in Writes
    <3> SUFFICES ASSUME NEW k \in 1..Len(Append(W, e)) PROVE \E i \in 1..L + 1 : log'[i] = Append(W, e)[k]
      BY <1>3, <2>3, Zenon
    <3>1. Len(W) \in Nat /\ Len(Append(W, e)) = Len(W) + 1
      BY <1>4
    <3>2. CASE k = Len(W) + 1
      <4>1. Append(W, e)[k] = e
        BY <1>4, <3>2
      <4>2. L + 1 \in 1..L + 1
        BY <1>2
      <4> QED BY <1>2, <4>1, <4>2, Zenon
    <3>3. CASE k # Len(W) + 1
      <4>1. k \in 1..Len(W)
        BY <3>1, <3>3
      <4>2. Append(W, e)[k] = W[k]
        BY <1>4, <4>1
      <4> QED BY <2>2, <4>1, <4>2, Zenon
    <3> QED BY <3>2, <3>3, Zenon
  <2>4. CASE e \notin Writes
    BY <1>3, <2>2, <2>4, Zenon
  <2> QED BY <2>3, <2>4, Zenon
<1> QED BY <1>2, <1>7, <1>8, <1>9, <1>10, Zenon DEF PInv

(* A step that moves one request. *)
LEMMA OneMoves ==
  ASSUME QInv, NEW r \in Requests, NEW q, req' = [req EXCEPT ![r] = q],
         r \in Writes \cup Changes => /\ req[r].st # "new" /\ q.st # "new"
                                      /\ r \in pending => q.st \in {"wait", "failed"}
  PROVE  \A x \in Writes \cup Changes : Moves(x)
<1> SUFFICES ASSUME NEW x \in Writes \cup Changes PROVE Moves(x)
  BY Zenon
<1>1. DOMAIN req = Requests /\ x \in Requests
  BY ThisRequest, Zenon DEF Requests
<1>2. CASE x = r
  BY <1>1, <1>2, Zenon DEF Moves
<1>3. CASE x # r
  BY <1>1, <1>3, Zenon DEF Moves
<1> QED BY <1>2, <1>3, Zenon

(* A step of the clients or the library that is no proposal and no commit. *)
LEMMA ClientMoves ==
  ASSUME QInv, PInv, RInv, NEW r \in Requests, NEW n \in Server,
         \/ r \in Reads /\ (AskRead(r, n) \/ SubmitRead(r) \/ AnswerRead(r))
         \/ Cancel(r)
  PROVE  PInv'
<1> DEFINE o == req[r]
<1>0. UNCHANGED <<logVars, pending>>
  BY Zenon DEF AskRead, SubmitRead, AnswerRead, Cancel
<1>1. DOMAIN req = Requests /\ IsRequest(o)
  BY ThisRequest, Zenon
<1>2. ASSUME r \in Reads, NEW q, req' = [req EXCEPT ![r] = q] PROVE PInv'
  <2>1. r \notin Writes \cup Changes
    BY <1>2, NamesAreDistinct, Zenon
  <2>2. \A x \in Writes \cup Changes : Moves(x)
    BY <1>2, <2>1, OneMoves, Zenon
  <2> QED BY <1>0, <2>2, ProposalsKept, Zenon
<1>3. CASE AskRead(r, n) /\ r \in Reads
  <2>1. req' = [req EXCEPT ![r] = [o EXCEPT !.st = "asked", !.at = n, !.floor = Len(log)]]
    BY <1>1, <1>3, Zenon DEF AskRead
  <2> QED BY <1>2, <1>3, <2>1, Zenon
<1>4. CASE SubmitRead(r) /\ r \in Reads
  <2>1. req' = [req EXCEPT ![r] = [o EXCEPT !.st = "reading"]]
    BY <1>1, <1>4, Zenon DEF SubmitRead
  <2> QED BY <1>2, <1>4, <2>1, Zenon
<1>5. CASE AnswerRead(r) /\ r \in Reads
  <2>1. req' = [req EXCEPT ![r] = [o EXCEPT !.st = "answered", !.index = Len(log)]]
    BY <1>1, <1>5, Zenon DEF AnswerRead
  <2> QED BY <1>2, <1>5, <2>1, Zenon
<1>6. CASE Cancel(r)
  <2> DEFINE q == [o EXCEPT !.st = "failed"]
  <2>1. req' = [req EXCEPT ![r] = q] /\ o.st # "new"
    BY <1>1, <1>6, Zenon DEF Cancel
  <2>2. q = [st |-> "failed", at |-> o.at, floor |-> o.floor, index |-> o.index, res |-> o.res]
    BY <1>1, RequestStage, Zenon
  <2>3. q.st = "failed"
    BY <2>2, Zenon
  <2> HIDE DEF q
  <2>4. \A x \in Writes \cup Changes : Moves(x)
    BY <2>1, <2>3, OneMoves, Zenon
  <2> QED BY <1>0, <2>4, ProposalsKept, Zenon
<1> QED BY <1>3, <1>4, <1>5, <1>6, Zenon

(* A Ready takes only reads along. *)
LEMMA ReceiveMoves ==
  ASSUME QInv, PInv, RInv, NEW n \in Server, Receive(n)
  PROVE  PInv'
<1>0. UNCHANGED <<logVars, pending>>
  BY Zenon DEF Receive, ReceiveEntries, ReceiveSnapshot
<1>1. \/ UNCHANGED req
      \/ req' = [r \in Requests |-> IF r \in AnsweredAt(n) THEN [req[r] EXCEPT !.st = "carried"] ELSE req[r]]
  BY Zenon DEF Receive, ReceiveEntries, ReceiveSnapshot
<1>2. ASSUME NEW x \in Writes \cup Changes PROVE Moves(x)
  <2>1. x \in Requests /\ x \notin AnsweredAt(n)
    BY NamesAreDistinct, Zenon DEF Requests, AnsweredAt
  <2>2. req'[x] = req[x]
    BY <1>1, <2>1, Zenon
  <2> QED BY <2>2, Zenon DEF Moves
<1> QED BY <1>0, <1>2, ProposalsKept, Zenon

(* The index a consumer publishes next is one of the log. *)
LEMMA PublishedIsCommitted ==
  ASSUME MInv, NEW n \in Server, cons[n].pc = "publish", cons[n].next <= cons[n].upto
  PROVE  cons[n].next \in 1..Len(log)
<1> DEFINE x == cons[n].next
<1> DEFINE u == cons[n].upto
<1> DEFINE a == vol[n].applied
<1>1. x \in Nat /\ a < x /\ x <= u /\ u \in 0..Len(log) /\ a \in 0..Len(log) /\ Len(log) \in Nat
  BY ThisMatch, Zenon DEF ConsMatches, VolMatches
<1> HIDE DEF x, u, a
<1>2. x \in 1..Len(log)
  BY <1>1
<1> QED BY <1>2, Zenon DEF x

(* A consumer answers a change that is in the log. *)
LEMMA ConsumeMoves ==
  ASSUME QInv, PInv, MInv, RInv, NEW n \in Server, Consume(n)
  PROVE  PInv'
<1>0. UNCHANGED <<logVars, pending>>
  BY Zenon DEF Consume, RecordSnapshot, SaveState, HandOffSnapshot, PublishWrite, PublishEmpty, PublishChange, FinishBatch,
     CompactLog, ReleaseReads
<1>1. CASE UNCHANGED req
  <2>1. \A x \in Writes \cup Changes : Moves(x)
    BY <1>1, Zenon DEF Moves
  <2> QED BY <1>0, <2>1, ProposalsKept, Zenon
<1>2. CASE PublishChange(n)
  <2> DEFINE r == log[cons[n].next]
  <2>1. r \in Changes /\ cons[n].pc = "publish" /\ cons[n].next <= cons[n].upto
    BY <1>2, Zenon DEF PublishChange
  <2>2. r \notin pending
    BY <2>1, PublishedIsCommitted, Zenon DEF PInv
  <2>3. PICK s \in {"done", "rejected"} :
          req' = IF ~TrackedAt(r, n) THEN req ELSE [req EXCEPT ![r].st = s]
    BY <1>2, Zenon DEF PublishChange
  <2> HIDE DEF r
  <2>4. CASE TrackedAt(r, n)
    <3> DEFINE o == req[r]
    <3> DEFINE q == [o EXCEPT !.st = s]
    <3>1. r \in Requests /\ DOMAIN req = Requests /\ IsRequest(o) /\ o.st = "wait"
      BY <2>1, <2>4, ThisRequest, Zenon DEF Requests, TrackedAt
    <3>2. req' = [req EXCEPT ![r] = q]
      BY <2>3, <2>4, <3>1, Zenon
    <3>3. q = [st |-> s, at |-> o.at, floor |-> o.floor, index |-> o.index, res |-> o.res]
      BY <3>1, RequestStage, Zenon
    <3>4. q.st = s
      BY <3>3, Zenon
    <3> HIDE DEF q
    <3>5. \A x \in Writes \cup Changes : Moves(x)
      BY <2>2, <3>1, <3>2, <3>4, OneMoves, Zenon
    <3> QED BY <1>0, <3>5, ProposalsKept, Zenon
  <2> QED BY <1>1, <2>3, <2>4, Zenon
<1>3. CASE ReleaseReads(n)
  <2>1. ASSUME NEW x \in Writes \cup Changes PROVE Moves(x)
    <3>1. x \in Requests /\ x \notin Reads
      BY NamesAreDistinct, Zenon DEF Requests
    <3>2. req[x].st \in WriteStages
      BY <3>1, ThisRequest, Zenon DEF RequestOf
    <3>3. req'[x] = Released(x, n, vol[n].applied)
      BY <1>3, <3>1, Zenon DEF ReleaseReads
    <3>4. req'[x] = req[x]
      BY <3>2, <3>3, Zenon DEF Released, WriteStages
    <3> QED BY <3>4, Zenon DEF Moves
  <2> QED BY <1>0, <2>1, ProposalsKept, Zenon
<1> QED BY <1>1, <1>2, <1>3, Zenon DEF Consume, RecordSnapshot, SaveState, HandOffSnapshot, PublishWrite, PublishEmpty,
           FinishBatch, CompactLog

(* processCommits answers reads only. *)
LEMMA ExecuteMoves ==
  ASSUME QInv, PInv, MInv, RInv, NEW n \in Server, Execute(n)
  PROVE  PInv'
<1>0. UNCHANGED <<logVars, pending>>
  BY Zenon DEF Execute, ExecuteRestore, ExecuteWrite, ExecuteRead
<1>1. CASE UNCHANGED req
  <2>1. \A x \in Writes \cup Changes : Moves(x)
    BY <1>1, Zenon DEF Moves
  <2> QED BY <1>0, <2>1, ProposalsKept, Zenon
<1>2. CASE ExecuteRead(n) /\ req[exec[n].id].st = "reading"
  <2> DEFINE r == exec[n].id
  <2> DEFINE q == [req[r] EXCEPT !.st = "done", !.res = app[n]]
  <2>1. r \in Reads /\ r \in Requests
    BY <1>2, ReadExecuted, Zenon DEF ExecuteRead
  <2>2. req' = [req EXCEPT ![r] = q]
    BY <1>2, <2>1, ThisRequest, Zenon DEF ExecuteRead
  <2> HIDE DEF r, q
  <2>3. r \notin Writes \cup Changes
    BY <2>1, NamesAreDistinct, Zenon
  <2>4. \A x \in Writes \cup Changes : Moves(x)
    BY <2>1, <2>2, <2>3, OneMoves, Zenon
  <2> QED BY <1>0, <2>4, ProposalsKept, Zenon
<1> QED BY <1>1, <1>2, Zenon DEF Execute, ExecuteRestore, ExecuteWrite, ExecuteRead

(* What an untracking goroutine does: it answers a write that is in the log *)
(* with the state before it.                                                *)
LEMMA Untracked ==
  ASSUME QInv, MInv, NEW n \in Server, Untrack(n)
  PROVE  \/ UNCHANGED req
         \/ \E i \in 1..Len(log) :
              /\ log[i] \in Writes /\ req[log[i]].st = "wait"
              /\ req' = [req EXCEPT ![log[i]] =
                           [req[log[i]] EXCEPT !.st = IF log[i] \in Fails THEN "rejected" ELSE "done",
                                               !.res = StateAfter(meaning, i - 1)]]
<1>1. PICK x \in results[n] :
        req' = IF ~TrackedAt(x.id, n) THEN req
               ELSE [req EXCEPT ![x.id].st = IF x.id \in Fails THEN "rejected" ELSE "done", ![x.id].res = x.res]
  BY Zenon DEF Untrack
<1>2. PICK i \in 1..Len(log) : log[i] = x.id /\ x.id \in Writes /\ x.res = StateAfter(meaning, i - 1)
  BY ThisMatch, Zenon DEF ResultsMatch
<1> DEFINE r == x.id
<1> DEFINE a == x.res
<1>3. r \in Requests /\ DOMAIN req = Requests
  BY <1>2, ThisRequest, Zenon DEF Requests
<1>4. CASE TrackedAt(r, n)
  <2>1. req' = [req EXCEPT ![r] = [req[r] EXCEPT !.st = IF r \in Fails THEN "rejected" ELSE "done", !.res = a]]
    BY <1>1, <1>3, <1>4, Zenon
  <2>2. log[i] = r /\ a = StateAfter(meaning, i - 1) /\ r \in Writes
    BY <1>2, Zenon
  <2>3. req[r].st = "wait"
    BY <1>4, Zenon DEF TrackedAt
  <2> HIDE DEF r, a
  <2> QED BY <2>1, <2>2, <2>3, Zenon
<1> QED BY <1>1, <1>4, Zenon

(* The untracking goroutines answer writes that are in the log. *)
LEMMA UntrackMoves ==
  ASSUME QInv, PInv, MInv, RInv, NEW n \in Server, Untrack(n)
  PROVE  PInv'
<1>0. UNCHANGED <<logVars, pending>>
  BY Zenon DEF Untrack
<1>1. CASE UNCHANGED req
  <2>1. \A x \in Writes \cup Changes : Moves(x)
    BY <1>1, Zenon DEF Moves
  <2> QED BY <1>0, <2>1, ProposalsKept, Zenon
<1>2. CASE ~UNCHANGED req
  <2>1. PICK i \in 1..Len(log) :
          /\ log[i] \in Writes /\ req[log[i]].st = "wait"
          /\ req' = [req EXCEPT ![log[i]] =
                       [req[log[i]] EXCEPT !.st = IF log[i] \in Fails THEN "rejected" ELSE "done",
                                           !.res = StateAfter(meaning, i - 1)]]
    BY <1>2, Untracked, Zenon
  <2> DEFINE r == log[i]
  <2> DEFINE o == req[r]
  <2> DEFINE s == IF r \in Fails THEN "rejected" ELSE "done"
  <2> DEFINE a == StateAfter(meaning, i - 1)
  <2> DEFINE q == [o EXCEPT !.st = s, !.res = a]
  <2>2. r \in Requests /\ r \notin pending /\ o.st = "wait" /\ req' = [req EXCEPT ![r] = q]
    BY <2>1, Zenon DEF PInv, Requests
  <2>3. IsRequest(o)
    BY <2>2, ThisRequest, Zenon
  <2>4. s \in {"done", "rejected"}
    BY Zenon
  <2>5. q = [st |-> s, at |-> o.at, floor |-> o.floor, index |-> o.index, res |-> a]
    <3> HIDE DEF o, a, s
    <3> QED BY <2>3, RequestStageRes, Zenon
  <2> HIDE DEF q, s
  <2>6. q.st \in {"done", "rejected"}
    BY <2>4, <2>5, Zenon
  <2> HIDE DEF r
  <2>7. \A x \in Writes \cup Changes : Moves(x)
    BY <2>2, <2>6, OneMoves, Zenon
  <2> QED BY <1>0, <2>7, ProposalsKept, Zenon
<1> QED BY <1>1, <1>2, Zenon

(* A process that ends fails its requests and withdraws no proposal. *)
LEMMA RestartMoves ==
  ASSUME QInv, PInv, RInv, NEW n \in Server, Restart(n)
  PROVE  PInv'
<1>0. UNCHANGED <<logVars, pending>>
  BY Zenon DEF Restart
<1>1. ASSUME NEW x \in Writes \cup Changes PROVE Moves(x)
  <2> DEFINE o == req[x]
  <2>1. x \in Requests
    BY Zenon DEF Requests
  <2>2. IsRequest(o) /\ RequestOf(x, o, meaning, Len(log))
    BY <2>1, ThisRequest, Zenon
  <2>3. \/ req'[x] = o
        \/ req'[x] = [o EXCEPT !.st = "failed"] /\ o.at = n
    BY <2>1, Zenon DEF Restart
  <2>4. [o EXCEPT !.st = "failed"] = [st |-> "failed", at |-> o.at, floor |-> o.floor, index |-> o.index, res |-> o.res]
    BY <2>2, RequestStage, Zenon
  <2>5. [o EXCEPT !.st = "failed"].st = "failed"
    BY <2>4, Zenon
  <2>6. o.at = n => o.st # "new"
    BY <2>2, NamesAreDistinct, Zenon DEF RequestOf
  <2> QED BY <2>3, <2>5, <2>6, Zenon DEF Moves
<1> QED BY <1>0, <1>1, ProposalsKept, Zenon

(* Every step keeps what is true of the proposals. *)
LEMMA StepProposals == RInv /\ MInv /\ QInv /\ PInv /\ [Next]_vars => PInv'
<1> SUFFICES ASSUME RInv, MInv, QInv, PInv, [Next]_vars PROVE PInv'
  BY Zenon
<1>1. ASSUME UNCHANGED <<logVars, pending, req>> PROVE PInv'
  <2>1. \A x \in Writes \cup Changes : Moves(x)
    BY <1>1, Zenon DEF Moves
  <2> QED BY <1>1, <2>1, ProposalsKept, Zenon
<1>2. CASE UNCHANGED vars
  BY <1>1, <1>2, Zenon DEF vars
<1>3. ASSUME NEW n \in Server, NEW r \in Writes \cup Changes, ProposeWrite(r, n) \/ ProposeChange(r, n) PROVE PInv'
  BY <1>3, ProposalMade, Zenon
<1>4. ASSUME NEW n \in Server, NEW r \in Reads, AskRead(r, n) PROVE PInv'
  BY <1>4, ClientMoves, Zenon DEF Requests
<1>5. ASSUME NEW r \in Reads, SubmitRead(r) \/ AnswerRead(r) PROVE PInv'
  <2>1. r \in Requests /\ req[r].st # "new"
    BY <1>5, Zenon DEF Requests, SubmitRead, AnswerRead
  <2>2. req[r].at \in Server
    BY <2>1, ThisRequest, Zenon DEF RequestOf
  <2> QED BY <1>5, <2>1, <2>2, ClientMoves, Zenon
<1>6. ASSUME NEW r \in Requests, Cancel(r) PROVE PInv'
  <2>1. req[r].st # "new"
    BY <1>6, Zenon DEF Cancel
  <2>2. req[r].at \in Server
    BY <2>1, ThisRequest, Zenon DEF RequestOf
  <2> QED BY <1>6, <2>2, ClientMoves, Zenon
<1>7. CASE Client
  BY <1>3, <1>4, <1>5, <1>6, <1>7, Zenon DEF Client
<1>8. CASE Library
  BY <1>5, <1>8, ProposalCommitted, Zenon DEF Library
<1>9. ASSUME NEW n \in Server, Receive(n) \/ Consume(n) PROVE PInv'
  BY <1>9, ReceiveMoves, ConsumeMoves, Zenon
<1>10. ASSUME NEW n \in Server, Execute(n) \/ Untrack(n) \/ Restart(n) PROVE PInv'
  BY <1>10, ExecuteMoves, UntrackMoves, RestartMoves, Zenon
<1>11. ASSUME NEW n \in Server, NEW m \in Server, RefusedByPeer(n, m) PROVE PInv'
  BY <1>1, <1>11, Zenon DEF RefusedByPeer
<1> QED BY <1>2, <1>7, <1>8, <1>9, <1>10, <1>11, Zenon DEF Next

(* At the start nothing is proposed. *)
LEMMA InitProposals == Init => PInv
<1> SUFFICES ASSUME Init PROVE PInv
  BY Zenon
<1>1. log = <<>> /\ pending = {} /\ meaning.writes = <<>>
  BY Zenon DEF Init, Meaningless
<1> QED BY <1>1 DEF PInv
=============================================================================
