-------------------------- MODULE RaftStoreProofs ---------------------------
(***************************************************************************)
(* Proofs that the servers of RaftStore together implement                 *)
(* LinearizableStore, for any number of servers, entries, requests,        *)
(* snapshots and crashes, that their state keeps its type, and that a      *)
(* store with few entries other than writes meets the condition under      *)
(* which they do.                                                          *)
(***************************************************************************)
EXTENDS RaftRequestProofs, FiniteSetTheorems

-----------------------------------------------------------------------------
\* The servers implement LinearizableStore.

(* A request as its caller sees it. *)
LEMMA ThisCall ==
  ASSUME NEW r \in Writes \cup Reads
  PROVE  /\ Calls[r] = [st |-> Shown(req[r].st), from |-> meaning.at[req[r].floor].count, res |-> req[r].res]
         /\ Calls[r].st = Shown(req[r].st) /\ Calls[r].from = meaning.at[req[r].floor].count
         /\ Calls[r].res = req[r].res
         /\ DOMAIN Calls = Writes \cup Reads
BY Zenon DEF Calls

(* A step that no caller sees. *)
LEMMA NoCall ==
  ASSUME UNCHANGED logVars,
         \A r \in Writes \cup Reads : \/ req'[r] = req[r]
                                      \/ /\ req'[r].floor = req[r].floor /\ req'[r].res = req[r].res
                                         /\ Shown(req'[r].st) = Shown(req[r].st)
  PROVE  UNCHANGED Abstract!storeVars
<1>1. meaning' = meaning
  BY Zenon DEF logVars
<1>2. \A r \in Writes \cup Reads :
        /\ Shown(req'[r].st) = Shown(req[r].st) /\ req'[r].floor = req[r].floor /\ req'[r].res = req[r].res
  BY Zenon
<1>3. Calls' = Calls
  BY <1>1, <1>2, Zenon DEF Calls
<1> QED BY <1>1, <1>3, Zenon DEF Abstract!storeVars

(* A step that one caller sees. *)
LEMMA OneCall ==
  ASSUME QInv, UNCHANGED logVars, NEW r \in Writes \cup Reads, NEW q, req' = [req EXCEPT ![r] = q]
  PROVE  /\ Calls' = [Calls EXCEPT ![r] = [st |-> Shown(q.st), from |-> meaning.at[q.floor].count, res |-> q.res]]
         /\ UNCHANGED <<meaning.writes, meaning.states>>
<1>1. meaning' = meaning /\ DOMAIN req = Requests /\ r \in Requests
  BY ThisRequest, Zenon DEF logVars, Requests
<1>2. req'[r] = q /\ \A x \in Writes \cup Reads : x # r => req'[x] = req[x]
  BY <1>1, Zenon DEF Requests
<1> DEFINE c == [st |-> Shown(q.st), from |-> meaning.at[q.floor].count, res |-> q.res]
<1>3. Calls' = [x \in Writes \cup Reads |->
                  [st |-> Shown(req'[x].st), from |-> meaning.at[req'[x].floor].count, res |-> req'[x].res]]
  BY <1>1, Zenon DEF Calls
<1>4. [Calls EXCEPT ![r] = c] = [x \in Writes \cup Reads |-> IF x = r THEN c ELSE Calls[x]]
  BY Zenon DEF Calls
<1>5. ASSUME NEW x \in Writes \cup Reads
      PROVE  [st |-> Shown(req'[x].st), from |-> meaning.at[req'[x].floor].count, res |-> req'[x].res]
               = IF x = r THEN c ELSE Calls[x]
  BY <1>2, ThisCall, Zenon
<1> QED BY <1>1, <1>3, <1>4, <1>5, Zenon

IsCall(u) == u = [st |-> u.st, from |-> u.from, res |-> u.res]

(* The stage of a call and the moment it was made. *)
LEMMA CallStageFrom ==
  ASSUME NEW u, IsCall(u), NEW a, NEW b
  PROVE  [u EXCEPT !.st = a, !.from = b] = [st |-> a, from |-> b, res |-> u.res]
<1> DEFINE s == u.st
<1> DEFINE f == u.from
<1> DEFINE e == u.res
<1>1. u = [st |-> s, from |-> f, res |-> e]
  BY Zenon DEF IsCall
<1> HIDE DEF s, f, e
<1> DEFINE v == [u EXCEPT !.st = a]
<1>2. [u EXCEPT !.st = a, !.from = b] = [v EXCEPT !.from = b]
  BY Zenon
<1>3. v = [st |-> a, from |-> f, res |-> e]
  BY <1>1
<1> HIDE DEF v
<1>4. [v EXCEPT !.from = b] = [st |-> a, from |-> b, res |-> e]
  BY <1>3
<1> QED BY <1>2, <1>4, Zenon DEF f, e

(* The stage of a call and its result. *)
LEMMA CallStageRes ==
  ASSUME NEW u, IsCall(u), NEW a, NEW b
  PROVE  [u EXCEPT !.st = a, !.res = b] = [st |-> a, from |-> u.from, res |-> b]
<1> DEFINE s == u.st
<1> DEFINE f == u.from
<1> DEFINE e == u.res
<1>1. u = [st |-> s, from |-> f, res |-> e]
  BY Zenon DEF IsCall
<1> HIDE DEF s, f, e
<1> DEFINE v == [u EXCEPT !.st = a]
<1>2. [u EXCEPT !.st = a, !.res = b] = [v EXCEPT !.res = b]
  BY Zenon
<1>3. v = [st |-> a, from |-> f, res |-> e]
  BY <1>1
<1> HIDE DEF v
<1>4. [v EXCEPT !.res = b] = [st |-> a, from |-> f, res |-> b]
  BY <1>3
<1> QED BY <1>2, <1>4, Zenon DEF f, e

(* A call that was not made, once it is. *)
LEMMA CallOpened ==
  ASSUME NEW f
  PROVE  [Abstract!Unmade EXCEPT !.st = "open", !.from = f] = [st |-> "open", from |-> f, res |-> None]
<1> DEFINE u == Abstract!Unmade
<1> DEFINE o == "open"
<1>1. u = [st |-> "new", from |-> 0, res |-> None]
  BY Zenon DEF Abstract!Unmade
<1> HIDE DEF u, o
<1>2. IsCall(u) /\ u.res = None
  BY <1>1, Zenon DEF IsCall
<1>3. [u EXCEPT !.st = o, !.from = f] = [st |-> o, from |-> f, res |-> u.res]
  BY <1>2, CallStageFrom, Zenon
<1> QED BY <1>2, <1>3, Zenon DEF u, o

(* A call is made. *)
LEMMA CallMade ==
  ASSUME NEW r \in Writes \cup Reads, NEW f,
         Calls[r] = Abstract!Unmade, f = IF r \in Reads THEN Len(meaning.writes) ELSE 0,
         Calls' = [Calls EXCEPT ![r] = [st |-> "open", from |-> f, res |-> None]],
         UNCHANGED <<meaning.writes, meaning.states>>
  PROVE  Abstract!Invoke(r)
<1>1. Calls' = [Calls EXCEPT ![r] = [Calls[r] EXCEPT !.st = "open", !.from = f]]
  BY CallOpened, Zenon
<1> QED BY <1>1, Zenon DEF Abstract!Invoke

(* A call that is answered. *)
LEMMA CallAnswered ==
  ASSUME NEW r \in Writes \cup Reads, NEW s, NEW a
  PROVE  [Calls[r] EXCEPT !.st = s, !.res = a] = [st |-> s, from |-> Calls[r].from, res |-> a]
<1> DEFINE u == Calls[r]
<1>1. IsCall(u)
  BY ThisCall, Zenon DEF IsCall
<1> HIDE DEF u
<1>2. [u EXCEPT !.st = s, !.res = a] = [st |-> s, from |-> u.from, res |-> a]
  BY <1>1, CallStageRes, Zenon
<1> QED BY <1>2, Zenon DEF u

\* a step of LinearizableStore, or none
StoreStep == Abstract!StoreNext \/ UNCHANGED Abstract!storeVars

(* A write or a read is asked for. *)
LEMMA RequestInvokes ==
  ASSUME MInv, QInv, NEW n \in Server, NEW r \in Writes \cup Reads,
         \/ r \in Writes /\ ProposeWrite(r, n)
         \/ r \in Reads /\ AskRead(r, n)
  PROVE  Abstract!Invoke(r)
<1> DEFINE o == req[r]
<1> DEFINE L == Len(log)
<1>0. UNCHANGED logVars /\ o.st = "new" /\ r \in Requests /\ DOMAIN req = Requests
  BY ThisRequest, Zenon DEF ProposeWrite, AskRead, Requests
<1>1. IsRequest(o) /\ o.floor = 0 /\ o.res = None
  BY <1>0, ThisRequest, Zenon DEF RequestOf
<1>2. meaning.at[0].count = 0 /\ meaning.at[L].count = Len(meaning.writes)
  BY Zenon DEF MInv, LogMeans
<1>3. Calls[r] = Abstract!Unmade
  BY <1>0, <1>1, <1>2, ThisCall, Zenon DEF Shown, Abstract!Unmade
<1>4. CASE r \in Writes
  <2> DEFINE q == [o EXCEPT !.st = "wait", !.at = n]
  <2>1. req' = [req EXCEPT ![r] = q] /\ r \notin Reads
    BY <1>0, <1>4, NamesAreDistinct, Zenon DEF ProposeWrite
  <2>2. q = [st |-> "wait", at |-> n, floor |-> o.floor, index |-> o.index, res |-> o.res]
    BY <1>1, RequestStageAt, Zenon
  <2> HIDE DEF q
  <2>3. q.st = "wait" /\ q.floor = 0 /\ q.res = None
    BY <1>1, <2>2, Zenon
  <2>4. Shown(q.st) = "open" /\ meaning.at[q.floor].count = 0
    BY <1>2, <2>3, Zenon DEF Shown
  <2>5. /\ Calls' = [Calls EXCEPT ![r] = [st |-> Shown(q.st), from |-> meaning.at[q.floor].count, res |-> q.res]]
        /\ UNCHANGED <<meaning.writes, meaning.states>>
    BY <1>0, <2>1, OneCall, Zenon
  <2>6. Calls' = [Calls EXCEPT ![r] = [st |-> "open", from |-> 0, res |-> None]]
    BY <2>3, <2>4, <2>5, Zenon
  <2> QED BY <1>3, <2>1, <2>5, <2>6, CallMade, Zenon
<1>5. CASE r \in Reads
  <2> DEFINE q == [o EXCEPT !.st = "asked", !.at = n, !.floor = L]
  <2>1. req' = [req EXCEPT ![r] = q]
    BY <1>0, <1>5, NamesAreDistinct, Zenon DEF AskRead
  <2>2. q = [st |-> "asked", at |-> n, floor |-> L, index |-> o.index, res |-> o.res]
    <3> DEFINE m == [o EXCEPT !.st = "asked", !.at = n]
    <3>1. m = [st |-> "asked", at |-> n, floor |-> o.floor, index |-> o.index, res |-> o.res]
      BY <1>1, RequestStageAt, Zenon
    <3>2. q = [m EXCEPT !.floor = L]
      BY Zenon
    <3> HIDE DEF L, o, m, q
    <3> QED BY <3>1, <3>2, Zenon
  <2> HIDE DEF q
  <2>3. q.st = "asked" /\ q.floor = L /\ q.res = None
    BY <1>1, <2>2, Zenon
  <2>4. Shown(q.st) = "open" /\ meaning.at[q.floor].count = Len(meaning.writes)
    BY <1>2, <2>3, Zenon DEF Shown
  <2>5. /\ Calls' = [Calls EXCEPT ![r] = [st |-> Shown(q.st), from |-> meaning.at[q.floor].count, res |-> q.res]]
        /\ UNCHANGED <<meaning.writes, meaning.states>>
    BY <1>0, <2>1, OneCall, Zenon
  <2>6. Calls' = [Calls EXCEPT ![r] = [st |-> "open", from |-> Len(meaning.writes), res |-> None]]
    BY <2>3, <2>4, <2>5, Zenon
  <2> QED BY <1>3, <1>5, <2>5, <2>6, CallMade, Zenon
<1> QED BY <1>4, <1>5, Zenon

(* The callers of R give up. *)
LEMMA CallersGiveUp ==
  ASSUME QInv, UNCHANGED logVars, NEW R \in SUBSET (Writes \cup Reads),
         \A r \in R : /\ req[r].st \notin {"new", "done", "rejected", "failed"}
                      /\ req'[r] = [req[r] EXCEPT !.st = "failed"],
         \A r \in (Writes \cup Reads) \ R : req'[r] = req[r]
  PROVE  StoreStep
<1> DEFINE N == [r \in Writes \cup Reads |-> IF r \in R THEN [Calls[r] EXCEPT !.st = "failed"] ELSE Calls[r]]
<1>1. meaning' = meaning
  BY Zenon DEF logVars
<1>2. \A r \in R : Calls[r].st = "open"
  BY ThisCall, Zenon DEF Shown
<1>3. ASSUME NEW r \in Writes \cup Reads
      PROVE  [st |-> Shown(req'[r].st), from |-> meaning.at[req'[r].floor].count, res |-> req'[r].res] = N[r]
  <2>1. CASE r \in R
    <3> DEFINE o == req[r]
    <3> DEFINE q == [o EXCEPT !.st = "failed"]
    <3> DEFINE u == Calls[r]
    <3>1. req'[r] = q /\ N[r] = [u EXCEPT !.st = "failed"]
      BY <2>1, Zenon
    <3>2. IsRequest(o)
      BY ThisRequest, Zenon DEF Requests
    <3>3. q = [st |-> "failed", at |-> o.at, floor |-> o.floor, index |-> o.index, res |-> o.res]
      BY <3>2, RequestStage, Zenon
    <3>4. u = [st |-> Shown(o.st), from |-> meaning.at[o.floor].count, res |-> o.res]
      BY ThisCall, Zenon
    <3> HIDE DEF q, u, N
    <3>5. q.st = "failed" /\ q.floor = o.floor /\ q.res = o.res /\ Shown(q.st) = "failed"
      BY <3>3, Zenon DEF Shown
    <3> DEFINE f == meaning.at[o.floor].count
    <3> DEFINE p == Shown(o.st)
    <3> DEFINE e == o.res
    <3>6. u = [st |-> p, from |-> f, res |-> e]
      BY <3>4, Zenon
    <3> HIDE DEF f, p, e
    <3>7. [u EXCEPT !.st = "failed"] = [st |-> "failed", from |-> f, res |-> e]
      BY <3>6
    <3> QED BY <3>1, <3>5, <3>7, Zenon DEF f, e
  <2>2. CASE r \notin R
    BY <2>2, ThisCall, Zenon
  <2> QED BY <2>1, <2>2, Zenon
<1>4. Calls' = [r \in Writes \cup Reads |->
                  [st |-> Shown(req'[r].st), from |-> meaning.at[req'[r].floor].count, res |-> req'[r].res]]
  BY <1>1, Zenon DEF Calls
<1>5. Calls' = N
  BY <1>3, <1>4, Zenon
<1>6. DOMAIN Calls = Writes \cup Reads
  BY Zenon DEF Calls
<1>7. Abstract!GiveUp(R)
  BY <1>1, <1>2, <1>5, <1>6, Zenon DEF Abstract!GiveUp
<1> QED BY <1>7, Zenon DEF StoreStep, Abstract!StoreNext

(* The context of a request ends. *)
LEMMA CancelGivesUp ==
  ASSUME QInv, NEW r \in Requests, Cancel(r)
  PROVE  StoreStep
<1>0. /\ UNCHANGED logVars /\ DOMAIN req = Requests /\ req[r].st \notin {"new", "done", "rejected", "failed"}
      /\ req' = [req EXCEPT ![r] = [req[r] EXCEPT !.st = "failed"]]
  BY ThisRequest, Zenon DEF Cancel
<1>1. CASE r \in Writes \cup Reads
  <2> DEFINE R == {r}
  <2>1. R \in SUBSET (Writes \cup Reads)
    BY <1>1, Zenon
  <2>2. \A x \in R : /\ req[x].st \notin {"new", "done", "rejected", "failed"}
                     /\ req'[x] = [req[x] EXCEPT !.st = "failed"]
    BY <1>0, Zenon
  <2>3. \A x \in (Writes \cup Reads) \ R : req'[x] = req[x]
    BY <1>0, Zenon DEF Requests
  <2> HIDE DEF R
  <2> QED BY <1>0, <2>1, <2>2, <2>3, CallersGiveUp, Zenon
<1>2. CASE r \notin Writes \cup Reads
  <2>1. \A x \in Writes \cup Reads : req'[x] = req[x]
    BY <1>0, <1>2, Zenon DEF Requests
  <2> QED BY <1>0, <2>1, NoCall, Zenon DEF StoreStep
<1> QED BY <1>1, <1>2, Zenon

(* The process of a server ends. *)
LEMMA RestartGivesUp ==
  ASSUME QInv, NEW n \in Server, Restart(n)
  PROVE  StoreStep
<1> DEFINE R == {x \in Writes \cup Reads : req[x].at = n /\ req[x].st \notin {"done", "rejected", "failed"}}
<1>0. UNCHANGED logVars
  BY Zenon DEF Restart
<1>1. R \in SUBSET (Writes \cup Reads)
  BY Zenon
<1>2. ASSUME NEW x \in Writes \cup Reads
      PROVE  /\ RequestOf(x, req[x], meaning, Len(log))
             /\ req'[x] = IF req[x].at = n /\ req[x].st \notin {"done", "rejected"}
                          THEN [req[x] EXCEPT !.st = "failed"] ELSE req[x]
  BY ThisRequest, Zenon DEF Restart, Requests
<1>3. ASSUME NEW x \in R
      PROVE  /\ req[x].st \notin {"new", "done", "rejected", "failed"}
             /\ req'[x] = [req[x] EXCEPT !.st = "failed"]
  BY <1>2, NamesAreDistinct, Zenon DEF RequestOf
<1>4. ASSUME NEW x \in (Writes \cup Reads) \ R PROVE req'[x] = req[x]
  <2>1. CASE req[x].at = n /\ req[x].st = "failed"
    <3> DEFINE o == req[x]
    <3>1. req'[x] = [o EXCEPT !.st = "failed"] /\ IsRequest(o) /\ o.st = "failed"
      BY <1>2, <2>1, Zenon DEF RequestOf
    <3>2. [o EXCEPT !.st = "failed"] = [st |-> "failed", at |-> o.at, floor |-> o.floor, index |-> o.index, res |-> o.res]
      BY <3>1, RequestStage, Zenon
    <3> QED BY <3>1, <3>2, Zenon DEF IsRequest
  <2>2. CASE ~(req[x].at = n /\ req[x].st = "failed")
    BY <1>2, <2>2, Zenon
  <2> QED BY <2>1, <2>2, Zenon
<1> HIDE DEF R
<1> QED BY <1>0, <1>1, <1>3, <1>4, CallersGiveUp, Zenon

(* A committed write takes its place among the writes, once. *)
LEMMA CommitDecides ==
  ASSUME RInv, MInv, QInv, PInv, NEW e \in pending \cup {Empty}, Commit(e)
  PROVE  StoreStep
<1> DEFINE L == Len(log)
<1> DEFINE b == meaning.at[L].count
<1>1. /\ e \in pending \/ e = Empty
      /\ meaning' = Extended(meaning, L, e) /\ req' = req
  BY Zenon DEF Commit
<1>2. LogMeans(log, meaning) /\ L \in Nat
  BY TheseProposals, Zenon DEF MInv
<1>3. \A i \in 0..L : meaning'.at[i] = meaning.at[i]
  BY <1>1, <1>2 DEF Extended
<1>4. /\ meaning'.writes = IF e \in Writes THEN Append(meaning.writes, e) ELSE meaning.writes
      /\ meaning'.states = IF e \in Writes THEN Append(meaning.states, Effect(e, meaning.states[b + 1])) ELSE meaning.states
  BY <1>1, Zenon DEF Extended
<1>5. Len(meaning.states) = b + 1
  BY <1>2, Zenon DEF LogMeans
<1>6. Calls' = Calls
  <2>1. ASSUME NEW r \in Writes \cup Reads PROVE meaning'.at[req[r].floor] = meaning.at[req[r].floor]
    <3>1. RequestOf(r, req[r], meaning, L)
      BY ThisRequest, Zenon DEF Requests
    <3>2. req[r].floor \in 0..L
      BY <1>2, <3>1 DEF RequestOf
    <3> QED BY <1>3, <3>2, Zenon
  <2> QED BY <1>1, <2>1, Zenon DEF Calls
<1> HIDE DEF b, L
<1>7. CASE e \in Writes
  <2>1. e \in pending
    BY <1>1, <1>7, NamesAreDistinct, Zenon
  <2>2. Calls[e].st \in {"open", "failed"}
    <3>1. req[e].st \in {"wait", "failed"} /\ e \in Writes \cup Reads
      BY <1>7, <2>1, Zenon DEF PInv
    <3>2. Shown(req[e].st) \in {"open", "failed"}
      BY <3>1, Zenon DEF Shown
    <3> QED BY <3>1, <3>2, ThisCall, Zenon
  <2>3. \A i \in DOMAIN meaning.writes : meaning.writes[i] # e
    <3> SUFFICES ASSUME NEW i \in DOMAIN meaning.writes PROVE meaning.writes[i] # e
      BY Zenon
    <3>1. i \in 1..Len(meaning.writes)
      BY <1>2 DEF LogMeans
    <3>2. PICK j \in 1..Len(log) : log[j] = meaning.writes[i]
      BY <3>1, Zenon DEF PInv
    <3> QED BY <2>1, <3>2, Zenon DEF PInv
  <2>4. Effect(e, meaning.states[b + 1]) = Abstract!After(e, meaning.states[Len(meaning.states)])
    BY <1>5, <1>7, Zenon DEF Effect, Abstract!After
  <2>5. Abstract!Decide(e)
    BY <1>4, <1>6, <1>7, <2>2, <2>3, <2>4, Zenon DEF Abstract!Decide
  <2> QED BY <1>7, <2>5, Zenon DEF StoreStep, Abstract!StoreNext
<1>8. CASE e \notin Writes
  BY <1>4, <1>6, <1>8, Zenon DEF StoreStep, Abstract!storeVars
<1> QED BY <1>7, <1>8, Zenon

(* processCommits answers a read. *)
LEMMA ExecuteAnswers ==
  ASSUME MInv, QInv, NEW n \in Server, Execute(n)
  PROVE  StoreStep
<1>0. UNCHANGED logVars
  BY Zenon DEF Execute, ExecuteRestore, ExecuteWrite, ExecuteRead
<1>1. CASE UNCHANGED req
  BY <1>0, <1>1, NoCall, Zenon DEF StoreStep
<1>2. CASE ExecuteRead(n) /\ req[exec[n].id].st = "reading"
  <2> DEFINE r == exec[n].id
  <2> DEFINE o == req[r]
  <2> DEFINE a == app[n]
  <2> DEFINE j == Reached(n)
  <2> DEFINE f == o.floor
  <2> DEFINE q == [o EXCEPT !.st = "done", !.res = a]
  <2>1. r \in Reads /\ r \in Requests /\ j \in f..Len(log) /\ a = StateAfter(meaning, j)
    BY <1>2, ReadExecuted, Zenon DEF ExecuteRead
  <2>2. IsRequest(o) /\ RequestOf(r, o, meaning, Len(log)) /\ DOMAIN req = Requests
    BY <2>1, ThisRequest, Zenon
  <2>3. req' = [req EXCEPT ![r] = q] /\ r \in Writes \cup Reads /\ Shown(o.st) = "open"
    BY <1>2, <2>1, <2>2, Zenon DEF ExecuteRead, Shown
  <2>4. q = [st |-> "done", at |-> o.at, floor |-> o.floor, index |-> o.index, res |-> a]
    <3> HIDE DEF o, a
    <3> QED BY <2>2, RequestStageRes, Zenon
  <2> HIDE DEF q
  <2>5. q.st = "done" /\ q.floor = f /\ q.res = a /\ Shown(q.st) = "done"
    BY <2>4, Zenon DEF Shown
  <2>6. /\ Calls' = [Calls EXCEPT ![r] = [st |-> Shown(q.st), from |-> meaning.at[q.floor].count, res |-> q.res]]
        /\ UNCHANGED <<meaning.writes, meaning.states>>
    BY <1>0, <2>3, OneCall, Zenon
  <2>7. Calls[r].st = "open" /\ Calls[r].from = meaning.at[f].count
    BY <2>3, ThisCall, Zenon
  <2> DEFINE d == "done"
  <2>8. Calls' = [Calls EXCEPT ![r] = [st |-> d, from |-> Calls[r].from, res |-> a]]
    BY <2>5, <2>6, <2>7, Zenon
  <2>9. Calls' = [Calls EXCEPT ![r] = [Calls[r] EXCEPT !.st = d, !.res = a]]
    <3> HIDE DEF r, a, d
    <3>1. [Calls[r] EXCEPT !.st = d, !.res = a] = [st |-> d, from |-> Calls[r].from, res |-> a]
      BY <2>3, CallAnswered, Zenon
    <3> QED BY <2>8, <3>1, Zenon
  <2> DEFINE k == meaning.at[j].count
  <2>10. k \in Calls[r].from..Len(meaning.writes) /\ a = meaning.states[k + 1]
    <3>1. f \in 0..Len(log) /\ Len(log) \in Nat /\ LogMeans(log, meaning)
      BY <2>1, <2>2, ThisMatch, Zenon DEF RequestOf
    <3>2. a = meaning.states[k + 1]
      BY <2>1, Zenon DEF StateAfter
    <3> HIDE DEF f, j, a, r
    <3>3. f <= j /\ j \in 0..Len(log)
      BY <2>1, <3>1
    <3>4. meaning.at[f].count <= k /\ k \in 0..Len(meaning.writes) /\ meaning.at[f].count \in 0..Len(meaning.writes)
          /\ Len(meaning.writes) \in Nat
      BY <3>1, <3>3 DEF LogMeans
    <3> DEFINE g == meaning.at[f].count
    <3> HIDE DEF k, g
    <3>5. k \in g..Len(meaning.writes)
      BY <3>4 DEF g
    <3> QED BY <2>7, <3>2, <3>5, Zenon DEF g
  <2> HIDE DEF a, k, r
  <2>11. \E i \in Calls[r].from..Len(meaning.writes) :
           Calls' = [Calls EXCEPT ![r] = [Calls[r] EXCEPT !.st = "done", !.res = meaning.states[i + 1]]]
    BY <2>9, <2>10, Zenon
  <2>12. Abstract!AnswerRead(r)
    BY <2>6, <2>7, <2>11, Zenon DEF Abstract!AnswerRead
  <2> QED BY <2>1, <2>12, Zenon DEF StoreStep, Abstract!StoreNext
<1> QED BY <1>1, <1>2, Zenon DEF Execute, ExecuteRestore, ExecuteWrite, ExecuteRead

(* The untracking goroutines answer a write. *)
LEMMA UntrackAnswers ==
  ASSUME MInv, QInv, NEW n \in Server, Untrack(n)
  PROVE  StoreStep
<1>0. UNCHANGED logVars
  BY Zenon DEF Untrack
<1>1. CASE UNCHANGED req
  BY <1>0, <1>1, NoCall, Zenon DEF StoreStep
<1>2. CASE ~UNCHANGED req
  <2>1. PICK i \in 1..Len(log) :
          /\ log[i] \in Writes /\ req[log[i]].st = "wait"
          /\ req' = [req EXCEPT ![log[i]] =
                       [req[log[i]] EXCEPT !.st = IF log[i] \in Fails THEN "rejected" ELSE "done",
                                           !.res = StateAfter(meaning, i - 1)]]
    BY <1>2, Untracked, Zenon
  <2> DEFINE r == log[i]
  <2> DEFINE o == req[r]
  <2> DEFINE s == IF r \in Fails THEN "rejected" ELSE "done"
  <2> DEFINE a == StateAfter(meaning, i - 1)
  <2> DEFINE q == [o EXCEPT !.st = s, !.res = a]
  <2>2. r \in Requests /\ r \in Writes /\ r \in Writes \cup Reads /\ o.st = "wait" /\ req' = [req EXCEPT ![r] = q]
    BY <2>1, Zenon DEF Requests
  <2>3. IsRequest(o) /\ Shown(o.st) = "open" /\ Shown(s) = s
    BY <2>2, ThisRequest, Zenon DEF Shown
  <2>4. q = [st |-> s, at |-> o.at, floor |-> o.floor, index |-> o.index, res |-> a]
    <3> HIDE DEF o, a, s
    <3> QED BY <2>3, RequestStageRes, Zenon
  <2> HIDE DEF q
  <2>5. q.st = s /\ q.floor = o.floor /\ q.res = a
    BY <2>4, Zenon
  <2>6. /\ Calls' = [Calls EXCEPT ![r] = [st |-> Shown(q.st), from |-> meaning.at[q.floor].count, res |-> q.res]]
        /\ UNCHANGED <<meaning.writes, meaning.states>>
    BY <1>0, <2>2, OneCall, Zenon
  <2>7. Calls[r].st = "open" /\ Calls[r].from = meaning.at[o.floor].count
    BY <2>2, <2>3, ThisCall, Zenon
  <2>8. Calls' = [Calls EXCEPT ![r] = [st |-> s, from |-> Calls[r].from, res |-> a]]
    BY <2>3, <2>5, <2>6, <2>7, Zenon
  <2>9. Calls' = [Calls EXCEPT ![r] = [Calls[r] EXCEPT !.st = s, !.res = a]]
    <3> HIDE DEF r, a, s
    <3>1. [Calls[r] EXCEPT !.st = s, !.res = a] = [st |-> s, from |-> Calls[r].from, res |-> a]
      BY <2>2, CallAnswered, Zenon
    <3> QED BY <2>8, <3>1, Zenon
  <2> DEFINE c == meaning.at[i - 1].count
  <2> DEFINE k == c + 1
  <2>10. k \in DOMAIN meaning.writes /\ meaning.writes[k] = r /\ a = meaning.states[k]
    <3>1. LogMeans(log, meaning) /\ Len(log) \in Nat
      BY ThisMatch, Zenon
    <3>2. i - 1 \in 0..Len(log) /\ i \in 0..Len(log)
      BY <3>1
    <3>3. meaning.writes[k] = r /\ meaning.at[i].count = k
      BY <2>2, <3>1, Zenon DEF LogMeans
    <3>4. c \in 0..Len(meaning.writes) /\ meaning.at[i].count \in 0..Len(meaning.writes)
          /\ meaning.writes \in Seq(Writes)
      BY <3>1, <3>2, Zenon DEF LogMeans
    <3>5. a = meaning.states[k]
      BY Zenon DEF StateAfter
    <3> HIDE DEF c, r, a
    <3>6. k \in 1..Len(meaning.writes)
      BY <3>3, <3>4
    <3> QED BY <3>3, <3>4, <3>5, <3>6
  <2> HIDE DEF a, k, r
  <2>11. \E j \in DOMAIN meaning.writes :
           /\ meaning.writes[j] = r
           /\ Calls' = [Calls EXCEPT ![r] = [Calls[r] EXCEPT !.st = s, !.res = meaning.states[j]]]
    BY <2>9, <2>10, Zenon
  <2>12. Abstract!AnswerWrite(r)
    BY <2>6, <2>7, <2>11, Zenon DEF Abstract!AnswerWrite
  <2> QED BY <2>2, <2>12, Zenon DEF StoreStep, Abstract!StoreNext
<1> QED BY <1>1, <1>2, Zenon

(* A read that is answered by the leader or handed over, and a change. *)
LEMMA UnseenByClients ==
  ASSUME QInv, NEW r \in Requests, NEW n,
         \/ r \in Reads /\ (SubmitRead(r) \/ AnswerRead(r))
         \/ r \in Changes /\ ProposeChange(r, n)
  PROVE  StoreStep
<1> DEFINE o == req[r]
<1>0. UNCHANGED logVars /\ DOMAIN req = Requests /\ IsRequest(o)
  BY ThisRequest, Zenon DEF SubmitRead, AnswerRead, ProposeChange
<1>1. ASSUME NEW q, req' = [req EXCEPT ![r] = q],
             r \in Writes \cup Reads => q.floor = o.floor /\ q.res = o.res /\ Shown(q.st) = Shown(o.st)
      PROVE  StoreStep
  <2>1. \A x \in Writes \cup Reads : \/ req'[x] = req[x]
                                     \/ /\ req'[x].floor = req[x].floor /\ req'[x].res = req[x].res
                                        /\ Shown(req'[x].st) = Shown(req[x].st)
    BY <1>0, <1>1, Zenon DEF Requests
  <2> QED BY <1>0, <2>1, NoCall, Zenon DEF StoreStep
<1>2. CASE r \in Reads /\ SubmitRead(r)
  <2> DEFINE q == [o EXCEPT !.st = "reading"]
  <2>1. req' = [req EXCEPT ![r] = q] /\ o.st = "ready"
    BY <1>0, <1>2, Zenon DEF SubmitRead
  <2>2. q = [st |-> "reading", at |-> o.at, floor |-> o.floor, index |-> o.index, res |-> o.res]
    BY <1>0, RequestStage, Zenon
  <2> HIDE DEF q
  <2>3. q.floor = o.floor /\ q.res = o.res /\ Shown(q.st) = Shown(o.st)
    BY <2>1, <2>2, Zenon DEF Shown
  <2> QED BY <1>1, <2>1, <2>3, Zenon
<1>3. CASE r \in Reads /\ AnswerRead(r)
  <2> DEFINE L == Len(log)
  <2> DEFINE s == "answered"
  <2> DEFINE q == [o EXCEPT !.st = s, !.index = L]
  <2>1. req' = [req EXCEPT ![r] = q] /\ o.st = "asked"
    BY <1>0, <1>3, Zenon DEF AnswerRead
  <2>2. Shown(s) = Shown(o.st)
    BY <2>1, Zenon DEF Shown
  <2>3. q = [st |-> s, at |-> o.at, floor |-> o.floor, index |-> L, res |-> o.res]
    <3> HIDE DEF s, L
    <3> QED BY <1>0, RequestStageIndex, Zenon
  <2> HIDE DEF q, s
  <2>4. q.floor = o.floor /\ q.res = o.res /\ Shown(q.st) = Shown(o.st)
    BY <2>2, <2>3, Zenon
  <2> QED BY <1>1, <2>1, <2>4, Zenon
<1>4. CASE r \in Changes /\ ProposeChange(r, n)
  <2>1. req' = [req EXCEPT ![r] = [o EXCEPT !.st = "wait", !.at = n]] /\ r \notin Writes \cup Reads
    BY <1>0, <1>4, NamesAreDistinct, Zenon DEF ProposeChange
  <2> QED BY <1>1, <2>1, Zenon
<1> QED BY <1>2, <1>3, <1>4, Zenon

(* A consumer's steps: no caller of a read or write is answered by them. *)
LEMMA UnseenByConsumers ==
  ASSUME QInv, NEW n \in Server, Receive(n) \/ Consume(n)
  PROVE  StoreStep
<1>0. UNCHANGED logVars
  BY Zenon DEF Receive, ReceiveEntries, ReceiveSnapshot, Consume, RecordSnapshot, SaveState, HandOffSnapshot, PublishWrite,
     PublishEmpty, PublishChange, FinishBatch, CompactLog, ReleaseReads
<1>1. ASSUME \A x \in Writes \cup Reads :
               \/ req'[x] = req[x]
               \/ /\ req[x].st \in {"answered", "carried", "indexed"}
                  /\ \E s \in {"carried", "indexed", "ready"} : req'[x] = [req[x] EXCEPT !.st = s]
      PROVE  StoreStep
  <2>1. ASSUME NEW x \in Writes \cup Reads
        PROVE  \/ req'[x] = req[x]
               \/ /\ req'[x].floor = req[x].floor /\ req'[x].res = req[x].res
                  /\ Shown(req'[x].st) = Shown(req[x].st)
    <3>1. ASSUME req[x].st \in {"answered", "carried", "indexed"}, NEW s \in {"carried", "indexed", "ready"},
                 req'[x] = [req[x] EXCEPT !.st = s]
          PROVE  /\ req'[x].floor = req[x].floor /\ req'[x].res = req[x].res
                 /\ Shown(req'[x].st) = Shown(req[x].st)
      <4> DEFINE o == req[x]
      <4>1. IsRequest(o)
        BY ThisRequest, Zenon DEF Requests
      <4>2. req'[x] = [o EXCEPT !.st = s]
        BY <3>1, Zenon
      <4>3. [o EXCEPT !.st = s] = [st |-> s, at |-> o.at, floor |-> o.floor, index |-> o.index, res |-> o.res]
        BY <4>1, RequestStage, Zenon
      <4>4. req'[x].st = s /\ req'[x].floor = o.floor /\ req'[x].res = o.res
        BY <4>2, <4>3, Zenon
      <4> QED BY <3>1, <4>4, Zenon DEF Shown
    <3> QED BY <1>1, <3>1, Zenon
  <2> QED BY <1>0, <2>1, NoCall, Zenon DEF StoreStep
<1>2. CASE UNCHANGED req
  BY <1>1, <1>2, Zenon
<1>3. ASSUME NEW k, ReceiveEntries(n, k) PROVE StoreStep
  <2>1. \A x \in Writes \cup Reads :
          \/ req'[x] = req[x]
          \/ /\ req[x].st \in {"answered", "carried", "indexed"}
             /\ \E s \in {"carried", "indexed", "ready"} : req'[x] = [req[x] EXCEPT !.st = s]
    BY <1>3, Zenon DEF ReceiveEntries, AnsweredAt, Requests
  <2> QED BY <1>1, <2>1, Zenon
<1>4. CASE PublishChange(n)
  <2>1. \A x \in Writes \cup Reads : req'[x] = req[x]
    <3> DEFINE r == log[cons[n].next]
    <3>1. r \in Changes
      BY <1>4, Zenon DEF PublishChange
    <3>2. PICK s : req' = req \/ req' = [req EXCEPT ![r].st = s]
      BY <1>4, Zenon DEF PublishChange
    <3>3. DOMAIN req = Requests /\ \A x \in Writes \cup Reads : x # r /\ x \in Requests
      BY <3>1, NamesAreDistinct, Zenon DEF QInv, Requests
    <3> HIDE DEF r
    <3> QED BY <3>2, <3>3, Zenon
  <2> QED BY <1>1, <2>1, Zenon
<1>5. CASE ReleaseReads(n)
  <2>1. \A x \in Writes \cup Reads :
          \/ req'[x] = req[x]
          \/ /\ req[x].st \in {"answered", "carried", "indexed"}
             /\ \E s \in {"carried", "indexed", "ready"} : req'[x] = [req[x] EXCEPT !.st = s]
    BY <1>5, Zenon DEF ReleaseReads, Released, Requests
  <2> QED BY <1>1, <2>1, Zenon
<1> QED BY <1>2, <1>3, <1>4, <1>5, Zenon DEF Receive, ReceiveSnapshot, Consume, RecordSnapshot, SaveState, HandOffSnapshot,
           PublishWrite, PublishEmpty, FinishBatch, CompactLog

(* Every step is one of the store or none. *)
LEMMA StepImplements == RInv /\ MInv /\ QInv /\ PInv /\ [Next]_vars => StoreStep
<1> SUFFICES ASSUME RInv, MInv, QInv, PInv, [Next]_vars PROVE StoreStep
  BY Zenon
<1>1. ASSUME UNCHANGED <<logVars, req>> PROVE StoreStep
  BY <1>1, NoCall, Zenon DEF StoreStep
<1>2. CASE UNCHANGED vars
  BY <1>1, <1>2, Zenon DEF vars
<1>3. ASSUME NEW n \in Server, NEW w \in Writes, ProposeWrite(w, n) PROVE StoreStep
  <2>1. Abstract!Invoke(w)
    BY <1>3, RequestInvokes, Zenon
  <2> QED BY <2>1, Zenon DEF StoreStep, Abstract!StoreNext
<1>4. ASSUME NEW n \in Server, NEW r \in Reads, AskRead(r, n) PROVE StoreStep
  <2>1. Abstract!Invoke(r)
    BY <1>4, RequestInvokes, Zenon
  <2> QED BY <2>1, Zenon DEF StoreStep, Abstract!StoreNext
<1>5. ASSUME NEW n \in Server, NEW c \in Changes, ProposeChange(c, n) PROVE StoreStep
  BY <1>5, UnseenByClients, Zenon DEF Requests
<1>6. ASSUME NEW r \in Reads, SubmitRead(r) \/ AnswerRead(r) PROVE StoreStep
  BY <1>6, UnseenByClients, Zenon DEF Requests
<1>7. CASE Client
  BY <1>3, <1>4, <1>5, <1>6, <1>7, CancelGivesUp, Zenon DEF Client
<1>8. CASE Library
  BY <1>6, <1>8, CommitDecides, Zenon DEF Library
<1>9. ASSUME NEW n \in Server, Receive(n) \/ Consume(n) PROVE StoreStep
  BY <1>9, UnseenByConsumers, Zenon
<1>10. ASSUME NEW n \in Server, Execute(n) \/ Untrack(n) \/ Restart(n) PROVE StoreStep
  BY <1>10, ExecuteAnswers, UntrackAnswers, RestartGivesUp, Zenon
<1>11. ASSUME NEW n \in Server, NEW m \in Server, RefusedByPeer(n, m) PROVE StoreStep
  BY <1>1, <1>11, Zenon DEF RefusedByPeer
<1> QED BY <1>2, <1>7, <1>8, <1>9, <1>10, <1>11, Zenon DEF Next

(* At the start the store is empty and no call is made. *)
LEMMA InitImplements == Init => Abstract!StoreInit
<1> SUFFICES ASSUME Init PROVE Abstract!StoreInit
  BY Zenon
<1>1. meaning.writes = <<>> /\ meaning.states = << <<>> >>
  BY Zenon DEF Init, Meaningless
<1>2. ASSUME NEW r \in Writes \cup Reads
      PROVE  [st |-> Shown(req[r].st), from |-> meaning.at[req[r].floor].count, res |-> req[r].res] = Abstract!Unmade
  <2>1. req[r].st = "new" /\ req[r].floor = 0 /\ req[r].res = None
    BY Zenon DEF Init, Requests
  <2>2. meaning.at[0].count = 0
    BY InitMatches, Zenon DEF MInv, LogMeans
  <2> QED BY <2>1, <2>2, Zenon DEF Shown, Abstract!Unmade
<1>3. Calls = [r \in Writes \cup Reads |-> Abstract!Unmade]
  BY <1>2, Zenon DEF Calls
<1> QED BY <1>1, <1>3, Zenon DEF Abstract!StoreInit

(* All the invariants together. *)
LEMMA InvariantsHold == Spec /\ []BurstsAreShort => [](RInv /\ MInv /\ QInv /\ PInv)
BY ServersMatchLog, InitRequests, StepRequests, InitProposals, StepProposals, PTL DEF Spec

(* The group of servers implements one linearizable store: every step of the *)
(* consumers, of processCommits, of a crash or of the library is a step of   *)
(* LinearizableStore or changes nothing a caller can see.  In particular a   *)
(* write is decided once, even after its caller has given up, and its answer *)
(* is computed on the state its place in the sequence gives.                 *)
THEOREM StoreIsLinearizable == Spec /\ []BurstsAreShort => ImplementsStore
<1>1. RInv /\ MInv /\ QInv /\ PInv /\ [Next]_vars => [Abstract!StoreNext]_(Abstract!storeVars)
  BY StepImplements, Zenon DEF StoreStep
<1> QED BY <1>1, InvariantsHold, InitImplements, PTL DEF Spec, ImplementsStore, Abstract!StoreSpec

-----------------------------------------------------------------------------
\* Every record of the write-ahead log has its snapshot file, and the types.

\* the records of disk d have their files, the one that triggerSnapshot is about to write included
HasFiles(v, c, d) ==
  /\ d.records \subseteq DOMAIN d.files
  /\ c.pc = "compact" => v.snap.index \in DOMAIN d.files

(* The inductive invariant on the records. *)
KInv == \A n \in Server : HasFiles(vol[n], cons[n], disk[n])

(* A step of one server. *)
LEMMA OneHasFiles ==
  ASSUME KInv, NEW n \in Server, HasFiles(vol'[n], cons'[n], disk'[n]),
         \A m \in Server \ {n} : vol'[m] = vol[m] /\ cons'[m] = cons[m] /\ disk'[m] = disk[m]
  PROVE  KInv'
<1> SUFFICES ASSUME NEW m \in Server PROVE HasFiles(vol'[m], cons'[m], disk'[m])
  BY Zenon DEF KInv
<1>1. CASE m = n
  BY <1>1, Zenon
<1>2. CASE m # n
  BY <1>2, Zenon DEF KInv
<1> QED BY <1>1, <1>2, Zenon

(* A consumer leaves "compact" or never was there, and adds no record. *)
LEMMA NoRecordAdded ==
  ASSUME RInv, KInv, NEW n \in Server, cons'[n].pc # "compact",
         \A m \in Server \ {n} : vol'[m] = vol[m] /\ cons'[m] = cons[m] /\ disk'[m] = disk[m],
         disk'[n].records = disk[n].records, DOMAIN disk[n].files \subseteq DOMAIN disk'[n].files
  PROVE  KInv'
<1>1. HasFiles(vol[n], cons[n], disk[n])
  BY Zenon DEF KInv
<1>2. HasFiles(vol'[n], cons'[n], disk'[n])
  BY <1>1, Zenon DEF HasFiles
<1> QED BY <1>2, OneHasFiles, Zenon

(* A consumer and what its pc becomes. *)
LEMMA PcIs ==
  ASSUME RInv, NEW n \in Server, NEW p, cons' = [cons EXCEPT ![n].pc = p]
  PROVE  cons'[n].pc = p
<1> DEFINE c == cons[n]
<1>1. IsCons(c) /\ cons'[n] = [c EXCEPT !.pc = p]
  BY ThisServer, Zenon
<1>2. [c EXCEPT !.pc = p] = [pc |-> p, snap |-> c.snap, next |-> c.next, upto |-> c.upto, reads |-> c.reads]
  BY <1>1, ConsField, Zenon
<1> QED BY <1>1, <1>2, Zenon

(* A Ready is received. *)
LEMMA ReceiveHasFiles ==
  ASSUME RInv, KInv, NEW n \in Server, Receive(n)
  PROVE  KInv'
<1> DEFINE c == cons[n]
<1> DEFINE d == disk[n]
<1>0. IsCons(c) /\ DiskInv(d)
  BY ThisServer, Zenon
<1>1. ASSUME NEW k \in vol[n].applied..Len(log), ReceiveEntries(n, k) PROVE KInv'
  <2> DEFINE f == vol[n].applied + 1
  <2> DEFINE A == AnsweredAt(n)
  <2> DEFINE p == "publish"
  <2> DEFINE e == SaveEntries(d, f, k)
  <2>1. cons'[n] = [c EXCEPT !.pc = p, !.next = f, !.upto = k, !.reads = A] /\ disk'[n] = e
        /\ \A m \in Server \ {n} : vol'[m] = vol[m] /\ cons'[m] = cons[m] /\ disk'[m] = disk[m]
    BY <1>1, ThisServer, Zenon DEF ReceiveEntries
  <2>2. p # "compact"
    BY Zenon
  <2> HIDE DEF f, A, p
  <2>3. cons'[n] = [pc |-> p, snap |-> c.snap, next |-> f, upto |-> k, reads |-> A]
    BY <1>0, <2>1, ConsReceives, Zenon
  <2>4. f \in Nat /\ k \in Nat /\ f <= d.commit + 1
    <3> DEFINE a == vol[n].applied
    <3>1. a \in Nat /\ a <= d.commit /\ d.commit \in Nat /\ Len(log) \in Nat
      BY ThisServer, TheseProposals, Zenon DEF VolInv, DiskInv
    <3>2. k \in a..Len(log) /\ f = a + 1
      BY Zenon DEF f
    <3> HIDE DEF a
    <3> QED BY <3>1, <3>2
  <2>5. e.files = d.files /\ e.records = d.records
    BY <1>0, <2>4, SaveEntriesKeeps, Zenon
  <2> HIDE DEF e
  <2> QED BY <2>1, <2>2, <2>3, <2>5, NoRecordAdded, Zenon
<1>2. ASSUME NEW m \in Server, ReceiveSnapshot(n, m) PROVE KInv'
  <2> DEFINE s == [vol[m].snap EXCEPT !.conf = vol[m].conf]
  <2> DEFINE b == [c EXCEPT !.pc = "record"]
  <2> DEFINE e == SaveSnap(d, s)
  <2>1. cons'[n] = [b EXCEPT !.snap = s] /\ disk'[n] = e
        /\ \A o \in Server \ {n} : vol'[o] = vol[o] /\ cons'[o] = cons[o] /\ disk'[o] = disk[o]
    BY <1>2, ThisServer, Zenon DEF ReceiveSnapshot
  <2>2. IsSnapshot(s)
    <3> DEFINE o == vol[m].snap
    <3> DEFINE f == vol[m].conf
    <3>1. IsSnapshot(o)
      BY ThisServer, Zenon DEF VolInv
    <3> HIDE DEF o, f
    <3>2. IsSnapshot([o EXCEPT !.conf = f])
      BY <3>1 DEF IsSnapshot
    <3> QED BY <3>2, Zenon DEF o, f
  <2>3. b = [pc |-> "record", snap |-> c.snap, next |-> c.next, upto |-> c.upto, reads |-> c.reads]
    BY <1>0, ConsField, Zenon
  <2> HIDE DEF b, s
  <2>4. cons'[n].pc = "record"
    BY <2>1, <2>3, Zenon
  <2>5. e.records = d.records /\ DOMAIN e.files = DOMAIN d.files \cup {s.index}
    BY <1>0, <2>2, SaveSnapKeeps, Zenon
  <2> HIDE DEF e
  <2> QED BY <2>1, <2>4, <2>5, NoRecordAdded, Zenon
<1> QED BY <1>1, <1>2, Zenon DEF Receive

(* The consumer writes a record only after its file. *)
LEMMA ConsumeHasFiles ==
  ASSUME RInv, KInv, NEW n \in Server, Consume(n)
  PROVE  KInv'
<1> DEFINE c == cons[n]
<1> DEFINE d == disk[n]
<1> DEFINE v == vol[n]
<1>0. IsCons(c) /\ DiskInv(d) /\ IsVol(v) /\ HasFiles(v, c, d)
  BY ThisServer, Zenon DEF KInv
<1>1. \A m \in Server \ {n} : vol'[m] = vol[m] /\ cons'[m] = cons[m] /\ disk'[m] = disk[m]
  BY ThisServer, Zenon DEF Consume, RecordSnapshot, SaveState, HandOffSnapshot, PublishWrite, PublishEmpty, PublishChange,
     FinishBatch, CompactLog, ReleaseReads
<1>2. ASSUME disk' = disk, cons'[n].pc # "compact" PROVE KInv'
  BY <1>1, <1>2, NoRecordAdded, Zenon
<1>3. ASSUME NEW i \in DOMAIN d.files, i \in Nat, disk'[n] = SaveRecord(d, i), cons'[n].pc # "compact" PROVE KInv'
  <2> DEFINE e == SaveRecord(d, i)
  <2>1. e.files = d.files /\ e.records = d.records \cup {i}
    BY <1>0, <1>3, SaveRecordKeeps, Zenon
  <2> HIDE DEF e
  <2>2. HasFiles(vol'[n], cons'[n], e)
    BY <1>0, <1>3, <2>1, Zenon DEF HasFiles
  <2> QED BY <1>1, <1>3, <2>2, OneHasFiles, Zenon DEF e
<1>4. CASE RecordSnapshot(n)
  <2>1. c.pc = "record" /\ disk'[n] = SaveRecord(d, c.snap.index) /\ cons' = [cons EXCEPT ![n].pc = "save"]
    BY <1>4, ThisServer, Zenon DEF RecordSnapshot
  <2>2. c.snap.index \in DOMAIN d.files /\ c.snap.index \in Nat
    BY <2>1, ThisServer, Zenon DEF ConsInv, IsSnapshot
  <2>3. cons'[n].pc = "save"
    BY <2>1, PcIs, Zenon
  <2> QED BY <1>3, <2>1, <2>2, <2>3, Zenon
<1>5. CASE CompactLog(n)
  <2>1. c.pc = "compact" /\ disk'[n] = SaveRecord(d, v.snap.index) /\ cons' = [cons EXCEPT ![n].pc = "reads"]
    BY <1>5, ThisServer, Zenon DEF CompactLog
  <2>2. v.snap.index \in DOMAIN d.files /\ v.snap.index \in Nat
    BY <1>0, <2>1, ThisServer, Zenon DEF HasFiles, VolInv, IsSnapshot
  <2>3. cons'[n].pc = "reads"
    BY <2>1, PcIs, Zenon
  <2> QED BY <1>3, <2>1, <2>2, <2>3, Zenon
<1>6. CASE SaveState(n)
  <2> DEFINE i == c.snap.index
  <2> DEFINE e == SaveEntries(d, i + 1, i)
  <2>1. c.pc = "save" /\ disk'[n] = e /\ cons' = [cons EXCEPT ![n].pc = "handoff"]
    BY <1>6, ThisServer, Zenon DEF SaveState
  <2>2. cons'[n].pc = "handoff"
    BY <2>1, PcIs, Zenon
  <2>3. i \in Nat /\ i \in DOMAIN d.files \cap d.records
    BY <2>1, ThisServer, Zenon DEF ConsInv, IsSnapshot
  <2> HIDE DEF i
  <2> DEFINE j == i + 1
  <2>4. j = i + 1 /\ j \in Nat
    BY <2>3
  <2> HIDE DEF j
  <2>5. SaveEntries(d, j, i).files = d.files /\ SaveEntries(d, j, i).records = d.records
    BY <1>0, <2>3, <2>4, SaveEntriesKeeps, Zenon
  <2>6. e.files = d.files /\ e.records = d.records
    BY <2>4, <2>5, Zenon
  <2> HIDE DEF e
  <2> QED BY <1>1, <2>1, <2>2, <2>6, NoRecordAdded, Zenon
<1>7. CASE HandOffSnapshot(n)
  <2>1. disk' = disk /\ cons'[n] = [Waiting EXCEPT !.pc = "reads"]
    BY <1>7, ThisServer, Zenon DEF HandOffSnapshot
  <2>2. cons'[n].pc = "reads"
    BY <2>1, Zenon DEF Waiting
  <2> QED BY <1>2, <2>1, <2>2, Zenon
<1>8. CASE PublishWrite(n) \/ PublishEmpty(n) \/ PublishChange(n)
  <2> DEFINE x == c.next + 1
  <2>1. disk' = disk /\ cons'[n] = [c EXCEPT !.next = x] /\ c.pc = "publish"
    BY <1>8, ThisServer, Zenon DEF PublishWrite, PublishEmpty, PublishChange
  <2> HIDE DEF x
  <2>2. [c EXCEPT !.next = x] = [pc |-> c.pc, snap |-> c.snap, next |-> x, upto |-> c.upto, reads |-> c.reads]
    BY <1>0, ConsField, Zenon
  <2>3. cons'[n].pc = "publish"
    BY <2>1, <2>2, Zenon
  <2> QED BY <1>2, <2>1, <2>3, Zenon
<1>9. CASE FinishBatch(n) /\ disk' = disk /\ cons' = [cons EXCEPT ![n].pc = "reads"]
  <2>1. cons'[n].pc = "reads"
    BY <1>9, PcIs, Zenon
  <2> QED BY <1>2, <1>9, <2>1, Zenon
<1>10. CASE /\ FinishBatch(n) /\ disk' = [disk EXCEPT ![n] = SaveSnap(d, EncodeSnapshot(n, c.upto))]
            /\ vol' = [vol EXCEPT ![n].applied = c.upto, ![n].snap = EncodeSnapshot(n, c.upto)]
  <2> DEFINE k == c.upto
  <2> DEFINE s == EncodeSnapshot(n, k)
  <2> DEFINE q == [v EXCEPT !.applied = k]
  <2> DEFINE e == SaveSnap(d, s)
  <2>1. vol'[n] = [q EXCEPT !.snap = s] /\ disk'[n] = e
    BY <1>10, ThisServer, Zenon
  <2>2. k \in Nat
    BY <1>10, ThisServer, Zenon DEF FinishBatch, ConsInv
  <2>3. IsSnapshot(s)
    BY <2>2, Zenon DEF EncodeSnapshot, IsSnapshot
  <2> HIDE DEF s, k
  <2>4. q = [applied |-> k, snap |-> v.snap, first |-> v.first, group |-> v.group, conf |-> v.conf]
    BY <1>0, VolField, Zenon
  <2> HIDE DEF q
  <2>5. vol'[n].snap = s
    BY <2>1, <2>4, Zenon
  <2>6. e.records = d.records /\ DOMAIN e.files = DOMAIN d.files \cup {s.index}
    BY <1>0, <2>3, SaveSnapKeeps, Zenon
  <2> HIDE DEF e
  <2>7. HasFiles(vol'[n], cons'[n], e)
    BY <1>0, <2>5, <2>6, Zenon DEF HasFiles
  <2> QED BY <1>1, <2>1, <2>7, OneHasFiles, Zenon
<1>11. CASE ReleaseReads(n)
  <2>1. disk' = disk /\ cons'[n] = Waiting
    BY <1>11, ThisServer, Zenon DEF ReleaseReads
  <2>2. cons'[n].pc = "idle"
    BY <2>1 DEF Waiting
  <2> QED BY <1>2, <2>1, <2>2, Zenon
<1>12. CASE FinishBatch(n)
  BY <1>9, <1>10, <1>12, Zenon DEF FinishBatch
<1> QED BY <1>4, <1>5, <1>6, <1>7, <1>8, <1>11, <1>12, Zenon DEF Consume

(* Every step keeps the files of the records. *)
LEMMA StepHasFiles == RInv /\ KInv /\ [Next]_vars => KInv'
<1> SUFFICES ASSUME RInv, KInv, [Next]_vars PROVE KInv'
  BY Zenon
<1>1. ASSUME UNCHANGED <<vol, cons, disk>> PROVE KInv'
  BY <1>1, Zenon DEF KInv
<1>2. CASE UNCHANGED vars
  BY <1>1, <1>2, Zenon DEF vars
<1>3. CASE Client \/ Library
  BY <1>1, <1>3, Zenon DEF Client, Library, ProposeWrite, ProposeChange, AskRead, SubmitRead, Cancel, Commit, AnswerRead
<1>4. ASSUME NEW n \in Server, Restart(n) PROVE KInv'
  <2>1. /\ disk' = disk /\ cons'[n] = Waiting
        /\ \A m \in Server \ {n} : vol'[m] = vol[m] /\ cons'[m] = cons[m] /\ disk'[m] = disk[m]
    BY <1>4, ThisServer, Zenon DEF Restart
  <2>2. cons'[n].pc = "idle"
    BY <2>1 DEF Waiting
  <2> QED BY <2>1, <2>2, NoRecordAdded, Zenon
<1>5. ASSUME NEW n \in Server, Execute(n) \/ Untrack(n) PROVE KInv'
  BY <1>1, <1>5, Zenon DEF Execute, ExecuteRestore, ExecuteWrite, ExecuteRead, Untrack
<1>6. ASSUME NEW n \in Server, NEW m \in Server, RefusedByPeer(n, m) PROVE KInv'
  BY <1>1, <1>6, Zenon DEF RefusedByPeer
<1> QED BY <1>2, <1>3, <1>4, <1>5, <1>6, ReceiveHasFiles, ConsumeHasFiles, Zenon DEF Next

(* At the start there is no record. *)
LEMMA InitHasFiles == Init => KInv
<1> SUFFICES ASSUME Init, NEW n \in Server PROVE HasFiles(vol[n], cons[n], disk[n])
  BY Zenon DEF KInv
<1>1. disk[n].records = {} /\ cons[n] = Waiting
  BY Zenon DEF Init
<1>2. cons[n].pc = "idle"
  BY <1>1 DEF Waiting
<1> QED BY <1>1, <1>2, Zenon DEF HasFiles

(* A snapshot of the log has its type. *)
LEMMA SnapshotHasType ==
  ASSUME NEW l, NEW t, LogMeans(l, t), NEW s, SnapshotOf(l, t, s)
  PROVE  s \in Snapshot
<1> DEFINE i == s.index
<1> DEFINE a == s.app
<1> DEFINE g == s.group
<1> DEFINE f == s.conf
<1>1. i \in 0..Len(l) /\ i \in Nat /\ a = StateAfter(t, i) /\ g = GroupAfter(t, i) /\ f \subseteq NodeID
      /\ s = [index |-> i, app |-> a, group |-> g, conf |-> f]
  BY Zenon DEF SnapshotOf, IsSnapshot, VotersAt
<1>2. a \in Seq(Writes)
  BY <1>1, StateIsWrites, Zenon
<1>3. g \in Group
  BY <1>1, Zenon DEF LogMeans
<1> HIDE DEF i, a, g, f
<1> QED BY <1>1, <1>2, <1>3, Zenon DEF Snapshot

(* What a server keeps has its type. *)
LEMMA ServerHasType ==
  ASSUME RInv, MInv, KInv, NEW n \in Server
  PROVE  /\ cons[n].pc \in {"idle", "record", "save", "handoff", "publish", "compact", "reads"}
         /\ cons[n].snap \in Snapshot /\ cons[n].upto <= Len(log) /\ cons[n].reads \subseteq Reads
         /\ vol[n] \in [applied : 0..Len(log), snap : Snapshot, first : Nat, group : Group, conf : SUBSET NodeID]
         /\ disk[n].commit \in 0..Len(log) /\ disk[n].entries \subseteq 1..Len(log)
         /\ disk[n].records \subseteq DOMAIN disk[n].files
         /\ app[n] \in Seq(Writes)
         /\ \A x \in results[n] : x.id \in Writes
<1> DEFINE k == Done(vol[n], cons[n])
<1>0. LogMeans(log, meaning) /\ k \in 0..Len(log) /\ Len(log) \in Nat
  BY ThisMatch, ReachedInLog, Zenon DEF Reached
<1> HIDE DEF k
<1>1. cons[n].pc \in {"idle", "record", "save", "handoff", "publish", "compact", "reads"}
      /\ cons[n].reads \subseteq Reads /\ cons[n].upto \in 0..Len(log) /\ SnapshotOf(log, meaning, cons[n].snap)
  BY ThisMatch, Zenon DEF ConsMatches
<1>2. cons[n].snap \in Snapshot
  BY <1>0, <1>1, SnapshotHasType, Zenon
<1>3. cons[n].upto <= Len(log)
  <2> DEFINE u == cons[n].upto
  <2>1. u \in 0..Len(log)
    BY <1>1, Zenon
  <2> HIDE DEF u
  <2>2. u <= Len(log)
    BY <1>0, <2>1
  <2> QED BY <2>2, Zenon DEF u
<1>4. vol[n] \in [applied : 0..Len(log), snap : Snapshot, first : Nat, group : Group, conf : SUBSET NodeID]
  <2> DEFINE a == vol[n].applied
  <2> DEFINE s == vol[n].snap
  <2> DEFINE i == vol[n].first
  <2> DEFINE g == vol[n].group
  <2> DEFINE f == vol[n].conf
  <2>1. vol[n] = [applied |-> a, snap |-> s, first |-> i, group |-> g, conf |-> f]
    BY ThisServer, Zenon DEF IsVol
  <2>2. a \in 0..Len(log) /\ i \in Nat /\ SnapshotOf(log, meaning, s) /\ g = GroupAfter(meaning, k) /\ f \subseteq NodeID
    BY ThisMatch, Zenon DEF VolMatches, VotersAt, k
  <2>3. g \in Group
    BY <1>0, <2>2, Zenon DEF LogMeans
  <2>4. s \in Snapshot
    BY <1>0, <2>2, SnapshotHasType, Zenon
  <2>5. a \in 0..Len(log) /\ i \in Nat /\ f \in SUBSET NodeID
    BY <2>2, Zenon
  <2> HIDE DEF a, s, i, g, f
  <2> QED BY <2>1, <2>3, <2>4, <2>5
<1>5. disk[n].commit \in 0..Len(log) /\ disk[n].entries \subseteq 1..Len(log)
      /\ disk[n].records \subseteq DOMAIN disk[n].files
  BY ThisMatch, Zenon DEF DiskMatches, KInv, HasFiles
<1>6. app[n] \in Seq(Writes)
  <2>1. CASE app[n] = StateAfter(meaning, k)
    BY <1>0, <2>1, StateIsWrites, Zenon
  <2>2. ASSUME NEW i \in 1..k, app[n] = StateAfter(meaning, i - 1) PROVE app[n] \in Seq(Writes)
    <3>1. i - 1 \in 0..Len(log)
      BY <1>0
    <3> QED BY <1>0, <2>2, <3>1, StateIsWrites, Zenon
  <2> QED BY <2>1, <2>2, ThisMatch, Zenon DEF ExecMatches, k
<1>7. \A x \in results[n] : x.id \in Writes
  BY ThisMatch, Zenon DEF ResultsMatch
<1> QED BY <1>1, <1>2, <1>3, <1>4, <1>5, <1>6, <1>7, Zenon

(* Every variable keeps its type; in particular a record of the write-ahead  *)
(* log never lacks its snapshot file, and no server is ahead of the log.     *)
THEOREM RaftTypes == Spec /\ []BurstsAreShort => []TypeOK
<1>1. RInv /\ MInv /\ QInv /\ KInv => TypeOK
  <2> SUFFICES ASSUME RInv, MInv, QInv, KInv PROVE TypeOK
    BY Zenon
  <2>1. log \in Seq(Writes \cup Changes \cup {Empty}) /\ pending \subseteq Writes \cup Changes
    BY Zenon DEF RInv
  <2>2. run \in [Server -> {"up", "stopped"}]
    BY Zenon DEF MInv
  <2>3. ASSUME NEW r \in Requests PROVE req[r].st \in Stages /\ req[r].at \in Server \cup {None}
    BY ThisRequest, Zenon DEF RequestOf, ReadStages, WriteStages, Stages
  <2> QED BY <2>1, <2>2, <2>3, ServerHasType, Zenon DEF TypeOK
<1> QED BY <1>1, InvariantsHold, InitHasFiles, StepHasFiles, PTL DEF Spec

-----------------------------------------------------------------------------
\* When bursts are short.

\* how many entries of the log are empty
Empties == {i \in DOMAIN log : log[i] = Empty}

(* The bound on the empty entries of the model is kept. *)
NInv == IsFiniteSet(Empties) /\ Cardinality(Empties) <= MaxEmpty

(* At the start there is none. *)
LEMMA InitEmpties == Init => NInv
<1> SUFFICES ASSUME Init PROVE NInv
  BY Zenon
<1>1. Empties = {}
  BY DEF Init, Empties
<1> QED BY <1>1, FS_EmptySet, CountsAreNaturals DEF NInv

(* The library commits an empty entry only below the bound. *)
LEMMA StepEmpties == RInv /\ NInv /\ [Next]_vars => NInv'
<1> SUFFICES ASSUME RInv, NInv, [Next]_vars PROVE NInv'
  BY Zenon
<1>1. CASE UNCHANGED log
  BY <1>1, Zenon DEF NInv, Empties
<1>2. ASSUME NEW e, Commit(e) PROVE NInv'
  <2> DEFINE L == Len(log)
  <2> DEFINE S == Empties
  <2>1. log' = Append(log, e) /\ (e = Empty => e \in pending \/ Cardinality(S) < MaxEmpty)
    BY <1>2, Zenon DEF Commit, Empties
  <2>2. L \in Nat /\ DOMAIN log = 1..L /\ DOMAIN log' = 1..L + 1 /\ log'[L + 1] = e /\ \A i \in 1..L : log'[i] = log[i]
    BY <2>1, TheseProposals
  <2>3. IsFiniteSet(S) /\ Cardinality(S) <= MaxEmpty /\ MaxEmpty \in Nat
    BY CountsAreNaturals, Zenon DEF NInv
  <2>4. Cardinality(S) \in Nat
    BY <2>3, FS_CardinalityType, Zenon
  <2>5. CASE e # Empty
    <3>1. Empties' = S
      BY <2>2, <2>5 DEF Empties
    <3> QED BY <2>3, <3>1, Zenon DEF NInv
  <2>6. CASE e = Empty
    <3>1. Empties' = S \cup {L + 1} /\ L + 1 \notin S
      BY <2>2, <2>6 DEF Empties
    <3>2. Cardinality(S) < MaxEmpty
      BY <2>1, <2>6, TheseProposals, NamesAreDistinct, Zenon
    <3> HIDE DEF S, L
    <3>3. IsFiniteSet(S \cup {L + 1}) /\ Cardinality(S \cup {L + 1}) = Cardinality(S) + 1
      BY <2>3, <3>1, FS_AddElement, Zenon
    <3>4. Cardinality(S) + 1 <= MaxEmpty
      BY <2>3, <2>4, <3>2
    <3> QED BY <3>1, <3>3, <3>4, Zenon DEF NInv
  <2> QED BY <2>5, <2>6, Zenon
<1>3. UNCHANGED log \/ \E e : Commit(e)
  <2>1. Client => UNCHANGED log
    BY Zenon DEF logVars, Client, ProposeWrite, ProposeChange, AskRead, SubmitRead, Cancel
  <2>2. Library => UNCHANGED log \/ \E e : Commit(e)
    BY Zenon DEF logVars, Library, AnswerRead
  <2>3. ASSUME NEW n \in Server, Receive(n) \/ Execute(n) \/ Untrack(n) \/ Restart(n) PROVE UNCHANGED log
    BY <2>3, Zenon DEF logVars, Receive, ReceiveEntries, ReceiveSnapshot, Execute, ExecuteRestore, ExecuteWrite,
       ExecuteRead, Untrack, Restart
  <2>4. ASSUME NEW n \in Server, Consume(n) PROVE UNCHANGED log
    BY <2>4, Zenon DEF logVars, Consume, RecordSnapshot, SaveState, HandOffSnapshot, PublishWrite, PublishEmpty,
       PublishChange, FinishBatch, CompactLog, ReleaseReads
  <2>5. ASSUME NEW n \in Server, NEW m \in Server, RefusedByPeer(n, m) PROVE UNCHANGED log
    BY <2>5, Zenon DEF logVars, RefusedByPeer
  <2>6. UNCHANGED vars => UNCHANGED log
    BY Zenon DEF vars, logVars
  <2> QED BY <2>1, <2>2, <2>3, <2>4, <2>5, <2>6, Zenon DEF Next
<1> QED BY <1>1, <1>2, <1>3, Zenon

(* The changes and the empty entries together are fewer than a snapshot      *)
(* covers.                                                                   *)
FewOtherEntries == IsFiniteSet(Changes) /\ Cardinality(Changes) + MaxEmpty < SnapshotInterval

(* Entries without a write are empty or distinct changes. *)
LEMMA FewOthers ==
  ASSUME FewOtherEntries, RInv, PInv, NInv
  PROVE  BurstsAreShort
<1> SUFFICES ASSUME NEW i \in 0..Len(log), NEW j \in 0..Len(log), \A k \in i + 1 .. j : log[k] \notin Writes
             PROVE  j < i + SnapshotInterval
  BY Zenon DEF BurstsAreShort
<1>1. Len(log) \in Nat /\ DOMAIN log = 1..Len(log) /\ i \in Nat /\ j \in Nat
      /\ SnapshotInterval \in Nat /\ MaxEmpty \in Nat
  BY TheseProposals, CountsAreNaturals
<1>2. CASE j <= i
  BY <1>1, <1>2, CountsAreNaturals
<1>3. CASE i < j
  <2> DEFINE B == i + 1 .. j
  <2> DEFINE E == {k \in B : log[k] = Empty}
  <2> DEFINE C == {k \in B : log[k] \in Changes}
  <2>1. IsFiniteSet(B) /\ Cardinality(B) = j - i
    BY <1>1, <1>3, FS_Interval
  <2>2. \A k \in B : k \in 1..Len(log) /\ log[k] \in Changes \cup {Empty}
    BY <1>1, TheseProposals
  <2>3. B = E \cup C /\ E \in SUBSET B /\ C \in SUBSET B /\ E \in SUBSET Empties
    BY <1>1, <2>2, Zenon DEF Empties
  <2>4. \A x, y \in C : log[x] = log[y] => x = y
    BY <2>2, NamesAreDistinct DEF PInv
  <2> DEFINE f == [k \in C |-> log[k]]
  <2>5. f \in [C -> Changes] /\ \A x, y \in C : f[x] = f[y] => x = y
    BY <2>4, Zenon
  <2> HIDE DEF B, E, C, f
  <2>6. IsFiniteSet(E) /\ IsFiniteSet(C)
    BY <2>1, <2>3, FS_Subset, Zenon
  <2>7. Cardinality(E) <= Cardinality(Empties)
    BY <2>3, FS_Subset, Zenon DEF NInv
  <2>8. ~(Cardinality(Changes) < Cardinality(C))
    BY <2>5, <2>6, FS_PigeonHole DEF FewOtherEntries
  <2>9. IsFiniteSet(E \cap C)
    BY <2>6, FS_Subset, Zenon
  <2>10. Cardinality(B) = Cardinality(E) + Cardinality(C) - Cardinality(E \cap C)
    BY <2>3, <2>6, FS_Union, Zenon
  <2>11. /\ Cardinality(E) \in Nat /\ Cardinality(C) \in Nat /\ Cardinality(E \cap C) \in Nat
         /\ Cardinality(Changes) \in Nat /\ Cardinality(Empties) \in Nat
    BY <2>6, <2>9, FS_CardinalityType, Zenon DEF NInv, FewOtherEntries
  <2>12. Cardinality(Empties) <= MaxEmpty /\ Cardinality(Changes) + MaxEmpty < SnapshotInterval
    BY Zenon DEF NInv, FewOtherEntries
  <2> QED BY <1>1, <2>1, <2>7, <2>8, <2>10, <2>11, <2>12
<1> QED BY <1>1, <1>2, <1>3

(* Bursts are short whenever the membership changes and the elections are    *)
(* fewer than the entries a snapshot covers: the hypothesis of the theorems  *)
(* above is met by every group that changes its members and its leader less  *)
(* often than --raft_snapshot_interval_entries.                              *)
THEOREM FewChangesSuffice == FewOtherEntries => (Spec => []BurstsAreShort)
<1> SUFFICES ASSUME FewOtherEntries PROVE Spec => []BurstsAreShort
  BY Zenon
<1> DEFINE All == RInv /\ MInv /\ QInv /\ PInv /\ NInv
<1>1. Init => All
  BY InitRecovery, InitMatches, InitRequests, InitProposals, InitEmpties, Zenon
<1>2. All => BurstsAreShort
  BY FewOthers, Zenon
<1>3. All /\ [Next]_vars => All'
  BY <1>2, StepRecovery, StepMatches, StepRequests, StepProposals, StepEmpties, Zenon
<1> QED BY <1>1, <1>2, <1>3, PTL DEF Spec
=============================================================================
