----------------------------- MODULE SqlProofs -----------------------------
(***************************************************************************)
(* Proofs about SqlTransact, for any set of handlers and any number of     *)
(* retries: what a transaction commits is fenced by the version its        *)
(* request names, and is what a first attempt would have committed; the    *)
(* row has ordered times, and attempts are bounded.                        *)
(***************************************************************************)
EXTENDS SqlTransact, TLAPS

Rows == [start : Int, end : Int, updatedAt : Int]

Times == [start : Int \cup {None}, end : Int \cup {None}]

Txns == [st      : {"idle", "begin", "executed", "done", "refused", "failed"},
         kind    : {None, "insert", "update", "delete"},
         version : Int \cup {None},
         at      : Int,
         asked   : Times,
         payload : Times,
         seen    : Rows \cup {None},
         attempt : Int]

\* Requests in progress: their kind and version, and the row an attempt read.
Started(t) == t.st \in {"begin", "executed"}

(* An insertion names no version; an update or a deletion names one that has *)
(* been given.                                                               *)
NamesAVersion(t, s) ==
  /\ t.kind \in {"insert", "update", "delete"}
  /\ IF t.kind = "insert" THEN t.version = None ELSE t.version \in Int /\ t.version <= s

(* AdjustTimeRange makes of the payload what it makes of the times asked     *)
(* for, on any row the request may still be executed on.                     *)
PayloadAsAsked(t, r) ==
  /\ t.kind = "insert" => Adjusted(t.payload, None, t.at) = Adjusted(t.asked, None, t.at)
  /\ t.kind = "update" /\ r # None /\ t.version = r.updatedAt
       => Adjusted(t.payload, r, t.at) = Adjusted(t.asked, r, t.at)

(* What an attempt has read and worked out before it commits. *)
ReadAsNamed(t) ==
  /\ IF t.seen = None THEN t.kind = "insert" ELSE t.kind # "insert" /\ t.version = t.seen.updatedAt
  /\ t.kind # "delete" => t.payload = Adjusted(t.asked, t.seen, t.at) /\ t.payload.end # None

HandlerInv(t, r, s) ==
  /\ t \in Txns
  /\ Started(t) => NamesAVersion(t, s) /\ PayloadAsAsked(t, r)
  /\ t.st = "executed" => ReadAsNamed(t)

(* The inductive invariant. *)
IInv ==
  /\ seq \in Int /\ now \in Int
  /\ row \in Rows \cup {None}
  /\ row # None => row.updatedAt <= seq
  /\ DOMAIN txn = Handlers
  /\ \A h \in Handlers : HandlerInv(txn[h], row, seq)

-----------------------------------------------------------------------------
\* Facts about AdjustTimeRange.

(* The absence of a time or of a row is neither a time nor a row. *)
LEMMA NoneIsNoTime == None \notin Int /\ None \notin Rows
BY SqlAssumption DEF Rows

(* The times AdjustTimeRange works out are times. *)
LEMMA AdjustedType ==
  ASSUME NEW p \in Times, NEW old \in Rows \cup {None}, NEW at \in Int
  PROVE  Adjusted(p, old, at) \in Times
<1>1. CASE old = None
  BY <1>1 DEF Adjusted, Times
<1>2. CASE old # None
  BY <1>2 DEF Adjusted, Times, Rows
<1> QED BY <1>1, <1>2

(* There is always a start. *)
LEMMA AdjustedStarts ==
  ASSUME NEW p \in Times, NEW old \in Rows \cup {None}, NEW at \in Int
  PROVE  Adjusted(p, old, at).start \in Int
BY DEF Adjusted, Times, Rows

(* Adjusting twice on one row is adjusting once. *)
LEMMA AdjustedTwice ==
  ASSUME NEW p \in Times, NEW old \in Rows \cup {None}, NEW at \in Int
  PROVE  Adjusted(Adjusted(p, old, at), old, at) = Adjusted(p, old, at)
<1>1. CASE old = None
  BY <1>1, NoneIsNoTime DEF Adjusted, Times
<1>2. CASE old # None
  BY <1>2, NoneIsNoTime DEF Adjusted, Times, Rows
<1> QED BY <1>1, <1>2

-----------------------------------------------------------------------------
\* The steps of one handler.

(* A new row has a version no request in progress names, so that a commit   *)
(* leaves what is known of the other handlers.                              *)
LEMMA OthersAfterCommit ==
  ASSUME NEW t, NEW r, NEW r2, NEW s \in Int,
         HandlerInv(t, r, s), r2 # None => r2.updatedAt = s + 1
  PROVE  HandlerInv(t, r2, s + 1)
<1>1. Started(t) => NamesAVersion(t, s + 1)
  BY DEF HandlerInv, NamesAVersion
<1>2. Started(t) => PayloadAsAsked(t, r2)
  BY NoneIsNoTime DEF HandlerInv, NamesAVersion, PayloadAsAsked
<1> QED BY <1>1, <1>2 DEF HandlerInv

(* A handler that is answered is no longer in progress. *)
LEMMA Answered ==
  ASSUME NEW t, NEW r, NEW s, NEW answer \in {"done", "refused", "failed"}, HandlerInv(t, r, s)
  PROVE  HandlerInv([t EXCEPT !.st = answer], r, s)
BY DEF HandlerInv, Started, Txns

(* A retry keeps the payload as the attempt left it. *)
LEMMA Retried ==
  ASSUME NEW t, NEW r, NEW s, HandlerInv(t, r, s), Started(t)
  PROVE  HandlerInv(Retry(t), r, s)
<1>1. CASE t.attempt < maxRetries
  <2> DEFINE n == t.attempt + 1
  <2> DEFINE u == [t EXCEPT !.st = "begin", !.attempt = n]
  <2>1. Retry(t) = u
    BY <1>1 DEF Retry
  <2>0. t \in Txns /\ n \in Int
    BY DEF HandlerInv, Txns
  <2> HIDE DEF n
  <2>2. /\ u \in Txns /\ u.st = "begin" /\ u.kind = t.kind /\ u.version = t.version
        /\ u.at = t.at /\ u.asked = t.asked /\ u.payload = t.payload
    BY <2>0, Zenon DEF Txns
  <2>3. NamesAVersion(u, s) /\ PayloadAsAsked(u, r)
    BY <2>2 DEF HandlerInv, NamesAVersion, PayloadAsAsked
  <2> HIDE DEF u
  <2>4. HandlerInv(u, r, s)
    BY <2>2, <2>3 DEF HandlerInv
  <2> QED BY <2>1, <2>4
<1>2. CASE ~(t.attempt < maxRetries)
  BY <1>2, Answered, Zenon DEF Retry
<1> QED BY <1>1, <1>2

(* The operation of an attempt that is not refused. *)
LEMMA Executed ==
  ASSUME NEW t, NEW r \in Rows \cup {None}, NEW s,
         HandlerInv(t, r, s), t.st = "begin",
         IF r = None THEN t.kind = "insert" ELSE t.version = r.updatedAt,
         t.kind # "delete"
           => Adjusted(t.payload, IF t.kind = "insert" THEN None ELSE r, t.at).end # None,
         NEW u, u = [t EXCEPT !.st = "executed", !.seen = r,
                              !.payload = IF t.kind = "delete" THEN t.payload
                                          ELSE Adjusted(t.payload, IF t.kind = "insert" THEN None ELSE r, t.at)]
  PROVE  HandlerInv(u, r, s)
<1> DEFINE old == IF t.kind = "insert" THEN None ELSE r
<1>1. /\ t \in Txns /\ NamesAVersion(t, s) /\ PayloadAsAsked(t, r)
      /\ t.payload \in Times /\ t.asked \in Times /\ t.at \in Int
  BY DEF HandlerInv, Started, Txns
<1>2. /\ u.st = "executed" /\ u.seen = r /\ u.kind = t.kind /\ u.version = t.version
      /\ u.at = t.at /\ u.asked = t.asked
      /\ u.payload = IF t.kind = "delete" THEN t.payload ELSE Adjusted(t.payload, old, t.at)
  BY <1>1 DEF Txns
<1>3. r = None <=> t.kind = "insert"
  BY <1>1, NoneIsNoTime DEF NamesAVersion, Rows
<1>4. old = r
  BY <1>3
<1>5. t.kind # "delete" => Adjusted(t.payload, r, t.at) = Adjusted(t.asked, r, t.at)
  BY <1>1, <1>3 DEF PayloadAsAsked, NamesAVersion
<1>6. Adjusted(t.payload, r, t.at) \in Times
  BY <1>1, AdjustedType
<1>7. u \in Txns
  <2>1. u.payload \in Times
    BY <1>1, <1>2, <1>4, <1>6
  <2> HIDE DEF old
  <2>2. [t EXCEPT !.st = "executed", !.seen = r, !.payload = u.payload] \in Txns
    BY <1>1, <2>1, Zenon DEF Txns
  <2> QED BY <2>2, <1>2
<1>8. ReadAsNamed(u)
  BY <1>2, <1>3, <1>4, <1>5 DEF ReadAsNamed
<1>9. NamesAVersion(u, s)
  BY <1>1, <1>2 DEF NamesAVersion
<1>10. Adjusted(Adjusted(t.payload, r, t.at), r, t.at) = Adjusted(t.payload, r, t.at)
  BY <1>1, AdjustedTwice
<1>11. PayloadAsAsked(u, r)
  BY <1>2, <1>3, <1>4, <1>5, <1>10 DEF PayloadAsAsked
<1> QED BY <1>7, <1>8, <1>9, <1>11 DEF HandlerInv

-----------------------------------------------------------------------------
\* The inductive invariant.

(* With no request yet, at most one row, of the first version. *)
LEMMA InitInv == Init => IInv
<1> SUFFICES ASSUME Init PROVE IInv
  OBVIOUS
<1>1. row \in Rows \cup {None} /\ (row # None => row.updatedAt <= seq)
  <2>1. CASE row = None
    BY <2>1
  <2>2. CASE row \in [start : Starts, end : Ends, updatedAt : {1}]
    <3>1. row = [start |-> row.start, end |-> row.end, updatedAt |-> row.updatedAt]
      BY <2>2
    <3>2. row.start \in Int /\ row.end \in Int /\ row.updatedAt = 1 /\ seq = 1
      BY <2>2, SqlAssumption, Zenon DEF Init
    <3> QED BY <3>1, <3>2 DEF Rows
  <2> QED BY <2>1, <2>2 DEF Init
<1>2. Idle \in Txns /\ Idle.st = "idle"
  BY DEF Idle, Txns, Times
<1>3. HandlerInv(Idle, row, seq)
  BY <1>2 DEF HandlerInv, Started
<1> QED BY <1>1, <1>3 DEF Init, IInv

(* Every step keeps the invariant: a handler's own steps by the lemmas      *)
(* above, the others' because only a commit changes the row.                *)
LEMMA StepInv == IInv /\ [Next]_vars => IInv'
<1> SUFFICES ASSUME IInv, [Next]_vars PROVE IInv'
  OBVIOUS
<1> USE DEF IInv
<1>1. ASSUME NEW h \in Handlers, NEW u, txn' = [txn EXCEPT ![h] = u], HandlerInv(u, row, seq),
             UNCHANGED <<row, now, seq>>
      PROVE  IInv'
  <2>1. ASSUME NEW k \in Handlers PROVE HandlerInv(txn'[k], row, seq)
    BY <1>1
  <2>2. DOMAIN txn' = Handlers
    BY <1>1
  <2> QED BY <1>1, <2>1, <2>2
<1>2. ASSUME NEW h \in Handlers, Request(h) PROVE IInv'
  <2>1. PICK kind \in {"insert", "update", "delete"}, version \in 1..seq \cup {None},
             start \in Starts \cup {None}, end \in Ends \cup {None} :
          /\ kind = "insert" <=> version = None
          /\ kind = "delete" => start = None /\ end = None
          /\ txn' = [txn EXCEPT ![h] = [txn[h] EXCEPT !.st = "begin", !.kind = kind, !.version = version,
                                           !.at = now, !.asked = [start |-> start, end |-> end],
                                           !.payload = [start |-> start, end |-> end]]]
    BY <1>2, Zenon DEF Request
  <2> DEFINE p == [start |-> start, end |-> end]
  <2> DEFINE u == [txn[h] EXCEPT !.st = "begin", !.kind = kind, !.version = version,
                                 !.at = now, !.asked = p, !.payload = p]
  <2>2. p \in Times /\ txn[h] \in Txns /\ version \in Int \cup {None}
    BY SqlAssumption DEF Times, HandlerInv
  <2>3. txn' = [txn EXCEPT ![h] = u]
    BY <2>1
  <2> HIDE DEF p
  <2>4. /\ u \in Txns /\ u.st = "begin" /\ u.kind = kind /\ u.version = version
        /\ u.asked = p /\ u.payload = p
    BY <2>2, Zenon DEF Txns
  <2> HIDE DEF u
  <2>5. NamesAVersion(u, seq)
    BY <2>1, <2>4, NoneIsNoTime DEF NamesAVersion
  <2>6. PayloadAsAsked(u, row)
    BY <2>4 DEF PayloadAsAsked
  <2>7. HandlerInv(u, row, seq)
    BY <2>4, <2>5, <2>6 DEF HandlerInv
  <2>8. UNCHANGED <<row, now, seq>>
    BY <1>2 DEF Request
  <2> QED BY <2>3, <2>7, <2>8, <1>1
<1>3. ASSUME NEW h \in Handlers, Execute(h) PROVE IInv'
  <2> DEFINE t == txn[h]
  <2> DEFINE u == [t EXCEPT !.st = "executed", !.seen = row,
                            !.payload = IF t.kind = "delete" THEN t.payload
                                        ELSE Adjusted(t.payload, IF t.kind = "insert" THEN None ELSE row, t.at)]
  <2>1. HandlerInv(t, row, seq)
    OBVIOUS
  <2>2. t.st = "begin" /\ UNCHANGED <<row, now, seq>>
    BY <1>3 DEF Execute
  <2>3. CASE Valid(t) /\ VersionMatches(t)
    <3>1. txn' = [txn EXCEPT ![h] = u]
      BY <1>3, <2>3 DEF Execute, Old, RequestTime
    <3>2. IF row = None THEN t.kind = "insert" ELSE t.version = row.updatedAt
      BY <2>3 DEF VersionMatches
    <3>3. t.kind # "delete"
            => Adjusted(t.payload, IF t.kind = "insert" THEN None ELSE row, t.at).end # None
      BY <2>3 DEF Valid, Adjustable, Old, RequestTime
    <3> HIDE DEF t
    <3>4. HandlerInv(u, row, seq)
      BY <2>1, <2>2, <3>2, <3>3, Executed, Zenon
    <3> HIDE DEF u
    <3> QED BY <3>1, <3>4, <2>2, <1>1
  <2>4. CASE ~(Valid(t) /\ VersionMatches(t))
    <3>1. txn' = [txn EXCEPT ![h] = [t EXCEPT !.st = "refused"]]
      BY <1>3, <2>4, Zenon DEF Execute
    <3>2. HandlerInv([t EXCEPT !.st = "refused"], row, seq)
      BY <2>1, Answered, Zenon
    <3> QED BY <3>1, <3>2, <2>2, <1>1
  <2> QED BY <2>3, <2>4
<1>4. ASSUME NEW h \in Handlers, CommitTx(h) PROVE IInv'
  <2>1. PICK answer \in {"done", "failed"} : txn' = [txn EXCEPT ![h].st = answer]
    BY <1>4, Zenon DEF CommitTx
  <2>2. seq' = seq + 1 /\ now' = now /\ seq' \in Int
    BY <1>4 DEF CommitTx
  <2>3. row' \in Rows \cup {None} /\ (row' # None => row'.updatedAt = seq + 1)
    <3>1. HandlerInv(txn[h], row, seq) /\ txn[h].st = "executed"
      BY <1>4 DEF CommitTx
    <3>2. CASE txn[h].kind = "delete"
      BY <1>4, <3>2 DEF CommitTx
    <3>3. CASE txn[h].kind # "delete"
      <4>1. row' = [start |-> txn[h].payload.start, end |-> txn[h].payload.end, updatedAt |-> seq + 1]
        BY <1>4, <3>3 DEF CommitTx
      <4>2. txn[h].payload.start \in Int /\ txn[h].payload.end \in Int
        <5>1. txn[h].payload \in Times /\ txn[h].asked \in Times /\ txn[h].at \in Int /\ txn[h].seen \in Rows \cup {None}
          BY <3>1 DEF HandlerInv, Txns
        <5>2. txn[h].payload = Adjusted(txn[h].asked, txn[h].seen, txn[h].at) /\ txn[h].payload.end # None
          BY <3>1, <3>3 DEF HandlerInv, ReadAsNamed
        <5>3. txn[h].payload.start \in Int
          BY <5>1, <5>2, AdjustedStarts, Zenon
        <5>4. txn[h].payload.end \in Int
          BY <5>1, <5>2 DEF Times
        <5> QED BY <5>3, <5>4
      <4> QED BY <4>1, <4>2 DEF Rows
    <3> QED BY <3>2, <3>3
  <2>4. \A k \in Handlers : HandlerInv(txn[k], row', seq')
    BY <2>2, <2>3, OthersAfterCommit
  <2>5. HandlerInv([txn[h] EXCEPT !.st = answer], row', seq')
    BY <2>4, Answered, Zenon
  <2>6. ASSUME NEW k \in Handlers PROVE HandlerInv(txn'[k], row', seq')
    <3>1. CASE k = h
      BY <2>1, <2>5, <3>1
    <3>2. CASE k # h
      BY <2>1, <2>4, <3>2
    <3> QED BY <3>1, <3>2
  <2>7. row' # None => row'.updatedAt <= seq'
    BY <2>2, <2>3
  <2>8. DOMAIN txn' = Handlers
    BY <2>1
  <2> QED BY <2>2, <2>3, <2>6, <2>7, <2>8
<1>5. ASSUME NEW h \in Handlers, AbortTx(h) PROVE IInv'
  <2>1. /\ Started(txn[h]) /\ txn' = [txn EXCEPT ![h] = Retry(txn[h])]
        /\ UNCHANGED <<row, now, seq>>
    BY <1>5 DEF AbortTx, Started
  <2>2. HandlerInv(Retry(txn[h]), row, seq)
    BY <2>1, Retried
  <2> QED BY <2>1, <2>2, <1>1
<1>6. ASSUME NEW h \in Handlers, FailTx(h) PROVE IInv'
  <2>1. txn' = [txn EXCEPT ![h] = [txn[h] EXCEPT !.st = "failed"]] /\ UNCHANGED <<row, now, seq>>
    BY <1>6 DEF FailTx
  <2>2. HandlerInv([txn[h] EXCEPT !.st = "failed"], row, seq)
    BY Answered, Zenon
  <2> QED BY <2>1, <2>2, <1>1
<1>7. CASE Tick
  BY <1>7 DEF Tick
<1>8. CASE UNCHANGED vars
  BY <1>8 DEF vars
<1> QED BY <1>2, <1>3, <1>4, <1>5, <1>6, <1>7, <1>8 DEF Next, Handle

(* Only a commit changes the row ... *)
LEMMA OnlyCommitsWrite ==
  ASSUME [Next]_vars, row' # row
  PROVE  \E h \in Handlers : CommitTx(h)
BY Zenon DEF Next, Handle, Request, Execute, AbortTx, FailTx, Tick, vars

(* ... and it is told from the other steps of its handler by its answer.    *)
LEMMA CommitIsSeen ==
  ASSUME IInv, NEW h \in Handlers, CommitTx(h)
  PROVE  Committing(h)
<1>1. PICK answer \in {"done", "failed"} : txn' = [txn EXCEPT ![h].st = answer]
  BY Zenon DEF CommitTx
<1>2. txn[h] \in Txns /\ DOMAIN txn = Handlers
  BY DEF IInv, HandlerInv
<1>3. txn'[h].st = answer
  BY <1>1, <1>2 DEF Txns
<1> QED BY <1>3 DEF CommitTx, Committing

-----------------------------------------------------------------------------
(* Every reachable state satisfies the inductive invariant. *)
THEOREM SqlInvariance == Spec => []IInv
BY InitInv, StepInv, PTL DEF Spec

(* Every change of the ISA's row is fenced by the version the request names *)
(* (executeUpdateISA), whichever handlers commit in between and however     *)
(* often Transact retries.                                                  *)
THEOREM ChangesFenced == Spec => ChangesAreFenced
<1>1. ASSUME IInv, [Next]_vars, row' # row
      PROVE  \E h \in Handlers :
               Committing(h) /\ txn[h].version = (IF row = None THEN None ELSE row.updatedAt)
  <2>1. PICK h \in Handlers : CommitTx(h)
    BY <1>1, OnlyCommitsWrite
  <2>2. Committing(h)
    BY <1>1, <2>1, CommitIsSeen
  <2>3. /\ HandlerInv(txn[h], row, seq) /\ txn[h].st = "executed" /\ row = txn[h].seen
    BY <1>1, <2>1 DEF CommitTx, IInv
  <2>4. txn[h].version = (IF row = None THEN None ELSE row.updatedAt)
    BY <2>3 DEF HandlerInv, Started, NamesAVersion, ReadAsNamed
  <2> QED BY <2>2, <2>4
<1> QED BY <1>1, SqlInvariance, PTL DEF Spec, ChangesAreFenced

(* What a request commits is what AdjustTimeRange makes of the times it     *)
(* asked for, on the row it replaces: no earlier attempt leaves a trace.    *)
THEOREM CommitsAreAsAsked == Spec => RetriedAsAsked
<1>1. ASSUME IInv, [Next]_vars, row' # row, row' # None
      PROVE  \E h \in Handlers :
               /\ Committing(h)
               /\ [start |-> row'.start, end |-> row'.end] = Adjusted(txn[h].asked, Old(txn[h]), txn[h].at)
  <2>1. PICK h \in Handlers : CommitTx(h)
    BY <1>1, OnlyCommitsWrite
  <2>2. Committing(h)
    BY <1>1, <2>1, CommitIsSeen
  <2> DEFINE t == txn[h]
  <2>3. /\ HandlerInv(t, row, seq) /\ t.st = "executed" /\ row = t.seen /\ t.kind # "delete"
        /\ row' = [start |-> t.payload.start, end |-> t.payload.end, updatedAt |-> seq + 1]
    BY <1>1, <2>1 DEF CommitTx, IInv
  <2>4. t.payload = Adjusted(t.asked, row, t.at) /\ t.payload \in Times /\ Old(t) = row
    BY <2>3 DEF HandlerInv, ReadAsNamed, Txns, Old
  <2>5. t.payload = [start |-> row'.start, end |-> row'.end]
    BY <2>3, <2>4 DEF Times
  <2> QED BY <2>2, <2>4, <2>5, Zenon
<1> QED BY <1>1, SqlInvariance, PTL DEF Spec, RetriedAsAsked

-----------------------------------------------------------------------------
\* Bounds.

(* A handler that has used no more attempts than it may, for a request that *)
(* has been made.                                                           *)
Bounded(t, time) == t.attempt \in 0..maxRetries /\ t.at \in 0..time

(* A row has ordered times and a version that has been given. *)
OrderedRow(r, s) == r # None => r.start < r.end /\ r.updatedAt \in 1..s

(* What TypeOK adds to the inductive invariant. *)
BInv ==
  /\ seq \in Nat \ {0} /\ now \in Nat
  /\ OrderedRow(row, seq)
  /\ \A h \in Handlers : Bounded(txn[h], now)

(* Answers and retries stay within the bounds. *)
LEMMA StaysBounded ==
  ASSUME NEW t \in Txns, NEW time \in Nat, Bounded(t, time), NEW st
  PROVE  /\ Bounded([t EXCEPT !.st = st], time)
         /\ Bounded(Retry(t), time)
<1>1. Bounded([t EXCEPT !.st = st], time)
  BY DEF Bounded, Txns
<1>2. CASE t.attempt < maxRetries
  <2> DEFINE n == t.attempt + 1
  <2>1. Retry(t) = [t EXCEPT !.st = "begin", !.attempt = n]
    BY <1>2 DEF Retry
  <2>2. n \in 0..maxRetries /\ t.at \in 0..time
    BY <1>2, SqlAssumption DEF Bounded, Txns
  <2> HIDE DEF n
  <2>3. Bounded([t EXCEPT !.st = "begin", !.attempt = n], time)
    BY <2>2 DEF Bounded, Txns
  <2> QED BY <1>1, <2>1, <2>3
<1>3. CASE ~(t.attempt < maxRetries)
  <2>1. Retry(t) = [t EXCEPT !.st = "failed"]
    BY <1>3 DEF Retry
  <2>2. Bounded([t EXCEPT !.st = "failed"], time)
    BY DEF Bounded, Txns
  <2> QED BY <1>1, <2>1, <2>2
<1> QED BY <1>2, <1>3

(* Every step keeps the bounds. *)
LEMMA StepBounds == IInv /\ BInv /\ [Next]_vars => BInv'
<1> SUFFICES ASSUME IInv, BInv, [Next]_vars PROVE BInv'
  OBVIOUS
<1>0. /\ DOMAIN txn = Handlers /\ \A h \in Handlers : txn[h] \in Txns /\ Bounded(txn[h], now)
      /\ seq \in Nat \ {0} /\ now \in Nat
  BY DEF IInv, HandlerInv, BInv
<1>1. ASSUME NEW h \in Handlers, NEW u, txn' = [txn EXCEPT ![h] = u], Bounded(u, now),
             UNCHANGED <<row, now, seq>>
      PROVE  BInv'
  BY <1>0, <1>1 DEF BInv
<1>2. ASSUME NEW h \in Handlers, Request(h) PROVE BInv'
  <2>1. PICK kind \in {"insert", "update", "delete"}, version \in 1..seq \cup {None},
             start \in Starts \cup {None}, end \in Ends \cup {None} :
          /\ kind = "insert" <=> version = None
          /\ kind = "delete" => start = None /\ end = None
          /\ txn' = [txn EXCEPT ![h] = [txn[h] EXCEPT !.st = "begin", !.kind = kind, !.version = version,
                                           !.at = now, !.asked = [start |-> start, end |-> end],
                                           !.payload = [start |-> start, end |-> end]]]
    BY <1>2, Zenon DEF Request
  <2> DEFINE p == [start |-> start, end |-> end]
  <2> DEFINE u == [txn[h] EXCEPT !.st = "begin", !.kind = kind, !.version = version,
                                 !.at = now, !.asked = p, !.payload = p]
  <2>2. u.attempt = txn[h].attempt /\ u.at = now
    BY <1>0 DEF Txns
  <2>3. txn[h].attempt \in 0..maxRetries
    BY <1>0 DEF Bounded
  <2> HIDE DEF u
  <2>4. Bounded(u, now)
    BY <1>0, <2>2, <2>3 DEF Bounded
  <2>5. UNCHANGED <<row, now, seq>>
    BY <1>2 DEF Request
  <2> QED BY <1>1, <2>1, <2>4, <2>5, Zenon DEF u
<1>3. ASSUME NEW h \in Handlers, Execute(h) PROVE BInv'
  <2> DEFINE t == txn[h]
  <2>1. UNCHANGED <<row, now, seq>>
    BY <1>3 DEF Execute
  <2>2. PICK u : /\ txn' = [txn EXCEPT ![h] = u]
                 /\ \/ \E payload : u = [t EXCEPT !.st = "executed", !.seen = row, !.payload = payload]
                    \/ u = [t EXCEPT !.st = "refused"]
    <3>1. CASE Valid(t) /\ VersionMatches(t)
      BY <1>3, <3>1, Zenon DEF Execute
    <3>2. CASE ~(Valid(t) /\ VersionMatches(t))
      BY <1>3, <3>2, Zenon DEF Execute
    <3> QED BY <3>1, <3>2, Zenon
  <2>3. t \in Txns /\ Bounded(t, now)
    BY <1>0
  <2> HIDE DEF t
  <2>4. Bounded(u, now)
    <3>1. CASE u = [t EXCEPT !.st = "refused"]
      BY <1>0, <2>3, <3>1, StaysBounded
    <3>2. ASSUME NEW payload, u = [t EXCEPT !.st = "executed", !.seen = row, !.payload = payload]
          PROVE  Bounded(u, now)
      <4>1. u.attempt = t.attempt /\ u.at = t.at
        BY <2>3, <3>2 DEF Txns
      <4> QED BY <2>3, <4>1 DEF Bounded
    <3> QED BY <2>2, <3>1, <3>2, Zenon
  <2> QED BY <1>1, <2>1, <2>2, <2>4, Zenon
<1>4. ASSUME NEW h \in Handlers, CommitTx(h) PROVE BInv'
  <2>1. PICK answer \in {"done", "failed"} : txn' = [txn EXCEPT ![h].st = answer]
    BY <1>4, Zenon DEF CommitTx
  <2>2. seq' = seq + 1 /\ now' = now
    BY <1>4 DEF CommitTx
  <2>3. OrderedRow(row', seq')
    <3>1. CASE txn[h].kind = "delete"
      BY <1>4, <3>1 DEF CommitTx, OrderedRow
    <3>2. CASE txn[h].kind # "delete"
      <4>1. /\ row' = [start |-> txn[h].payload.start, end |-> txn[h].payload.end, updatedAt |-> seq + 1]
            /\ txn[h].payload.start < txn[h].payload.end
        BY <1>4, <3>2 DEF CommitTx
      <4>2. row'.start < row'.end /\ row'.updatedAt = seq + 1
        BY <4>1
      <4> QED BY <1>0, <2>2, <4>2 DEF OrderedRow
    <3> QED BY <3>1, <3>2
  <2>4. Bounded([txn[h] EXCEPT !.st = answer], now)
    BY <1>0, StaysBounded
  <2>5. \A k \in Handlers : Bounded(txn'[k], now)
    BY <1>0, <2>1, <2>4
  <2> QED BY <1>0, <2>2, <2>3, <2>5 DEF BInv
<1>5. ASSUME NEW h \in Handlers, AbortTx(h) PROVE BInv'
  <2>1. txn' = [txn EXCEPT ![h] = Retry(txn[h])] /\ UNCHANGED <<row, now, seq>>
    BY <1>5 DEF AbortTx
  <2>2. Bounded(Retry(txn[h]), now)
    BY <1>0, StaysBounded, Zenon
  <2> QED BY <1>1, <2>1, <2>2, Zenon
<1>6. ASSUME NEW h \in Handlers, FailTx(h) PROVE BInv'
  <2>1. txn' = [txn EXCEPT ![h] = [txn[h] EXCEPT !.st = "failed"]] /\ UNCHANGED <<row, now, seq>>
    BY <1>6 DEF FailTx
  <2>2. Bounded([txn[h] EXCEPT !.st = "failed"], now)
    BY <1>0, StaysBounded
  <2> QED BY <1>1, <2>1, <2>2, Zenon
<1>7. CASE Tick
  BY <1>0, <1>7 DEF Tick, BInv, Bounded
<1>8. CASE UNCHANGED vars
  BY <1>8 DEF vars, BInv
<1> QED BY <1>2, <1>3, <1>4, <1>5, <1>6, <1>7, <1>8 DEF Next, Handle

(* The row always has ordered times and a version that was given, and no    *)
(* handler makes more attempts than --datastore_max_retries allows.         *)
THEOREM SqlTypes == Spec => []TypeOK
<1>1. Init => BInv
  <2> SUFFICES ASSUME Init PROVE BInv
    OBVIOUS
  <2>1. row # None => row.start < row.end /\ row.updatedAt = 1
    <3>1. CASE row \in {r \in [start : Starts, end : Ends, updatedAt : {1}] : r.start < r.end}
      BY <3>1
    <3> QED BY <3>1 DEF Init
  <2>2. seq = 1 /\ now = 0 /\ OrderedRow(row, seq)
    BY <2>1 DEF Init, OrderedRow
  <2>3. Idle.attempt = 0 /\ Idle.at = 0 /\ \A h \in Handlers : txn[h] = Idle
    BY DEF Init, Idle
  <2>4. \A h \in Handlers : Bounded(txn[h], now)
    <3>1. \A h \in Handlers : txn[h].attempt = 0 /\ txn[h].at = 0
      BY <2>3, Zenon
    <3>2. 0 \in 0..maxRetries /\ 0 \in 0..now
      BY <2>2, SqlAssumption
    <3> QED BY <3>1, <3>2, Zenon DEF Bounded
  <2> QED BY <2>2, <2>4 DEF BInv
<1>2. IInv /\ BInv => TypeOK
  BY DEF IInv, HandlerInv, Txns, BInv, OrderedRow, Bounded, TypeOK
<1> QED BY <1>1, <1>2, StepBounds, InitInv, StepInv, PTL DEF Spec
=============================================================================
