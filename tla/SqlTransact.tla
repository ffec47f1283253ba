---------------------------- MODULE SqlTransact ----------------------------
(***************************************************************************)
(* Transact of sqlstore: concurrent handlers run their operation on the    *)
(* row of one identification service area, each in serializable            *)
(* transactions that it starts again when the database asks for it.        *)
(*                                                                         *)
(* A handler executes the same request object in every attempt, with the   *)
(* timestamp of the request, and AdjustTimeRange writes the times it works *)
(* out into that object.  The database is external: it commits a           *)
(* transaction only if the row is still what the transaction read, and may *)
(* refuse one at any point.                                                *)
(***************************************************************************)
EXTENDS Integers

CONSTANTS Handlers,        \* each executes one request
          Starts, Ends,    \* the times requests may give
          Skew,            \* maxClockSkew, five minutes
          maxRetries,      \* --datastore_max_retries
          MaxNow,          \* bound of the clock
          None             \* an absent row, time or version

ASSUME SqlAssumption ==
  /\ Starts \subseteq Int /\ Ends \subseteq Int /\ None \notin Int
  /\ None \notin [start : Int, end : Int, updatedAt : Int]
  /\ {Skew, maxRetries, MaxNow} \subseteq Nat

VARIABLES row,   \* the ISA: start, end, updatedAt
          txn,   \* per handler: its request and the attempt it is in
          now,
          seq    \* the writes so far; it stamps them

vars == <<row, txn, now, seq>>

Idle == [st |-> "idle", kind |-> None, version |-> None, at |-> 0,
         asked |-> [start |-> None, end |-> None], payload |-> [start |-> None, end |-> None],
         seen |-> None, attempt |-> 0]

\* No ISA, or one that an earlier request inserted.
Init ==
  /\ row \in {None} \cup {r \in [start : Starts, end : Ends, updatedAt : {1}] : r.start < r.end}
  /\ txn = [h \in Handlers |-> Idle]
  /\ now = 0 /\ seq = 1

-----------------------------------------------------------------------------
(* AdjustTimeRange of the times p of a request made at time at.            *)

Adjusted(p, old, at) ==
  [start |-> IF p.start # None THEN p.start ELSE IF old = None THEN at ELSE old.start,
   end   |-> IF p.end # None \/ old = None THEN p.end ELSE old.end]

Adjustable(p, old, at) ==
  LET q == Adjusted(p, old, at)
  IN  /\ p.start # None => at - p.start <= Skew
      /\ q.end # None /\ q.end >= q.start

-----------------------------------------------------------------------------
(* A handler.                                                              *)

\* A new request: an insertion has no version, an update or a deletion names the one it replaces.
Request(h) ==
  /\ txn[h].st = "idle"
  /\ \E kind \in {"insert", "update", "delete"}, version \in 1..seq \cup {None},
        start \in Starts \cup {None}, end \in Ends \cup {None} :
       /\ kind = "insert" <=> version = None
       /\ kind = "delete" => start = None /\ end = None
       /\ txn' = [txn EXCEPT ![h] = [@ EXCEPT !.st = "begin", !.kind = kind, !.version = version,
                                              !.at = now, !.asked = [start |-> start, end |-> end],
                                              !.payload = [start |-> start, end |-> end]]]
  /\ UNCHANGED <<row, now, seq>>

\* mutant: any version of an existing row will do
AnyVersion(t) == (t.kind = "insert") = (row = None)

\* The insertion finds no row, the others find the version they name.
VersionMatches(t) == IF row = None THEN t.kind = "insert" ELSE t.version = row.updatedAt

\* The previous ISA, as AdjustTimeRange is given it.
Old(t) == IF t.kind = "insert" THEN None ELSE row

\* mutant: each attempt reads the clock
ClockTime(t) == now

\* MustFromContext: the time of the request, the same in all its attempts.
RequestTime(t) == t.at

Valid(t) == t.kind # "delete" => Adjustable(t.payload, Old(t), RequestTime(t))

\* GetISA with FOR UPDATE waits for the transactions that have the row.
Locked(h) == \E k \in Handlers \ {h} : txn[k].st = "executed" /\ txn[k].kind # "insert"

\* The operation up to its write: the row is read and the payload adjusted.
Execute(h) ==
  LET t == txn[h] IN
  /\ t.st = "begin"
  /\ t.kind # "insert" => ~Locked(h)
  /\ txn' = [txn EXCEPT ![h] =
               IF Valid(t) /\ VersionMatches(t)
               THEN [t EXCEPT !.st = "executed", !.seen = row,
                              !.payload = IF t.kind = "delete" THEN @ ELSE Adjusted(@, Old(t), RequestTime(t))]
               ELSE [t EXCEPT !.st = "refused"]]
  /\ UNCHANGED <<row, now, seq>>

\* The write and COMMIT; the answer may be lost with the connection.
CommitTx(h) ==
  LET t == txn[h] IN
  /\ t.st = "executed" /\ row = t.seen
  /\ t.kind # "delete" => t.payload.start < t.payload.end
  /\ row' = IF t.kind = "delete" THEN None
            ELSE [start |-> t.payload.start, end |-> t.payload.end, updatedAt |-> seq + 1]
  /\ seq' = seq + 1
  /\ \E answer \in {"done", "failed"} : txn' = [txn EXCEPT ![h].st = answer]
  /\ UNCHANGED now

\* mutant: attempts are not counted
RetryForEver(t) == [t EXCEPT !.st = "begin"]

\* mutant: one attempt too many
RetryOnceMore(t) == IF t.attempt <= maxRetries THEN [t EXCEPT !.st = "begin", !.attempt = @ + 1]
                    ELSE [t EXCEPT !.st = "failed"]

\* The loop of transactYugabyte, and of ExecuteTx, on a failure that can be retried.
Retry(t) == IF t.attempt < maxRetries THEN [t EXCEPT !.st = "begin", !.attempt = @ + 1]
            ELSE [t EXCEPT !.st = "failed"]

\* The database gives up the transaction, at its first query or later.
AbortTx(h) ==
  /\ txn[h].st \in {"begin", "executed"}
  /\ txn' = [txn EXCEPT ![h] = Retry(@)]
  /\ UNCHANGED <<row, now, seq>>

\* A failure that is not retried (a CHECK, a duplicate key, the connection), or the context
\* ending during a backoff.
FailTx(h) ==
  /\ txn[h].st \in {"begin", "executed"}
  /\ txn' = [txn EXCEPT ![h].st = "failed"]
  /\ UNCHANGED <<row, now, seq>>

Handle(h) == Execute(h) \/ CommitTx(h) \/ AbortTx(h) \/ FailTx(h)

Tick == now < MaxNow /\ now' = now + 1 /\ UNCHANGED <<row, txn, seq>>

Next == (\E h \in Handlers : Request(h) \/ Handle(h)) \/ Tick

Spec == Init /\ [][Next]_vars

\* A handler is scheduled, and the database answers it.
FairSpec == Spec /\ \A h \in Handlers : WF_vars(Handle(h))

-----------------------------------------------------------------------------
(* Properties.                                                             *)

\* The row has ordered times, and a handler a known state and a bounded number of attempts.
TypeOK ==
  /\ row # None => row.start < row.end /\ row.updatedAt \in 1..seq
  /\ \A h \in Handlers :
       /\ txn[h].st \in {"idle", "begin", "executed", "done", "refused", "failed"}
       /\ txn[h].attempt \in 0..maxRetries
       /\ txn[h].at \in 0..now

\* the handler whose transaction commits in this step
Committing(h) == txn[h].st = "executed" /\ txn'[h].st \in {"done", "failed"}

\* Every change of the row was asked for by a request that named the version it replaces,
\* however many attempts it took and whatever was committed in between (executeUpdateISA).
ChangesAreFenced ==
  [][row' # row => \E h \in Handlers :
       Committing(h) /\ txn[h].version = (IF row = None THEN None ELSE row.updatedAt)]_vars

\* What a request commits in a later attempt is what it would have committed in a first
\* attempt on the same row: no time of an earlier attempt, written into the payload by
\* AdjustTimeRange, outlives the row it was taken from.
RetriedAsAsked ==
  [][row' # row /\ row' # None =>
       \E h \in Handlers :
         /\ Committing(h)
         /\ [start |-> row'.start, end |-> row'.end] = Adjusted(txn[h].asked, Old(txn[h]), txn[h].at)]_vars

\* Every request is answered: retries are bounded and nobody waits for a row for ever.
RequestsAreAnswered ==
  \A h \in Handlers : txn[h].st = "begin" ~> txn[h].st \in {"done", "refused", "failed"}

\* An attempt after the first accepts the times of a request on the version it names if and
\* only if a first one would: a start that was omitted stays one that was omitted
\* (AdjustTimeRange).
RetryIsTransparent ==
  \A h \in Handlers :
    txn[h].st = "begin" /\ txn[h].kind # "delete" /\ VersionMatches(txn[h]) =>
      (Adjustable(txn[h].payload, Old(txn[h]), txn[h].at)
         <=> Adjustable(txn[h].asked, Old(txn[h]), txn[h].at))
=============================================================================
