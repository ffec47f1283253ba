---------------------------- MODULE ServiceProofs ----------------------------
(***************************************************************************)
(* Proofs about Service, for any number of slots, clients and versions and *)
(* any jwks_key_ttl: keys past their time to live are never left in use    *)
(* without a refresh, no refresh worker outlives the start-up that created *)
(* it, only an authorized request has an effect, the status of an answer   *)
(* tells whether it had one, and a change names the version it replaces.   *)
(***************************************************************************)
EXTENDS OperationProofs

Authorizers == [keys : {0, 1}, age : 0..(KeyTTL + 1), due : BOOLEAN, resolving : BOOLEAN, worker : BOOLEAN]

(* The refresh worker of an authorizer exists only in the run of           *)
(* RunHTTPServer that created it: none is left by a start-up that failed.  *)
WorkerIsOfThisRun == auth.worker => proc \in {"scd", "serving", "draining"}

(* The inductive invariant. *)
KInv ==
    /\ issued \in {0, 1}
    /\ auth \in Authorizers
    /\ KeysAreFresh
    /\ WorkerIsOfThisRun

-----------------------------------------------------------------------------
(* There is no worker without an authorizer. *)
LEMMA NoAuthorizerFresh ==
    ASSUME auth' = NoAuthorizer, issued' \in {0, 1}
    PROVE  KInv'
BY ServiceAssumption DEF NoAuthorizer, KInv, Authorizers, KeysAreFresh, WorkerIsOfThisRun

(* A step that leaves the authorizer, and does not end the run, keeps the  *)
(* invariant.                                                              *)
LEMMA SameAuthorizer ==
    ASSUME KInv, UNCHANGED <<auth, issued>>, auth.worker => proc' \in {"scd", "serving", "draining"}
    PROVE  KInv'
BY Zenon DEF KInv, KeysAreFresh, WorkerIsOfThisRun

(* Keys just resolved are fresh. *)
LEMMA NewKeys ==
    ASSUME issued' \in {0, 1}, auth' \in Authorizers, auth'.age = 0, proc' \in {"scd", "serving", "draining"}
    PROVE  KInv'
<1>1. ~(auth'.age > KeyTTL)
  BY ServiceAssumption
<1> QED BY <1>1, Zenon DEF KInv, KeysAreFresh, WorkerIsOfThisRun

(* No authorizer yet. *)
LEMMA InitKeys == Init => KInv
BY ServiceAssumption DEF Init, KInv, NoAuthorizer, Authorizers, KeysAreFresh, WorkerIsOfThisRun

(* Requests do not touch the authorizer. *)
LEMMA RequestsKeepKeys ==
    ASSUME KInv, NEW s \in Slots, RequestStep(s)
    PROVE  KInv'
<1>1. UNCHANGED <<auth, issued, proc>>
  <2>1. CASE Arrive(s)
    BY <2>1, Zenon DEF Arrive
  <2>2. CASE Execute(s)
    BY <2>2, Zenon DEF Execute
  <2>3. CASE Probe(s)
    BY <2>3, Zenon DEF Probe
  <2>4. CASE Record(s)
    BY <2>4, Zenon DEF Record
  <2>5. CASE Fail(s) \/ ApplyLate(s) \/ Forget(s)
    BY <2>5, Zenon DEF Fail, ApplyLate, Forget
  <2>6. CASE Respond(s) \/ Timeout(s)
    BY <2>6, Zenon DEF Respond, Timeout
  <2> QED BY <2>1, <2>2, <2>3, <2>4, <2>5, <2>6, Zenon DEF RequestStep
<1> QED BY <1>1, SameAuthorizer, Zenon DEF KInv, WorkerIsOfThisRun

(* A failed start-up step cancels the context, which ends the worker. *)
LEMMA StartFailsKeys ==
    ASSUME KInv, NEW code, StartFails(code), issued' = issued
    PROVE  KInv'
BY NoAuthorizerFresh, Zenon DEF StartFails, KInv

(* Creating a store leaves the authorizer or ends the run. *)
LEMMA CreateStoreKeys ==
    ASSUME KInv, NEW step, NEW next, CreateStore(step, next),
           auth.worker => next \in {"scd", "serving", "draining"}
    PROVE  KInv'
<1>1. issued' = issued
  BY Zenon DEF CreateStore
<1>2. CASE proc' = next /\ UNCHANGED auth
  BY <1>1, <1>2, SameAuthorizer, Zenon
<1>3. CASE \E problem \in DOMAIN StoreInit : StartFails(StoreInit[problem])
  BY <1>1, <1>3, StartFailsKeys, Zenon
<1> QED BY <1>2, <1>3, Zenon DEF CreateStore

(* Start-up and shutdown. *)
LEMMA ProcessKeepsKeys ==
    ASSUME KInv, ProcessStep
    PROVE  KInv'
<1> USE DEF WorkerIsOfThisRun
<1>1. CASE CreateAuxServer
  <2>1. proc = "aux"
    BY <1>1, Zenon DEF CreateAuxServer, CreateStore
  <2> QED BY <1>1, <2>1, CreateStoreKeys, Zenon DEF CreateAuxServer, KInv
<1>2. CASE CreateRIDServers
  <2>1. proc = "rid"
    BY <1>2, Zenon DEF CreateRIDServers, CreateStore
  <2> QED BY <1>2, <2>1, CreateStoreKeys, Zenon DEF CreateRIDServers, KInv
<1>3. CASE CreateSCDServer
  BY <1>3, CreateStoreKeys, Zenon DEF CreateSCDServer
<1>4. CASE NewRSAAuthorizer
  <2>1. issued' = issued /\ issued \in {0, 1}
    BY <1>4, Zenon DEF NewRSAAuthorizer, KInv
  <2>2. CASE proc' = "scd" /\ auth' = [NoAuthorizer EXCEPT !.keys = issued, !.worker = TRUE]
    <3>1. NoAuthorizer \in Authorizers /\ NoAuthorizer.age = 0
      BY ServiceAssumption DEF NoAuthorizer, Authorizers
    <3>2. auth' \in Authorizers /\ auth'.age = 0
      BY <2>1, <2>2, <3>1, Zenon DEF Authorizers
    <3> QED BY <2>1, <2>2, <3>2, NewKeys, Zenon
  <2>3. CASE \E code \in {"Unavailable", "other"} : StartFails(code)
    BY <2>1, <2>3, StartFailsKeys, Zenon
  <2> QED BY <1>4, <2>2, <2>3, Zenon DEF NewRSAAuthorizer
<1>5. CASE Retry
  BY <1>5, SameAuthorizer, Zenon DEF Retry, KInv
<1>6. CASE Signal
  <2>1. issued' = issued
    BY <1>6, Zenon DEF Signal
  <2>2. CASE proc' = "draining" /\ UNCHANGED auth
    BY <2>1, <2>2, SameAuthorizer, Zenon
  <2>3. CASE auth' = NoAuthorizer
    BY <2>1, <2>3, NoAuthorizerFresh, Zenon DEF KInv
  <2> QED BY <1>6, <2>2, <2>3, Zenon DEF Signal
<1>7. CASE Exit
  BY <1>7, NoAuthorizerFresh, Zenon DEF Exit, KInv
<1>8. CASE Restart
  BY <1>8, SameAuthorizer, Zenon DEF Restart, KInv
<1> QED BY <1>1, <1>2, <1>3, <1>4, <1>5, <1>6, <1>7, <1>8, Zenon DEF ProcessStep

(* The worker: a tick makes a refresh due; a refresh that fails leaves the *)
(* keys only when they may be younger than the TTL.                        *)
LEMMA WorkerKeepsKeys ==
    ASSUME KInv, WorkerStep
    PROVE  KInv'
<1>1. issued \in {0, 1} /\ auth \in Authorizers /\ WorkerIsOfThisRun
  BY Zenon DEF KInv
<1>2. CASE Tick
  <2> DEFINE older == IF auth.age <= KeyTTL THEN auth.age + 1 ELSE auth.age
  <2>1. auth' = [auth EXCEPT !.age = older, !.due = TRUE] /\ UNCHANGED <<proc, issued>>
    BY <1>2, Zenon DEF Tick
  <2>2. older \in 0..(KeyTTL + 1)
    BY <1>1, ServiceAssumption DEF Authorizers
  <2> HIDE DEF older
  <2> QED BY <1>1, <2>1, <2>2, Zenon DEF KInv, Authorizers, KeysAreFresh, WorkerIsOfThisRun
<1>3. CASE Rotate
  BY <1>3, Zenon DEF Rotate, KInv, KeysAreFresh, WorkerIsOfThisRun
<1>4. CASE BeginRefresh
  BY <1>1, <1>4, Zenon DEF BeginRefresh, KInv, Authorizers, KeysAreFresh, WorkerIsOfThisRun
<1>5. CASE RefreshSucceeds
  <2>1. auth' = [auth EXCEPT !.keys = issued, !.age = 0, !.resolving = FALSE]
        /\ UNCHANGED <<proc, issued>> /\ auth.worker
    BY <1>5, Zenon DEF RefreshSucceeds
  <2>2. 0 \in 0..(KeyTTL + 1)
    BY ServiceAssumption
  <2>3. auth' \in Authorizers /\ auth'.age = 0
    BY <1>1, <2>1, <2>2, Zenon DEF Authorizers
  <2> QED BY <1>1, <2>1, <2>3, NewKeys, Zenon DEF WorkerIsOfThisRun
<1>6. ASSUME NEW code, RefreshFails(code) PROVE KInv'
  <2>1. issued' = issued
    BY <1>6, Zenon DEF RefreshFails
  <2>2. CASE auth' = NoAuthorizer
    BY <1>1, <2>1, <2>2, NoAuthorizerFresh, Zenon
  <2>3. CASE auth' = [auth EXCEPT !.resolving = FALSE] /\ proc' = proc /\ auth.age <= KeyTTL
    <3>1. ~(auth.age > KeyTTL)
      BY <1>1, <2>3, ServiceAssumption DEF Authorizers
    <3> QED BY <1>1, <2>1, <2>3, <3>1, Zenon DEF KInv, Authorizers, KeysAreFresh, WorkerIsOfThisRun
  <2> QED BY <1>6, <2>2, <2>3, Zenon DEF RefreshFails, Panic
<1>7. CASE FinalizeWorker
  BY <1>1, <1>7, NoAuthorizerFresh, Zenon DEF FinalizeWorker
<1> QED BY <1>2, <1>3, <1>4, <1>5, <1>6, <1>7, Zenon DEF WorkerStep, Refresh

(* Every step keeps the invariant. *)
LEMMA StepKeys == KInv /\ [Next]_vars => KInv'
<1> SUFFICES ASSUME KInv, [Next]_vars PROVE KInv'
  BY Zenon
<1>1. CASE UNCHANGED vars
  BY <1>1, SameAuthorizer, Zenon DEF vars, KInv, WorkerIsOfThisRun
<1> QED BY <1>1, RequestsKeepKeys, ProcessKeepsKeys, WorkerKeepsKeys, Zenon DEF Next

-----------------------------------------------------------------------------
(* Requests *)

Requests ==
    [st : {"idle", "running", "probed", "done", "abandoned"}, op : {"none"} \cup DOMAIN Operations,
     caller : Clients \cup {"nobody"}, version : 0..MaxVersions, lacks : SUBSET (NoAccess \cup BodyScopes),
     code : Codes, status : Nat, applied : BOOLEAN, pending : BOOLEAN, timed : BOOLEAN]

Entities == [version : 0..MaxVersions, owner : Clients \cup {"nobody"}]

(* A request a handler has taken to the store: its token lacks no scope    *)
(* but those nobody asks for, and it names a version only where its        *)
(* operation takes one.                                                    *)
InService(r, kind) ==
    /\ r.op \in DOMAIN Operations /\ Operations[r.op].kind = kind /\ r.lacks \subseteq Unasked(r.op)
    /\ Operations[r.op].does # "record" /\ Operations[r.op].handler.version = "none" => r.version = 0

(* RefusalHasNoEffect, SuccessIsApplied and ServerErrorIsAFailure of one   *)
(* answer: operation n answers status for the code of its store call,      *)
(* which has had its effect, may still have it, or neither.                *)
RightStatus(n, status, code, applied, pending) ==
    /\ status = 500 => code \in {"Failed", "NoIdentifier", "NotReadBack", "CheckViolated"}
    /\ status \in 400..499 /\ Does(n) # "record" => ~applied /\ ~pending
    /\ status \in 200..299 /\ Does(n) \in {"put", "delete"} => applied \/ code = "NoTable"

RightAnswer(r) == RightStatus(r.op, r.status, r.code, r.applied, r.pending)

RequestInv(r, kind) ==
    /\ r \in Requests
    /\ r.st \in {"running", "probed", "abandoned"} \/ r.applied \/ r.pending => InService(r, kind)
    /\ r.st \in {"idle", "running", "probed"} => ~r.applied /\ ~r.pending
    /\ r.st = "probed" => Does(r.op) = "record"
    /\ r.pending => Writes(r.op)
    /\ r.st = "done" => RightAnswer(r)
    /\ r.lacks \subseteq Unasked(r.op) \/ (r.st = "done" /\ r.status \in 400..499)

(* Versions are given in order, and one that a write has replaced is the   *)
(* entity's no more.                                                       *)
VersionsAreNew ==
    subject # "heartbeat" =>
      /\ entity = Absent \/ entity.version = latest
      /\ \A s \in Slots : req[s].applied /\ req[s].version # 0 =>
                            req[s].version <= latest /\ req[s].version # entity.version
      /\ OneWriterPerVersion

(* The inductive invariant of the requests. *)
SInv ==
    /\ subject \in Subjects /\ proc \in Steps
    /\ entity \in Entities /\ latest \in 0..MaxVersions
    /\ req \in [Slots -> Requests]
    /\ \A s \in Slots : RequestInv(req[s], subject)
    /\ VersionsAreNew

(* What ChangesNameTheirVersion says of a step. *)
NamedChange ==
    (entity' # entity /\ subject # "heartbeat") =>
      \E s \in Slots :
        /\ req'[s] # req[s] /\ req[s].st # "idle" /\ Writes(req[s].op)
        /\ req[s].version = entity.version
        /\ entity # Absent /\ subject # "availability" => req[s].caller = entity.owner

(* An answer stays right when the write on its way is carried out, and     *)
(* when it is lost.                                                        *)
LEMMA LateEffectFine ==
    ASSUME NEW n, NEW status, NEW code, NEW applied, NEW pending, pending,
           RightStatus(n, status, code, applied, pending),
           NEW applied2, NEW pending2, ~pending2, applied2 \/ (applied2 = applied)
    PROVE  RightStatus(n, status, code, applied2, pending2)
BY DEF RightStatus

(* A slot without a request. *)
LEMMA IdleFine == ASSUME NEW kind PROVE RequestInv(Idle, kind)
<1>1. Idle \in Requests
  BY ServiceAssumption DEF Idle, Requests, Codes
<1> QED BY <1>1, Zenon DEF Idle, RequestInv

(* A request on its way to the store. *)
IsRunning(r, n, caller, version, lacks) ==
    /\ r \in Requests /\ r.st = "running" /\ r.op = n /\ r.caller = caller /\ r.version = version
    /\ r.lacks = lacks /\ ~r.applied /\ ~r.pending

(* Running makes such a request. *)
LEMMA RunningFields ==
    ASSUME NEW n \in DOMAIN Operations, NEW caller \in Clients \cup {"nobody"}, NEW version \in 0..MaxVersions,
           NEW lacks \in SUBSET (NoAccess \cup BodyScopes)
    PROVE  IsRunning(Running(n, caller, version, lacks), n, caller, version, lacks)
<1>1. Idle \in Requests
  BY IdleFine, Zenon DEF RequestInv
<1>2. ~Idle.applied /\ ~Idle.pending
  BY Zenon DEF Idle
<1> QED BY <1>1, <1>2, Zenon DEF Running, Requests, IsRunning

(* A request refused before the store is called. *)
LEMMA RefusedFine ==
    ASSUME NEW status \in 400..499, NEW lacks \in SUBSET (NoAccess \cup BodyScopes), NEW kind
    PROVE  RequestInv(Refused(status, lacks), kind) /\ ~Refused(status, lacks).applied
<1> DEFINE r == Refused(status, lacks)
<1>1. Idle \in Requests
  BY IdleFine, Zenon DEF RequestInv
<1>2. ~Idle.applied /\ ~Idle.pending /\ Idle.op = "none"
  BY Zenon DEF Idle
<1>3. /\ r \in Requests /\ r.st = "done" /\ r.status = status /\ r.lacks = lacks /\ r.op = "none"
      /\ ~r.applied /\ ~r.pending
  <2>1. status \in Nat /\ "refused" \in Codes
    BY DEF Codes
  <2> QED BY <1>1, <1>2, <2>1, Zenon DEF Refused, Requests
<1>4. Does("none") = "nothing"
  BY Zenon DEF Does
<1> HIDE DEF r
<1>5. RightAnswer(r)
  BY <1>3, <1>4 DEF RightAnswer, RightStatus
<1>6. RequestInv(r, kind)
  BY <1>3, <1>5, Zenon DEF RequestInv
<1> QED BY <1>3, <1>6, Zenon DEF r

(* ... also when its token gives no access at all. *)
LEMMA RefusedOutright ==
    ASSUME NEW status \in 400..499, NEW kind
    PROVE  RequestInv(Refused(status, NoAccess), kind) /\ ~Refused(status, NoAccess).applied
<1>1. NoAccess \in SUBSET (NoAccess \cup BodyScopes)
  BY Zenon
<1> QED BY <1>1, RefusedFine, Zenon

(* What is left of a request: a write on its way, or nothing. *)
LEMMA LeftoverFine ==
    ASSUME NEW kind, NEW r \in Requests, r.pending => InService(r, kind) /\ Writes(r.op)
    PROVE  /\ RequestInv(Leftover(r), kind) /\ ~Leftover(r).applied
           /\ Leftover(r).st \in {"idle", "abandoned"}
           /\ Leftover(r).version \in {0, r.version}
<1>1. CASE ~r.pending
  <2>1. Leftover(r) = Idle
    BY <1>1, Zenon DEF Leftover
  <2>2. ~Idle.applied /\ Idle.st = "idle" /\ Idle.version = 0
    BY Zenon DEF Idle
  <2> QED BY <2>1, <2>2, IdleFine, Zenon
<1>2. CASE r.pending
  <2> DEFINE run == Running(r.op, r.caller, r.version, r.lacks)
  <2>1. r.op \in DOMAIN Operations /\ r.caller \in Clients \cup {"nobody"} /\ r.version \in 0..MaxVersions
        /\ r.lacks \in SUBSET (NoAccess \cup BodyScopes) /\ r.lacks \subseteq Unasked(r.op)
    BY <1>2, Zenon DEF InService, Requests
  <2>2. IsRunning(run, r.op, r.caller, r.version, r.lacks)
    BY <2>1, RunningFields, Zenon
  <2>3. Leftover(r) = [run EXCEPT !.st = "abandoned", !.pending = TRUE]
    BY <1>2, Zenon DEF Leftover
  <2> HIDE DEF run
  <2> DEFINE q == Leftover(r)
  <2>4. /\ q \in Requests /\ q.st = "abandoned" /\ q.op = r.op /\ q.version = r.version /\ q.lacks = r.lacks
        /\ ~q.applied /\ q.pending
    BY <2>2, <2>3, Zenon DEF Requests, IsRunning
  <2> HIDE DEF q
  <2>5. InService(q, kind) /\ Writes(q.op)
    BY <1>2, <2>4, Zenon DEF InService
  <2>6. RequestInv(q, kind)
    BY <2>1, <2>4, <2>5, Zenon DEF RequestInv
  <2> QED BY <2>4, <2>6, Zenon DEF q
<1> QED BY <1>1, <1>2, Zenon DEF Requests

(* The status of a result of the store call. *)
AnswerTo(n, code) == WriteResponse(Operations[n].route, HandlerStatus(Operations[n].handler, code))

(* A success, an error the handler tells apart, and any other. *)
LEMMA Answers ==
    ASSUME NEW n \in DOMAIN Operations, NEW code
    PROVE  /\ code = "ok" => AnswerTo(n, code) \in {200, 201}
           /\ code # "ok" /\ code \in DOMAIN Operations[n].handler.errors =>
                AnswerTo(n, code) = Operations[n].handler.errors[code] /\ AnswerTo(n, code) \in Nat \ {500}
           /\ code # "ok" /\ code \notin DOMAIN Operations[n].handler.errors => AnswerTo(n, code) = 500
<1>1. /\ Operations[n].handler.success \in Operations[n].route.answers \cap {200, 201}
      /\ ErrorsAnswered(Operations[n].handler.errors, Operations[n].route.answers)
  <2>1. Sound(Operations[n])
    BY OperationsSound, Zenon
  <2> QED BY <2>1, Zenon DEF Sound
<1> QED BY <1>1 DEF AnswerTo, WriteResponse, HandlerStatus, ErrorsAnswered

(* What the return of the handler makes of a request. *)
IsReturned(q, r, kind, applied) ==
    /\ RequestInv(q, kind)
    /\ q.st \in {"done", "idle", "abandoned"}
    /\ q.applied => applied /\ q.version = r.version

(* What RightAnswer will say of a request of operation n once the handler  *)
(* has returned.                                                           *)
RightReply(n, code, applied, pending) ==
    AnswerTo(n, code) \in Nat /\ RightStatus(n, AnswerTo(n, code), code, applied, pending)

(* A handler that replies so leaves a request in order, whether or not its *)
(* client still waits.                                                     *)
LEMMA ReturnedFine ==
    ASSUME NEW kind, NEW r, RequestInv(r, kind), r.st \in {"running", "probed"},
           NEW code \in Codes, NEW applied \in BOOLEAN, NEW pending \in BOOLEAN, pending => Writes(r.op),
           RightReply(r.op, code, applied, pending)
    PROVE  IsReturned(Returned(r, code, applied, pending), r, kind, applied)
<1> DEFINE done == [r EXCEPT !.st = "done", !.code = code, !.applied = applied, !.pending = pending,
                             !.caller = IF pending THEN @ ELSE "nobody",
                             !.version = IF applied \/ pending THEN @ ELSE 0,
                             !.status = AnswerTo(r.op, code)]
<1>1. Returned(r, code, applied, pending) = IF r.timed THEN Leftover(done) ELSE done
  BY Zenon DEF Returned, AnswerTo
<1>2. r \in Requests /\ InService(r, kind)
  BY Zenon DEF RequestInv
<1>3. /\ done \in Requests /\ done.st = "done" /\ done.op = r.op /\ done.lacks = r.lacks /\ done.code = code
      /\ done.applied = applied /\ done.pending = pending /\ done.status = AnswerTo(r.op, code)
      /\ done.version = IF applied \/ pending THEN r.version ELSE 0
  <2>1. (IF pending THEN r.caller ELSE "nobody") \in Clients \cup {"nobody"}
    BY <1>2, Zenon DEF Requests
  <2>2. (IF applied \/ pending THEN r.version ELSE 0) \in 0..MaxVersions
    BY <1>2, ServiceAssumption DEF Requests
  <2>3. AnswerTo(r.op, code) \in Nat
    BY Zenon DEF RightReply
  <2> QED BY <1>2, <2>1, <2>2, <2>3, Zenon DEF Requests
<1> HIDE DEF done
<1>4. InService(done, kind)
  BY <1>2, <1>3, Zenon DEF InService
<1>5. RightAnswer(done)
  BY <1>3, Zenon DEF RightAnswer, RightReply
<1>6. RequestInv(done, kind)
  BY <1>3, <1>4, <1>5, Zenon DEF RequestInv, InService
<1>7. RequestInv(Leftover(done), kind) /\ ~Leftover(done).applied /\ Leftover(done).st \in {"idle", "abandoned"}
  BY <1>3, <1>4, LeftoverFine, Zenon
<1> QED BY <1>1, <1>3, <1>6, <1>7, Zenon DEF IsReturned

(* Who is admitted to an operation with security options. *)
LEMMA AuthorizeCases ==
    ASSUME NEW security, NEW token
    PROVE  /\ Authorize(security, token) \in {"Unauthenticated", "PermissionDenied", "ok"}
           /\ Authorize(security, token) = "ok" =>
                token.valid /\ token.audience /\ \E option \in security : option \subseteq token.scopes
<1>1. CASE ~token.valid
  BY <1>1, Zenon DEF Authorize
<1>2. CASE token.valid /\ ~token.audience
  BY <1>2, Zenon DEF Authorize
<1>3. CASE token.valid /\ token.audience /\ ~ValidateScopes(security, token.scopes)
  BY <1>3, Zenon DEF Authorize
<1>4. CASE token.valid /\ token.audience /\ ValidateScopes(security, token.scopes)
  BY <1>4, Zenon DEF Authorize, ValidateScopes
<1> QED BY <1>1, <1>2, <1>3, <1>4, Zenon

(* The versions a request may name. *)
LEMMA VersionsWithin ==
    ASSUME NEW kind \in {"none", "optional", "required"}
    PROVE  Versions(kind) \subseteq 0..MaxVersions /\ (kind = "none" => Versions(kind) = {0})
BY ServiceAssumption DEF Versions

(* What a body of an operation may ask. *)
LEMMA BodyAsks ==
    ASSUME NEW n \in DOMAIN Operations
    PROVE  /\ \A demand \in Operations[n].handler.demands : demand \subseteq BodyScopes
           /\ Unasked(n) \subseteq BodyScopes
<1> DEFINE Asks(m) == (UNION Operations[m].handler.demands) \cup Unasked(m)
<1>1. BodyScopes = UNION {Asks(m) : m \in DOMAIN Operations}
  BY Zenon DEF BodyScopes
<1>2. /\ \A demand \in Operations[n].handler.demands : demand \subseteq Asks(n)
      /\ Unasked(n) \subseteq Asks(n)
  BY Zenon
<1> HIDE DEF Asks
<1>3. Asks(n) \subseteq BodyScopes
  BY <1>1, Zenon
<1> QED BY <1>2, <1>3, Zenon

(* A request that is through the authorizer and the checks of the handler  *)
(* lacks no scope that is asked for; any other is refused with a 4xx.      *)
LEMMA ArrivalFine ==
    ASSUME NEW n \in DOMAIN Operations, NEW r \in ArrivalsOf(n)
    PROVE  RequestInv(r, Operations[n].kind) /\ ~r.applied
<1> DEFINE op == Operations[n]
<1> DEFINE checks == op.handler.checks
<1> DEFINE Passes(i, token, demand) == \A j \in 1..(i - 1) : FALSE \in Stops(checks[j], token, demand)
<1> DEFINE Cases == [token : Tokens(op.kind), demand : op.handler.demands, more : SUBSET Unasked(n)]
<1> DEFINE Admitted == {c \in Cases : Admission(op.security, c.token) = "ok"}
<1> DEFINE Short(c) == Lacks(op, c.token, c.demand \cup c.more)
<1>0. ASSUME NEW c \in Cases PROVE Short(c) \in SUBSET (NoAccess \cup BodyScopes)
  <2>1. c.demand \subseteq BodyScopes
    BY BodyAsks, Zenon
  <2>2. c.more \subseteq BodyScopes
    BY BodyAsks, Zenon
  <2> QED BY <2>1, <2>2, Zenon DEF Lacks
<1>1. Sound(op)
  BY OperationsSound, Zenon
<1>2. ASSUME r = Refused(413, NoAccess) PROVE RequestInv(r, op.kind) /\ ~r.applied
  <2> DEFINE large == 413
  <2>1. large \in 400..499
    OBVIOUS
  <2> HIDE DEF large
  <2>2. RequestInv(Refused(large, NoAccess), op.kind) /\ ~Refused(large, NoAccess).applied
    BY <2>1, RefusedOutright, Zenon
  <2> QED BY <1>2, <2>2, Zenon DEF large
<1>3. ASSUME NEW c \in Cases \ Admitted,
             r = Refused(WriteResponse(op.route, SetAuthError(Admission(op.security, c.token))), NoAccess)
      PROVE  RequestInv(r, op.kind) /\ ~r.applied
  <2>0. Admission(op.security, c.token) # "ok"
    BY Zenon
  <2> HIDE DEF op, checks, Cases, Admitted
  <2>1. op.security # Open /\ Authorize(op.security, c.token) \in {"Unauthenticated", "PermissionDenied"}
        /\ Admission(op.security, c.token) = Authorize(op.security, c.token)
    BY <2>0, AuthorizeCases, Zenon DEF Admission
  <2>2. SetAuthError(Admission(op.security, c.token)) \in {401, 403}
    BY <2>1 DEF SetAuthError
  <2>3. WriteResponse(op.route, SetAuthError(Admission(op.security, c.token))) \in {401, 403}
    BY <1>1, <2>1, <2>2 DEF Sound, WriteResponse
  <2>4. WriteResponse(op.route, SetAuthError(Admission(op.security, c.token))) \in 400..499
    BY <2>3
  <2> QED BY <1>3, <2>4, RefusedOutright, Zenon
<1>4. ASSUME NEW c \in Admitted, NEW i \in DOMAIN checks,
             r = Refused(WriteResponse(op.route, checks[i][2]), Short(c))
      PROVE  RequestInv(r, op.kind) /\ ~r.applied
  <2>1. checks[i][2] \in op.route.answers /\ checks[i][2] \in 400..499
    BY <1>1, Zenon DEF Sound, ChecksAnswered
  <2>3. Short(c) \in SUBSET (NoAccess \cup BodyScopes)
    BY <1>0, Zenon
  <2> HIDE DEF op, checks, Cases, Admitted, Short
  <2>2. WriteResponse(op.route, checks[i][2]) \in 400..499
    BY <2>1, Zenon DEF WriteResponse
  <2> QED BY <1>4, <2>2, <2>3, RefusedFine, Zenon
<1>5. ASSUME NEW caller \in Clients, NEW version \in Versions(op.handler.version),
             NEW c \in Admitted, Passes(Len(checks) + 1, c.token, c.demand),
             r = Running(n, caller, version, Short(c))
      PROVE  RequestInv(r, op.kind) /\ ~r.applied
  <2>1. /\ c.demand \in op.handler.demands /\ c.more \subseteq Unasked(n)
        /\ Admission(op.security, c.token) = "ok"
    BY Zenon
  <2>5. Short(c) \in SUBSET (NoAccess \cup BodyScopes)
    BY <1>0, Zenon
  <2> HIDE DEF Cases, Admitted
  <2>2. c.demand \subseteq c.token.scopes
    <3>1. CASE op.handler.demands = {{}}
      BY <2>1, <3>1, Zenon
    <3>2. ASSUME NEW i \in DOMAIN checks, checks[i][1] = "demands" PROVE c.demand \subseteq c.token.scopes
      <4>1. ChecksAnswered(checks, op.route.answers)
        BY <1>1, Zenon DEF Sound
      <4> HIDE DEF op, checks
      <4>2. i \in 1..((Len(checks) + 1) - 1)
        BY <4>1 DEF ChecksAnswered
      <4>3. FALSE \in Stops(checks[i], c.token, c.demand)
        BY <1>5, <4>2, Zenon
      <4>4. Stops(checks[i], c.token, c.demand) = {~(c.demand \subseteq c.token.scopes)}
        BY <3>2, Zenon DEF Stops
      <4> QED BY <4>3, <4>4, Zenon
    <3> QED BY <1>1, <3>1, <3>2, Zenon DEF Sound
  <2>3. Short(c) \subseteq Unasked(n)
    BY <2>1, <2>2, AuthorizeCases, Zenon DEF Lacks, Admission
  <2> HIDE DEF Short
  <2>4. version \in 0..MaxVersions /\ (op.handler.version = "none" => version = 0)
    <3>1. op.handler.version \in {"none", "optional", "required"}
      BY <1>1, Zenon DEF Sound
    <3> HIDE DEF op
    <3> QED BY <3>1, VersionsWithin
  <2>6. IsRunning(r, n, caller, version, Short(c))
    BY <1>5, <2>4, <2>5, RunningFields, Zenon
  <2>7. InService(r, op.kind)
    BY <2>3, <2>4, <2>6, Zenon DEF InService, IsRunning
  <2> QED BY <2>3, <2>6, <2>7, Zenon DEF RequestInv, IsRunning, InService
<1> DEFINE Unauthorized == {Refused(WriteResponse(op.route, SetAuthError(Admission(op.security, c.token))), NoAccess) :
                              c \in Cases \ Admitted}
<1> DEFINE Flawed == UNION {{Refused(WriteResponse(op.route, checks[i][2]), Short(c)) :
                               i \in {k \in DOMAIN checks : /\ Passes(k, c.token, c.demand)
                                                            /\ TRUE \in Stops(checks[k], c.token, c.demand)}} :
                              c \in Admitted}
<1> DEFINE Through == {Running(n, caller, version, Short(c)) :
                         caller \in Clients, version \in Versions(op.handler.version),
                         c \in {d \in Admitted : Passes(Len(checks) + 1, d.token, d.demand)}}
<1>6. ArrivalsOf(n) = {Refused(413, NoAccess)} \cup Unauthorized \cup Flawed \cup Through
  BY SMTT(30) DEF ArrivalsOf
<1> HIDE DEF op, checks, Passes, Cases, Admitted, Short
<1>7. ASSUME r \in Unauthorized PROVE RequestInv(r, op.kind) /\ ~r.applied
  BY <1>3, <1>7, Zenon
<1>8. ASSUME r \in Flawed PROVE RequestInv(r, op.kind) /\ ~r.applied
  BY <1>4, <1>8, Zenon
<1>9. ASSUME r \in Through PROVE RequestInv(r, op.kind) /\ ~r.applied
  <2>1. PICK caller \in Clients, version \in Versions(op.handler.version),
             c \in {d \in Admitted : Passes(Len(checks) + 1, d.token, d.demand)} :
               r = Running(n, caller, version, Short(c))
    BY <1>9, SMT
  <2> QED BY <1>5, <2>1, Zenon
<1> HIDE DEF Unauthorized, Flawed, Through
<1>10. RequestInv(r, op.kind) /\ ~r.applied
  BY <1>2, <1>6, <1>7, <1>8, <1>9, Zenon
<1> QED BY <1>10, Zenon DEF op

-----------------------------------------------------------------------------
(* Steps of requests *)

(* A step that changes one request keeps the requests in order. *)
LEMMA OneRequest ==
    ASSUME SInv, NEW s \in Slots, NEW q, RequestInv(q, subject), req' = [req EXCEPT ![s] = q], subject' = subject
    PROVE  /\ req' \in [Slots -> Requests]
           /\ \A t \in Slots : RequestInv(req'[t], subject')
           /\ \A t \in Slots : req'[t] = IF t = s THEN q ELSE req[t]
<1>1. req \in [Slots -> Requests] /\ \A t \in Slots : RequestInv(req[t], subject)
  BY Zenon DEF SInv
<1>2. \A t \in Slots : req'[t] = IF t = s THEN q ELSE req[t]
  BY <1>1, Zenon
<1>3. q \in Requests
  BY Zenon DEF RequestInv
<1> QED BY <1>1, <1>2, <1>3, Zenon

(* A step that leaves the entity, and by which no request takes effect. *)
LEMMA NoWrite ==
    ASSUME SInv, UNCHANGED <<subject, entity, latest>>, proc' \in Steps,
           req' \in [Slots -> Requests], \A t \in Slots : RequestInv(req'[t], subject'),
           \A t \in Slots : req'[t].applied => req[t].applied /\ req'[t].version = req[t].version
    PROVE  SInv' /\ NamedChange
<1>1. VersionsAreNew'
  BY Zenon DEF SInv, VersionsAreNew, OneWriterPerVersion
<1>2. subject' \in Subjects /\ entity' \in Entities /\ latest' \in 0..MaxVersions
  BY Zenon DEF SInv
<1> QED BY <1>1, <1>2, Zenon DEF SInv, NamedChange

(* The same of a step of one request. *)
LEMMA OneRequestNoWrite ==
    ASSUME SInv, NEW s \in Slots, NEW q, RequestInv(q, subject), req' = [req EXCEPT ![s] = q],
           UNCHANGED <<subject, entity, latest, proc>>,
           q.applied => req[s].applied /\ q.version = req[s].version
    PROVE  SInv' /\ NamedChange
<1>1. /\ req' \in [Slots -> Requests]
      /\ \A t \in Slots : RequestInv(req'[t], subject')
  BY OneRequest, Zenon
<1>2. \A t \in Slots : req'[t] = IF t = s THEN q ELSE req[t]
  BY OneRequest, Zenon
<1>3. proc' \in Steps
  BY Zenon DEF SInv
<1> QED BY <1>1, <1>2, <1>3, NoWrite, Zenon

(* The entity a write leaves, and the version it gives it. *)
LEMMA WriteTypes ==
    ASSUME SInv, NEW r \in Requests, Writes(r.op), Write(r)
    PROVE  /\ entity' \in Entities /\ latest' \in 0..MaxVersions
           /\ Does(r.op) # "record" =>
                \/ entity' = [version |-> latest + 1, owner |-> r.caller] /\ latest' = latest + 1
                \/ entity' = Absent /\ latest' = latest
<1>1. latest \in 0..MaxVersions /\ MaxVersions \in Nat \ {0}
  BY ServiceAssumption, Zenon DEF SInv
<1>2. r.caller \in Clients \cup {"nobody"}
  BY Zenon DEF Requests
<1>3. CASE Does(r.op) = "put"
  <2>1. entity' = [version |-> latest + 1, owner |-> r.caller] /\ latest' = latest + 1 /\ latest < MaxVersions
    BY <1>3, Zenon DEF Write, Written
  <2> QED BY <1>1, <1>2, <2>1 DEF Entities
<1>4. CASE Does(r.op) = "delete"
  <2>1. entity' = Absent /\ latest' = latest
    BY <1>4, Zenon DEF Write, Written
  <2> QED BY <1>1, <2>1 DEF Entities, Absent
<1>5. CASE Does(r.op) = "record"
  <2>1. entity' = [version |-> 1, owner |-> "nobody"] /\ latest' = latest
    BY <1>5, Zenon DEF Write, Written
  <2> QED BY <1>1, <1>5, <2>1 DEF Entities
<1> QED BY <1>3, <1>4, <1>5, Zenon DEF Writes

(* A step that writes the entity for a request. *)
LEMMA OneWrite ==
    ASSUME SInv, NEW s \in Slots, NEW q, RequestInv(q, subject), req' = [req EXCEPT ![s] = q],
           UNCHANGED <<subject, proc>>, Write(req[s]),
           InService(req[s], subject), Writes(req[s].op), req[s].st # "idle", q # req[s],
           subject # "heartbeat" =>
             "ok" \in Results(Refusals(req[s].op, entity, req[s].caller, req[s].version)),
           q.applied => q.version = req[s].version
    PROVE  SInv' /\ NamedChange
<1> DEFINE r == req[s]
<1>1. /\ req' \in [Slots -> Requests]
      /\ \A t \in Slots : RequestInv(req'[t], subject')
  BY OneRequest, Zenon
<1>2. \A t \in Slots : req'[t] = IF t = s THEN q ELSE req[t]
  BY OneRequest, Zenon
<1>3. r \in Requests
  BY Zenon DEF SInv
<1>4. entity' \in Entities /\ latest' \in 0..MaxVersions
  BY <1>3, WriteTypes, Zenon
<1>5. ASSUME subject # "heartbeat"
      PROVE  /\ r.version = entity.version
             /\ entity # Absent /\ subject # "availability" => r.caller = entity.owner
             /\ Does(r.op) # "record"
  <2>1. r.op \in DOMAIN Operations /\ Operations[r.op].kind = subject /\ Does(r.op) = Operations[r.op].does
    BY Zenon DEF InService, Writes, Does
  <2>2. Operations[r.op].does \in {"put", "delete"}
    <3>1. Sound(Operations[r.op])
      BY <2>1, OperationsSound, Zenon
    <3> QED BY <1>5, <2>1, <3>1, Zenon DEF Sound, Writes
  <2>3. Operations[r.op].handler.version = "none" => r.version = 0
    BY <2>2, Zenon DEF InService
  <2>4. /\ r.version = entity.version
        /\ entity # Absent /\ Operations[r.op].kind # "availability" => r.caller = entity.owner
    <3>1. "ok" \in Results(Refusals(r.op, entity, r.caller, r.version))
      BY <1>5, Zenon
    <3> HIDE DEF r
    <3> QED BY <2>1, <2>2, <2>3, <3>1, WritesAreFenced
  <2> QED BY <2>1, <2>2, <2>4, Zenon
<1>6. ASSUME subject # "heartbeat" PROVE VersionsAreNew'
  <2>1. \/ entity' = [version |-> latest + 1, owner |-> r.caller] /\ latest' = latest + 1
        \/ entity' = Absent /\ latest' = latest
    BY <1>3, <1>5, <1>6, WriteTypes, Zenon
  <2>2. \/ entity'.version = latest + 1 /\ latest' = latest + 1
        \/ entity' = Absent /\ entity'.version = 0 /\ latest' = latest
    <3>1. CASE entity' = [version |-> latest + 1, owner |-> r.caller] /\ latest' = latest + 1
      BY <3>1, Zenon
    <3>2. CASE entity' = Absent /\ latest' = latest
      BY <3>2, Zenon DEF Absent
    <3> QED BY <2>1, <3>1, <3>2, Zenon
  <2>3. /\ entity = Absent \/ entity.version = latest
        /\ \A t \in Slots : req[t].applied /\ req[t].version # 0 =>
                              req[t].version <= latest /\ req[t].version # entity.version
        /\ OneWriterPerVersion
    BY <1>6, Zenon DEF SInv, VersionsAreNew
  <2>4. latest \in Nat /\ \A t \in Slots : req[t].version \in Nat
    BY DEF SInv, Requests
  <2>5. q.applied => q.version = entity.version
    BY <1>5, <1>6, Zenon
  <2>6. entity = Absent => entity.version = 0
    BY DEF Absent
  <2>7. entity' = Absent \/ entity'.version = latest'
    BY <2>2, Zenon
  <2>8. ASSUME NEW t \in Slots, req'[t].applied, req'[t].version # 0
        PROVE  req'[t].version <= latest' /\ req'[t].version # entity'.version
    BY <1>2, <2>2, <2>3, <2>4, <2>5, <2>6, <2>8
  <2>9. OneWriterPerVersion'
    BY <1>2, <2>3, <2>5 DEF OneWriterPerVersion
  <2> QED BY <2>7, <2>8, <2>9, Zenon DEF VersionsAreNew
<1>7. VersionsAreNew'
  BY <1>6, Zenon DEF VersionsAreNew
<1>8. NamedChange
  <2>1. req'[s] # req[s]
    BY <1>2, Zenon
  <2> QED BY <1>5, <2>1, Zenon DEF NamedChange
<1> QED BY <1>1, <1>4, <1>7, <1>8, Zenon DEF SInv

(* A request arrives. *)
LEMMA ArriveStep ==
    ASSUME SInv, NEW s \in Slots, Arrive(s)
    PROVE  SInv' /\ NamedChange
<1>1. PICK r \in Arrivals[s][subject] : req' = [req EXCEPT ![s] = r]
  BY Zenon DEF Arrive
<1>2. UNCHANGED <<subject, entity, latest, proc>>
  BY Zenon DEF Arrive
<1>3. Arrivals[s][subject] = UNION {ArrivalsOf(n) : n \in {m \in Names(subject) : Serves(s, m)}}
  BY Zenon DEF Arrivals, SInv
<1>4. PICK n \in Names(subject) : r \in ArrivalsOf(n)
  BY <1>3, Zenon
<1>5. n \in DOMAIN Operations /\ Operations[n].kind = subject
  BY Zenon DEF Names
<1>6. RequestInv(r, subject) /\ ~r.applied
  BY <1>4, <1>5, ArrivalFine, Zenon
<1> QED BY <1>1, <1>2, <1>6, OneRequestNoWrite, Zenon

(* The store call of a request in service: a success that writes, ... *)
LEMMA ExecuteStep ==
    ASSUME SInv, NEW s \in Slots, Execute(s)
    PROVE  SInv' /\ NamedChange
<1> DEFINE r == req[s]
<1> DEFINE op == Operations[r.op]
<1>1. /\ r.st = "running" /\ Does(r.op) # "record"
      /\ UNCHANGED <<subject, proc>>
  BY Zenon DEF Execute
<1>2. RequestInv(r, subject)
  BY Zenon DEF SInv
<1>3. InService(r, subject) /\ r.op \in DOMAIN Operations /\ ~r.applied
  BY <1>1, <1>2, Zenon DEF RequestInv, InService
<1>4. Sound(op)
  BY <1>3, OperationsSound, Zenon
<1>5. PICK code \in Results(Refusals(r.op, entity, r.caller, r.version)) :
        IF code = "ok" /\ Writes(r.op)
        THEN /\ Write(r)
             /\ \E end \in op.handler.after : req' = [req EXCEPT ![s] = Returned(r, end, TRUE, FALSE)]
        ELSE /\ req' = [req EXCEPT ![s] = Returned(r, code, FALSE, FALSE)]
             /\ UNCHANGED <<entity, latest>>
  BY Zenon DEF Execute
<1>6. /\ code \in DOMAIN op.handler.errors \cup {"ok", "NoIdentifier", "CheckViolated"}
      /\ code \in Codes \ {"Failed", "NotReadBack"}
  BY <1>3, CallResults, Zenon
<1> DEFINE yes == TRUE
<1> DEFINE no == FALSE
<1>7. yes \in BOOLEAN /\ no \in BOOLEAN /\ yes /\ ~no
  BY Zenon
<1> HIDE DEF yes, no, r
<1>8. CASE code = "ok" /\ Writes(r.op)
  <2>1. Does(r.op) \in {"put", "delete"} /\ op.does = Does(r.op)
    BY <1>1, <1>8, Zenon DEF Writes, Does
  <2>2. op.handler.after = {"ok"}
    <3> HIDE DEF op
    <3> QED BY <1>4, <2>1 DEF Sound
  <2>3. Write(r) /\ req' = [req EXCEPT ![s] = Returned(r, code, yes, no)]
    BY <1>5, <1>8, <2>2, Zenon DEF yes, no
  <2>4. AnswerTo(r.op, code) \in {200, 201}
    BY <1>3, <1>8, Answers
  <2>5. RightReply(r.op, code, yes, no)
    BY <1>7, <2>4 DEF RightReply, RightStatus
  <2>6. IsReturned(Returned(r, code, yes, no), r, subject, yes)
    BY <1>1, <1>2, <1>6, <1>7, <2>5, ReturnedFine, Zenon
  <2> DEFINE q == Returned(r, code, yes, no)
  <2> HIDE DEF q
  <2>7. RequestInv(q, subject) /\ (q.applied => q.version = r.version) /\ q # r
    BY <1>1, <2>6, Zenon DEF IsReturned, q
  <2>8. req' = [req EXCEPT ![s] = q] /\ "ok" \in Results(Refusals(r.op, entity, r.caller, r.version)) /\ r.st # "idle"
    BY <1>1, <1>5, <1>8, <2>3, Zenon DEF q
  <2> QED BY <1>1, <1>3, <1>8, <2>3, <2>7, <2>8, OneWrite, Zenon DEF r
<1>9. CASE ~(code = "ok" /\ Writes(r.op))
  <2>1. req' = [req EXCEPT ![s] = Returned(r, code, no, no)] /\ UNCHANGED <<entity, latest>>
    BY <1>5, <1>9, Zenon DEF no
  <2>2. /\ AnswerTo(r.op, code) \in Nat
        /\ AnswerTo(r.op, code) = 500 => code \in {"Failed", "NoIdentifier", "NotReadBack", "CheckViolated"}
    <3>1. CASE code = "ok"
      BY <1>3, <3>1, Answers
    <3>2. CASE code # "ok" /\ code \in DOMAIN op.handler.errors
      BY <1>3, <3>2, Answers
    <3>3. CASE code \in {"NoIdentifier", "CheckViolated"} /\ code \notin DOMAIN op.handler.errors
      BY <1>3, <3>3, Answers
    <3> QED BY <1>6, <3>1, <3>2, <3>3, Zenon
  <2>3. AnswerTo(r.op, code) \in 200..299 /\ Does(r.op) \in {"put", "delete"} => code = "NoTable"
    <3>1. ASSUME Does(r.op) \in {"put", "delete"}, AnswerTo(r.op, code) \in 200..299 PROVE code = "NoTable"
      <4>1. op.does \in {"put", "delete"} /\ code # "ok"
        BY <1>9, <3>1, Zenon DEF Does, Writes
      <4>2. NoFalseSuccess(op.handler.errors)
        BY <1>4, <4>1, Zenon DEF Sound
      <4>3. AnswerTo(r.op, code) # 500
        BY <3>1
      <4>4. code \in DOMAIN op.handler.errors /\ AnswerTo(r.op, code) = op.handler.errors[code]
        BY <1>3, <4>1, <4>3, Answers
      <4> QED BY <3>1, <4>2, <4>4, Zenon DEF NoFalseSuccess
    <3> QED BY <3>1, Zenon
  <2>4. RightReply(r.op, code, no, no)
    BY <1>7, <2>2, <2>3 DEF RightReply, RightStatus
  <2>5. IsReturned(Returned(r, code, no, no), r, subject, no)
    BY <1>1, <1>2, <1>6, <1>7, <2>4, ReturnedFine, Zenon
  <2> DEFINE q == Returned(r, code, no, no)
  <2> HIDE DEF q
  <2>6. RequestInv(q, subject) /\ ~q.applied
    BY <1>7, <2>5, Zenon DEF IsReturned, q
  <2>7. req' = [req EXCEPT ![s] = q]
    BY <2>1, Zenon DEF q
  <2> QED BY <1>1, <2>1, <2>6, <2>7, OneRequestNoWrite, Zenon DEF r
<1> QED BY <1>8, <1>9, Zenon

(* The existence query of a heartbeat. *)
LEMMA ProbeStep ==
    ASSUME SInv, NEW s \in Slots, Probe(s)
    PROVE  SInv' /\ NamedChange
<1> DEFINE r == req[s]
<1> DEFINE found == IF entity = Absent THEN 0 ELSE 1
<1> DEFINE q == [r EXCEPT !.st = "probed", !.version = found]
<1>1. /\ r.st = "running" /\ Does(r.op) = "record" /\ UNCHANGED <<subject, entity, latest, proc>>
      /\ req' = [req EXCEPT ![s].st = "probed", ![s].version = found]
  BY Zenon DEF Probe
<1>2. RequestInv(r, subject) /\ req \in [Slots -> Requests] /\ r \in Requests
  BY Zenon DEF SInv
<1>3. found \in 0..MaxVersions
  BY ServiceAssumption
<1> HIDE DEF found
<1>4. req' = [req EXCEPT ![s] = q]
  BY <1>1, <1>2, Zenon DEF Requests
<1>5. /\ q \in Requests /\ q.st = "probed" /\ q.op = r.op /\ q.lacks = r.lacks
      /\ q.applied = r.applied /\ q.pending = r.pending
  BY <1>2, <1>3, Zenon DEF Requests
<1> HIDE DEF q
<1>6. InService(r, subject) /\ ~r.applied /\ ~r.pending /\ r.lacks \subseteq Unasked(r.op)
  BY <1>1, <1>2, Zenon DEF RequestInv, InService
<1>7. InService(q, subject)
  BY <1>1, <1>5, <1>6, Zenon DEF InService, Does
<1>8. RequestInv(q, subject)
  BY <1>1, <1>5, <1>6, <1>7, Zenon DEF RequestInv
<1> QED BY <1>1, <1>4, <1>5, <1>6, <1>8, OneRequestNoWrite, Zenon

(* The statement of a heartbeat. *)
LEMMA RecordStep ==
    ASSUME SInv, NEW s \in Slots, Record(s)
    PROVE  SInv' /\ NamedChange
<1> DEFINE r == req[s]
<1> DEFINE op == Operations[r.op]
<1>1. r.st = "probed" /\ UNCHANGED <<subject, proc>>
  BY Zenon DEF Record
<1>2. RequestInv(r, subject)
  BY Zenon DEF SInv
<1>3. InService(r, subject) /\ r.op \in DOMAIN Operations /\ Does(r.op) = "record" /\ op.kind = subject
  BY <1>1, <1>2, Zenon DEF RequestInv, InService
<1>4. op.does = "record" /\ Writes(r.op)
  BY <1>3, Zenon DEF Does, Writes
<1>5. subject = "heartbeat" /\ op.handler.after \subseteq {"ok", "NotReadBack"}
  <2>1. Sound(op)
    BY <1>3, OperationsSound, Zenon
  <2> HIDE DEF op
  <2> QED BY <1>3, <1>4, <2>1, Zenon DEF Sound
<1>6. PICK effect \in AUX!RecordHeartbeat(r.version = 1, entity), end \in op.handler.after :
        /\ IF effect = "row" THEN Write(r) ELSE UNCHANGED <<entity, latest>>
        /\ req' = [req EXCEPT ![s] = Returned(r, end, effect = "row", FALSE)]
  BY Zenon DEF Record
<1> DEFINE written == effect = "row"
<1> DEFINE no == FALSE
<1>7. written \in BOOLEAN /\ no \in BOOLEAN /\ ~no
  BY Zenon
<1> DEFINE q == Returned(r, end, written, no)
<1>8. req' = [req EXCEPT ![s] = q]
  BY <1>6, Zenon
<1> HIDE DEF written, no, q
<1>9. end \in Codes /\ end \in {"ok", "NotReadBack"}
  BY <1>5, Zenon DEF Codes
<1>10. AnswerTo(r.op, end) \in Nat /\ (AnswerTo(r.op, end) = 500 => end \in {"Failed", "NoIdentifier", "NotReadBack", "CheckViolated"})
  BY <1>3, <1>9, Answers
<1>11. Does(r.op) \notin {"put", "delete"}
  BY <1>3, Zenon
<1>12. IsReturned(Returned(r, end, written, no), r, subject, written)
  <2>1. RightReply(r.op, end, written, no)
    BY <1>3, <1>10, <1>11, Zenon DEF RightReply, RightStatus
  <2> QED BY <1>1, <1>2, <1>7, <1>9, <2>1, ReturnedFine, Zenon
<1>13. RequestInv(q, subject) /\ (q.applied => written /\ q.version = r.version) /\ q # r
  BY <1>1, <1>12, Zenon DEF IsReturned, q
<1>14. CASE written
  <2>1. Write(r) /\ r.st # "idle"
    BY <1>1, <1>6, <1>14, Zenon DEF written
  <2> QED BY <1>1, <1>3, <1>4, <1>5, <1>8, <1>13, <2>1, OneWrite, Zenon
<1>15. CASE ~written
  <2>1. UNCHANGED <<entity, latest>> /\ ~q.applied
    BY <1>6, <1>7, <1>13, <1>15, Zenon DEF written
  <2> QED BY <1>1, <1>8, <1>13, <2>1, OneRequestNoWrite, Zenon
<1> QED BY <1>14, <1>15, Zenon

(* A store call that ends in an error that says nothing of its effect. *)
LEMMA FailStep ==
    ASSUME SInv, NEW s \in Slots, Fail(s)
    PROVE  SInv' /\ NamedChange
<1> DEFINE r == req[s]
<1> DEFINE op == Operations[r.op]
<1> DEFINE no == FALSE
<1> DEFINE late == Writes(r.op)
<1> DEFINE failed == "Failed"
<1> DEFINE q == Returned(r, failed, no, late)
<1>1. /\ r.st \in {"running", "probed"} /\ req' = [req EXCEPT ![s] = q]
      /\ UNCHANGED <<subject, entity, latest, proc>>
  BY Zenon DEF Fail
<1>2. RequestInv(r, subject)
  BY Zenon DEF SInv
<1>3. InService(r, subject) /\ r.op \in DOMAIN Operations
  BY <1>1, <1>2, Zenon DEF RequestInv, InService
<1>4. no \in BOOLEAN /\ ~no /\ late \in BOOLEAN /\ (late => Writes(r.op))
      /\ failed \in Codes /\ failed \in {"Failed", "NoIdentifier", "NotReadBack", "CheckViolated"}
  BY DEF Writes, Codes
<1>5. AnswerTo(r.op, failed) \in Nat
  BY <1>3, Answers
<1>6. Does(r.op) \in {"put", "delete"} => AnswerTo(r.op, failed) = 500
  <2>1. ASSUME Does(r.op) \in {"put", "delete"} PROVE "Failed" \notin DOMAIN op.handler.errors
    <3>1. op.does \in {"put", "delete"}
      BY <2>1, Zenon DEF Does
    <3>2. Sound(op)
      BY <1>3, OperationsSound, Zenon
    <3> HIDE DEF op
    <3> QED BY <3>1, <3>2, Zenon DEF Sound, NoFalseSuccess
  <2> QED BY <1>3, <2>1, Answers
<1>7. late => Does(r.op) \in {"put", "delete", "record"}
  BY Zenon DEF Writes
<1> HIDE DEF no, late, failed, q, r
<1>8. RightReply(r.op, failed, no, late)
  <2>1. CASE Does(r.op) \in {"put", "delete"}
    BY <1>4, <1>5, <1>6, <2>1 DEF RightReply, RightStatus
  <2>2. CASE Does(r.op) \notin {"put", "delete"}
    BY <1>4, <1>5, <1>7, <2>2, Zenon DEF RightReply, RightStatus
  <2> QED BY <2>1, <2>2, Zenon
<1>9. IsReturned(Returned(r, failed, no, late), r, subject, no)
  BY <1>1, <1>2, <1>4, <1>8, ReturnedFine, Zenon
<1>10. RequestInv(q, subject) /\ ~q.applied
  BY <1>4, <1>9, Zenon DEF IsReturned, q
<1> QED BY <1>1, <1>10, OneRequestNoWrite, Zenon DEF r

(* A write on its way is carried out after its handler has returned. *)
LEMMA ApplyLateStep ==
    ASSUME SInv, NEW s \in Slots, ApplyLate(s)
    PROVE  SInv' /\ NamedChange
<1> DEFINE r == req[s]
<1> DEFINE done == [r EXCEPT !.pending = FALSE, !.applied = TRUE]
<1> DEFINE q == IF r.st = "abandoned" THEN Idle ELSE done
<1>1. /\ r.pending /\ "ok" \in Results(Refusals(r.op, entity, r.caller, r.version)) /\ Write(r)
      /\ req' = [req EXCEPT ![s] = q] /\ UNCHANGED <<subject, proc>>
  BY Zenon DEF ApplyLate
<1>2. RequestInv(r, subject) /\ r \in Requests
  BY Zenon DEF SInv
<1>3. InService(r, subject) /\ r.st \in {"done", "abandoned"} /\ Writes(r.op) /\ r.lacks \subseteq Unasked(r.op)
  BY <1>1, <1>2, Zenon DEF RequestInv, InService, Requests
<1>4. /\ done \in Requests /\ done.st = r.st /\ done.op = r.op /\ done.lacks = r.lacks
      /\ done.version = r.version /\ done.code = r.code /\ done.status = r.status
      /\ done.applied /\ ~done.pending
  BY <1>2, Zenon DEF Requests
<1>5. RequestInv(Idle, subject) /\ Idle.st = "idle" /\ ~Idle.applied
  BY IdleFine, Zenon DEF Idle
<1> HIDE DEF done, r
<1>6. InService(done, subject)
  BY <1>3, <1>4, Zenon DEF InService
<1>7. r.st = "done" => RightAnswer(done)
  <2>1. r.st = "done" => RightAnswer(r)
    BY <1>2, Zenon DEF RequestInv
  <2> QED BY <1>1, <1>4, <2>1, LateEffectFine, Zenon DEF RightAnswer
<1>8. r.st = "done" => RequestInv(done, subject)
  BY <1>3, <1>4, <1>6, <1>7, Zenon DEF RequestInv
<1>9. RequestInv(q, subject) /\ (q.applied => q.version = r.version)
  BY <1>3, <1>4, <1>5, <1>8, Zenon
<1>10. q # r /\ r.st # "idle"
  BY <1>1, <1>3, <1>4, <1>5, Zenon
<1> HIDE DEF q
<1> QED BY <1>1, <1>3, <1>9, <1>10, OneWrite, Zenon DEF r

(* A write on its way is lost. *)
LEMMA ForgetStep ==
    ASSUME SInv, NEW s \in Slots, Forget(s)
    PROVE  SInv' /\ NamedChange
<1> DEFINE r == req[s]
<1> DEFINE done == [r EXCEPT !.pending = FALSE]
<1> DEFINE q == IF r.st = "abandoned" THEN Idle ELSE done
<1>1. r.pending /\ req' = [req EXCEPT ![s] = q] /\ UNCHANGED <<subject, entity, latest, proc>>
  BY Zenon DEF Forget
<1>2. RequestInv(r, subject) /\ r \in Requests
  BY Zenon DEF SInv
<1>3. InService(r, subject) /\ r.st \in {"done", "abandoned"} /\ r.lacks \subseteq Unasked(r.op)
  BY <1>1, <1>2, Zenon DEF RequestInv, InService, Requests
<1>4. /\ done \in Requests /\ done.st = r.st /\ done.op = r.op /\ done.lacks = r.lacks
      /\ done.version = r.version /\ done.code = r.code /\ done.status = r.status
      /\ done.applied = r.applied /\ ~done.pending
  BY <1>2, Zenon DEF Requests
<1>5. RequestInv(Idle, subject) /\ ~Idle.applied
  BY IdleFine, Zenon DEF Idle
<1> HIDE DEF done, r
<1>6. InService(done, subject)
  BY <1>3, <1>4, Zenon DEF InService
<1>7. r.st = "done" => RightAnswer(done)
  <2>1. r.st = "done" => RightAnswer(r)
    BY <1>2, Zenon DEF RequestInv
  <2> QED BY <1>1, <1>4, <2>1, LateEffectFine, Zenon DEF RightAnswer
<1>8. r.st = "done" => RequestInv(done, subject)
  BY <1>3, <1>4, <1>6, <1>7, Zenon DEF RequestInv
<1>9. RequestInv(q, subject) /\ (q.applied => r.applied /\ q.version = r.version)
  BY <1>3, <1>4, <1>5, <1>8, Zenon
<1> HIDE DEF q
<1> QED BY <1>1, <1>9, OneRequestNoWrite, Zenon DEF r

(* What is left of a request after its answer. *)
LEMMA LeftoverStep ==
    ASSUME SInv, NEW s \in Slots, req' = [req EXCEPT ![s] = Leftover(req[s])],
           UNCHANGED <<subject, entity, latest, proc>>
    PROVE  SInv' /\ NamedChange
<1> DEFINE q == Leftover(req[s])
<1>1. RequestInv(req[s], subject) /\ req[s] \in Requests
  BY Zenon DEF SInv
<1>2. req[s].pending => InService(req[s], subject) /\ Writes(req[s].op)
  BY <1>1, Zenon DEF RequestInv
<1>3. RequestInv(q, subject) /\ ~q.applied
  BY <1>1, <1>2, LeftoverFine, Zenon
<1>4. req' = [req EXCEPT ![s] = q]
  BY Zenon
<1> HIDE DEF q
<1> QED BY <1>3, <1>4, OneRequestNoWrite, Zenon

(* The timeout of a request: it is answered, or its handler goes on alone. *)
LEMMA TimeoutStep ==
    ASSUME SInv, NEW s \in Slots, Timeout(s)
    PROVE  SInv' /\ NamedChange
<1> DEFINE r == req[s]
<1> DEFINE q == [r EXCEPT !.timed = TRUE]
<1>1. UNCHANGED <<subject, entity, latest, proc>>
  BY Zenon DEF Timeout
<1>2. CASE r.st \in {"running", "probed"} /\ req' = [req EXCEPT ![s].timed = TRUE]
  <2>1. RequestInv(r, subject) /\ r \in Requests /\ req \in [Slots -> Requests]
    BY Zenon DEF SInv
  <2>2. req' = [req EXCEPT ![s] = q]
    BY <1>2, <2>1, Zenon DEF Requests
  <2>3. /\ q \in Requests /\ q.st = r.st /\ q.op = r.op /\ q.lacks = r.lacks /\ q.version = r.version
        /\ q.applied = r.applied /\ q.pending = r.pending
    BY <2>1, Zenon DEF Requests
  <2> HIDE DEF q
  <2>4. RequestInv(q, subject) /\ ~q.applied
    BY <1>2, <2>1, <2>3, Zenon DEF RequestInv, InService
  <2> QED BY <1>1, <2>2, <2>4, OneRequestNoWrite, Zenon
<1>3. CASE req' = [req EXCEPT ![s] = Leftover(r)]
  BY <1>1, <1>3, LeftoverStep, Zenon
<1> QED BY <1>2, <1>3, Zenon DEF Timeout

(* Every step of a request. *)
LEMMA RequestStepFine ==
    ASSUME SInv, NEW s \in Slots, RequestStep(s)
    PROVE  SInv' /\ NamedChange
<1>1. CASE Respond(s)
  BY <1>1, LeftoverStep, Zenon DEF Respond
<1> QED BY <1>1, ArriveStep, ExecuteStep, ProbeStep, RecordStep, FailStep, ApplyLateStep, ForgetStep, TimeoutStep, Zenon
        DEF RequestStep

-----------------------------------------------------------------------------
(* Steps of the process and of the worker *)

(* A step that leaves the requests and the entity. *)
LEMMA RequestsKept ==
    ASSUME SInv, UNCHANGED <<subject, entity, latest, req>>, proc' \in Steps
    PROVE  SInv' /\ NamedChange
<1>1. req \in [Slots -> Requests] /\ \A t \in Slots : RequestInv(req[t], subject)
  BY Zenon DEF SInv
<1>2. req' \in [Slots -> Requests] /\ \A t \in Slots : RequestInv(req'[t], subject')
  BY <1>1, Zenon
<1>3. \A t \in Slots : req'[t].applied => req[t].applied /\ req'[t].version = req[t].version
  BY Zenon
<1> QED BY <1>2, <1>3, NoWrite, Zenon

(* The requests of a process that stops. *)
LEMMA RequestsLost ==
    ASSUME SInv, UNCHANGED <<subject, entity, latest>>, req' = Lost, proc' \in Steps
    PROVE  SInv' /\ NamedChange
<1>1. ASSUME NEW s \in Slots PROVE RequestInv(Lost[s], subject) /\ ~Lost[s].applied
  <2> DEFINE r == req[s]
  <2>1. RequestInv(r, subject) /\ r \in Requests
    BY Zenon DEF SInv
  <2>2. CASE r.st \in {"running", "probed"}
    <3> DEFINE late == Writes(r.op)
    <3> DEFINE q == [r EXCEPT !.pending = late]
    <3>1. late \in BOOLEAN /\ (late => Writes(r.op))
      BY DEF Writes
    <3>2. Lost[s] = Leftover(q)
      BY <2>2, Zenon DEF Lost
    <3> HIDE DEF late
    <3>3. q \in Requests /\ q.op = r.op /\ q.version = r.version /\ q.lacks = r.lacks /\ q.pending = late
      BY <2>1, <3>1, Zenon DEF Requests
    <3> HIDE DEF q
    <3>4. q.pending => InService(q, subject) /\ Writes(q.op)
      BY <2>1, <2>2, <3>1, <3>3, Zenon DEF RequestInv, InService
    <3>5. RequestInv(Leftover(q), subject) /\ ~Leftover(q).applied
      BY <3>3, <3>4, LeftoverFine, Zenon
    <3> QED BY <3>2, <3>5, Zenon
  <2>3. CASE r.st \notin {"running", "probed"}
    <3>1. Lost[s] = Leftover(r)
      BY <2>3, Zenon DEF Lost
    <3>2. r.pending => InService(r, subject) /\ Writes(r.op)
      BY <2>1, Zenon DEF RequestInv
    <3>3. RequestInv(Leftover(r), subject) /\ ~Leftover(r).applied
      BY <2>1, <3>2, LeftoverFine, Zenon
    <3> QED BY <3>1, <3>3, Zenon
  <2> QED BY <2>2, <2>3, Zenon
<1>2. Lost \in [Slots -> Requests]
  <2>1. \A s \in Slots : Lost[s] \in Requests
    BY <1>1, Zenon DEF RequestInv
  <2>2. Lost = [s \in Slots |-> Lost[s]]
    BY Zenon DEF Lost
  <2> QED BY <2>1, <2>2, Zenon
<1> HIDE DEF Lost
<1>3. req' \in [Slots -> Requests] /\ \A t \in Slots : RequestInv(req'[t], subject') /\ ~req'[t].applied
  BY <1>1, <1>2, Zenon
<1> QED BY <1>3, NoWrite, Zenon

(* The states of the process. *)
LEMMA ProcessStates ==
    /\ \A code : StartFails(code) => proc' \in Steps
    /\ {"aux", "rid", "authorizer", "scd", "serving", "backoff", "panicked", "draining", "exited"} \subseteq Steps
BY Zenon DEF StartFails, Steps

(* Start-up and shutdown. *)
LEMMA ProcessStepFine ==
    ASSUME SInv, ProcessStep
    PROVE  SInv' /\ NamedChange
<1>1. ASSUME NEW step, NEW next \in Steps, CreateStore(step, next) PROVE SInv' /\ NamedChange
  <2>1. UNCHANGED <<subject, entity, latest, req>>
    BY <1>1, Zenon DEF CreateStore
  <2>2. proc' = next \/ \E problem \in DOMAIN StoreInit : StartFails(StoreInit[problem])
    BY <1>1, Zenon DEF CreateStore
  <2> QED BY <2>1, <2>2, RequestsKept, ProcessStates, Zenon
<1>2. CASE CreateAuxServer
  BY <1>1, <1>2, ProcessStates, Zenon DEF CreateAuxServer
<1>3. CASE CreateRIDServers
  BY <1>1, <1>3, ProcessStates, Zenon DEF CreateRIDServers
<1>4. CASE CreateSCDServer
  BY <1>1, <1>4, ProcessStates, Zenon DEF CreateSCDServer
<1>5. CASE NewRSAAuthorizer
  <2>1. UNCHANGED <<subject, entity, latest, req>>
    BY <1>5, Zenon DEF NewRSAAuthorizer
  <2>2. proc' = "scd" \/ \E code \in {"Unavailable", "other"} : StartFails(code)
    BY <1>5, Zenon DEF NewRSAAuthorizer
  <2> QED BY <2>1, <2>2, RequestsKept, ProcessStates, Zenon
<1>6. CASE Retry
  BY <1>6, RequestsKept, ProcessStates, Zenon DEF Retry
<1>7. CASE Signal
  <2>1. UNCHANGED <<subject, entity, latest, req>> /\ proc' \in {"draining", "exited"}
    BY <1>7, Zenon DEF Signal
  <2> QED BY <2>1, RequestsKept, ProcessStates, Zenon
<1>8. CASE Exit
  BY <1>8, RequestsLost, ProcessStates, Zenon DEF Exit
<1>9. CASE Restart
  BY <1>9, RequestsKept, ProcessStates, Zenon DEF Restart
<1> QED BY <1>2, <1>3, <1>4, <1>5, <1>6, <1>7, <1>8, <1>9, Zenon DEF ProcessStep

(* The refresh worker. *)
LEMMA WorkerStepFine ==
    ASSUME SInv, WorkerStep
    PROVE  SInv' /\ NamedChange
<1>1. proc \in Steps
  BY Zenon DEF SInv
<1>2. CASE Tick \/ Rotate \/ BeginRefresh \/ RefreshSucceeds \/ FinalizeWorker
  <2>1. UNCHANGED <<subject, entity, latest, req, proc>>
    BY <1>2, Zenon DEF Tick, Rotate, BeginRefresh, RefreshSucceeds, FinalizeWorker
  <2> QED BY <1>1, <2>1, RequestsKept, Zenon
<1>3. ASSUME NEW code, RefreshFails(code) PROVE SInv' /\ NamedChange
  <2>1. UNCHANGED <<subject, entity, latest>>
    BY <1>3, Zenon DEF RefreshFails
  <2>2. CASE Panic
    BY <2>1, <2>2, RequestsLost, ProcessStates, Zenon DEF Panic
  <2>3. CASE UNCHANGED <<proc, req>>
    BY <1>1, <2>1, <2>3, RequestsKept, Zenon
  <2> QED BY <1>3, <2>2, <2>3, Zenon DEF RefreshFails
<1> QED BY <1>2, <1>3, Zenon DEF WorkerStep, Refresh

(* Every step keeps the invariant, and changes the entity only as          *)
(* ChangesNameTheirVersion allows.                                         *)
LEMMA StepRequests == SInv /\ [Next]_vars => SInv' /\ NamedChange
<1> SUFFICES ASSUME SInv, [Next]_vars PROVE SInv' /\ NamedChange
  BY Zenon
<1>1. CASE UNCHANGED vars
  <2>1. proc \in Steps
    BY Zenon DEF SInv
  <2> QED BY <1>1, <2>1, RequestsKept, Zenon DEF vars
<1> QED BY <1>1, RequestStepFine, ProcessStepFine, WorkerStepFine, Zenon DEF Next

(* No request yet. *)
LEMMA InitRequests == Init => SInv
<1> SUFFICES ASSUME Init PROVE SInv
  BY Zenon
<1>1. /\ subject \in Subjects /\ entity = Absent /\ latest = 0 /\ req = [s \in Slots |-> Idle] /\ proc = "aux"
  BY Zenon DEF Init
<1>2. Idle \in Requests /\ RequestInv(Idle, subject) /\ ~Idle.applied
  BY IdleFine, Zenon DEF RequestInv, Idle
<1>3. entity \in Entities /\ latest \in 0..MaxVersions
  BY <1>1, ServiceAssumption DEF Absent, Entities
<1>4. \A s \in Slots : req[s] = Idle
  BY <1>1, Zenon
<1>5. VersionsAreNew
  BY <1>1, <1>2, <1>4, Zenon DEF VersionsAreNew, OneWriterPerVersion
<1> QED BY <1>1, <1>2, <1>3, <1>4, <1>5, ProcessStates, Zenon DEF SInv

-----------------------------------------------------------------------------
(* What SInv says of the requests is what the invariants of Service say.   *)
LEMMA RequestsInOrder ==
    SInv => /\ AuthorizedAccess /\ OneWriterPerVersion
            /\ RefusalHasNoEffect /\ SuccessIsApplied /\ ServerErrorIsAFailure
<1> SUFFICES ASSUME SInv
             PROVE  /\ AuthorizedAccess /\ OneWriterPerVersion
                    /\ RefusalHasNoEffect /\ SuccessIsApplied /\ ServerErrorIsAFailure
  BY Zenon
<1>1. \A s \in Slots : RequestInv(req[s], subject)
  BY Zenon DEF SInv
<1>2. AuthorizedAccess
  BY <1>1, Zenon DEF RequestInv, AuthorizedAccess
<1>3. \A s \in Slots : req[s].st = "done" => RightAnswer(req[s])
  BY <1>1, Zenon DEF RequestInv
<1>4. RefusalHasNoEffect /\ SuccessIsApplied /\ ServerErrorIsAFailure
  <2>1. RefusalHasNoEffect
    BY <1>3, Zenon DEF RightAnswer, RightStatus, RefusalHasNoEffect
  <2>2. SuccessIsApplied
    BY <1>3, Zenon DEF RightAnswer, RightStatus, SuccessIsApplied
  <2>3. ServerErrorIsAFailure
    BY <1>3, Zenon DEF RightAnswer, RightStatus, ServerErrorIsAFailure
  <2> QED BY <2>1, <2>2, <2>3, Zenon
<1>5. OneWriterPerVersion
  BY Zenon DEF SInv, VersionsAreNew, OneWriterPerVersion
<1> QED BY <1>2, <1>4, <1>5, Zenon

(* The types, with what KInv says of the authorizer. *)
LEMMA ServiceTypes == SInv /\ KInv => TypeOK
<1> SUFFICES ASSUME SInv, KInv PROVE TypeOK
  BY Zenon
<1>1. subject \in Subjects /\ proc \in Steps /\ latest \in 0..MaxVersions
  BY Zenon DEF SInv
<1>2. entity.version \in 0..MaxVersions /\ entity.owner \in Clients \cup {"nobody"}
  BY Zenon DEF SInv, Entities
<1>3. ASSUME NEW s \in Slots
      PROVE  /\ req[s].st \in {"idle", "running", "probed", "done", "abandoned"}
             /\ req[s].op \in {"none"} \cup DOMAIN Operations
             /\ req[s].version \in 0..MaxVersions
             /\ req[s].caller \in Clients \cup {"nobody"}
             /\ {req[s].applied, req[s].pending, req[s].timed} \subseteq BOOLEAN
             /\ req[s].lacks \subseteq NoAccess \cup BodyScopes
  <2>1. req[s] \in Requests
    BY Zenon DEF SInv
  <2> QED BY <2>1, Zenon DEF Requests
<1>4. issued \in 0..1
  BY DEF KInv
<1>5. auth \in [keys : 0..1, age : 0..(KeyTTL + 1), due : BOOLEAN, resolving : BOOLEAN, worker : BOOLEAN]
  <2>1. auth \in [keys : {0, 1}, age : 0..(KeyTTL + 1), due : BOOLEAN, resolving : BOOLEAN, worker : BOOLEAN]
    BY Zenon DEF KInv, Authorizers
  <2> QED BY <2>1
<1>6. auth.worker => proc \in {"scd", "serving", "draining"}
  BY Zenon DEF KInv, WorkerIsOfThisRun
<1> QED BY <1>1, <1>2, <1>3, <1>4, <1>5, <1>6, Zenon DEF TypeOK

(* The invariant of the requests, in every behaviour. *)
LEMMA RequestsStayInOrder == Spec => []SInv
<1>1. SInv /\ [Next]_vars => SInv'
  BY StepRequests, Zenon
<1> QED BY <1>1, InitRequests, PTL DEF Spec

-----------------------------------------------------------------------------
(* A request whose token lacks a scope that its operation or its body      *)
(* takes is never served by a handler: it is refused with a 4xx, whatever  *)
(* interface it came through (Authorize, the checks of the SCD handlers    *)
(* for scopes a body needs).  The one scope that may be lacking is that of *)
(* notify_for_constraints in a request for an operational intent, which    *)
(* the interface asks for and no handler does.                             *)
THEOREM AccessIsAuthorized == Spec => []AuthorizedAccess
BY RequestsStayInOrder, RequestsInOrder, PTL

(* Of the requests in progress that name the same version of the entity,   *)
(* one takes effect, however many handlers, timeouts, failures and late    *)
(* writes overlap.                                                         *)
THEOREM VersionsHaveOneWriter == Spec => []OneWriterPerVersion
BY RequestsStayInOrder, RequestsInOrder, PTL

(* A request answered 4xx had no effect and will have none, heartbeats     *)
(* aside.                                                                  *)
THEOREM RefusalsHaveNoEffect == Spec => []RefusalHasNoEffect
BY RequestsStayInOrder, RequestsInOrder, PTL

(* A write answered 2xx took effect, heartbeats and an availability set    *)
(* that ends in an error with "does not exist" in it aside.                *)
THEOREM SuccessesAreApplied == Spec => []SuccessIsApplied
BY RequestsStayInOrder, RequestsInOrder, PTL

(* A 500 is never the answer to a refusal: every code a store call refuses *)
(* with has a status in its handler, and every status a handler gives has  *)
(* a place in the response set of its route.  What a CHECK of the schema   *)
(* refuses has no code and is the exception.                               *)
THEOREM ServerErrorsAreFailures == Spec => []ServerErrorIsAFailure
BY RequestsStayInOrder, RequestsInOrder, PTL

(* Whatever changes the entity, at once or after its handler has returned  *)
(* or its process has ended, named the version it replaces and comes from  *)
(* the entity's owner; heartbeats have no version, and anyone may set an   *)
(* availability.                                                           *)
THEOREM ChangesReplaceTheirVersion == Spec => ChangesNameTheirVersion
<1>1. SInv /\ [Next]_vars => [NamedChange]_vars
  BY StepRequests, Zenon
<1>2. ChangesNameTheirVersion <=> [][NamedChange]_vars
  BY Zenon DEF ChangesNameTheirVersion, NamedChange
<1> QED BY <1>1, <1>2, RequestsStayInOrder, PTL DEF Spec

(* Keys older than jwks_key_ttl by a refresh interval are in use only      *)
(* while a refresh that replaces them or stops the service is due or under *)
(* way, and the worker that refreshes them belongs to the current run of   *)
(* RunHTTPServer.                                                          *)
THEOREM KeysStayFresh == Spec => [](KeysAreFresh /\ WorkerIsOfThisRun)
<1>1. KInv => KeysAreFresh /\ WorkerIsOfThisRun
  BY Zenon DEF KInv
<1> QED BY <1>1, InitKeys, StepKeys, PTL DEF Spec

(* The variables keep their types, and the refresh worker belongs to the   *)
(* current run of RunHTTPServer.                                           *)
THEOREM ServiceTypesHold == Spec => []TypeOK
<1>1. KInv /\ [Next]_vars => KInv'
  BY StepKeys, Zenon
<1>2. Spec => []KInv
  BY <1>1, InitKeys, PTL DEF Spec
<1> QED BY <1>2, RequestsStayInOrder, ServiceTypes, PTL
=============================================================================
