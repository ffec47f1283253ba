------------------------------- MODULE Service -------------------------------
(***************************************************************************)
(* The core service process (cmds/core-service): start-up, the HTTP        *)
(* requests it serves, the refresh of the keys that verify access tokens   *)
(* and shutdown.  Every operation of the SCD, RID, auxiliary and           *)
(* versioning interfaces is one entry of a table (ScdApi, RidV1Api,        *)
(* RidV2Api, AuxApi).  The requests of a behaviour concern one entity, of  *)
(* the kind given by the variable subject.                                 *)
(***************************************************************************)
EXTENDS Api

CONSTANTS
    Slots,        \* the requests in progress at a time
    Serves(_, _), \* the operations considered in each slot
    Clients,      \* subjects of access tokens
    MaxVersions,  \* bound on the versions the entity goes through
    KeyTTL,       \* jwks_key_ttl in refresh intervals
    Subjects,     \* the kinds of entities considered
    KeySubjects,  \* those for which refresh intervals are considered too
    StopSubjects  \* those for which signals are considered too

ASSUME ServiceAssumption ==
    /\ Slots # {} /\ "nobody" \notin Clients
    /\ MaxVersions \in Nat \ {0} /\ KeyTTL \in Nat \ {0}
    /\ KeySubjects \subseteq Subjects /\ StopSubjects \subseteq Subjects

SCD == INSTANCE ScdApi
RID1 == INSTANCE RidV1Api
RID2 == INSTANCE RidV2Api
AUX == INSTANCE AuxApi

VARIABLES
    subject,  \* what the requests are about
    entity,   \* the entity in the store
    latest,   \* the last version given to it (versions are not reused)
    req,      \* for each slot, the request it serves
    proc,     \* how far the process is
    issued,   \* the generation of keys the authority signs with
    auth      \* the authorizer and its refresh worker

vars == <<subject, entity, latest, req, proc, issued, auth>>

-----------------------------------------------------------------------------
(* Requests *)

(* The routers in the order RunHTTPServer gives them to the MultiRouter;   *)
(* no pattern of one matches a path of another.                            *)
Operations ==
    Over(AUX!AuxOperations, Over(AUX!VersioningOperations,
         Over(RID1!Operations, Over(RID2!Operations, SCD!Operations))))

Names(kind) == {n \in DOMAIN Operations : Operations[n].kind = kind}

Refusals(n, e, caller, version) ==
    LET op == Operations[n]
    IN  CASE op.kind \in {"isa", "ridSubscription"} -> RID1!Refusals(op.call, e, caller, version)
          [] op.kind = "heartbeat" \/ op.call \in {"getPool", "getCAs", "none"} -> AUX!Refusals(op.call)
          [] OTHER -> SCD!Refusals(op.call, e, caller, version)

Does(n) == IF n = "none" THEN "nothing" ELSE Operations[n].does

(* The scopes no handler asks for, of those the interface ties to what a   *)
(* body of the operation may ask.                                          *)
Unasked(n) == IF n \in DOMAIN Operations THEN SCD!Unchecked(Operations[n].call) ELSE {}

Writes(n) == Does(n) \in {"put", "delete", "record"}

(* A token is verified against the cached keys by TokenMiddleware before   *)
(* the router sees the request.  "valid": it is present, well formed,      *)
(* unexpired and signed with one of them.                                  *)
Scopes(kind) == {{}} \cup UNION {Operations[n].security : n \in Names(kind)}

Tokens(kind) == [valid : BOOLEAN, audience : BOOLEAN, scopes : Scopes(kind)]

ValidateScopes(security, scopes) == \E option \in security : option \subseteq scopes

Authorize(security, token) ==
    CASE ~token.valid                             -> "Unauthenticated"
      [] token.valid /\ ~token.audience           -> "Unauthenticated"
      [] token.valid /\ token.audience
           /\ ~ValidateScopes(security, token.scopes) -> "PermissionDenied"
      [] OTHER                                    -> "ok"

Admission(security, token) == IF security = Open THEN "ok" ELSE Authorize(security, token)

(* The scopes a body may take. *)
BodyScopes == UNION {(UNION Operations[n].handler.demands) \cup Unasked(n) : n \in DOMAIN Operations}

Idle == [st |-> "idle", op |-> "none", caller |-> "nobody", version |-> 0, lacks |-> {},
         code |-> "none", status |-> 0, applied |-> FALSE, pending |-> FALSE, timed |-> FALSE]

Running(n, caller, version, lacks) ==
    [Idle EXCEPT !.st = "running", !.op = n, !.caller = caller, !.version = version, !.lacks = lacks]

Refused(status, lacks) ==
    [Idle EXCEPT !.st = "done", !.code = "refused", !.status = status, !.lacks = lacks]

(* What the token lacks of what the interface asks: access to the          *)
(* operation, and the scopes for what the body asks.                       *)
NoAccess == {"access"}

Lacks(op, token, scopes) ==
    IF op.security = Open THEN {}
    ELSE IF token.valid /\ token.audience /\ \E option \in op.security : option \subseteq token.scopes
         THEN scopes \ token.scopes
         ELSE NoAccess

(* Whether a check of the handler stops a request.  The authorizer names   *)
(* the client of every request it admits; a body that demands a scope the  *)
(* token lacks is always stopped; any other flaw a request may have or not.*)
Stops(check, token, demand) ==
    CASE check[1] = "client"  -> {FALSE}
      [] check[1] = "demands" -> {~(demand \subseteq token.scopes)}
      [] OTHER                -> BOOLEAN

Versions(version) ==
    CASE version = "none"     -> {0}
      [] version = "optional" -> 0..MaxVersions
      [] version = "required" -> 1..MaxVersions

(* The state of a request once admission is over: maxBodySizeMiddleware,   *)
(* the authorizer, the checks of the handler up to the store call.  These  *)
(* are local to the request and make one step.                             *)
ArrivalsOf(n) ==
    LET op     == Operations[n]
        checks == op.handler.checks
        Passes(i, token, demand) == \A j \in 1..(i - 1) : FALSE \in Stops(checks[j], token, demand)
        Cases  == [token : Tokens(op.kind), demand : op.handler.demands, more : SUBSET Unasked(n)]
        Admitted == {c \in Cases : Admission(op.security, c.token) = "ok"}
        Short(c) == Lacks(op, c.token, c.demand \cup c.more)
    IN  {Refused(413, NoAccess)}
        \cup {Refused(WriteResponse(op.route, SetAuthError(Admission(op.security, c.token))), NoAccess) :
                c \in Cases \ Admitted}
        \cup (UNION {{Refused(WriteResponse(op.route, checks[i][2]), Short(c)) :
                        i \in {k \in DOMAIN checks : /\ Passes(k, c.token, c.demand)
                                                     /\ TRUE \in Stops(checks[k], c.token, c.demand)}} :
                       c \in Admitted})
        \cup {Running(n, caller, version, Short(c)) :
                caller \in Clients, version \in Versions(op.handler.version),
                c \in {d \in Admitted : Passes(Len(checks) + 1, d.token, d.demand)}}

Arrivals ==
    [s \in Slots |->
       [kind \in Subjects |-> UNION {ArrivalsOf(n) : n \in {m \in Names(kind) : Serves(s, m)}}]]

-----------------------------------------------------------------------------
(* What becomes of a request that leaves the process or whose client is    *)
(* gone: only a write that may still reach the store is left of it.        *)
Leftover(r) ==
    IF r.pending
    THEN [Running(r.op, r.caller, r.version, r.lacks) EXCEPT !.st = "abandoned", !.pending = TRUE]
    ELSE Idle

(* The store call of slot s ends: the handler turns the result into a      *)
(* status and the router writes it, if the client still waits.  Who sent a *)
(* request with nothing pending, and which version it named if it had no   *)
(* effect, matters no more.                                                *)
Returned(r, code, applied, pending) ==
    LET op   == Operations[r.op]
        done == [r EXCEPT !.st = "done", !.code = code, !.applied = applied, !.pending = pending,
                          !.caller = IF pending THEN @ ELSE "nobody",
                          !.version = IF applied \/ pending THEN @ ELSE 0,
                          !.status = WriteResponse(op.route, HandlerStatus(op.handler, code))]
    IN  IF r.timed THEN Leftover(done) ELSE done

(* A process that stops takes its requests with it; a write in progress    *)
(* may or may not reach the store.                                         *)
Lost == [s \in Slots |->
           IF req[s].st \in {"running", "probed"}
           THEN Leftover([req[s] EXCEPT !.pending = Writes(req[s].op)])
           ELSE Leftover(req[s])]

\* mutant: an update does not give the entity a new version
WrittenWithoutNewVersion(n, caller) ==
    CASE Does(n) = "put"    -> [version |-> IF entity = Absent THEN latest + 1 ELSE entity.version, owner |-> caller]
      [] Does(n) = "delete" -> Absent
      [] Does(n) = "record" -> [version |-> 1, owner |-> "nobody"]

(* The entity a write leaves. *)
Written(n, caller) ==
    CASE Does(n) = "put"    -> [version |-> latest + 1, owner |-> caller]
      [] Does(n) = "delete" -> Absent
      [] Does(n) = "record" -> [version |-> 1, owner |-> "nobody"]

Write(r) ==
    /\ Does(r.op) = "put" => latest < MaxVersions
    /\ entity' = Written(r.op, r.caller)
    /\ latest' = IF Does(r.op) = "put" THEN latest + 1 ELSE latest

-----------------------------------------------------------------------------
(* Actions of a request *)

(* A request arrives in a free slot and is admitted or refused; clients    *)
(* know no version that has not been given.                                *)
Arrive(s) ==
    /\ proc = "serving" /\ req[s] = Idle
    /\ \E r \in Arrivals[s][subject] :
         /\ r.version <= latest
         /\ req' = [req EXCEPT ![s] = r]
    /\ UNCHANGED <<subject, entity, latest, proc, issued, auth>>

(* The store call of an operation: one transaction, or a read.             *)
Execute(s) ==
    LET r == req[s] IN
    /\ r.st = "running" /\ Does(r.op) # "record"
    /\ \E code \in Results(Refusals(r.op, entity, r.caller, r.version)) :
         IF code = "ok" /\ Writes(r.op)
         THEN /\ Write(r)
              /\ \E end \in Operations[r.op].handler.after : req' = [req EXCEPT ![s] = Returned(r, end, TRUE, FALSE)]
         ELSE /\ req' = [req EXCEPT ![s] = Returned(r, code, FALSE, FALSE)]
              /\ UNCHANGED <<entity, latest>>
    /\ UNCHANGED <<subject, proc, issued, auth>>

(* RecordHeartbeat: the existence query (the version field keeps its       *)
(* result), then the statement it selects.                                 *)
Probe(s) ==
    /\ req[s].st = "running" /\ Does(req[s].op) = "record"
    /\ req' = [req EXCEPT ![s].st = "probed", ![s].version = IF entity = Absent THEN 0 ELSE 1]
    /\ UNCHANGED <<subject, entity, latest, proc, issued, auth>>

Record(s) ==
    LET r == req[s] IN
    /\ r.st = "probed"
    /\ \E effect \in AUX!RecordHeartbeat(r.version = 1, entity), end \in Operations[r.op].handler.after :
         /\ IF effect = "row" THEN Write(r) ELSE UNCHANGED <<entity, latest>>
         /\ req' = [req EXCEPT ![s] = Returned(r, end, effect = "row", FALSE)]
    /\ UNCHANGED <<subject, proc, issued, auth>>

(* The store call ends in an error that says nothing of its effect: a lost *)
(* connection, a cancelled context, retries used up.  A write may already  *)
(* be on its way.                                                          *)
Fail(s) ==
    LET r == req[s] IN
    /\ r.st \in {"running", "probed"} /\ Does(r.op) # "local"
    /\ req' = [req EXCEPT ![s] = Returned(r, "Failed", FALSE, Writes(r.op))]
    /\ UNCHANGED <<subject, entity, latest, proc, issued, auth>>

(* A write on its way is carried out, by the code of the operation, ...    *)
ApplyLate(s) ==
    LET r == req[s] IN
    /\ r.pending
    /\ "ok" \in Results(Refusals(r.op, entity, r.caller, r.version))
    /\ Write(r)
    /\ req' = [req EXCEPT ![s] = IF r.st = "abandoned" THEN Idle ELSE [r EXCEPT !.pending = FALSE, !.applied = TRUE]]
    /\ UNCHANGED <<subject, proc, issued, auth>>

(* ... or never: it is refused, rolled back or lost.                       *)
Forget(s) ==
    LET r == req[s] IN
    /\ r.pending
    /\ req' = [req EXCEPT ![s] = IF r.st = "abandoned" THEN Idle ELSE [r EXCEPT !.pending = FALSE]]
    /\ UNCHANGED <<subject, entity, latest, proc, issued, auth>>

Respond(s) ==
    /\ req[s].st = "done"
    /\ req' = [req EXCEPT ![s] = Leftover(req[s])]
    /\ UNCHANGED <<subject, entity, latest, proc, issued, auth>>

(* http.TimeoutHandler gives the request up with a 503 and cancels its     *)
(* context; the handler goes on until its store call returns.  The server  *)
(* closes the connection after the same time (WriteTimeout), so the client *)
(* need not see the 503.                                                   *)
Timeout(s) ==
    LET r == req[s] IN
    /\ ~r.timed
    /\ \/ /\ r.st \in {"running", "probed"}
          /\ req' = [req EXCEPT ![s].timed = TRUE]
       \/ /\ r.st = "done"
          /\ req' = [req EXCEPT ![s] = Leftover(r)]
    /\ UNCHANGED <<subject, entity, latest, proc, issued, auth>>

-----------------------------------------------------------------------------
(* Start-up and shutdown *)

NoAuthorizer == [keys |-> 0, age |-> 0, due |-> FALSE, resolving |-> FALSE, worker |-> FALSE]

(* sqlstore.Init: which of the problems it meets are worth a retry. *)
StoreInit ==
    [connectionRefused |-> "Unavailable", noDatabase |-> "Unavailable",
     notBootstrapped |-> "other", otherSchemaVersion |-> "other", anything |-> "other"]

\* mutant: the context of the failed attempt is not cancelled
StartFailsWithoutCancel(code) ==
    /\ proc' = IF code = "Unavailable" THEN "backoff" ELSE "panicked"
    /\ UNCHANGED auth

(* The main loop: RunHTTPServer is run again after a delay when a          *)
(* prerequisite is not available; any other error of it is fatal.  Its     *)
(* cancelled context ends the worker and a resolution it may be in, taken  *)
(* here as part of the step: the server of this attempt serves nobody.     *)
StartFails(code) ==
    /\ proc' = IF code = "Unavailable" THEN "backoff" ELSE "panicked"
    /\ auth' = NoAuthorizer

CreateStore(step, next) ==
    /\ proc = step
    /\ \/ /\ proc' = next
          /\ UNCHANGED auth
       \/ \E problem \in DOMAIN StoreInit : StartFails(StoreInit[problem])
    /\ UNCHANGED <<subject, entity, latest, req, issued>>

CreateAuxServer == CreateStore("aux", "rid")
CreateRIDServers == CreateStore("rid", "authorizer")
CreateSCDServer == CreateStore("scd", "serving")

(* The first key resolution fails the start-up as the store does; then the *)
(* refresh worker runs until the context of this RunHTTPServer is done.    *)
NewRSAAuthorizer ==
    /\ proc = "authorizer"
    /\ \/ /\ proc' = "scd"
          /\ auth' = [NoAuthorizer EXCEPT !.keys = issued, !.worker = TRUE]
       \/ \E code \in {"Unavailable", "other"} : StartFails(code)
    /\ UNCHANGED <<subject, entity, latest, req, issued>>

Retry ==
    /\ proc = "backoff"
    /\ proc' = "aux"
    /\ UNCHANGED <<subject, entity, latest, req, issued, auth>>

(* A signal is handled only while the server listens: the context is       *)
(* cancelled and the server shut down.  Before, it ends the process.       *)
Signal ==
    /\ subject \in StopSubjects
    /\ proc \in {"aux", "rid", "authorizer", "scd", "backoff", "serving"}
    /\ IF proc = "serving"
       THEN proc' = "draining" /\ UNCHANGED <<auth, req>>
       ELSE proc' = "exited" /\ auth' = NoAuthorizer /\ UNCHANGED req
    /\ UNCHANGED <<subject, entity, latest, issued>>

(* ListenAndServe returns as soon as Shutdown is called, main returns and  *)
(* the process ends, with requests in progress or not.                     *)
Exit ==
    /\ proc = "draining"
    /\ proc' = "exited" /\ req' = Lost /\ auth' = NoAuthorizer
    /\ UNCHANGED <<subject, entity, latest, issued>>

Panic == proc' = "panicked" /\ req' = Lost /\ auth' = NoAuthorizer

(* The deployment starts the service again. *)
Restart ==
    /\ proc \in {"panicked", "exited"}
    /\ proc' = "aux"
    /\ UNCHANGED <<subject, entity, latest, req, issued, auth>>

-----------------------------------------------------------------------------
(* The refresh worker *)

(* A refresh interval passes: the ticker holds at most one tick.  "age"    *)
(* counts the ticks since the last success, so that age - 1 to age + 1     *)
(* intervals have gone by; ages beyond the TTL are not told apart.         *)
Tick ==
    /\ subject \in KeySubjects /\ auth.worker
    /\ auth' = [auth EXCEPT !.age = IF @ <= KeyTTL THEN @ + 1 ELSE @, !.due = TRUE]
    /\ UNCHANGED <<subject, entity, latest, req, proc, issued>>

Rotate ==
    /\ subject \in KeySubjects /\ issued = 0
    /\ issued' = 1
    /\ UNCHANGED <<subject, entity, latest, req, proc, auth>>

BeginRefresh ==
    /\ auth.worker /\ auth.due /\ ~auth.resolving
    /\ auth' = [auth EXCEPT !.due = FALSE, !.resolving = TRUE]
    /\ UNCHANGED <<subject, entity, latest, req, proc, issued>>


RefreshSucceeds ==
    /\ auth.worker /\ auth.resolving
    /\ auth' = [auth EXCEPT !.keys = issued, !.age = 0, !.resolving = FALSE]
    /\ UNCHANGED <<subject, entity, latest, req, proc, issued>>

\* mutant: the age of the keys is not looked at
RefreshFailsAtAnyAge(code) ==
    /\ auth.worker /\ auth.resolving
    /\ \/ code # "Unavailable" /\ Panic
       \/ code = "Unavailable" /\ auth' = [auth EXCEPT !.resolving = FALSE] /\ UNCHANGED <<proc, req>>
    /\ UNCHANGED <<subject, entity, latest, issued>>

(* The service panics on an error that is not of availability and when     *)
(* time.Since(lastSuccess) has reached the TTL.  KeyTTL ticks after the    *)
(* last success it may or may not have; one more, and it has.              *)
RefreshFails(code) ==
    /\ auth.worker /\ auth.resolving
    /\ \/ (code # "Unavailable" \/ auth.age >= KeyTTL) /\ Panic
       \/ /\ code = "Unavailable" /\ auth.age <= KeyTTL
          /\ auth' = [auth EXCEPT !.resolving = FALSE]
          /\ UNCHANGED <<proc, req>>
    /\ UNCHANGED <<subject, entity, latest, issued>>

(* The context is done: the worker leaves its loop at the next select. *)
FinalizeWorker ==
    /\ proc = "draining" /\ auth.worker /\ ~auth.resolving
    /\ auth' = NoAuthorizer
    /\ UNCHANGED <<subject, entity, latest, req, proc, issued>>

-----------------------------------------------------------------------------
Init ==
    /\ subject \in Subjects
    /\ entity = Absent /\ latest = 0
    /\ req = [s \in Slots |-> Idle]
    /\ proc = "aux"
    /\ issued = 0
    /\ auth = NoAuthorizer

RequestStep(s) ==
    \/ Arrive(s) \/ Execute(s) \/ Probe(s) \/ Record(s) \/ Fail(s)
    \/ ApplyLate(s) \/ Forget(s) \/ Respond(s) \/ Timeout(s)

ProcessStep ==
    \/ CreateAuxServer \/ CreateRIDServers \/ NewRSAAuthorizer \/ CreateSCDServer
    \/ Retry \/ Signal \/ Exit \/ Restart

Refresh == RefreshSucceeds \/ RefreshFails("Unavailable") \/ RefreshFails("other")

WorkerStep == Tick \/ Rotate \/ BeginRefresh \/ Refresh \/ FinalizeWorker

Next == (\E s \in Slots : RequestStep(s)) \/ ProcessStep \/ WorkerStep

Spec == Init /\ [][Next]_vars

(* The ticker ticks and the worker takes its ticks.  Nothing else need     *)
(* ever happen: store calls and key resolutions (http.DefaultClient has no *)
(* timeout) need not return.                                               *)
FairSpec == Spec /\ WF_vars(Tick) /\ WF_vars(BeginRefresh)

-----------------------------------------------------------------------------
Steps == {"aux", "rid", "authorizer", "scd", "serving", "backoff", "panicked", "draining", "exited"}

(* The kinds of values the variables take.  The refresh worker of an       *)
(* authorizer exists only in the run of RunHTTPServer that created it: a   *)
(* start-up that fails or is retried leaves none behind (defer ctxCancel). *)
TypeOK ==
    /\ subject \in Subjects
    /\ entity.version \in 0..MaxVersions /\ entity.owner \in Clients \cup {"nobody"}
    /\ latest \in 0..MaxVersions
    /\ \A s \in Slots : /\ req[s].st \in {"idle", "running", "probed", "done", "abandoned"}
                        /\ req[s].op \in {"none"} \cup DOMAIN Operations
                        /\ req[s].version \in 0..MaxVersions
                        /\ req[s].caller \in Clients \cup {"nobody"}
                        /\ {req[s].applied, req[s].pending, req[s].timed} \subseteq BOOLEAN
                        /\ req[s].lacks \subseteq NoAccess \cup BodyScopes
    /\ proc \in Steps
    /\ issued \in 0..1
    /\ auth \in [keys : 0..1, age : 0..(KeyTTL + 1), due : BOOLEAN, resolving : BOOLEAN, worker : BOOLEAN]
    /\ auth.worker => proc \in {"scd", "serving", "draining"}

(* A request whose token lacks a scope that its operation or its body      *)
(* takes (the security options of the interface, the scopes for states and *)
(* notifications) never runs and is refused with a 4xx.  The exception is  *)
(* notify_for_constraints of an operational intent's new subscription:     *)
(* "The scope utm.constraint_processing is required to set this flag true" *)
(* (pkg/api/scdv1/types.gen.go:288), and no handler asks for it.           *)
AuthorizedAccess ==
    \A s \in Slots :
      req[s].lacks \subseteq Unasked(req[s].op) \/ (req[s].st = "done" /\ req[s].status \in 400..499)

(* Whatever changes the entity, at once or late, was admitted, named the   *)
(* version it replaces (none for a creation, where there is no entity) and *)
(* comes from the entity's owner; anyone may set an availability.  This is *)
(* about requests for the entity's own kind: those for operational intents *)
(* also create, replace and delete implicit subscriptions (see Scd).       *)
ChangesNameTheirVersion ==
    [][(entity' # entity /\ subject # "heartbeat") =>
         \E s \in Slots :
           /\ req'[s] # req[s] /\ req[s].st # "idle" /\ Writes(req[s].op)
           /\ req[s].version = entity.version
           /\ entity # Absent /\ subject # "availability" => req[s].caller = entity.owner]_vars

(* Of two requests in progress that name the same version, at most one     *)
(* takes effect, through whichever interface they came.                    *)
OneWriterPerVersion ==
    \A s, t \in Slots :
      s # t /\ req[s].applied /\ req[t].applied /\ req[s].version = req[t].version /\ subject # "heartbeat"
        => req[s].version = 0

(* A request answered 4xx had no effect and will have none: the client may *)
(* correct and repeat it.  Heartbeats are the exception: their handler     *)
(* answers 400 for a store failure.                                        *)
RefusalHasNoEffect ==
    \A s \in Slots :
      req[s].st = "done" /\ req[s].status \in 400..499 /\ Does(req[s].op) # "record"
        => ~req[s].applied /\ ~req[s].pending

(* A write answered 2xx took effect.  The exceptions: an availability set  *)
(* where the store's error says that something "does not exist" (its table *)
(* or, repeated in a refusal, a version that was named so), and heartbeats,*)
(* whose statements' errors are not looked at.                             *)
SuccessIsApplied ==
    \A s \in Slots :
      /\ req[s].st = "done" /\ req[s].status \in 200..299
      /\ Does(req[s].op) \in {"put", "delete"}
      => req[s].applied \/ req[s].code = "NoTable"

(* A 500 is never the answer to a request an operation understood and      *)
(* refused: every refusal has a status in its handler and in the response  *)
(* set of its route.  The exception: a row that a CHECK of the schema      *)
(* refuses (starts_at < ends_at, past_ovns) and no operation looked at.    *)
ServerErrorIsAFailure ==
    \A s \in Slots :
      req[s].st = "done" /\ req[s].status = 500
        => req[s].code \in {"Failed", "NoIdentifier", "NotReadBack", "CheckViolated"}

(* Keys older than jwks_key_ttl by a refresh interval are in use only      *)
(* while a refresh that replaces them or stops the service is due or under *)
(* way; for less than that a failure just before the TTL may leave them.   *)
KeysAreFresh ==
    auth.worker /\ auth.age > KeyTTL => auth.due \/ auth.resolving

=============================================================================
