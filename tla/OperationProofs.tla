-------------------------- MODULE OperationProofs --------------------------
(***************************************************************************)
(* Proofs about the operations of Service, for any entity and any caller:  *)
(* every result of a store call has a status in the handler of its         *)
(* operation and in the response set of its route, and a write that        *)
(* succeeds named the version it replaces and comes from its owner.        *)
(***************************************************************************)
EXTENDS Service, TLAPS

-----------------------------------------------------------------------------
(* Store calls *)

(* The results a request may end with. *)
Codes ==
    {"none", "refused", "ok", "Failed", "NotReadBack", "NoIdentifier", "NotFound", "VersionMismatch",
     "PermissionDenied", "BadRequest", "AlreadyExists", "Exhausted", "NotImplemented", "NoFile",
     "PreconditionFailed", "Conflict", "NoTable", "CheckViolated"}

(* The codes each store call refuses with. *)
RidCodes ==
    [delete             |-> {"NotFound", "VersionMismatch", "PermissionDenied"},
     insertISA          |-> {"BadRequest", "AlreadyExists", "CheckViolated"},
     updateISA          |-> {"BadRequest", "NotFound", "VersionMismatch", "PermissionDenied", "CheckViolated"},
     createSubscription |-> {"BadRequest", "AlreadyExists", "Exhausted", "CheckViolated"},
     updateSubscription |-> {"BadRequest", "NotFound", "VersionMismatch", "PermissionDenied", "Exhausted",
                             "CheckViolated"},
     get                |-> {"NotFound"},
     search             |-> {"BadRequest"}]

ScdCodes ==
    [putOIR             |-> {"PermissionDenied", "VersionMismatch", "NotFound", "PreconditionFailed",
                             "BadRequest", "Conflict", "CheckViolated"},
     deleteOIR          |-> {"NotFound", "PermissionDenied", "VersionMismatch", "PreconditionFailed"},
     putConstraint      |-> {"VersionMismatch", "PermissionDenied", "CheckViolated"},
     deleteConstraint   |-> {"NotFound", "PermissionDenied", "VersionMismatch"},
     putSubscription    |-> {"BadRequest", "NotFound", "AlreadyExists", "VersionMismatch", "PermissionDenied",
                             "CheckViolated"},
     deleteSubscription |-> {"NotFound", "PermissionDenied", "VersionMismatch", "BadRequest"},
     setAvailability    |-> {"NoTable", "AlreadyExists", "VersionMismatch"},
     report             |-> {"NoIdentifier", "BadRequest"},
     queryOIRs          |-> {"BadRequest"},
     getOIR             |-> {"NotFound"},
     getConstraint      |-> {"NotFound"},
     getSubscription    |-> {"NotFound", "PermissionDenied"},
     getAvailability    |-> {"NoTable"},
     queryConstraints   |-> {},
     querySubscriptions |-> {}]

AuxCodes ==
    [getPool |-> {"NotImplemented"}, getCAs |-> {"NoFile"}, none |-> {}, getInstances |-> {}, recordHeartbeat |-> {}]

(* A store call that refuses with these codes. *)
RefusesWith(refusals, codes) ==
    /\ Len(refusals) \in Nat /\ DOMAIN refusals = 1..Len(refusals)
    /\ \A i \in DOMAIN refusals : refusals[i].code \in codes
    /\ codes \subseteq Codes \ {"ok", "Failed", "NotReadBack"}

(* What the success of a call that writes shows: the version it names is   *)
(* the entity's, and the caller is the owner of an entity that exists.     *)
Fenced(call, e, caller, version) ==
    /\ (call \in {"insertISA", "createSubscription"} => version = 0) => version = e.version
    /\ e # Absent /\ call # "setAvailability" => caller = e.owner

Fences(call, refusals, e, caller, version) ==
    (\A i \in DOMAIN refusals : refusals[i].applies # "yes") => Fenced(call, e, caller, version)

(* A call ends in one of its codes or in success, ... *)
LEMMA ResultsWithin ==
    ASSUME NEW r, NEW codes, RefusesWith(r, codes)
    PROVE  Results(r) \subseteq codes \cup {"ok"}
BY Zenon DEF Results, RefusesWith

(* ... and in success only when no refusal certainly applies. *)
LEMMA SuccessPasses ==
    ASSUME NEW r, NEW codes, RefusesWith(r, codes), "ok" \in Results(r)
    PROVE  \A i \in DOMAIN r : r[i].applies # "yes"
<1>1. \A j \in 1..((Len(r) + 1) - 1) : r[j].applies # "yes"
  BY Zenon DEF Results, RefusesWith, Codes
<1> QED BY <1>1 DEF RefusesWith

(* What the calls of the RID interfaces refuse. *)
LEMMA RidCalls ==
    ASSUME NEW call \in DOMAIN RidCodes, NEW e, NEW caller, NEW version
    PROVE  RefusesWith(RID1!Refusals(call, e, caller, version), RidCodes[call])
<1> USE DEF RID1!Refusals, RID1!If, RID1!Perhaps, RefusesWith, RidCodes, Codes
<1>1. CASE call = "delete"
  BY <1>1 DEF RID1!DeleteRefusals
<1>2. CASE call = "insertISA"
  BY <1>2 DEF RID1!InsertISARefusals
<1>3. CASE call = "updateISA"
  BY <1>3 DEF RID1!UpdateISARefusals
<1>4. CASE call = "createSubscription"
  BY <1>4 DEF RID1!CreateSubscriptionRefusals
<1>5. CASE call = "updateSubscription"
  BY <1>5 DEF RID1!UpdateSubscriptionRefusals
<1>6. CASE call = "get"
  BY <1>6
<1>7. CASE call = "search"
  BY <1>7
<1> QED BY <1>1, <1>2, <1>3, <1>4, <1>5, <1>6, <1>7, Zenon

(* What the calls of the SCD interface refuse. *)
LEMMA ScdCalls ==
    ASSUME NEW call \in DOMAIN ScdCodes, NEW e, NEW caller, NEW version
    PROVE  RefusesWith(SCD!Refusals(call, e, caller, version), ScdCodes[call])
<1> USE DEF SCD!Refusals, SCD!If, SCD!Perhaps, RefusesWith, ScdCodes, Codes
<1>1. CASE call = "putOIR"
  BY <1>1 DEF SCD!UpsertOIRRefusals
<1>2. CASE call = "deleteOIR"
  BY <1>2 DEF SCD!DeleteOIRRefusals
<1>3. CASE call = "putConstraint"
  BY <1>3 DEF SCD!PutConstraintRefusals
<1>4. CASE call = "deleteConstraint"
  BY <1>4 DEF SCD!DeleteConstraintRefusals
<1>5. CASE call = "putSubscription"
  BY <1>5 DEF SCD!PutSubscriptionRefusals
<1>6. CASE call = "deleteSubscription"
  BY <1>6 DEF SCD!DeleteSubscriptionRefusals
<1>7. CASE call = "setAvailability"
  BY <1>7 DEF SCD!SetUssAvailabilityRefusals
<1>8. CASE call = "report"
  BY <1>8 DEF SCD!ReportRefusals
<1>9. CASE call = "queryOIRs"
  BY <1>9 DEF SCD!ReadRefusals
<1>10. CASE call = "getOIR"
  BY <1>10 DEF SCD!ReadRefusals
<1>11. CASE call = "getConstraint"
  BY <1>11 DEF SCD!ReadRefusals
<1>12. CASE call = "getSubscription"
  BY <1>12 DEF SCD!ReadRefusals, SCD!GetSubscriptionRefusals
<1>13. CASE call = "getAvailability"
  BY <1>13 DEF SCD!ReadRefusals
<1>14. CASE call \in {"queryConstraints", "querySubscriptions"}
  BY <1>14 DEF SCD!ReadRefusals
<1> QED BY <1>1, <1>2, <1>3, <1>4, <1>5, <1>6, <1>7, <1>8, <1>9, <1>10, <1>11, <1>12, <1>13, <1>14, Zenon

(* What the calls of the auxiliary interface refuse. *)
LEMMA AuxCalls ==
    ASSUME NEW call \in DOMAIN AuxCodes
    PROVE  RefusesWith(AUX!Refusals(call), AuxCodes[call])
<1> USE DEF AUX!Refusals, AUX!Perhaps, RefusesWith, AuxCodes, Codes
<1>1. CASE call = "getPool"
  BY <1>1
<1>2. CASE call = "getCAs"
  BY <1>2
<1>3. CASE call \in {"none", "getInstances", "recordHeartbeat"}
  BY <1>3
<1> QED BY <1>1, <1>2, <1>3, Zenon

RidWrites == {"delete", "insertISA", "updateISA", "createSubscription", "updateSubscription"}

ScdWrites ==
    {"putOIR", "deleteOIR", "putConstraint", "deleteConstraint", "putSubscription", "deleteSubscription",
     "setAvailability"}

(* The calls of the RID interfaces that write. *)
LEMMA RidCallsFence ==
    ASSUME NEW call \in RidWrites, NEW e, NEW caller, NEW version
    PROVE  Fences(call, RID1!Refusals(call, e, caller, version), e, caller, version)
<1> USE DEF RID1!Refusals, RID1!If, RID1!Perhaps, RID1!Absent, Absent, Fences, Fenced
<1>1. CASE call = "delete"
  BY <1>1 DEF RID1!DeleteRefusals
<1>2. CASE call = "insertISA"
  BY <1>2 DEF RID1!InsertISARefusals
<1>3. CASE call = "updateISA"
  BY <1>3 DEF RID1!UpdateISARefusals
<1>4. CASE call = "createSubscription"
  BY <1>4 DEF RID1!CreateSubscriptionRefusals
<1>5. CASE call = "updateSubscription"
  BY <1>5 DEF RID1!UpdateSubscriptionRefusals
<1> QED BY <1>1, <1>2, <1>3, <1>4, <1>5, Zenon DEF RidWrites

(* The calls of the SCD interface that write. *)
LEMMA ScdCallsFence ==
    ASSUME NEW call \in ScdWrites, NEW e, NEW caller, NEW version
    PROVE  Fences(call, SCD!Refusals(call, e, caller, version), e, caller, version)
<1> USE DEF SCD!Refusals, SCD!If, SCD!Perhaps, SCD!Absent, Absent, Fences, Fenced
<1>1. CASE call = "putOIR"
  BY <1>1 DEF SCD!UpsertOIRRefusals
<1>2. CASE call = "deleteOIR"
  BY <1>2 DEF SCD!DeleteOIRRefusals
<1>3. CASE call = "putConstraint"
  BY <1>3 DEF SCD!PutConstraintRefusals
<1>4. CASE call = "deleteConstraint"
  BY <1>4 DEF SCD!DeleteConstraintRefusals
<1>5. CASE call = "putSubscription"
  BY <1>5 DEF SCD!PutSubscriptionRefusals
<1>6. CASE call = "deleteSubscription"
  BY <1>6 DEF SCD!DeleteSubscriptionRefusals
<1>7. CASE call = "setAvailability"
  BY <1>7 DEF SCD!SetUssAvailabilityRefusals
<1> QED BY <1>1, <1>2, <1>3, <1>4, <1>5, <1>6, <1>7, Zenon DEF ScdWrites

-----------------------------------------------------------------------------
(* The tables *)

(* An operation with its route and its handler written out. *)
Entry(kind, does, call, security, reads, answers, checks, errors, success, demands, version, after) ==
    [kind |-> kind, does |-> does, call |-> call, security |-> security,
     route |-> [reads |-> reads, answers |-> answers],
     handler |-> [checks  |-> checks,  errors  |-> errors,  success |-> success,
                  demands |-> demands, version |-> version, after   |-> after]]

(* What a handler finds wrong is answered with a 4xx of the route, ... *)
ChecksAnswered(checks, answers) ==
    /\ Len(checks) \in Nat /\ DOMAIN checks = 1..Len(checks)
    /\ \A i \in DOMAIN checks : checks[i][2] \in answers /\ checks[i][2] \in 400..499

(* ... and an error it tells apart with a status of the route. *)
ErrorsAnswered(errors, answers) ==
    \A code \in DOMAIN errors : errors[code] \in answers /\ errors[code] \in Nat \ {500}

(* A handler of a write reports no error as a success, and a failure of    *)
(* the store as nothing else.                                              *)
NoFalseSuccess(errors) ==
    /\ "Failed" \notin DOMAIN errors
    /\ \A code \in DOMAIN errors : code # "NoTable" => errors[code] \notin 200..299

RidKinds == {"isa", "ridSubscription"}

(* The call is one of the interface Refusals looks it up in, and the       *)
(* handler tells its errors apart.                                         *)
WellPlaced(op) ==
    LET known == DOMAIN op.handler.errors \cup {"NoIdentifier", "CheckViolated"}
        aux   == op.kind = "heartbeat" \/ op.call \in {"getPool", "getCAs", "none"}
    IN  \/ op.kind \in RidKinds /\ op.call \in DOMAIN RidCodes /\ RidCodes[op.call] \subseteq known
        \/ op.kind \notin RidKinds /\ aux /\ op.call \in DOMAIN AuxCodes /\ AuxCodes[op.call] \subseteq known
        \/ op.kind \notin RidKinds /\ ~aux /\ op.call \in DOMAIN ScdCodes /\ ScdCodes[op.call] \subseteq known

(* What the proofs use of an operation. *)
Sound(op) ==
    /\ op.does \in {"put", "delete", "record", "read", "local"}
    /\ op.handler.version \in {"none", "optional", "required"}
    /\ op.handler.success \in op.route.answers \cap {200, 201}
    /\ op.handler.after \subseteq {"ok", "NotReadBack"}
    /\ op.security = Open \/ {401, 403} \subseteq op.route.answers
    /\ op.handler.demands = {{}} \/ \E i \in DOMAIN op.handler.checks : op.handler.checks[i][1] = "demands"
    /\ ChecksAnswered(op.handler.checks, op.route.answers)
    /\ ErrorsAnswered(op.handler.errors, op.route.answers)
    /\ WellPlaced(op)
    /\ op.does = "record" => op.kind = "heartbeat"
    /\ op.does \in {"put", "delete"} =>
         /\ op.call \in (IF op.kind \in RidKinds THEN RidWrites ELSE ScdWrites)
         /\ op.call \in {"insertISA", "createSubscription"} => op.handler.version = "none"
         /\ op.call = "setAvailability" => op.kind = "availability"
         /\ op.handler.after = {"ok"}
         /\ NoFalseSuccess(op.handler.errors)

(* The operations of the RID interface of F3411-19. *)
LEMMA RidV1Sound == \A n \in DOMAIN RID1!Operations : Sound(RID1!Operations[n])
<1> USE DEF Entry, RID1!Operation, RID1!Route, RID1!Handler, RID1!HandlerOf, RID1!Presenting
<1>1. ASSUME NEW op, op = RID1!Operations["v1_searchISAs"] PROVE Sound(op)
  <2> DEFINE A == {200, 400, 401, 403, 413, 500}
  <2> DEFINE c == <<<<"area", 400>>, <<"areaSize", 413>>, <<"covering", 400>>, <<"times", 400>>>>
  <2> DEFINE e == [BadRequest |-> 400]
  <2>1. op = RID1!Operation("isa", "read", "search", RID1!Security.searchISAs,
                        RID1!SearchIdentificationServiceAreas, RID1!SearchIdentificationServiceAreasHandler)
    BY <1>1, Zenon DEF RID1!Operations
  <2>2. op = Entry("isa", "read", "search", RID1!Security.searchISAs, {"query"}, A,
                   c, e, 200, {{}}, "none", {"ok"})
    BY <2>1, Zenon DEF RID1!SearchIdentificationServiceAreas, RID1!SearchIdentificationServiceAreasHandler
  <2>3. /\ ChecksAnswered(c, A) /\ ErrorsAnswered(e, A) /\ {200, 401, 403} \subseteq A
        /\ "search" \in DOMAIN RidCodes /\ RidCodes["search"] \subseteq DOMAIN e \cup {"NoIdentifier", "CheckViolated"}
    BY DEF ChecksAnswered, ErrorsAnswered, RidCodes
  <2> HIDE DEF A, c, e
  <2> QED BY <2>2, <2>3 DEF Sound, WellPlaced, RidKinds, RidWrites, ScdWrites
<1>2. ASSUME NEW op, op = RID1!Operations["v1_getISA"] PROVE Sound(op)
  <2> DEFINE A == {200, 400, 401, 403, 404, 500}
  <2> DEFINE c == <<<<"id", 400>>>>
  <2> DEFINE e == [NotFound |-> 404]
  <2>1. op = RID1!Operation("isa", "read", "get", RID1!Security.getISA,
                        RID1!GetIdentificationServiceArea, RID1!GetIdentificationServiceAreaHandler)
    BY <1>2, Zenon DEF RID1!Operations
  <2>2. op = Entry("isa", "read", "get", RID1!Security.getISA, {"path"}, A,
                   c, e, 200, {{}}, "none", {"ok"})
    BY <2>1, Zenon DEF RID1!GetIdentificationServiceArea, RID1!GetIdentificationServiceAreaHandler
  <2>3. /\ ChecksAnswered(c, A) /\ ErrorsAnswered(e, A) /\ {200, 401, 403} \subseteq A
        /\ "get" \in DOMAIN RidCodes /\ RidCodes["get"] \subseteq DOMAIN e \cup {"NoIdentifier", "CheckViolated"}
    BY DEF ChecksAnswered, ErrorsAnswered, RidCodes
  <2> HIDE DEF A, c, e
  <2> QED BY <2>2, <2>3 DEF Sound, WellPlaced, RidKinds, RidWrites, ScdWrites
<1>3. ASSUME NEW op, op = RID1!Operations["v1_createISA"] PROVE Sound(op)
  <2> DEFINE A == {200, 400, 401, 403, 409, 413, 500}
  <2> DEFINE c == <<<<"client", 403>>, <<"body", 400>>, <<"url", 400>>, <<"vertices", 400>>, <<"extents", 400>>,
                    <<"id", 400>>, <<"payload", 400>>>>
  <2> DEFINE e == [AlreadyExists |-> 409, BadRequest |-> 400]
  <2>1. op = RID1!Operation("isa", "put", "insertISA", RID1!Security.writeISA,
                        RID1!CreateIdentificationServiceArea, RID1!CreateIdentificationServiceAreaHandler)
    BY <1>3, Zenon DEF RID1!Operations
  <2>2. op = Entry("isa", "put", "insertISA", RID1!Security.writeISA, {"path", "body"}, A,
                   c, e, 200, {{}}, "none", {"ok"})
    BY <2>1, Zenon DEF RID1!CreateIdentificationServiceArea, RID1!CreateIdentificationServiceAreaHandler
  <2>3. /\ ChecksAnswered(c, A) /\ ErrorsAnswered(e, A) /\ NoFalseSuccess(e) /\ {200, 401, 403} \subseteq A
        /\ "insertISA" \in DOMAIN RidCodes /\ RidCodes["insertISA"] \subseteq DOMAIN e \cup {"NoIdentifier", "CheckViolated"}
    BY DEF ChecksAnswered, ErrorsAnswered, NoFalseSuccess, RidCodes
  <2> HIDE DEF A, c, e
  <2> QED BY <2>2, <2>3 DEF Sound, WellPlaced, RidKinds, RidWrites, ScdWrites
<1>4. ASSUME NEW op, op = RID1!Operations["v1_updateISA"] PROVE Sound(op)
  <2> DEFINE A == {200, 400, 401, 403, 409, 413, 500}
  <2> DEFINE c == <<<<"version", 400>>, <<"client", 403>>, <<"body", 400>>, <<"url", 400>>, <<"vertices", 400>>,
                    <<"extents", 400>>, <<"id", 400>>, <<"payload", 400>>>>
  <2> DEFINE e == [PermissionDenied |-> 403, VersionMismatch |-> 409, BadRequest |-> 400, NotFound |-> 400]
  <2>1. op = RID1!Operation("isa", "put", "updateISA", RID1!Security.writeISA,
                        RID1!UpdateIdentificationServiceArea, RID1!UpdateIdentificationServiceAreaHandler)
    BY <1>4, Zenon DEF RID1!Operations
  <2>2. op = Entry("isa", "put", "updateISA", RID1!Security.writeISA, {"path", "body"}, A,
                   c, e, 200, {{}}, "required", {"ok"})
    BY <2>1 DEF RID1!UpdateIdentificationServiceArea, RID1!UpdateIdentificationServiceAreaHandler
  <2>3. /\ ChecksAnswered(c, A) /\ ErrorsAnswered(e, A) /\ NoFalseSuccess(e) /\ {200, 401, 403} \subseteq A
        /\ "updateISA" \in DOMAIN RidCodes /\ RidCodes["updateISA"] \subseteq DOMAIN e \cup {"NoIdentifier", "CheckViolated"}
    BY DEF ChecksAnswered, ErrorsAnswered, NoFalseSuccess, RidCodes
  <2> HIDE DEF A, c, e
  <2> QED BY <2>2, <2>3 DEF Sound, WellPlaced, RidKinds, RidWrites, ScdWrites
<1>5. ASSUME NEW op, op = RID1!Operations["v1_deleteISA"] PROVE Sound(op)
  <2> DEFINE A == {200, 400, 401, 403, 404, 409, 500}
  <2> DEFINE c == <<<<"client", 403>>, <<"version", 400>>, <<"id", 400>>>>
  <2> DEFINE e == [PermissionDenied |-> 403, VersionMismatch |-> 409, NotFound |-> 404]
  <2>1. op = RID1!Operation("isa", "delete", "delete", RID1!Security.writeISA,
                        RID1!DeleteIdentificationServiceArea, RID1!DeleteIdentificationServiceAreaHandler)
    BY <1>5, Zenon DEF RID1!Operations
  <2>2. op = Entry("isa", "delete", "delete", RID1!Security.writeISA, {"path"}, A,
                   c, e, 200, {{}}, "required", {"ok"})
    BY <2>1, Zenon DEF RID1!DeleteIdentificationServiceArea, RID1!DeleteIdentificationServiceAreaHandler
  <2>3. /\ ChecksAnswered(c, A) /\ ErrorsAnswered(e, A) /\ NoFalseSuccess(e) /\ {200, 401, 403} \subseteq A
        /\ "delete" \in DOMAIN RidCodes /\ RidCodes["delete"] \subseteq DOMAIN e \cup {"NoIdentifier", "CheckViolated"}
    BY DEF ChecksAnswered, ErrorsAnswered, NoFalseSuccess, RidCodes
  <2> HIDE DEF A, c, e
  <2> QED BY <2>2, <2>3 DEF Sound, WellPlaced, RidKinds, RidWrites, ScdWrites
<1>6. ASSUME NEW op, op = RID1!Operations["v1_searchSubs"] PROVE Sound(op)
  <2> DEFINE A == {200, 400, 401, 403, 413, 500}
  <2> DEFINE c == <<<<"client", 403>>, <<"area", 400>>, <<"areaSize", 413>>, <<"covering", 400>>>>
  <2> DEFINE e == [BadRequest |-> 400]
  <2>1. op = RID1!Operation("ridSubscription", "read", "search", RID1!Security.searchSubs,
                        RID1!SearchSubscriptions, RID1!SearchSubscriptionsHandler)
    BY <1>6, Zenon DEF RID1!Operations
  <2>2. op = Entry("ridSubscription", "read", "search", RID1!Security.searchSubs, {"query"}, A,
                   c, e, 200, {{}}, "none", {"ok"})
    BY <2>1, Zenon DEF RID1!SearchSubscriptions, RID1!SearchSubscriptionsHandler
  <2>3. /\ ChecksAnswered(c, A) /\ ErrorsAnswered(e, A) /\ {200, 401, 403} \subseteq A
        /\ "search" \in DOMAIN RidCodes /\ RidCodes["search"] \subseteq DOMAIN e \cup {"NoIdentifier", "CheckViolated"}
    BY DEF ChecksAnswered, ErrorsAnswered, RidCodes
  <2> HIDE DEF A, c, e
  <2> QED BY <2>2, <2>3 DEF Sound, WellPlaced, RidKinds, RidWrites, ScdWrites
<1>7. ASSUME NEW op, op = RID1!Operations["v1_getSub"] PROVE Sound(op)
  <2> DEFINE A == {200, 400, 401, 403, 404, 500}
  <2> DEFINE c == <<<<"id", 400>>>>
  <2> DEFINE e == [NotFound |-> 404]
  <2>1. op = RID1!Operation("ridSubscription", "read", "get", RID1!Security.getSub,
                        RID1!GetSubscription, RID1!GetSubscriptionHandler)
    BY <1>7, Zenon DEF RID1!Operations
  <2>2. op = Entry("ridSubscription", "read", "get", RID1!Security.getSub, {"path"}, A,
                   c, e, 200, {{}}, "none", {"ok"})
    BY <2>1, Zenon DEF RID1!GetSubscription, RID1!GetSubscriptionHandler
  <2>3. /\ ChecksAnswered(c, A) /\ ErrorsAnswered(e, A) /\ {200, 401, 403} \subseteq A
        /\ "get" \in DOMAIN RidCodes /\ RidCodes["get"] \subseteq DOMAIN e \cup {"NoIdentifier", "CheckViolated"}
    BY DEF ChecksAnswered, ErrorsAnswered, RidCodes
  <2> HIDE DEF A, c, e
  <2> QED BY <2>2, <2>3 DEF Sound, WellPlaced, RidKinds, RidWrites, ScdWrites
<1>8. ASSUME NEW op, op = RID1!Operations["v1_createSub"] PROVE Sound(op)
  <2> DEFINE A == {200, 400, 401, 403, 409, 429, 500}
  <2> DEFINE c == <<<<"client", 403>>, <<"body", 400>>, <<"callbacks", 400>>, <<"vertices", 400>>,
                    <<"extents", 400>>, <<"id", 400>>, <<"payload", 400>>>>
  <2> DEFINE e == [AlreadyExists |-> 409, BadRequest |-> 400, Exhausted |-> 429]
  <2>1. op = RID1!Operation("ridSubscription", "put", "createSubscription", RID1!Security.writeSub,
                        RID1!CreateSubscription, RID1!CreateSubscriptionHandler)
    BY <1>8, Zenon DEF RID1!Operations
  <2>2. op = Entry("ridSubscription", "put", "createSubscription", RID1!Security.writeSub, {"path", "body"}, A,
                   c, e, 200, {{}}, "none", {"ok"})
    BY <2>1, Zenon DEF RID1!CreateSubscription, RID1!CreateSubscriptionHandler
  <2>3. /\ ChecksAnswered(c, A) /\ ErrorsAnswered(e, A) /\ NoFalseSuccess(e) /\ {200, 401, 403} \subseteq A
        /\ "createSubscription" \in DOMAIN RidCodes /\ RidCodes["createSubscription"] \subseteq DOMAIN e \cup {"NoIdentifier", "CheckViolated"}
    BY DEF ChecksAnswered, ErrorsAnswered, NoFalseSuccess, RidCodes
  <2> HIDE DEF A, c, e
  <2> QED BY <2>2, <2>3 DEF Sound, WellPlaced, RidKinds, RidWrites, ScdWrites
<1>9. ASSUME NEW op, op = RID1!Operations["v1_updateSub"] PROVE Sound(op)
  <2> DEFINE A == {200, 400, 401, 403, 409, 429, 500}
  <2> DEFINE c == <<<<"version", 400>>, <<"id", 400>>, <<"client", 403>>, <<"body", 400>>, <<"callbacks", 400>>,
                    <<"vertices", 400>>, <<"extents", 400>>, <<"payload", 400>>>>
  <2> DEFINE e == [PermissionDenied |-> 403, VersionMismatch |-> 409, BadRequest |-> 400, NotFound |-> 400,
                   Exhausted |-> 429]
  <2>1. op = RID1!Operation("ridSubscription", "put", "updateSubscription", RID1!Security.writeSub,
                        RID1!UpdateSubscription, RID1!UpdateSubscriptionHandler)
    BY <1>9, Zenon DEF RID1!Operations
  <2>2. op = Entry("ridSubscription", "put", "updateSubscription", RID1!Security.writeSub, {"path", "body"}, A,
                   c, e, 200, {{}}, "required", {"ok"})
    BY <2>1 DEF RID1!UpdateSubscription, RID1!UpdateSubscriptionHandler
  <2>3. /\ ChecksAnswered(c, A) /\ ErrorsAnswered(e, A) /\ NoFalseSuccess(e) /\ {200, 401, 403} \subseteq A
        /\ "updateSubscription" \in DOMAIN RidCodes /\ RidCodes["updateSubscription"] \subseteq DOMAIN e \cup {"NoIdentifier", "CheckViolated"}
    BY DEF ChecksAnswered, ErrorsAnswered, NoFalseSuccess, RidCodes
  <2> HIDE DEF A, c, e
  <2> QED BY <2>2, <2>3 DEF Sound, WellPlaced, RidKinds, RidWrites, ScdWrites
<1>10. ASSUME NEW op, op = RID1!Operations["v1_deleteSub"] PROVE Sound(op)
  <2> DEFINE A == {200, 400, 401, 403, 404, 409, 500}
  <2> DEFINE c == <<<<"client", 403>>, <<"id", 400>>, <<"version", 400>>>>
  <2> DEFINE e == [PermissionDenied |-> 403, VersionMismatch |-> 409, NotFound |-> 404, BadRequest |-> 400]
  <2>1. op = RID1!Operation("ridSubscription", "delete", "delete", RID1!Security.writeSub,
                        RID1!DeleteSubscription, RID1!DeleteSubscriptionHandler)
    BY <1>10, Zenon DEF RID1!Operations
  <2>2. op = Entry("ridSubscription", "delete", "delete", RID1!Security.writeSub, {"path"}, A,
                   c, e, 200, {{}}, "required", {"ok"})
    BY <2>1, Zenon DEF RID1!DeleteSubscription, RID1!DeleteSubscriptionHandler
  <2>3. /\ ChecksAnswered(c, A) /\ ErrorsAnswered(e, A) /\ NoFalseSuccess(e) /\ {200, 401, 403} \subseteq A
        /\ "delete" \in DOMAIN RidCodes /\ RidCodes["delete"] \subseteq DOMAIN e \cup {"NoIdentifier", "CheckViolated"}
    BY DEF ChecksAnswered, ErrorsAnswered, NoFalseSuccess, RidCodes
  <2> HIDE DEF A, c, e
  <2> QED BY <2>2, <2>3 DEF Sound, WellPlaced, RidKinds, RidWrites, ScdWrites
<1>11. DOMAIN RID1!Operations = {"v1_searchISAs", "v1_getISA", "v1_createISA", "v1_updateISA", "v1_deleteISA",
                                 "v1_searchSubs", "v1_getSub", "v1_createSub", "v1_updateSub", "v1_deleteSub"}
  BY Zenon DEF RID1!Operations
<1> QED BY <1>1, <1>2, <1>3, <1>4, <1>5, <1>6, <1>7, <1>8, <1>9, <1>10, <1>11, Zenon

(* The operations of the RID interface of F3411-22a. *)
LEMMA RidV2Sound == \A n \in DOMAIN RID2!Operations : Sound(RID2!Operations[n])
<1> USE DEF Entry, RID2!Operation, RID2!Route, RID2!Handler, RID2!HandlerOf, RID2!Presenting
<1>1. ASSUME NEW op, op = RID2!Operations["v2_searchISAs"] PROVE Sound(op)
  <2> DEFINE A == {200, 400, 401, 403, 413, 500}
  <2> DEFINE c == <<<<"area", 400>>, <<"areaSize", 413>>, <<"covering", 400>>, <<"times", 400>>>>
  <2> DEFINE e == [BadRequest |-> 400]
  <2>1. op = RID2!Operation("isa", "read", "search", RID2!Security.searchISAs,
                        RID2!SearchIdentificationServiceAreas, RID2!SearchIdentificationServiceAreasHandler)
    BY <1>1, Zenon DEF RID2!Operations
  <2>2. op = Entry("isa", "read", "search", RID2!Security.searchISAs, {"query"}, A,
                   c, e, 200, {{}}, "none", {"ok"})
    BY <2>1, Zenon DEF RID2!SearchIdentificationServiceAreas, RID2!SearchIdentificationServiceAreasHandler
  <2>3. /\ ChecksAnswered(c, A) /\ ErrorsAnswered(e, A) /\ {200, 401, 403} \subseteq A
        /\ "search" \in DOMAIN RidCodes /\ RidCodes["search"] \subseteq DOMAIN e \cup {"NoIdentifier", "CheckViolated"}
    BY DEF ChecksAnswered, ErrorsAnswered, RidCodes
  <2> HIDE DEF A, c, e
  <2> QED BY <2>2, <2>3 DEF Sound, WellPlaced, RidKinds, RidWrites, ScdWrites
<1>2. ASSUME NEW op, op = RID2!Operations["v2_getISA"] PROVE Sound(op)
  <2> DEFINE A == {200, 400, 401, 403, 404, 500}
  <2> DEFINE c == <<<<"id", 400>>>>
  <2> DEFINE e == [NotFound |-> 404]
  <2>1. op = RID2!Operation("isa", "read", "get", RID2!Security.getISA,
                        RID2!GetIdentificationServiceArea, RID2!GetIdentificationServiceAreaHandler)
    BY <1>2, Zenon DEF RID2!Operations
  <2>2. op = Entry("isa", "read", "get", RID2!Security.getISA, {"path"}, A,
                   c, e, 200, {{}}, "none", {"ok"})
    BY <2>1, Zenon DEF RID2!GetIdentificationServiceArea, RID2!GetIdentificationServiceAreaHandler
  <2>3. /\ ChecksAnswered(c, A) /\ ErrorsAnswered(e, A) /\ {200, 401, 403} \subseteq A
        /\ "get" \in DOMAIN RidCodes /\ RidCodes["get"] \subseteq DOMAIN e \cup {"NoIdentifier", "CheckViolated"}
    BY DEF ChecksAnswered, ErrorsAnswered, RidCodes
  <2> HIDE DEF A, c, e
  <2> QED BY <2>2, <2>3 DEF Sound, WellPlaced, RidKinds, RidWrites, ScdWrites
<1>3. ASSUME NEW op, op = RID2!Operations["v2_createISA"] PROVE Sound(op)
  <2> DEFINE A == {200, 400, 401, 403, 409, 413, 500}
  <2> DEFINE c == <<<<"client", 403>>, <<"body", 400>>, <<"url", 400>>, <<"extents", 400>>, <<"id", 400>>,
                    <<"payload", 400>>>>
  <2> DEFINE e == [AlreadyExists |-> 409, BadRequest |-> 400]
  <2>1. op = RID2!Operation("isa", "put", "insertISA", RID2!Security.writeISA,
                        RID2!CreateIdentificationServiceArea, RID2!CreateIdentificationServiceAreaHandler)
    BY <1>3, Zenon DEF RID2!Operations
  <2>2. op = Entry("isa", "put", "insertISA", RID2!Security.writeISA, {"path", "body"}, A,
                   c, e, 200, {{}}, "none", {"ok"})
    BY <2>1, Zenon DEF RID2!CreateIdentificationServiceArea, RID2!CreateIdentificationServiceAreaHandler
  <2>3. /\ ChecksAnswered(c, A) /\ ErrorsAnswered(e, A) /\ NoFalseSuccess(e) /\ {200, 401, 403} \subseteq A
        /\ "insertISA" \in DOMAIN RidCodes /\ RidCodes["insertISA"] \subseteq DOMAIN e \cup {"NoIdentifier", "CheckViolated"}
    BY DEF ChecksAnswered, ErrorsAnswered, NoFalseSuccess, RidCodes
  <2> HIDE DEF A, c, e
  <2> QED BY <2>2, <2>3 DEF Sound, WellPlaced, RidKinds, RidWrites, ScdWrites
<1>4. ASSUME NEW op, op = RID2!Operations["v2_updateISA"] PROVE Sound(op)
  <2> DEFINE A == {200, 400, 401, 403, 409, 413, 500}
  <2> DEFINE c == <<<<"version", 400>>, <<"client", 403>>, <<"body", 400>>, <<"url", 400>>, <<"extents", 400>>,
                    <<"id", 400>>, <<"payload", 400>>>>
  <2> DEFINE e == [PermissionDenied |-> 403, VersionMismatch |-> 409, BadRequest |-> 400, NotFound |-> 400]
  <2>1. op = RID2!Operation("isa", "put", "updateISA", RID2!Security.writeISA,
                        RID2!UpdateIdentificationServiceArea, RID2!UpdateIdentificationServiceAreaHandler)
    BY <1>4, Zenon DEF RID2!Operations
  <2>2. op = Entry("isa", "put", "updateISA", RID2!Security.writeISA, {"path", "body"}, A,
                   c, e, 200, {{}}, "required", {"ok"})
    BY <2>1 DEF RID2!UpdateIdentificationServiceArea, RID2!UpdateIdentificationServiceAreaHandler
  <2>3. /\ ChecksAnswered(c, A) /\ ErrorsAnswered(e, A) /\ NoFalseSuccess(e) /\ {200, 401, 403} \subseteq A
        /\ "updateISA" \in DOMAIN RidCodes /\ RidCodes["updateISA"] \subseteq DOMAIN e \cup {"NoIdentifier", "CheckViolated"}
    BY DEF ChecksAnswered, ErrorsAnswered, NoFalseSuccess, RidCodes
  <2> HIDE DEF A, c, e
  <2> QED BY <2>2, <2>3 DEF Sound, WellPlaced, RidKinds, RidWrites, ScdWrites
<1>5. ASSUME NEW op, op = RID2!Operations["v2_deleteISA"] PROVE Sound(op)
  <2> DEFINE A == {200, 400, 401, 403, 404, 409, 500}
  <2> DEFINE c == <<<<"client", 403>>, <<"version", 400>>, <<"id", 400>>>>
  <2> DEFINE e == [PermissionDenied |-> 403, VersionMismatch |-> 409, NotFound |-> 404]
  <2>1. op = RID2!Operation("isa", "delete", "delete", RID2!Security.writeISA,
                        RID2!DeleteIdentificationServiceArea, RID2!DeleteIdentificationServiceAreaHandler)
    BY <1>5, Zenon DEF RID2!Operations
  <2>2. op = Entry("isa", "delete", "delete", RID2!Security.writeISA, {"path"}, A,
                   c, e, 200, {{}}, "required", {"ok"})
    BY <2>1, Zenon DEF RID2!DeleteIdentificationServiceArea, RID2!DeleteIdentificationServiceAreaHandler
  <2>3. /\ ChecksAnswered(c, A) /\ ErrorsAnswered(e, A) /\ NoFalseSuccess(e) /\ {200, 401, 403} \subseteq A
        /\ "delete" \in DOMAIN RidCodes /\ RidCodes["delete"] \subseteq DOMAIN e \cup {"NoIdentifier", "CheckViolated"}
    BY DEF ChecksAnswered, ErrorsAnswered, NoFalseSuccess, RidCodes
  <2> HIDE DEF A, c, e
  <2> QED BY <2>2, <2>3 DEF Sound, WellPlaced, RidKinds, RidWrites, ScdWrites
<1>6. ASSUME NEW op, op = RID2!Operations["v2_searchSubs"] PROVE Sound(op)
  <2> DEFINE A == {200, 400, 401, 403, 413, 500}
  <2> DEFINE c == <<<<"client", 403>>, <<"area", 400>>, <<"areaSize", 413>>, <<"covering", 400>>>>
  <2> DEFINE e == [BadRequest |-> 400]
  <2>1. op = RID2!Operation("ridSubscription", "read", "search", RID2!Security.searchSubs,
                        RID2!SearchSubscriptions, RID2!SearchSubscriptionsHandler)
    BY <1>6, Zenon DEF RID2!Operations
  <2>2. op = Entry("ridSubscription", "read", "search", RID2!Security.searchSubs, {"query"}, A,
                   c, e, 200, {{}}, "none", {"ok"})
    BY <2>1, Zenon DEF RID2!SearchSubscriptions, RID2!SearchSubscriptionsHandler
  <2>3. /\ ChecksAnswered(c, A) /\ ErrorsAnswered(e, A) /\ {200, 401, 403} \subseteq A
        /\ "search" \in DOMAIN RidCodes /\ RidCodes["search"] \subseteq DOMAIN e \cup {"NoIdentifier", "CheckViolated"}
    BY DEF ChecksAnswered, ErrorsAnswered, RidCodes
  <2> HIDE DEF A, c, e
  <2> QED BY <2>2, <2>3 DEF Sound, WellPlaced, RidKinds, RidWrites, ScdWrites
<1>7. ASSUME NEW op, op = RID2!Operations["v2_getSub"] PROVE Sound(op)
  <2> DEFINE A == {200, 400, 401, 403, 404, 500}
  <2> DEFINE c == <<<<"id", 400>>>>
  <2> DEFINE e == [NotFound |-> 404]
  <2>1. op = RID2!Operation("ridSubscription", "read", "get", RID2!Security.getSub,
                        RID2!GetSubscription, RID2!GetSubscriptionHandler)
    BY <1>7, Zenon DEF RID2!Operations
  <2>2. op = Entry("ridSubscription", "read", "get", RID2!Security.getSub, {"path"}, A,
                   c, e, 200, {{}}, "none", {"ok"})
    BY <2>1, Zenon DEF RID2!GetSubscription, RID2!GetSubscriptionHandler
  <2>3. /\ ChecksAnswered(c, A) /\ ErrorsAnswered(e, A) /\ {200, 401, 403} \subseteq A
        /\ "get" \in DOMAIN RidCodes /\ RidCodes["get"] \subseteq DOMAIN e \cup {"NoIdentifier", "CheckViolated"}
    BY DEF ChecksAnswered, ErrorsAnswered, RidCodes
  <2> HIDE DEF A, c, e
  <2> QED BY <2>2, <2>3 DEF Sound, WellPlaced, RidKinds, RidWrites, ScdWrites
<1>8. ASSUME NEW op, op = RID2!Operations["v2_createSub"] PROVE Sound(op)
  <2> DEFINE A == {200, 400, 401, 403, 409, 429, 500}
  <2> DEFINE c == <<<<"client", 403>>, <<"body", 400>>, <<"url", 400>>, <<"extents", 400>>, <<"id", 400>>,
                    <<"payload", 400>>>>
  <2> DEFINE e == [AlreadyExists |-> 409, BadRequest |-> 400, Exhausted |-> 429]
  <2>1. op = RID2!Operation("ridSubscription", "put", "createSubscription", RID2!Security.writeSub,
                        RID2!CreateSubscription, RID2!CreateSubscriptionHandler)
    BY <1>8, Zenon DEF RID2!Operations
  <2>2. op = Entry("ridSubscription", "put", "createSubscription", RID2!Security.writeSub, {"path", "body"}, A,
                   c, e, 200, {{}}, "none", {"ok"})
    BY <2>1, Zenon DEF RID2!CreateSubscription, RID2!CreateSubscriptionHandler
  <2>3. /\ ChecksAnswered(c, A) /\ ErrorsAnswered(e, A) /\ NoFalseSuccess(e) /\ {200, 401, 403} \subseteq A
        /\ "createSubscription" \in DOMAIN RidCodes /\ RidCodes["createSubscription"] \subseteq DOMAIN e \cup {"NoIdentifier", "CheckViolated"}
    BY DEF ChecksAnswered, ErrorsAnswered, NoFalseSuccess, RidCodes
  <2> HIDE DEF A, c, e
  <2> QED BY <2>2, <2>3 DEF Sound, WellPlaced, RidKinds, RidWrites, ScdWrites
<1>9. ASSUME NEW op, op = RID2!Operations["v2_updateSub"] PROVE Sound(op)
  <2> DEFINE A == {200, 400, 401, 403, 409, 429, 500}
  <2> DEFINE c == <<<<"version", 400>>, <<"id", 400>>, <<"client", 403>>, <<"body", 400>>, <<"url", 400>>,
                    <<"extents", 400>>, <<"payload", 400>>>>
  <2> DEFINE e == [PermissionDenied |-> 403, VersionMismatch |-> 409, BadRequest |-> 400, NotFound |-> 400,
                   Exhausted |-> 429]
  <2>1. op = RID2!Operation("ridSubscription", "put", "updateSubscription", RID2!Security.writeSub,
                        RID2!UpdateSubscription, RID2!UpdateSubscriptionHandler)
    BY <1>9, Zenon DEF RID2!Operations
  <2>2. op = Entry("ridSubscription", "put", "updateSubscription", RID2!Security.writeSub, {"path", "body"}, A,
                   c, e, 200, {{}}, "required", {"ok"})
    BY <2>1 DEF RID2!UpdateSubscription, RID2!UpdateSubscriptionHandler
  <2>3. /\ ChecksAnswered(c, A) /\ ErrorsAnswered(e, A) /\ NoFalseSuccess(e) /\ {200, 401, 403} \subseteq A
        /\ "updateSubscription" \in DOMAIN RidCodes /\ RidCodes["updateSubscription"] \subseteq DOMAIN e \cup {"NoIdentifier", "CheckViolated"}
    BY DEF ChecksAnswered, ErrorsAnswered, NoFalseSuccess, RidCodes
  <2> HIDE DEF A, c, e
  <2> QED BY <2>2, <2>3 DEF Sound, WellPlaced, RidKinds, RidWrites, ScdWrites
<1>10. ASSUME NEW op, op = RID2!Operations["v2_deleteSub"] PROVE Sound(op)
  <2> DEFINE A == {200, 400, 401, 403, 404, 409, 500}
  <2> DEFINE c == <<<<"client", 403>>, <<"id", 400>>, <<"version", 400>>>>
  <2> DEFINE e == [PermissionDenied |-> 403, VersionMismatch |-> 409, NotFound |-> 404, BadRequest |-> 400]
  <2>1. op = RID2!Operation("ridSubscription", "delete", "delete", RID2!Security.writeSub,
                        RID2!DeleteSubscription, RID2!DeleteSubscriptionHandler)
    BY <1>10, Zenon DEF RID2!Operations
  <2>2. op = Entry("ridSubscription", "delete", "delete", RID2!Security.writeSub, {"path"}, A,
                   c, e, 200, {{}}, "required", {"ok"})
    BY <2>1, Zenon DEF RID2!DeleteSubscription, RID2!DeleteSubscriptionHandler
  <2>3. /\ ChecksAnswered(c, A) /\ ErrorsAnswered(e, A) /\ NoFalseSuccess(e) /\ {200, 401, 403} \subseteq A
        /\ "delete" \in DOMAIN RidCodes /\ RidCodes["delete"] \subseteq DOMAIN e \cup {"NoIdentifier", "CheckViolated"}
    BY DEF ChecksAnswered, ErrorsAnswered, NoFalseSuccess, RidCodes
  <2> HIDE DEF A, c, e
  <2> QED BY <2>2, <2>3 DEF Sound, WellPlaced, RidKinds, RidWrites, ScdWrites
<1>11. DOMAIN RID2!Operations = {"v2_searchISAs", "v2_getISA", "v2_createISA", "v2_updateISA", "v2_deleteISA",
                                 "v2_searchSubs", "v2_getSub", "v2_createSub", "v2_updateSub", "v2_deleteSub"}
  BY Zenon DEF RID2!Operations
<1> QED BY <1>1, <1>2, <1>3, <1>4, <1>5, <1>6, <1>7, <1>8, <1>9, <1>10, <1>11, Zenon

(* The operations of the SCD interface. *)
LEMMA ScdSound == \A n \in DOMAIN SCD!Operations : Sound(SCD!Operations[n])
<1> USE DEF Entry, SCD!Operation, SCD!Route, SCD!Handler, SCD!HandlerOf, SCD!Demanding, SCD!Presenting
<1>1. ASSUME NEW op, op = SCD!Operations["queryOIRs"] PROVE Sound(op)
  <2> DEFINE A == {200, 400, 401, 403, 413, 429, 500}
  <2> DEFINE c == <<<<"body", 400>>, <<"areaOfInterest", 400>>, <<"geometry", 400>>, <<"client", 403>>>>
  <2> DEFINE e == [BadRequest |-> 400]
  <2>1. op = SCD!Operation("oir", "read", "queryOIRs", SCD!Security.oirRead,
                        SCD!QueryOperationalIntentReferences, SCD!QueryOperationalIntentReferencesHandler)
    BY <1>1, Zenon DEF SCD!Operations
  <2>2. op = Entry("oir", "read", "queryOIRs", SCD!Security.oirRead, {"body"}, A,
                   c, e, 200, {{}}, "none", {"ok"})
    BY <2>1, Zenon DEF SCD!QueryOperationalIntentReferences, SCD!QueryOperationalIntentReferencesHandler
  <2>3. /\ ChecksAnswered(c, A) /\ ErrorsAnswered(e, A) /\ {200, 401, 403} \subseteq A
        /\ "queryOIRs" \in DOMAIN ScdCodes /\ ScdCodes["queryOIRs"] \subseteq DOMAIN e \cup {"NoIdentifier", "CheckViolated"}
    BY DEF ChecksAnswered, ErrorsAnswered, ScdCodes
  <2> HIDE DEF A, c, e
  <2> QED BY <2>2, <2>3 DEF Sound, WellPlaced, RidKinds, RidWrites, ScdWrites
<1>2. ASSUME NEW op, op = SCD!Operations["getOIR"] PROVE Sound(op)
  <2> DEFINE A == {200, 400, 401, 403, 404, 429, 500}
  <2> DEFINE c == <<<<"id", 400>>, <<"client", 403>>>>
  <2> DEFINE e == [NotFound |-> 404]
  <2>1. op = SCD!Operation("oir", "read", "getOIR", SCD!Security.oirRead,
                        SCD!GetOperationalIntentReference, SCD!GetOperationalIntentReferenceHandler)
    BY <1>2, Zenon DEF SCD!Operations
  <2>2. op = Entry("oir", "read", "getOIR", SCD!Security.oirRead, {"path"}, A,
                   c, e, 200, {{}}, "none", {"ok"})
    BY <2>1, Zenon DEF SCD!GetOperationalIntentReference, SCD!GetOperationalIntentReferenceHandler
  <2>3. /\ ChecksAnswered(c, A) /\ ErrorsAnswered(e, A) /\ {200, 401, 403} \subseteq A
        /\ "getOIR" \in DOMAIN ScdCodes /\ ScdCodes["getOIR"] \subseteq DOMAIN e \cup {"NoIdentifier", "CheckViolated"}
    BY DEF ChecksAnswered, ErrorsAnswered, ScdCodes
  <2> HIDE DEF A, c, e
  <2> QED BY <2>2, <2>3 DEF Sound, WellPlaced, RidKinds, RidWrites, ScdWrites
<1>3. ASSUME NEW op, op = SCD!Operations["createOIR"] PROVE Sound(op)
  <2> DEFINE A == {201, 400, 401, 403, 409, 412, 413, 429, 500}
  <2> DEFINE c == <<<<"body", 400>>, <<"payload", 400>>, <<"demands", 403>>>>
  <2> DEFINE e == [PermissionDenied |-> 403, BadRequest |-> 400, NotFound |-> 400, VersionMismatch |-> 409,
                   PreconditionFailed |-> 412, Conflict |-> 409]
  <2>1. op = SCD!Operation("oir", "put", "putOIR", SCD!Security.oirWrite,
                        SCD!CreateOperationalIntentReference, SCD!CreateOperationalIntentReferenceHandler)
    BY <1>3, Zenon DEF SCD!Operations
  <2>2. op = Entry("oir", "put", "putOIR", SCD!Security.oirWrite, {"path", "body"}, A,
                   c, e, 201, {{}, {SCD!CMSA}}, "none", {"ok"})
    BY <2>1 DEF SCD!CreateOperationalIntentReference, SCD!CreateOperationalIntentReferenceHandler, SCD!UpsertHandler
  <2>3. /\ ChecksAnswered(c, A) /\ ErrorsAnswered(e, A) /\ NoFalseSuccess(e) /\ {201, 401, 403} \subseteq A
        /\ "putOIR" \in DOMAIN ScdCodes /\ ScdCodes["putOIR"] \subseteq DOMAIN e \cup {"NoIdentifier", "CheckViolated"}
        /\ 3 \in DOMAIN c /\ c[3][1] = "demands"
    BY DEF ChecksAnswered, ErrorsAnswered, NoFalseSuccess, ScdCodes
  <2> HIDE DEF A, c, e
  <2> QED BY <2>2, <2>3 DEF Sound, WellPlaced, RidKinds, RidWrites, ScdWrites
<1>4. ASSUME NEW op, op = SCD!Operations["updateOIR"] PROVE Sound(op)
  <2> DEFINE A == {200, 400, 401, 403, 409, 412, 413, 429, 500}
  <2> DEFINE c == <<<<"body", 400>>, <<"payload", 400>>, <<"demands", 403>>>>
  <2> DEFINE e == [PermissionDenied |-> 403, BadRequest |-> 400, NotFound |-> 400, VersionMismatch |-> 409,
                   PreconditionFailed |-> 412, Conflict |-> 409]
  <2>1. op = SCD!Operation("oir", "put", "putOIR", SCD!Security.oirWrite,
                        SCD!UpdateOperationalIntentReference, SCD!UpdateOperationalIntentReferenceHandler)
    BY <1>4, Zenon DEF SCD!Operations
  <2>2. op = Entry("oir", "put", "putOIR", SCD!Security.oirWrite, {"path", "body"}, A,
                   c, e, 200, {{}, {SCD!CMSA}}, "optional", {"ok"})
    BY <2>1 DEF SCD!UpdateOperationalIntentReference, SCD!UpdateOperationalIntentReferenceHandler, SCD!UpsertHandler
  <2>3. /\ ChecksAnswered(c, A) /\ ErrorsAnswered(e, A) /\ NoFalseSuccess(e) /\ {200, 401, 403} \subseteq A
        /\ "putOIR" \in DOMAIN ScdCodes /\ ScdCodes["putOIR"] \subseteq DOMAIN e \cup {"NoIdentifier", "CheckViolated"}
        /\ 3 \in DOMAIN c /\ c[3][1] = "demands"
    BY DEF ChecksAnswered, ErrorsAnswered, NoFalseSuccess, ScdCodes
  <2> HIDE DEF A, c, e
  <2> QED BY <2>2, <2>3 DEF Sound, WellPlaced, RidKinds, RidWrites, ScdWrites
<1>5. ASSUME NEW op, op = SCD!Operations["deleteOIR"] PROVE Sound(op)
  <2> DEFINE A == {200, 400, 401, 403, 404, 409, 412, 429, 500}
  <2> DEFINE c == <<<<"id", 400>>, <<"client", 403>>, <<"ovn", 400>>>>
  <2> DEFINE e == [PermissionDenied |-> 403, NotFound |-> 404, VersionMismatch |-> 409, PreconditionFailed |-> 412]
  <2>1. op = SCD!Operation("oir", "delete", "deleteOIR", SCD!Security.oirDelete,
                        SCD!DeleteOperationalIntentReference, SCD!DeleteOperationalIntentReferenceHandler)
    BY <1>5, Zenon DEF SCD!Operations
  <2>2. op = Entry("oir", "delete", "deleteOIR", SCD!Security.oirDelete, {"path"}, A,
                   c, e, 200, {{}}, "required", {"ok"})
    BY <2>1 DEF SCD!DeleteOperationalIntentReference, SCD!DeleteOperationalIntentReferenceHandler
  <2>3. /\ ChecksAnswered(c, A) /\ ErrorsAnswered(e, A) /\ NoFalseSuccess(e) /\ {200, 401, 403} \subseteq A
        /\ "deleteOIR" \in DOMAIN ScdCodes /\ ScdCodes["deleteOIR"] \subseteq DOMAIN e \cup {"NoIdentifier", "CheckViolated"}
    BY DEF ChecksAnswered, ErrorsAnswered, NoFalseSuccess, ScdCodes
  <2> HIDE DEF A, c, e
  <2> QED BY <2>2, <2>3 DEF Sound, WellPlaced, RidKinds, RidWrites, ScdWrites
<1>6. ASSUME NEW op, op = SCD!Operations["queryConstraints"] PROVE Sound(op)
  <2> DEFINE A == {200, 400, 401, 403, 413, 429, 500}
  <2> DEFINE c == <<<<"body", 400>>, <<"areaOfInterest", 400>>, <<"geometry", 400>>>>
  <2> DEFINE e == [none \in {} |-> 500]
  <2>1. op = SCD!Operation("constraint", "read", "queryConstraints", SCD!Security.constraintRead,
                        SCD!QueryConstraintReferences, SCD!QueryConstraintReferencesHandler)
    BY <1>6, Zenon DEF SCD!Operations
  <2>2. op = Entry("constraint", "read", "queryConstraints", SCD!Security.constraintRead, {"body"}, A,
                   c, e, 200, {{}}, "none", {"ok"})
    BY <2>1, Zenon DEF SCD!QueryConstraintReferences, SCD!NoErrors, SCD!QueryConstraintReferencesHandler
  <2>3. /\ ChecksAnswered(c, A) /\ ErrorsAnswered(e, A) /\ {200, 401, 403} \subseteq A
        /\ "queryConstraints" \in DOMAIN ScdCodes /\ ScdCodes["queryConstraints"] \subseteq DOMAIN e \cup {"NoIdentifier", "CheckViolated"}
    BY DEF ChecksAnswered, ErrorsAnswered, ScdCodes
  <2> HIDE DEF A, c, e
  <2> QED BY <2>2, <2>3 DEF Sound, WellPlaced, RidKinds, RidWrites, ScdWrites
<1>7. ASSUME NEW op, op = SCD!Operations["getConstraint"] PROVE Sound(op)
  <2> DEFINE A == {200, 400, 401, 403, 404, 429, 500}
  <2> DEFINE c == <<<<"id", 400>>, <<"client", 403>>>>
  <2> DEFINE e == [NotFound |-> 404]
  <2>1. op = SCD!Operation("constraint", "read", "getConstraint", SCD!Security.constraintRead,
                        SCD!GetConstraintReference, SCD!GetConstraintReferenceHandler)
    BY <1>7, Zenon DEF SCD!Operations
  <2>2. op = Entry("constraint", "read", "getConstraint", SCD!Security.constraintRead, {"path"}, A,
                   c, e, 200, {{}}, "none", {"ok"})
    BY <2>1, Zenon DEF SCD!GetConstraintReference, SCD!GetConstraintReferenceHandler
  <2>3. /\ ChecksAnswered(c, A) /\ ErrorsAnswered(e, A) /\ {200, 401, 403} \subseteq A
        /\ "getConstraint" \in DOMAIN ScdCodes /\ ScdCodes["getConstraint"] \subseteq DOMAIN e \cup {"NoIdentifier", "CheckViolated"}
    BY DEF ChecksAnswered, ErrorsAnswered, ScdCodes
  <2> HIDE DEF A, c, e
  <2> QED BY <2>2, <2>3 DEF Sound, WellPlaced, RidKinds, RidWrites, ScdWrites
<1>8. ASSUME NEW op, op = SCD!Operations["createConstraint"] PROVE Sound(op)
  <2> DEFINE A == {201, 400, 401, 403, 409, 413, 429, 500}
  <2> DEFINE c == <<<<"body", 400>>, <<"client", 403>>, <<"payload", 400>>>>
  <2> DEFINE e == [PermissionDenied |-> 403, VersionMismatch |-> 409, BadRequest |-> 400]
  <2>1. op = SCD!Operation("constraint", "put", "putConstraint", SCD!Security.constraintWrite,
                        SCD!CreateConstraintReference, SCD!CreateConstraintReferenceHandler)
    BY <1>8, Zenon DEF SCD!Operations
  <2>2. op = Entry("constraint", "put", "putConstraint", SCD!Security.constraintWrite, {"path", "body"}, A,
                   c, e, 201, {{}}, "none", {"ok"})
    BY <2>1, Zenon DEF SCD!CreateConstraintReference, SCD!CreateConstraintReferenceHandler
  <2>3. /\ ChecksAnswered(c, A) /\ ErrorsAnswered(e, A) /\ NoFalseSuccess(e) /\ {201, 401, 403} \subseteq A
        /\ "putConstraint" \in DOMAIN ScdCodes /\ ScdCodes["putConstraint"] \subseteq DOMAIN e \cup {"NoIdentifier", "CheckViolated"}
    BY DEF ChecksAnswered, ErrorsAnswered, NoFalseSuccess, ScdCodes
  <2> HIDE DEF A, c, e
  <2> QED BY <2>2, <2>3 DEF Sound, WellPlaced, RidKinds, RidWrites, ScdWrites
<1>9. ASSUME NEW op, op = SCD!Operations["updateConstraint"] PROVE Sound(op)
  <2> DEFINE A == {200, 400, 401, 403, 409, 413, 429, 500}
  <2> DEFINE c == <<<<"body", 400>>, <<"client", 403>>, <<"payload", 400>>>>
  <2> DEFINE e == [PermissionDenied |-> 403, VersionMismatch |-> 409, BadRequest |-> 400]
  <2>1. op = SCD!Operation("constraint", "put", "putConstraint", SCD!Security.constraintWrite,
                        SCD!UpdateConstraintReference, SCD!UpdateConstraintReferenceHandler)
    BY <1>9, Zenon DEF SCD!Operations
  <2>2. op = Entry("constraint", "put", "putConstraint", SCD!Security.constraintWrite, {"path", "body"}, A,
                   c, e, 200, {{}}, "optional", {"ok"})
    BY <2>1 DEF SCD!UpdateConstraintReference, SCD!UpdateConstraintReferenceHandler
  <2>3. /\ ChecksAnswered(c, A) /\ ErrorsAnswered(e, A) /\ NoFalseSuccess(e) /\ {200, 401, 403} \subseteq A
        /\ "putConstraint" \in DOMAIN ScdCodes /\ ScdCodes["putConstraint"] \subseteq DOMAIN e \cup {"NoIdentifier", "CheckViolated"}
    BY DEF ChecksAnswered, ErrorsAnswered, NoFalseSuccess, ScdCodes
  <2> HIDE DEF A, c, e
  <2> QED BY <2>2, <2>3 DEF Sound, WellPlaced, RidKinds, RidWrites, ScdWrites
<1>10. ASSUME NEW op, op = SCD!Operations["deleteConstraint"] PROVE Sound(op)
  <2> DEFINE A == {200, 400, 401, 403, 404, 409, 429, 500}
  <2> DEFINE c == <<<<"id", 400>>, <<"client", 403>>, <<"ovn", 400>>>>
  <2> DEFINE e == [PermissionDenied |-> 403, BadRequest |-> 400, NotFound |-> 404, VersionMismatch |-> 409]
  <2>1. op = SCD!Operation("constraint", "delete", "deleteConstraint", SCD!Security.constraintWrite,
                        SCD!DeleteConstraintReference, SCD!DeleteConstraintReferenceHandler)
    BY <1>10, Zenon DEF SCD!Operations
  <2>2. op = Entry("constraint", "delete", "deleteConstraint", SCD!Security.constraintWrite, {"path"}, A,
                   c, e, 200, {{}}, "required", {"ok"})
    BY <2>1 DEF SCD!DeleteConstraintReference, SCD!DeleteConstraintReferenceHandler
  <2>3. /\ ChecksAnswered(c, A) /\ ErrorsAnswered(e, A) /\ NoFalseSuccess(e) /\ {200, 401, 403} \subseteq A
        /\ "deleteConstraint" \in DOMAIN ScdCodes /\ ScdCodes["deleteConstraint"] \subseteq DOMAIN e \cup {"NoIdentifier", "CheckViolated"}
    BY DEF ChecksAnswered, ErrorsAnswered, NoFalseSuccess, ScdCodes
  <2> HIDE DEF A, c, e
  <2> QED BY <2>2, <2>3 DEF Sound, WellPlaced, RidKinds, RidWrites, ScdWrites
<1>11. ASSUME NEW op, op = SCD!Operations["querySubscriptions"] PROVE Sound(op)
  <2> DEFINE A == {200, 400, 401, 403, 413, 429, 500}
  <2> DEFINE c == <<<<"body", 400>>, <<"areaOfInterest", 400>>, <<"geometry", 400>>, <<"client", 403>>>>
  <2> DEFINE e == [BadRequest |-> 400, PermissionDenied |-> 403, AreaTooLarge |-> 413]
  <2>1. op = SCD!Operation("scdSubscription", "read", "querySubscriptions", SCD!Security.subscription,
                        SCD!QuerySubscriptions, SCD!QuerySubscriptionsHandler)
    BY <1>11, Zenon DEF SCD!Operations
  <2>2. op = Entry("scdSubscription", "read", "querySubscriptions", SCD!Security.subscription, {"body"}, A,
                   c, e, 200, {{}}, "none", {"ok"})
    BY <2>1, Zenon DEF SCD!QuerySubscriptions, SCD!QuerySubscriptionsHandler
  <2>3. /\ ChecksAnswered(c, A) /\ ErrorsAnswered(e, A) /\ {200, 401, 403} \subseteq A
        /\ "querySubscriptions" \in DOMAIN ScdCodes /\ ScdCodes["querySubscriptions"] \subseteq DOMAIN e \cup {"NoIdentifier", "CheckViolated"}
    BY DEF ChecksAnswered, ErrorsAnswered, ScdCodes
  <2> HIDE DEF A, c, e
  <2> QED BY <2>2, <2>3 DEF Sound, WellPlaced, RidKinds, RidWrites, ScdWrites
<1>12. ASSUME NEW op, op = SCD!Operations["getSubscription"] PROVE Sound(op)
  <2> DEFINE A == {200, 400, 401, 403, 404, 429, 500}
  <2> DEFINE c == <<<<"id", 400>>, <<"client", 403>>>>
  <2> DEFINE e == [PermissionDenied |-> 403, BadRequest |-> 400, NotFound |-> 404]
  <2>1. op = SCD!Operation("scdSubscription", "read", "getSubscription", SCD!Security.subscription,
                        SCD!GetSubscription, SCD!GetSubscriptionHandler)
    BY <1>12, Zenon DEF SCD!Operations
  <2>2. op = Entry("scdSubscription", "read", "getSubscription", SCD!Security.subscription, {"path"}, A,
                   c, e, 200, {{}}, "none", {"ok"})
    BY <2>1, Zenon DEF SCD!GetSubscription, SCD!GetSubscriptionHandler
  <2>3. /\ ChecksAnswered(c, A) /\ ErrorsAnswered(e, A) /\ {200, 401, 403} \subseteq A
        /\ "getSubscription" \in DOMAIN ScdCodes /\ ScdCodes["getSubscription"] \subseteq DOMAIN e \cup {"NoIdentifier", "CheckViolated"}
    BY DEF ChecksAnswered, ErrorsAnswered, ScdCodes
  <2> HIDE DEF A, c, e
  <2> QED BY <2>2, <2>3 DEF Sound, WellPlaced, RidKinds, RidWrites, ScdWrites
<1>13. ASSUME NEW op, op = SCD!Operations["createSubscription"] PROVE Sound(op)
  <2> DEFINE A == {200, 400, 401, 403, 409, 429, 500}
  <2> DEFINE c == <<<<"body", 400>>, <<"client", 403>>, <<"demands", 403>>, <<"payload", 400>>>>
  <2> DEFINE e == [PermissionDenied |-> 403, AlreadyExists |-> 409, BadRequest |-> 400, NotFound |-> 400,
                   VersionMismatch |-> 409]
  <2>1. op = SCD!Operation("scdSubscription", "put", "putSubscription", SCD!Security.subscription,
                        SCD!CreateSubscription, SCD!CreateSubscriptionHandler)
    BY <1>13, Zenon DEF SCD!Operations
  <2>2. op = Entry("scdSubscription", "put", "putSubscription", SCD!Security.subscription, {"path", "body"}, A,
                   c, e, 200, SCD!ValidateRequestedSubscriptionScopes, "none", {"ok"})
    BY <2>1 DEF SCD!CreateSubscription, SCD!CreateSubscriptionHandler
  <2>3. /\ ChecksAnswered(c, A) /\ ErrorsAnswered(e, A) /\ NoFalseSuccess(e) /\ {200, 401, 403} \subseteq A
        /\ "putSubscription" \in DOMAIN ScdCodes /\ ScdCodes["putSubscription"] \subseteq DOMAIN e \cup {"NoIdentifier", "CheckViolated"}
        /\ 3 \in DOMAIN c /\ c[3][1] = "demands"
    BY DEF ChecksAnswered, ErrorsAnswered, NoFalseSuccess, ScdCodes
  <2> HIDE DEF A, c, e
  <2> QED BY <2>2, <2>3 DEF Sound, WellPlaced, RidKinds, RidWrites, ScdWrites
<1>14. ASSUME NEW op, op = SCD!Operations["updateSubscription"] PROVE Sound(op)
  <2> DEFINE A == {200, 400, 401, 403, 409, 429, 500}
  <2> DEFINE c == <<<<"body", 400>>, <<"client", 403>>, <<"demands", 403>>, <<"payload", 400>>>>
  <2> DEFINE e == [PermissionDenied |-> 403, AlreadyExists |-> 409, BadRequest |-> 400, NotFound |-> 400,
                   VersionMismatch |-> 409]
  <2>1. op = SCD!Operation("scdSubscription", "put", "putSubscription", SCD!Security.subscription,
                        SCD!UpdateSubscription, SCD!UpdateSubscriptionHandler)
    BY <1>14, Zenon DEF SCD!Operations
  <2>2. op = Entry("scdSubscription", "put", "putSubscription", SCD!Security.subscription, {"path", "body"}, A,
                   c, e, 200, SCD!ValidateRequestedSubscriptionScopes, "optional", {"ok"})
    BY <2>1 DEF SCD!UpdateSubscription, SCD!UpdateSubscriptionHandler
  <2>3. /\ ChecksAnswered(c, A) /\ ErrorsAnswered(e, A) /\ NoFalseSuccess(e) /\ {200, 401, 403} \subseteq A
        /\ "putSubscription" \in DOMAIN ScdCodes /\ ScdCodes["putSubscription"] \subseteq DOMAIN e \cup {"NoIdentifier", "CheckViolated"}
        /\ 3 \in DOMAIN c /\ c[3][1] = "demands"
    BY DEF ChecksAnswered, ErrorsAnswered, NoFalseSuccess, ScdCodes
  <2> HIDE DEF A, c, e
  <2> QED BY <2>2, <2>3 DEF Sound, WellPlaced, RidKinds, RidWrites, ScdWrites
<1>15. ASSUME NEW op, op = SCD!Operations["deleteSubscription"] PROVE Sound(op)
  <2> DEFINE A == {200, 400, 401, 403, 404, 409, 429, 500}
  <2> DEFINE c == <<<<"id", 400>>, <<"version", 400>>, <<"client", 403>>>>
  <2> DEFINE e == [PermissionDenied |-> 403, BadRequest |-> 400, NotFound |-> 404, VersionMismatch |-> 409]
  <2>1. op = SCD!Operation("scdSubscription", "delete", "deleteSubscription", SCD!Security.subscription,
                        SCD!DeleteSubscription, SCD!DeleteSubscriptionHandler)
    BY <1>15, Zenon DEF SCD!Operations
  <2>2. op = Entry("scdSubscription", "delete", "deleteSubscription", SCD!Security.subscription, {"path"}, A,
                   c, e, 200, {{}}, "required", {"ok"})
    BY <2>1 DEF SCD!DeleteSubscription, SCD!DeleteSubscriptionHandler
  <2>3. /\ ChecksAnswered(c, A) /\ ErrorsAnswered(e, A) /\ NoFalseSuccess(e) /\ {200, 401, 403} \subseteq A
        /\ "deleteSubscription" \in DOMAIN ScdCodes /\ ScdCodes["deleteSubscription"] \subseteq DOMAIN e \cup {"NoIdentifier", "CheckViolated"}
    BY DEF ChecksAnswered, ErrorsAnswered, NoFalseSuccess, ScdCodes
  <2> HIDE DEF A, c, e
  <2> QED BY <2>2, <2>3 DEF Sound, WellPlaced, RidKinds, RidWrites, ScdWrites
<1>16. ASSUME NEW op, op = SCD!Operations["makeDssReport"] PROVE Sound(op)
  <2> DEFINE A == {201, 400, 401, 403, 429, 500}
  <2> DEFINE c == <<<<"body", 400>>>>
  <2> DEFINE e == [BadRequest |-> 400, PermissionDenied |-> 403]
  <2>1. op = SCD!Operation("none", "local", "report", SCD!Security.report,
                        SCD!MakeDssReport, SCD!MakeDssReportHandler)
    BY <1>16, Zenon DEF SCD!Operations
  <2>2. op = Entry("none", "local", "report", SCD!Security.report, {"body"}, A,
                   c, e, 201, {{}}, "none", {"ok"})
    BY <2>1, Zenon DEF SCD!MakeDssReport, SCD!MakeDssReportHandler
  <2>3. /\ ChecksAnswered(c, A) /\ ErrorsAnswered(e, A) /\ {201, 401, 403} \subseteq A
        /\ "report" \in DOMAIN ScdCodes /\ ScdCodes["report"] \subseteq DOMAIN e \cup {"NoIdentifier", "CheckViolated"}
    BY DEF ChecksAnswered, ErrorsAnswered, ScdCodes
  <2> HIDE DEF A, c, e
  <2> QED BY <2>2, <2>3 DEF Sound, WellPlaced, RidKinds, RidWrites, ScdWrites
<1>17. ASSUME NEW op, op = SCD!Operations["getAvailability"] PROVE Sound(op)
  <2> DEFINE A == {200, 400, 401, 403, 429, 500}
  <2> DEFINE c == <<<<"id", 400>>>>
  <2> DEFINE e == [NoTable |-> 200]
  <2>1. op = SCD!Operation("availability", "read", "getAvailability", SCD!Security.availabilityRead,
                        SCD!GetUssAvailability, SCD!GetUssAvailabilityHandler)
    BY <1>17, Zenon DEF SCD!Operations
  <2>2. op = Entry("availability", "read", "getAvailability", SCD!Security.availabilityRead, {"path"}, A,
                   c, e, 200, {{}}, "none", {"ok"})
    BY <2>1, Zenon DEF SCD!GetUssAvailability, SCD!GetUssAvailabilityHandler
  <2>3. /\ ChecksAnswered(c, A) /\ ErrorsAnswered(e, A) /\ {200, 401, 403} \subseteq A
        /\ "getAvailability" \in DOMAIN ScdCodes /\ ScdCodes["getAvailability"] \subseteq DOMAIN e \cup {"NoIdentifier", "CheckViolated"}
    BY DEF ChecksAnswered, ErrorsAnswered, ScdCodes
  <2> HIDE DEF A, c, e
  <2> QED BY <2>2, <2>3 DEF Sound, WellPlaced, RidKinds, RidWrites, ScdWrites
<1>18. ASSUME NEW op, op = SCD!Operations["setAvailability"] PROVE Sound(op)
  <2> DEFINE A == {200, 400, 401, 403, 409, 429, 500}
  <2> DEFINE c == <<<<"id", 400>>, <<"body", 400>>, <<"payload", 400>>>>
  <2> DEFINE e == [NoTable |-> 200, AlreadyExists |-> 409, VersionMismatch |-> 409]
  <2>1. op = SCD!Operation("availability", "put", "setAvailability", SCD!Security.availabilityWrite,
                        SCD!SetUssAvailability, SCD!SetUssAvailabilityHandler)
    BY <1>18, Zenon DEF SCD!Operations
  <2>2. op = Entry("availability", "put", "setAvailability", SCD!Security.availabilityWrite, {"path", "body"}, A,
                   c, e, 200, {{}}, "optional", {"ok"})
    BY <2>1 DEF SCD!SetUssAvailability, SCD!SetUssAvailabilityHandler
  <2>3. /\ ChecksAnswered(c, A) /\ ErrorsAnswered(e, A) /\ NoFalseSuccess(e) /\ {200, 401, 403} \subseteq A
        /\ "setAvailability" \in DOMAIN ScdCodes /\ ScdCodes["setAvailability"] \subseteq DOMAIN e \cup {"NoIdentifier", "CheckViolated"}
    BY DEF ChecksAnswered, ErrorsAnswered, NoFalseSuccess, ScdCodes
  <2> HIDE DEF A, c, e
  <2> QED BY <2>2, <2>3 DEF Sound, WellPlaced, RidKinds, RidWrites, ScdWrites
<1>19. DOMAIN SCD!Operations = {"queryOIRs", "getOIR", "createOIR", "updateOIR", "deleteOIR", "queryConstraints",
                                "getConstraint", "createConstraint", "updateConstraint", "deleteConstraint",
                                "querySubscriptions", "getSubscription", "createSubscription", "updateSubscription",
                                "deleteSubscription", "makeDssReport", "getAvailability", "setAvailability"}
  BY Zenon DEF SCD!Operations
<1> QED BY <1>1, <1>2, <1>3, <1>4, <1>5, <1>6, <1>7, <1>8, <1>9, <1>10, <1>11, <1>12, <1>13, <1>14, <1>15, <1>16,
           <1>17, <1>18, <1>19

(* The operations of the auxiliary interface. *)
LEMMA AuxSound == \A n \in DOMAIN AUX!AuxOperations : Sound(AUX!AuxOperations[n])
<1> USE DEF Entry, AUX!Operation, AUX!Route, AUX!Handler, AUX!HandlerOf, AUX!FollowedBy
<1>1. ASSUME NEW op, op = AUX!AuxOperations["getVersion"] PROVE Sound(op)
  <2> DEFINE A == {200, 500}
  <2> DEFINE c == << >>
  <2> DEFINE e == [none \in {} |-> 500]
  <2>1. op = AUX!Operation("none", "local", "none", AUX!Open,
                        AUX!GetVersion, AUX!GetVersionHandler)
    BY <1>1, Zenon DEF AUX!AuxOperations
  <2>2. op = Entry("none", "local", "none", AUX!Open, {}, A,
                   c, e, 200, {{}}, "none", {"ok"})
    BY <2>1, Zenon DEF AUX!GetVersion, AUX!GetVersionHandler, AUX!NoErrors
  <2>3. /\ ChecksAnswered(c, A) /\ ErrorsAnswered(e, A) /\ {200} \subseteq A
        /\ "none" \in DOMAIN AuxCodes /\ AuxCodes["none"] \subseteq DOMAIN e \cup {"NoIdentifier", "CheckViolated"}
    BY DEF ChecksAnswered, ErrorsAnswered, AuxCodes
  <2> HIDE DEF A, c, e
  <2> QED BY <2>2, <2>3 DEF Sound, WellPlaced, RidKinds, RidWrites, ScdWrites, Open, AUX!Open
<1>2. ASSUME NEW op, op = AUX!AuxOperations["validateOauth"] PROVE Sound(op)
  <2> DEFINE A == {200, 401, 403, 500}
  <2> DEFINE c == <<<<"client", 403>>, <<"owner", 403>>>>
  <2> DEFINE e == [none \in {} |-> 500]
  <2>1. op = AUX!Operation("none", "local", "none", AUX!Security.validateOauth,
                        AUX!ValidateOauth, AUX!ValidateOauthHandler)
    BY <1>2, Zenon DEF AUX!AuxOperations
  <2>2. op = Entry("none", "local", "none", AUX!Security.validateOauth, {"query"}, A,
                   c, e, 200, {{}}, "none", {"ok"})
    BY <2>1, Zenon DEF AUX!ValidateOauth, AUX!NoErrors, AUX!ValidateOauthHandler
  <2>3. /\ ChecksAnswered(c, A) /\ ErrorsAnswered(e, A) /\ {200, 401, 403} \subseteq A
        /\ "none" \in DOMAIN AuxCodes /\ AuxCodes["none"] \subseteq DOMAIN e \cup {"NoIdentifier", "CheckViolated"}
    BY DEF ChecksAnswered, ErrorsAnswered, AuxCodes
  <2> HIDE DEF A, c, e
  <2> QED BY <2>2, <2>3 DEF Sound, WellPlaced, RidKinds, RidWrites, ScdWrites
<1>3. ASSUME NEW op, op = AUX!AuxOperations["getPool"] PROVE Sound(op)
  <2> DEFINE A == {200, 401, 403, 500, 501}
  <2> DEFINE c == << >>
  <2> DEFINE e == [NotImplemented |-> 501]
  <2>1. op = AUX!Operation("none", "read", "getPool", AUX!Security.pool,
                        AUX!GetPool, AUX!GetPoolHandler)
    BY <1>3, Zenon DEF AUX!AuxOperations
  <2>2. op = Entry("none", "read", "getPool", AUX!Security.pool, {}, A,
                   c, e, 200, {{}}, "none", {"ok"})
    BY <2>1, Zenon DEF AUX!GetPool, AUX!GetPoolHandler
  <2>3. /\ ChecksAnswered(c, A) /\ ErrorsAnswered(e, A) /\ {200, 401, 403} \subseteq A
        /\ "getPool" \in DOMAIN AuxCodes /\ AuxCodes["getPool"] \subseteq DOMAIN e \cup {"NoIdentifier", "CheckViolated"}
    BY DEF ChecksAnswered, ErrorsAnswered, AuxCodes
  <2> HIDE DEF A, c, e
  <2> QED BY <2>2, <2>3 DEF Sound, WellPlaced, RidKinds, RidWrites, ScdWrites
<1>4. ASSUME NEW op, op = AUX!AuxOperations["getInstances"] PROVE Sound(op)
  <2> DEFINE A == {200, 401, 403, 500, 501}
  <2> DEFINE c == << >>
  <2> DEFINE e == [NotImplemented |-> 501]
  <2>1. op = AUX!Operation("heartbeat", "read", "getInstances", AUX!Security.pool,
                        AUX!GetDSSInstances, AUX!GetDSSInstancesHandler)
    BY <1>4, Zenon DEF AUX!AuxOperations
  <2>2. op = Entry("heartbeat", "read", "getInstances", AUX!Security.pool, {}, A,
                   c, e, 200, {{}}, "none", {"ok"})
    BY <2>1, Zenon DEF AUX!GetDSSInstances, AUX!GetDSSInstancesHandler
  <2>3. /\ ChecksAnswered(c, A) /\ ErrorsAnswered(e, A) /\ {200, 401, 403} \subseteq A
        /\ "getInstances" \in DOMAIN AuxCodes /\ AuxCodes["getInstances"] \subseteq DOMAIN e \cup {"NoIdentifier", "CheckViolated"}
    BY DEF ChecksAnswered, ErrorsAnswered, AuxCodes
  <2> HIDE DEF A, c, e
  <2> QED BY <2>2, <2>3 DEF Sound, WellPlaced, RidKinds, RidWrites, ScdWrites
<1>5. ASSUME NEW op, op = AUX!AuxOperations["putHeartbeat"] PROVE Sound(op)
  <2> DEFINE A == {201, 400, 401, 403, 500, 501}
  <2> DEFINE c == <<<<"source", 400>>, <<"timestamp", 400>>, <<"nextHeartbeat", 400>>>>
  <2> DEFINE e == [Failed |-> 400]
  <2>1. op = AUX!Operation("heartbeat", "record", "recordHeartbeat", AUX!Security.heartbeat,
                        AUX!PutDSSInstancesHeartbeat, AUX!PutDSSInstancesHeartbeatHandler)
    BY <1>5, Zenon DEF AUX!AuxOperations
  <2>2. op = Entry("heartbeat", "record", "recordHeartbeat", AUX!Security.heartbeat, {"query"}, A,
                   c, e, 201, {{}}, "none", {"ok", "NotReadBack"})
    BY <2>1, Zenon DEF AUX!PutDSSInstancesHeartbeat, AUX!PutDSSInstancesHeartbeatHandler
  <2>3. /\ ChecksAnswered(c, A) /\ ErrorsAnswered(e, A) /\ {201, 401, 403} \subseteq A
        /\ "recordHeartbeat" \in DOMAIN AuxCodes /\ AuxCodes["recordHeartbeat"] \subseteq DOMAIN e \cup {"NoIdentifier", "CheckViolated"}
    BY DEF ChecksAnswered, ErrorsAnswered, AuxCodes
  <2> HIDE DEF A, c, e
  <2> QED BY <2>2, <2>3 DEF Sound, WellPlaced, RidKinds, RidWrites, ScdWrites
<1>6. ASSUME NEW op, op = AUX!AuxOperations["getAcceptedCAs"] PROVE Sound(op)
  <2> DEFINE A == {200, 500, 501}
  <2> DEFINE c == << >>
  <2> DEFINE e == [NoFile |-> 501]
  <2>1. op = AUX!Operation("none", "local", "getCAs", AUX!Open,
                        AUX!GetAcceptedCAs, AUX!GetAcceptedCAsHandler)
    BY <1>6, Zenon DEF AUX!AuxOperations
  <2>2. op = Entry("none", "local", "getCAs", AUX!Open, {}, A,
                   c, e, 200, {{}}, "none", {"ok"})
    BY <2>1, Zenon DEF AUX!GetAcceptedCAs, AUX!GetAcceptedCAsHandler
  <2>3. /\ ChecksAnswered(c, A) /\ ErrorsAnswered(e, A) /\ {200} \subseteq A
        /\ "getCAs" \in DOMAIN AuxCodes /\ AuxCodes["getCAs"] \subseteq DOMAIN e \cup {"NoIdentifier", "CheckViolated"}
    BY DEF ChecksAnswered, ErrorsAnswered, AuxCodes
  <2> HIDE DEF A, c, e
  <2> QED BY <2>2, <2>3 DEF Sound, WellPlaced, RidKinds, RidWrites, ScdWrites, Open, AUX!Open
<1>7. ASSUME NEW op, op = AUX!AuxOperations["getInstanceCAs"] PROVE Sound(op)
  <2> DEFINE A == {200, 500, 501}
  <2> DEFINE c == << >>
  <2> DEFINE e == [NoFile |-> 501]
  <2>1. op = AUX!Operation("none", "local", "getCAs", AUX!Open,
                        AUX!GetInstanceCAs, AUX!GetInstanceCAsHandler)
    BY <1>7, Zenon DEF AUX!AuxOperations
  <2>2. op = Entry("none", "local", "getCAs", AUX!Open, {}, A,
                   c, e, 200, {{}}, "none", {"ok"})
    BY <2>1, Zenon DEF AUX!GetInstanceCAs, AUX!GetInstanceCAsHandler
  <2>3. /\ ChecksAnswered(c, A) /\ ErrorsAnswered(e, A) /\ {200} \subseteq A
        /\ "getCAs" \in DOMAIN AuxCodes /\ AuxCodes["getCAs"] \subseteq DOMAIN e \cup {"NoIdentifier", "CheckViolated"}
    BY DEF ChecksAnswered, ErrorsAnswered, AuxCodes
  <2> HIDE DEF A, c, e
  <2> QED BY <2>2, <2>3 DEF Sound, WellPlaced, RidKinds, RidWrites, ScdWrites, Open, AUX!Open
<1>8. ASSUME NEW op, op = AUX!AuxOperations["getGlobalOptions"] PROVE Sound(op)
  <2> DEFINE A == {200, 401, 403, 500, 501}
  <2> DEFINE c == << >>
  <2> DEFINE e == [none \in {} |-> 500]
  <2>1. op = AUX!Operation("none", "local", "none", AUX!Security.pool,
                        AUX!GetGlobalOptions, AUX!GetGlobalOptionsHandler)
    BY <1>8, Zenon DEF AUX!AuxOperations
  <2>2. op = Entry("none", "local", "none", AUX!Security.pool, {}, A,
                   c, e, 200, {{}}, "none", {"ok"})
    BY <2>1, Zenon DEF AUX!GetGlobalOptions, AUX!GetGlobalOptionsHandler, AUX!NoErrors
  <2>3. /\ ChecksAnswered(c, A) /\ ErrorsAnswered(e, A) /\ {200, 401, 403} \subseteq A
        /\ "none" \in DOMAIN AuxCodes /\ AuxCodes["none"] \subseteq DOMAIN e \cup {"NoIdentifier", "CheckViolated"}
    BY DEF ChecksAnswered, ErrorsAnswered, AuxCodes
  <2> HIDE DEF A, c, e
  <2> QED BY <2>2, <2>3 DEF Sound, WellPlaced, RidKinds, RidWrites, ScdWrites
<1>9. DOMAIN AUX!AuxOperations = {"getVersion", "validateOauth", "getPool", "getInstances", "putHeartbeat",
                                  "getAcceptedCAs", "getInstanceCAs", "getGlobalOptions"}
  BY Zenon DEF AUX!AuxOperations
<1> QED BY <1>1, <1>2, <1>3, <1>4, <1>5, <1>6, <1>7, <1>8, <1>9, Zenon

(* The operation of the versioning interface. *)
LEMMA VersioningSound == \A n \in DOMAIN AUX!VersioningOperations : Sound(AUX!VersioningOperations[n])
<1> USE DEF Entry, AUX!Operation, AUX!Route, AUX!Handler, AUX!HandlerOf
<1>1. ASSUME NEW op, op = AUX!VersioningOperations["getSystemVersion"] PROVE Sound(op)
  <2> DEFINE A == {200, 401, 403, 404, 500}
  <2> DEFINE c == << >>
  <2> DEFINE e == [none \in {} |-> 500]
  <2>1. op = AUX!Operation("none", "local", "none", AUX!VersioningSecurity,
                        AUX!GetSystemVersion, AUX!GetSystemVersionHandler)
    BY <1>1, Zenon DEF AUX!VersioningOperations
  <2>2. op = Entry("none", "local", "none", AUX!VersioningSecurity, {"path"}, A,
                   c, e, 200, {{}}, "none", {"ok"})
    BY <2>1, Zenon DEF AUX!GetSystemVersion, AUX!GetSystemVersionHandler, AUX!NoErrors
  <2>3. /\ ChecksAnswered(c, A) /\ ErrorsAnswered(e, A) /\ {200, 401, 403} \subseteq A
        /\ "none" \in DOMAIN AuxCodes /\ AuxCodes["none"] \subseteq DOMAIN e \cup {"NoIdentifier", "CheckViolated"}
    BY DEF ChecksAnswered, ErrorsAnswered, AuxCodes
  <2> HIDE DEF A, c, e
  <2> QED BY <2>2, <2>3 DEF Sound, WellPlaced, RidKinds, RidWrites, ScdWrites
<1>2. DOMAIN AUX!VersioningOperations = {"getSystemVersion"}
  BY Zenon DEF AUX!VersioningOperations
<1> QED BY <1>1, <1>2, Zenon

(* The table of one router over another. *)
LEMMA OverSound ==
    ASSUME NEW f, NEW g, \A n \in DOMAIN f : Sound(f[n]), \A n \in DOMAIN g : Sound(g[n])
    PROVE  \A n \in DOMAIN Over(f, g) : Sound(Over(f, g)[n])
<1> TAKE n \in DOMAIN Over(f, g)
<1>1. n \in DOMAIN f \cup DOMAIN g /\ Over(f, g)[n] = IF n \in DOMAIN f THEN f[n] ELSE g[n]
  BY Zenon DEF Over
<1> QED BY <1>1, Zenon

(* Every operation of the service. *)
LEMMA OperationsSound == \A n \in DOMAIN Operations : Sound(Operations[n])
<1> DEFINE rid == Over(RID2!Operations, SCD!Operations)
<1> DEFINE both == Over(RID1!Operations, rid)
<1> DEFINE all == Over(AUX!VersioningOperations, both)
<1>1. \A n \in DOMAIN rid : Sound(rid[n])
  BY RidV2Sound, ScdSound, OverSound, Zenon
<1> HIDE DEF rid
<1>2. \A n \in DOMAIN both : Sound(both[n])
  BY <1>1, RidV1Sound, OverSound, Zenon
<1> HIDE DEF both
<1>3. \A n \in DOMAIN all : Sound(all[n])
  BY <1>2, VersioningSound, OverSound, Zenon
<1> HIDE DEF all
<1>4. \A n \in DOMAIN Over(AUX!AuxOperations, all) : Sound(Over(AUX!AuxOperations, all)[n])
  BY <1>3, AuxSound, OverSound, Zenon
<1>5. Operations = Over(AUX!AuxOperations, all)
  BY Zenon DEF Operations, all, both, rid
<1> QED BY <1>4, <1>5, Zenon

(* The results of a store call are codes its handler tells apart. *)
LEMMA CallResults ==
    ASSUME NEW n \in DOMAIN Operations, NEW e, NEW caller, NEW version
    PROVE  \A code \in Results(Refusals(n, e, caller, version)) :
             /\ code \in DOMAIN Operations[n].handler.errors \cup {"ok", "NoIdentifier", "CheckViolated"}
             /\ code \in Codes \ {"Failed", "NotReadBack"}
<1> DEFINE op == Operations[n]
<1> DEFINE r == Refusals(n, e, caller, version)
<1> DEFINE known == DOMAIN op.handler.errors \cup {"NoIdentifier", "CheckViolated"}
<1>1. WellPlaced(op)
  <2>1. Sound(op)
    BY OperationsSound, Zenon
  <2> HIDE DEF op
  <2> QED BY <2>1, Zenon DEF Sound
<1>2. ASSUME NEW codes, RefusesWith(r, codes), codes \subseteq known
      PROVE  \A code \in Results(r) : code \in known \cup {"ok"} /\ code \in Codes \ {"Failed", "NotReadBack"}
  <2> HIDE DEF r, known
  <2>1. Results(r) \subseteq codes \cup {"ok"}
    BY <1>2, ResultsWithin, Zenon
  <2>2. codes \subseteq Codes \ {"ok", "Failed", "NotReadBack"} /\ "ok" \in Codes \ {"Failed", "NotReadBack"}
    BY <1>2, Zenon DEF RefusesWith, Codes
  <2> QED BY <1>2, <2>1, <2>2, Zenon
<1>3. CASE op.kind \in RidKinds /\ op.call \in DOMAIN RidCodes /\ RidCodes[op.call] \subseteq known
  <2>1. op.call \notin {"getPool", "getCAs", "none"}
    BY <1>3, Zenon DEF RidCodes
  <2>2. r = RID1!Refusals(op.call, e, caller, version)
    BY <1>3, <2>1, Zenon DEF Refusals, RidKinds
  <2>3. RefusesWith(r, RidCodes[op.call])
    BY <1>3, <2>2, RidCalls, Zenon
  <2> QED BY <1>2, <1>3, <2>3, Zenon
<1>4. CASE /\ op.kind \notin RidKinds /\ (op.kind = "heartbeat" \/ op.call \in {"getPool", "getCAs", "none"})
           /\ op.call \in DOMAIN AuxCodes /\ AuxCodes[op.call] \subseteq known
  <2>1. r = AUX!Refusals(op.call)
    BY <1>4, Zenon DEF Refusals, RidKinds
  <2>2. RefusesWith(r, AuxCodes[op.call])
    BY <1>4, <2>1, AuxCalls, Zenon
  <2> QED BY <1>2, <1>4, <2>2, Zenon
<1>5. CASE /\ op.kind \notin RidKinds /\ ~(op.kind = "heartbeat" \/ op.call \in {"getPool", "getCAs", "none"})
           /\ op.call \in DOMAIN ScdCodes /\ ScdCodes[op.call] \subseteq known
  <2>1. r = SCD!Refusals(op.call, e, caller, version)
    BY <1>5, Zenon DEF Refusals, RidKinds
  <2>2. RefusesWith(r, ScdCodes[op.call])
    BY <1>5, <2>1, ScdCalls, Zenon
  <2> QED BY <1>2, <1>5, <2>2, Zenon
<1> QED BY <1>1, <1>3, <1>4, <1>5, Zenon DEF WellPlaced

(* A write that succeeds named the version it replaces and comes from the  *)
(* owner of what it replaces.                                              *)
LEMMA WritesAreFenced ==
    ASSUME NEW n \in DOMAIN Operations, NEW e, NEW caller, NEW version,
           Operations[n].does \in {"put", "delete"},
           Operations[n].handler.version = "none" => version = 0,
           "ok" \in Results(Refusals(n, e, caller, version))
    PROVE  /\ version = e.version
           /\ e # Absent /\ Operations[n].kind # "availability" => caller = e.owner
<1> DEFINE op == Operations[n]
<1> DEFINE r == Refusals(n, e, caller, version)
<1>1. /\ op.call \in (IF op.kind \in RidKinds THEN RidWrites ELSE ScdWrites)
      /\ op.call \in {"insertISA", "createSubscription"} => op.handler.version = "none"
      /\ op.call = "setAvailability" => op.kind = "availability"
      /\ op.does = "record" => op.kind = "heartbeat"
      /\ WellPlaced(op)
  <2>1. Sound(op) /\ op.does \in {"put", "delete"}
    BY OperationsSound, Zenon
  <2> HIDE DEF op
  <2> QED BY <2>1 DEF Sound
<1>2. ASSUME NEW codes, RefusesWith(r, codes), Fences(op.call, r, e, caller, version)
      PROVE  Fenced(op.call, e, caller, version)
  <2>1. \A i \in DOMAIN r : r[i].applies # "yes"
    BY <1>2, SuccessPasses, Zenon
  <2> HIDE DEF r
  <2> QED BY <1>2, <2>1, Zenon DEF Fences
<1>3. Fenced(op.call, e, caller, version)
  <2>1. CASE op.kind \in RidKinds
    <3>1. op.call \in RidWrites /\ op.call \in DOMAIN RidCodes /\ op.call \notin {"getPool", "getCAs", "none"}
      BY <1>1, <2>1, Zenon DEF RidWrites, RidCodes
    <3>2. r = RID1!Refusals(op.call, e, caller, version)
      BY <2>1, <3>1, Zenon DEF Refusals, RidKinds
    <3>3. RefusesWith(r, RidCodes[op.call]) /\ Fences(op.call, r, e, caller, version)
      BY <3>1, <3>2, RidCalls, RidCallsFence, Zenon
    <3> QED BY <1>2, <3>3, Zenon
  <2>2. CASE op.kind \notin RidKinds
    <3>1. op.call \in ScdWrites /\ op.call \in DOMAIN ScdCodes
      BY <1>1, <2>2, Zenon DEF ScdWrites, ScdCodes
    <3>2. op.kind # "heartbeat" /\ op.call \notin {"getPool", "getCAs", "none"}
      BY <1>1, <2>2, <3>1, Zenon DEF WellPlaced, ScdWrites, AuxCodes
    <3>3. r = SCD!Refusals(op.call, e, caller, version)
      BY <2>2, <3>2, Zenon DEF Refusals, RidKinds
    <3>4. RefusesWith(r, ScdCodes[op.call]) /\ Fences(op.call, r, e, caller, version)
      BY <3>1, <3>3, ScdCalls, ScdCallsFence, Zenon
    <3> QED BY <1>2, <3>4, Zenon
  <2> QED BY <2>1, <2>2, Zenon
<1> QED BY <1>1, <1>3, Zenon DEF Fenced

=============================================================================
