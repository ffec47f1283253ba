------------------------------- MODULE ScdApi -------------------------------
(***************************************************************************)
(* The SCD interface: the routes of pkg/api/scdv1, the handlers of pkg/scd *)
(* and the refusals of the operations of pkg/scd/operations.               *)
(***************************************************************************)
EXTENDS Api

SC   == "utm.strategic_coordination"
CMSA == "utm.conformance_monitoring_sa"
CM   == "utm.constraint_management"
CP   == "utm.constraint_processing"
AA   == "utm.availability_arbitration"

(* The authorization options of each group of operations. *)
Security ==
    [oirRead           |-> {{SC}, {CMSA}},
     oirWrite          |-> {{SC}, {SC, CP}, {CMSA}},
     oirDelete         |-> {{SC}, {CMSA}},
     constraintRead    |-> {{CM}, {CP}},
     constraintWrite   |-> {{CM}},
     subscription      |-> {{CP}, {SC}},
     report            |-> {{CM}, {CP}, {CMSA}, {AA}, {SC}},
     availabilityRead  |-> {{AA}, {SC}, {CMSA}},
     availabilityWrite |-> {{AA}}]

-----------------------------------------------------------------------------
(* Operational intent references *)

QueryOperationalIntentReferences == Route({"body"}, {200, 400, 401, 403, 413, 429, 500})
QueryOperationalIntentReferencesHandler ==
    Handler(<<<<"body", 400>>, <<"areaOfInterest", 400>>, <<"geometry", 400>>, <<"client", 403>>>>,
            [BadRequest |-> 400], 200)

GetOperationalIntentReference == Route({"path"}, {200, 400, 401, 403, 404, 429, 500})
GetOperationalIntentReferenceHandler ==
    Handler(<<<<"id", 400>>, <<"client", 403>>>>, [NotFound |-> 404], 200)

(* The part common to creation and update.  The payload needs the          *)
(* conformance monitoring scope when the state asked for is off-nominal;   *)
(* no scope is looked at for the subscription it asks for (Unchecked).     *)
UpsertHandler(success) ==
    Demanding(Handler(<<<<"body", 400>>, <<"payload", 400>>, <<"demands", 403>>>>,
                      [PermissionDenied   |-> 403,
                       BadRequest         |-> 400,
                       NotFound           |-> 400,
                       VersionMismatch    |-> 409,
                       PreconditionFailed |-> 412,
                       Conflict           |-> 409],
                      success),
              {{}, {CMSA}})

(* What a body may ask that the interface ties to a scope and the handler  *)
(* takes as it comes: notify_for_constraints of a new subscription ("The   *)
(* scope utm.constraint_processing is required to set this flag true").    *)
Unchecked(call) == IF call = "putOIR" THEN {CP} ELSE {}

CreateOperationalIntentReference == Route({"path", "body"}, {201, 400, 401, 403, 409, 412, 413, 429, 500})
CreateOperationalIntentReferenceHandler == UpsertHandler(201)

UpdateOperationalIntentReference == Route({"path", "body"}, {200, 400, 401, 403, 409, 412, 413, 429, 500})
UpdateOperationalIntentReferenceHandler == Presenting(UpsertHandler(200), "optional")

DeleteOperationalIntentReference == Route({"path"}, {200, 400, 401, 403, 404, 409, 412, 429, 500})
\* mutant: the handler has no case for a USS that is down
DeleteOIRHandlerWithoutPrecondition ==
    Presenting(Handler(<<<<"id", 400>>, <<"client", 403>>, <<"ovn", 400>>>>,
                       [PermissionDenied |-> 403, NotFound |-> 404, VersionMismatch |-> 409], 200),
               "required")

DeleteOperationalIntentReferenceHandler ==
    Presenting(Handler(<<<<"id", 400>>, <<"client", 403>>, <<"ovn", 400>>>>,
                       [PermissionDenied   |-> 403,
                        NotFound           |-> 404,
                        VersionMismatch    |-> 409,
                        PreconditionFailed |-> 412],
                       200),
               "required")

(* validateUpsertRequestAgainstPreviousOIR, then the USS's availability,   *)
(* the subscription and the key, and the store.                            *)
UpsertOIRRefusals(e, caller, version) ==
    << If(e # Absent /\ e.owner # caller,     "PermissionDenied"),
       If(e # Absent /\ e.version # version,  "VersionMismatch"),
       If(e = Absent /\ version # 0,          "NotFound"),
       Perhaps("PreconditionFailed"),
       Perhaps("BadRequest"),
       Perhaps("PermissionDenied"),
       Perhaps("Conflict"),
       Perhaps("CheckViolated") >>

DeleteOIRRefusals(e, caller, version) ==
    << If(e = Absent,            "NotFound"),
       If(e.owner # caller,      "PermissionDenied"),
       If(e.version # version,   "VersionMismatch"),
       Perhaps("PreconditionFailed") >>

-----------------------------------------------------------------------------
(* Constraint references *)

QueryConstraintReferences == Route({"body"}, {200, 400, 401, 403, 413, 429, 500})
QueryConstraintReferencesHandler ==
    Handler(<<<<"body", 400>>, <<"areaOfInterest", 400>>, <<"geometry", 400>>>>, NoErrors, 200)

GetConstraintReference == Route({"path"}, {200, 400, 401, 403, 404, 429, 500})
GetConstraintReferenceHandler ==
    Handler(<<<<"id", 400>>, <<"client", 403>>>>, [NotFound |-> 404], 200)

CreateConstraintReference == Route({"path", "body"}, {201, 400, 401, 403, 409, 413, 429, 500})
CreateConstraintReferenceHandler ==
    Handler(<<<<"body", 400>>, <<"client", 403>>, <<"payload", 400>>>>,
            [PermissionDenied |-> 403, VersionMismatch |-> 409, BadRequest |-> 400], 201)

UpdateConstraintReference == Route({"path", "body"}, {200, 400, 401, 403, 409, 413, 429, 500})
UpdateConstraintReferenceHandler ==
    Presenting(Handler(<<<<"body", 400>>, <<"client", 403>>, <<"payload", 400>>>>,
                       [PermissionDenied |-> 403, VersionMismatch |-> 409, BadRequest |-> 400], 200),
               "optional")

DeleteConstraintReference == Route({"path"}, {200, 400, 401, 403, 404, 409, 429, 500})
DeleteConstraintReferenceHandler ==
    Presenting(Handler(<<<<"id", 400>>, <<"client", 403>>, <<"ovn", 400>>>>,
                       [PermissionDenied |-> 403, BadRequest |-> 400, NotFound |-> 404, VersionMismatch |-> 409],
                       200),
               "required")

\* mutant: the OVN is not compared
PutConstraintOverAnyVersion(e, caller, version) ==
    << If(e = Absent /\ version # 0,      "VersionMismatch"),
       If(e # Absent /\ e.owner # caller, "PermissionDenied") >>

PutConstraintRefusals(e, caller, version) ==
    << If(e = Absent /\ version # 0,         "VersionMismatch"),
       If(e # Absent /\ e.owner # caller,    "PermissionDenied"),
       If(e # Absent /\ e.version # version, "VersionMismatch"),
       Perhaps("CheckViolated") >>

DeleteConstraintRefusals(e, caller, version) ==
    << If(e = Absent,            "NotFound"),
       If(e.owner # caller,      "PermissionDenied"),
       If(e.version # version,   "VersionMismatch") >>

-----------------------------------------------------------------------------
(* Subscriptions *)

QuerySubscriptions == Route({"body"}, {200, 400, 401, 403, 413, 429, 500})
QuerySubscriptionsHandler ==
    Handler(<<<<"body", 400>>, <<"areaOfInterest", 400>>, <<"geometry", 400>>, <<"client", 403>>>>,
            [BadRequest |-> 400, PermissionDenied |-> 403, AreaTooLarge |-> 413], 200)

GetSubscription == Route({"path"}, {200, 400, 401, 403, 404, 429, 500})
GetSubscriptionHandler ==
    Handler(<<<<"id", 400>>, <<"client", 403>>>>,
            [PermissionDenied |-> 403, BadRequest |-> 400, NotFound |-> 404], 200)

(* validateRequestedSubscriptionScopes: to be notified of operational      *)
(* intents takes one scope, of constraints another.                        *)
ValidateRequestedSubscriptionScopes == {{SC}, {CP}, {SC, CP}}

CreateSubscription == Route({"path", "body"}, {200, 400, 401, 403, 409, 429, 500})
\* mutant: the scopes for what is to be notified are not validated
CreateSubscriptionForAnyone ==
    Demanding(Handler(<<<<"body", 400>>, <<"client", 403>>, <<"payload", 400>>>>,
                      [PermissionDenied |-> 403, AlreadyExists |-> 409, BadRequest |-> 400,
                       NotFound |-> 400, VersionMismatch |-> 409],
                      200),
              ValidateRequestedSubscriptionScopes)

CreateSubscriptionHandler ==
    Demanding(Handler(<<<<"body", 400>>, <<"client", 403>>, <<"demands", 403>>, <<"payload", 400>>>>,
                      [PermissionDenied |-> 403, AlreadyExists |-> 409, BadRequest |-> 400,
                       NotFound |-> 400, VersionMismatch |-> 409],
                      200),
              ValidateRequestedSubscriptionScopes)

UpdateSubscription == Route({"path", "body"}, {200, 400, 401, 403, 409, 429, 500})
UpdateSubscriptionHandler ==
    Presenting(Demanding(Handler(<<<<"body", 400>>, <<"client", 403>>, <<"demands", 403>>, <<"payload", 400>>>>,
                                 [PermissionDenied |-> 403, AlreadyExists |-> 409, BadRequest |-> 400,
                                  NotFound |-> 400, VersionMismatch |-> 409],
                                 200),
                         ValidateRequestedSubscriptionScopes),
               "optional")

DeleteSubscription == Route({"path"}, {200, 400, 401, 403, 404, 409, 429, 500})
\* mutant: an error of the store is reported as a conflict
DeleteSubscriptionFailureAsConflict ==
    Presenting(Handler(<<<<"id", 400>>, <<"version", 400>>, <<"client", 403>>>>,
                       [PermissionDenied |-> 403, BadRequest |-> 400, NotFound |-> 404, VersionMismatch |-> 409,
                        Failed |-> 409],
                       200),
               "required")

DeleteSubscriptionHandler ==
    Presenting(Handler(<<<<"id", 400>>, <<"version", 400>>, <<"client", 403>>>>,
                       [PermissionDenied |-> 403, BadRequest |-> 400, NotFound |-> 404, VersionMismatch |-> 409],
                       200),
               "required")

PutSubscriptionRefusals(e, caller, version) ==
    << Perhaps("BadRequest"),
       If(e = Absent /\ version # 0,         "NotFound"),
       If(e # Absent /\ version = 0,         "AlreadyExists"),
       If(e # Absent /\ e.version # version, "VersionMismatch"),
       If(e # Absent /\ e.owner # caller,    "PermissionDenied"),
       Perhaps("BadRequest"),
       Perhaps("CheckViolated") >>

DeleteSubscriptionRefusals(e, caller, version) ==
    << If(e = Absent,            "NotFound"),
       If(e.owner # caller,      "PermissionDenied"),
       If(e.version # version,   "VersionMismatch"),
       Perhaps("BadRequest") >>

GetSubscriptionRefusals(e, caller) ==
    << If(e = Absent, "NotFound"), If(e.owner # caller, "PermissionDenied") >>

-----------------------------------------------------------------------------
(* Reports and USS availability *)

MakeDssReport == Route({"body"}, {201, 400, 401, 403, 429, 500})
MakeDssReportHandler ==
    Handler(<<<<"body", 400>>>>, [BadRequest |-> 400, PermissionDenied |-> 403], 201)

(* The report handler gives the report an identifier and logs it. *)
ReportRefusals == << Perhaps("NoIdentifier"), Perhaps("BadRequest") >>

(* An error whose text has "does not exist" in it is taken for a database  *)
(* without the availability table and answered with the status Unknown.    *)
(* "NoTable" is any such error: also a refusal that repeats the version    *)
(* the client named, if that has these words in it.                        *)
GetUssAvailability == Route({"path"}, {200, 400, 401, 403, 429, 500})
GetUssAvailabilityHandler == Handler(<<<<"id", 400>>>>, [NoTable |-> 200], 200)

SetUssAvailability == Route({"path", "body"}, {200, 400, 401, 403, 409, 429, 500})
SetUssAvailabilityHandler ==
    Presenting(Handler(<<<<"id", 400>>, <<"body", 400>>, <<"payload", 400>>>>,
                       [NoTable |-> 200, AlreadyExists |-> 409, VersionMismatch |-> 409], 200),
               "optional")

SetUssAvailabilityRefusals(e, version) ==
    << Perhaps("NoTable"),
       If(e = Absent /\ version # 0,         "AlreadyExists"),
       If(e # Absent /\ e.version # version, "VersionMismatch") >>

-----------------------------------------------------------------------------
(* executeQueryOperationalIntentReferences and executeGet...: what a search *)
(* or a read by identifier refuses.                                         *)
ReadRefusals(call, e, caller) ==
    CASE call = "queryOIRs"               -> << Perhaps("BadRequest") >>
      [] call \in {"getOIR", "getConstraint"} -> << If(e = Absent, "NotFound") >>
      [] call = "getSubscription"         -> GetSubscriptionRefusals(e, caller)
      [] call = "getAvailability"         -> << Perhaps("NoTable") >>
      [] OTHER                            -> << >>

Refusals(call, e, caller, version) ==
    CASE call = "putOIR"             -> UpsertOIRRefusals(e, caller, version)
      [] call = "deleteOIR"          -> DeleteOIRRefusals(e, caller, version)
      [] call = "putConstraint"      -> PutConstraintRefusals(e, caller, version)
      [] call = "deleteConstraint"   -> DeleteConstraintRefusals(e, caller, version)
      [] call = "putSubscription"    -> PutSubscriptionRefusals(e, caller, version)
      [] call = "deleteSubscription" -> DeleteSubscriptionRefusals(e, caller, version)
      [] call = "setAvailability"    -> SetUssAvailabilityRefusals(e, version)
      [] call = "report"             -> ReportRefusals
      [] OTHER                       -> ReadRefusals(call, e, caller)

(* MakeAPIRouter: the routes of the interface. *)
Operations ==
    [queryOIRs |-> Operation("oir", "read", "queryOIRs", Security.oirRead,
                             QueryOperationalIntentReferences, QueryOperationalIntentReferencesHandler),
     getOIR    |-> Operation("oir", "read", "getOIR", Security.oirRead,
                             GetOperationalIntentReference, GetOperationalIntentReferenceHandler),
     createOIR |-> Operation("oir", "put", "putOIR", Security.oirWrite,
                             CreateOperationalIntentReference, CreateOperationalIntentReferenceHandler),
     updateOIR |-> Operation("oir", "put", "putOIR", Security.oirWrite,
                             UpdateOperationalIntentReference, UpdateOperationalIntentReferenceHandler),
     deleteOIR |-> Operation("oir", "delete", "deleteOIR", Security.oirDelete,
                             DeleteOperationalIntentReference, DeleteOperationalIntentReferenceHandler),
     queryConstraints |-> Operation("constraint", "read", "queryConstraints", Security.constraintRead,
                                    QueryConstraintReferences, QueryConstraintReferencesHandler),
     getConstraint    |-> Operation("constraint", "read", "getConstraint", Security.constraintRead,
                                    GetConstraintReference, GetConstraintReferenceHandler),
     createConstraint |-> Operation("constraint", "put", "putConstraint", Security.constraintWrite,
                                    CreateConstraintReference, CreateConstraintReferenceHandler),
     updateConstraint |-> Operation("constraint", "put", "putConstraint", Security.constraintWrite,
                                    UpdateConstraintReference, UpdateConstraintReferenceHandler),
     deleteConstraint |-> Operation("constraint", "delete", "deleteConstraint", Security.constraintWrite,
                                    DeleteConstraintReference, DeleteConstraintReferenceHandler),
     querySubscriptions |-> Operation("scdSubscription", "read", "querySubscriptions", Security.subscription,
                                      QuerySubscriptions, QuerySubscriptionsHandler),
     getSubscription    |-> Operation("scdSubscription", "read", "getSubscription", Security.subscription,
                                      GetSubscription, GetSubscriptionHandler),
     createSubscription |-> Operation("scdSubscription", "put", "putSubscription", Security.subscription,
                                      CreateSubscription, CreateSubscriptionHandler),
     updateSubscription |-> Operation("scdSubscription", "put", "putSubscription", Security.subscription,
                                      UpdateSubscription, UpdateSubscriptionHandler),
     deleteSubscription |-> Operation("scdSubscription", "delete", "deleteSubscription", Security.subscription,
                                      DeleteSubscription, DeleteSubscriptionHandler),
     makeDssReport   |-> Operation("none", "local", "report", Security.report,
                                   MakeDssReport, MakeDssReportHandler),
     getAvailability |-> Operation("availability", "read", "getAvailability", Security.availabilityRead,
                                   GetUssAvailability, GetUssAvailabilityHandler),
     setAvailability |-> Operation("availability", "put", "setAvailability", Security.availabilityWrite,
                                   SetUssAvailability, SetUssAvailabilityHandler)]
=============================================================================
