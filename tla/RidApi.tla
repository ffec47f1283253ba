------------------------------- MODULE RidApi -------------------------------
(***************************************************************************)
(* The store calls behind both RID interfaces: what the operations of      *)
(* pkg/rid/operations, and the reads the handlers make themselves, refuse. *)
(***************************************************************************)
EXTENDS Api

(* executeDeleteISA and executeDeleteSubscription *)
DeleteRefusals(e, caller, version) ==
    << If(e = Absent,          "NotFound"),
       If(e.version # version, "VersionMismatch"),
       If(e.owner # caller,    "PermissionDenied") >>

(* Both creations correct the time range before they look for the entity. *)
InsertISARefusals(e) ==
    << Perhaps("BadRequest"), If(e # Absent, "AlreadyExists"), Perhaps("CheckViolated") >>

CreateSubscriptionRefusals(e) ==
    << Perhaps("BadRequest"), If(e # Absent, "AlreadyExists"), Perhaps("Exhausted"), Perhaps("CheckViolated") >>

(* Both updates correct the time range before they compare versions. *)
UpdateISARefusals(e, caller, version) ==
    << Perhaps("BadRequest"),
       If(e = Absent,          "NotFound"),
       If(e.version # version, "VersionMismatch"),
       If(e.owner # caller,    "PermissionDenied"),
       Perhaps("CheckViolated") >>

UpdateSubscriptionRefusals(e, caller, version) ==
    << Perhaps("BadRequest"),
       If(e = Absent,          "NotFound"),
       If(e.version # version, "VersionMismatch"),
       If(e.owner # caller,    "PermissionDenied"),
       Perhaps("Exhausted"),
       Perhaps("CheckViolated") >>

Refusals(call, e, caller, version) ==
    CASE call = "delete"             -> DeleteRefusals(e, caller, version)
      [] call = "insertISA"          -> InsertISARefusals(e)
      [] call = "updateISA"          -> UpdateISARefusals(e, caller, version)
      [] call = "createSubscription" -> CreateSubscriptionRefusals(e)
      [] call = "updateSubscription" -> UpdateSubscriptionRefusals(e, caller, version)
      [] call = "get"                -> << If(e = Absent, "NotFound") >>
      [] call = "search"             -> << Perhaps("BadRequest") >>
=============================================================================
