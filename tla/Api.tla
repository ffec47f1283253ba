-------------------------------- MODULE Api --------------------------------
(***************************************************************************)
(* What the HTTP interfaces of the DSS (pkg/api) have in common: an        *)
(* operation is a route of a generated router, the handler that implements *)
(* it and the transaction or query the handler runs against the store.     *)
(* The modules ScdApi, RidV1Api, RidV2Api and AuxApi hold the tables.      *)
(***************************************************************************)
EXTENDS Naturals, Sequences

-----------------------------------------------------------------------------
(* Routes *)

(* "reads": the parts of the request the router copies before it authorizes *)
(* it; "answers": the statuses its response set can carry.                  *)
Route(reads, answers) == [reads |-> reads, answers |-> answers]

(* setAuthError: the status of a refusal by the authorizer. *)
SetAuthError(error) ==
    CASE error = "Unauthenticated"  -> 401
      [] error = "PermissionDenied" -> 403
      [] OTHER                      -> 500

(* A response the response set has no member for leaves it empty, and the  *)
(* router answers 500 ("Handler implementation did not set a response").   *)
WriteResponse(route, status) == IF status \in route.answers THEN status ELSE 500

-----------------------------------------------------------------------------
(* Handlers *)

(* "checks": what the handler verifies before it calls the store, in order, *)
(* each <<what is wrong, status>>.  "errors": the status of each error code *)
(* of the store call it tells apart; any other error is a 500.  "demands":  *)
(* the sets of scopes a body may need beyond those of the operation.        *)
(* "version": whether the request presents the version it means to replace  *)
(* ("none", "optional", where none asks for a creation, or "required").     *)
(* "after": how the rest of the handler may end once the store call         *)
(* succeeded.                                                               *)
HandlerOf(checks, errors, success, demands, version, after) ==
    [checks  |-> checks,  errors  |-> errors,  success |-> success,
     demands |-> demands, version |-> version, after   |-> after]

Handler(checks, errors, success) == HandlerOf(checks, errors, success, {{}}, "none", {"ok"})

Demanding(h, demands) == HandlerOf(h.checks, h.errors, h.success, demands, h.version, h.after)

Presenting(h, version) == HandlerOf(h.checks, h.errors, h.success, h.demands, version, h.after)

FollowedBy(h, after) == HandlerOf(h.checks, h.errors, h.success, h.demands, h.version, after)

NoErrors == [none \in {} |-> 500]

(* The status a handler gives a result of its store call. *)
HandlerStatus(handler, result) ==
    IF result = "ok" THEN handler.success
    ELSE IF result \in DOMAIN handler.errors THEN handler.errors[result] ELSE 500

-----------------------------------------------------------------------------
(* Store calls *)

(* A store call is a sequence of refusals in code order.  Whether one       *)
(* applies follows from the entity and the request (If), or from data that  *)
(* is not modelled (Perhaps).  "CheckViolated" is a row the store refuses,  *)
(* by a CHECK of its schema or a check of its own, with an error that has   *)
(* no code: a time range that starts when it ends, or a requested OVN the   *)
(* OIR had before.                                                          *)
If(condition, code) == [applies |-> IF condition THEN "yes" ELSE "no", code |-> code]
Perhaps(code) == [applies |-> "maybe", code |-> code]

Absent == [version |-> 0, owner |-> "nobody"]

(* The results a store call may have: a refusal that applies, unless one   *)
(* before it certainly does, and success when none certainly does.         *)
Results(refusals) ==
    LET Reached(i) == \A j \in 1..(i - 1) : refusals[j].applies # "yes"
    IN  {refusals[i].code : i \in {k \in DOMAIN refusals : refusals[k].applies # "no" /\ Reached(k)}}
        \cup IF Reached(Len(refusals) + 1) THEN {"ok"} ELSE {}

(* An operation: the kind of entity it is about, what it does to it         *)
(* ("put", "delete", "record" or "read"; "local" when it does not call the  *)
(* store), the name of its store call, its security options (a set of sets  *)
(* of scopes) and its route and handler.                                    *)
Operation(kind, does, call, security, route, handler) ==
    [kind |-> kind, does |-> does, call |-> call, security |-> security,
     route |-> route, handler |-> handler]

(* The routes of two routers, the first asked first. *)
Over(table, rest) ==
    [n \in DOMAIN table \cup DOMAIN rest |-> IF n \in DOMAIN table THEN table[n] ELSE rest[n]]

(* Security of an operation whose router does not call the authorizer. *)
Open == {}
=============================================================================
