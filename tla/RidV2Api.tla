------------------------------ MODULE RidV2Api ------------------------------
(***************************************************************************)
(* The RID interface of F3411-22a: the routes of pkg/api/ridv2 and the     *)
(* handlers of pkg/rid/server/v2, on the store calls of RidApi.            *)
(***************************************************************************)
EXTENDS RidApi

DisplayProvider == "rid.display_provider"
ServiceProvider == "rid.service_provider"

Security ==
    [searchISAs    |-> {{DisplayProvider}},
     getISA        |-> {{DisplayProvider}, {ServiceProvider}},
     writeISA      |-> {{ServiceProvider}},
     searchSubs    |-> {{DisplayProvider}},
     getSub        |-> {{DisplayProvider}, {ServiceProvider}},
     writeSub      |-> {{DisplayProvider}}]

-----------------------------------------------------------------------------
(* Identification service areas *)

SearchIdentificationServiceAreas == Route({"query"}, {200, 400, 401, 403, 413, 500})
SearchIdentificationServiceAreasHandler ==
    Handler(<<<<"area", 400>>, <<"areaSize", 413>>, <<"covering", 400>>, <<"times", 400>>>>,
            [BadRequest |-> 400], 200)

GetIdentificationServiceArea == Route({"path"}, {200, 400, 401, 403, 404, 500})
GetIdentificationServiceAreaHandler == Handler(<<<<"id", 400>>>>, [NotFound |-> 404], 200)

CreateIdentificationServiceArea == Route({"path", "body"}, {200, 400, 401, 403, 409, 413, 500})
CreateIdentificationServiceAreaHandler ==
    Handler(<<<<"client", 403>>, <<"body", 400>>, <<"url", 400>>, <<"extents", 400>>, <<"id", 400>>, <<"payload", 400>>>>,
            [AlreadyExists |-> 409, BadRequest |-> 400], 200)

UpdateIdentificationServiceArea == Route({"path", "body"}, {200, 400, 401, 403, 409, 413, 500})
UpdateIdentificationServiceAreaHandler ==
    Presenting(Handler(<<<<"version", 400>>, <<"client", 403>>, <<"body", 400>>, <<"url", 400>>, <<"extents", 400>>,
                         <<"id", 400>>, <<"payload", 400>>>>,
                       [PermissionDenied |-> 403, VersionMismatch |-> 409, BadRequest |-> 400, NotFound |-> 400],
                       200),
               "required")

DeleteIdentificationServiceArea == Route({"path"}, {200, 400, 401, 403, 404, 409, 500})
DeleteIdentificationServiceAreaHandler ==
    Presenting(Handler(<<<<"client", 403>>, <<"version", 400>>, <<"id", 400>>>>,
                       [PermissionDenied |-> 403, VersionMismatch |-> 409, NotFound |-> 404], 200),
               "required")

-----------------------------------------------------------------------------
(* Subscriptions *)

SearchSubscriptions == Route({"query"}, {200, 400, 401, 403, 413, 500})
SearchSubscriptionsHandler ==
    Handler(<<<<"client", 403>>, <<"area", 400>>, <<"areaSize", 413>>, <<"covering", 400>>>>,
            [BadRequest |-> 400], 200)

GetSubscription == Route({"path"}, {200, 400, 401, 403, 404, 500})
GetSubscriptionHandler == Handler(<<<<"id", 400>>>>, [NotFound |-> 404], 200)

CreateSubscription == Route({"path", "body"}, {200, 400, 401, 403, 409, 429, 500})
CreateSubscriptionHandler ==
    Handler(<<<<"client", 403>>, <<"body", 400>>, <<"url", 400>>, <<"extents", 400>>, <<"id", 400>>, <<"payload", 400>>>>,
            [AlreadyExists |-> 409, BadRequest |-> 400, Exhausted |-> 429], 200)

UpdateSubscription == Route({"path", "body"}, {200, 400, 401, 403, 409, 429, 500})
UpdateSubscriptionHandler ==
    Presenting(Handler(<<<<"version", 400>>, <<"id", 400>>, <<"client", 403>>, <<"body", 400>>, <<"url", 400>>,
                         <<"extents", 400>>, <<"payload", 400>>>>,
                       [PermissionDenied |-> 403, VersionMismatch |-> 409, BadRequest |-> 400,
                        NotFound |-> 400, Exhausted |-> 429],
                       200),
               "required")

DeleteSubscription == Route({"path"}, {200, 400, 401, 403, 404, 409, 500})
DeleteSubscriptionHandler ==
    Presenting(Handler(<<<<"client", 403>>, <<"id", 400>>, <<"version", 400>>>>,
                       [PermissionDenied |-> 403, VersionMismatch |-> 409, NotFound |-> 404, BadRequest |-> 400],
                       200),
               "required")

-----------------------------------------------------------------------------
(* MakeAPIRouter: the routes of the interface. *)
Operations ==
    [v2_searchISAs |-> Operation("isa", "read", "search", Security.searchISAs,
                  SearchIdentificationServiceAreas, SearchIdentificationServiceAreasHandler),
     v2_getISA |-> Operation("isa", "read", "get", Security.getISA,
                  GetIdentificationServiceArea, GetIdentificationServiceAreaHandler),
     v2_createISA |-> Operation("isa", "put", "insertISA", Security.writeISA,
                  CreateIdentificationServiceArea, CreateIdentificationServiceAreaHandler),
     v2_updateISA |-> Operation("isa", "put", "updateISA", Security.writeISA,
                  UpdateIdentificationServiceArea, UpdateIdentificationServiceAreaHandler),
     v2_deleteISA |-> Operation("isa", "delete", "delete", Security.writeISA,
                  DeleteIdentificationServiceArea, DeleteIdentificationServiceAreaHandler),
     v2_searchSubs |-> Operation("ridSubscription", "read", "search", Security.searchSubs,
                  SearchSubscriptions, SearchSubscriptionsHandler),
     v2_getSub |-> Operation("ridSubscription", "read", "get", Security.getSub,
                  GetSubscription, GetSubscriptionHandler),
     v2_createSub |-> Operation("ridSubscription", "put", "createSubscription", Security.writeSub,
                  CreateSubscription, CreateSubscriptionHandler),
     v2_updateSub |-> Operation("ridSubscription", "put", "updateSubscription", Security.writeSub,
                  UpdateSubscription, UpdateSubscriptionHandler),
     v2_deleteSub |-> Operation("ridSubscription", "delete", "delete", Security.writeSub,
                  DeleteSubscription, DeleteSubscriptionHandler)]
=============================================================================
