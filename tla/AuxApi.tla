------------------------------- MODULE AuxApi -------------------------------
(***************************************************************************)
(* The auxiliary interface (routes of pkg/api/auxv1, handlers of pkg/aux_) *)
(* and the versioning interface (pkg/api/versioningv1, pkg/versioning).    *)
(***************************************************************************)
EXTENDS Api

RidRead        == "dss.read.identification_service_areas"
RidWrite       == "dss.write.identification_service_areas"
HeartbeatWrite == "interuss.pool_status.heartbeat.write"
PoolRead       == "interuss.pool_status.read"
ReadVersions   == "interuss.versioning.read_system_versions"

Security ==
    [validateOauth |-> {{RidRead}, {RidWrite}},
     pool          |-> {{PoolRead}},
     heartbeat     |-> {{HeartbeatWrite}}]

VersioningSecurity == {{ReadVersions}}

-----------------------------------------------------------------------------
(* Operations that do not change anything *)

GetVersion == Route({}, {200, 500})
GetVersionHandler == Handler(<< >>, NoErrors, 200)

ValidateOauth == Route({"query"}, {200, 401, 403, 500})
ValidateOauthHandler == Handler(<<<<"client", 403>>, <<"owner", 403>>>>, NoErrors, 200)

GetPool == Route({}, {200, 401, 403, 500, 501})
GetPoolHandler == Handler(<< >>, [NotImplemented |-> 501], 200)

GetAcceptedCAs == Route({}, {200, 500, 501})
GetAcceptedCAsHandler == Handler(<< >>, [NoFile |-> 501], 200)

GetInstanceCAs == Route({}, {200, 500, 501})
GetInstanceCAsHandler == Handler(<< >>, [NoFile |-> 501], 200)

GetGlobalOptions == Route({}, {200, 401, 403, 500, 501})
GetGlobalOptionsHandler == Handler(<< >>, NoErrors, 200)

GetDSSInstances == Route({}, {200, 401, 403, 500, 501})
GetDSSInstancesHandler == Handler(<< >>, [NotImplemented |-> 501], 200)

GetSystemVersion == Route({"path"}, {200, 401, 403, 404, 500})
GetSystemVersionHandler == Handler(<< >>, NoErrors, 200)

-----------------------------------------------------------------------------
(* Heartbeats.  Whatever goes wrong while one is recorded is answered 400;  *)
(* once it is recorded the handler reads the instances back, and a failure  *)
(* of that read is answered 500.                                            *)
PutDSSInstancesHeartbeat == Route({"query"}, {201, 400, 401, 403, 500, 501})
PutDSSInstancesHeartbeatHandler ==
    FollowedBy(Handler(<<<<"source", 400>>, <<"timestamp", 400>>, <<"nextHeartbeat", 400>>>>,
                       [Failed |-> 400], 201),
               {"ok", "NotReadBack"})

(* RecordHeartbeat of the SQL store looks for a row of the instance and the *)
(* source, then updates it or inserts one, in statements of their own, and  *)
(* does not look at the error an executed statement ends with: an insertion *)
(* that collides with one made meanwhile, or a statement that fails, is a   *)
(* success.  The writes it may have made:                                   *)
RecordHeartbeat(found, e) ==
    IF found = (e = Absent) THEN {"nothing"} ELSE {"nothing", "row"}

Refusals(call) ==
    CASE call = "getPool" -> << Perhaps("NotImplemented") >>
      [] call = "getCAs"  -> << Perhaps("NoFile") >>
      [] OTHER            -> << >>

-----------------------------------------------------------------------------
(* MakeAPIRouter of the auxiliary interface. *)
AuxOperations ==
    [getVersion    |-> Operation("none", "local", "none", Open, GetVersion, GetVersionHandler),
     validateOauth |-> Operation("none", "local", "none", Security.validateOauth,
                                 ValidateOauth, ValidateOauthHandler),
     getPool       |-> Operation("none", "read", "getPool", Security.pool, GetPool, GetPoolHandler),
     getInstances  |-> Operation("heartbeat", "read", "getInstances", Security.pool,
                                 GetDSSInstances, GetDSSInstancesHandler),
     putHeartbeat  |-> Operation("heartbeat", "record", "recordHeartbeat", Security.heartbeat,
                                 PutDSSInstancesHeartbeat, PutDSSInstancesHeartbeatHandler),
     getAcceptedCAs   |-> Operation("none", "local", "getCAs", Open, GetAcceptedCAs, GetAcceptedCAsHandler),
     getInstanceCAs   |-> Operation("none", "local", "getCAs", Open, GetInstanceCAs, GetInstanceCAsHandler),
     getGlobalOptions |-> Operation("none", "local", "none", Security.pool,
                                    GetGlobalOptions, GetGlobalOptionsHandler)]

(* MakeAPIRouter of the versioning interface. *)
VersioningOperations ==
    [getSystemVersion |-> Operation("none", "local", "none", VersioningSecurity,
                                    GetSystemVersion, GetSystemVersionHandler)]
=============================================================================
