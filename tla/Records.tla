------------------------------- MODULE Records -------------------------------
(* Six keepers of records of the system: the selection of a route, the         *)
(* statistics of latencies, the connection with an OAuth token, the catalog of *)
(* providers, models and routes, the record of a request, and the price        *)
(* catalogs.  They share no state, and each behaviour runs one of them, as in  *)
(* Services.                                                                   *)
EXTENDS RouteSelection, RouteLatency, OAuthConnection, Catalog, RequestRecord, ModelCatalogs

VARIABLE keeper   \* the one that runs

recordsVars == <<keeper, selectVars, latencyVars, oauthVars, catalogVars, recordVars, catalogsVars>>

Keeps(k, still) == keeper = k /\ UNCHANGED <<keeper, still>>

RecordsInit ==
  /\ keeper \in {"selection", "latency", "oauth", "catalog", "requests", "prices"}
  /\ SelectInit /\ LatencyInit /\ OAuthInit /\ CatalogInit /\ RecordInit /\ CatalogsInit
  /\ keeper # "prices" => ~cache.on /\ offered = [s \in ToSet(Sources) |-> CHOOSE o \in Offers[s] : TRUE]
  /\ keeper # "oauth" => idp.rotates

RecordsNext ==
  \/ Keeps("selection", <<latencyVars, oauthVars, catalogVars, recordVars, catalogsVars>>) /\ SelectNext
  \/ Keeps("latency", <<selectVars, oauthVars, catalogVars, recordVars, catalogsVars>>) /\ LatencyNext
  \/ Keeps("oauth", <<selectVars, latencyVars, catalogVars, recordVars, catalogsVars>>) /\ OAuthNext
  \/ Keeps("catalog", <<selectVars, latencyVars, oauthVars, recordVars, catalogsVars>>) /\ CatalogNext
  \/ Keeps("requests", <<selectVars, latencyVars, oauthVars, catalogVars, catalogsVars>>) /\ RecordNext
  \/ Keeps("prices", <<selectVars, latencyVars, oauthVars, catalogVars, recordVars>>) /\ CatalogsNext

RecordsSpec == RecordsInit /\ [][RecordsNext]_recordsVars

TypesOK ==
  CASE keeper = "selection" -> SelectTypeOK
    [] keeper = "latency" -> LatencyTypeOK
    [] keeper = "oauth" -> OAuthTypeOK
    [] keeper = "catalog" -> CatalogTypeOK
    [] keeper = "requests" -> RecordTypeOK
    [] keeper = "prices" -> CatalogsTypeOK
=============================================================================
