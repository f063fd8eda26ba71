------------------------------ MODULE Catalog ------------------------------
(***************************************************************************)
(* What an operator configures: providers and their models, virtual models *)
(* with a route policy each, and API keys (console-providers.ts,           *)
(* console-provider-model-capabilities.ts, console-price-overrides.ts,     *)
(* console-virtual-models.ts, console-route-policies.ts,                   *)
(* console-api-keys.ts, console-api-key-limits.ts), beside the jobs that   *)
(* refresh the models of a provider and their prices                       *)
(* (worker-model-refresh.ts, worker-price-sync.ts).                        *)
(*                                                                         *)
(* The console's transactions and the price sync take the publisher's lock *)
(* first (see ConfigReload), so each is one step.  A refresh locks the row *)
(* of its provider, plans, and then writes; an edit that does not lock     *)
(* that provider commits in between.                                       *)
(*                                                                         *)
(* One capability stands for the six, e.g. the context window: "listed" is *)
(* what the source says, "manual" what the operator says.  Names, tags,    *)
(* weights, logging modes and supported endpoints are left out.            *)
(***************************************************************************)
EXTENDS Integers, FiniteSets

CONSTANTS
  Providers, Models,
  OwnerOf,        \* the provider of each model
  Statements,     \* what a listing may say of the capability, see Said
  Overridable,    \* bound: models whose capability the operator overrides
  Priced,         \* bound: models that get a price
  VirtualModels, ApiKeys

\* undefined, null, or a value: a registry entry that does not know says null.
Said == {{}, {"unknown"}, {"listed"}}

ASSUME CatalogAssumption ==
  /\ OwnerOf \in [Models -> Providers] /\ Statements \subseteq Said
  /\ Overridable \subseteq Models /\ Priced \subseteq Models

VARIABLES
  providers,   \* rows of providers
  models,      \* rows of provider_models
  virtuals,    \* rows of virtual_models
  policies,    \* per virtual model: its route policy that is not deleted
  retired,     \* the candidates of deleted policies, whose rows stay
  keys,        \* rows of api_keys, their virtual models and limits
  refresh,     \* the model refresh under way
  priceJobs,   \* providers whose refresh has asked for an unfinished price sync
  published    \* the last step inserted a configuration version

catalogVars == <<providers, models, virtuals, policies, retired, keys, refresh, priceJobs, published>>

\* A model's row: availability, the column that routing reads, syncedCapabilities
\* and manualCapabilities of capability_metadata, the effective price; asked is
\* history, whether the operator's last word on the capability was a value.
NewModel == [stage |-> "none", availability |-> "available", column |-> "unknown",
             synced |-> {}, manual |-> FALSE, asked |-> FALSE, price |-> "unknown"]
NoPolicy == [live |-> FALSE, agree |-> FALSE, candidates |-> {}]
NewKey == [stage |-> "none", enabled |-> FALSE, grants |-> {}, default |-> {}, limitsOn |-> FALSE, rules |-> FALSE]
NoPlan == [m \in Models |-> [write |-> "none", manual |-> FALSE, synced |-> {}, column |-> "unknown"]]
NoRefresh == [pc |-> "idle", provider |-> {}, current |-> FALSE, leased |-> FALSE, plan |-> NoPlan, visible |-> FALSE]

Columns == {"unknown", "listed", "manual"}

CatalogTypeOK ==
  /\ providers \in [Providers -> [stage : {"none", "live", "deleted"}, enabled : BOOLEAN]]
  /\ \A m \in Models :
       /\ models[m].stage \in {"none", "live", "deleted"} /\ models[m].column \in Columns
       /\ models[m].availability \in {"available", "unavailable", "not_listed"}
       /\ models[m].synced \in Said \cup {{"manual"}} /\ models[m].price \in {"unknown", "synced", "manual"}
  /\ virtuals \in [VirtualModels -> {"none", "live", "deleted"}]
  /\ policies \in [VirtualModels -> [live : BOOLEAN, agree : BOOLEAN, candidates : SUBSET Models]]
  /\ retired \subseteq Models /\ priceJobs \subseteq Providers /\ published \in BOOLEAN
  /\ \A k \in ApiKeys : keys[k].grants \subseteq VirtualModels /\ Cardinality(keys[k].default) <= 1
  /\ refresh.pc \in {"idle", "read", "planned"}

CatalogInit ==
  /\ providers = [p \in Providers |-> [stage |-> "none", enabled |-> FALSE]]
  /\ models = [m \in Models |-> NewModel]
  /\ virtuals = [v \in VirtualModels |-> "none"]
  /\ policies = [v \in VirtualModels |-> NoPolicy] /\ retired = {}
  /\ keys = [k \in ApiKeys |-> NewKey]
  /\ refresh = NoRefresh /\ priceJobs = {} /\ published = FALSE

LiveModels == {m \in Models : models[m].stage = "live"}
LivePolicies == {v \in VirtualModels : policies[v].live}
CandidatesOf(ps) == UNION {policies[v].candidates : v \in ps}

\* The row of p is not locked by a refresh that has planned.
ProviderFree(p) == ~(refresh.pc = "planned" /\ refresh.provider = {p})

(***************************************************************************)
(* Providers.                                                              *)
(***************************************************************************)
CreateProvider(p) ==
  /\ providers[p].stage = "none"
  /\ providers' = [providers EXCEPT ![p] = [stage |-> "live", enabled |-> TRUE]]
  /\ published' = TRUE
  /\ UNCHANGED <<models, virtuals, policies, retired, keys, refresh, priceJobs>>

\* updated_at of p moves on, which a refresh that has read it will notice.
Touched(p) == [refresh EXCEPT !.current = @ /\ refresh.provider # {p}]

UpdateProvider(p) ==
  /\ providers[p].stage = "live" /\ ProviderFree(p)
  /\ refresh' = Touched(p)
  /\ published' = TRUE
  /\ UNCHANGED <<providers, models, virtuals, policies, retired, keys, priceJobs>>

\* assertProviderHasNoActiveRoutePolicyDependencies.
Depended(p) == \E m \in CandidatesOf(LivePolicies) : OwnerOf[m] = p /\ models[m].stage = "live"

SetProviderEnabled(p) ==
  /\ providers[p].stage = "live" /\ ProviderFree(p)
  /\ \E enabled \in BOOLEAN :
       /\ ~enabled => ~Depended(p)
       /\ providers' = [providers EXCEPT ![p].enabled = enabled]
  /\ refresh' = Touched(p)
  /\ published' = TRUE
  /\ UNCHANGED <<models, virtuals, policies, retired, keys, priceJobs>>

\* A refresh whose job has lost its lease runs on and is not seen here.  The
\* provider's connections go too (see ConnectionHealth and OAuthConnection).
DeleteProvider(p) ==
  /\ providers[p].stage = "live" /\ ProviderFree(p) /\ ~Depended(p)
  /\ ~(refresh.leased /\ refresh.provider = {p})
  /\ providers' = [providers EXCEPT ![p] = [stage |-> "deleted", enabled |-> FALSE]]
  /\ models' = [m \in Models |->
       IF OwnerOf[m] = p /\ models[m].stage = "live" THEN [models[m] EXCEPT !.stage = "deleted"] ELSE models[m]]
  /\ refresh' = Touched(p)
  /\ published' = TRUE
  /\ UNCHANGED <<virtuals, policies, retired, keys, priceJobs>>

(***************************************************************************)
(* Models: the operator's overrides and the price sync.                    *)
(***************************************************************************)
\* resolveProviderModelCapabilities.
Effective(manual, synced) ==
  CASE manual -> "manual"
    [] ~manual /\ synced # {} -> CHOOSE value \in synced : TRUE
    [] OTHER -> "unknown"

\* updateProviderModelManualCapabilities sets or clears the override; what was
\* synced is taken from the column where the metadata have nothing.
OverrideCapabilities(m) ==
  LET row == models[m]
      synced == IF row.synced # {} THEN row.synced ELSE {row.column}
  IN /\ m \in Overridable \cap LiveModels
     /\ \E manual \in BOOLEAN :
          models' = [models EXCEPT ![m] =
            [row EXCEPT !.manual = manual, !.asked = manual, !.synced = synced, !.column = Effective(manual, synced)]]
     /\ published' = TRUE
     /\ UNCHANGED <<providers, virtuals, policies, retired, keys, refresh, priceJobs>>

OverridePrice(m) ==
  /\ m \in Priced \cap LiveModels
  /\ models' = [models EXCEPT ![m].price = "manual"]
  /\ published' = TRUE
  /\ UNCHANGED <<providers, virtuals, policies, retired, keys, refresh, priceJobs>>

\* The price sync that a refresh asked for, or one of the schedule: it writes the
\* prices of all providers' models that its source knows; a manual price hides them.
SyncPrices ==
  \E known \in SUBSET (Priced \cap LiveModels), done \in {{}} \cup {{p} : p \in priceJobs} :
    /\ models' = [m \in Models |->
         IF m \in known /\ models[m].price = "unknown" THEN [models[m] EXCEPT !.price = "synced"] ELSE models[m]]
    /\ priceJobs' = priceJobs \ done
    /\ published' = TRUE
    /\ UNCHANGED <<providers, virtuals, policies, retired, keys, refresh>>

(***************************************************************************)
(* Models: the refresh.                                                    *)
(***************************************************************************)
ReadForRefresh(p) ==
  /\ refresh.pc = "idle"
  /\ providers[p].stage = "live" /\ providers[p].enabled
  /\ refresh' = [NoRefresh EXCEPT !.pc = "read", !.provider = {p}, !.current = TRUE, !.leased = TRUE]
  /\ published' = FALSE
  /\ UNCHANGED <<providers, models, virtuals, policies, retired, keys, priceJobs>>

\* The job's lease runs out; nothing stops the handler.
LoseRefreshLease ==
  /\ refresh.leased
  /\ refresh' = [refresh EXCEPT !.leased = FALSE]
  /\ published' = FALSE
  /\ UNCHANGED <<providers, models, virtuals, policies, retired, keys, priceJobs>>

\* A candidate row refers to the model, be its policy deleted or not.
Referenced(m) == m \in CandidatesOf(LivePolicies) \cup retired

\* What becomes of an owned model, given what is listed and stated of it and
\* whether something else about it, or only its name, has changed.
Planned(m, listed, stated, touched, renamed) ==
  LET row == models[m]
      keep == [write |-> "none", manual |-> FALSE, synced |-> {}, column |-> "unknown"]
      column == Effective(row.manual, stated)
      changed == m \in touched \/ stated # row.synced \/ (column # "unknown" /\ column # row.column)
  IN CASE row.stage # "live" /\ m \in listed ->
            [keep EXCEPT !.write = "insert", !.synced = stated, !.column = Effective(FALSE, stated)]
       [] row.stage = "live" /\ m \in listed /\ (changed \/ m \in renamed \/ row.availability # "available") ->
            [write |-> "available", manual |-> row.manual, synced |-> stated, column |-> column]
       [] row.stage = "live" /\ m \notin listed /\ Referenced(m) /\ row.availability # "unavailable" ->
            [keep EXCEPT !.write = "unavailable"]
       [] row.stage = "live" /\ m \notin listed /\ ~Referenced(m) /\ row.availability # "not_listed" ->
            [keep EXCEPT !.write = "not_listed"]
       [] OTHER -> keep

\* routingVisibleChanges: a new availability or new metadata of a referenced model.
Visible(m, plan, stated, touched) ==
  /\ models[m].stage = "live" /\ Referenced(m)
  /\ \/ plan[m].write = "unavailable"
     \/ plan[m].write = "available" /\ \/ models[m].availability # "available"
                                       \/ m \in touched \/ stated # models[m].synced
                                       \/ plan[m].column # "unknown" /\ plan[m].column # models[m].column

\* assertProviderSnapshotCurrent.
StillCurrent == refresh.current

\* Then the provider is locked, and the plan made from the rows as they are.
PlanRefresh ==
  /\ refresh.pc = "read" /\ StillCurrent
  /\ \E p \in refresh.provider :
       LET owned == {m \in Models : OwnerOf[m] = p}
       IN \E listed, touched, renamed \in SUBSET owned :
            \E stated \in [listed -> Statements] :
              LET said(m) == IF m \in listed THEN stated[m] ELSE {}
                  plan == [m \in Models |-> IF m \in owned THEN Planned(m, listed, said(m), touched, renamed)
                                                           ELSE NoPlan[m]]
              IN /\ touched \cup renamed \subseteq listed
                 /\ refresh' = [refresh EXCEPT !.pc = "planned", !.plan = plan,
                      !.visible = \E m \in owned : Visible(m, plan, said(m), touched)]
  /\ published' = FALSE
  /\ UNCHANGED <<providers, models, virtuals, policies, retired, keys, priceJobs>>

\* The update of a model that is listed, on the row as it is now: the capability
\* is overwritten if the planned metadata mention it, the planned metadata win.
Written(row, plan) ==
  [row EXCEPT !.stage = IF @ = "none" THEN "live" ELSE @, !.availability = "available",
     !.synced = plan.synced, !.manual = @ \/ plan.manual,
     !.column = IF plan.synced # {} \/ plan.manual \/ row.stage # "live" THEN plan.column ELSE @]

\* enqueueChainedPriceSyncJob: an unfinished one is enough.
AsksForPrices == priceJobs' = priceJobs \cup refresh.provider

\* The plan is written and the price sync asked for; a version is published only
\* for what routing sees.
ApplyRefresh ==
  /\ refresh.pc = "planned"
  /\ models' = [m \in Models |->
       LET plan == refresh.plan[m]
       IN CASE plan.write = "none" -> models[m]
            [] plan.write \in {"insert", "available"} -> Written(models[m], plan)
            [] OTHER -> [models[m] EXCEPT !.availability = plan.write]]
  /\ AsksForPrices
  /\ published' = refresh.visible
  /\ refresh' = NoRefresh
  /\ UNCHANGED <<providers, virtuals, policies, retired, keys>>

\* The source or the database fails, the credential changed, the provider did, or
\* the worker dies.
RefreshFails ==
  /\ refresh.pc # "idle"
  /\ refresh' = NoRefresh
  /\ published' = FALSE
  /\ UNCHANGED <<providers, models, virtuals, policies, retired, keys, priceJobs>>

(***************************************************************************)
(* Virtual models and route policies.                                      *)
(***************************************************************************)
\* Mutation: the candidates' providers are not locked.
RouteLocksNothing(candidates) == TRUE

\* lockProvidersForProviderModels.
RouteLocks(candidates) == \A m \in candidates : ProviderFree(OwnerOf[m])

\* The candidates exist, whether enabled and listed or not; those of a strategy
\* that may send a request to any of them agree on what is known.
RouteAccepted(agree, candidates) ==
  /\ candidates # {} /\ candidates \subseteq LiveModels
  /\ \A m \in candidates : providers[OwnerOf[m]].stage = "live"
  /\ agree => \A m, n \in candidates :
                {models[m].column, models[n].column} \in {{c} : c \in Columns} \cup {{c, "unknown"} : c \in Columns}

\* Its candidates are deleted and written again.
WritesRoute(v) ==
  \E agree \in BOOLEAN, candidates \in SUBSET Models :
    /\ RouteLocks(candidates) /\ RouteAccepted(agree, candidates)
    /\ policies' = [policies EXCEPT ![v] = [live |-> TRUE, agree |-> agree, candidates |-> candidates]]

CreateVirtualModelWithRoute(v) ==
  /\ virtuals[v] = "none"
  /\ WritesRoute(v)
  /\ virtuals' = [virtuals EXCEPT ![v] = "live"]
  /\ published' = TRUE
  /\ UNCHANGED <<providers, models, retired, keys, refresh, priceJobs>>

\* createRoutePolicy where there is none, updateRoutePolicy otherwise.
SaveRoute(v) ==
  /\ virtuals[v] = "live"
  /\ WritesRoute(v)
  /\ published' = TRUE
  /\ UNCHANGED <<providers, models, virtuals, retired, keys, refresh, priceJobs>>

\* Renames it, together with its route or not.
UpdateVirtualModelWithRoute(v) ==
  /\ virtuals[v] = "live"
  /\ WritesRoute(v) \/ UNCHANGED policies
  /\ published' = TRUE
  /\ UNCHANGED <<providers, models, virtuals, retired, keys, refresh, priceJobs>>

DeleteRoutePolicy(v) ==
  /\ virtuals[v] = "live" /\ policies[v].live
  /\ policies' = [policies EXCEPT ![v] = NoPolicy]
  /\ retired' = retired \cup policies[v].candidates
  /\ published' = TRUE
  /\ UNCHANGED <<providers, models, virtuals, keys, refresh, priceJobs>>

\* Mutation: only defaults count.
GrantedByDefault(v) == \E k \in ApiKeys : keys[k].stage = "live" /\ v \in keys[k].default

Granted(v) == \E k \in ApiKeys : keys[k].stage = "live" /\ v \in keys[k].grants \cup keys[k].default

DeleteVirtualModel(v) ==
  /\ virtuals[v] = "live" /\ ~Granted(v)
  /\ virtuals' = [virtuals EXCEPT ![v] = "deleted"]
  /\ policies' = [policies EXCEPT ![v] = NoPolicy]
  /\ retired' = retired \cup policies[v].candidates
  /\ published' = TRUE
  /\ UNCHANGED <<providers, models, keys, refresh, priceJobs>>

(***************************************************************************)
(* API keys.                                                               *)
(***************************************************************************)
\* The virtual models of a key exist, and its default is one of them.
Grants == {g \in [grants : SUBSET VirtualModels, default : {{}} \cup {{v} : v \in VirtualModels}] :
             g.grants # {} /\ g.default \subseteq g.grants /\ \A v \in g.grants : virtuals[v] = "live"}

\* Limits come with all five rules or none.
WithSettings(key, g, limitsOn) ==
  [key EXCEPT !.stage = "live", !.grants = g.grants, !.default = g.default, !.limitsOn = limitsOn, !.rules = limitsOn]

CreateKey(k) ==
  /\ keys[k].stage = "none"
  /\ \E g \in Grants, limitsOn \in BOOLEAN :
       keys' = [keys EXCEPT ![k] = WithSettings([@ EXCEPT !.enabled = TRUE], g, limitsOn)]
  /\ published' = TRUE
  /\ UNCHANGED <<providers, models, virtuals, policies, retired, refresh, priceJobs>>

UpdateKey(k) ==
  /\ keys[k].stage = "live"
  /\ \E g \in Grants, limitsOn \in BOOLEAN : keys' = [keys EXCEPT ![k] = WithSettings(@, g, limitsOn)]
  /\ published' = TRUE
  /\ UNCHANGED <<providers, models, virtuals, policies, retired, refresh, priceJobs>>

\* updateApiKeyVirtualModelAccess.
UpdateAccess(k) ==
  /\ keys[k].stage = "live"
  /\ \E g \in Grants : keys' = [keys EXCEPT ![k].grants = g.grants, ![k].default = g.default]
  /\ published' = TRUE
  /\ UNCHANGED <<providers, models, virtuals, policies, retired, refresh, priceJobs>>

SetKeyEnabled(k) ==
  /\ keys[k].stage = "live"
  /\ keys' = [keys EXCEPT ![k].enabled = ~@]
  /\ published' = TRUE
  /\ UNCHANGED <<providers, models, virtuals, policies, retired, refresh, priceJobs>>

SaveLimits(k) ==
  /\ keys[k].stage = "live"
  /\ keys' = [keys EXCEPT ![k].limitsOn = TRUE, ![k].rules = TRUE]
  /\ published' = TRUE
  /\ UNCHANGED <<providers, models, virtuals, policies, retired, refresh, priceJobs>>

DeleteLimits(k) ==
  /\ keys[k].stage = "live"
  /\ keys' = [keys EXCEPT ![k].limitsOn = FALSE, ![k].rules = FALSE]
  /\ published' = TRUE
  /\ UNCHANGED <<providers, models, virtuals, policies, retired, refresh, priceJobs>>

\* Off deletes the rules; on wants them there.
SetLimitsEnabled(k) ==
  /\ keys[k].stage = "live"
  /\ \/ keys' = [keys EXCEPT ![k].limitsOn = FALSE, ![k].rules = FALSE]
     \/ keys[k].rules /\ keys' = [keys EXCEPT ![k].limitsOn = TRUE]
  /\ published' = TRUE
  /\ UNCHANGED <<providers, models, virtuals, policies, retired, refresh, priceJobs>>

\* The rows of its virtual models and limits stay.
DeleteKey(k) ==
  /\ keys[k].stage = "live"
  /\ keys' = [keys EXCEPT ![k].stage = "deleted", ![k].enabled = FALSE]
  /\ published' = TRUE
  /\ UNCHANGED <<providers, models, virtuals, policies, retired, refresh, priceJobs>>

CatalogNext ==
  \/ \E p \in Providers : \/ CreateProvider(p) \/ UpdateProvider(p) \/ SetProviderEnabled(p)
                          \/ DeleteProvider(p) \/ ReadForRefresh(p)
  \/ \E m \in Models : OverrideCapabilities(m) \/ OverridePrice(m)
  \/ SyncPrices \/ LoseRefreshLease \/ PlanRefresh \/ ApplyRefresh \/ RefreshFails
  \/ \E v \in VirtualModels : \/ CreateVirtualModelWithRoute(v) \/ SaveRoute(v) \/ UpdateVirtualModelWithRoute(v)
                              \/ DeleteRoutePolicy(v) \/ DeleteVirtualModel(v)
  \/ \E k \in ApiKeys : \/ CreateKey(k) \/ UpdateKey(k) \/ UpdateAccess(k) \/ SetKeyEnabled(k) \/ DeleteKey(k)
                        \/ SaveLimits(k) \/ DeleteLimits(k) \/ SetLimitsEnabled(k)

CatalogSpec == CatalogInit /\ [][CatalogNext]_catalogVars
(***************************************************************************)
(* Properties.                                                             *)
(***************************************************************************)
\* What refers to something refers to something that is there, however the
\* console's edits, deletions and refreshes interleave: a route policy to its
\* virtual model and to models that exist, a model to its provider, a key to
\* virtual models, its default among them, and limits that are on to their rules.
CatalogSound ==
  /\ \A v \in LivePolicies :
       virtuals[v] = "live" /\ policies[v].candidates # {} /\ policies[v].candidates \subseteq LiveModels
  /\ \A m \in LiveModels : providers[OwnerOf[m]].stage = "live"
  /\ \A k \in ApiKeys : keys[k].stage = "live" =>
       /\ keys[k].default \subseteq keys[k].grants /\ keys[k].grants # {}
       /\ \A v \in keys[k].grants : virtuals[v] = "live"
       /\ keys[k].limitsOn => keys[k].rules

\* What a gateway would load, see loadGatewayConfigSnapshot.
Routable == {m \in LiveModels : models[m].availability = "available" /\ providers[OwnerOf[m]].enabled}
PublicRoutes == UNION {{<<v, m, models[m].price>> : m \in policies[v].candidates \cap Routable} : v \in LivePolicies}

\* The candidates that gateways would load, or their prices, change only in a
\* step that publishes a version: the refresh, which publishes nothing when no
\* model it changes was referenced, is not overtaken by a route that refers to one.
RoutesChangePublicly == [][PublicRoutes' # PublicRoutes => published']_catalogVars

\* A capability shows the operator's value exactly as long as the operator's last
\* word was one (README.md: missing values remain unknown and manual values take
\* precedence).
ManualTakesPrecedence == \A m \in LiveModels : models[m].asked <=> models[m].column = "manual"
=============================================================================
