--------------------------- MODULE Catalog_proofs ---------------------------
(***************************************************************************)
(* What Catalog guarantees for any providers, models, virtual models and   *)
(* keys: whatever edits, deletions, refreshes and price syncs interleave,  *)
(* nothing refers to what is gone, and gateways are told of every change   *)
(* of what they would load.                                                *)
(*                                                                         *)
(* Both rest on the refresh: it plans only for a provider that is there,   *)
(* keeps it there until the plan is written, and keeps the routes from     *)
(* taking up a model that its plan changes unseen.                         *)
(*                                                                         *)
(* And what ModelCatalogs guarantees for any listings, aliases, allowlist  *)
(* and lists of models: what a job makes of the public catalogs is what    *)
(* they say, in the order in which they are believed, and it rests on a    *)
(* stale payload only after its own attempt to fetch it has failed.        *)
(***************************************************************************)
EXTENDS Catalog, ModelCatalogs, FiniteSetTheorems, WellFoundedInduction, TLAPS

----------------------------------------------------------------------------
(* The invariant. *)

Row == [stage : {"none", "live", "deleted"}, availability : {"available", "unavailable", "not_listed"},
        column : Columns, synced : Said \cup {{"manual"}}, manual : BOOLEAN, asked : BOOLEAN,
        price : {"unknown", "synced", "manual"}]
KeyRow == [stage : {"none", "live", "deleted"}, enabled : BOOLEAN, grants : SUBSET VirtualModels,
           default : {{}} \cup {{v} : v \in VirtualModels}, limitsOn : BOOLEAN, rules : BOOLEAN]
Plan == [write : {"none", "insert", "available", "unavailable", "not_listed"}, manual : BOOLEAN,
         synced : Said, column : Columns]
Refresh == [pc : {"idle", "read", "planned"}, provider : SUBSET Providers, current : BOOLEAN,
            leased : BOOLEAN, plan : [Models -> Plan], visible : BOOLEAN]

\* The tables of the console, and those of the models and their refresh.
ConsoleType ==
  /\ virtuals \in [VirtualModels -> {"none", "live", "deleted"}]
  /\ policies \in [VirtualModels -> [live : BOOLEAN, agree : BOOLEAN, candidates : SUBSET Models]]
  /\ retired \subseteq Models
  /\ keys \in [ApiKeys -> KeyRow]

ModelType ==
  /\ providers \in [Providers -> [stage : {"none", "live", "deleted"}, enabled : BOOLEAN]]
  /\ models \in [Models -> Row]
  /\ refresh \in Refresh
  /\ priceJobs \subseteq Providers /\ published \in BOOLEAN

\* The three parts of CatalogSound.
RoutesSound ==
  \A v \in LivePolicies :
    virtuals[v] = "live" /\ policies[v].candidates # {} /\ policies[v].candidates \subseteq LiveModels

ModelsSound == \A m \in LiveModels : providers[OwnerOf[m]].stage = "live"

KeySound(key) ==
  key.stage = "live" =>
    /\ key.default \subseteq key.grants /\ key.grants # {}
    /\ \A v \in key.grants : virtuals[v] = "live"
    /\ key.limitsOn => key.rules

KeysSound == \A k \in ApiKeys : KeySound(keys[k])

\* A refresh that can still write has a provider that exists.
RefreshLive ==
  refresh.pc # "idle" =>
    \E p \in Providers :
      /\ refresh.provider = {p}
      /\ refresh.current \/ refresh.pc = "planned" => providers[p].stage = "live"

\* A plan is about the models of its provider; if it says nothing visible changes, it
\* leaves the models that routes refer to where they are.
PlanInv ==
  refresh.pc = "planned" =>
    /\ \A m \in Models : refresh.plan[m].write # "none" => OwnerOf[m] \in refresh.provider
    /\ ~ refresh.visible => \A m \in CandidatesOf(LivePolicies) :
         \/ refresh.plan[m].write = "none"
         \/ refresh.plan[m].write = "available" /\ models[m].availability = "available"

CatalogInv ==
  /\ ConsoleType /\ ModelType
  /\ RoutesSound /\ ModelsSound /\ KeysSound
  /\ RefreshLive /\ PlanInv

LEMMA SoundParts == CatalogSound <=> RoutesSound /\ ModelsSound /\ KeysSound
  BY DEF CatalogSound, RoutesSound, ModelsSound, KeysSound, KeySound

LEMMA TypeParts == ConsoleType /\ ModelType => CatalogTypeOK
  <1> SUFFICES ASSUME ConsoleType, ModelType PROVE CatalogTypeOK
    OBVIOUS
  <1>1. ASSUME NEW k \in ApiKeys
        PROVE  keys[k].grants \subseteq VirtualModels /\ Cardinality(keys[k].default) <= 1
    <2>1. keys[k].grants \in SUBSET VirtualModels /\ keys[k].default \in {{}} \cup {{v} : v \in VirtualModels}
      BY DEF ConsoleType, KeyRow
    <2>2. Cardinality({}) = 0 /\ \A v : Cardinality({v}) = 1
      BY FS_EmptySet, FS_Singleton
    <2>3. Cardinality(keys[k].default) \in {0, 1}
      BY <2>1, <2>2
    <2> QED BY <2>1, <2>3
  <1>2. \A m \in Models :
          /\ models[m].stage \in {"none", "live", "deleted"} /\ models[m].column \in Columns
          /\ models[m].availability \in {"available", "unavailable", "not_listed"}
          /\ models[m].synced \in Said \cup {{"manual"}} /\ models[m].price \in {"unknown", "synced", "manual"}
    BY DEF ModelType, Row
  <1>3. refresh.pc \in {"idle", "read", "planned"}
    BY DEF ModelType, Refresh
  <1> QED BY <1>1, <1>2, <1>3 DEF ConsoleType, ModelType, CatalogTypeOK

----------------------------------------------------------------------------
(* Providers. *)

\* What a refresh is, once its provider was touched.
LEMMA TouchedIs ==
  ASSUME refresh \in Refresh, NEW p, NEW t, t = Touched(p)
  PROVE  /\ t \in Refresh /\ t.pc = refresh.pc /\ t.provider = refresh.provider
         /\ t.plan = refresh.plan /\ t.visible = refresh.visible
         /\ t.current => refresh.current /\ refresh.provider # {p}
  <1>1. (refresh.current /\ refresh.provider # {p}) \in BOOLEAN
    BY Zenon
  <1>2. t = [refresh EXCEPT !.current = refresh.current /\ refresh.provider # {p}]
    BY DEF Touched
  <1> QED BY <1>1, <1>2 DEF Refresh

\* A provider that no refresh holds and no live route depends on may go, or be switched;
\* the others stay what they are.
LEMMA ProviderSteps ==
  ASSUME CatalogInv, NEW p \in Providers,
         CreateProvider(p) \/ UpdateProvider(p) \/ SetProviderEnabled(p)
  PROVE  CatalogInv'
  <1>1. UNCHANGED <<models, virtuals, policies, retired, keys, priceJobs>> /\ published' = TRUE
    BY DEF CreateProvider, UpdateProvider, SetProviderEnabled
  <1>2. refresh' = refresh \/ refresh' = Touched(p)
    BY DEF CreateProvider, UpdateProvider, SetProviderEnabled
  <1>3. /\ refresh' \in Refresh /\ refresh'.pc = refresh.pc /\ refresh'.provider = refresh.provider
        /\ refresh'.plan = refresh.plan /\ refresh'.visible = refresh.visible
        /\ refresh'.current => refresh.current
    BY <1>2, TouchedIs DEF CatalogInv, ModelType
  <1>4. /\ providers' \in [Providers -> [stage : {"none", "live", "deleted"}, enabled : BOOLEAN]]
        /\ \A x \in Providers : providers[x].stage = "live" => providers'[x].stage = "live"
    <2>1. providers \in [Providers -> [stage : {"none", "live", "deleted"}, enabled : BOOLEAN]]
      BY DEF CatalogInv, ModelType
    <2>2. CASE CreateProvider(p)
      <3>1. providers' = [providers EXCEPT ![p] = [stage |-> "live", enabled |-> TRUE]]
        BY <2>2 DEF CreateProvider
      <3> QED BY <2>1, <3>1
    <2>3. CASE UpdateProvider(p)
      BY <2>1, <2>3 DEF UpdateProvider
    <2>4. CASE SetProviderEnabled(p)
      <3>1. PICK enabled \in BOOLEAN : providers' = [providers EXCEPT ![p].enabled = enabled]
        BY <2>4 DEF SetProviderEnabled
      <3> QED BY <2>1, <3>1
    <2> QED BY <2>2, <2>3, <2>4
  <1>5. ConsoleType' /\ ModelType'
    BY <1>1, <1>3, <1>4 DEF CatalogInv, ConsoleType, ModelType
  <1>6. LiveModels' = LiveModels /\ LivePolicies' = LivePolicies
    BY <1>1 DEF LiveModels, LivePolicies
  <1>7. RoutesSound' /\ KeysSound'
    BY <1>1, <1>6 DEF CatalogInv, RoutesSound, KeysSound, KeySound
  <1>8. ModelsSound'
    BY <1>4, <1>6, CatalogAssumption DEF CatalogInv, ModelsSound, LiveModels
  <1>9. RefreshLive'
    BY <1>3, <1>4 DEF CatalogInv, RefreshLive
  <1>10. PlanInv'
    BY <1>1, <1>3, <1>6 DEF CatalogInv, PlanInv, CandidatesOf
  <1> QED BY <1>5, <1>7, <1>8, <1>9, <1>10 DEF CatalogInv

LEMMA DeleteProviderStep ==
  ASSUME CatalogInv, NEW p \in Providers, DeleteProvider(p)
  PROVE  CatalogInv'
  <1>1. /\ providers' = [providers EXCEPT ![p] = [stage |-> "deleted", enabled |-> FALSE]]
        /\ models' = [m \in Models |-> IF OwnerOf[m] = p /\ models[m].stage = "live"
                                       THEN [models[m] EXCEPT !.stage = "deleted"] ELSE models[m]]
        /\ refresh' = Touched(p) /\ published' = TRUE
        /\ UNCHANGED <<virtuals, policies, retired, keys, priceJobs>>
    BY DEF DeleteProvider
  <1>2. /\ refresh' \in Refresh /\ refresh'.pc = refresh.pc /\ refresh'.provider = refresh.provider
        /\ refresh'.plan = refresh.plan /\ refresh'.visible = refresh.visible
        /\ refresh'.current => refresh.current /\ refresh.provider # {p}
    BY <1>1, TouchedIs DEF CatalogInv, ModelType
  <1>3. /\ providers' \in [Providers -> [stage : {"none", "live", "deleted"}, enabled : BOOLEAN]]
        /\ \A x \in Providers : x # p => providers'[x] = providers[x]
    BY <1>1 DEF CatalogInv, ModelType
  <1>4. ASSUME NEW m \in Models
        PROVE  /\ models'[m] \in Row /\ models'[m].availability = models[m].availability
               /\ models'[m].stage = "live" <=> models[m].stage = "live" /\ OwnerOf[m] # p
    <2>1. models[m] \in Row
      BY DEF CatalogInv, ModelType
    <2>2. models'[m] = IF OwnerOf[m] = p /\ models[m].stage = "live"
                       THEN [models[m] EXCEPT !.stage = "deleted"] ELSE models[m]
      BY <1>1
    <2> QED BY <2>1, <2>2 DEF Row
  <1>5. models' \in [Models -> Row]
    <2>1. models' = [m \in Models |-> models'[m]]
      BY <1>1
    <2> QED BY <1>4, <2>1
  <1>6. ConsoleType' /\ ModelType'
    BY <1>1, <1>2, <1>3, <1>5 DEF CatalogInv, ConsoleType, ModelType
  <1>7. LivePolicies' = LivePolicies /\ LiveModels' = {m \in LiveModels : OwnerOf[m] # p}
    BY <1>1, <1>4 DEF LiveModels, LivePolicies
  <1>8. ASSUME NEW v \in LivePolicies PROVE policies[v].candidates \subseteq LiveModels'
    <2>1. policies[v].candidates \subseteq LiveModels
      BY DEF CatalogInv, RoutesSound
    <2>2. \A m \in policies[v].candidates : OwnerOf[m] # p
      BY <2>1 DEF DeleteProvider, Depended, CandidatesOf, LiveModels
    <2> QED BY <1>7, <2>1, <2>2
  <1>9. RoutesSound'
    BY <1>1, <1>7, <1>8 DEF CatalogInv, RoutesSound
  <1>10. KeysSound'
    BY <1>1 DEF CatalogInv, KeysSound, KeySound
  <1>11. ModelsSound'
    BY <1>3, <1>7, CatalogAssumption DEF CatalogInv, ModelsSound, LiveModels
  <1>12. RefreshLive'
    <2> SUFFICES ASSUME refresh'.pc # "idle"
                 PROVE  \E x \in Providers :
                          /\ refresh'.provider = {x}
                          /\ refresh'.current \/ refresh'.pc = "planned" => providers'[x].stage = "live"
      BY DEF RefreshLive
    <2>1. PICK x \in Providers :
            /\ refresh.provider = {x}
            /\ refresh.current \/ refresh.pc = "planned" => providers[x].stage = "live"
      BY <1>2 DEF CatalogInv, RefreshLive
    <2>2. ~ (refresh.pc = "planned" /\ x = p)
      BY <2>1 DEF DeleteProvider, ProviderFree
    <2> QED BY <1>2, <1>3, <2>1, <2>2
  <1>13. PlanInv'
    <2>1. CandidatesOf(LivePolicies)' = CandidatesOf(LivePolicies)
      BY <1>1, <1>7 DEF CandidatesOf
    <2>2. CandidatesOf(LivePolicies) \subseteq Models
      BY DEF CatalogInv, ConsoleType, CandidatesOf, LivePolicies
    <2> QED BY <1>2, <1>4, <2>1, <2>2 DEF CatalogInv, PlanInv
  <1> QED BY <1>6, <1>9, <1>10, <1>11, <1>12, <1>13 DEF CatalogInv


----------------------------------------------------------------------------
(* Overrides and prices: neither moves a model in or out of the catalog. *)

LEMMA SameRows ==
  ASSUME CatalogInv, UNCHANGED <<providers, virtuals, policies, retired, keys, refresh>>,
         priceJobs' \subseteq Providers, published' \in BOOLEAN, models' \in [Models -> Row],
         \A m \in Models : models'[m].stage = models[m].stage /\ models'[m].availability = models[m].availability
  PROVE  CatalogInv'
  <1>1. ConsoleType' /\ ModelType'
    BY DEF CatalogInv, ConsoleType, ModelType
  <1>2. LiveModels' = LiveModels /\ LivePolicies' = LivePolicies
    BY DEF LiveModels, LivePolicies
  <1>3. CandidatesOf(LivePolicies)' = CandidatesOf(LivePolicies) /\ CandidatesOf(LivePolicies) \subseteq Models
    BY <1>2 DEF CatalogInv, ConsoleType, CandidatesOf, LivePolicies
  <1>4. RoutesSound' /\ ModelsSound' /\ KeysSound' /\ RefreshLive'
    BY <1>2 DEF CatalogInv, RoutesSound, ModelsSound, KeysSound, KeySound, RefreshLive
  <1>5. PlanInv'
    BY <1>3 DEF CatalogInv, PlanInv
  <1> QED BY <1>1, <1>4, <1>5 DEF CatalogInv

\* The effective value is one the column can hold.
LEMMA EffectiveColumn ==
  ASSUME NEW manual \in BOOLEAN, NEW synced \in Said \cup {{"manual"}}
  PROVE  Effective(manual, synced) \in Columns
  BY DEF Effective, Said, Columns

LEMMA ModelSteps ==
  ASSUME CatalogInv, NEW m \in Models, OverrideCapabilities(m) \/ OverridePrice(m)
  PROVE  CatalogInv'
  <1>1. models[m] \in Row /\ models \in [Models -> Row] /\ priceJobs \subseteq Providers
    BY DEF CatalogInv, ModelType
  <1>2. /\ UNCHANGED <<providers, virtuals, policies, retired, keys, refresh>>
        /\ priceJobs' \subseteq Providers /\ published' \in BOOLEAN
    BY <1>1 DEF OverrideCapabilities, OverridePrice
  <1>3. \E row \in Row : /\ row.stage = models[m].stage /\ row.availability = models[m].availability
                         /\ models' = [models EXCEPT ![m] = row]
    <2>1. CASE OverrideCapabilities(m)
      <3> DEFINE synced == IF models[m].synced # {} THEN models[m].synced ELSE {models[m].column}
      <3>1. PICK manual \in BOOLEAN :
              models' = [models EXCEPT ![m] =
                [models[m] EXCEPT !.manual = manual, !.asked = manual, !.synced = synced,
                                  !.column = Effective(manual, synced)]]
        BY <2>1 DEF OverrideCapabilities
      <3>2. synced \in Said \cup {{"manual"}}
        BY <1>1 DEF Row, Said, Columns
      <3>3. Effective(manual, synced) \in Columns
        BY <3>2, EffectiveColumn
      <3> HIDE DEF synced
      <3> DEFINE row == [models[m] EXCEPT !.manual = manual, !.asked = manual, !.synced = synced,
                                          !.column = Effective(manual, synced)]
      <3>4. row \in Row /\ row.stage = models[m].stage /\ row.availability = models[m].availability
        BY <1>1, <3>2, <3>3 DEF Row
      <3> QED BY <3>1, <3>4
    <2>2. CASE OverridePrice(m)
      <3> DEFINE row == [models[m] EXCEPT !.price = "manual"]
      <3>1. row \in Row /\ row.stage = models[m].stage /\ row.availability = models[m].availability
        BY <1>1 DEF Row
      <3>2. models' = [models EXCEPT ![m] = row]
        BY <1>1, <2>2 DEF OverridePrice
      <3> QED BY <3>1, <3>2
    <2> QED BY <2>1, <2>2
  <1>4. /\ models' \in [Models -> Row]
        /\ \A x \in Models : models'[x].stage = models[x].stage /\ models'[x].availability = models[x].availability
    BY <1>1, <1>3
  <1> QED BY <1>2, <1>4, SameRows

LEMMA PriceStep ==
  ASSUME CatalogInv, SyncPrices
  PROVE  CatalogInv'
  <1>1. PICK known \in SUBSET (Priced \cap LiveModels) :
          models' = [m \in Models |->
            IF m \in known /\ models[m].price = "unknown" THEN [models[m] EXCEPT !.price = "synced"] ELSE models[m]]
    BY DEF SyncPrices
  <1>2. /\ UNCHANGED <<providers, virtuals, policies, retired, keys, refresh>>
        /\ priceJobs' \subseteq Providers /\ published' \in BOOLEAN
    BY DEF CatalogInv, ModelType, SyncPrices
  <1>3. ASSUME NEW m \in Models
        PROVE  models'[m] \in Row /\ models'[m].stage = models[m].stage /\ models'[m].availability = models[m].availability
    <2>1. models[m] \in Row
      BY DEF CatalogInv, ModelType
    <2>2. models'[m] = models[m] \/ models'[m] = [models[m] EXCEPT !.price = "synced"]
      BY <1>1
    <2> QED BY <2>1, <2>2 DEF Row
  <1>4. models' \in [Models -> Row]
    <2>1. models' = [m \in Models |-> models'[m]]
      BY <1>1
    <2> QED BY <1>3, <2>1
  <1> QED BY <1>2, <1>3, <1>4, SameRows

----------------------------------------------------------------------------
(* The refresh, until it writes. *)

\* A step that only moves the refresh.
LEMMA SameCatalog ==
  ASSUME CatalogInv, UNCHANGED <<providers, models, virtuals, policies, retired, keys>>,
         priceJobs' \subseteq Providers, published' \in BOOLEAN, refresh' \in Refresh,
         RefreshLive', PlanInv'
  PROVE  CatalogInv'
  <1>1. ConsoleType' /\ ModelType'
    BY DEF CatalogInv, ConsoleType, ModelType
  <1>2. LiveModels' = LiveModels /\ LivePolicies' = LivePolicies
    BY DEF LiveModels, LivePolicies
  <1>3. RoutesSound' /\ ModelsSound' /\ KeysSound'
    BY <1>2 DEF CatalogInv, RoutesSound, ModelsSound, KeysSound, KeySound
  <1> QED BY <1>1, <1>3 DEF CatalogInv

LEMMA NoRefreshType ==
  /\ NoRefresh \in Refresh /\ NoRefresh.pc = "idle"
  /\ NoPlan \in [Models -> Plan] /\ \A m \in Models : NoPlan[m].write = "none"
  BY DEF NoRefresh, NoPlan, Refresh, Plan, Said, Columns

LEMMA RefreshSteps ==
  ASSUME CatalogInv, LoseRefreshLease \/ RefreshFails \/ \E p \in Providers : ReadForRefresh(p)
  PROVE  CatalogInv'
  <1>1. /\ UNCHANGED <<providers, models, virtuals, policies, retired, keys>>
        /\ priceJobs' \subseteq Providers /\ published' \in BOOLEAN
    BY DEF CatalogInv, ModelType, LoseRefreshLease, RefreshFails, ReadForRefresh
  <1>2. refresh \in Refresh
    BY DEF CatalogInv, ModelType
  <1>3. CASE LoseRefreshLease
    <2>1. refresh' = [refresh EXCEPT !.leased = FALSE]
      BY <1>3 DEF LoseRefreshLease
    <2>2. /\ refresh' \in Refresh /\ refresh'.pc = refresh.pc /\ refresh'.provider = refresh.provider
          /\ refresh'.current = refresh.current /\ refresh'.plan = refresh.plan /\ refresh'.visible = refresh.visible
      BY <1>2, <2>1 DEF Refresh
    <2>3. RefreshLive'
      BY <1>1, <2>2 DEF CatalogInv, RefreshLive
    <2>4. PlanInv'
      BY <1>1, <2>2 DEF CatalogInv, PlanInv, CandidatesOf, LivePolicies
    <2> QED BY <1>1, <2>2, <2>3, <2>4, SameCatalog
  <1>4. CASE RefreshFails
    <2>1. refresh' \in Refresh /\ refresh'.pc = "idle"
      BY <1>4, NoRefreshType DEF RefreshFails
    <2>2. RefreshLive' /\ PlanInv'
      BY <2>1 DEF RefreshLive, PlanInv
    <2> QED BY <1>1, <2>1, <2>2, SameCatalog
  <1>5. CASE \E p \in Providers : ReadForRefresh(p)
    <2>1. PICK p \in Providers : ReadForRefresh(p)
      BY <1>5
    <2>2. refresh' = [NoRefresh EXCEPT !.pc = "read", !.provider = {p}, !.current = TRUE, !.leased = TRUE]
      BY <2>1 DEF ReadForRefresh
    <2>3. refresh' \in Refresh /\ refresh'.pc = "read" /\ refresh'.provider = {p}
      BY <2>2, NoRefreshType DEF Refresh
    <2>4. providers'[p].stage = "live"
      BY <1>1, <2>1 DEF ReadForRefresh
    <2>5. RefreshLive' /\ PlanInv'
      BY <2>3, <2>4 DEF RefreshLive, PlanInv
    <2> QED BY <1>1, <2>3, <2>5, SameCatalog
  <1> QED BY <1>3, <1>4, <1>5

\* What is planned for a model is a write of its row; one that exists and is referred
\* to is neither inserted nor dropped from the list.
LEMMA PlannedIs ==
  ASSUME CatalogInv, NEW m \in Models, NEW listed, NEW stated \in Said, NEW touched, NEW renamed
  PROVE  /\ Planned(m, listed, stated, touched, renamed) \in Plan
         /\ models[m].stage = "live" /\ Referenced(m) =>
              Planned(m, listed, stated, touched, renamed).write \in {"none", "available", "unavailable"}
  <1>1. models[m] \in Row
    BY DEF CatalogInv, ModelType
  <1>2. Effective(FALSE, stated) \in Columns /\ Effective(models[m].manual, stated) \in Columns
    BY <1>1, EffectiveColumn DEF Row
  <1>3. models[m].manual \in BOOLEAN /\ {} \in Said /\ "unknown" \in Columns
    BY <1>1 DEF Row, Said, Columns
  <1> QED BY <1>2, <1>3 DEF Planned, Plan

LEMMA PlanStep ==
  ASSUME CatalogInv, PlanRefresh
  PROVE  CatalogInv'
  <1>1. PICK p \in refresh.provider :
          LET owned == {m \in Models : OwnerOf[m] = p}
          IN \E listed, touched, renamed \in SUBSET owned :
               \E stated \in [listed -> Statements] :
                 LET said(m) == IF m \in listed THEN stated[m] ELSE {}
                     plan == [m \in Models |-> IF m \in owned THEN Planned(m, listed, said(m), touched, renamed)
                                                              ELSE NoPlan[m]]
                 IN /\ touched \cup renamed \subseteq listed
                    /\ refresh' = [refresh EXCEPT !.pc = "planned", !.plan = plan,
                         !.visible = \E m \in owned : Visible(m, plan, said(m), touched)]
    BY DEF PlanRefresh
  <1> DEFINE owned == {m \in Models : OwnerOf[m] = p}
  <1>sets. PICK listed \in SUBSET owned, touched \in SUBSET owned, renamed \in SUBSET owned :
          \E stated \in [listed -> Statements] :
            LET said(m) == IF m \in listed THEN stated[m] ELSE {}
                plan == [m \in Models |-> IF m \in owned THEN Planned(m, listed, said(m), touched, renamed)
                                                         ELSE NoPlan[m]]
            IN /\ touched \cup renamed \subseteq listed
               /\ refresh' = [refresh EXCEPT !.pc = "planned", !.plan = plan,
                    !.visible = \E m \in owned : Visible(m, plan, said(m), touched)]
    BY <1>1
  <1>2. PICK stated \in [listed -> Statements] :
          LET said(m) == IF m \in listed THEN stated[m] ELSE {}
              plan == [m \in Models |-> IF m \in owned THEN Planned(m, listed, said(m), touched, renamed)
                                                       ELSE NoPlan[m]]
          IN /\ touched \cup renamed \subseteq listed
             /\ refresh' = [refresh EXCEPT !.pc = "planned", !.plan = plan,
                  !.visible = \E m \in owned : Visible(m, plan, said(m), touched)]
    BY <1>sets
  <1> DEFINE said(m) == IF m \in listed THEN stated[m] ELSE {}
             plan == [m \in Models |-> IF m \in owned THEN Planned(m, listed, said(m), touched, renamed)
                                                      ELSE NoPlan[m]]
             visible == \E m \in owned : Visible(m, plan, said(m), touched)
  <1>3. refresh' = [refresh EXCEPT !.pc = "planned", !.plan = plan, !.visible = visible]
    BY <1>2
  <1>4. /\ refresh \in Refresh /\ refresh.pc = "read" /\ refresh.current
        /\ UNCHANGED <<providers, models, virtuals, policies, retired, keys>>
        /\ priceJobs' \subseteq Providers /\ published' \in BOOLEAN
    BY DEF CatalogInv, ModelType, PlanRefresh, StillCurrent
  <1>5. \A m \in Models : said(m) \in Said
    BY CatalogAssumption DEF Said
  <1>6. plan \in [Models -> Plan]
    <2> HIDE DEF owned, said
    <2> QED BY <1>5, PlannedIs, NoRefreshType
  <1>7. visible \in BOOLEAN
    BY Zenon
  <1>8. refresh' \in Refresh /\ refresh'.pc = "planned" /\ refresh'.provider = refresh.provider
        /\ refresh'.plan = plan /\ refresh'.visible = visible
    <2> HIDE DEF plan, visible
    <2> QED BY <1>3, <1>4, <1>6, <1>7 DEF Refresh
  <1>9. RefreshLive'
    BY <1>4, <1>8 DEF CatalogInv, RefreshLive
  <1>10. ASSUME NEW m \in Models, plan[m].write # "none" PROVE OwnerOf[m] \in refresh'.provider
    <2> HIDE DEF said
    <2>1. m \in owned
      BY <1>10, NoRefreshType
    <2> QED BY <1>8, <2>1
  <1>11. ASSUME ~ visible, NEW m \in CandidatesOf(LivePolicies)
         PROVE  \/ plan[m].write = "none"
                \/ plan[m].write = "available" /\ models[m].availability = "available"
    <2>1. m \in Models /\ models[m].stage = "live" /\ Referenced(m)
      BY DEF CatalogInv, RoutesSound, CandidatesOf, LiveModels, Referenced
    <2>2. CASE m \notin owned
      <3> HIDE DEF owned, said
      <3> QED BY <2>1, <2>2, NoRefreshType
    <2>3. CASE m \in owned
      <3>1. ~ Visible(m, plan, said(m), touched)
        <4> HIDE DEF plan, said, owned
        <4> QED BY <1>11, <2>3
      <3>2. plan[m].write \in {"none", "available", "unavailable"}
        <4> HIDE DEF said, owned
        <4> QED BY <1>5, <2>1, <2>3, PlannedIs
      <3> HIDE DEF plan, said, owned
      <3> QED BY <2>1, <3>1, <3>2 DEF Visible
    <2> QED BY <2>2, <2>3
  <1>12. PlanInv'
    <2>1. CandidatesOf(LivePolicies)' = CandidatesOf(LivePolicies)
      BY <1>4 DEF CandidatesOf, LivePolicies
    <2> HIDE DEF plan, visible
    <2> QED BY <1>4, <1>8, <1>10, <1>11, <2>1 DEF PlanInv
  <1> QED BY <1>4, <1>8, <1>9, <1>12, SameCatalog

----------------------------------------------------------------------------
(* The plan is written. *)

LEMMA WrittenIs ==
  ASSUME NEW row \in Row, NEW plan \in Plan
  PROVE  /\ Written(row, plan) \in Row
         /\ Written(row, plan).stage = (IF row.stage = "none" THEN "live" ELSE row.stage)
         /\ Written(row, plan).availability = "available"
         /\ Written(row, plan).price = row.price
  <1>1. (row.manual \/ plan.manual) \in BOOLEAN
    BY DEF Row, Plan
  <1>2. (IF plan.synced # {} \/ plan.manual \/ row.stage # "live" THEN plan.column ELSE row.column) \in Columns
    BY DEF Row, Plan
  <1>3. plan.synced \in Said
    BY DEF Plan
  <1> QED BY <1>1, <1>2, <1>3 DEF Row, Written

\* What a plan does to a row: it may come to exist if its provider holds the refresh; a
\* row that is there keeps its price, and stays what routing sees of it if nothing
\* visible was planned.
LEMMA Applied ==
  ASSUME CatalogInv, ApplyRefresh, NEW m \in Models
  PROVE  /\ models'[m] \in Row /\ models'[m].price = models[m].price
         /\ models[m].stage # "none" => models'[m].stage = models[m].stage
         /\ models[m].stage = "none" /\ models'[m].stage = "live" => OwnerOf[m] \in refresh.provider
         /\ ~ refresh.visible /\ m \in CandidatesOf(LivePolicies) =>
              models'[m].availability = models[m].availability
  <1> DEFINE plan == refresh.plan[m]
  <1>1. models[m] \in Row /\ plan \in Plan /\ refresh.pc = "planned"
    BY DEF CatalogInv, ModelType, Refresh, ApplyRefresh
  <1>2. models'[m] = CASE plan.write = "none" -> models[m]
                       [] plan.write \in {"insert", "available"} -> Written(models[m], plan)
                       [] OTHER -> [models[m] EXCEPT !.availability = plan.write]
    BY DEF ApplyRefresh
  <1>3. plan.write # "none" => OwnerOf[m] \in refresh.provider
    BY <1>1 DEF CatalogInv, PlanInv
  <1>4. ~ refresh.visible /\ m \in CandidatesOf(LivePolicies) =>
          plan.write = "none" \/ (plan.write = "available" /\ models[m].availability = "available")
    BY <1>1 DEF CatalogInv, PlanInv
  <1> HIDE DEF plan
  <1>5. CASE plan.write = "none"
    BY <1>1, <1>2, <1>5
  <1>6. CASE plan.write \in {"insert", "available"}
    <2>1. models'[m] = Written(models[m], plan)
      BY <1>2, <1>6
    <2> QED BY <1>1, <1>3, <1>4, <1>6, <2>1, WrittenIs DEF Row
  <1>7. CASE plan.write \in {"unavailable", "not_listed"}
    <2>1. models'[m] = [models[m] EXCEPT !.availability = plan.write]
      BY <1>2, <1>7
    <2> QED BY <1>1, <1>3, <1>4, <1>7, <2>1 DEF Row
  <1> QED BY <1>1, <1>5, <1>6, <1>7 DEF Plan

LEMMA ApplyStep ==
  ASSUME CatalogInv, ApplyRefresh
  PROVE  CatalogInv'
  <1>1. /\ UNCHANGED <<providers, virtuals, policies, retired, keys>>
        /\ refresh' = NoRefresh /\ published' = refresh.visible /\ refresh.pc = "planned"
        /\ priceJobs' = priceJobs \cup refresh.provider
    BY DEF ApplyRefresh, AsksForPrices
  <1>2. refresh \in Refresh
    BY DEF CatalogInv, ModelType
  <1>3. models' \in [Models -> Row]
    <2>1. models' = [m \in Models |-> models'[m]]
      BY DEF ApplyRefresh
    <2> QED BY <2>1, Applied
  <1>4. ConsoleType' /\ ModelType'
    <2>1. refresh.visible \in BOOLEAN /\ refresh.provider \subseteq Providers
      BY <1>2 DEF Refresh
    <2> QED BY <1>1, <1>3, <2>1, NoRefreshType DEF CatalogInv, ConsoleType, ModelType
  <1>5. LivePolicies' = LivePolicies /\ LiveModels \subseteq LiveModels'
    BY <1>1, Applied DEF LiveModels, LivePolicies
  <1>6. RoutesSound' /\ KeysSound'
    BY <1>1, <1>5 DEF CatalogInv, RoutesSound, KeysSound, KeySound
  <1>7. ModelsSound'
    <2>1. ASSUME NEW m \in LiveModels' PROVE providers[OwnerOf[m]].stage = "live"
      <3>1. m \in Models /\ models'[m].stage = "live" /\ models[m] \in Row
        BY DEF CatalogInv, ModelType, LiveModels
      <3>2. CASE models[m].stage = "none"
        <4>1. OwnerOf[m] \in refresh.provider
          BY <3>1, <3>2, Applied
        <4> QED BY <1>1, <4>1 DEF CatalogInv, RefreshLive
      <3>3. CASE models[m].stage # "none"
        <4>1. m \in LiveModels
          BY <3>1, <3>3, Applied DEF LiveModels
        <4> QED BY <4>1 DEF CatalogInv, ModelsSound
      <3> QED BY <3>2, <3>3
    <2> QED BY <1>1, <2>1 DEF ModelsSound
  <1>8. RefreshLive' /\ PlanInv'
    BY <1>1, NoRefreshType DEF RefreshLive, PlanInv
  <1> QED BY <1>4, <1>6, <1>7, <1>8 DEF CatalogInv

----------------------------------------------------------------------------
(* Virtual models, routes and keys. *)

\* What a step of the console that leaves providers and models alone has to keep.
LEMMA ConsoleKept ==
  ASSUME CatalogInv, UNCHANGED <<providers, models, refresh, priceJobs>>, published' \in BOOLEAN,
         ConsoleType', RoutesSound', KeysSound',
         refresh.pc = "planned" =>
           \A m \in CandidatesOf(LivePolicies)' \ CandidatesOf(LivePolicies) : OwnerOf[m] \notin refresh.provider
  PROVE  CatalogInv'
  <1>1. ModelType' /\ RefreshLive'
    BY DEF CatalogInv, ModelType, RefreshLive
  <1>2. ModelsSound'
    BY DEF CatalogInv, ModelsSound, LiveModels
  <1>3. PlanInv'
    <2>1. CandidatesOf(LivePolicies)' \subseteq Models
      BY DEF ConsoleType, CandidatesOf, LivePolicies
    <2> QED BY <2>1 DEF CatalogInv, PlanInv
  <1> QED BY <1>1, <1>2, <1>3 DEF CatalogInv

\* A route that is written refers to models that are there, of providers no plan holds.
LEMMA RouteWritten ==
  ASSUME CatalogInv, NEW v \in VirtualModels, WritesRoute(v), UNCHANGED <<models, keys>>,
         virtuals'[v] = "live", \A x \in VirtualModels : x # v => virtuals'[x] = virtuals[x],
         virtuals' \in [VirtualModels -> {"none", "live", "deleted"}], UNCHANGED retired
  PROVE  /\ ConsoleType' /\ RoutesSound'
         /\ refresh.pc = "planned" =>
              \A m \in CandidatesOf(LivePolicies)' \ CandidatesOf(LivePolicies) : OwnerOf[m] \notin refresh.provider
  <1>1. PICK agree \in BOOLEAN, candidates \in SUBSET Models :
          /\ RouteLocks(candidates) /\ RouteAccepted(agree, candidates)
          /\ policies' = [policies EXCEPT ![v] = [live |-> TRUE, agree |-> agree, candidates |-> candidates]]
    BY DEF WritesRoute
  <1>2. policies \in [VirtualModels -> [live : BOOLEAN, agree : BOOLEAN, candidates : SUBSET Models]]
    BY DEF CatalogInv, ConsoleType
  <1>3. /\ policies' \in [VirtualModels -> [live : BOOLEAN, agree : BOOLEAN, candidates : SUBSET Models]]
        /\ policies'[v].candidates = candidates /\ policies'[v].live
        /\ \A x \in VirtualModels : x # v => policies'[x] = policies[x]
    BY <1>1, <1>2
  <1>4. ConsoleType'
    BY <1>3 DEF CatalogInv, ConsoleType
  <1>5. candidates # {} /\ candidates \subseteq LiveModels
    BY <1>1 DEF RouteAccepted
  <1>6. ASSUME NEW x \in LivePolicies'
        PROVE  virtuals'[x] = "live" /\ policies'[x].candidates # {} /\ policies'[x].candidates \subseteq LiveModels'
    <2>1. x \in VirtualModels /\ policies'[x].live /\ LiveModels' = LiveModels
      BY DEF LivePolicies, LiveModels
    <2>2. CASE x = v
      BY <1>3, <1>5, <2>1, <2>2
    <2>3. CASE x # v
      <3>1. x \in LivePolicies
        BY <1>3, <2>1, <2>3 DEF LivePolicies
      <3> QED BY <1>3, <2>1, <2>3, <3>1 DEF CatalogInv, RoutesSound
    <2> QED BY <2>2, <2>3
  <1>7. RoutesSound'
    BY <1>6 DEF RoutesSound
  <1>8. ASSUME refresh.pc = "planned", NEW m \in CandidatesOf(LivePolicies)' \ CandidatesOf(LivePolicies)
        PROVE  OwnerOf[m] \notin refresh.provider
    <2>1. PICK x \in VirtualModels : policies'[x].live /\ m \in policies'[x].candidates
      BY DEF CandidatesOf, LivePolicies
    <2>2. x = v
      BY <1>3, <2>1 DEF CandidatesOf, LivePolicies
    <2>3. m \in candidates
      BY <1>3, <2>1, <2>2
    <2>4. refresh.provider # {OwnerOf[m]}
      BY <1>1, <1>8, <2>3 DEF RouteLocks, ProviderFree
    <2> QED BY <1>8, <2>4 DEF CatalogInv, RefreshLive
  <1> QED BY <1>4, <1>7, <1>8

LEMMA KeysKept ==
  ASSUME KeysSound, UNCHANGED keys, \A v \in VirtualModels : virtuals[v] = "live" => virtuals'[v] = "live",
         ConsoleType
  PROVE  KeysSound'
  BY DEF KeysSound, KeySound, ConsoleType, KeyRow

LEMMA RouteSteps ==
  ASSUME CatalogInv, NEW v \in VirtualModels,
         CreateVirtualModelWithRoute(v) \/ SaveRoute(v) \/ UpdateVirtualModelWithRoute(v)
  PROVE  CatalogInv'
  <1>1. /\ UNCHANGED <<providers, models, retired, keys, refresh, priceJobs>> /\ published' = TRUE
        /\ WritesRoute(v) \/ UNCHANGED <<policies, virtuals>>
    BY DEF CreateVirtualModelWithRoute, SaveRoute, UpdateVirtualModelWithRoute
  <1>2. virtuals \in [VirtualModels -> {"none", "live", "deleted"}]
    BY DEF CatalogInv, ConsoleType
  <1>3. /\ virtuals' \in [VirtualModels -> {"none", "live", "deleted"}] /\ virtuals'[v] = "live"
        /\ \A x \in VirtualModels : x # v => virtuals'[x] = virtuals[x]
    BY <1>2 DEF CreateVirtualModelWithRoute, SaveRoute, UpdateVirtualModelWithRoute
  <1>4. KeysSound'
    BY <1>1, <1>3, KeysKept DEF CatalogInv
  <1>5. CASE WritesRoute(v)
    <2>1. /\ ConsoleType' /\ RoutesSound'
          /\ refresh.pc = "planned" =>
               \A m \in CandidatesOf(LivePolicies)' \ CandidatesOf(LivePolicies) : OwnerOf[m] \notin refresh.provider
      BY <1>1, <1>3, <1>5, RouteWritten
    <2> QED BY <1>1, <1>4, <2>1, ConsoleKept
  <1>6. CASE UNCHANGED <<policies, virtuals>>
    <2>1. LivePolicies' = LivePolicies /\ LiveModels' = LiveModels
      BY <1>1, <1>6 DEF LivePolicies, LiveModels
    <2>2. ConsoleType' /\ RoutesSound' /\ CandidatesOf(LivePolicies)' = CandidatesOf(LivePolicies)
      BY <1>1, <1>6, <2>1 DEF CatalogInv, ConsoleType, RoutesSound, CandidatesOf
    <2> QED BY <1>1, <1>4, <2>2, ConsoleKept
  <1> QED BY <1>1, <1>5, <1>6

\* A route goes, with its virtual model or without.
LEMMA RouteGone ==
  ASSUME CatalogInv, NEW v \in VirtualModels, DeleteRoutePolicy(v) \/ DeleteVirtualModel(v)
  PROVE  CatalogInv'
  <1>1. /\ UNCHANGED <<providers, models, keys, refresh, priceJobs>> /\ published' = TRUE
        /\ policies' = [policies EXCEPT ![v] = NoPolicy] /\ retired' = retired \cup policies[v].candidates
    BY DEF DeleteRoutePolicy, DeleteVirtualModel
  <1>2. /\ virtuals \in [VirtualModels -> {"none", "live", "deleted"}]
        /\ policies \in [VirtualModels -> [live : BOOLEAN, agree : BOOLEAN, candidates : SUBSET Models]]
    BY DEF CatalogInv, ConsoleType
  <1>3. /\ virtuals' \in [VirtualModels -> {"none", "live", "deleted"}]
        /\ \A x \in VirtualModels : x # v => virtuals'[x] = virtuals[x]
        /\ virtuals'[v] = virtuals[v] \/ ~ Granted(v)
    BY <1>2 DEF DeleteRoutePolicy, DeleteVirtualModel
  <1>4. /\ policies' \in [VirtualModels -> [live : BOOLEAN, agree : BOOLEAN, candidates : SUBSET Models]]
        /\ ~ policies'[v].live /\ \A x \in VirtualModels : x # v => policies'[x] = policies[x]
    BY <1>1, <1>2 DEF NoPolicy
  <1>5. ConsoleType'
    <2>1. policies[v].candidates \subseteq Models
      BY <1>2
    <2> QED BY <1>1, <1>3, <1>4, <2>1 DEF CatalogInv, ConsoleType
  <1>6. LivePolicies' = LivePolicies \ {v} /\ LiveModels' = LiveModels
    BY <1>1, <1>4 DEF LivePolicies, LiveModels
  <1>7. \A x \in LivePolicies' : policies'[x] = policies[x] /\ virtuals'[x] = virtuals[x] /\ x \in LivePolicies
    BY <1>3, <1>4, <1>6 DEF LivePolicies
  <1>8. RoutesSound'
    BY <1>6, <1>7 DEF CatalogInv, RoutesSound
  <1>9. CandidatesOf(LivePolicies)' \subseteq CandidatesOf(LivePolicies)
    BY <1>7 DEF CandidatesOf
  <1>10. KeysSound'
    <2>1. ASSUME NEW k \in ApiKeys, keys[k].stage = "live", NEW x \in keys[k].grants
          PROVE  virtuals'[x] = "live"
      <3>1. x \in VirtualModels /\ virtuals[x] = "live"
        BY <2>1 DEF CatalogInv, KeysSound, KeySound, ConsoleType, KeyRow
      <3>2. x = v => Granted(v)
        BY <2>1 DEF Granted
      <3> QED BY <1>3, <3>1, <3>2
    <2> QED BY <1>1, <2>1 DEF CatalogInv, KeysSound, KeySound
  <1> QED BY <1>1, <1>5, <1>8, <1>9, <1>10, ConsoleKept

KeyAction(k) ==
  \/ CreateKey(k) \/ UpdateKey(k) \/ UpdateAccess(k) \/ SetKeyEnabled(k) \/ DeleteKey(k)
  \/ SaveLimits(k) \/ DeleteLimits(k) \/ SetLimitsEnabled(k)

\* Whatever is done to a key, it refers to what is there.
LEMMA KeyBecomes ==
  ASSUME CatalogInv, NEW k \in ApiKeys, KeyAction(k)
  PROVE  \E key \in KeyRow : KeySound(key) /\ keys' = [keys EXCEPT ![k] = key]
  <1>1. keys \in [ApiKeys -> KeyRow] /\ keys[k] \in KeyRow /\ KeySound(keys[k])
    BY DEF CatalogInv, ConsoleType, KeysSound
  <1>2. ASSUME NEW g \in Grants
        PROVE  /\ g.grants \in SUBSET VirtualModels /\ g.default \in {{}} \cup {{v} : v \in VirtualModels}
               /\ g.grants # {} /\ g.default \subseteq g.grants /\ \A v \in g.grants : virtuals[v] = "live"
    BY DEF Grants
  <1>3. ASSUME NEW g \in Grants, NEW on \in BOOLEAN, NEW key \in KeyRow
        PROVE  WithSettings(key, g, on) \in KeyRow /\ KeySound(WithSettings(key, g, on))
    <2>1. WithSettings(key, g, on) \in KeyRow
      BY <1>2 DEF WithSettings, KeyRow
    <2>2. /\ WithSettings(key, g, on).grants = g.grants /\ WithSettings(key, g, on).default = g.default
          /\ WithSettings(key, g, on).limitsOn = on /\ WithSettings(key, g, on).rules = on
      BY DEF WithSettings, KeyRow
    <2> QED BY <1>2, <2>1, <2>2 DEF KeySound
  <1>4. CASE CreateKey(k)
    <2>1. PICK g \in Grants, on \in BOOLEAN :
            keys' = [keys EXCEPT ![k] = WithSettings([@ EXCEPT !.enabled = TRUE], g, on)]
      BY <1>4 DEF CreateKey
    <2>2. [keys[k] EXCEPT !.enabled = TRUE] \in KeyRow
      BY <1>1 DEF KeyRow
    <2>3. keys' = [keys EXCEPT ![k] = WithSettings([keys[k] EXCEPT !.enabled = TRUE], g, on)]
      BY <1>1, <2>1
    <2> QED BY <1>3, <2>2, <2>3
  <1>5. CASE UpdateKey(k)
    <2>1. PICK g \in Grants, on \in BOOLEAN : keys' = [keys EXCEPT ![k] = WithSettings(@, g, on)]
      BY <1>5 DEF UpdateKey
    <2>2. keys' = [keys EXCEPT ![k] = WithSettings(keys[k], g, on)]
      BY <1>1, <2>1
    <2> QED BY <1>1, <1>3, <2>2
  <1>6. CASE UpdateAccess(k)
    <2>1. PICK g \in Grants : keys' = [keys EXCEPT ![k].grants = g.grants, ![k].default = g.default]
      BY <1>6 DEF UpdateAccess
    <2> DEFINE key == [keys[k] EXCEPT !.grants = g.grants, !.default = g.default]
    <2>2. key \in KeyRow /\ KeySound(key)
      BY <1>1, <1>2 DEF KeyRow, KeySound
    <2>3. keys' = [keys EXCEPT ![k] = key]
      BY <1>1, <2>1
    <2> QED BY <2>2, <2>3
  <1>7. CASE SetKeyEnabled(k)
    <2> DEFINE key == [keys[k] EXCEPT !.enabled = ~@]
    <2>1. key \in KeyRow /\ KeySound(key)
      BY <1>1 DEF KeyRow, KeySound
    <2>2. keys' = [keys EXCEPT ![k] = key]
      BY <1>1, <1>7 DEF SetKeyEnabled
    <2> QED BY <2>1, <2>2
  <1>8. CASE DeleteKey(k)
    <2> DEFINE key == [keys[k] EXCEPT !.stage = "deleted", !.enabled = FALSE]
    <2>1. key \in KeyRow /\ KeySound(key)
      BY <1>1 DEF KeyRow, KeySound
    <2>2. keys' = [keys EXCEPT ![k] = key]
      BY <1>1, <1>8 DEF DeleteKey
    <2> QED BY <2>1, <2>2
  <1>9. CASE SaveLimits(k) \/ DeleteLimits(k) \/ SetLimitsEnabled(k)
    <2> DEFINE with(on, rules) == [keys[k] EXCEPT !.limitsOn = on, !.rules = rules]
               on1 == [keys[k] EXCEPT !.limitsOn = TRUE]
    <2>1. with(TRUE, TRUE) \in KeyRow /\ KeySound(with(TRUE, TRUE))
          /\ with(FALSE, FALSE) \in KeyRow /\ KeySound(with(FALSE, FALSE))
      BY <1>1 DEF KeyRow, KeySound
    <2>2. keys[k].rules => on1 \in KeyRow /\ KeySound(on1)
      BY <1>1 DEF KeyRow, KeySound
    <2>3. \/ keys' = [keys EXCEPT ![k] = with(TRUE, TRUE)]
          \/ keys' = [keys EXCEPT ![k] = with(FALSE, FALSE)]
          \/ keys[k].rules /\ keys' = [keys EXCEPT ![k] = on1]
      BY <1>1, <1>9 DEF SaveLimits, DeleteLimits, SetLimitsEnabled
    <2> QED BY <2>1, <2>2, <2>3
  <1> QED BY <1>4, <1>5, <1>6, <1>7, <1>8, <1>9 DEF KeyAction

LEMMA KeySteps ==
  ASSUME CatalogInv, NEW k \in ApiKeys, KeyAction(k)
  PROVE  CatalogInv'
  <1>1. UNCHANGED <<providers, models, virtuals, policies, retired, refresh, priceJobs>> /\ published' = TRUE
    BY DEF KeyAction, CreateKey, UpdateKey, UpdateAccess, SetKeyEnabled, DeleteKey, SaveLimits, DeleteLimits,
           SetLimitsEnabled
  <1>2. PICK key \in KeyRow : KeySound(key) /\ keys' = [keys EXCEPT ![k] = key]
    BY KeyBecomes
  <1>3. keys' \in [ApiKeys -> KeyRow] /\ \A x \in ApiKeys : KeySound(keys'[x])
    BY <1>2 DEF CatalogInv, ConsoleType, KeysSound
  <1>4. ConsoleType'
    BY <1>1, <1>3 DEF CatalogInv, ConsoleType
  <1>5. LivePolicies' = LivePolicies /\ LiveModels' = LiveModels
    BY <1>1 DEF LivePolicies, LiveModels
  <1>6. RoutesSound' /\ CandidatesOf(LivePolicies)' = CandidatesOf(LivePolicies)
    BY <1>1, <1>5 DEF CatalogInv, RoutesSound, CandidatesOf
  <1>7. KeysSound'
    BY <1>1, <1>3 DEF KeysSound, KeySound
  <1> QED BY <1>1, <1>4, <1>6, <1>7, ConsoleKept

----------------------------------------------------------------------------
(* Every step, and the theorems. *)

LEMMA CatalogInvNext == CatalogInv /\ [CatalogNext]_catalogVars => CatalogInv'
  <1> SUFFICES ASSUME CatalogInv, [CatalogNext]_catalogVars PROVE CatalogInv'
    OBVIOUS
  <1>1. CASE \E p \in Providers : CreateProvider(p) \/ UpdateProvider(p) \/ SetProviderEnabled(p)
    BY <1>1, ProviderSteps
  <1>2. CASE \E p \in Providers : DeleteProvider(p)
    BY <1>2, DeleteProviderStep
  <1>3. CASE LoseRefreshLease \/ RefreshFails \/ \E p \in Providers : ReadForRefresh(p)
    BY <1>3, RefreshSteps
  <1>4. CASE \E m \in Models : OverrideCapabilities(m) \/ OverridePrice(m)
    BY <1>4, ModelSteps
  <1>5. CASE SyncPrices
    BY <1>5, PriceStep
  <1>6. CASE PlanRefresh
    BY <1>6, PlanStep
  <1>7. CASE ApplyRefresh
    BY <1>7, ApplyStep
  <1>8. CASE \E v \in VirtualModels : CreateVirtualModelWithRoute(v) \/ SaveRoute(v) \/ UpdateVirtualModelWithRoute(v)
    BY <1>8, RouteSteps
  <1>9. CASE \E v \in VirtualModels : DeleteRoutePolicy(v) \/ DeleteVirtualModel(v)
    BY <1>9, RouteGone
  <1>10. CASE \E k \in ApiKeys : KeyAction(k)
    BY <1>10, KeySteps
  <1>11. CASE UNCHANGED catalogVars
    <2>1. UNCHANGED <<providers, models, virtuals, policies, retired, keys, refresh, priceJobs, published>>
      BY <1>11 DEF catalogVars
    <2>2. priceJobs' \subseteq Providers /\ published' \in BOOLEAN /\ refresh' \in Refresh
      BY <2>1 DEF CatalogInv, ModelType
    <2>3. RefreshLive'
      BY <2>1 DEF CatalogInv, RefreshLive
    <2>4. PlanInv'
      BY <2>1 DEF CatalogInv, PlanInv, CandidatesOf, LivePolicies
    <2> QED BY <2>1, <2>2, <2>3, <2>4, SameCatalog
  <1> QED BY <1>1, <1>2, <1>3, <1>4, <1>5, <1>6, <1>7, <1>8, <1>9, <1>10, <1>11 DEF CatalogNext, KeyAction

LEMMA CatalogInvInit == CatalogInit => CatalogInv
  <1> SUFFICES ASSUME CatalogInit PROVE CatalogInv
    OBVIOUS
  <1>1. NewModel \in Row /\ NewModel.stage = "none"
    BY DEF NewModel, Row, Said, Columns
  <1>2. NewKey \in KeyRow /\ NewKey.stage = "none"
    BY DEF NewKey, KeyRow
  <1>3. ConsoleType
    BY <1>2 DEF CatalogInit, ConsoleType, NoPolicy
  <1>4. ModelType
    BY <1>1, NoRefreshType DEF CatalogInit, ModelType
  <1>5. LivePolicies = {} /\ LiveModels = {}
    BY <1>1 DEF CatalogInit, LivePolicies, LiveModels, NoPolicy
  <1>6. RoutesSound /\ ModelsSound
    BY <1>5 DEF RoutesSound, ModelsSound
  <1>7. KeysSound
    BY <1>2 DEF CatalogInit, KeysSound, KeySound
  <1>8. RefreshLive /\ PlanInv
    BY NoRefreshType DEF CatalogInit, RefreshLive, PlanInv
  <1> QED BY <1>3, <1>4, <1>6, <1>7, <1>8 DEF CatalogInv

LEMMA CatalogInvHolds == CatalogSpec => []CatalogInv
  BY CatalogInvInit, CatalogInvNext, PTL DEF CatalogSpec

LEMMA CatalogInvIsTyped == CatalogInv => CatalogTypeOK
BY TypeParts DEF CatalogInv

\* The rows hold what their columns may hold.
THEOREM CatalogTyped == CatalogSpec => []CatalogTypeOK
BY CatalogInvIsTyped, CatalogInvHolds, PTL

\* The checks and row locks of the console's transactions and of the model refresh keep
\* every reference: of a route to its virtual model and to its models, of a model to its
\* provider, of a key to its virtual models, its default and its limits.
THEOREM ReferencesKept == CatalogSpec => []CatalogSound
  <1>1. CatalogInv => CatalogSound
    BY SoundParts DEF CatalogInv
  <1> QED BY <1>1, CatalogInvHolds, PTL

\* A refresh that publishes nothing changes nothing that gateways would load.
LEMMA QuietApply ==
  ASSUME CatalogInv, ApplyRefresh, ~ refresh.visible
  PROVE  PublicRoutes' = PublicRoutes
  <1>1. UNCHANGED <<providers, policies>>
    BY DEF ApplyRefresh
  <1>2. LivePolicies' = LivePolicies
    BY <1>1 DEF LivePolicies
  <1>3. ASSUME NEW v \in LivePolicies, NEW m \in policies[v].candidates
        PROVE  (m \in Routable' <=> m \in Routable) /\ models'[m].price = models[m].price
    <2>1. m \in LiveModels /\ m \in Models /\ m \in CandidatesOf(LivePolicies) /\ models[m].stage = "live"
      BY DEF CatalogInv, RoutesSound, LiveModels, CandidatesOf
    <2>2. models'[m].stage = "live" /\ models'[m].price = models[m].price
          /\ models'[m].availability = models[m].availability
      BY <2>1, Applied
    <2> QED BY <1>1, <2>1, <2>2 DEF Routable, LiveModels
  <1>4. \A v \in LivePolicies : {<<v, m, models'[m].price>> : m \in policies[v].candidates \cap Routable'}
                                 = {<<v, m, models[m].price>> : m \in policies[v].candidates \cap Routable}
    BY <1>3
  <1> QED BY <1>1, <1>2, <1>4 DEF PublicRoutes

\* The candidates that a gateway would load, and their prices, change only in a step
\* that publishes a configuration version: the refresh holds its provider's row from
\* its plan to its commit, so no route takes up a model it changes unseen.
THEOREM RoutesArePublished == CatalogSpec => RoutesChangePublicly
  <1>1. ASSUME CatalogInv, [CatalogNext]_catalogVars PROVE [PublicRoutes' # PublicRoutes => published']_catalogVars
    <2> SUFFICES ASSUME CatalogNext, PublicRoutes' # PublicRoutes PROVE published' = TRUE
      BY <1>1
    <2>1. CASE LoseRefreshLease \/ RefreshFails \/ PlanRefresh \/ \E p \in Providers : ReadForRefresh(p)
      <3>1. UNCHANGED <<providers, models, policies>>
        BY <2>1 DEF LoseRefreshLease, RefreshFails, PlanRefresh, ReadForRefresh
      <3>2. PublicRoutes' = PublicRoutes
        BY <3>1 DEF PublicRoutes, Routable, LiveModels, LivePolicies
      <3> QED BY <3>2
    <2>2. CASE ApplyRefresh
      <3>1. refresh.visible
        BY <1>1, <2>2, QuietApply
      <3>2. refresh.visible \in BOOLEAN /\ published' = refresh.visible
        BY <1>1, <2>2 DEF CatalogInv, ModelType, Refresh, ApplyRefresh
      <3> QED BY <3>1, <3>2
    <2>3. CASE \/ \E p \in Providers : \/ CreateProvider(p) \/ UpdateProvider(p) \/ SetProviderEnabled(p)
                                       \/ DeleteProvider(p)
               \/ SyncPrices \/ \E m \in Models : OverrideCapabilities(m) \/ OverridePrice(m)
      BY <2>3 DEF CreateProvider, UpdateProvider, SetProviderEnabled, DeleteProvider, SyncPrices,
                  OverrideCapabilities, OverridePrice
    <2>4. CASE \E v \in VirtualModels : \/ CreateVirtualModelWithRoute(v) \/ SaveRoute(v)
                                        \/ UpdateVirtualModelWithRoute(v) \/ DeleteRoutePolicy(v) \/ DeleteVirtualModel(v)
      BY <2>4 DEF CreateVirtualModelWithRoute, SaveRoute, UpdateVirtualModelWithRoute, DeleteRoutePolicy,
                  DeleteVirtualModel
    <2>5. CASE \E k \in ApiKeys : KeyAction(k)
      BY <2>5 DEF KeyAction, CreateKey, UpdateKey, UpdateAccess, SetKeyEnabled, DeleteKey, SaveLimits,
                  DeleteLimits, SetLimitsEnabled
    <2> QED BY <2>1, <2>2, <2>3, <2>4, <2>5 DEF CatalogNext, KeyAction
  <1> QED BY <1>1, CatalogInvHolds, PTL DEF CatalogSpec, RoutesChangePublicly

----------------------------------------------------------------------------
(* ModelCatalogs: a map filled in turn. *)

\* Every nonempty set of numbers has a least one.
LEMMA LeastNumber ==
  ASSUME NEW T \in SUBSET Nat, T # {}
  PROVE  \E n \in T : \A m \in T : n <= m
<1>1. PICK t \in T : TRUE
  OBVIOUS
<1> DEFINE S == 0..t
           initials == {0..n : n \in {n \in T : n <= t}}
<1>2. initials \subseteq SUBSET S /\ initials # {}
  <2>1. \A n \in Nat : n <= t => 0..n \subseteq 0..t OBVIOUS
  <2> QED BY <2>1
<1>3. IsWellFoundedOn(StrictSubsetOrdering(S), SUBSET S)
  <2>1. IsFiniteSet(S) BY FS_Interval
  <2> HIDE DEF S
  <2> QED BY <2>1, FS_StrictSubsetOrderingWellFounded, FS_FiniteSubsetsOfFinite
<1>4. PICK s \in initials : \A r \in initials : <<r, s>> \notin StrictSubsetOrdering(S)
  <2> HIDE DEF initials, S
  <2> QED BY <1>2, <1>3, WFMin
<1>5. PICK n \in T : n <= t /\ s = 0..n
  OBVIOUS
<1>6. ASSUME NEW m \in T, m < n PROVE FALSE
  <2>1. 0..m \in initials BY <1>5, <1>6
  <2>2. 0..m \subseteq 0..n /\ 0..m # 0..n
    <3>1. n \in 0..n /\ n \notin 0..m BY <1>6
    <3> QED BY <1>6, <3>1
  <2>3. 0..m \in SUBSET S /\ s \in SUBSET S BY <1>2, <2>1
  <2> HIDE DEF initials, S
  <2> QED BY <1>4, <1>5, <2>1, <2>2, <2>3 DEF StrictSubsetOrdering
<1> QED BY <1>6

\* The last of a set of numbers.
Latest(at) == CHOOSE i \in at : \A j \in at : j <= i

LEMMA LatestOf ==
  ASSUME NEW N \in Nat, NEW at \in SUBSET (1..N), at # {}
  PROVE  Latest(at) \in at /\ \A j \in at : j <= Latest(at)
<1> DEFINE T == {N - i : i \in at}
<1>1. T \in SUBSET Nat /\ T # {}
  <2>1. \A i \in at : N - i \in Nat OBVIOUS
  <2> QED BY <2>1
<1>2. PICK t \in T : \A u \in T : t <= u
  <2> HIDE DEF T
  <2> QED BY <1>1, LeastNumber
<1>3. PICK i \in at : t = N - i
  BY <1>2
<1>4. \A j \in at : j <= i
  <2> SUFFICES ASSUME NEW j \in at PROVE j <= i
    OBVIOUS
  <2>1. N - j \in T OBVIOUS
  <2>2. N - i <= N - j BY <1>2, <1>3, <2>1
  <2> QED BY <2>2
<1> QED BY <1>3, <1>4 DEF Latest

\* The pairs with a key among the first n of those that are written.
With(pairs, at, n, key) == {i \in at : i <= n /\ pairs[i][1] = key}

\* Every key written has the value of the last pair with it.
Fills(f, pairs, at) ==
  /\ DOMAIN f = {pairs[i][1] : i \in at}
  /\ \A key \in DOMAIN f : \E i \in at : /\ pairs[i][1] = key /\ f[key] = pairs[i][2]
                                         /\ \A j \in at : pairs[j][1] = key => j <= i

FillsBy(map, pairs, at) ==
  map = [n \in 0..Len(pairs) |->
           IF n = 0 THEN <<>> ELSE IF n \in at THEN Put(map[n - 1], pairs[n]) ELSE map[n - 1]]

LEMMA FilledOnce ==
  ASSUME NEW pairs, Len(pairs) \in Nat, NEW at, NEW f, NEW g, FillsBy(f, pairs, at), FillsBy(g, pairs, at)
  PROVE  f[Len(pairs)] = g[Len(pairs)]
<1> DEFINE differ == {n \in 0..Len(pairs) : f[n] # g[n]}
<1>1. SUFFICES ASSUME differ # {} PROVE FALSE
  OBVIOUS
<1>2. PICK n \in differ : \A m \in differ : n <= m
  <2>1. differ \subseteq Nat OBVIOUS
  <2> HIDE DEF differ
  <2> QED BY <1>1, <2>1, LeastNumber
<1>3. n # 0
  BY DEF FillsBy
<1>4. n - 1 \in 0..Len(pairs) /\ n - 1 \notin differ
  <2>1. n - 1 \in Nat /\ n - 1 < n BY <1>3
  <2> QED BY <1>2, <2>1
<1>5. f[n - 1] = g[n - 1]
  BY <1>4
<1> QED BY <1>3, <1>5 DEF FillsBy

LEMMA FilledIs ==
  ASSUME NEW pairs, Len(pairs) \in Nat, NEW at \in SUBSET (1..Len(pairs))
  PROVE  Fills(Filled(pairs, at), pairs, at)
<1> DEFINE N == Len(pairs)
           inUse(n) == {pairs[i][1] : i \in {i \in at : i <= n}}
           g == [n \in 0..N |-> [key \in inUse(n) |-> pairs[Latest(With(pairs, at, n, key))][2]]]
           f == CHOOSE f : FillsBy(f, pairs, at)
<1>1. N \in Nat
  OBVIOUS
<1>2. g[0] = <<>>
  <2>1. inUse(0) = {} OBVIOUS
  <2> HIDE DEF inUse
  <2>2. g[0] = [key \in inUse(0) |-> pairs[Latest(With(pairs, at, 0, key))][2]] OBVIOUS
  <2>3. DOMAIN g[0] = {} BY <2>1, <2>2
  <2> QED BY <2>1, <2>2
<1>3. ASSUME NEW n \in 1..N PROVE g[n] = IF n \in at THEN Put(g[n - 1], pairs[n]) ELSE g[n - 1]
  <2>1. n - 1 \in 0..N /\ n \in 0..N OBVIOUS
  <2>2. /\ g[n] = [key \in inUse(n) |-> pairs[Latest(With(pairs, at, n, key))][2]]
        /\ g[n - 1] = [key \in inUse(n - 1) |-> pairs[Latest(With(pairs, at, n - 1, key))][2]]
    <3> HIDE DEF inUse
    <3> QED BY <2>1
  <2>3. n \notin at => inUse(n) = inUse(n - 1) /\ \A key : With(pairs, at, n, key) = With(pairs, at, n - 1, key)
    <3> SUFFICES ASSUME n \notin at PROVE inUse(n) = inUse(n - 1) /\ \A key : With(pairs, at, n, key) = With(pairs, at, n - 1, key)
      OBVIOUS
    <3>1. \A i \in at : i <= n <=> i <= n - 1 OBVIOUS
    <3> QED BY <3>1 DEF With
  <2>4. n \in at => inUse(n) = inUse(n - 1) \cup {pairs[n][1]}
    <3> SUFFICES ASSUME n \in at PROVE inUse(n) = inUse(n - 1) \cup {pairs[n][1]}
      OBVIOUS
    <3>1. \A i \in at : i <= n <=> (i <= n - 1 \/ i = n) OBVIOUS
    <3> QED BY <3>1
  <2>5. \A key : key # pairs[n][1] => With(pairs, at, n, key) = With(pairs, at, n - 1, key)
    <3>1. \A i \in at : i <= n <=> (i <= n - 1 \/ i = n) OBVIOUS
    <3> QED BY <3>1 DEF With
  <2>6. n \in at => Latest(With(pairs, at, n, pairs[n][1])) = n
    <3> SUFFICES ASSUME n \in at PROVE Latest(With(pairs, at, n, pairs[n][1])) = n
      OBVIOUS
    <3>1. n \in With(pairs, at, n, pairs[n][1]) /\ \A i \in With(pairs, at, n, pairs[n][1]) : i <= n /\ i \in 1..N
      BY DEF With
    <3> HIDE DEF N
    <3> QED BY <3>1 DEF Latest
  <2> HIDE DEF g, inUse
  <2>7. CASE n \in at
    <3>1. DOMAIN g[n - 1] = inUse(n - 1) BY <2>2
    <3>2. Put(g[n - 1], pairs[n]) = [key \in inUse(n) |-> IF key = pairs[n][1] THEN pairs[n][2] ELSE g[n - 1][key]]
      BY <2>4, <2>7, <3>1 DEF Put
    <3>3. \A key \in inUse(n) : pairs[Latest(With(pairs, at, n, key))][2] = IF key = pairs[n][1] THEN pairs[n][2] ELSE g[n - 1][key]
      <4> SUFFICES ASSUME NEW key \in inUse(n)
                   PROVE  pairs[Latest(With(pairs, at, n, key))][2] = IF key = pairs[n][1] THEN pairs[n][2] ELSE g[n - 1][key]
        OBVIOUS
      <4>1. CASE key = pairs[n][1] BY <2>6, <2>7, <4>1
      <4>2. CASE key # pairs[n][1]
        <5>1. key \in inUse(n - 1) BY <2>4, <2>7, <4>2
        <5>2. g[n - 1][key] = pairs[Latest(With(pairs, at, n - 1, key))][2] BY <2>2, <5>1
        <5> QED BY <2>5, <4>2, <5>2
      <4> QED BY <4>1, <4>2
    <3>4. g[n] = [key \in inUse(n) |-> IF key = pairs[n][1] THEN pairs[n][2] ELSE g[n - 1][key]]
      BY <2>2, <3>3
    <3> QED BY <2>7, <3>2, <3>4
  <2>8. CASE n \notin at
    BY <2>2, <2>3, <2>8
  <2> QED BY <2>7, <2>8
<1>4. FillsBy(g, pairs, at)
  <2>1. g = [n \in 0..N |-> g[n]] OBVIOUS
  <2> HIDE DEF g
  <2>2. \A n \in 0..N : g[n] = IF n = 0 THEN <<>> ELSE IF n \in at THEN Put(g[n - 1], pairs[n]) ELSE g[n - 1]
    BY <1>2, <1>3
  <2>3. g = [n \in 0..N |-> IF n = 0 THEN <<>> ELSE IF n \in at THEN Put(g[n - 1], pairs[n]) ELSE g[n - 1]]
    BY <2>1, <2>2
  <2> QED BY <2>3 DEF FillsBy
<1>5. FillsBy(f, pairs, at)
  <2> HIDE DEF g
  <2> QED BY <1>4
<1>6. f[N] = g[N]
  <2> HIDE DEF f, g
  <2> QED BY <1>4, <1>5, FilledOnce
<1>7. Filled(pairs, at) = f[N]
  BY DEF Filled, FillsBy
<1>8. Fills(g[N], pairs, at)
  <2>1. g[N] = [key \in inUse(N) |-> pairs[Latest(With(pairs, at, N, key))][2]]
    <3> HIDE DEF inUse
    <3> QED BY <1>1
  <2>2. inUse(N) = {pairs[i][1] : i \in at}
    <3>1. \A i \in at : i <= N OBVIOUS
    <3> QED BY <3>1
  <2> HIDE DEF g, inUse
  <2>3. ASSUME NEW key \in inUse(N)
        PROVE  \E i \in at : /\ pairs[i][1] = key /\ g[N][key] = pairs[i][2]
                             /\ \A j \in at : pairs[j][1] = key => j <= i
    <3> DEFINE all == With(pairs, at, N, key)
    <3>1. \A i \in at : i <= N /\ i \in 1..N OBVIOUS
    <3>2. all = {i \in at : pairs[i][1] = key}
      <4> HIDE DEF N
      <4> QED BY <3>1 DEF With
    <3>2a. all \in SUBSET (1..N) /\ all # {}
      <4> HIDE DEF all
      <4> QED BY <2>2, <3>1, <3>2
    <3>3. g[N][key] = pairs[Latest(all)][2] BY <2>1
    <3> HIDE DEF all, N
    <3>4. Latest(all) \in all /\ \A j \in all : j <= Latest(all) BY <1>1, <3>2a, LatestOf
    <3> QED BY <3>2, <3>3, <3>4
  <2>4. DOMAIN g[N] = inUse(N) BY <2>1
  <2> QED BY <2>2, <2>3, <2>4 DEF Fills
<1> QED BY <1>6, <1>7, <1>8

----------------------------------------------------------------------------
(* ModelCatalogs: the registry. *)

LEMMA SourcesAre ==
  /\ DOMAIN Sources = 1..4 /\ ToSet(Sources) = {"models.dev", "openrouter", "litellm", "vercel"}
  /\ Sources[1] = "models.dev" /\ Sources[2] = "openrouter" /\ Sources[3] = "litellm" /\ Sources[4] = "vercel"
<1>1. DOMAIN Sources = 1..4
  BY DEF Sources
<1>2. Sources[1] = "models.dev" /\ Sources[2] = "openrouter" /\ Sources[3] = "litellm" /\ Sources[4] = "vercel"
  BY DEF Sources
<1>3. \A i \in 1..4 : i = 1 \/ i = 2 \/ i = 3 \/ i = 4
  OBVIOUS
<1>4. 1 \in 1..4 /\ 2 \in 1..4 /\ 3 \in 1..4 /\ 4 \in 1..4
  OBVIOUS
<1>5. ToSet(Sources) = {Sources[i] : i \in 1..4}
  BY <1>1 DEF ToSet
<1> QED BY <1>1, <1>2, <1>3, <1>4, <1>5

\* What a source says of a key is its entry.
SaidBy(f, read, source, key) ==
  /\ key \in DOMAIN f <=> Says(read, source, key) # <<>>
  /\ key \in DOMAIN f => \E l : Says(read, source, key) = <<l>> /\ f[key] = Entry(source, l)[2]

LEMMA EntriesSay ==
  ASSUME NEW read, NEW source, read[source] \in Seq(Listing), NEW key
  PROVE  SaidBy(Entries(source, read[source]), read, source, key)
<1> DEFINE payload == read[source]
           pairs == [i \in DOMAIN payload |-> Entry(source, payload[i])]
           f == Entries(source, payload)
           said == {i \in DOMAIN payload : Entry(source, payload[i])[1] = key}
<1>1. DOMAIN payload = 1..Len(payload) /\ Len(payload) \in Nat
  OBVIOUS
<1>2. Len(pairs) = Len(payload) /\ \A i \in DOMAIN payload : pairs[i] = Entry(source, payload[i])
  BY <1>1
<1> HIDE DEF pairs, payload
<1>3. Fills(f, pairs, DOMAIN payload)
  <2>1. DOMAIN payload \in SUBSET (1..Len(pairs)) BY <1>1, <1>2
  <2>2. f = Filled(pairs, DOMAIN payload) BY DEF Entries, pairs
  <2> QED BY <1>1, <1>2, <2>1, <2>2, FilledIs
<1> HIDE DEF f
<1>4. key \in DOMAIN f <=> said # {}
  BY <1>2, <1>3 DEF Fills
<1>5. Says(read, source, key) = IF said = {} THEN <<>> ELSE <<payload[Latest(said)]>>
  BY DEF Says, Latest, payload
<1>6. CASE said = {}
  BY <1>4, <1>5, <1>6 DEF SaidBy, f, payload
<1>7. CASE said # {}
  <2>1. PICK i \in said : f[key] = pairs[i][2] /\ \A j \in said : j <= i
    BY <1>2, <1>3, <1>4, <1>7 DEF Fills
  <2>2. Latest(said) \in said /\ \A j \in said : j <= Latest(said)
    BY <2>1 DEF Latest
  <2>3. said \subseteq Nat BY <1>1
  <2>4. Latest(said) = i
    <3>1. Latest(said) <= i /\ i <= Latest(said) BY <2>1, <2>2
    <3>2. i \in Nat /\ Latest(said) \in Nat BY <2>2, <2>3
    <3> QED BY <3>1, <3>2
  <2>5. f[key] = Entry(source, payload[i])[2] BY <1>2, <2>1
  <2>6. Says(read, source, key) = <<payload[i]>> BY <1>5, <1>7, <2>4
  <2>7. Says(read, source, key) # <<>> BY <2>6
  <2> HIDE DEF said
  <2> QED BY <1>4, <1>7, <2>5, <2>6, <2>7 DEF SaidBy, f, payload
<1> QED BY <1>6, <1>7

\* What the entry of a listing says of its window and of streaming.
Stated(e, source, l) ==
  /\ e.context = l.context /\ e.from.context = (IF l.context = 0 THEN "none" ELSE source)
  /\ source # "litellm" => e.streaming = "silent" \/ e.inferred
  /\ source = "litellm" /\ l.streams # "silent" => e.streaming = l.streams /\ ~e.inferred

LEMMA EntryStates ==
  ASSUME NEW source \in {"models.dev", "openrouter", "litellm", "vercel"}, NEW l
  PROVE  Stated(Entry(source, l)[2], source, l)
<1>1. ASSUME NEW id, NEW tools, NEW streams
      PROVE  LET e == EntryOf(source, l, id, tools, streams)[2]
             IN /\ e.context = l.context /\ e.from.context = (IF l.context = 0 THEN "none" ELSE source)
                /\ streams = "silent" => e.streaming = "silent" \/ e.inferred
                /\ streams # "silent" => e.streaming = streams /\ ~e.inferred
  <2> DEFINE s == Streaming(streams, l.text)
             e == EntryOf(source, l, id, tools, streams)[2]
  <2>1. e.context = l.context /\ e.from.context = (IF l.context = 0 THEN "none" ELSE source)
        /\ e.streaming = s.value /\ e.inferred = s.inferred
    <3> HIDE DEF s
    <3> QED BY DEF EntryOf, s
  <2>2. streams # "silent" => s.value = streams /\ s.inferred = FALSE
    BY DEF Streaming
  <2>3. streams = "silent" => s.value = "silent" \/ s.inferred = TRUE
    BY DEF Streaming
  <2> HIDE DEF e, s
  <2> QED BY <2>1, <2>2, <2>3 DEF e
<1>2. CASE source = "models.dev"
  <2>1. Entry(source, l) = EntryOf(source, l, l.id, l.tools, "silent") BY <1>2 DEF Entry, ModelsDevEntry
  <2> QED BY <1>1, <1>2, <2>1 DEF Stated
<1>3. CASE source = "openrouter"
  <2>1. Entry(source, l) = EntryOf(source, l, WithoutPrefix(l), IF l.tools = "yes" THEN "yes" ELSE "no", "silent")
    BY <1>3 DEF Entry, OpenRouterEntry
  <2> QED BY <1>1, <1>3, <2>1 DEF Stated
<1>4. CASE source = "litellm"
  <2>1. Entry(source, l) = EntryOf(source, l, WithoutPrefix(l), IF l.tools = "yes" THEN "yes" ELSE "no", l.streams)
    BY <1>4 DEF Entry, LiteLlmEntry
  <2> QED BY <1>1, <1>4, <2>1 DEF Stated
<1>5. CASE source = "vercel"
  <2>1. Entry(source, l) = EntryOf(source, l, WithoutPrefix(l), IF l.tools = "yes" THEN "yes" ELSE "no", "silent")
    BY <1>5 DEF Entry, VercelEntry
  <2> QED BY <1>1, <1>5, <2>1 DEF Stated
<1> QED BY <1>2, <1>3, <1>4, <1>5

\* A registry of the first n sources.
Believes(f, read, key, n) ==
  LET stating == ContextSources(read, key) \cap 1..n
      litellm == Says(read, "litellm", key)
  IN /\ key \in DOMAIN f <=> \E i \in 1..n : Says(read, Sources[i], key) # <<>>
     /\ key \in DOMAIN f =>
          /\ stating = {} => f[key].context = 0 /\ f[key].from.context = "none"
          /\ \A i \in stating : (\A j \in stating : i <= j) =>
               f[key].context = Says(read, Sources[i], key)[1].context /\ f[key].from.context = Sources[i]
          /\ n <= 2 => f[key].streaming = "silent" \/ f[key].inferred
          /\ n >= 3 /\ litellm # <<>> /\ litellm[1].streams # "silent" => f[key].streaming = litellm[1].streams /\ ~f[key].inferred

\* A source that says something of a key states its window if the listing has one.
LEMMA StatesWindow ==
  ASSUME NEW read, NEW i \in 1..4, NEW f, NEW key, SaidBy(f, read, Sources[i], key)
  PROVE  /\ i \in ContextSources(read, key) => key \in DOMAIN f
         /\ key \in DOMAIN f =>
              /\ i \notin ContextSources(read, key) => f[key].context = 0 /\ f[key].from.context = "none"
              /\ i \in ContextSources(read, key) =>
                   f[key].context = Says(read, Sources[i], key)[1].context /\ f[key].from.context = Sources[i]
              /\ i # 3 => f[key].streaming = "silent" \/ f[key].inferred
              /\ i = 3 /\ Says(read, "litellm", key)[1].streams # "silent" =>
                   f[key].streaming = Says(read, "litellm", key)[1].streams /\ ~f[key].inferred
<1>1. /\ Sources[i] \in {"models.dev", "openrouter", "litellm", "vercel"}
      /\ Sources[i] = "litellm" <=> i = 3
  <2>1. i = 1 \/ i = 2 \/ i = 3 \/ i = 4 OBVIOUS
  <2> QED BY <2>1, SourcesAre
<1>2. i \in ContextSources(read, key) <=> Says(read, Sources[i], key) # <<>> /\ Says(read, Sources[i], key)[1].context # 0
  BY SourcesAre DEF ContextSources
<1>3. i \in ContextSources(read, key) => key \in DOMAIN f
  BY <1>2 DEF SaidBy
<1>4. CASE key \in DOMAIN f
  <2>1. PICK l : Says(read, Sources[i], key) = <<l>> /\ f[key] = Entry(Sources[i], l)[2]
    BY <1>4 DEF SaidBy
  <2>2. Says(read, Sources[i], key) # <<>> /\ Says(read, Sources[i], key)[1] = l
    BY <2>1
  <2>3. Stated(f[key], Sources[i], l) BY <1>1, <2>1, EntryStates
  <2>4. i = 3 => Says(read, "litellm", key)[1] = l BY <1>1, <2>2
  <2> QED BY <1>1, <1>2, <1>3, <2>2, <2>3, <2>4 DEF Stated
<1> QED BY <1>3, <1>4

LEMMA FirstBelieves ==
  ASSUME NEW read, NEW f, NEW key, SaidBy(f, read, Sources[1], key)
  PROVE  Believes(f, read, key, 1)
<1>1. 1..1 = {1} /\ 1 \in 1..4 /\ 1 # 3 /\ ~(1 >= 3)
  OBVIOUS
<1>2. key \in DOMAIN f <=> \E i \in 1..1 : Says(read, Sources[i], key) # <<>>
  BY <1>1 DEF SaidBy
<1> QED BY <1>1, <1>2, StatesWindow DEF Believes

LEMMA MergeBelieves ==
  ASSUME NEW read, NEW n \in 1..3, NEW f, NEW g, NEW key, Believes(f, read, key, n), SaidBy(g, read, Sources[n + 1], key)
  PROVE  Believes(Merged(f, g), read, key, n + 1)
<1> DEFINE h == Merged(f, g)
           all == ContextSources(read, key)
           litellm == Says(read, "litellm", key)
           of(i) == Says(read, Sources[i], key)
<1>1. n \in Nat /\ n + 1 \in 1..4 /\ 1..(n + 1) = 1..n \cup {n + 1} /\ \A i \in 1..n : i < n + 1
  OBVIOUS
<1>2. DOMAIN h = DOMAIN f \cup DOMAIN g
  BY DEF Merged
<1>3. key \in DOMAIN h <=> \E i \in 1..(n + 1) : of(i) # <<>>
  BY <1>1, <1>2 DEF Believes, SaidBy
<1>4. key \in DOMAIN h => h[key] = CASE key \notin DOMAIN g -> f[key]
                                     [] key \notin DOMAIN f -> g[key]
                                     [] OTHER -> MergedEntry(f[key], g[key])
  BY DEF Merged
<1>5. /\ n + 1 \in all => key \in DOMAIN g
      /\ key \in DOMAIN g =>
           /\ n + 1 \notin all => g[key].context = 0 /\ g[key].from.context = "none"
           /\ n + 1 \in all => g[key].context = of(n + 1)[1].context /\ g[key].from.context = Sources[n + 1]
           /\ n + 1 # 3 => g[key].streaming = "silent" \/ g[key].inferred
           /\ n + 1 = 3 /\ litellm[1].streams # "silent" => g[key].streaming = litellm[1].streams /\ ~g[key].inferred
  BY <1>1, StatesWindow
<1>6. /\ key \in DOMAIN f /\ all \cap 1..n = {} => f[key].context = 0 /\ f[key].from.context = "none"
      /\ key \in DOMAIN f => \A i \in all \cap 1..n : (\A j \in all \cap 1..n : i <= j) =>
                               f[key].context = of(i)[1].context /\ f[key].from.context = Sources[i]
      /\ key \in DOMAIN f /\ n <= 2 => f[key].streaming = "silent" \/ f[key].inferred
      /\ key \in DOMAIN f /\ n >= 3 /\ litellm # <<>> /\ litellm[1].streams # "silent" =>
           f[key].streaming = litellm[1].streams /\ ~f[key].inferred
  BY DEF Believes
<1>7. \A i \in all \cap 1..n : key \in DOMAIN f /\ of(i)[1].context # 0 /\ Sources[i] # "none"
  <2>1. \A i \in all : of(i) # <<>> /\ of(i)[1].context # 0 /\ i \in 1..4
    BY SourcesAre DEF ContextSources
  <2>2. \A i \in 1..4 : Sources[i] # "none"
    <3>1. \A i \in 1..4 : i = 1 \/ i = 2 \/ i = 3 \/ i = 4 OBVIOUS
    <3> QED BY <3>1, SourcesAre
  <2> QED BY <2>1, <2>2 DEF Believes
<1>8. key \in DOMAIN h /\ all \cap 1..(n + 1) = {} => h[key].context = 0 /\ h[key].from.context = "none"
  <2> SUFFICES ASSUME key \in DOMAIN h, all \cap 1..(n + 1) = {} PROVE h[key].context = 0 /\ h[key].from.context = "none"
    OBVIOUS
  <2>1. all \cap 1..n = {} /\ n + 1 \notin all BY <1>1
  <2> HIDE DEF all, h
  <2> QED BY <1>2, <1>4, <1>5, <1>6, <2>1 DEF MergedEntry
<1>9. key \in DOMAIN h => \A i \in all \cap 1..(n + 1) : (\A j \in all \cap 1..(n + 1) : i <= j) =>
                            h[key].context = of(i)[1].context /\ h[key].from.context = Sources[i]
  <2> SUFFICES ASSUME key \in DOMAIN h, NEW i \in all \cap 1..(n + 1), \A j \in all \cap 1..(n + 1) : i <= j
               PROVE  h[key].context = of(i)[1].context /\ h[key].from.context = Sources[i]
    OBVIOUS
  <2>1. CASE i \in 1..n
    <3>1. key \in DOMAIN f /\ f[key].context = of(i)[1].context /\ f[key].from.context = Sources[i] /\ f[key].context # 0
          /\ f[key].from.context # "none"
      BY <1>1, <1>6, <1>7, <2>1
    <3> HIDE DEF all, h, of
    <3> QED BY <1>4, <3>1 DEF MergedEntry
  <2>2. CASE i = n + 1
    <3>1. all \cap 1..n = {} /\ n + 1 \in all
      <4> SUFFICES ASSUME NEW j \in all \cap 1..n PROVE FALSE
        BY <2>2
      <4>1. j \in all \cap 1..(n + 1) /\ j < n + 1 BY <1>1
      <4> QED BY <2>2, <4>1
    <3> HIDE DEF all, h, of
    <3> QED BY <1>2, <1>4, <1>5, <1>6, <2>2, <3>1 DEF MergedEntry
  <2> QED BY <1>1, <2>1, <2>2
<1>10. key \in DOMAIN h /\ n + 1 <= 2 => h[key].streaming = "silent" \/ h[key].inferred
  <2> HIDE DEF h
  <2>1. n + 1 <= 2 => n <= 2 /\ n + 1 # 3 OBVIOUS
  <2> QED BY <1>2, <1>4, <1>5, <1>6, <2>1 DEF MergedEntry
<1>11. key \in DOMAIN h /\ n + 1 >= 3 /\ litellm # <<>> /\ litellm[1].streams # "silent" =>
         h[key].streaming = litellm[1].streams /\ ~h[key].inferred
  <2> SUFFICES ASSUME key \in DOMAIN h, n + 1 >= 3, litellm # <<>>, litellm[1].streams # "silent"
               PROVE  h[key].streaming = litellm[1].streams /\ ~h[key].inferred
    OBVIOUS
  <2>1. CASE n = 2
    <3>1. key \in DOMAIN g BY <2>1, SourcesAre DEF SaidBy
    <3>2. n + 1 = 3 /\ n <= 2 BY <2>1
    <3>3. g[key].streaming = litellm[1].streams /\ ~g[key].inferred BY <1>5, <3>1, <3>2
    <3>4. key \in DOMAIN f => f[key].streaming = "silent" \/ f[key].inferred BY <1>6, <3>2
    <3> HIDE DEF h, litellm
    <3> QED BY <1>4, <3>1, <3>3, <3>4 DEF MergedEntry
  <2>2. CASE n = 3
    <3>1. 3 \in 1..n /\ Sources[3] = "litellm" BY <2>2, SourcesAre
    <3>2. key \in DOMAIN f BY <3>1 DEF Believes
    <3>3. f[key].streaming = litellm[1].streams /\ ~f[key].inferred BY <1>6, <2>2, <3>2
    <3> HIDE DEF h, litellm
    <3> QED BY <1>4, <3>2, <3>3 DEF MergedEntry
  <2> QED BY <2>1, <2>2
<1> HIDE DEF h, of, all, litellm
<1>12. key \in DOMAIN h =>
         /\ all \cap 1..(n + 1) = {} => h[key].context = 0 /\ h[key].from.context = "none"
         /\ \A i \in all \cap 1..(n + 1) : (\A j \in all \cap 1..(n + 1) : i <= j) =>
              h[key].context = of(i)[1].context /\ h[key].from.context = Sources[i]
         /\ n + 1 <= 2 => h[key].streaming = "silent" \/ h[key].inferred
         /\ n + 1 >= 3 /\ litellm # <<>> /\ litellm[1].streams # "silent" => h[key].streaming = litellm[1].streams /\ ~h[key].inferred
  BY <1>8, <1>9, <1>10, <1>11
<1> QED BY <1>3, <1>12 DEF Believes, h, of, all, litellm

LEMMA RegistryBelieves ==
  ASSUME NEW read, \A s \in ToSet(Sources) : read[s] \in Seq(Listing), NEW key
  PROVE  Believes(Registry(read), read, key, 4)
<1> DEFINE of(i) == Entries(Sources[i], read[Sources[i]])
<1>1. \A i \in 1..4 : SaidBy(of(i), read, Sources[i], key)
  <2>1. \A i \in 1..4 : read[Sources[i]] \in Seq(Listing)
    BY SourcesAre DEF ToSet
  <2> QED BY <2>1, EntriesSay
<1>2. Registry(read) = Merged(Merged(Merged(of(1), of(2)), of(3)), of(4))
  BY DEF Registry
<1>3. 1 \in 1..4 /\ 2 \in 1..4 /\ 3 \in 1..4 /\ 4 \in 1..4 /\ 1 \in 1..3 /\ 2 \in 1..3 /\ 3 \in 1..3
      /\ 1 + 1 = 2 /\ 2 + 1 = 3 /\ 3 + 1 = 4
  OBVIOUS
<1> HIDE DEF of
<1>4. Believes(of(1), read, key, 1)
  BY <1>1, <1>3, FirstBelieves
<1>5. Believes(Merged(of(1), of(2)), read, key, 2)
  <2>1. SaidBy(of(2), read, Sources[1 + 1], key) BY <1>1, <1>3
  <2>2. Believes(Merged(of(1), of(2)), read, key, 1 + 1) BY <1>3, <1>4, <2>1, MergeBelieves
  <2> QED BY <1>3, <2>2
<1>6. Believes(Merged(Merged(of(1), of(2)), of(3)), read, key, 3)
  <2>1. SaidBy(of(3), read, Sources[2 + 1], key) BY <1>1, <1>3
  <2>2. Believes(Merged(Merged(of(1), of(2)), of(3)), read, key, 2 + 1) BY <1>3, <1>5, <2>1, MergeBelieves
  <2> QED BY <1>3, <2>2
<1>7. Believes(Merged(Merged(Merged(of(1), of(2)), of(3)), of(4)), read, key, 4)
  <2>1. SaidBy(of(4), read, Sources[3 + 1], key) BY <1>1, <1>3
  <2>2. Believes(Merged(Merged(Merged(of(1), of(2)), of(3)), of(4)), read, key, 3 + 1) BY <1>3, <1>6, <2>1, MergeBelieves
  <2> QED BY <1>3, <2>2
<1> QED BY <1>2, <1>7

----------------------------------------------------------------------------
(* ModelCatalogs: what is made of the registry and of the prices. *)

Payloads == [ToSet(Sources) -> Seq(Listing)]

\* Where the entry of a model comes from.
LEMMA ResolvedFrom ==
  ASSUME NEW registry, NEW m, NEW key, key = ResolvedKey(registry, m), key # NoKey
  PROVE  /\ key \in DOMAIN registry
         /\ \/ key[1] = CatalogKey(m.provider)
            \/ m.id[1] # "" /\ key = <<CatalogKey(m.id[1]), <<"", m.id[2]>>>>
            \/ \E name : LET named == Elsewhere(registry, m, name)
                         IN /\ key[2] = name /\ BestTier(named) = {key} /\ key \in named
                            /\ TrustedOf(named) # {} \/ One(named)
<1>1. CASE OwnKey(m, m.id) \in DOMAIN registry
  BY <1>1 DEF ResolvedKey, OwnKey
<1>2. CASE OwnKey(m, m.id) \notin DOMAIN registry /\ OwnKey(m, m.display) \in DOMAIN registry
  BY <1>2 DEF ResolvedKey, OwnKey
<1>3. CASE OwnKey(m, m.id) \notin DOMAIN registry /\ OwnKey(m, m.display) \notin DOMAIN registry /\ VendorKeys(registry, m) # {}
  BY <1>3 DEF ResolvedKey, VendorKeys
<1>4. CASE OwnKey(m, m.id) \notin DOMAIN registry /\ OwnKey(m, m.display) \notin DOMAIN registry /\ VendorKeys(registry, m) = {}
  <2> DEFINE hits(i) == Elsewhere(registry, m, CrossNames(m)[i])
             deciding == {i \in 1..4 : TrustedOf(hits(i)) # {} \/ One(hits(i))}
             first == CHOOSE i \in deciding : \A j \in deciding : i <= j
             best == BestTier(hits(first))
  <2>1. key = CrossKey(registry, m) BY <1>4 DEF ResolvedKey
  <2>2. key = IF deciding = {} \/ ~One(best) THEN NoKey ELSE CHOOSE key_1 \in best : TRUE
    BY <2>1 DEF CrossKey
  <2>3. deciding # {} /\ One(best) /\ key \in best
    <3> HIDE DEF deciding, best
    <3>1. deciding # {} /\ One(best) BY <2>2
    <3>2. best # {} BY <3>1 DEF One
    <3> QED BY <2>2, <3>1, <3>2
  <2>4. first \in deciding
    <3>1. deciding \in SUBSET Nat OBVIOUS
    <3> HIDE DEF deciding
    <3>2. \E i \in deciding : \A j \in deciding : i <= j BY <2>3, <3>1, LeastNumber
    <3> QED BY <3>2
  <2> DEFINE name == CrossNames(m)[first]
             named == hits(first)
  <2>5. named = Elsewhere(registry, m, name) OBVIOUS
  <2>6. TrustedOf(named) # {} \/ One(named) BY <2>4
  <2>7. best = {key} BY <2>3 DEF One
  <2>8. best \subseteq named BY DEF BestTier, TrustedOf
  <2>9. key \in DOMAIN registry /\ key[2] = name BY <2>3, <2>5, <2>8 DEF Elsewhere
  <2>10. best = BestTier(named) OBVIOUS
  <2> HIDE DEF name, named, best
  <2> QED BY <2>3, <2>5, <2>6, <2>7, <2>8, <2>9, <2>10
<1> QED BY <1>1, <1>2, <1>3, <1>4

\* A model's metadata is nobody's guess.
LEMMA EnrichedNotGuessed ==
  ASSUME NEW read \in Payloads, NEW m
  PROVE  NotGuessed(read, m, Enriched(Registry(read), m))
<1> DEFINE registry == Registry(read)
           key == ResolvedKey(registry, m)
<1>1. Enriched(registry, m).key = key
  BY DEF Enriched
<1>2. \A k : k \in DOMAIN registry <=> \E i \in 1..4 : Says(read, Sources[i], k) # <<>>
  <2>1. \A s \in ToSet(Sources) : read[s] \in Seq(Listing) BY DEF Payloads
  <2> SUFFICES ASSUME NEW k PROVE k \in DOMAIN registry <=> \E i \in 1..4 : Says(read, Sources[i], k) # <<>>
    OBVIOUS
  <2>2. Believes(registry, read, k, 4) BY <2>1, RegistryBelieves
  <2> QED BY <2>2 DEF Believes
<1> HIDE DEF registry, key
<1> SUFFICES ASSUME key # NoKey, key[1] # CatalogKey(m.provider),
                    ~(m.id[1] # "" /\ key = <<CatalogKey(m.id[1]), <<"", m.id[2]>>>>),
                    NEW other, other \notin {key[1], CatalogKey(m.provider)}, ListedIn(read, other, key[2])
             PROVE  key[1] \in Trusted /\ other \notin Trusted
  BY <1>1 DEF NotGuessed, registry
<1>3. PICK name : LET named == Elsewhere(registry, m, name)
                  IN /\ key[2] = name /\ BestTier(named) = {key} /\ key \in named
                     /\ TrustedOf(named) # {} \/ One(named)
  BY ResolvedFrom DEF key
<1> DEFINE named == Elsewhere(registry, m, name)
           twin == <<other, key[2]>>
<1>4. twin \in DOMAIN registry
  <2>1. \E s \in ToSet(Sources) : Says(read, s, twin) # <<>> BY DEF ListedIn
  <2>2. \E i \in 1..4 : Says(read, Sources[i], twin) # <<>> BY <2>1, SourcesAre DEF ToSet
  <2> HIDE DEF twin
  <2> QED BY <1>2, <2>2
<1>5. twin \in named /\ twin # key /\ twin[1] = other
  <2>1. twin[1] = other /\ twin[2] = name BY <1>3
  <2>2. twin # key BY <2>1
  <2> HIDE DEF twin
  <2> QED BY <1>4, <2>1, <2>2 DEF Elsewhere
<1>6. BestTier(named) = {key} /\ key \in named /\ (TrustedOf(named) # {} \/ One(named))
  BY <1>3
<1> HIDE DEF named, twin
<1>7. TrustedOf(named) # {}
  BY <1>5, <1>6 DEF One
<1>8. TrustedOf(named) = {key}
  BY <1>6, <1>7 DEF BestTier
<1> QED BY <1>5, <1>8 DEF TrustedOf

\* The first source that states a field is believed.
LEMMA EnrichedBelieved ==
  ASSUME NEW read \in Payloads, NEW m
  PROVE  FirstIsBelieved(read, m, Enriched(Registry(read), m))
<1> DEFINE registry == Registry(read)
           key == ResolvedKey(registry, m)
           o == Enriched(registry, m)
           stating == ContextSources(read, key)
           least == CHOOSE i \in stating : \A j \in stating : i <= j
           litellm == Says(read, "litellm", key)
<1>1. Believes(registry, read, key, 4)
  <2>1. \A s \in ToSet(Sources) : read[s] \in Seq(Listing) BY DEF Payloads
  <2> QED BY <2>1, RegistryBelieves
<1>2. stating \subseteq 1..4 /\ stating \cap 1..4 = stating
  BY SourcesAre DEF ContextSources
<1>3. stating # {} => least \in stating /\ \A j \in stating : least <= j
  <2> SUFFICES ASSUME stating # {} PROVE least \in stating /\ \A j \in stating : least <= j
    OBVIOUS
  <2>1. stating \in SUBSET Nat BY <1>2
  <2> HIDE DEF stating
  <2>2. \E i \in stating : \A j \in stating : i <= j BY <2>1, LeastNumber
  <2> QED BY <2>2
<1>4. /\ o.key = key
      /\ o.context = LET c == IF m.context # 0 THEN m.context ELSE IF key = NoKey THEN 0 ELSE registry[key].context
                     IN IF c = 0 /\ m.local THEN LocalContext ELSE c
      /\ key # NoKey => o.from = registry[key].from.context /\ o.streaming = registry[key].streaming
  <2> HIDE DEF registry, key
  <2>1. o = Enriched(registry, m) OBVIOUS
  <2> HIDE DEF o
  <2> QED BY <2>1 DEF Enriched, key
<1>5. key # NoKey => key \in DOMAIN registry
  <2> SUFFICES ASSUME key # NoKey PROVE key \in DOMAIN registry
    OBVIOUS
  <2> HIDE DEF registry
  <2> QED BY ResolvedFrom
<1> HIDE DEF o, registry, key
<1>6. m.context # 0 => o.context = m.context
  BY <1>4
<1>7. m.context = 0 /\ key # NoKey /\ stating # {} =>
        o.context = Says(read, Sources[least], key)[1].context /\ o.from = Sources[least]
  <2> SUFFICES ASSUME m.context = 0, key # NoKey, stating # {}
               PROVE  o.context = Says(read, Sources[least], key)[1].context /\ o.from = Sources[least]
    OBVIOUS
  <2>1. least \in stating /\ \A j \in stating : least <= j BY <1>3
  <2>2. Says(read, Sources[least], key)[1].context # 0 BY <2>1 DEF ContextSources
  <2> HIDE DEF least
  <2>3. registry[key].context = Says(read, Sources[least], key)[1].context /\ registry[key].from.context = Sources[least]
    BY <1>1, <1>2, <1>5, <2>1 DEF Believes, stating
  <2> QED BY <1>4, <2>2, <2>3
<1>8. m.context = 0 /\ (key = NoKey \/ stating = {}) => o.context = IF m.local THEN LocalContext ELSE 0
  <2>1. key # NoKey /\ stating = {} => registry[key].context = 0
    BY <1>1, <1>2, <1>5 DEF Believes, stating
  <2> QED BY <1>4, <2>1
<1>9. key # NoKey /\ litellm # <<>> /\ litellm[1].streams # "silent" => o.streaming = litellm[1].streams
  BY <1>1, <1>4, <1>5 DEF Believes, litellm
<1> HIDE DEF stating, least, litellm
<1> QED BY <1>4, <1>6, <1>7, <1>8, <1>9 DEF FirstIsBelieved, o, registry, stating, least, litellm

\* A price is the primary source's where it has one.
LEMMA PriceListIs ==
  ASSUME NEW source, NEW payload \in Seq(Listing)
  PROVE  LET of(key) == {i \in DOMAIN payload : HasPrice(payload[i]) /\ <<CatalogKey(payload[i].section), WithoutPrefix(payload[i])>> = key}
             f == PriceList(source, payload)
         IN \A key : /\ key \in DOMAIN f <=> of(key) # {}
                     /\ key \in DOMAIN f => f[key].source = source /\ \E i \in of(key) : payload[i].cost = f[key].cost
<1> DEFINE keyOf(i) == <<CatalogKey(payload[i].section), WithoutPrefix(payload[i])>>
           pairs == [i \in DOMAIN payload |-> <<keyOf(i), [cost |-> payload[i].cost, source |-> source]>>]
           at == {i \in DOMAIN payload : HasPrice(payload[i])}
           f == PriceList(source, payload)
<1>1. DOMAIN payload = 1..Len(payload) /\ Len(payload) \in Nat
  OBVIOUS
<1>2. /\ Len(pairs) = Len(payload)
      /\ \A i \in DOMAIN payload : pairs[i][1] = keyOf(i) /\ pairs[i][2].cost = payload[i].cost /\ pairs[i][2].source = source
  <2> HIDE DEF keyOf
  <2> QED BY <1>1
<1>3. f = Filled(pairs, at)
  BY DEF PriceList
<1> HIDE DEF pairs, f, keyOf
<1>4. Fills(f, pairs, at)
  <2>1. at \in SUBSET (1..Len(pairs)) BY <1>1, <1>2
  <2> HIDE DEF at
  <2> QED BY <1>1, <1>2, <1>3, <2>1, FilledIs
<1>5. ASSUME NEW key
      PROVE  /\ key \in DOMAIN f <=> {i \in DOMAIN payload : HasPrice(payload[i]) /\ keyOf(i) = key} # {}
             /\ key \in DOMAIN f => f[key].source = source
                                    /\ \E i \in {i \in DOMAIN payload : HasPrice(payload[i]) /\ keyOf(i) = key} : payload[i].cost = f[key].cost
  <2> DEFINE of == {i \in DOMAIN payload : HasPrice(payload[i]) /\ keyOf(i) = key}
  <2>1. key \in DOMAIN f <=> \E i \in at : pairs[i][1] = key
    <3> HIDE DEF at
    <3> QED BY <1>4 DEF Fills
  <2>2. key \in DOMAIN f => \E i \in at : pairs[i][1] = key /\ f[key] = pairs[i][2]
    <3> HIDE DEF at
    <3> QED BY <1>4 DEF Fills
  <2>3. \A i : i \in of <=> i \in at /\ pairs[i][1] = key BY <1>2
  <2>4. \A i \in at : pairs[i][2].cost = payload[i].cost /\ pairs[i][2].source = source BY <1>2
  <2> HIDE DEF of, at
  <2>5. key \in DOMAIN f <=> of # {} BY <2>1, <2>3
  <2>6. key \in DOMAIN f => f[key].source = source /\ \E i \in of : payload[i].cost = f[key].cost
    BY <2>2, <2>3, <2>4
  <2> QED BY <2>5, <2>6 DEF of
<1> QED BY <1>5 DEF f, keyOf

LEMMA PricesPrimary ==
  ASSUME NEW read \in Payloads, NEW m \in PricedModels(Prices(read))
  PROVE  PrimaryFirst(read, m, Prices(read)[<<CatalogKey(m.provider), m.id>>])
<1> DEFINE key == <<CatalogKey(m.provider), m.id>>
           of(s) == {i \in DOMAIN read[s] : LET l == read[s][i] IN
                       CatalogKey(l.section) = CatalogKey(m.provider) /\ WithoutPrefix(l) = m.id /\ l.cost # <<>>}
           list(s) == PriceList(s, read[s])
           price == Prices(read)[key]
<1>1. key \in DOMAIN Prices(read)
  BY DEF PricedModels
<1>2. /\ DOMAIN Prices(read) = DOMAIN list("models.dev") \cup DOMAIN list("litellm")
      /\ \A k \in DOMAIN Prices(read) : Prices(read)[k] = IF k \in DOMAIN list("models.dev") THEN list("models.dev")[k] ELSE list("litellm")[k]
  BY DEF Prices
<1>3. \A s \in {"models.dev", "litellm"} : \A k : LET at == {i \in DOMAIN read[s] : HasPrice(read[s][i]) /\ <<CatalogKey(read[s][i].section), WithoutPrefix(read[s][i])>> = k}
             IN /\ k \in DOMAIN list(s) <=> at # {}
                /\ k \in DOMAIN list(s) => list(s)[k].source = s /\ \E i \in at : read[s][i].cost = list(s)[k].cost
  <2> SUFFICES ASSUME NEW s \in {"models.dev", "litellm"}
               PROVE  \A k : LET at == {i \in DOMAIN read[s] : HasPrice(read[s][i]) /\ <<CatalogKey(read[s][i].section), WithoutPrefix(read[s][i])>> = k}
                             IN /\ k \in DOMAIN list(s) <=> at # {}
                                /\ k \in DOMAIN list(s) => list(s)[k].source = s /\ \E i \in at : read[s][i].cost = list(s)[k].cost
    OBVIOUS
  <2>1. read[s] \in Seq(Listing) BY SourcesAre DEF Payloads
  <2> QED BY <2>1, PriceListIs
<1>4. CatalogKey(m.provider) \in Trusted
  <2>1. PICK s \in {"models.dev", "litellm"} : key \in DOMAIN list(s) BY <1>1, <1>2
  <2>2. \E i \in DOMAIN read[s] : HasPrice(read[s][i]) /\ <<CatalogKey(read[s][i].section), WithoutPrefix(read[s][i])>> = key
    BY <1>3, <2>1
  <2> QED BY <2>2 DEF HasPrice
<1>5. \A s : {i \in DOMAIN read[s] : HasPrice(read[s][i]) /\ <<CatalogKey(read[s][i].section), WithoutPrefix(read[s][i])>> = key} = of(s)
  BY <1>4 DEF HasPrice
<1> HIDE DEF list, of, key
<1>6. \A s \in {"models.dev", "litellm"} :
        /\ key \in DOMAIN list(s) <=> of(s) # {}
        /\ key \in DOMAIN list(s) => list(s)[key].source = s /\ \E i \in of(s) : read[s][i].cost = list(s)[key].cost
  BY <1>3, <1>5
<1>7. CASE key \in DOMAIN list("models.dev")
  <2>1. price = list("models.dev")[key] BY <1>1, <1>2, <1>7
  <2>2. of("models.dev") # {} /\ price.source = "models.dev" /\ \E i \in of("models.dev") : read["models.dev"][i].cost = price.cost
    BY <1>6, <1>7, <2>1
  <2> HIDE DEF price
  <2> QED BY <2>2 DEF PrimaryFirst, of, price, key
<1>8. CASE key \notin DOMAIN list("models.dev")
  <2>1. price = list("litellm")[key] /\ key \in DOMAIN list("litellm") BY <1>1, <1>2, <1>8
  <2>2. of("models.dev") = {} /\ price.source = "litellm" /\ \E i \in of("litellm") : read["litellm"][i].cost = price.cost
    BY <1>6, <1>8, <2>1
  <2> HIDE DEF price
  <2> QED BY <2>2 DEF PrimaryFirst, of, price, key
<1> QED BY <1>7, <1>8

----------------------------------------------------------------------------
(* The invariant of ModelCatalogs. *)

Names == ToSet(Sources)

Asked == [state : {"none", "waiting", "read", "failed"}, payload : Seq(Listing), stale : BOOLEAN, old : Nat]
Cached == [has : BOOLEAN, payload : Seq(Listing), age : 0..TTL, old : 0..TTL, inflight : BOOLEAN]

\* What a job has read of the sources.
Reading(x) == [s \in Names |-> x.read[s].payload]

\* Only a payload kept from before a failed fetch may be older than the TTL.
InTime(got) == got.state = "read" /\ ~got.stale => got.old < TTL

\* What a job that is done has made of what it read.
Heeds(x) ==
  /\ \A i \in DOMAIN x.learned : LET o == x.learned[i]
                                IN NotGuessed(Reading(x), o.model, o.entry) /\ FirstIsBelieved(Reading(x), o.model, o.entry)
  /\ \A m \in DOMAIN x.prices : PrimaryFirst(Reading(x), m, x.prices[m])

Reads(x) ==
  /\ DOMAIN x = {"kind", "state", "read", "learned", "prices"}
  /\ x.kind \in {"none", "registry", "prices"} /\ x.state \in {"idle", "reading", "done"}
  /\ x.read \in [Names -> Asked]
  /\ \A s \in Names : InTime(x.read[s])
  /\ x.state = "reading" => DOMAIN x.prices = {}
  /\ x.kind = "prices" => DOMAIN x.learned = {}
  /\ x.state = "done" => Heeds(x) /\ \A s \in Names : x.read[s].state # "waiting"

CatalogsInv ==
  /\ offered \in [Names -> Seq(Listing)] /\ \A s \in Names : offered[s] \in Offers[s]
  /\ cache \in [on : BOOLEAN, of : [Names -> Cached]]
  /\ \A s \in Names : cache.of[s].old = cache.of[s].age
  /\ DOMAIN readers = Readers /\ \A r \in Readers : Reads(readers[r])

LEMMA CatalogsNumbers == TTL \in Nat /\ TTL > 0 /\ 0 \in 0..TTL
  BY CatalogsAssumption

\* What is offered is a sequence of listings.
LEMMA OffersAre == \A s \in Names : \A payload \in Offers[s] : payload \in Seq(Listing)
  BY CatalogsAssumption DEF Names

LEMMA IdleReads == Reads(IdleReader)
<1>1. NotAsked \in Asked /\ InTime(NotAsked)
  <2>1. <<>> \in Seq(Listing) OBVIOUS
  <2> QED BY <2>1 DEF NotAsked, Asked, InTime
<1> HIDE DEF NotAsked
<1> QED BY <1>1 DEF IdleReader, Reads, NoRead, Names

LEMMA NoPayloadCached == NoPayload \in Cached /\ NoPayload.old = NoPayload.age
  BY CatalogsNumbers DEF NoPayload, Cached

LEMMA CatalogsInvInit == CatalogsInit => CatalogsInv
<1> SUFFICES ASSUME CatalogsInit PROVE CatalogsInv
  OBVIOUS
<1>1. offered \in [Names -> Seq(Listing)] /\ \A s \in Names : offered[s] \in Offers[s]
  <2>1. offered \in [Names -> UNION {Offers[s] : s \in Names}] /\ \A s \in Names : offered[s] \in Offers[s]
    BY DEF CatalogsInit, Names
  <2> QED BY <2>1, OffersAre
<1>2. cache \in [on : BOOLEAN, of : [Names -> Cached]] /\ \A s \in Names : cache.of[s].old = cache.of[s].age
  <2>1. cache \in [on : BOOLEAN, of : {[s \in Names |-> NoPayload]}] BY DEF CatalogsInit, Names
  <2> HIDE DEF NoPayload
  <2> QED BY <2>1, NoPayloadCached
<1>3. DOMAIN readers = Readers /\ \A r \in Readers : Reads(readers[r])
  BY IdleReads DEF CatalogsInit
<1> QED BY <1>1, <1>2, <1>3 DEF CatalogsInv

\* A job is told what came of a fetch it waits for.
LEMMA ToldReads ==
  ASSUME NEW x, Reads(x), NEW s \in Names, x.read[s].state = "waiting", NEW got \in Asked, InTime(got)
  PROVE  Reads([x EXCEPT !.read[s] = got])
<1> DEFINE y == [x EXCEPT !.read[s] = got]
<1>1. /\ DOMAIN y = DOMAIN x /\ y.kind = x.kind /\ y.state = x.state /\ y.learned = x.learned /\ y.prices = x.prices
      /\ y.read = [x.read EXCEPT ![s] = got]
  BY DEF Reads
<1>2. y.read \in [Names -> Asked] /\ \A t \in Names : InTime(y.read[t])
  <2>1. y.read \in [Names -> Asked] BY <1>1 DEF Reads
  <2>2. \A t \in Names : y.read[t] = IF t = s THEN got ELSE x.read[t] BY <1>1 DEF Reads
  <2> HIDE DEF y
  <2> QED BY <2>1, <2>2 DEF Reads
<1>3. x.state # "done"
  BY DEF Reads
<1> HIDE DEF y
<1>4. Reads(y) BY <1>1, <1>2, <1>3 DEF Reads
<1> QED BY <1>4 DEF y

\* The jobs that are told, each of which waits.
LEMMA ToldKeeps ==
  ASSUME CatalogsInv, NEW s \in Names, NEW waiting \in SUBSET WaitingFor(s), NEW got \in Asked, InTime(got), Told(s, waiting, got)
  PROVE  DOMAIN readers' = Readers /\ \A r \in Readers : Reads(readers'[r])
<1>1. readers' = [r \in Readers |-> IF r \in waiting THEN [readers[r] EXCEPT !.read[s] = got] ELSE readers[r]]
  BY DEF Told
<1>2. ASSUME NEW r \in Readers PROVE Reads(readers'[r])
  <2>1. CASE r \in waiting
    <3>1. readers[r].read[s].state = "waiting" BY <2>1 DEF WaitingFor
    <3>2. Reads(readers[r]) BY DEF CatalogsInv
    <3>3. Reads([readers[r] EXCEPT !.read[s] = got]) BY <3>1, <3>2, ToldReads
    <3> QED BY <1>1, <2>1, <3>3
  <2>2. CASE r \notin waiting
    BY <1>1, <2>2 DEF CatalogsInv
  <2> QED BY <2>1, <2>2
<1> QED BY <1>1, <1>2

LEMMA BeginKeeps ==
  ASSUME CatalogsInv, NEW r \in Readers, NEW kind \in {"registry", "prices"}, NEW list, kind = "prices" => list = <<>>,
         BeginRead(r, kind, list)
  PROVE  CatalogsInv'
<1> DEFINE learned == [i \in DOMAIN list |-> [model |-> list[i], entry |-> <<>>]]
           read == [s \in Names |->
                      CASE s \notin Wanted(kind) -> NotAsked
                        [] s \in Wanted(kind) /\ FreshPayload(s) ->
                             [state |-> "read", payload |-> cache.of[s].payload, stale |-> FALSE, old |-> cache.of[s].old]
                        [] OTHER -> [NotAsked EXCEPT !.state = "waiting"]]
           x == [IdleReader EXCEPT !.kind = kind, !.state = "reading", !.learned = learned, !.read = read]
<1>1. readers' = [readers EXCEPT ![r] = x] /\ offered' = offered
  BY DEF BeginRead, Names
<1>2. \A s \in Names : read[s] \in Asked /\ InTime(read[s])
  <2> SUFFICES ASSUME NEW s \in Names PROVE read[s] \in Asked /\ InTime(read[s])
    OBVIOUS
  <2>1. cache.of[s] \in Cached /\ cache.of[s].old = cache.of[s].age BY DEF CatalogsInv
  <2>2. <<>> \in Seq(Listing) OBVIOUS
  <2>3. CASE s \notin Wanted(kind)
    <3>1. read[s] = NotAsked BY <2>3
    <3> QED BY <2>2, <3>1 DEF NotAsked, Asked, InTime
  <2>4. CASE s \in Wanted(kind) /\ FreshPayload(s)
    <3>1. read[s] = [state |-> "read", payload |-> cache.of[s].payload, stale |-> FALSE, old |-> cache.of[s].old] BY <2>4
    <3>2. cache.of[s].old < TTL BY <2>1, <2>4 DEF FreshPayload
    <3>3. cache.of[s].payload \in Seq(Listing) /\ cache.of[s].old \in Nat BY <2>1, CatalogsNumbers DEF Cached
    <3> HIDE DEF read
    <3> QED BY <3>1, <3>2, <3>3 DEF Asked, InTime
  <2>5. CASE s \in Wanted(kind) /\ ~FreshPayload(s)
    <3>1. read[s] = [NotAsked EXCEPT !.state = "waiting"] BY <2>5
    <3> QED BY <2>2, <3>1 DEF NotAsked, Asked, InTime
  <2> QED BY <2>3, <2>4, <2>5
<1>3. Reads(x)
  <2>1. read \in [Names -> Asked]
    <3>1. read = [s \in Names |-> read[s]] OBVIOUS
    <3> HIDE DEF read
    <3> QED BY <1>2, <3>1
  <2>1a. kind = "prices" => DOMAIN learned = {}
    OBVIOUS
  <2> HIDE DEF read, learned
  <2>2. /\ DOMAIN x = {"kind", "state", "read", "learned", "prices"} /\ x.kind = kind /\ x.state = "reading" /\ x.read = read
        /\ x.learned = learned /\ x.prices = <<>>
    BY DEF IdleReader
  <2>3. DOMAIN x.prices = {} BY <2>2
  <2> HIDE DEF x
  <2> QED BY <1>2, <2>1, <2>1a, <2>2, <2>3 DEF Reads
<1> HIDE DEF x
<1>4. DOMAIN readers' = Readers /\ \A t \in Readers : Reads(readers'[t])
  BY <1>1, <1>3 DEF CatalogsInv
<1>5. cache' \in [on : BOOLEAN, of : [Names -> Cached]] /\ \A s \in Names : cache'.of[s].old = cache'.of[s].age
  <2> DEFINE asks(s) == cache.on /\ s \in Wanted(kind) /\ ~FreshPayload(s)
             of == [s \in Names |-> Awaited(cache.of[s], asks(s))]
  <2>1. cache' = [cache EXCEPT !.of = of]
    BY DEF BeginRead, Names
  <2>2. ASSUME NEW s \in Names PROVE of[s] \in Cached /\ of[s].old = of[s].age
    <3>1. cache.of[s] \in Cached /\ cache.of[s].old = cache.of[s].age BY DEF CatalogsInv
    <3> DEFINE inflight == cache.of[s].inflight \/ asks(s)
    <3>2. inflight \in BOOLEAN BY Zenon
    <3>3. of[s] = [cache.of[s] EXCEPT !.inflight = inflight] BY DEF Awaited
    <3> HIDE DEF asks, of, inflight
    <3> QED BY <3>1, <3>2, <3>3 DEF Cached
  <2>3. of \in [Names -> Cached]
    <3>1. of = [s \in Names |-> of[s]] OBVIOUS
    <3> HIDE DEF of
    <3> QED BY <2>2, <3>1
  <2> HIDE DEF of
  <2>4. cache' \in [on : BOOLEAN, of : [Names -> Cached]] /\ cache'.of = of
    BY <2>1, <2>3 DEF CatalogsInv
  <2> QED BY <2>2, <2>4
<1> QED BY <1>1, <1>4, <1>5 DEF CatalogsInv

\* A fetch that fails leaves the last good payload, or none.
LEMMA FetchKeeps ==
  ASSUME CatalogsInv, NEW s \in Names, FetchAnswers(s) \/ FetchFails(s)
  PROVE  CatalogsInv'
<1>1. cache.of[s] \in Cached /\ cache.of[s].old = cache.of[s].age /\ offered[s] \in Seq(Listing) /\ offered' = offered
  BY DEF CatalogsInv, FetchAnswers, FetchFails
<1>2. PICK c \in Cached, got \in Asked :
        /\ c.old = c.age /\ cache' = [cache EXCEPT !.of[s] = c]
        /\ InTime(got) /\ Told(s, WaitingFor(s), got)
  <2>1. CASE FetchAnswers(s)
    <3> DEFINE c == [NoPayload EXCEPT !.has = TRUE, !.payload = offered[s]]
    <3>1. c \in Cached /\ c.old = c.age
      BY <1>1, CatalogsNumbers DEF NoPayload, Cached
    <3>2. FetchedPayload(s) \in Asked /\ InTime(FetchedPayload(s))
      BY <1>1, CatalogsNumbers DEF FetchedPayload, Asked, InTime
    <3> HIDE DEF c
    <3>3. cache' = [cache EXCEPT !.of[s] = c] /\ Told(s, WaitingFor(s), FetchedPayload(s))
      BY <2>1 DEF FetchAnswers, c
    <3> QED BY <3>1, <3>2, <3>3
  <2>2. CASE FetchFails(s) /\ cache.of[s].has
    <3> DEFINE c == cache.of[s]
               got == [state |-> "read", payload |-> c.payload, stale |-> TRUE, old |-> c.old]
    <3>1. KeptStale(c) \in Cached /\ KeptStale(c).old = KeptStale(c).age
      BY <1>1 DEF KeptStale, Cached
    <3>2. got \in Asked /\ InTime(got)
      <4>1. c.payload \in Seq(Listing) /\ c.old \in Nat BY <1>1, CatalogsNumbers DEF Cached
      <4> QED BY <4>1 DEF Asked, InTime
    <3> HIDE DEF got
    <3>3. cache' = [cache EXCEPT !.of[s] = KeptStale(c)] /\ Told(s, WaitingFor(s), got)
      BY <2>2 DEF FetchFails, got
    <3> QED BY <3>1, <3>2, <3>3
  <2>3. CASE FetchFails(s) /\ ~cache.of[s].has
    <3> DEFINE got == [NotAsked EXCEPT !.state = "failed"]
    <3>1. got \in Asked /\ InTime(got)
      <4>1. <<>> \in Seq(Listing) OBVIOUS
      <4> QED BY <4>1 DEF NotAsked, Asked, InTime
    <3> HIDE DEF got
    <3>2. cache' = [cache EXCEPT !.of[s] = NoPayload] /\ Told(s, WaitingFor(s), got)
      BY <2>3 DEF FetchFails, got
    <3> QED BY <3>1, <3>2, NoPayloadCached
  <2> QED BY <2>1, <2>2, <2>3
<1>3. cache' \in [on : BOOLEAN, of : [Names -> Cached]] /\ \A t \in Names : cache'.of[t].old = cache'.of[t].age
  <2>1. cache \in [on : BOOLEAN, of : [Names -> Cached]] /\ \A t \in Names : cache.of[t].old = cache.of[t].age
    BY DEF CatalogsInv
  <2>2. cache'.of = [cache.of EXCEPT ![s] = c] /\ cache' \in [on : BOOLEAN, of : [Names -> Cached]]
    BY <1>2, <2>1
  <2> QED BY <1>2, <2>1, <2>2
<1>4. DOMAIN readers' = Readers /\ \A r \in Readers : Reads(readers'[r])
  BY <1>2, ToldKeeps
<1> QED BY <1>1, <1>3, <1>4 DEF CatalogsInv

\* With the cache off a job is told of its own fetch.
LEMMA AloneKeeps ==
  ASSUME CatalogsInv, NEW r \in Readers, NEW s \in Names, AloneAnswers(r, s) \/ AloneFails(r, s)
  PROVE  CatalogsInv'
<1>1. offered' = offered /\ cache' = cache /\ {r} \in SUBSET WaitingFor(s) /\ offered[s] \in Seq(Listing)
  BY DEF AloneAnswers, AloneFails, CatalogsInv
<1>2. PICK got \in Asked : InTime(got) /\ Told(s, {r}, got)
  <2>1. CASE AloneAnswers(r, s)
    <3>1. FetchedPayload(s) \in Asked /\ InTime(FetchedPayload(s))
      BY <1>1, CatalogsNumbers DEF FetchedPayload, Asked, InTime
    <3> QED BY <2>1, <3>1 DEF AloneAnswers
  <2>2. CASE AloneFails(r, s)
    <3> DEFINE got == [NotAsked EXCEPT !.state = "failed"]
    <3>1. got \in Asked /\ InTime(got)
      <4>1. <<>> \in Seq(Listing) OBVIOUS
      <4> QED BY <4>1 DEF NotAsked, Asked, InTime
    <3> HIDE DEF got
    <3> QED BY <2>2, <3>1 DEF AloneFails, got
  <2> QED BY <2>1, <2>2
<1>3. DOMAIN readers' = Readers /\ \A t \in Readers : Reads(readers'[t])
  BY <1>1, <1>2, ToldKeeps
<1> QED BY <1>1, <1>3 DEF CatalogsInv

\* A job makes of what it read what Heeds says.
LEMMA DoneKeeps ==
  ASSUME CatalogsInv, NEW r \in Readers, Learn(r) \/ WritePrices(r) \/ NoPrices(r)
  PROVE  CatalogsInv'
<1> DEFINE x == readers[r]
           read == ReadBy(r)
<1>1. Reads(x) /\ DOMAIN readers = Readers /\ UNCHANGED <<offered, cache>>
  BY DEF CatalogsInv, Learn, WritePrices, NoPrices
<1>2. read = Reading(x) /\ read \in Payloads
  <2>1. x.read \in [Names -> Asked] BY <1>1 DEF Reads
  <2>2. \A s \in Names : x.read[s].payload \in Seq(Listing) BY <2>1 DEF Asked
  <2>3. read = [s \in Names |-> x.read[s].payload] BY DEF ReadBy, Names
  <2> HIDE DEF read, x
  <2> QED BY <2>2, <2>3 DEF Reading, Payloads, Names
<1> HIDE DEF read
<1>3. Reads(readers'[r]) /\ DOMAIN readers' = Readers /\ \A t \in Readers : t # r => readers'[t] = readers[t]
  <2>1. CASE Learn(r)
    <3> DEFINE learned == [i \in DOMAIN x.learned |->
                             [model |-> x.learned[i].model, entry |-> Enriched(Registry(read), x.learned[i].model)]]
               y == [x EXCEPT !.state = "done", !.learned = learned]
    <3>1. x.state = "reading" /\ x.kind = "registry" BY <2>1 DEF Learn, AllSettled
    <3>2. readers' = [readers EXCEPT ![r] = y]
      <4>1. readers' = [readers EXCEPT ![r].state = "done", ![r].learned = learned]
        <5> HIDE DEF learned
        <5> QED BY <2>1 DEF Learn, learned, read
      <4> HIDE DEF learned
      <4> QED BY <1>1, <4>1
    <3>3. DOMAIN y = DOMAIN x /\ y.kind = x.kind /\ y.state = "done" /\ y.read = x.read /\ y.learned = learned /\ y.prices = x.prices
      <4> HIDE DEF learned
      <4> QED BY <1>1 DEF Reads
    <3>4. \A i \in DOMAIN learned : LET o == learned[i] IN NotGuessed(read, o.model, o.entry) /\ FirstIsBelieved(read, o.model, o.entry)
      BY <1>2, EnrichedNotGuessed, EnrichedBelieved
    <3> HIDE DEF y, learned
    <3>5. DOMAIN x.prices = {} BY <1>1, <3>1 DEF Reads
    <3>6. Reading(y) = read BY <1>2, <3>3 DEF Reading
    <3>7. Heeds(y) BY <3>3, <3>4, <3>5, <3>6 DEF Heeds
    <3>8. \A s \in Names : x.read[s].state # "waiting"
      BY <2>1 DEF Learn, AllSettled, WaitingFor, Names
    <3>9. Reads(y) BY <1>1, <3>1, <3>3, <3>7, <3>8 DEF Reads
    <3> QED BY <1>1, <3>2, <3>9
  <2>2. CASE WritePrices(r)
    <3> DEFINE list == Prices(read)
               prices == [m \in PricedModels(list) |-> list[<<CatalogKey(m.provider), m.id>>]]
               y == [x EXCEPT !.state = "done", !.prices = prices]
    <3>1. x.state = "reading" /\ x.kind = "prices" BY <2>2 DEF WritePrices, AllSettled
    <3>2. readers' = [readers EXCEPT ![r] = y]
      <4>1. readers' = [readers EXCEPT ![r].state = "done", ![r].prices = prices]
        <5> HIDE DEF prices
        <5> QED BY <2>2 DEF WritePrices, prices, read
      <4> HIDE DEF prices
      <4> QED BY <1>1, <4>1
    <3>3. DOMAIN y = DOMAIN x /\ y.kind = x.kind /\ y.state = "done" /\ y.read = x.read /\ y.learned = x.learned /\ y.prices = prices
      <4> HIDE DEF prices
      <4> QED BY <1>1 DEF Reads
    <3>4. \A m \in DOMAIN prices : PrimaryFirst(read, m, prices[m])
      BY <1>2, PricesPrimary
    <3> HIDE DEF y, prices
    <3>5. DOMAIN x.learned = {} BY <1>1, <3>1 DEF Reads
    <3>6. Reading(y) = read BY <1>2, <3>3 DEF Reading
    <3>7. Heeds(y) BY <3>3, <3>4, <3>5, <3>6 DEF Heeds
    <3>8. \A s \in Names : x.read[s].state # "waiting"
      BY <2>2 DEF WritePrices, AllSettled, WaitingFor, Names
    <3>9. Reads(y) BY <1>1, <3>1, <3>3, <3>7, <3>8 DEF Reads
    <3> QED BY <1>1, <3>2, <3>9
  <2>3. CASE NoPrices(r)
    <3>1. readers' = [readers EXCEPT ![r] = IdleReader] BY <2>3 DEF NoPrices
    <3> QED BY <1>1, <3>1, IdleReads
  <2> QED BY <2>1, <2>2, <2>3
<1> QED BY <1>1, <1>3 DEF CatalogsInv

LEMMA AgeKeeps ==
  ASSUME CatalogsInv, CacheAges
  PROVE  CatalogsInv'
<1> DEFINE of == [s \in Names |-> Aged(cache.of[s])]
<1>1. cache' = [cache EXCEPT !.of = of] /\ UNCHANGED <<offered, readers>>
  BY DEF CacheAges, Names
<1>2. ASSUME NEW s \in Names PROVE of[s] \in Cached /\ of[s].old = of[s].age
  <2> DEFINE c == cache.of[s]
  <2>1. c \in Cached /\ c.old = c.age BY DEF CatalogsInv
  <2>2. of[s] = Aged(c) OBVIOUS
  <2> HIDE DEF c, of
  <2>3. Tick(c.age) \in 0..TTL /\ Tick(c.old) \in 0..TTL
    <3>1. c.age \in 0..TTL /\ c.old \in 0..TTL BY <2>1 DEF Cached
    <3> QED BY <3>1, CatalogsNumbers DEF Tick
  <2>4. CASE c.has
    <3>1. Aged(c) = [c EXCEPT !.age = Tick(c.age), !.old = Tick(c.old)] BY <2>4 DEF Aged
    <3> QED BY <2>1, <2>2, <2>3, <3>1 DEF Cached
  <2>5. CASE ~c.has
    BY <2>1, <2>2, <2>5 DEF Aged
  <2> QED BY <2>4, <2>5
<1>3. of \in [Names -> Cached]
  <2>1. of = [s \in Names |-> of[s]] OBVIOUS
  <2> HIDE DEF of
  <2> QED BY <1>2, <2>1
<1> HIDE DEF of
<1>4. cache' \in [on : BOOLEAN, of : [Names -> Cached]] /\ cache'.of = of
  BY <1>1, <1>3 DEF CatalogsInv
<1> QED BY <1>1, <1>2, <1>4 DEF CatalogsInv

LEMMA ChangeKeeps ==
  ASSUME CatalogsInv, NEW s \in Names, CatalogChanges(s)
  PROVE  CatalogsInv'
<1>1. PICK payload \in Offers[s] : offered' = [offered EXCEPT ![s] = payload]
  BY DEF CatalogChanges
<1>2. UNCHANGED <<cache, readers>>
  BY DEF CatalogChanges
<1>3. payload \in Seq(Listing)
  BY OffersAre
<1> QED BY <1>1, <1>2, <1>3 DEF CatalogsInv

LEMMA RestartKeeps ==
  ASSUME CatalogsInv, WorkerRestarts
  PROVE  CatalogsInv'
<1> DEFINE of == [s \in Names |-> NoPayload]
<1>1. cache' = [cache EXCEPT !.of = of] /\ readers' = [r \in Readers |-> IdleReader] /\ offered' = offered
  BY DEF WorkerRestarts, Names
<1>2. of \in [Names -> Cached] /\ \A s \in Names : of[s].old = of[s].age
  BY NoPayloadCached
<1> HIDE DEF of
<1>3. cache' \in [on : BOOLEAN, of : [Names -> Cached]] /\ cache'.of = of
  BY <1>1, <1>2 DEF CatalogsInv
<1> QED BY <1>1, <1>2, <1>3, IdleReads DEF CatalogsInv

LEMMA CatalogsInvNext == CatalogsInv /\ [CatalogsNext]_catalogsVars => CatalogsInv'
<1> SUFFICES ASSUME CatalogsInv, [CatalogsNext]_catalogsVars PROVE CatalogsInv'
  OBVIOUS
<1>1. CASE UNCHANGED catalogsVars
  BY <1>1 DEF catalogsVars, CatalogsInv
<1>2. CASE \E r \in Readers : BeginRead(r, "prices", <<>>) \/ \E list \in Lists : BeginRead(r, "registry", ListedBy(list))
  <2>1. PICK r \in Readers : BeginRead(r, "prices", <<>>) \/ \E list \in Lists : BeginRead(r, "registry", ListedBy(list))
    BY <1>2
  <2>2. CASE BeginRead(r, "prices", <<>>) BY <2>2, BeginKeeps
  <2>3. CASE \E list \in Lists : BeginRead(r, "registry", ListedBy(list))
    <3>1. PICK list \in Lists : BeginRead(r, "registry", ListedBy(list)) BY <2>3
    <3> QED BY <3>1, BeginKeeps
  <2> QED BY <2>1, <2>2, <2>3
<1>3. CASE \E r \in Readers : Learn(r) \/ WritePrices(r) \/ NoPrices(r)
  BY <1>3, DoneKeeps
<1>4. CASE \E s \in Names : FetchAnswers(s) \/ FetchFails(s)
  BY <1>4, FetchKeeps
<1>5. CASE \E s \in Names : CatalogChanges(s)
  BY <1>5, ChangeKeeps
<1>6. CASE \E r \in Readers, s \in Names : AloneAnswers(r, s) \/ AloneFails(r, s)
  BY <1>6, AloneKeeps
<1>7. CASE CacheAges BY <1>7, AgeKeeps
<1>8. CASE WorkerRestarts BY <1>8, RestartKeeps
<1> QED BY <1>1, <1>2, <1>3, <1>4, <1>5, <1>6, <1>7, <1>8 DEF CatalogsNext, Names

\* The catalogs keep their invariant: payloads are what a source offered at some time, the
\* age of a cached one is the time since it was fetched, and a job that is done heeds what
\* it read.
THEOREM CatalogsInvHolds == CatalogsSpec => []CatalogsInv
BY CatalogsInvInit, CatalogsInvNext, PTL DEF CatalogsSpec

LEMMA CatalogsInvIsTyped == CatalogsInv => CatalogsTypeOK
BY DEF CatalogsInv, CatalogsTypeOK, Cached, Reads, Names

\* What is offered is one of the offers, ages stay within the TTL and jobs are of their
\* kinds and in their states.
THEOREM CatalogsTyped == CatalogsSpec => []CatalogsTypeOK
BY CatalogsInvIsTyped, CatalogsInvHolds, PTL

\* Whatever the sources publish, fail to answer or change, a model's metadata is nobody's
\* guess and the first source's that states it, a price is the primary source's where it
\* has one, and only a job whose own fetch failed works on a payload older than the TTL
\* (price-source.ts, model-list.ts, worker-model-refresh.ts, worker-price-sync.ts).
THEOREM CatalogsHeeded == CatalogsSpec => []CatalogsAreHeeded
<1>1. CatalogsInv => CatalogsAreHeeded
  <2> SUFFICES ASSUME CatalogsInv, NEW r \in Readers
               PROVE  LET read == ReadBy(r)
                      IN /\ \A s \in ToSet(Sources) : readers[r].read[s].state = "read" /\ ~readers[r].read[s].stale => readers[r].read[s].old < TTL
                         /\ readers[r].state = "done" =>
                              /\ \A i \in DOMAIN readers[r].learned :
                                   LET o == readers[r].learned[i]
                                   IN NotGuessed(read, o.model, o.entry) /\ FirstIsBelieved(read, o.model, o.entry)
                              /\ \A m \in DOMAIN readers[r].prices : PrimaryFirst(read, m, readers[r].prices[m])
    BY Zenon DEF CatalogsAreHeeded
  <2>1. Reads(readers[r]) BY DEF CatalogsInv
  <2>2. ReadBy(r) = Reading(readers[r]) BY DEF ReadBy, Reading, Names
  <2> QED BY <2>1, <2>2 DEF Reads, InTime, Heeds, Names
<1> QED BY <1>1, CatalogsInvHolds, PTL

=============================================================================
