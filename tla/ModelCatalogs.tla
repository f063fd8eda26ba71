---------------------------- MODULE ModelCatalogs ----------------------------
(***************************************************************************)
(* What a worker learns of its providers' models: the public catalogs it   *)
(* fetches through a cache (cachedFetchJson), the registry and the prices   *)
(* it makes of them (price-source.ts), the metadata a model refresh gives   *)
(* each listed model (worker-model-refresh.ts) and the prices a price sync  *)
(* writes (worker-price-sync.ts).  How a refresh and an operator's edit     *)
(* then meet in provider_models is Catalog.                                 *)
(*                                                                         *)
(* A model id is a pair of its vendor prefix ("" when it has none) and its  *)
(* name; of the fields of a model there are one answered yes or no, one     *)
(* number and streaming, which is often only inferred.                      *)
(***************************************************************************)
EXTENDS Naturals, FiniteSets, SequencesExt

CONSTANTS
  Readers,       \* jobs that read the catalogs
  Offers,        \* [each source -> what it may publish: sequences of listings]
  Aliases,       \* providerKeyAliases
  Trusted,       \* providers of the price-sync allowlist
  HostPrefixes,  \* prefixes normalizeLiteLlmModelId always removes
  Lists,         \* answers of providers to their model list
  LocalContext,  \* defaultLocalProviderContextWindow
  SlugContext,   \* the window a list of slugs leaves out
  TTL,           \* WORKER_MODEL_CATALOG_CACHE_TTL_MS, in ticks
  MaxReleases,   \* bound: changes of what a source publishes
  MaxFetchFaults \* bound: fetches that fail

Sources == <<"models.dev", "openrouter", "litellm", "vercel">>
PriceSources == <<"models.dev", "litellm">>

\* A listing: its section, its model and what it states; its cost is <<>> when it has none.
Listing == [section : STRING, id : STRING \X STRING, tools : {"yes", "no", "silent"}, context : Nat,
            text : STRING, streams : {"yes", "no", "silent"}, cost : Seq(Nat)]

ASSUME CatalogsAssumption ==
  /\ Offers \in [ToSet(Sources) -> SUBSET Seq(Listing)]
  /\ TTL \in Nat \ {0} /\ MaxReleases \in Nat /\ MaxFetchFaults \in Nat

VARIABLES
  offered, \* what each source publishes now
  cache,     \* catalogCache, and whether it is on
  readers,   \* the jobs, what they read and what they made of it
  happened   \* releases and faults so far

catalogsVars == <<offered, cache, readers, happened>>

(***************************************************************************)
(* Names.                                                                  *)
(***************************************************************************)
\* resolveRegistryCatalogKey: a section that is not in the allowlist keeps its name.
CatalogKey(section) == IF section \in DOMAIN Aliases THEN Aliases[section] ELSE section

\* stripProviderModelPrefix
Stripped(id, keys) == IF id[1] \in keys \cup HostPrefixes THEN <<"", id[2]>> ELSE id

(***************************************************************************)
(* The list of a provider: entries in the style of slugs, names or ids.     *)
(***************************************************************************)
\* parseProviderModelList, normalizeProviderModelList: a list of slugs names what is
\* hidden, and its models have a window and tools in any case.
ParsedList(list) ==
  LET shown == SelectSeq(list.entries, LAMBDA e : list.style # "slug" \/ e.shown)
      named(id) == IF list.provider = "google" /\ id[1] = "models" THEN <<"", id[2]>> ELSE id
  IN [i \in DOMAIN shown |->
        LET e == shown[i]
        IN [provider |-> list.provider, local |-> list.local, id |-> named(e.id), display |-> named(e.display),
            tools |-> IF list.style = "slug" THEN "yes" ELSE e.tools,
            context |-> IF list.style = "slug" /\ e.context = 0 THEN SlugContext ELSE e.context]]

\* enrichLlamaCppProviderModels: the properties of the server, when it answers.
WithProps(list) ==
  [i \in DOMAIN ParsedList(list) |->
     LET m == ParsedList(list)[i]
     IN [m EXCEPT !.context = IF @ = 0 THEN list.props.context ELSE @,
                  !.tools = IF list.props.tools = "silent" THEN @ ELSE list.props.tools]]

\* deduplicateListedModels: the first of an id stays.
ListedBy(list) ==
  LET all == WithProps(list)
  IN FoldLeft(LAMBDA kept, m : IF \E i \in DOMAIN kept : kept[i].id = m.id THEN kept ELSE Append(kept, m), <<>>, all)

\* The live rows of provider_models.
ModelRows == UNION {{[provider |-> m.provider, id |-> m.id] : m \in ToSet(ListedBy(list))} : list \in Lists}

(***************************************************************************)
(* The registry.                                                           *)
(***************************************************************************)
\* inferStreamingSupport: what is not stated is told from the mode, type or output.
Streaming(stated, text) ==
  CASE stated # "silent" -> [value |-> stated, inferred |-> FALSE]
    [] stated = "silent" /\ text = "opaque" -> [value |-> "silent", inferred |-> FALSE]
    [] OTHER -> [value |-> IF text = "chat" THEN "yes" ELSE "no", inferred |-> TRUE]

\* The key and the fields of a listing, and registrySources of the fields it states.
EntryOf(source, l, id, tools, streams) ==
  LET streaming == Streaming(streams, l.text)
  IN <<<<CatalogKey(l.section), id>>,
       [tools |-> tools, context |-> l.context, streaming |-> streaming.value, inferred |-> streaming.inferred,
        from |-> [tools |-> IF tools = "silent" THEN "none" ELSE source,
                  context |-> IF l.context = 0 THEN "none" ELSE source,
                  streaming |-> IF streaming.value = "silent" THEN "none" ELSE source]]>>

WithoutPrefix(l) == Stripped(l.id, {l.section, CatalogKey(l.section)})

\* models.dev keeps the prefix of an id and says nothing of what it leaves out: for the
\* others that is a no.  Only LiteLLM states streaming.
ModelsDevEntry(l) == EntryOf("models.dev", l, l.id, l.tools, "silent")
OpenRouterEntry(l) == EntryOf("openrouter", l, WithoutPrefix(l), IF l.tools = "yes" THEN "yes" ELSE "no", "silent")
LiteLlmEntry(l) == EntryOf("litellm", l, WithoutPrefix(l), IF l.tools = "yes" THEN "yes" ELSE "no", l.streams)
VercelEntry(l) == EntryOf("vercel", l, WithoutPrefix(l), IF l.tools = "yes" THEN "yes" ELSE "no", "silent")

Entry(source, l) ==
  CASE source = "models.dev" -> ModelsDevEntry(l)
    [] source = "openrouter" -> OpenRouterEntry(l)
    [] source = "litellm" -> LiteLlmEntry(l)
    [] source = "vercel" -> VercelEntry(l)

\* A map filled with some of these pairs of a key and a value, in turn: of two with one
\* key the last stays.
Put(f, pair) == [key \in DOMAIN f \cup {pair[1]} |-> IF key = pair[1] THEN pair[2] ELSE f[key]]
Filled(pairs, at) ==
  LET map[n \in 0..Len(pairs)] ==
        IF n = 0 THEN <<>> ELSE IF n \in at THEN Put(map[n - 1], pairs[n]) ELSE map[n - 1]
  IN map[Len(pairs)]

Entries(source, payload) == Filled([i \in DOMAIN payload |-> Entry(source, payload[i])], DOMAIN payload)

\* mergeMissingRegistryFields: the first to state a field is kept, except that a
\* source that does not infer its streaming replaces one that was inferred.
MergedEntry(target, source) ==
  LET takes == target.streaming = "silent" \/ (target.inferred /\ ~source.inferred)
      first(a, b) == IF a # "none" THEN a ELSE b
  IN [tools |-> IF target.tools = "silent" THEN source.tools ELSE target.tools,
      context |-> IF target.context = 0 THEN source.context ELSE target.context,
      streaming |-> IF takes THEN source.streaming ELSE target.streaming,
      inferred |-> IF takes THEN source.inferred ELSE target.inferred,
      from |-> [tools |-> first(target.from.tools, source.from.tools),
                context |-> first(target.from.context, source.from.context),
                streaming |-> IF takes THEN first(source.from.streaming, target.from.streaming)
                              ELSE first(target.from.streaming, source.from.streaming)]]

\* mergeProviderModelRegistryEntries over what was read, in the order of Sources.
Merged(f, g) ==
  [key \in DOMAIN f \cup DOMAIN g |->
     CASE key \notin DOMAIN g -> f[key]
       [] key \notin DOMAIN f -> g[key]
       [] OTHER -> MergedEntry(f[key], g[key])]

Registry(read) ==
  LET of(i) == Entries(Sources[i], read[Sources[i]])
  IN Merged(Merged(Merged(of(1), of(2)), of(3)), of(4))

(***************************************************************************)
(* Which entry describes a listed model: a key of the registry, or none.   *)
(***************************************************************************)
NoKey == <<"", <<"", "">>>>

\* findProviderModelRegistryEntry, which tries the id and then the display name
OwnKey(m, name) == <<CatalogKey(m.provider), Stripped(name, {CatalogKey(m.provider)})>>

\* findPrefixVendorRegistryEntry
VendorKeys(registry, m) ==
  IF m.id[1] = "" THEN {} ELSE {<<CatalogKey(m.id[1]), <<"", m.id[2]>>>>} \cap DOMAIN registry

\* crossCatalogCandidates
CrossNames(m) == <<m.id, <<"", m.id[2]>>, m.display, <<"", m.display[2]>>>>

Elsewhere(registry, m, name) == {key \in DOMAIN registry : key[2] = name /\ key[1] # CatalogKey(m.provider)}
TrustedOf(keys) == {key \in keys : key[1] \in Trusted}
One(keys) == \E key \in keys : keys = {key}

\* Mutation: a conflict of trusted catalogs is left to the others.
BestTierElse(keys) == IF One(TrustedOf(keys)) THEN TrustedOf(keys) ELSE keys \ TrustedOf(keys)

\* tier1, or tier2 when it is empty
BestTier(keys) == IF TrustedOf(keys) # {} THEN TrustedOf(keys) ELSE keys

\* findCrossCatalogRegistryEntry: the first name a trusted catalog or exactly one
\* other has decides; two that are equally good decide for none.
CrossKey(registry, m) ==
  LET hits(i) == Elsewhere(registry, m, CrossNames(m)[i])
      deciding == {i \in 1..4 : TrustedOf(hits(i)) # {} \/ One(hits(i))}
      best == BestTier(hits(CHOOSE i \in deciding : \A j \in deciding : i <= j))
  IN IF deciding = {} \/ ~One(best) THEN NoKey ELSE CHOOSE key \in best : TRUE

\* resolveProviderModelMetadataEntry
ResolvedKey(registry, m) ==
  IF OwnKey(m, m.id) \in DOMAIN registry THEN OwnKey(m, m.id)
  ELSE IF OwnKey(m, m.display) \in DOMAIN registry THEN OwnKey(m, m.display)
  ELSE IF VendorKeys(registry, m) # {} THEN CHOOSE key \in VendorKeys(registry, m) : TRUE
  ELSE CrossKey(registry, m)

\* enrichListedProviderModels: what the provider itself states goes first; a local
\* provider's model has a context window in any case.
Enriched(registry, m) ==
  LET key == ResolvedKey(registry, m)
      silent == [tools |-> "silent", context |-> 0, streaming |-> "silent", from |-> [context |-> "none"]]
      entry == IF key = NoKey THEN silent ELSE registry[key]
      context == IF m.context # 0 THEN m.context ELSE entry.context
  IN [key |-> key, crossed |-> key # NoKey /\ key[1] # m.provider,
      tools |-> IF m.tools # "silent" THEN m.tools ELSE entry.tools,
      context |-> IF context = 0 /\ m.local THEN LocalContext ELSE context,
      streaming |-> entry.streaming, from |-> entry.from.context]

(***************************************************************************)
(* Prices: of the allowlist, models.dev before LiteLLM.                    *)
(***************************************************************************)
HasPrice(l) == CatalogKey(l.section) \in Trusted /\ l.cost # <<>>
PriceList(source, payload) ==
  Filled([i \in DOMAIN payload |-> <<<<CatalogKey(payload[i].section), WithoutPrefix(payload[i])>>,
                                     [cost |-> payload[i].cost, source |-> source]>>],
         {i \in DOMAIN payload : HasPrice(payload[i])})

\* mergeProviderModelPrices
Prices(read) ==
  LET first == PriceList("models.dev", read["models.dev"])
      second == PriceList("litellm", read["litellm"])
  IN [key \in DOMAIN first \cup DOMAIN second |-> IF key \in DOMAIN first THEN first[key] ELSE second[key]]

\* The rows of provider_models a price is written to.
PricedModels(list) == {m \in ModelRows : <<CatalogKey(m.provider), m.id>> \in DOMAIN list}

(***************************************************************************)
(* The cache.                                                              *)
(***************************************************************************)
\* old counts ticks since the payload was fetched: it is not state of the code.
NoPayload == [has |-> FALSE, payload |-> <<>>, age |-> 0, old |-> 0, inflight |-> FALSE]
NotAsked == [state |-> "none", payload |-> <<>>, stale |-> FALSE, old |-> 0]
NoRead == [s \in ToSet(Sources) |-> NotAsked]
IdleReader == [kind |-> "none", state |-> "idle", read |-> NoRead, learned |-> <<>>, prices |-> <<>>]

CatalogsInit ==
  /\ offered \in [ToSet(Sources) -> UNION {Offers[s] : s \in ToSet(Sources)}]
  /\ \A s \in ToSet(Sources) : offered[s] \in Offers[s]
  /\ cache \in [on : BOOLEAN, of : {[s \in ToSet(Sources) |-> NoPayload]}]
  /\ readers = [r \in Readers |-> IdleReader]
  /\ happened = [releases |-> 0, faults |-> 0]

FreshPayload(s) == cache.on /\ cache.of[s].has /\ cache.of[s].age < TTL

Wanted(kind) == ToSet(IF kind = "registry" THEN Sources ELSE PriceSources)

Awaited(c, asked) == [c EXCEPT !.inflight = @ \/ asked]

\* A refresh has the provider's list, a price sync needs none.  The four, or two, calls of
\* cachedFetchJson run up to their fetch, or join the one in flight.
BeginRead(r, kind, list) ==
  /\ readers[r].state # "reading"
  /\ readers' = [readers EXCEPT ![r] = [IdleReader EXCEPT
       !.kind = kind, !.state = "reading",
       !.learned = [i \in DOMAIN list |-> [model |-> list[i], entry |-> <<>>]],
       !.read = [s \in ToSet(Sources) |->
                   CASE s \notin Wanted(kind) -> NotAsked
                     [] s \in Wanted(kind) /\ FreshPayload(s) ->
                          [state |-> "read", payload |-> cache.of[s].payload, stale |-> FALSE, old |-> cache.of[s].old]
                     [] OTHER -> [NotAsked EXCEPT !.state = "waiting"]]]]
  /\ cache' = [cache EXCEPT !.of = [s \in ToSet(Sources) |->
                 Awaited(cache.of[s], cache.on /\ s \in Wanted(kind) /\ ~FreshPayload(s))]]
  /\ UNCHANGED <<offered, happened>>

\* Every job that waits for s has what came of the fetch.
Told(s, waiting, got) ==
  readers' = [r \in Readers |-> IF r \in waiting THEN [readers[r] EXCEPT !.read[s] = got] ELSE readers[r]]

WaitingFor(s) == {r \in Readers : readers[r].read[s].state = "waiting"}

FetchedPayload(s) == [state |-> "read", payload |-> offered[s], stale |-> FALSE, old |-> 0]

FetchAnswers(s) ==
  /\ cache.of[s].inflight
  /\ cache' = [cache EXCEPT !.of[s] = [NoPayload EXCEPT !.has = TRUE, !.payload = offered[s]]]
  /\ Told(s, WaitingFor(s), FetchedPayload(s))
  /\ UNCHANGED <<offered, happened>>

FetchFault ==
  /\ happened.faults < MaxFetchFaults
  /\ happened' = [happened EXCEPT !.faults = @ + 1]

\* The last good payload keeps its timestamp, so the next read tries again.
KeptStale(c) == [c EXCEPT !.inflight = FALSE]

FetchFails(s) ==
  /\ cache.of[s].inflight
  /\ FetchFault
  /\ LET c == cache.of[s]
     IN IF c.has
          THEN /\ cache' = [cache EXCEPT !.of[s] = KeptStale(c)]
               /\ Told(s, WaitingFor(s), [state |-> "read", payload |-> c.payload, stale |-> TRUE, old |-> c.old])
          ELSE /\ cache' = [cache EXCEPT !.of[s] = NoPayload]
               /\ Told(s, WaitingFor(s), [NotAsked EXCEPT !.state = "failed"])
  /\ UNCHANGED offered

\* With the cache off every job fetches for itself.
AloneAnswers(r, s) ==
  /\ ~cache.on /\ r \in WaitingFor(s)
  /\ Told(s, {r}, FetchedPayload(s))
  /\ UNCHANGED <<offered, cache, happened>>

AloneFails(r, s) ==
  /\ ~cache.on /\ r \in WaitingFor(s)
  /\ FetchFault
  /\ Told(s, {r}, [NotAsked EXCEPT !.state = "failed"])
  /\ UNCHANGED <<offered, cache>>

(***************************************************************************)
(* The jobs.                                                               *)
(***************************************************************************)
\* allSettled: a source that failed contributes nothing.
ReadBy(r) == [s \in ToSet(Sources) |-> readers[r].read[s].payload]
AllSettled(r, kind) ==
  /\ readers[r].state = "reading" /\ readers[r].kind = kind
  /\ \A s \in ToSet(Sources) : r \notin WaitingFor(s)

Learn(r) ==
  /\ AllSettled(r, "registry")
  /\ \E registry \in {Registry(ReadBy(r))} :
       readers' = [readers EXCEPT ![r].state = "done", 
                        ![r].learned = [i \in DOMAIN @ |-> [model |-> @[i].model, entry |-> Enriched(registry, @[i].model)]]]
  /\ UNCHANGED <<offered, cache, happened>>

WritePrices(r) ==
  /\ AllSettled(r, "prices")
  /\ \E list \in {Prices(ReadBy(r))} :
       /\ list # <<>>
       /\ readers' = [readers EXCEPT ![r].state = "done",
                        ![r].prices = [m \in PricedModels(list) |-> list[<<CatalogKey(m.provider), m.id>>]]]
  /\ UNCHANGED <<offered, cache, happened>>

\* No price at all: the job fails and nothing is written.
NoPrices(r) ==
  /\ AllSettled(r, "prices")
  /\ Prices(ReadBy(r)) = <<>>
  /\ readers' = [readers EXCEPT ![r] = IdleReader]
  /\ UNCHANGED <<offered, cache, happened>>

Tick(n) == IF n < TTL THEN n + 1 ELSE n
Aged(c) == IF c.has THEN [c EXCEPT !.age = Tick(@), !.old = Tick(@)] ELSE c

CacheAges ==
  /\ cache.on
  /\ cache' = [cache EXCEPT !.of = [s \in ToSet(Sources) |-> Aged(cache.of[s])]]
  /\ UNCHANGED <<offered, readers, happened>>

\* A source publishes something else.
CatalogChanges(s) ==
  /\ happened.releases < MaxReleases
  /\ happened' = [happened EXCEPT !.releases = @ + 1]
  /\ \E payload \in Offers[s] \ {offered[s]} : offered' = [offered EXCEPT ![s] = payload]
  /\ UNCHANGED <<cache, readers>>

\* The cache is memory of the worker.
WorkerRestarts ==
  /\ cache' = [cache EXCEPT !.of = [s \in ToSet(Sources) |-> NoPayload]]
  /\ readers' = [r \in Readers |-> IdleReader]
  /\ UNCHANGED <<offered, happened>>

CatalogsNext ==
  \/ \E r \in Readers : BeginRead(r, "prices", <<>>) \/ \E list \in Lists : BeginRead(r, "registry", ListedBy(list))
  \/ \E r \in Readers : Learn(r) \/ WritePrices(r) \/ NoPrices(r)
  \/ \E s \in ToSet(Sources) : FetchAnswers(s) \/ FetchFails(s) \/ CatalogChanges(s)
  \/ \E r \in Readers, s \in ToSet(Sources) : AloneAnswers(r, s) \/ AloneFails(r, s)
  \/ CacheAges \/ WorkerRestarts

CatalogsSpec == CatalogsInit /\ [][CatalogsNext]_catalogsVars

(***************************************************************************)
(* Properties.                                                             *)
(***************************************************************************)
CatalogsTypeOK ==
  /\ \A s \in ToSet(Sources) : offered[s] \in Offers[s] /\ cache.of[s].age \in 0..TTL
  /\ \A r \in Readers : readers[r].state \in {"idle", "reading", "done"} /\ readers[r].kind \in {"none", "registry", "prices"}

\* The last listing a payload has of a catalog's model, as a sequence of at most one.
Says(read, source, key) ==
  LET at == {i \in DOMAIN read[source] : Entry(source, read[source][i])[1] = key}
  IN IF at = {} THEN <<>> ELSE <<read[source][CHOOSE i \in at : \A j \in at : j <= i]>>

\* The sources that state the context window of a model, by their places in Sources.
ContextSources(read, key) ==
  {i \in DOMAIN Sources : Says(read, Sources[i], key) # <<>> /\ Says(read, Sources[i], key)[1].context # 0}

ListedIn(read, catalog, id) == \E s \in ToSet(Sources) : Says(read, s, <<catalog, id>>) # <<>>
CatalogsRead(read) == UNION {{CatalogKey(read[s][i].section) : i \in DOMAIN read[s]} : s \in ToSet(Sources)}

\* Another catalog's entry is taken only when the id names that catalog or no other is
\* as good: the one trusted catalog that has the model, or the only one of all.
NotGuessed(read, m, o) ==
  o.key # NoKey /\ o.key[1] # CatalogKey(m.provider) =>
    \/ m.id[1] # "" /\ o.key = <<CatalogKey(m.id[1]), <<"", m.id[2]>>>>
    \/ \A other \in CatalogsRead(read) \ {o.key[1], CatalogKey(m.provider)} :
         ListedIn(read, other, o.key[2]) => o.key[1] \in Trusted /\ other \notin Trusted

\* What the provider states of its model is kept; else the first source that states
\* the window of the entry taken is believed, and named as where it comes from; a
\* streaming that LiteLLM states is believed before any that is inferred.
FirstIsBelieved(read, m, o) ==
  LET stating == ContextSources(read, o.key)
      first == Sources[CHOOSE i \in stating : \A j \in stating : i <= j]
      litellm == Says(read, "litellm", o.key)
  IN /\ m.context # 0 => o.context = m.context
     /\ m.context = 0 /\ o.key # NoKey /\ stating # {} =>
          o.context = Says(read, first, o.key)[1].context /\ o.from = first
     /\ m.context = 0 /\ (o.key = NoKey \/ stating = {}) => o.context = IF m.local THEN LocalContext ELSE 0
     /\ o.key # NoKey /\ litellm # <<>> /\ litellm[1].streams # "silent" => o.streaming = litellm[1].streams

\* A model's price is models.dev's where what was read of it has one.
PrimaryFirst(read, m, price) ==
  LET of(s) == {i \in DOMAIN read[s] : LET l == read[s][i] IN
                  CatalogKey(l.section) = CatalogKey(m.provider) /\ WithoutPrefix(l) = m.id /\ l.cost # <<>>}
  IN /\ price.source = IF of("models.dev") # {} THEN "models.dev" ELSE "litellm"
     /\ \E i \in of(price.source) : read[price.source][i].cost = price.cost

\* What a job makes of the catalogs is what they say: a model's metadata is nobody's
\* guess, and where sources differ the first is believed (ARCHITECTURE.md:95), a price
\* is the primary source's where it has one, and a job works on a payload older than
\* the TTL only when its own attempt to fetch it anew has failed (cachedFetchJson).
CatalogsAreHeeded ==
  \A r \in Readers :
    LET read == ReadBy(r)
    IN /\ \A s \in ToSet(Sources) : readers[r].read[s].state = "read" /\ ~readers[r].read[s].stale => readers[r].read[s].old < TTL
       /\ readers[r].state = "done" =>
            /\ \A i \in DOMAIN readers[r].learned :
                 LET o == readers[r].learned[i]
                 IN NotGuessed(read, o.model, o.entry) /\ FirstIsBelieved(read, o.model, o.entry)
            /\ \A m \in DOMAIN readers[r].prices : PrimaryFirst(read, m, readers[r].prices[m])
=============================================================================
