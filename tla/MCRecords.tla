----------------------------- MODULE MCRecords ------------------------------
(* An instance of the six keepers of records for TLC.                          *)
EXTENDS Records, MCCatalog

(* RequestRecord: two clients that may send the same request id. *)
OneId == [c \in Clients |-> {"x"}]
ClientSymmetry == Permutations(Clients)

(* RouteSelection: every strategy, three candidates, and requests of every size,  *)
(* latency and draw.                                                              *)
Open == [f \in Fields |-> {}]
Small == [Open EXCEPT !["maxOutput"] = {2}, !["maxContext"] = {4}, !["tools"] = {TRUE}]
Large == [Open EXCEPT !["maxOutput"] = {4}, !["maxContext"] = {8}, !["tools"] = {TRUE}, !["inputs"] = {{"text", "image"}}]
Plain == [Small EXCEPT !["tools"] = {FALSE}]
Cand(order, price, weight, tags, caps) ==
  [order |-> order, price |-> price, weight |-> weight, tags |-> tags, capabilities |-> caps]
USD(i, o) == {[input |-> i, output |-> o]}
Pol(model, strategy, cs) == [model |-> model, strategy |-> strategy, protocol |-> "chat", candidates |-> cs]
Mixed(caps) == {Cand(1, {}, 0, {}, caps), Cand(2, USD(2, 1), 2, {}, caps), Cand(3, USD(1, 1), 1, {}, caps)}
MCPolicies == {
  Pol("fixed", "fixed", Mixed(Small)), Pol("cost", "cost_first", Mixed(Open)),
  Pol("balance", "load_balance", Mixed(Small)), Pol("weights", "weighted", Mixed(Small)),
  Pol("fast", "least_time", Mixed(Large)),
  Pol("tags", "tag", {Cand(1, {}, 0, {"image"}, Large), Cand(2, {}, 0, {"default"}, Small),
                      Cand(3, {}, 0, {"code", "tools"}, Plain)}),
  Pol("nodefault", "tag", {Cand(1, {}, 0, {"image"}, Large)}),
  Pol("unequal", "fixed", {Cand(1, {}, 0, {}, Large), Cand(2, {}, 0, {}, Small)}),
  Pol("half", "fixed", {Cand(1, {}, 0, {}, Open), Cand(2, {}, 0, {}, Small)}),
  [Pol("responses", "fixed", {Cand(1, {}, 0, {}, Open)}) EXCEPT !.protocol = "responses"]}
Size(i, o, tools) == [input |-> i, output |-> o, inputs |-> {"text"}, outputs |-> {"text"}, tools |-> tools, reasoning |-> FALSE]
MCSizes == {Size(1, 2, TRUE), Size(3, 2, FALSE), Size(1, 3, FALSE)}
Lat(a, b, c, now) == [samples |-> <<a, b, c>>, now |-> now, minSamples |-> 2, staleAfter |-> 5, tieBucket |-> 2, explore |-> 2]
S(e, n, l) == {[ewma |-> e, count |-> n, last |-> l]}
MCLatencies == {Lat(S(5, 2, 1), S(4, 3, 2), S(1, 2, 3), 3), Lat(S(5, 2, 1), {}, S(1, 2, 3), 3), Lat(S(5, 2, 0), S(1, 1, 6), S(3, 2, 1), 6), Lat({}, {}, {}, 1)}
Zero == [i \in 1..MaxDraws |-> 0]
Request(model, tag, size, latency, draws) ==
  [model |-> model, protocol |-> "chat", tag |-> tag, size |-> size, latency |-> latency, draws |-> draws]
Typical == [latency |-> CHOOSE l \in MCLatencies : TRUE, size |-> Size(1, 2, FALSE)]
\* Two draws order three candidates; a third is there for what may draw once more.
ShortDraws == {draws \in Draws : draws[MaxDraws] = 0}
MCRequests ==
  {Request(model, {}, size, Typical.latency, Zero) :
     model \in {p.model : p \in MCPolicies} \cup {"missing"}, size \in MCSizes}
  \cup {Request(model, {tag}, size, Typical.latency, Zero) :
     model \in {"tags", "nodefault"}, tag \in {"code", "image", "other"}, size \in MCSizes}
  \cup {Request(model, {}, Typical.size, Typical.latency, draws) :
     model \in {"weights", "balance"}, draws \in ShortDraws}
  \cup {Request("fast", {}, Typical.size, latency, draws) : latency \in MCLatencies, draws \in ShortDraws}

(* ModelCatalogs. *)
\* The sections, trusted catalogs and host prefixes of the code that the listings use.
MCAliases == ("z-ai" :> "zai") @@ ("moonshotai" :> "moonshot") @@ ("moonshotai-cn" :> "moonshot")
MCTrusted == {"zai", "moonshot", "openrouter"}
MCHostPrefixes == {"moonshotai", "openrouter", "z-ai"}

MCListing(section, id, tools, context, text, streams, cost) ==
  [section |-> section, id |-> id, tools |-> tools, context |-> context, text |-> text, streams |-> streams, cost |-> cost]

\* models.dev with and without zai's own listing; OpenRouter and LiteLLM hosting the
\* same model; a model of two trusted catalogs and one of two others.
MCOffers ==
  ("models.dev" :> {<<MCListing("z-ai", <<"", "glm">>, "silent", 0, "chat", "silent", <<3>>),
                      MCListing("moonshotai", <<"", "kimi">>, "yes", 8, "opaque", "silent", <<>>),
                      MCListing("moonshotai-cn", <<"", "kimi">>, "silent", 0, "chat", "silent", <<4>>),
                      MCListing("host", <<"", "kimi">>, "no", 6, "chat", "silent", <<>>)>>,
                    <<MCListing("openrouter", <<"z-ai", "glm">>, "yes", 7, "chat", "silent", <<>>),
                      MCListing("openrouter", <<"", "kimi">>, "yes", 5, "chat", "silent", <<>>),
                      MCListing("host", <<"z-ai", "glm">>, "no", 6, "chat", "silent", <<>>)>>})
  @@ ("openrouter" :> {<<MCListing("z-ai", <<"z-ai", "glm">>, "yes", 9, "chat", "silent", <<>>),
                         MCListing("moonshotai", <<"moonshotai", "kimi">>, "yes", 9, "chat", "silent", <<>>)>>})
  @@ ("litellm" :> {<<MCListing("zai", <<"zai", "glm">>, "yes", 2, "opaque", "no", <<5>>),
                      MCListing("other", <<"", "kimi">>, "yes", 2, "opaque", "silent", <<>>)>>,
                    <<>>})
  @@ ("vercel" :> {<<MCListing("moonshotai", <<"moonshotai", "kimi">>, "silent", 4, "chat", "silent", <<>>)>>})

MCEntry(id, context, tools, shown) == [id |-> id, display |-> id, context |-> context, tools |-> tools, shown |-> shown]
MCList(provider, style, local, context, tools, entries) ==
  [provider |-> provider, style |-> style, local |-> local, props |-> [context |-> context, tools |-> tools], entries |-> entries]

\* zai's own list, which repeats a model; that of a local server, whose properties state
\* tools; one of slugs, with a hidden model.
MCLists ==
  {MCList("zai", "id", FALSE, 0, "silent", <<MCEntry(<<"", "glm">>, 0, "silent", TRUE), MCEntry(<<"", "glm">>, 5, "no", TRUE)>>),
   MCList("mine", "name", TRUE, 0, "yes", <<MCEntry(<<"", "kimi">>, 0, "silent", TRUE), MCEntry(<<"z-ai", "glm">>, 1, "no", TRUE)>>),
   MCList("google", "slug", FALSE, 0, "silent", <<MCEntry(<<"models", "kimi">>, 0, "silent", TRUE), MCEntry(<<"", "glm">>, 0, "silent", FALSE),
                                                  MCEntry(<<"host", "kimi">>, 6, "silent", TRUE)>>)}
=============================================================================
