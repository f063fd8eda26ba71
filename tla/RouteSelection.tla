--------------------------- MODULE RouteSelection ---------------------------
(***************************************************************************)
(* How a gateway turns a request for a virtual model into the chain of     *)
(* candidates it will try: packages/domain/src/index.ts, called at the top *)
(* of executeGatewayProtocolRequest, with the capability check of          *)
(* gateway-virtual-model-capabilities.ts.                                  *)
(*                                                                         *)
(* An optional value is a set of at most one element, so that "no value"   *)
(* is {}.  A call of random() is a number below Grain, standing for the    *)
(* fraction of Grain it is; a request uses up to MaxDraws of them.         *)
(***************************************************************************)
EXTENDS Integers, FiniteSets, SequencesExt

CONSTANTS
  Policies,    \* the route policies of the snapshot, one for a virtual model
  Requests,    \* requests: the model and the tag they name, their size, and the
               \* latency snapshot and random numbers they meet
  Grain, MaxDraws

Draws == [1..MaxDraws -> 0..Grain - 1]

\* What is known of a candidate's latency, and its price.
Sample == [ewma : Nat, count : Nat, last : Nat]
Price == [input : Nat, output : Nat]

ASSUME SelectionAssumption ==
  /\ Grain \in Nat \ {0} /\ MaxDraws \in Nat \ {0, 1}
  /\ \A p, q \in Policies : p.model = q.model => p = q
  /\ \A p \in Policies :
       /\ IsFiniteSet(p.candidates) /\ Cardinality(p.candidates) <= MaxDraws
       /\ \A c, d \in p.candidates : c.order = d.order => c = d
       /\ \A c \in p.candidates : /\ c.order \in Nat /\ c.weight \in Nat
                                 /\ c.price \subseteq Price /\ \A a, b \in c.price : a = b
  /\ \A r \in Requests :
       /\ "draws" \in DOMAIN r /\ r.draws \in Draws
       /\ \A a, b \in r.tag : a = b
       /\ r.latency.tieBucket \in Nat
       /\ \A p \in Policies : p.model = r.model =>
            \A c \in p.candidates : r.latency.samples[c.order] \subseteq Sample

\* What all the weights of a policy add up to, whoever is drawn.
TotalWeight(S) == FoldSet(LAMBDA c, sum : sum + c.weight, 0, S)

\* Grain is a multiple of the numbers that a draw is scaled by, so that the parts of
\* a split are whole numbers of draws. Only SplitIsExact needs this.
ASSUME GrainAssumption ==
  \A p \in Policies :
    /\ p.strategy = "weighted" /\ TotalWeight(p.candidates) > 0 =>
         \E q \in 1..Grain : Grain = q * TotalWeight(p.candidates)
    /\ p.strategy = "load_balance" =>
         \A n \in 1..Cardinality(p.candidates) : \E q \in 1..Grain : Grain = q * n

VARIABLES
  asked,     \* the request being routed
  chain,     \* the candidates it may try, in order
  refused    \* why it was refused, {} while it is not

selectVars == <<asked, chain, refused>>

Reasons == {"route_not_found", "provider_protocol_unsupported", "provider_unavailable",
            "virtual_model_configuration_invalid", "virtual_model_capability_mismatch"}

NoRequest == [model |-> "none"]

SelectTypeOK ==
  /\ asked = NoRequest \/ asked \in Requests
  /\ refused \subseteq Reasons
  /\ \A p \in Policies : asked.model = p.model => ToSet(chain) \subseteq p.candidates

SelectInit == asked = NoRequest /\ chain = <<>> /\ refused = {}

(***************************************************************************)
(* The capability contract of a set of candidates.                         *)
(***************************************************************************)
Fields == {"maxOutput", "maxContext", "inputs", "outputs", "tools", "reasoning"}

\* The values candidates have for a field; a candidate may have none.
Known(candidates, field) == UNION {c.capabilities[field] : c \in candidates}

Mismatched(candidates) == {f \in Fields : Cardinality(Known(candidates, f)) > 1}

\* A field that one candidate leaves open limits nobody.
Contract(candidates) ==
  [f \in Fields |->
     IF \E c \in candidates : c.capabilities[f] = {} THEN {} ELSE Known(candidates, f)]

Fits(contract, size) ==
  /\ \A max \in contract["maxOutput"] : size.output <= max
  /\ \A max \in contract["maxContext"] : size.input + size.output <= max
  /\ \A known \in contract["inputs"] : size.inputs \subseteq known
  /\ \A known \in contract["outputs"] : size.outputs \subseteq known
  /\ size.tools => FALSE \notin contract["tools"]
  /\ size.reasoning => FALSE \notin contract["reasoning"]

\* Mutation: only the candidate that is tried first is looked at.
ContractCandidatesHead(policy, order) == {Head(order)}

\* The candidates whose common contract the request is held to: a tag names
\* one candidate, every other strategy may end at any of them.
ContractCandidates(policy, order) ==
  IF policy.strategy = "tag" THEN {Head(order)} ELSE policy.candidates

(***************************************************************************)
(* The strategies: the order each gives to the candidates.                 *)
(***************************************************************************)
\* What a sort makes of a set: each element at the place after all that go before it.
Sorted(S, before) ==
  [i \in 1..Cardinality(S) |-> CHOOSE c \in S : Cardinality({d \in S : <<d, c>> \in before}) = i - 1]

ByOrder(S) == {x \in S \X S : x[1].order < x[2].order}

Configured(policy) == Sorted(policy.candidates, ByOrder(policy.candidates))

\* Cheapest first, ties in configured order, candidates without a price last.
CombinedPrice(c) == {p.input + p.output : p \in c.price}

\* Mutation: a candidate without a price costs nothing.
CostBeforeFree(c, d) ==
  \/ c.price = {} /\ d.price # {}
  \/ \E p \in CombinedPrice(c), q \in CombinedPrice(d) : p < q
  \/ CombinedPrice(c) = CombinedPrice(d) /\ c.order < d.order

CostBefore(c, d) ==
  \/ c.price # {} /\ d.price = {}
  \/ \E p \in CombinedPrice(c), q \in CombinedPrice(d) : p < q
  \/ CombinedPrice(c) = CombinedPrice(d) /\ c.order < d.order

CostFirst(S) == Sorted(S, {x \in S \X S : CostBefore(x[1], x[2])})

\* The whole number below n that floor(random() * n) is.
Pick(n, draw) == (draw * n) \div Grain

\* Mutation: every place is swapped with any other, the biased shuffle.
LoadBalanceBiased(s, draws) ==
  LET shuffled[n \in 0..Len(s) - 1] ==
        IF n = 0 THEN s
        ELSE LET t == shuffled[n - 1]
                 i == Len(s) - n + 1
                 j == 1 + Pick(Len(s), draws[n])
             IN [t EXCEPT ![i] = t[j], ![j] = t[i]]
  IN shuffled[Len(s) - 1]

\* Fisher and Yates, from the last place down to the second.
LoadBalance(s, draws) ==
  LET shuffled[n \in 0..Len(s) - 1] ==
        IF n = 0 THEN s
        ELSE LET t == shuffled[n - 1]
                 i == Len(s) - n + 1
                 j == 1 + Pick(i, draws[n])
             IN [t EXCEPT ![i] = t[j], ![j] = t[i]]
  IN shuffled[Len(s) - 1]

\* The weight of the candidates up to each place.
Cumulative(s) ==
  LET sum[i \in 0..Len(s)] == IF i = 0 THEN 0 ELSE sum[i - 1] + s[i].weight
  IN sum

\* Mutation: a draw that equals the cumulated weight picks the candidate.
DrawnInclusive(s, draw) ==
  LET sum == Cumulative(s)
      above == {i \in DOMAIN s : draw * sum[Len(s)] <= sum[i] * Grain}
  IN CHOOSE i \in above : \A j \in above : i <= j

\* The first candidate at which the cumulated weight exceeds the draw.
Drawn(s, draw) ==
  LET sum == Cumulative(s)
      above == {i \in DOMAIN s : draw * sum[Len(s)] < sum[i] * Grain}
  IN IF above = {} THEN Len(s) ELSE CHOOSE i \in above : \A j \in above : i <= j

\* Successive draws without replacement; what has no weight is left at the end.
Weightless(s) == \A i \in DOMAIN s : s[i].weight = 0

Weighted(s, draws) ==
  LET turn[n \in 0..Len(s)] ==
        IF n = 0 THEN [drawn |-> <<>>, left |-> s]
        ELSE LET t == turn[n - 1]
                 i == Drawn(t.left, draws[n])
             IN IF Weightless(t.left) THEN t
                ELSE [drawn |-> Append(t.drawn, t.left[i]), left |-> RemoveAt(t.left, i)]
  IN turn[Len(s)].drawn \o turn[Len(s)].left

\* The candidate the tag names and the default behind it; without a default, none.
Tagged(S, wanted) ==
  LET with(tags) == {c \in S : c.tags \cap tags # {}}
      first(C) == CHOOSE c \in C : \A d \in C : c.order <= d.order
      default == first(with({"default"}))
  IN CASE with({"default"}) = {} -> <<>>
       [] with({"default"}) # {} /\ (with(wanted) = {} \/ first(with(wanted)) = default) -> <<default>>
       [] OTHER -> <<first(with(wanted)), default>>

\* Enough samples, the last of them recent.
IsWarm(c, latency) ==
  \E sample \in latency.samples[c.order] :
     sample.count >= latency.minSamples /\ latency.now - sample.last <= latency.staleAfter

Bucket(c, latency) ==
  LET ewma == (CHOOSE sample \in latency.samples[c.order] : TRUE).ewma
  IN IF latency.tieBucket > 0 THEN ewma \div latency.tieBucket ELSE ewma

FasterBefore(c, d, latency) ==
  \/ Bucket(c, latency) < Bucket(d, latency)
  \/ Bucket(c, latency) = Bucket(d, latency) /\ c.order < d.order

\* The warm by bucket, the cold behind them, or sometimes one cold before them.
LeastTime(S, latency, draws) ==
  LET warm == {c \in S : IsWarm(c, latency)}
      cold == S \ warm
      fastest == Sorted(warm, {x \in warm \X warm : FasterBefore(x[1], x[2], latency)})
      explored == Sorted(cold, ByOrder(cold))[1 + Pick(Cardinality(cold), draws[2])]
      others == cold \ {explored}
  IN IF cold # {} /\ warm # {} /\ draws[1] < latency.explore
     THEN <<explored>> \o fastest \o Sorted(others, ByOrder(others))
     ELSE fastest \o Sorted(cold, ByOrder(cold))

\* orderRouteAttemptCandidates
Ordered(policy, r) ==
  LET S == policy.candidates
  IN CASE S = {} -> <<>>
       [] S # {} /\ policy.strategy = "cost_first" -> CostFirst(S)
       [] S # {} /\ policy.strategy = "load_balance" -> LoadBalance(Configured(policy), r.draws)
       [] S # {} /\ policy.strategy = "weighted" -> Weighted(Configured(policy), r.draws)
       [] S # {} /\ policy.strategy = "tag" -> Tagged(S, r.tag)
       [] S # {} /\ policy.strategy = "least_time" -> LeastTime(S, r.latency, r.draws)
       [] OTHER -> Configured(policy)

(***************************************************************************)
(* The request path up to the accepted chain.                              *)
(***************************************************************************)
Ask(r) ==
  /\ asked = NoRequest
  /\ asked' = r
  /\ UNCHANGED <<chain, refused>>

\* What the gateway answers, in the order in which it looks.
Verdict(r) ==
  LET policies == {p \in Policies : p.model = r.model}
      policy == CHOOSE p \in policies : TRUE
      order == Ordered(policy, r)
      candidates == ContractCandidates(policy, order)
  IN CASE policies = {} -> "route_not_found"
       [] policies # {} /\ policy.protocol # r.protocol -> "provider_protocol_unsupported"
       [] OTHER ->
            CASE order = <<>> -> "provider_unavailable"
              [] order # <<>> /\ Mismatched(candidates) # {} -> "virtual_model_configuration_invalid"
              [] order # <<>> /\ Mismatched(candidates) = {} /\ ~Fits(Contract(candidates), r.size) ->
                   "virtual_model_capability_mismatch"
              [] OTHER -> "accepted"

Answer ==
  /\ asked # NoRequest /\ chain = <<>> /\ refused = {}
  /\ LET verdict == Verdict(asked)
     IN IF verdict = "accepted"
        THEN /\ chain' = Ordered(CHOOSE p \in Policies : p.model = asked.model, asked)
             /\ UNCHANGED refused
        ELSE refused' = {verdict} /\ UNCHANGED chain
  /\ UNCHANGED asked

Forget ==
  /\ chain # <<>> \/ refused # {}
  /\ asked' = NoRequest /\ chain' = <<>> /\ refused' = {}

SelectNext ==
  \/ \E r \in Requests : Ask(r)
  \/ Answer
  \/ Forget

SelectSpec == SelectInit /\ [][SelectNext]_selectVars

(***************************************************************************)
(* Properties.                                                             *)
(***************************************************************************)
\* The policy of a request that has its chain.
Routed == IF chain = <<>> THEN {} ELSE {p \in Policies : p.model = asked.model}

\* Of two places in the chain the first is never the one Wrong says it is.
NeverAhead(Wrong(_, _)) ==
  \A i, j \in DOMAIN chain : i < j => ~Wrong(chain[i], chain[j])

\* The chain a strategy builds is the order the strategy is named for, and but
\* for "tag" it holds every candidate once: the cheapest known price first and
\* no unknown price before a known one; no candidate of weight zero before one
\* with a weight; after at most one explored candidate, the warm before the
\* cold and the faster bucket before the slower; the default behind the tag.
ChainFollowsStrategy ==
  \A p \in Routed :
    CASE p.strategy = "tag" ->
           /\ "default" \in Last(chain).tags /\ Len(chain) \in 1..2
           /\ \A c \in p.candidates : c.tags \cap asked.tag # {} =>
                Head(chain).tags \cap asked.tag # {}
           /\ Len(chain) = 2 => Head(chain).tags \cap asked.tag # {}
      [] p.strategy # "tag" ->
           /\ ToSet(chain) = p.candidates /\ Len(chain) = Cardinality(p.candidates)
           /\ p.strategy = "fixed" => NeverAhead(LAMBDA c, d : c.order > d.order)
           /\ p.strategy = "cost_first" => NeverAhead(LAMBDA c, d :
                \E q \in d.price : \A o \in c.price : o.input + o.output > q.input + q.output)
           /\ p.strategy = "weighted" => NeverAhead(LAMBDA c, d :
                c.weight = 0 /\ (d.weight > 0 \/ c.order > d.order))
           /\ p.strategy = "least_time" =>
                LET warm == {c \in p.candidates : IsWarm(c, asked.latency)}
                    late == {i \in DOMAIN chain : /\ chain[i] \notin warm
                                                  /\ \E j \in DOMAIN chain : j > i /\ chain[j] \in warm}
                IN /\ late \subseteq {1}
                   /\ late # {} => asked.draws[1] < asked.latency.explore
                   /\ NeverAhead(LAMBDA c, d : /\ {c, d} \subseteq warm
                                               /\ Bucket(c, asked.latency) > Bucket(d, asked.latency))

\* The head of a weighted chain follows the configured split exactly, and every
\* order of a balanced one is as likely as any other, whatever came before: over
\* all that a request may draw (all draws of a request are looked at once).
Split(p, r) ==
  LET of(draws) == Ordered(p, [r EXCEPT !.draws = draws])
  IN /\ p.strategy = "weighted" => \A c \in p.candidates :
          Cardinality({d \in Draws : Head(of(d)) = c}) * TotalWeight(p.candidates) = Cardinality(Draws) * c.weight
     /\ p.strategy = "load_balance" => \A order \in SetToSeqs(p.candidates) :
          Cardinality({d \in Draws : of(d) = order}) * Cardinality(SetToSeqs(p.candidates)) = Cardinality(Draws)

SplitIsExact == \A p \in Routed : asked.draws = [i \in 1..MaxDraws |-> 0] => Split(p, asked)

\* Both: whatever is drawn the order is right, and over all draws the split is exact.
StrategiesHold == ChainFollowsStrategy /\ SplitIsExact

\* A request the gateway accepted fits every candidate it may be sent to (with
\* a tag, the one the tag selects), if the candidates' capabilities are known.
AcceptedFits ==
  \A p \in Routed :
    \A c \in (IF p.strategy = "tag" THEN {Head(chain)} ELSE ToSet(chain)) :
      (\A d \in p.candidates : \A f \in Fields : d.capabilities[f] = {} => c.capabilities[f] = {})
        => Fits(c.capabilities, asked.size)
=============================================================================
