--------------------------- MODULE FallbackChain ---------------------------
(***************************************************************************)
(* How a gateway works through the chain that RouteSelection built: the    *)
(* candidates its face can serve, the credentials of each                  *)
(* (gateway-provider-credentials.ts), the attempts                         *)
(* (gateway-fallback-chain.ts), what an adapter makes of a provider's      *)
(* answer, and the circuit breaker of each connection                      *)
(* (gateway-circuit-breaker.ts).  The breakers are shared by every request *)
(* of the process and live in its memory.                                  *)
(*                                                                         *)
(* The policy inside a breaker is the library cockatiel's, modelled from   *)
(* the tests: it opens when more than half of at least MinRequests samples *)
(* failed, rests, and then admits one trial (halfOpenCalls is 1); calls    *)
(* that find a trial under way wait for its end.                           *)
(***************************************************************************)
EXTENDS Integers, FiniteSets, SequencesExt

CONSTANTS
  Callers,      \* bound: requests under way at a time
  Chains,       \* the chains of candidates selection may hand to each
  Asked,        \* the faces requests come through: a protocol, streaming or not
  AdapterOf,    \* a candidate's subscription adapter, "none" of an ordinary one
  EndpointsOf,  \* the protocols the registry knows of a candidate's provider
  KeysOf,       \* the connections of a candidate's provider, by priority
  Unhealthy,    \* what the cached set of unhealthy connections may be
  Retries,      \* GATEWAY_PROVIDER_RETRIES
  MinRequests,  \* GATEWAY_BREAKER_MIN_REQUESTS
  MaxSamples    \* bound: samples of a window

Candidates == DOMAIN KeysOf
Connections == UNION {ToSet(KeysOf[candidate]) : candidate \in Candidates}

Protocols == {"chat_completions", "messages", "responses"}

ASSUME ChainAssumption ==
  /\ IsFiniteSet(Callers) /\ Retries \in Nat /\ MinRequests \in Nat \ {0}
  /\ MaxSamples \in Nat /\ MaxSamples >= MinRequests
  /\ Asked \subseteq [protocol : Protocols, stream : BOOLEAN]
  /\ \A candidate \in Candidates : KeysOf[candidate] \in Seq(Connections) /\ IsInjective(KeysOf[candidate])
  /\ \A r \in Callers : \A chain \in Chains[r] : chain \in Seq(Candidates) /\ IsInjective(chain)

VARIABLES
  breakers,   \* per connection: its state, the window's samples, whether it rested
  callers     \* per request: its chain, what is left of it, the attempts it made

chainVars == <<breakers, callers>>

\* What comes back: no answer, a body, none, a redirect, refusals, an error.
Statuses == {0, 200, 204, 302, 400, 401, 429, 500}

\* A failure of a credential or a quota, another refusal, a redirect, a stream
\* without a body, and a failure worth a retry: no answer, or a server error.
Failures == {"credential", "rejected", "redirect", "empty", "transient"}

\* What the client gets: the provider's answer or its refusal, or an error of the
\* gateway's own.
Answers == {"none", "ok", "passthrough", "redirect_rejected", "request_failed", "unavailable", "unsupported"}

Breaker == [state : {"closed", "open", "halfOpen"}, samples : 0..MaxSamples,
            failures : 0..MaxSamples, rested : BOOLEAN]

NewBreaker == [state |-> "closed", samples |-> 0, failures |-> 0, rested |-> FALSE]
NoFace == [protocol |-> "none", stream |-> FALSE]
IdleCaller == [pc |-> "idle", face |-> NoFace, todo |-> <<>>, plan |-> <<>>, rest |-> <<>>, left |-> 0,
         calls |-> 0, trial |-> FALSE, attempts |-> <<>>, last |-> "none", answer |-> "none"]

ChainTypeOK ==
  /\ breakers \in [Connections -> Breaker]
  /\ \A r \in Callers :
       /\ callers[r].pc \in {"idle", "attaching", "calling", "inFlight", "done"}
       /\ callers[r].left \in 0..Retries /\ callers[r].calls \in 0..Retries + 1
       /\ callers[r].last \in Failures \cup {"none", "ok"}
       /\ callers[r].face \in Asked \cup {NoFace}
       /\ callers[r].answer \in Answers
       /\ Len(callers[r].attempts) <= Len(callers[r].plan)

\* The elements of s that are in keep, in their order (SelectSeq, without recursion):
\* the n-th of them has n of their positions up to its own.
Only(s, keep) ==
  LET at == {i \in DOMAIN s : s[i] \in keep}
      rank(i) == Cardinality({j \in at : j <= i})
  IN [n \in 1..Cardinality(at) |-> s[CHOOSE i \in at : rank(i) = n]]

ChainInit == breakers = [c \in Connections |-> NewBreaker] /\ callers = [r \in Callers |-> IdleCaller]

(***************************************************************************)
(* Credentials.                                                            *)
(***************************************************************************)
\* Mutation: an open breaker is skipped however long it has rested.
ShouldSkipOpen(c) == breakers[c].state = "open"

ShouldSkip(c) == breakers[c].state = "open" /\ ~breakers[c].rested

\* A request that is not a stream needs an adapter for the face it came through;
\* a stream needs an endpoint in the registry.
ChatServes(candidate) == AdapterOf[candidate] \in {"none", "grok"}
MessagesServes(candidate) == AdapterOf[candidate] \in {"none", "claude_code", "minimax_anthropic"}
ResponsesServes(candidate) == AdapterOf[candidate] \in {"none", "codex", "grok"}
StreamServes(protocol, candidate) == protocol \in EndpointsOf[candidate]

Planned(face, chain) ==
  IF face.stream THEN chain
  ELSE CASE face.protocol = "chat_completions" -> Only(chain, {candidate \in ToSet(chain) : ChatServes(candidate)})
         [] face.protocol = "messages" -> Only(chain, {candidate \in ToSet(chain) : MessagesServes(candidate)})
         [] face.protocol = "responses" -> Only(chain, {candidate \in ToSet(chain) : ResponsesServes(candidate)})

Arrive(r) ==
  /\ callers[r].pc \in {"idle", "done"}
  /\ \E chain \in Chains[r], face \in Asked :
       LET todo == Planned(face, chain)
       IN callers' = [callers EXCEPT ![r] =
            IF todo = <<>> THEN [IdleCaller EXCEPT !.pc = "done", !.face = face, !.answer = "unsupported"]
            ELSE [IdleCaller EXCEPT !.pc = "attaching", !.face = face, !.todo = todo]]
  /\ UNCHANGED breakers

\* The next candidate gets the connections of its provider that are neither
\* unhealthy, as far as the cache knows, nor resting; without any it is dropped,
\* and so is one a stream has no endpoint for.
Attach(r) ==
  LET q == callers[r]
      candidate == Head(q.todo)
  IN /\ q.pc = "attaching" /\ q.todo # <<>>
     /\ \E unhealthy \in Unhealthy :
          LET usable == {c \in ToSet(KeysOf[candidate]) :
                           /\ c \notin unhealthy /\ ~ShouldSkip(c)
                           /\ q.face.stream => StreamServes(q.face.protocol, candidate)}
              keys == Only(KeysOf[candidate], usable)
          IN callers' = [callers EXCEPT ![r].todo = Tail(@),
               ![r].plan = @ \o [i \in DOMAIN keys |-> <<candidate, keys[i]>>]]
     /\ UNCHANGED breakers

\* Mutation: a rejected circuit hides what the providers said.
ExhaustedForgetful(q) ==
  IF q.attempts # <<>> /\ Last(q.attempts).code = "circuit_open" THEN "request_failed"
  ELSE CASE q.last \in {"credential", "rejected"} -> "passthrough"
         [] q.last = "redirect" -> "redirect_rejected"
         [] OTHER -> "request_failed"

\* A chain that ran out passes the last refusal of a provider on, or says that
\* the request failed.
Exhausted(q) ==
  CASE q.last \in {"credential", "rejected"} -> "passthrough"
    [] q.last = "redirect" -> "redirect_rejected"
    [] OTHER -> "request_failed"

\* An attempt at the first of what is left.
Starts(q, rest) ==
  LET next == [q EXCEPT !.rest = rest, !.left = Retries, !.calls = 0]
  IN IF rest # <<>> THEN [next EXCEPT !.pc = "calling"]
     ELSE [next EXCEPT !.pc = "done", !.answer = Exhausted(q)]

\* Without a connection for any candidate the request ends here.
Attached(r) ==
  LET q == callers[r]
  IN /\ q.pc = "attaching" /\ q.todo = <<>>
     /\ callers' = [callers EXCEPT ![r] =
          IF q.plan # <<>> THEN Starts(q, q.plan)
          ELSE [q EXCEPT !.pc = "done", !.answer = IF q.face.stream THEN "unsupported" ELSE "unavailable"]]
     /\ UNCHANGED breakers

(***************************************************************************)
(* Attempts.                                                               *)
(***************************************************************************)
\* The steps of the other candidates.
OfOthers(rest) == Only(rest, {step \in ToSet(rest) : step[1] # Head(rest)[1]})

\* Mutation: an open circuit gives the candidate up.
AfterFailureOfCandidate(rest, code) ==
  CASE code \in {"redirect", "empty"} -> <<>>
    [] code = "credential" -> Tail(rest)
    [] OTHER -> OfOthers(rest)

\* What is left of the plan: a redirect ends it, as does a 2xx answer without the
\* body of a stream; a failure that another credential may not have goes on with
\* the next one, any other with the next candidate.
AfterFailure(rest, code) ==
  CASE code \in {"redirect", "empty"} -> <<>>
    [] code \in {"credential", "circuit_open"} -> Tail(rest)
    [] OTHER -> OfOthers(rest)

\* The attempt is recorded, a credential failure reported (see GatewayFailure of
\* ConnectionHealth), and the chain goes on.
Failed(q, code) ==
  Starts([q EXCEPT !.attempts = Append(@, [at |-> Head(q.rest), code |-> code, calls |-> q.calls])],
         AfterFailure(q.rest, code))

\* A call or a retry goes through the breaker.  A breaker that does not admit it
\* throws, past the retries, and the attempt is recorded as an open circuit.
Execute(r) ==
  LET q == callers[r]
      c == Head(q.rest)[2]
      b == breakers[c]
      sent == [q EXCEPT !.pc = "inFlight", !.calls = @ + 1]
  IN /\ q.pc = "calling"
     /\ \/ /\ b.state = "closed"
           /\ callers' = [callers EXCEPT ![r] = sent]
           /\ UNCHANGED breakers
        \/ /\ b.state = "open" /\ b.rested
           /\ breakers' = [breakers EXCEPT ![c].state = "halfOpen"]
           /\ callers' = [callers EXCEPT ![r] = [sent EXCEPT !.trial = TRUE]]
        \/ /\ b.state = "open" /\ ~b.rested
           /\ callers' = [callers EXCEPT ![r] = Failed(q, "circuit_open")]
           /\ UNCHANGED breakers

Opened == [NewBreaker EXCEPT !.state = "open"]

\* A sample: a trial decides, others count, and those that end after the breaker
\* opened are ignored, or may open it again while a trial is under way.
Sampled(b, ok, trial) ==
  LET counted == [b EXCEPT !.samples = @ + 1, !.failures = @ + IF ok THEN 0 ELSE 1]
  IN CASE trial -> {IF ok THEN NewBreaker ELSE Opened}
       [] ~trial /\ b.state = "closed" ->
            {IF ~ok /\ counted.samples >= MinRequests /\ 2 * counted.failures > counted.samples
             THEN Opened ELSE counted}
       [] ~trial /\ b.state = "open" -> {b}
       [] OTHER -> {b} \cup IF ok THEN {} ELSE {Opened}

\* An answer without ok is a sample of failure, whatever its reason; a transient
\* one is retried, and the last result of the retries is the attempt's.
Return(r, code) ==
  LET q == callers[r]
      c == Head(q.rest)[2]
      ended == [q EXCEPT !.trial = FALSE, !.last = code]
  IN /\ q.pc = "inFlight"
     /\ breakers[c].state = "closed" => breakers[c].samples < MaxSamples
     /\ \E b \in Sampled(breakers[c], code = "ok", q.trial) : breakers' = [breakers EXCEPT ![c] = b]
     /\ callers' = [callers EXCEPT ![r] =
          CASE code = "ok" -> [ended EXCEPT !.pc = "done", !.answer = "ok"]
            [] code = "transient" /\ q.left > 0 -> [ended EXCEPT !.pc = "calling", !.left = @ - 1]
            [] OTHER -> Failed(ended, code)]

Refusal(status) ==
  CASE status \in {401, 402, 403, 429} -> "credential"
    [] status \in 300..399 -> "redirect"
    [] status = 0 \/ status >= 500 -> "transient"
    [] OTHER -> "rejected"

\* The adapters of one shape: a body that is missing or is not JSON is a success.
JsonResult(status) == IF status \in 200..299 THEN "ok" ELSE Refusal(status)

\* A stream without a body is not, and one that ends before its first chunk, or
\* sends none in time, is a request without an answer.
StreamResult(status) ==
  CASE status = 200 -> "ok"
    [] status = 204 -> "empty"
    [] OTHER -> Refusal(status)

Calls(r, protocols, adapters) ==
  /\ callers[r].pc = "inFlight" /\ ~callers[r].face.stream
  /\ callers[r].face.protocol \in protocols
  /\ AdapterOf[Head(callers[r].rest)[1]] \in adapters

OpenAIReturns(r, status) ==
  Calls(r, {"chat_completions", "responses"}, {"none"}) /\ Return(r, JsonResult(status))
AnthropicReturns(r, status) == Calls(r, {"messages"}, {"none"}) /\ Return(r, JsonResult(status))
SubscriptionReturns(r, status) ==
  Calls(r, Protocols, {"claude_code", "codex", "grok", "minimax_anthropic"}) /\ Return(r, JsonResult(status))
StreamReturns(r, status) ==
  callers[r].pc = "inFlight" /\ callers[r].face.stream /\ Return(r, StreamResult(status))

Answered(r, status) ==
  OpenAIReturns(r, status) \/ AnthropicReturns(r, status) \/ SubscriptionReturns(r, status) \/ StreamReturns(r, status)

\* halfOpenAfter passes.
Rest(c) ==
  /\ breakers[c].state = "open" /\ ~breakers[c].rested
  /\ breakers' = [breakers EXCEPT ![c].rested = TRUE]
  /\ UNCHANGED callers

\* The samples of a window expire.
WindowPasses(c) ==
  /\ breakers[c].state = "closed" /\ breakers[c].samples > 0
  /\ breakers' = [breakers EXCEPT ![c] = NewBreaker]
  /\ UNCHANGED callers

ChainNext ==
  \/ \E r \in Callers : Arrive(r) \/ Attach(r) \/ Attached(r) \/ Execute(r)
  \/ \E r \in Callers, status \in Statuses :
       \/ OpenAIReturns(r, status) \/ AnthropicReturns(r, status)
       \/ SubscriptionReturns(r, status) \/ StreamReturns(r, status)
  \/ \E c \in Connections : Rest(c) \/ WindowPasses(c)

\* Requests run, providers answer or time out, and time passes.
ChainFairness ==
  /\ \A r \in Callers :
       /\ WF_chainVars(Attach(r) \/ Attached(r)) /\ WF_chainVars(Execute(r))
       /\ WF_chainVars(\E status \in Statuses : Answered(r, status))
  /\ \A c \in Connections : WF_chainVars(Rest(c)) /\ WF_chainVars(WindowPasses(c))

ChainSpec == ChainInit /\ [][ChainNext]_chainVars /\ ChainFairness

(***************************************************************************)
(* Properties.                                                             *)
(***************************************************************************)
\* The attempts explain the answer: they follow the plan; a step of the plan that a
\* finished request left out lies behind its success, behind an answer that ends
\* the chain, or behind a failure of the same candidate that another credential
\* would share; and the client of an exhausted chain is told the last thing a
\* provider said, whatever circuits rejected the chain after it (a circuit that
\* opens between two retries hides that last call in its attempt).
AttemptsExplainAnswer ==
  \A r \in Callers :
    LET q == callers[r]
        tried == [i \in DOMAIN q.attempts |-> q.attempts[i].at]
        excused(step) ==
          \/ q.last = "ok" /\ q.rest # <<>> /\ step \in ToSet(q.rest)
          \/ \E i \in DOMAIN tried :
               \/ q.attempts[i].code \in {"redirect", "empty"}
               \/ tried[i] = step
               \/ tried[i][1] = step[1] /\ q.attempts[i].code \in {"rejected", "transient"}
    IN /\ \A i, j \in DOMAIN tried : \A k, l \in DOMAIN q.plan :
            i < j /\ tried[i] = q.plan[k] /\ tried[j] = q.plan[l] => k < l
       /\ q.pc = "done" => \A step \in ToSet(q.plan) : excused(step)
       /\ q.pc = "done" /\ q.plan # <<>> /\ q.answer # "ok" =>
            LET said == {i \in DOMAIN q.attempts : q.attempts[i].calls > 0}
                code == IF said = {} THEN "none" ELSE q.attempts[Max(said)].code
            IN q.answer = CASE code \in {"credential", "rejected"} -> "passthrough"
                            [] code = "redirect" -> "redirect_rejected"
                            [] OTHER -> "request_failed"

\* A breaker that opened closes again once its connection works, if requests go
\* on to choose that connection first.
BreakerHeals ==
  \A c \in Connections :
    LET Wanted == \E r \in Callers :
          /\ callers[r].pc = "attaching" /\ callers[r].plan = <<>> /\ callers[r].todo # <<>>
          /\ Head(KeysOf[Head(callers[r].todo)]) = c
        FailsAt == \E r \in Callers :
              /\ callers[r].rest # <<>> /\ Head(callers[r].rest)[2] = c /\ callers[r].pc = "inFlight"
              /\ callers'[r].pc # "inFlight" /\ callers'[r].last # "ok"
    IN ([]<>Wanted /\ <>[][~FailsAt]_chainVars) => []<>(breakers[c].state = "closed")
=============================================================================
