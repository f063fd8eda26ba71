----------------------------- MODULE MCServices -----------------------------
(* An instance of the five services for TLC.                                   *)
EXTENDS Services

(* Two candidates that share a connection, one of them a subscription.  *)
CONSTANTS model, plan, k1, k2

Face(protocol, stream) == [protocol |-> protocol, stream |-> stream]
Faces == {Face("chat_completions", FALSE), Face("messages", FALSE), Face("chat_completions", TRUE)}
Adapters == [m \in {model, plan} |-> IF m = model THEN "none" ELSE "grok"]
Endpoints == [m \in {model, plan} |-> IF m = model THEN {"chat_completions", "messages"} ELSE {"chat_completions", "responses"}]
Keys == [m \in {model, plan} |-> IF m = model THEN <<k1, k2>> ELSE <<k1>>]
OneChain == [r \in Callers |-> {<<model, plan>>}]
AllHealthy == {{}}

\* Ticks until a summary is due: a quarter of an hour, an hour, a day.
RefreshDelays == [e \in QuotaErrors |->
  CASE e \in {"none", "probe_failed"} -> 1 [] e = "unauthorized" -> 2 [] OTHER -> 3]

\* Streams with and without usage events, and one with neither text nor usage.
Event(kind, in, out) == [kind |-> kind, in |-> in, out |-> out]
FourBodies == {<<Event("start", 3, 1), Event("delta", 0, 2)>>, <<Event("start", 3, 1), Event("usage", 5, 4)>>,
               <<Event("delta", 0, 2), Event("other", 0, 0)>>, <<Event("other", 0, 0)>>}
BothLineEnds == {<<LF>>, <<CR, LF>>}
=============================================================================
