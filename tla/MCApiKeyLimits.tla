--------------------------- MODULE MCApiKeyLimits ---------------------------
(* ApiKeyLimits for TLC: a JSON request and two streams, on two gateways, under *)
(* limits that two of them reach together.                                      *)
EXTENDS ApiKeyLimits

CONSTANTS json, stream, other, g1, g2

ThreeRequests == {json, stream, other}
Streams == {stream, other}
TwoGateways == {g1, g2}
Placement == [r \in Requests |-> IF r = other THEN g2 ELSE g1]
TokensUsed == [r \in Requests |-> IF r = json THEN 2 ELSE 1]
Ones == [r \in Requests |-> 1]
NoRequest == {}
OneUnpriced == {other}
Wide == [concurrency |-> 2, rpm |-> 2, tpm |-> 3, token |-> 2, budget |-> 2]
Narrow == [concurrency |-> 1, rpm |-> NoLimit, tpm |-> NoLimit, token |-> NoLimit, budget |-> NoLimit]
=============================================================================
