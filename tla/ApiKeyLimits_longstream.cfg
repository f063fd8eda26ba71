SPECIFICATION Spec
CONSTANTS
  json = json
  stream = stream
  other = other
  g1 = g1
  g2 = g2
  NoLimit = NoLimit
  Requests <- ThreeRequests
  Streaming <- Streams
  Gateways <- TwoGateways
  GatewayOf <- Placement
  Tokens <- TokensUsed
  Estimate <- Ones
  Cost <- Ones
  Unpriced <- NoRequest
  Limit <- Narrow
  Lenient = {}
  PeriodMinutes = 2
  QuietMinutes = 2
  MaxMinute = 0
  MaxLife = 3
  MaxWait = 0
  MaxFaults = 0
  AnswersLost = FALSE
INVARIANTS
  ActiveWindowsLeftAlone
