SPECIFICATION FairSpec
CONSTANTS
  json = json
  stream = stream
  other = other
  g1 = g1
  g2 = g2
  NoLimit = NoLimit
  Requests <- ThreeRequests
  Streaming <- Streams
  Gateways <- TwoGateways
  GatewayOf <- Placement
  Tokens <- TokensUsed
  Estimate <- Ones
  Cost <- Ones
  Unpriced <- OneUnpriced
  Limit <- Wide
  Lenient = {}
  PeriodMinutes = 1
  QuietMinutes = 2
  MaxMinute = 1
  MaxLife = 1
  MaxWait = 1
  MaxFaults = 1
  AnswersLost = TRUE
INVARIANTS
  TypeOK
  CountCoversLeases
  ConcurrencyEnforced
  RatesHold
  CostsLandInTheirPeriod
PROPERTIES
  LeaksAreRepaired
