SPECIFICATION ServicesSpec
CONSTANTS
  model = model
  plan = plan
  k1 = k1
  k2 = k2
  Callers = {r1}
  Chains <- OneChain
  Asked <- Faces
  AdapterOf <- Adapters
  EndpointsOf <- Endpoints
  KeysOf <- Keys
  Unhealthy <- AllHealthy
  Retries = 1
  MinRequests = 2
  MaxSamples = 2
  Bodies <- FourBodies
  LineEnds <- BothLineEnds
  HighWater = 3
  MaxCalls = 2
  WakeJobs = {j1, j2}
  Sessions = {s1, s2}
  MaxTries = 2
  MaxLosses = 1
  MaxWakeErrors = 1
  NoSession = NoSession
  Keepers = {w1, w2}
  MaxBatches = 1
  MaxTroubles = 1
  Nobody = Nobody
  Dialects <- AllDialects
  Whole = 2
  QuotaTries = 2
  QuotaDelay <- RefreshDelays
  MaxQuotaFaults = 1
CHECK_DEADLOCK FALSE
INVARIANTS
  TypesOK
  AttemptsExplainAnswer
  StreamOutcome
PROPERTIES
  BreakerHeals
  StreamsEnd
  JobsAreTaken
  TasksAreKept
  QuotaIsKept
