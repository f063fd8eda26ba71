SPECIFICATION FairSpec
CONSTANTS
  p1 = p1
  p2 = p2
  worker = worker
  j1 = j1
  None = None
  Jobs <- OneJob
  Procs <- TwoProcs
  WorkerIds <- OneWorkerId
  WorkerId <- SharedId
  Priority <- Priorities
  Skew <- SkewedClocks
  MaxAttempts = 2
  LeaseTicks = 1
  BackoffTicks = 1
  MaxDuration = 1
  MaxDelay = 1
  MaxLag = 1
  MaxStops = 1
INVARIANTS
  TypeOK
  LedgerAgrees
  ResultIsCurrent
  AttemptRunsOnce
PROPERTIES
  EveryJobSettles
  ImplementsLifecycle
