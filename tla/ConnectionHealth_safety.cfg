SPECIFICATION Spec
CONSTANTS
  a = a
  b = b
  c = c
  JobIds <- TwoJobs
  MaxAttempts = 2
  MaxFailures = 1
  MaxEdits = 2
  MaxDisruptions = 2
  Disruptions = {"edit", "rename", "refresh", "settings", "unread", "inconclusive", "throw", "lease", "report"}
SYMMETRY JobSymmetry
INVARIANTS
  TypeOK
  VerdictIsCurrent
  OneEventPerJob
PROPERTIES
  DisabledIsNotBlamed
