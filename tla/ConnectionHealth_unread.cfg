SPECIFICATION Spec
CONSTANTS
  a = a
  b = b
  c = c
  JobIds <- TwoJobs
  MaxAttempts = 2
  MaxFailures = 1
  MaxEdits = 1
  MaxDisruptions = 1
  Disruptions = {"edit", "unread"}
SYMMETRY JobSymmetry
PROPERTIES
  StaleCommitsNothing
