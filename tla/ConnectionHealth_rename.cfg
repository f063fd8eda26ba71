SPECIFICATION Spec
CONSTANTS
  a = a
  b = b
  c = c
  JobIds <- TwoJobs
  MaxAttempts = 2
  MaxFailures = 2
  MaxEdits = 1
  MaxDisruptions = 0
  Disruptions = {"rename"}
SYMMETRY JobSymmetry
INVARIANTS
  ProbesContinue
