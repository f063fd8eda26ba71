SPECIFICATION FairSpec
CONSTANTS
  a = a
  b = b
  c = c
  JobIds <- TwoJobs
  MaxAttempts = 2
  MaxFailures = 2
  MaxEdits = 1
  MaxDisruptions = 1
  Disruptions = {"edit", "unread", "throw"}
PROPERTIES
  Recovers
