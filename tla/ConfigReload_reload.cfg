SPECIFICATION FairSpec
CONSTANTS
  edit = edit
  refresh = refresh
  rename = rename
  Writers <- ThreeWriters
  LockOrder <- Orders
  MaxFaults = 1
INVARIANTS
  TypeOK
  LabelNotAhead
  HeardIsServed
  QuietAfterStop
PROPERTIES
  ServesForward
  CatchesUp
