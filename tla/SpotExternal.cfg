SPECIFICATION Spec
CONSTANTS
  Levels = {l1}
  Market = "spot"
  IdSteps = {1}
  MaxId = 5
  Reserve = 0
  MaxLosses = 1
  MaxFailures = 0
  MaxExternal = 2
INVARIANTS
  OnlyVerifiedSnapshots
  BookDiffsUnbroken
CHECK_DEADLOCK FALSE
