SPECIFICATION FairSpec
CONSTANTS
  Levels = {l1}
  Market = "futures"
  IdSteps = {1, 2}
  MaxId = 15
  Reserve = 8
  MaxLosses = 1
  MaxFailures = 1
  MaxExternal = 0
INVARIANTS
  ExactlyOneFlag
  BookQueueConsistent
PROPERTIES
  ImplementsPhases
  Recovers
CHECK_DEADLOCK FALSE
