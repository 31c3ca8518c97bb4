SPECIFICATION FairSpec
CONSTANTS
  Levels = {l1, l2}
  Market = "futures"
  IdSteps = {1}
  MaxId = 6
  Reserve = 1
  MaxLosses = 0
  MaxFailures = 0
  MaxExternal = 0
INVARIANT
  NoUpdateMissed
PROPERTY
  Converges
CHECK_DEADLOCK FALSE
