SPECIFICATION Spec
CONSTANTS
  Levels = {l1}
  Market = "futures"
  IdSteps = {1}
  MaxId = 5
  Reserve = 0
  MaxLosses = 1
  MaxFailures = 0
  MaxExternal = 0
PROPERTY
  OnlyEarlierDiffsSkipped
CHECK_DEADLOCK FALSE
