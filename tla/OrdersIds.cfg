SPECIFICATION Spec
CONSTANTS
  Exchange = "binance"
  ManualIds = {}
  CalledIds = {0}
  AmendedQtys = {}
  MayFail = FALSE
  Placements = 3
  MaxQty = 2
  MaxInFlight = 2
INVARIANTS
  UniqueIds
  StorageHoldsUnfinished
  PendingActionsAwaited
  CancelsHitTheirOrder
  QuantityAgrees
CHECK_DEADLOCK FALSE
