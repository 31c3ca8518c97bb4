SPECIFICATION FairSpec
CONSTANTS
  Exchange = "binance"
  ManualIds = {0}
  CalledIds = {0, 1}
  AmendedQtys = {2}
  MayFail = TRUE
  Placements = 2
  MaxQty = 1
  MaxInFlight = 2
PROPERTY
  EndedOrdersLeave
CHECK_DEADLOCK FALSE
