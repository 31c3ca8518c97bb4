CONSTANTS
  binance = binance
  bybit = bybit
  Assets = {binance, bybit}
  Links <- MCLinks
  Allowed = binance
  Prices = {1, 2, 4}
  Quotes = {1}
  WindowSize = 2
  Bins = 2
  RatioThreshold <- MCRatioThreshold
  MiThreshold <- MCMiThreshold
  MaxSamples = 5
  MaxOthers = 1
  MaxQueued = 2
SPECIFICATION Spec
CHECK_DEADLOCK FALSE
INVARIANTS
  ReadingsDescribeWindow
  StrandInOrder
  OrdersExplained
  HistogramsAgree
