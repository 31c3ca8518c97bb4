SPECIFICATION MCSpec
CONSTANTS
  Pairs = {"BTCUSDT", "BNBUSDT"}
  Threads = 2
  Enabled = {"best_ask_price"}
  Called = {"BTCUSDT"}
  Aliases = {"BinanceMainSpot", "BinanceMainFutures", "BybitMainSpot", "BybitMainLinear"}
  MaxWork = 1
  MaxTrades = 1
  Wirings <- MCWirings
  Asked = {"BTCUSDT", "BNBUSDT"}
  MaxQueue = 2
INVARIANTS
  TypesOK
  SessionsAreSafe
  AuthFirst
  RequestsAreUnderstood
PROPERTIES
  StartedSessionsServe
  StoppedIsDestroyed
  KeepsAlive
CHECK_DEADLOCK FALSE
