------------------------------ MODULE Requests ------------------------------
(***************************************************************************)
(* What the clients of both exchanges say and to whom: the printed enums   *)
(* (enum_printer), the bodies of requests and the makers that wrap them    *)
(* (request, request_maker), subscriptions, logins and pings, and the      *)
(* endpoints of the session classes (session).                             *)
(*                                                                         *)
(* A message is a record of the fields that matter.  What cannot be made   *)
(* is the empty set, what can is a set of one message: every maker stops   *)
(* at the first field that does not convert.  Timestamps, quantities and   *)
(* signatures are left out.                                                *)
(***************************************************************************)
EXTENDS TradingPairs

-----------------------------------------------------------------------------
(* Printed enums: no entry, no text.                                       *)

BybitCategory    == [kSpot |-> "spot", kLinear |-> "linear", kInverse |-> "inverse"]
BybitSide        == [kSell |-> "Sell", kBuy |-> "Buy"]
BybitOrderMode   == [kMarket |-> "Market", kLimit |-> "Limit"]
BybitTimeInForce == [k \in {"GTC", "IOC", "FOK", "DAY", "GTD", "OPG", "CLS", "GTX", "MOC", "LOC"} |-> k]
BybitSpotDepth   == [k1 |-> "1", k50 |-> "50", k200 |-> "200"]
BybitLinearDepth == [k1 |-> "1", k50 |-> "50", k200 |-> "200", k500 |-> "500"]

BinanceCategory      == [kSpot |-> "spot", kFutures |-> "linear"]
BinanceSide          == [kSell |-> "SELL", kBuy |-> "BUY"]
BinanceOrderMode     == [kMarket |-> "MARKET", kLimit |-> "LIMIT"]
BinanceTimeInForce   == [k \in {"GTC", "IOC", "FOK"} |-> k]
BinanceSpotSpeed     == [k100 |-> "100ms", k1000 |-> "1000ms"]
BinanceFuturesSpeed  == [k100 |-> "100ms", k250 |-> "250ms", k500 |-> "500ms"]

BybitTables == [category |-> BybitCategory, side |-> BybitSide,
                mode |-> BybitOrderMode, tif |-> BybitTimeInForce]

BinanceTables == [category |-> BinanceCategory, side |-> BinanceSide,
                  mode |-> BinanceOrderMode, tif |-> BinanceTimeInForce]

-----------------------------------------------------------------------------
(* Orders.  A request has the fields its class sets and those its owner    *)
(* sets; the owner may set any of them again.                              *)

PlaceRequest == [category |-> "kInvalid", side |-> "kInvalid", mode |-> "kInvalid",
                 tif |-> "kInvalid"]

\* Category, symbol, side and mode must convert; the time in force is left out if not.
PlaceBody(tables, r) ==
  IF r.category \in DOMAIN tables.category /\ r.side \in DOMAIN tables.side
     /\ r.mode \in DOMAIN tables.mode
  THEN {[category |-> tables.category[r.category], symbol |-> s, side |-> tables.side[r.side],
         orderType |-> tables.mode[r.mode], orderLinkId |-> r.id,
         timeInForce |-> IF r.tif \in DOMAIN tables.tif THEN tables.tif[r.tif] ELSE "absent"]
          : s \in Symbol(r.pair)}
  ELSE {}

CancelBody(tables, r) ==
  {[category |-> tables.category[r.category], symbol |-> s, orderLinkId |-> r.id]
     : s \in Symbol(r.pair)}

\* The fields of a class and those its owner sets, which are set later.
Fields(class, set) ==
  [f \in DOMAIN class \cup DOMAIN set |-> IF f \in DOMAIN set THEN set[f] ELSE class[f]]

\* SpotBuyLimit, the class of order requests in use.
SpotBuyLimit ==
  [PlaceRequest EXCEPT !.category = "kSpot", !.side = "kBuy", !.mode = "kLimit"]

BybitSpotBuyLimit(set)   == PlaceBody(BybitTables, Fields(SpotBuyLimit, set))
BinanceSpotBuyLimit(set) == PlaceBody(BinanceTables, Fields(SpotBuyLimit, set))

\* Spot, the class of cancel requests in use.
BybitCancelSpot(set)   == CancelBody(BybitTables, Fields([category |-> "kSpot"], set))
BinanceCancelSpot(set) == CancelBody(BinanceTables, Fields([category |-> "kSpot"], set))

\* The makers; those of Binance write the envelope of Bybit.
Envelope(op, bodies)   == {[op |-> op, args |-> b] : b \in bodies}
BybitPlace(set)        == Envelope("order.create", BybitSpotBuyLimit(set))
BybitCancel(set)       == Envelope("order.cancel", BybitCancelSpot(set))
BinancePlace(set)      == Envelope("order.create", BinanceSpotBuyLimit(set))
BinanceCancel(set)     == Envelope("order.cancel", BinanceCancelSpot(set))

-----------------------------------------------------------------------------
(* Subscriptions.                                                          *)

Subscription(topic, symbol, rate) ==
  [op |-> "subscribe", topic |-> topic, symbol |-> symbol, rate |-> rate]

BybitExecution  == {Subscription("execution", "all", "none")}
BybitOrder      == {Subscription("order", "all", "none")}
BybitTickers(p) == {Subscription("tickers", s, "none") : s \in Symbol(p)}

BybitSpotBook(p, depth) ==
  {Subscription("orderbook", s, BybitSpotDepth[d])
     : s \in Symbol(p), d \in {depth} \cap DOMAIN BybitSpotDepth}

BybitLinearBook(p, depth) ==
  {Subscription("orderbook", s, BybitLinearDepth[d])
     : s \in Symbol(p), d \in {depth} \cap DOMAIN BybitLinearDepth}

\* Executions and orders of Binance come with the user's stream.
BinanceUserData  == {Subscription("userDataStream", "all", "none")}
BinanceExecution == BinanceUserData
BinanceOrder     == BinanceUserData

BinanceDiff(speeds, p, speed) ==
  {Subscription("depth", s, speeds[v]) : s \in SmallSymbol(p), v \in {speed} \cap DOMAIN speeds}

BinanceTrade(p) == {Subscription("trade", s, "none") : s \in SmallSymbol(p)}

-----------------------------------------------------------------------------
(* Snapshots of Binance's books over REST.                                 *)

SnapshotBody(path, host, limit, p) ==
  {[path |-> path, host |-> host, limit |-> limit, symbol |-> s] : s \in Symbol(p)}

\* SetLimit
Limit(n) == IF n > 5000 THEN 5000 ELSE n

SpotSnapshot(p)    == SnapshotBody("/api/v3/depth", "api.binance.com", 5000, p)
FuturesSnapshot(p) == SnapshotBody("/fapi/v1/depth", "fapi.binance.com", Limit(1000), p)

SpotRestSession    == [host |-> "api.binance.com", port |-> "443"]
FuturesRestSession == [host |-> "fapi.binance.com", port |-> "443"]

-----------------------------------------------------------------------------
(* Keys, logins and pings.                                                 *)

\* Get: the config file was read, and has the table and the key in it.
ReadKey(config, key) == key \in config

\* Each loader has keys of one kind, and returns none of the other.
BybitKeys(config, kind, net) ==
  kind = "hmac" /\ ReadKey(config, <<net, "api">>) /\ ReadKey(config, <<net, "secret">>)

BinanceKeys(config, kind, net) ==
  kind = "ed25519" /\ ReadKey(config, <<net, "api">>) /\ ReadKey(config, <<net, "secret">>)

\* An Ed25519 key that is not base64 of 64 bytes signs nothing; HMAC takes any.
Ed25519Sign(decodes) == IF decodes THEN {"signature"} ELSE {}
HmacSign             == {"signature"}

BybitAuth            == {[op |-> "auth", args |-> s] : s \in HmacSign}
BinanceAuth(decodes) == {[op |-> "session.logon", args |-> s] : s \in Ed25519Sign(decodes)}

Ping == [op |-> "ping", args |-> "none"]

-----------------------------------------------------------------------------
(* Sessions: where each class connects, and whether it hands on what it    *)
(* reads ("RW") or reads into nothing ("W").                               *)

At(host, path, kind) == [host |-> host, path |-> path, kind |-> kind]

BybitMainPrivate     == At("stream.bybit.com", "/v5/private", "RW")
BybitMainTradeW      == At("stream.bybit.com", "/v5/trade", "W")
BybitMainTradeRW     == At("stream.bybit.com", "/v5/trade", "RW")
BybitTestPrivate     == At("stream-testnet.bybit.com", "/v5/private", "RW")
BybitTestTradeW      == At("stream-testnet.bybit.com", "/v5/trade", "W")
BybitTestTradeRW     == At("stream-testnet.bybit.com", "/v5/trade", "RW")
BybitTestSpotBook    == At("stream-testnet.bybit.com", "/v5/public/spot", "RW")
BybitTestLinearBook  == At("stream-testnet.bybit.com", "/v5/public/linear", "RW")
BybitMainSpotBook    == At("stream.bybit.com", "/v5/public/spot", "RW")
BybitMainLinearBook  == At("stream.bybit.com", "/v5/public/linear", "RW")
BybitMainTickers     == At("stream-testnet.bybit.com", "/v5/public/linear", "RW")

BinanceMainPrivate     == At("ws-api.binance.com", "/ws-api/v3", "RW")
BinanceMainTradeW      == At("ws-api.binance.com", "/ws-api/v3", "W")
BinanceMainTradeRW     == At("ws-api.binance.com", "/ws-api/v3", "RW")
BinanceTestPrivate     == At("ws-api.testnet.binance.vision", "/ws-api/v3", "RW")
BinanceTestTradeW      == At("ws-api.testnet.binance.vision", "/v5/trade", "W")
BinanceTestTradeRW     == At("ws-api.testnet.binance.vision", "/v5/trade", "RW")
BinanceTestFuturesBook == At("stream.testnet.binancefuture.com", "/ws", "RW")
BinanceMainSpotBook    == At("stream.binance.com", "/ws", "RW")
BinanceMainFuturesBook == At("fstream.binance.com", "/ws", "RW")

=============================================================================
