--------------------------- MODULE ClientSession ----------------------------
(***************************************************************************)
(* A session of the exchanges with the clients that are wired to it:       *)
(* PrivateSessionSetup, the ping manager, subscription builders and        *)
(* SingleOrderAPI with its makers.  Setup reads the keys, logs in and, for *)
(* Bybit, starts the pings; requests follow.  All of them go through the   *)
(* queue of the session, which sends them in order once it is connected.   *)
(*                                                                         *)
(* The owner calls Setup first, as the examples do; most of them do not    *)
(* look at what it returns, and go on when it has failed.  What happens    *)
(* inside the session is in WebSocketSession.                              *)
(***************************************************************************)
EXTENDS ClientQueue

CONSTANTS
  Wirings,      \* the sessions and clients to be checked
  Asked,        \* the pairs that the owner asks for
  MaxQueue      \* bound: messages waiting when the owner adds one; a ping may be one more

VARIABLES
  config,       \* the keys that the config file holds
  link,         \* "idle", "connecting", "live", "over"
  drained,      \* the only write loop of a write-only session has found the queue empty
  timer         \* the ping manager's timer: "off", "waiting", "due"

vars == <<wiring, config, decodes, login, link, drained, queue, wrote, first, timer>>

Keys == {"main", "test"} \X {"api", "secret"}

-----------------------------------------------------------------------------
(* Setup: both keys or nothing.  Binance's test net asks its loader for    *)
(* keys of the other kind, which it never has; and a login that cannot be  *)
(* signed is not sent, though Setup says it was.                           *)

BybitMainKeys == BybitKeys(config, "hmac", "main")
BybitTestKeys == BybitKeys(config, "hmac", "test")

BinanceMainKeys == BinanceKeys(config, "ed25519", "main")
BinanceTestKeys == BinanceKeys(config, "hmac", "test")

\* The ping manager sets the timer, again if it was set.
\* Fault: a ping does not set the timer for the next.
PingOnce == "off"

StartPing == "waiting"

BybitHasKeys   == IF wiring.net = "main" THEN BybitMainKeys ELSE BybitTestKeys
BinanceHasKeys == IF wiring.net = "main" THEN BinanceMainKeys ELSE BinanceTestKeys

\* Fault: the pings start whether or not there are keys.
SetupBybitPingsFirst ==
  /\ IF BybitHasKeys
     THEN login' = "done" /\ Write("all", BybitAuth)
     ELSE login' = "refused" /\ UNCHANGED <<queue, wrote>>
  /\ timer' = StartPing

SetupBybit ==
  IF BybitHasKeys
  THEN login' = "done" /\ Write("all", BybitAuth) /\ timer' = StartPing
  ELSE login' = "refused" /\ UNCHANGED <<queue, wrote, timer>>

SetupBinance ==
  /\ IF BinanceHasKeys
     THEN login' = "done" /\ Write("all", BinanceAuth(decodes))
     ELSE login' = "refused" /\ UNCHANGED <<queue, wrote>>
  /\ UNCHANGED timer

Setup ==
  /\ Private /\ login = "none"
  /\ IF Bybit THEN SetupBybit ELSE SetupBinance
  /\ UNCHANGED <<wiring, config, decodes, link, drained, first>>

-----------------------------------------------------------------------------
(* Clients.                                                                *)

\* Fault: the owner subscribes or orders before it calls Setup.
BeforeSetup == TRUE

\* Setup comes first; whatever it returned, the owner goes on.
SetupCalled == Private => login # "none"

Client(p, messages) ==
  /\ SetupCalled /\ Len(queue) < MaxQueue /\ Write(p, messages)
  /\ UNCHANGED <<wiring, config, decodes, login, link, drained, first, timer>>

\* Subscribe() of the builder wired to the session.
Subscribe(p) ==
  Client(p,
    CASE wiring.subscribes = "execution" -> IF Bybit THEN BybitExecution ELSE BinanceExecution
      [] wiring.subscribes = "order"     -> IF Bybit THEN BybitOrder ELSE BinanceOrder
      [] wiring.subscribes = "tickers"   -> BybitTickers(p)
      [] wiring.subscribes = "book"      -> IF Bybit THEN BybitSpotBook(p, "k50")
                                            ELSE BinanceDiff(BinanceSpotSpeed, p, "k1000")
      [] wiring.subscribes = "linear"    -> BybitLinearBook(p, "k200")
      [] wiring.subscribes = "futures"   -> BinanceDiff(BinanceFuturesSpeed, p, "k250")
      [] wiring.subscribes = "trade"     -> BinanceTrade(p)
      [] OTHER                           -> {})

\* SingleOrderAPI over WebSocketSessionProvider.
PlaceOrder(p, tif) ==
  LET set == [pair |-> p, id |-> 1, tif |-> tif] IN
  wiring.orders /\ Client(p, IF Bybit THEN BybitPlace(set) ELSE BinancePlace(set))

CancelOrder(p) ==
  LET set == [pair |-> p, id |-> 1] IN
  wiring.orders /\ Client(p, IF Bybit THEN BybitCancel(set) ELSE BinanceCancel(set))

-----------------------------------------------------------------------------
(* Timer and session, on the io_context.                                   *)

Expire ==
  /\ timer = "waiting" /\ timer' = "due"
  /\ UNCHANGED <<wiring, config, decodes, login, link, drained, queue, wrote, first>>

SendPing ==
  /\ timer = "due" /\ Len(queue) <= MaxQueue /\ Write("all", {Ping})
  /\ timer' = StartPing
  /\ UNCHANGED <<wiring, config, decodes, login, link, drained, first>>

Timed == Expire \/ SendPing

Link(from, to) ==
  /\ link \in from /\ link' = to
  /\ UNCHANGED <<wiring, config, decodes, login, drained, queue, wrote, first, timer>>

StartAsync == Link({"idle"}, "connecting")
Connect    == Link({"connecting"}, "live")
Fail       == Link({"connecting", "live"}, "over")

\* A write loop sends the first message; a session that reads has one for each message.
Send ==
  /\ link = "live" /\ queue # <<>> /\ ~drained
  /\ queue' = Tail(queue)
  /\ first' = IF first = {} THEN {Head(queue)} ELSE first
  /\ UNCHANGED <<wiring, config, decodes, login, link, drained, wrote, timer>>

\* The loop of a write-only session ends with the queue, and no other ever begins: the
\* session is not marked ready.
Drain ==
  /\ link = "live" /\ wiring.at.kind = "W" /\ queue = <<>> /\ ~drained
  /\ drained' = TRUE
  /\ UNCHANGED <<wiring, config, decodes, login, link, queue, wrote, first, timer>>

Init ==
  /\ wiring \in Wirings /\ config \in SUBSET Keys /\ decodes \in BOOLEAN
  /\ login = "none" /\ link = "idle" /\ drained = FALSE
  /\ queue = <<>> /\ wrote = {} /\ first = {} /\ timer = "off"

Next ==
  \/ Setup \/ Timed \/ StartAsync \/ Connect \/ Fail \/ Send \/ Drain
  \/ \E p \in Asked : Subscribe(p) \/ CancelOrder(p) \/ \E tif \in {"FOK", "kInvalid"} : PlaceOrder(p, tif)

\* The io_context runs timer and session.
FairParts == WF_vars(Timed) /\ WF_vars(Send)

Spec == Init /\ [][Next]_vars /\ FairParts

-----------------------------------------------------------------------------
(* Properties.                                                             *)

\* The state of login, timer and link, and: only a login of Bybit starts pings, and only a
\* write-only session stops writing.
TypeOK ==
  /\ login \in {"none", "done", "refused"} /\ link \in {"idle", "connecting", "live", "over"}
  /\ timer \in {"off", "waiting", "due"} /\ Len(queue) <= MaxQueue + 1
  /\ timer # "off" => login = "done" /\ Bybit
  /\ drained \in BOOLEAN /\ (drained => wiring.at.kind = "W")

Orders == {"order.create", "order.cancel"}

\* What an endpoint understands.
Ops(path) ==
  CASE path = "/v5/private" -> {"auth", "ping", "subscribe"}
    [] path = "/v5/trade"   -> {"auth", "ping", "order.create", "order.cancel"}
    [] path = "/ws-api/v3"  -> {"session.logon", "subscribe"}
    [] OTHER                -> {"subscribe"}

Topics(path) ==
  CASE path = "/v5/private" -> {"execution", "order"}
    [] path = "/ws-api/v3"  -> {"userDataStream"}
    [] path = "/ws"         -> {"depth", "trade"}
    [] OTHER                -> {"orderbook", "tickers"}

\* Depths of Bybit's books and speeds of Binance's, which differ between spot and the others.
Rates(at) ==
  CASE at.path = "/v5/public/spot"      -> {"1", "50", "200"}
    [] at.path = "/v5/public/linear"    -> {"1", "50", "200", "500"}
    [] at.host = "stream.binance.com"   -> {"100ms", "1000ms"}
    [] OTHER                            -> {"100ms", "250ms", "500ms"}

Hosts(exchange) ==
  IF exchange = "bybit"
  THEN {"stream.bybit.com", "stream-testnet.bybit.com"}
  ELSE {"ws-api.binance.com", "ws-api.testnet.binance.vision", "stream.binance.com",
        "fstream.binance.com", "stream.testnet.binancefuture.com"}

Fits(at, m) ==
  /\ m.op \in Ops(at.path)
  /\ m.op = "subscribe" => m.topic \in Topics(at.path) /\ m.rate \in Rates(at) \cup {"none"}

\* Whatever a client writes goes to an endpoint of its exchange, main or test net, that
\* understands it, and what it writes for a pair has the symbol of that pair: no pair's
\* symbol is taken for another's.  Orders of Binance are left out of the first part: they
\* have the form of Bybit's, and Binance would not understand them.
RequestsAreUnderstood ==
  \A w \in wrote : LET m == w.message IN
    /\ Bybit \/ m.op \notin Orders => Fits(wiring.at, m) /\ wiring.at.host \in Hosts(wiring.exchange)
    /\ m.op = "subscribe" /\ m.symbol # "all" => PairOfSymbol[m.symbol] = w.pair
    /\ m.op \in Orders => PairOfSymbol[m.args.symbol] = w.pair

\* A session of Bybit that is logged in and stays connected is sent pings again and again
\* (ping_manager.h:37, "start again"), or the exchange would close it.  A write-only session
\* is left out: it stops writing when its queue is empty.
KeepsAlive ==
  Bybit /\ wiring.at.kind = "RW" /\ <>[](login = "done" /\ link = "live")
    => []<><<Send /\ Head(queue) = Ping>>_vars

=============================================================================
