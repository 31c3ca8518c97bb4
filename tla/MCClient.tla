------------------------------ MODULE MCClient ------------------------------
(***************************************************************************)
(* Infrastructure and ClientSession in one model: they have no state in    *)
(* common, so each behaviour is of one of them.                            *)
(***************************************************************************)
EXTENDS Infrastructure, ClientQueue

CONSTANTS Wirings, Asked, MaxQueue

VARIABLES part, config, link, drained, timer

Client == INSTANCE ClientSession

Wired(at, exchange, netname, subscribes, orders) ==
  [at |-> at, exchange |-> exchange, net |-> netname, subscribes |-> subscribes, orders |-> orders]

\* The wirings of the examples, and the test net's counterparts; example27 logs in to the
\* test net with the keys of the main net.
MCWirings ==
  {Wired(BybitMainPrivate, "bybit", "main", "execution", FALSE),
   Wired(BybitTestPrivate, "bybit", "test", "order", FALSE),
   Wired(BybitTestPrivate, "bybit", "main", "order", FALSE),
   Wired(BybitMainTradeRW, "bybit", "main", "none", TRUE),
   Wired(BybitTestTradeW, "bybit", "test", "none", TRUE),
   Wired(BybitTestTradeRW, "bybit", "test", "none", TRUE),
   Wired(BinanceMainPrivate, "binance", "main", "order", FALSE),
   Wired(BinanceTestPrivate, "binance", "test", "execution", FALSE),
   Wired(BinanceMainTradeRW, "binance", "main", "none", TRUE),
   Wired(BinanceMainTradeW, "binance", "main", "none", TRUE),
   Wired(BybitMainTickers, "bybit", "public", "tickers", FALSE),
   Wired(BybitTestSpotBook, "bybit", "public", "book", FALSE),
   Wired(BybitTestLinearBook, "bybit", "public", "linear", FALSE),
   Wired(BinanceMainSpotBook, "binance", "public", "book", FALSE),
   Wired(BinanceMainFuturesBook, "binance", "public", "trade", FALSE),
   Wired(BinanceTestFuturesBook, "binance", "public", "futures", FALSE),
   Wired(BinanceTestTradeW, "binance", "test", "none", FALSE),
   Wired(BinanceTestTradeRW, "binance", "test", "none", FALSE),
   Wired(BybitMainTradeW, "bybit", "main", "none", TRUE)}

ASSUME ClientAssumption == Asked \subseteq TradingPairs /\ MaxQueue \in Nat

ClientVars == <<wiring, config, decodes, login, link, drained, queue, wrote, first, timer>>

MCInit ==
  /\ Init /\ Client!Init
  /\ \/ part = "infrastructure" /\ config = {} /\ decodes /\ wiring = (CHOOSE w \in Wirings : TRUE)
     \/ /\ part = "client" /\ alias = Alias(CHOOSE name \in Aliases : TRUE)
        /\ Private \/ config = {}
        /\ decodes \/ (Private /\ ~Bybit)

MCNext ==
  \/ part = "infrastructure" /\ Next /\ UNCHANGED <<part, ClientVars>>
  \/ part = "client" /\ Client!Next /\ UNCHANGED <<part, vars>>

\* The fairness of each part is vacuous in a behaviour of the other, which leaves it in a
\* state where none of its fair actions is enabled.
MCSpec == MCInit /\ [][MCNext]_<<part, vars, ClientVars>>
          /\ FairParts /\ Client!FairParts

\* The types of both parts; only a login of Bybit starts pings (session_setup.h:35).
TypesOK == TypeOK /\ Client!TypeOK

\* Every message, a subscription of the infrastructure or a request of a client, is for its
\* endpoint and about the pair that was asked for.
RequestsAreUnderstood == AsksForItsPair /\ Client!RequestsAreUnderstood

\* ClientSession: pings are sent again and again, if the session does not only write.
KeepsAlive == part = "client" => Client!KeepsAlive

=============================================================================
