---------------------------- MODULE EventParsers ----------------------------
(***************************************************************************)
(* The parsers of aoe/binance/parser and aoe/bybit/parser: what becomes of *)
(* a message.  A parser reads fields, has a factory make an event (a block *)
(* of the parser's pool), reads further fields into it and hands it out.   *)
(* It refuses a message before the event is made, or drops the event after.*)
(*                                                                         *)
(* A message is known by what is wrong with it: a function from fields to  *)
(* "missing", "bad" (not of the type or the value the parser asks for) or  *)
(* "unknown" (of no kind that a factory is registered for).  Fields that   *)
(* are not in its domain are as they should be.  A list of items is a      *)
(* sequence of such functions.                                             *)
(***************************************************************************)
EXTENDS Integers, Sequences, TLC

State(msg, field) == IF field \in DOMAIN msg THEN msg[field] ELSE "good"

\* Fields that must be there and convert.
Read(msg, fields) == \A f \in fields : State(msg, f) = "good"

\* Levels of the book may be missing; an entry that does not convert may not.
ReadLevels(msg, fields) == \A f \in fields : State(msg, f) \in {"good", "missing"}

Outcome(made, complete) ==
  IF ~made THEN "refused" ELSE IF complete THEN "event" ELSE "dropped"

-----------------------------------------------------------------------------
(* Binance.                                                                *)

\* "pu" is read of futures only, whose event has a setter for it.
BinanceDiff(market, msg) ==
  Outcome(Read(msg, {"e", "E"}),
          /\ Read(msg, {"u", "U", "s"} \cup (IF market = "futures" THEN {"pu"} ELSE {}))
          /\ ReadLevels(msg, {"b", "a"}))

\* The event is made first.
BinanceSnapshot(msg) ==
  Outcome(TRUE, Read(msg, {"lastUpdateId"}) /\ ReadLevels(msg, {"bids", "asks"}))

\* A report "x" of type TRADE; the symbol is there before and converted after.
BinanceExecution(msg) ==
  Outcome(Read(msg, {"x", "S", "n", "L", "l", "Y", "c"}) /\ State(msg, "s") # "missing",
          Read(msg, {"s"}))

BinanceFuturesExecution(msg) == BinanceExecution(msg)
BinanceTrade(msg)            == BinanceExecution(msg)
BinanceFuturesTrade(msg)     == BinanceExecution(msg)

BinanceOrder(msg) ==
  Outcome(Read(msg, {"e", "c", "X", "q", "z", "p"}) /\ State(msg, "s") # "missing",
          Read(msg, {"s"}))

-----------------------------------------------------------------------------
(* Bybit.                                                                  *)

\* The first item of a known kind makes the event; what is behind it is not looked at.
\* One that lacks a field ends the search.
FirstKnown(items, keys, fields) ==
  LET Bad(i)   == \/ ~Read(items[i], fields) \/ State(items[i], "symbol") = "missing"
                  \/ \E k \in keys : State(items[i], k) \in {"missing", "bad"}
      Known(i) == \A k \in keys : State(items[i], k) = "good"
      Stops(i) == Bad(i) \/ Known(i)
      First    == {i \in DOMAIN items : Stops(i) /\ \A j \in 1 .. (i - 1) : ~Stops(j)}
  IN  Outcome(\E i \in First : ~Bad(i), \E i \in First : Read(items[i], {"symbol"}))

BybitExecution(items) ==
  FirstKnown(items, {"category", "side"},
             {"execFee", "execPrice", "execQty", "execValue", "orderId"})

\* No factory is registered: every status is unknown.
BybitOrder(items) ==
  FirstKnown([i \in DOMAIN items |-> IF State(items[i], "orderStatus") = "good"
                                     THEN ("orderStatus" :> "unknown") @@ items[i] ELSE items[i]],
             {"orderStatus"}, {"price", "leavesQty", "orderLinkId"})

BybitOrderBook(msg) ==
  Outcome(Read(msg, {"type", "data"}), Read(msg, {"u", "s"}) /\ ReadLevels(msg, {"b", "a"}))

\* Only "snapshot" has a factory.
BybitFundingRate(msg) ==
  Outcome(Read(msg, {"type", "data"}), Read(msg, {"nextFundingTime", "fundingRate", "symbol"}))

-----------------------------------------------------------------------------
(* What the parsers make of a set of messages, flat ones and lists.        *)

Outcomes(msgs, lists) ==
  {o \in {"refused", "dropped", "event"} :
     \/ \E m \in msgs :
          o \in {BinanceDiff("spot", m), BinanceDiff("futures", m), BinanceSnapshot(m),
                BinanceExecution(m), BinanceFuturesExecution(m), BinanceTrade(m),
                BinanceFuturesTrade(m), BinanceOrder(m), BybitOrderBook(m), BybitFundingRate(m)}
     \/ \E l \in lists : o \in {BybitExecution(l), BybitOrder(l)}}

=============================================================================
