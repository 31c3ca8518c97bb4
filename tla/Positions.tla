------------------------------ MODULE Positions ------------------------------
(***************************************************************************)
(* Positions and profit: PositionStorageByPair with its positions          *)
(* (aos/position), the strategies that average prices                      *)
(* (aos/position_strategy), the realized and unrealized profit (aos/pnl),  *)
(* fed by Bybit's executions (aoe/bybit/execution_event) and by the best   *)
(* bid and offer.                                                          *)
(*                                                                         *)
(* Every map is keyed by exchange and trading pair and no operation looks  *)
(* at two keys: the module describes one.  The spot pair and the linear    *)
(* contract of that name share it.  Whether the position is net or hedged  *)
(* (the template chosen) is fixed initially.                               *)
(*                                                                         *)
(* Prices and quantities are integers, averages and profits exact          *)
(* fractions: rounding is left out, division by zero is not.               *)
(***************************************************************************)
EXTENDS Integers, Sequences, FiniteSetsExt

CONSTANTS
  Prices,         \* prices of executions
  Qtys,           \* quantities of executions
  Quotes,         \* <<bid, ask>>
  MaxExecutions   \* bound: executions

ASSUME InputsAssumption ==
  Prices \subseteq Nat /\ Qtys \subseteq Nat \ {0} /\ Quotes \subseteq Nat \X Nat
ASSUME BoundsAssumption == MaxExecutions \in Nat

VARIABLES
  hedged,           \* HedgedPosition or NetPosition
  position,         \* storage_position_: quantity and average price by side, or None
  realized_pnl_,    \* or None
  position_info_,   \* what the unrealized storage knows of the position, by entry
  bbo_,             \* the quote it holds, or None
  unrealized_pnl_,  \* or None
  latest,           \* the latest quote (history)
  at_latest,        \* a quote, and not an execution, had the profit computed last (history)
  misfiled,         \* sides whose entry holds something else since a report (history)
  spent,            \* money spent less received since the position was opened (history)
  executions        \* how many there have been

vars == <<hedged, position, realized_pnl_, position_info_, bbo_, unrealized_pnl_,
          latest, at_latest, misfiled, spent, executions>>

None == << >>

-----------------------------------------------------------------------------
(* Fractions: <<n, d>> in lowest terms; <<0, 0>> is what a division by     *)
(* zero leaves (inf or nan), and every operation passes it on.             *)

Abs(k) == IF k < 0 THEN -k ELSE k
Sign(k) == IF k < 0 THEN -1 ELSE 1

Lowest(n, d) ==
  LET k == Max({j \in 1 .. d : n % j = 0 /\ d % j = 0}) IN <<n \div k, d \div k>>

Ratio(n, d) == IF d = 0 THEN <<0, 0>> ELSE Lowest(Sign(d) * n, Abs(d))

Num(k)      == <<k, 1>>
Plus(x, y)  == Ratio(x[1] * y[2] + y[1] * x[2], x[2] * y[2])
Times(k, x) == Ratio(k * x[1], x[2])
Over(x, k)  == Ratio(x[1], x[2] * k)

IsNumber(x) == x[2] # 0

Fractions == Int \X Nat

-----------------------------------------------------------------------------
(* Positions.                                                              *)

Side == [qty : Int, avg : Fractions]

Zero == [qty |-> 0, avg |-> Num(0)]

Sides == IF hedged THEN {"short", "long"} ELSE {"net"}

Empty(p) == \A s \in DOMAIN p : p[s].qty = 0

\* What a call of a strategy does: the position after it, the sides it reports to the
\* unrealized storage, in that order, and the profit it realizes.
Outcome(p, reported, profit) == [position |-> p, reported |-> reported, profit |-> profit]

\* The average over a side and an execution.
Averaged(side, price, qty) ==
  [qty |-> side.qty + qty,
   avg |-> Over(Plus(Times(side.qty, side.avg), Num(qty * price)), side.qty + qty)]

\* What an execution takes from a side: no more than there is, with its own sign.
Removable(side, qty) == Sign(qty) * (IF Abs(side.qty) < Abs(qty) THEN Abs(side.qty) ELSE Abs(qty))

Profit(side, price, qty) ==
  Times(Removable(side, qty), Plus(Num(price), Times(-1, side.avg)))

NetAdd(p, price, qty) ==
  LET after == [p EXCEPT !["net"] = Averaged(@, price, qty)]
  IN  Outcome(after, <<"net">>, None)

\* Fault: the average price stays what it was, and the money received is forgotten.
NetRemovedKeepsAverage(side, price, qty) ==
  [qty |-> side.qty - qty, avg |-> IF side.qty = qty THEN Num(0) ELSE side.avg]

\* The money received lowers the average price of what is left.
NetRemoved(side, price, qty) ==
  LET left == side.qty - qty
  IN  [qty |-> left,
       avg |-> IF left # 0
               THEN Over(Plus(Times(left + qty, side.avg), Num(-(price * qty))), left)
               ELSE Num(0)]

NetRemove(p, price, qty) ==
  Outcome([p EXCEPT !["net"] = NetRemoved(@, price, qty)], <<"net">>,
          Profit(p["net"], price, qty))

SideOf(qty) == IF qty > 0 THEN "long" ELSE "short"
OtherSide(s) == IF s = "long" THEN "short" ELSE "long"

HedgedAdd(p, price, qty) ==
  LET s == SideOf(qty)
  IN  Outcome([p EXCEPT ![s] = Averaged(@, price, qty)], <<s>>, None)

\* The side loses what can be removed; only a positive quantity keeps an average.
HedgedReduced(side, price, qty) ==
  LET left == side.qty - Removable(side, qty)
  IN  [qty |-> left,
       avg |-> IF left > 0
               THEN Over(Plus(Times(left, side.avg), Times(-1, Profit(side, price, qty))), left)
               ELSE Num(0)]

\* The rest of the execution goes to the other side, with its sign, whose old average
\* is weighed with the new quantity.
HedgedTurned(side, price, rest) ==
  LET qty == side.qty + rest
  IN  [qty |-> qty, avg |-> Over(Plus(Times(qty, side.avg), Num(price * rest)), qty)]

HedgedRemove(p, price, qty) ==
  LET s       == SideOf(qty)
      rest    == qty - Removable(p[s], qty)
      reduced == [p EXCEPT ![s] = HedgedReduced(@, price, qty)]
      turned  == [reduced EXCEPT ![OtherSide(s)] = HedgedTurned(@, price, rest)]
      profit  == Profit(p[s], price, qty)
  IN  IF rest = 0 THEN Outcome(reduced, <<s>>, profit)
                  ELSE Outcome(turned, <<s, OtherSide(s)>>, profit)

Add(p, price, qty) ==
  IF hedged THEN HedgedAdd(p, price, qty) ELSE NetAdd(p, price, qty)

Remove(p, price, qty) ==
  IF hedged THEN HedgedRemove(p, price, qty) ELSE NetRemove(p, price, qty)

-----------------------------------------------------------------------------
(* The unrealized storage.                                                 *)

Entries == IF hedged THEN {"short", "long"} ELSE {"net"}

\* The hedged storage tells the sides apart by the sign of the quantity alone.
Entry(side) ==
  IF ~hedged THEN "net" ELSE IF side.qty >= 0 THEN "long" ELSE "short"

\* Fault: a quantity of zero is not worth storing.
EnteredUnlessZero(info, side) ==
  IF side.qty = 0 THEN info ELSE [info EXCEPT ![Entry(side)] = side]

Entered(info, side) == [info EXCEPT ![Entry(side)] = side]

\* The entries after the reports, one after the other.
InfoAfter(info, out) ==
  LET first == Entered(info, out.position[out.reported[1]])
  IN  IF Len(out.reported) = 1 THEN first ELSE Entered(first, out.position[out.reported[2]])

\* Keeps the history: a side reported under the other's name leaves both entries wrong until
\* they are reported again.
Filed(sides, s, side) == IF Entry(side) = s THEN sides \ {s} ELSE sides \cup {s, Entry(side)}

MisfiledAfter(sides, out) ==
  LET first == Filed(sides, out.reported[1], out.position[out.reported[1]])
  IN  IF Len(out.reported) = 1 THEN first
      ELSE Filed(first, out.reported[2], out.position[out.reported[2]])

\* Fault: the sides of the quote are mixed up.
ValueMixedUp(side, quote) ==
  Times(side.qty, Plus(Num(IF side.qty > 0 THEN quote[2] ELSE quote[1]), Times(-1, side.avg)))

\* UnRealizedPnlCalculator: a long is closed at the bid, a short at the ask.
Value(side, quote) ==
  IF side.qty > 0 THEN Times(side.qty, Plus(Num(quote[1]), Times(-1, side.avg)))
                  ELSE Times(-side.qty, Plus(side.avg, Num(-quote[2])))

Known(info) == {e \in DOMAIN info : info[e] # None}

\* Entries that were never reported count for nothing.
Total(info, quote) ==
  IF Known(info) = {} THEN None
  ELSE FoldSet(LAMBDA e, sum : Plus(sum, Value(info[e], quote)), Num(0), Known(info))

-----------------------------------------------------------------------------
(* The calls of the storage.                                               *)

\* A strategy's outcome reaches both profit storages.
Book(out) ==
  /\ realized_pnl_' = IF out.profit = None THEN realized_pnl_
                      ELSE Plus(IF realized_pnl_ = None THEN Num(0) ELSE realized_pnl_,
                                out.profit)
  /\ position_info_' = InfoAfter(position_info_, out)
  /\ unrealized_pnl_' = IF bbo_ = None THEN unrealized_pnl_ ELSE Total(position_info_', bbo_)
  /\ at_latest' = FALSE
  /\ misfiled' = MisfiledAfter(misfiled, out)
  /\ UNCHANGED <<hedged, bbo_, latest>>

NewPosition == [s \in Sides |-> Zero]

AddPosition(price, qty) ==
  LET out == Add(IF position = None THEN NewPosition ELSE position, price, qty)
  IN  /\ position' = out.position
      /\ Book(out)

\* Nothing is created when there is nothing to remove.
RemovePosition(price, qty) ==
  \/ /\ position = None
     /\ UNCHANGED <<hedged, position, realized_pnl_, position_info_, bbo_, unrealized_pnl_,
                    latest, at_latest, misfiled>>
  \/ /\ position # None
     /\ LET out == Remove(position, price, qty)
        IN  /\ position' = IF Empty(out.position) THEN None ELSE out.position
            /\ Book(out)

\* Keeps the history: only money of a position that is kept counts.
Spend(money) ==
  /\ executions < MaxExecutions
  /\ executions' = executions + 1
  /\ spent' = IF position' = None THEN 0 ELSE spent + money

\* ExecutionEventSpotBuy and ExecutionEventSpotSell.
SpotBuy(price, qty)  == AddPosition(price, qty) /\ Spend(price * qty)
SpotSell(price, qty) == RemovePosition(price, qty) /\ Spend(-(price * qty))

\* ExecutionEventLinearSell and ExecutionEventLinearBuy: selling opens and adds, buying
\* removes, both with a negative quantity.
LinearSell(price, qty) == AddPosition(price, -qty) /\ Spend(-(price * qty))
LinearBuy(price, qty)  == RemovePosition(price, -qty) /\ Spend(price * qty)

\* Fault: the arguments of the quote are swapped.
StoredSwapped(quote) == IF bbo_ = None THEN <<quote[2], quote[1]>> ELSE bbo_

\* try_emplace: the quote that came first stays.
Stored(quote) == IF bbo_ = None THEN quote ELSE bbo_

UpdateBBO(quote) ==
  /\ bbo_' = Stored(quote)
  /\ unrealized_pnl_' = IF Known(position_info_) = {} THEN unrealized_pnl_
                        ELSE Total(position_info_, quote)
  /\ latest' = quote
  /\ at_latest' = TRUE
  /\ UNCHANGED <<hedged, position, realized_pnl_, position_info_, misfiled, spent, executions>>

Init ==
  /\ hedged \in BOOLEAN
  /\ position = None
  /\ realized_pnl_ = None
  /\ position_info_ = [e \in Entries |-> None]
  /\ bbo_ = None
  /\ unrealized_pnl_ = None
  /\ latest = None
  /\ at_latest = FALSE
  /\ misfiled = {}
  /\ spent = 0
  /\ executions = 0

Next ==
  \/ \E price \in Prices, qty \in Qtys :
       \/ SpotBuy(price, qty)
       \/ SpotSell(price, qty)
       \/ LinearSell(price, qty)
       \/ LinearBuy(price, qty)
  \/ \E quote \in Quotes : UpdateBBO(quote)

Spec == Init /\ [][Next]_vars

-----------------------------------------------------------------------------
(* Properties.                                                             *)

\* Every variable keeps its type.
TypeOK ==
  /\ hedged \in BOOLEAN
  /\ position \in [Sides -> Side] \cup {None}
  /\ realized_pnl_ \in Fractions \cup {None}
  /\ position_info_ \in [Entries -> Side \cup {None}]
  /\ bbo_ \in Quotes \cup {None}
  /\ unrealized_pnl_ \in Fractions \cup {None}
  /\ latest \in Quotes \cup {None}
  /\ at_latest \in BOOLEAN
  /\ misfiled \subseteq Sides
  /\ spent \in Int
  /\ executions \in 0 .. MaxExecutions

\* The average price of a net position is its break-even price: through additions,
\* partial removals and turns from long to short, quantity times average is the money
\* spent on the position less the money received for it, unless an addition to exactly
\* zero has left no number.
BreakEven ==
  ~hedged /\ position # None /\ IsNumber(position["net"].avg) =>
    Times(position["net"].qty, position["net"].avg) = Num(spent)

\* A long is closed at the bid, a short at the ask.
Worth(qty, quote) == IF qty > 0 THEN qty * quote[1] ELSE qty * quote[2]

\* What closing a side of a hedged position would bring, less what it cost on average.
ClosingValue(side, quote) == Plus(Num(Worth(side.qty, quote)), Times(-side.qty, side.avg))

\* What closing the position would bring, less the money that is in it.
PositionProfit(quote) ==
  IF position = None THEN Num(0)
  ELSE IF hedged
       THEN Plus(ClosingValue(position["long"], quote), ClosingValue(position["short"], quote))
       ELSE Num(Worth(position["net"].qty, quote) - spent)

\* The unrealized profit is that of the position as it is, open or closed, and not only of
\* what the unrealized storage was told of it: after a quote at that quote, after an
\* execution at the first quote there ever was (pnl_unrealized_storage.h:82).  It need not
\* be while a closed short is stored as the long side (pnl_unrealized_storage.h:144), or
\* when an addition to exactly zero has left no number.
UnrealizedIsRight ==
  unrealized_pnl_ # None /\ IsNumber(unrealized_pnl_) /\ misfiled = {} =>
    unrealized_pnl_ = PositionProfit(IF at_latest THEN latest ELSE bbo_)

=============================================================================
