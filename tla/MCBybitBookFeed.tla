-------------------------- MODULE MCBybitBookFeed --------------------------
(***************************************************************************)
(* Constants for model checking BybitBookFeed: two bid prices and two ask  *)
(* prices; trades that move the best bid, change a quantity at a price, or *)
(* change both sides.                                                      *)
(***************************************************************************)
EXTENDS BybitBookFeed

Change(side, price, qty) == [side |-> side, price |-> price, qty |-> qty]

MCOpening == [bid |-> (1 :> 1), ask |-> (3 :> 1)]

MCTrades ==
  {<<Change("bid", 2, 1), Change("bid", 1, 0)>>,
   <<Change("bid", 1, 2), Change("bid", 2, 0), Change("ask", 3, 2)>>}

MCUninitialized == {<<0, 0>>, <<2, 2>>}

MCGarbage == {[price |-> 1, qty |-> 1]}

=============================================================================
