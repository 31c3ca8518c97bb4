-------------------------- MODULE OrderBookLevels --------------------------
(***************************************************************************)
(* The two sides of an order book (aos/order_book/order_book.h): a map     *)
(* from price to level and a search tree of the same levels, whose memory  *)
(* comes from a pool.                                                      *)
(*                                                                         *)
(* A level is a block of the pool, known by its number.  level[n] is what  *)
(* the memory of block n holds; it stays there when the block is freed.    *)
(* The tree is the set of its blocks: its order is that of the prices.     *)
(***************************************************************************)
EXTENDS Integers, SequencesExt

EmptySide == [index |-> << >>, tree |-> {}, level |-> << >>, free |-> << >>]

-----------------------------------------------------------------------------
(* OrderBookInner.                                                         *)

\* The block for a new level: the one freed last, or a new one.
Block(s) == IF s.free = << >> THEN Len(s.level) + 1 ELSE Head(s.free)

Stored(s, n, price, qty) ==
  [k \in 1 .. (IF n > Len(s.level) THEN n ELSE Len(s.level)) |->
     IF k = n THEN [price |-> price, qty |-> qty] ELSE s.level[k]]

AddLevel(s, price, qty) ==
  IF price \in DOMAIN s.index
  THEN [s EXCEPT !.level = Stored(s, s.index[price], price, qty)]
  ELSE [index |-> [p \in DOMAIN s.index \cup {price} |->
                     IF p = price THEN Block(s) ELSE s.index[p]],
        tree  |-> s.tree \cup {Block(s)},
        level |-> Stored(s, Block(s), price, qty),
        free  |-> IF s.free = << >> THEN << >> ELSE Tail(s.free)]

AddBidLevel(book, price, qty) == [book EXCEPT !.bid = AddLevel(@, price, qty)]
AddAskLevel(book, price, qty) == [book EXCEPT !.ask = AddLevel(@, price, qty)]

\* Fault: the level stays in the tree.
RemoveLevelFromIndex(s, price) ==
  IF price \notin DOMAIN s.index THEN s
  ELSE [s EXCEPT !.index = [p \in DOMAIN s.index \ {price} |-> s.index[p]],
                 !.free  = <<s.index[price]>> \o @]

RemoveLevel(s, price) ==
  IF price \notin DOMAIN s.index THEN s
  ELSE [s EXCEPT !.index = [p \in DOMAIN s.index \ {price} |-> s.index[p]],
                 !.tree  = @ \ {s.index[price]},
                 !.free  = <<s.index[price]>> \o @]

RemoveBidLevel(book, price) == [book EXCEPT !.bid = RemoveLevel(@, price)]
RemoveAskLevel(book, price) == [book EXCEPT !.ask = RemoveLevel(@, price)]

\* Bids are best from the highest price on, asks from the lowest.
Better(side, p, r) == IF side = "bid" THEN p > r ELSE p < r

\* The blocks of a side, best price first.
Ordered(side, s) ==
  CHOOSE f \in [1 .. Cardinality(s.tree) -> s.tree] :
    \A i, j \in DOMAIN f : i < j => Better(side, s.level[f[i]].price, s.level[f[j]].price)

\* The map forgets its levels; the tree gives them back from the best one on.
ClearSide(side, s) ==
  [s EXCEPT !.index = << >>, !.tree = {}, !.free = Reverse(Ordered(side, s)) \o @]

ClearLevels(book) ==
  [bid |-> ClearSide("bid", book.bid), ask |-> ClearSide("ask", book.ask)]

\* The best of both sides, if both have one.
GetBBO(book) ==
  IF book.bid.tree = {} \/ book.ask.tree = {} THEN << >>
  ELSE <<book.bid.level[Head(Ordered("bid", book.bid))],
         book.ask.level[Head(Ordered("ask", book.ask))]>>

-----------------------------------------------------------------------------
(* Queries about the top of the book: which side, how many levels, and     *)
(* whether quantities count.  Each walks down the side and copies what     *)
(* differs from the caller's copy; it leaves alone the entries of the copy *)
(* that the side is too short for.                                         *)

Query(side, depth, withQty) == [side |-> side, depth |-> depth, withQty |-> withQty]

UpdateTopBid      == Query("bid", 1, TRUE)
UpdateTopBidPrice == Query("bid", 1, FALSE)
UpdateTopAsk      == Query("ask", 1, TRUE)
UpdateTopAskPrice == Query("ask", 1, FALSE)
UpdateTop5Bids    == Query("bid", 5, TRUE)
UpdateTop5Asks    == Query("ask", 5, TRUE)

\* A vector shorter than n is not filled at all.
UpdateTopNBids(n, size) == Query("bid", IF size < n THEN 0 ELSE n, TRUE)
UpdateTopNAsks(n, size) == Query("ask", IF size < n THEN 0 ELSE n, TRUE)

\* The block a query comes to at its i-th step, if there is one.
Visited(q, book, i) ==
  IF i <= q.depth /\ i <= Cardinality(book[q.side].tree)
  THEN <<Ordered(q.side, book[q.side])[i]>> ELSE << >>

-----------------------------------------------------------------------------
(* OrderBook: a quantity of zero removes the level.                        *)

AddBidOrder(book, price, qty) ==
  IF qty = 0 THEN RemoveBidLevel(book, price) ELSE AddBidLevel(book, price, qty)

AddAskOrder(book, price, qty) ==
  IF qty = 0 THEN RemoveAskLevel(book, price) ELSE AddAskLevel(book, price, qty)

AddOrder(book, c) ==
  IF c.side = "bid" THEN AddBidOrder(book, c.price, c.qty)
                    ELSE AddAskOrder(book, c.price, c.qty)

-----------------------------------------------------------------------------
(* What a side should be.                                                  *)

\* Map and tree hold the same levels, each under its own price, and the pool has every
\* other block once.
SideAgrees(s) ==
  /\ \A p \in DOMAIN s.index : s.level[s.index[p]].price = p /\ s.level[s.index[p]].qty > 0
  /\ s.tree = {s.index[p] : p \in DOMAIN s.index}
  /\ IsInjective(s.free)
  /\ ToSet(s.free) = DOMAIN s.level \ s.tree

\* The quantity at each price, by the map.
Contents(s) == [p \in DOMAIN s.index |-> s.level[s.index[p]].qty]

=============================================================================
