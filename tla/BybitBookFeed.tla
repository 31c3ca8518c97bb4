--------------------------- MODULE BybitBookFeed ---------------------------
(***************************************************************************)
(* From Bybit's order book channel to a callback about the best price:     *)
(* the response queue and its listener (aoe/bybit/response_queue_listener),*)
(* OrderBookSync (aoe/bybit/order_book_sync), the order book and its       *)
(* notifier (aos/order_book), and one subscriber (aos/order_book_subscriber).*)
(*                                                                         *)
(* Listener, sync, book and subscriber have a strand each.  A coroutine    *)
(* that awaits dispatch(strand of the book) goes through the queue of that *)
(* strand and then resumes on its own: it reads the book while the strand  *)
(* of the book may be changing it.                                         *)
(***************************************************************************)
EXTENDS OrderBookLevels

CONSTANTS
  Opening,        \* the exchange's book at the start: [bid, ask], quantities by price
  Trades,         \* what a trade may change: sequences of [side, price, qty]
  Subscribers,    \* the kinds of subscriber, one of which is there
  Uninitialized,  \* values that the ids of diff and snapshot may have before they are set
  Garbage,        \* quotes that memory may hold that was never set
  FirstId,        \* the id of the first snapshot
  MaxMessages,    \* bound: messages in all
  MaxTrades,      \* bound: diffs
  MaxRestarts,    \* bound: restarts of the exchange's service
  MaxRepeats,     \* bound: snapshots pushed again
  MaxLosses,      \* bound: messages the parser refuses
  MaxAhead,       \* bound: messages on their way to the sync
  MaxBehind       \* bound: operations and signals on their way to book and subscriber

\* Prices and quantities are numbers, in ticks and lots; a quantity of zero takes a level away.
Sides        == {"bid", "ask"}
LevelChanges == [side : Sides, price : Nat, qty : Nat]

\* The books an exchange may have: a quantity at each of finitely many prices.
IsMarket(m) ==
  /\ m = [bid |-> m.bid, ask |-> m.ask]
  /\ \A s \in Sides : /\ IsFiniteSet(DOMAIN m[s]) /\ DOMAIN m[s] \subseteq Nat
                      /\ m[s] \in [DOMAIN m[s] -> Nat \ {0}]

ASSUME MarketAssumption == IsMarket(Opening) /\ Trades \subseteq Seq(LevelChanges)
ASSUME GarbageAssumption == Garbage \subseteq [price : Nat, qty : Nat]
ASSUME IdsAssumption    == FirstId \in Nat \ {0} /\ Uninitialized \subseteq Nat \X Nat
ASSUME BoundsAssumption ==
  /\ MaxMessages \in Nat /\ MaxTrades \in Nat /\ MaxRestarts \in Nat /\ MaxRepeats \in Nat
  /\ MaxLosses \in Nat /\ MaxAhead \in Nat /\ MaxBehind \in Nat

VARIABLES
  (* The exchange.                                                         *)
  market, u,          \* its book and the id of the last update
  past,               \* history: its book by restart and id
  restarts, bounds,   \* restarts so far; what the bounds still allow
  (* The response queue and its listener.                                  *)
  queue_, runs,       \* messages; ProcessQueue coroutines not yet begun
  running,            \* one is running
  (* OrderBookSync.                                                        *)
  syncQ,              \* events on its strand
  notify,             \* it has passed an event on and not yet told the subscriber
  received_snapshot_success_, current_diff_update_id_, current_snapshot_update_id_,
  adopted,            \* history: the restart whose snapshot is in the book, << >> if none
  merged,             \* history: that snapshot was merged with levels of another book
  (* The order book.                                                       *)
  bookOps, book,
  (* The subscriber.                                                       *)
  subscriber,         \* its kind
  handlers,           \* what its strand has to do
  reading,            \* the query it is in the middle of
  copy,               \* what it last read, by side and level
  told                \* what the last callback saw, << >> before the first

exchange == <<market, u, past, restarts, bounds>>
listener == <<queue_, runs, running>>
ids      == <<received_snapshot_success_, current_diff_update_id_,
              current_snapshot_update_id_, adopted, merged>>
reader   == <<handlers, reading, copy, told>>
vars     == <<exchange, listener, syncQ, notify, ids, bookOps, book, subscriber, reader>>

-----------------------------------------------------------------------------
(* The kinds of subscriber: the queries each makes, one after the other.   *)

Queries ==
  [BestBidNotifier          |-> <<UpdateTopBid>>,
   BestAskNotifier          |-> <<UpdateTopAsk>>,
   BestBidPriceNotifier     |-> <<UpdateTopBidPrice>>,
   BestAskPriceNotifier     |-> <<UpdateTopAskPrice>>,
   BestBidOrBestAskNotifier |-> <<UpdateTopBid, UpdateTopAsk>>,
   Top5                     |-> <<UpdateTop5Bids, UpdateTop5Asks>>,
   TopN                     |-> <<UpdateTopNBids(2, 2), UpdateTopNAsks(2, 1)>>]

ASSUME SubscribersAssumption == Subscribers \subseteq DOMAIN Queries

-----------------------------------------------------------------------------
(* The exchange: a snapshot on subscription, diffs with consecutive ids,   *)
(* now and then the snapshot again, and after a restart of its service a   *)
(* snapshot with id 1.                                                     *)

Changed(m, changes) ==
  FoldLeft(LAMBDA acc, c :
             [acc EXCEPT ![c.side] =
                [p \in IF c.qty = 0 THEN DOMAIN @ \ {c.price} ELSE DOMAIN @ \cup {c.price} |->
                   IF p = c.price THEN c.qty ELSE @[p]]],
           m, changes)

\* The levels of a book as changes, bids first.
Levels(m) ==
  LET Of(side) == SetToSeq({[side |-> side, price |-> p, qty |-> m[side][p]] : p \in DOMAIN m[side]})
  IN  Of("bid") \o Of("ask")

\* Fault: a listener that has work to do is not called again.
EnqueueQuietly(msg) ==
  /\ Len(queue_) + Len(syncQ) < MaxAhead
  /\ queue_' = Append(queue_, msg)
  /\ runs' = IF runs = 0 THEN 1 ELSE runs

\* The session enqueues a message and calls OnDataEnqueued, which spawns ProcessQueue.
Enqueue(msg) ==
  /\ Len(queue_) + Len(syncQ) < MaxAhead
  /\ queue_' = Append(queue_, msg) /\ runs' = runs + 1

Counted(what) == bounds[what] > 0 /\ bounds' = [bounds EXCEPT ![what] = @ - 1]

Sends(what) ==
  /\ bounds[what] > 0 /\ bounds["messages"] > 0
  /\ bounds' = [bounds EXCEPT ![what] = @ - 1, !["messages"] = @ - 1]

Unchanged == UNCHANGED <<running, syncQ, notify, ids, bookOps, book, subscriber, reader>>

\* The first snapshot, or one again.
SendSnapshot ==
  /\ Sends("snapshots")
  /\ Enqueue([type |-> "snapshot", u |-> u, epoch |-> restarts, changes |-> Levels(market)])
  /\ Unchanged /\ UNCHANGED <<market, u, past, restarts>>

Remember ==
  past' = [at \in DOMAIN past \cup {<<restarts', u'>>} |->
             IF at = <<restarts', u'>> THEN market' ELSE past[at]]

Subscribed == bounds["snapshots"] <= MaxRepeats

Trade ==
  /\ Subscribed /\ Sends("trades")
  /\ \E t \in Trades :
       /\ market' = Changed(market, t) /\ market' # market
       /\ u' = u + 1
       /\ Enqueue([type |-> "delta", u |-> u', epoch |-> restarts, changes |-> t])
  /\ UNCHANGED restarts
  /\ Remember
  /\ Unchanged

Restart ==
  /\ Subscribed /\ Sends("restarts")
  /\ market' = Opening
  /\ u' = 1
  /\ restarts' = restarts + 1
  /\ Enqueue([type |-> "snapshot", u |-> 1, epoch |-> restarts', changes |-> Levels(market')])
  /\ Remember
  /\ Unchanged

-----------------------------------------------------------------------------
(* The listener, on its strand.                                            *)

BeginRun ==
  /\ runs > 0 /\ ~running
  /\ runs' = runs - 1 /\ running' = TRUE
  /\ UNCHANGED <<exchange, queue_, syncQ, notify, ids, bookOps, book, subscriber, reader>>

ProcessMessage ==
  /\ running /\ queue_ # << >>
  /\ queue_' = Tail(queue_)
  /\ syncQ' = Append(syncQ, Head(queue_))
  /\ UNCHANGED <<exchange, runs, running, notify, ids, bookOps, book, subscriber, reader>>

\* A message that the parser makes no event of ends the run.
RefuseMessage ==
  /\ running /\ queue_ # << >> /\ Counted("losses")
  /\ queue_' = Tail(queue_)
  /\ running' = FALSE
  /\ UNCHANGED <<market, u, past, restarts, runs, syncQ, notify, ids, bookOps, book,
                 subscriber, reader>>

EndRun ==
  /\ running /\ queue_ = << >>
  /\ running' = FALSE
  /\ UNCHANGED <<exchange, queue_, runs, syncQ, notify, ids, bookOps, book, subscriber, reader>>

-----------------------------------------------------------------------------
(* OrderBookSync, on its strand.  It passes events to OrderBookNotifier,   *)
(* which posts them to the book and then tells the subscriber.             *)

ClearOp     == [op |-> "clear"]
EventOp(e)  == [op |-> "event", changes |-> e.changes]

OnSyncStrand(type) ==
  /\ ~notify /\ syncQ # << >> /\ Head(syncQ).type = type
  /\ Len(bookOps) + Len(handlers) < MaxBehind
  /\ syncQ' = Tail(syncQ)
  /\ UNCHANGED <<exchange, listener, book, subscriber, reader>>

IgnoreEvent == UNCHANGED <<current_diff_update_id_, current_snapshot_update_id_, bookOps, notify>>

\* What the book will hold when its strand has run what it was sent.
Projected ==
  FoldLeft(LAMBDA m, o : CASE o.op = "clear" -> [bid |-> << >>, ask |-> << >>]
                           [] o.op = "event" -> Changed(m, o.changes)
                           [] o.op = "query" -> m,
           [bid |-> Contents(book.bid), ask |-> Contents(book.ask)], bookOps)

NoLevels == [bid |-> << >>, ask |-> << >>]

\* The book is cleared for a snapshot only after a restart.  Any other is merged, with levels
\* that the exchange may not have any more unless it is the snapshot the book is already at.
Merges(e) ==
  /\ e.u # 1 /\ Projected # NoLevels
  /\ ~(adopted # << >> /\ ~merged /\ e.u = current_diff_update_id_)

\* An ignored snapshot is in the book if the book is still at its id.
StillAdopted(e) ==
  IF adopted # << >> /\ e.u = current_diff_update_id_ THEN <<e.epoch>> ELSE adopted

\* A snapshot with the id of the last one is taken for the same one.
ProcessSnapshot ==
  /\ OnSyncStrand("snapshot")
  /\ received_snapshot_success_' = TRUE
  /\ LET e == Head(syncQ)
     IN  IF e.u = current_snapshot_update_id_
         THEN IgnoreEvent /\ adopted' = StillAdopted(e) /\ merged' = merged
         ELSE /\ current_snapshot_update_id_' = e.u
              /\ current_diff_update_id_' = e.u
              /\ bookOps' = bookOps \o (IF e.u = 1 THEN <<ClearOp>> ELSE << >>) \o <<EventOp(e)>>
              /\ notify' = TRUE
              /\ adopted' = <<e.epoch>> /\ merged' = Merges(e)

\* A gap: the book is cleared, and everything until the next snapshot is ignored.
Reset ==
  /\ bookOps' = Append(bookOps, ClearOp)
  /\ received_snapshot_success_' = FALSE
  /\ current_diff_update_id_' = 0 /\ current_snapshot_update_id_' = 0
  /\ adopted' = << >> /\ merged' = FALSE

\* Fault: the id of the last diff is not looked at.
ContinuesAnyway(e) == TRUE

Continues(e) == current_diff_update_id_ + 1 = e.u

ProcessDiff ==
  /\ OnSyncStrand("delta")
  /\ LET e == Head(syncQ)
     IN  \/ /\ ~received_snapshot_success_
            /\ IgnoreEvent /\ UNCHANGED <<received_snapshot_success_, adopted, merged>>
         \/ /\ received_snapshot_success_ /\ ~Continues(e)
            /\ Reset /\ UNCHANGED notify
         \/ /\ received_snapshot_success_ /\ Continues(e)
            /\ bookOps' = Append(bookOps, EventOp(e)) /\ notify' = TRUE
            /\ current_diff_update_id_' = e.u
            /\ UNCHANGED <<received_snapshot_success_, current_snapshot_update_id_,
                           adopted, merged>>

\* The strand of the subscriber gets a coroutine (OnOrderBookUpdate).
NotifySubscriber ==
  /\ notify /\ notify' = FALSE
  /\ handlers' = Append(handlers, [query |-> 0, changed |-> FALSE])
  /\ UNCHANGED <<exchange, listener, syncQ, ids, bookOps, book, subscriber, reading, copy, told>>

-----------------------------------------------------------------------------
(* The order book, on its strand: ProcessEvent changes one level at a time.*)

OnBookStrand(op) ==
  /\ bookOps # << >> /\ Head(bookOps).op = op
  /\ UNCHANGED <<exchange, listener, syncQ, notify, ids, subscriber, reading, copy, told>>

ProcessEvent ==
  /\ OnBookStrand("event")
  /\ LET changes == Head(bookOps).changes
     IN  IF changes = << >> THEN bookOps' = Tail(bookOps) /\ UNCHANGED book
         ELSE /\ book' = AddOrder(book, Head(changes))
              /\ bookOps' = [bookOps EXCEPT ![1].changes = Tail(changes)]
  /\ UNCHANGED handlers

ProcessClear ==
  /\ OnBookStrand("clear")
  /\ book' = ClearLevels(book)
  /\ bookOps' = Tail(bookOps)
  /\ UNCHANGED handlers

\* A coroutine of the subscriber goes back to its own strand.
PassQuery ==
  /\ OnBookStrand("query")
  /\ handlers' = Append(handlers, [query |-> Head(bookOps).query, changed |-> Head(bookOps).changed])
  /\ bookOps' = Tail(bookOps)
  /\ UNCHANGED book

-----------------------------------------------------------------------------
(* The subscriber, on its strand.                                          *)

\* Fault: a query does not queue up behind the events (the await is missing).
AskBookFirst(n, changed) ==
  bookOps' = <<[op |-> "query", query |-> n, changed |-> changed]>> \o bookOps

\* co_await dispatch(strand of the book)
AskBook(n, changed) ==
  bookOps' = Append(bookOps, [op |-> "query", query |-> n, changed |-> changed])

OnSubscriberStrand ==
  UNCHANGED <<exchange, listener, syncQ, notify, ids, book, subscriber>>

BeginUpdate ==
  /\ reading = << >> /\ handlers # << >> /\ Head(handlers).query = 0
  /\ AskBook(1, FALSE)
  /\ handlers' = Tail(handlers)
  /\ OnSubscriberStrand /\ UNCHANGED <<reading, copy, told>>

AtQuery(q) == Queries[subscriber][q]

\* The nodes of a tree as a walk over them finds them.
Nodes(s) == [n \in s.tree |-> s.level[n].price]

BeginRead ==
  /\ reading = << >> /\ handlers # << >> /\ Head(handlers).query > 0
  /\ reading' = <<[query |-> Head(handlers).query, changed |-> Head(handlers).changed,
                   level |-> 1, block |-> << >>, price |-> 0,
                   seen  |-> <<Nodes(book[AtQuery(Head(handlers).query).side])>>]>>
  /\ handlers' = Tail(handlers)
  /\ OnSubscriberStrand /\ UNCHANGED <<bookOps, copy, told>>

\* The strand of the book has changed the tree since the read began.
Torn(r) == r.seen # <<Nodes(book[AtQuery(r.query).side])>>

\* Queries for the best level look whether there is one before they go there.
FoundEmpty(r) == AtQuery(r.query).depth = 1 /\ r.seen = << << >> >>

\* Where the iterator may be.  In a tree that is changed meanwhile it may come to any block,
\* freed ones too, or to memory that is no level (0): the node it goes on from may have lost
\* its links, and begin() of a tree that was emptied is the header.
CameTo(r) ==
  LET q == AtQuery(r.query)
  IN  IF ~Torn(r) THEN ToSet(Visited(q, book, r.level))
      ELSE IF r.level > q.depth \/ FoundEmpty(r) THEN {}
      ELSE 0 .. Len(book[q.side].level)

\* What the memory there holds.
Memory(side, n) == IF n = 0 THEN Garbage ELSE {book[side].level[n]}

\* The next level of the side: its block is found and its price read.
ReadPrice ==
  /\ reading # << >> /\ reading[1].block = << >>
  /\ LET r == reading[1]
     IN  \E n \in CameTo(r) : \E quote \in Memory(AtQuery(r.query).side, n) :
           reading' = <<[r EXCEPT !.block = <<n>>, !.price = quote.price,
                           !.seen = IF Torn(r) THEN << >> ELSE @]>>
  /\ OnSubscriberStrand /\ UNCHANGED <<bookOps, handlers, copy, told>>

Differs(q, old, new) == old.price # new.price \/ (q.withQty /\ old.qty # new.qty)

\* Fault: the last level alone decides whether anything changed.
NoticedLast(before, now) == now

Noticed(before, now) == before \/ now

\* The quantity of the same block, and the copy of the level updated.
ReadQty ==
  /\ reading # << >> /\ reading[1].block # << >>
  /\ LET r == reading[1]
         q == AtQuery(r.query)
     IN  \E quote \in Memory(q.side, r.block[1]) :
           LET new == [price |-> r.price, qty |-> IF q.withQty THEN quote.qty ELSE 0]
           IN  /\ copy' = IF Differs(q, copy[q.side][r.level], new)
                          THEN [copy EXCEPT ![q.side][r.level] = new] ELSE copy
               /\ reading' = <<[r EXCEPT !.level = @ + 1, !.block = << >>, !.price = 0,
                                  !.changed = Noticed(@, copy' # copy)]>>
  /\ OnSubscriberStrand /\ UNCHANGED <<bookOps, handlers, told>>

HasNextQuery(n) == n < Len(Queries[subscriber])

\* Past the last level: the next query, or the callback if anything changed.
EndRead ==
  /\ reading # << >> /\ reading[1].block = << >>
  /\ \/ CameTo(reading[1]) = {}
     \/ Torn(reading[1]) /\ AtQuery(reading[1].query).depth > 1
  /\ reading' = << >>
  /\ IF HasNextQuery(reading[1].query)
     THEN AskBook(reading[1].query + 1, reading[1].changed) /\ UNCHANGED told
     ELSE UNCHANGED bookOps /\ told' = IF reading[1].changed THEN <<copy>> ELSE told
  /\ OnSubscriberStrand /\ UNCHANGED <<handlers, copy>>

-----------------------------------------------------------------------------
Init ==
  /\ market = Opening /\ u = FirstId
  /\ past = [at \in {<<0, FirstId>>} |-> Opening] /\ restarts = 0
  /\ bounds = [messages |-> MaxMessages, trades |-> MaxTrades, restarts |-> MaxRestarts,
               snapshots |-> 1 + MaxRepeats, losses |-> MaxLosses]
  /\ queue_ = << >> /\ runs = 0 /\ running = FALSE
  /\ syncQ = << >> /\ notify = FALSE /\ adopted = << >> /\ merged = FALSE
  /\ received_snapshot_success_ = FALSE
  /\ \E id \in Uninitialized :
       current_diff_update_id_ = id[1] /\ current_snapshot_update_id_ = id[2]
  /\ bookOps = << >> /\ book = [bid |-> EmptySide, ask |-> EmptySide]
  /\ subscriber \in Subscribers
  /\ handlers = << >> /\ reading = << >> /\ told = << >>
  /\ \E g \in Garbage : copy = [side \in {"bid", "ask"} |-> [i \in 1 .. 5 |-> g]]

Exchange   == SendSnapshot \/ Trade \/ Restart
Listener   == BeginRun \/ ProcessMessage \/ RefuseMessage \/ EndRun
Sync       == ProcessSnapshot \/ ProcessDiff \/ NotifySubscriber
OrderBook  == ProcessEvent \/ ProcessClear \/ PassQuery
Subscriber == BeginUpdate \/ BeginRead \/ ReadPrice \/ ReadQty \/ EndRead

Next == Exchange \/ Listener \/ Sync \/ OrderBook \/ Subscriber

Spec == Init /\ [][Next]_vars

\* The threads of the pool run whatever a strand holds.
FairSpec ==
  /\ Spec
  /\ WF_vars(Listener) /\ WF_vars(Sync) /\ WF_vars(OrderBook) /\ WF_vars(Subscriber)

-----------------------------------------------------------------------------
(* Properties.                                                             *)

\* Messages, operations, handlers and copies are of their types.
TypeOK ==
  /\ u \in Nat /\ restarts \in 0 .. MaxRestarts /\ runs \in Nat /\ running \in BOOLEAN
  /\ \A e \in ToSet(queue_ \o syncQ) : e.type \in {"snapshot", "delta"}
  /\ notify \in BOOLEAN /\ received_snapshot_success_ \in BOOLEAN
  /\ current_diff_update_id_ \in Nat /\ current_snapshot_update_id_ \in Nat
  /\ \A o \in ToSet(bookOps) : o.op \in {"event", "clear", "query"}
  /\ \A h \in ToSet(handlers) : h.query \in 0 .. Len(Queries[subscriber])
  /\ Len(reading) <= 1 /\ Len(told) <= 1 /\ Len(adopted) <= 1

\* Map, tree and pool of each side agree at every moment between two levels of an event
\* and after a Clear (order_book.h:52 to 115): no level is in the tree without being in
\* the map, and no block is free and in use.  The best of the book is that of the map.
IndexesAgree ==
  /\ SideAgrees(book.bid) /\ SideAgrees(book.ask)
  /\ LET bbo == GetBBO(book)
     IN  bbo # << >> =>
           /\ bbo[1].price = Max(DOMAIN book.bid.index)
           /\ bbo[2].price = Min(DOMAIN book.ask.index)

\* A run that a refused message ends early leaves no message behind for which no other
\* run is due: each enqueued message spawned one, and each run takes one at least
\* (listener.h:36 to 57).
NoMessageLeftBehind == Len(queue_) <= runs + (IF running THEN 1 ELSE 0)

\* Ids begin again with a restart, so that a message missing from one epoch may go unnoticed
\* in the next.  They tell what is missing as long as there was no restart or no loss.
IdsTell == restarts = 0 \/ bounds["losses"] = MaxLosses

\* A book b has what a book m has.
Has(b, m) == \A s \in Sides : \A p \in DOMAIN m[s] : p \in DOMAIN b[s] /\ b[s][p] = m[s][p]

\* The exchange's book when the sync's id was its last.
Theirs == past[<<adopted[1], current_diff_update_id_>>]

\* Once a snapshot is in the book, every level of the exchange's book at the id the sync is at
\* is in it with its quantity, repeated snapshots and gaps or restarts notwithstanding.  It has
\* no other level unless the snapshot was merged with a book the sync had let go by: one with a
\* new id other than 1 does not clear what is there (order_book_sync.h:57 to 66), so that a
\* level whose removal was missed stays.  A sync that has no snapshot leaves the book empty
\* (order_book_sync.h:44 to 84).
BookFollowsStream ==
  /\ IdsTell /\ adopted # << >> =>
       /\ Has(Projected, Theirs)
       /\ merged = FALSE => Projected = Theirs
  /\ ~received_snapshot_success_ => Projected = NoLevels

\* The levels of the book that a subscriber's copy should show, as far as it asks for them.
Shows(q) ==
  \A i \in 1 .. 5 :
    Visited(q, book, i) # << >> =>
      ~Differs(q, copy[q.side][i], book[q.side].level[Visited(q, book, i)[1]])

Quiet == handlers = << >> /\ reading = << >> /\ bookOps = << >> /\ ~notify

\* When book and subscriber have nothing left to do, the copy shows the book: reads
\* in the middle of an event, and of blocks freed meanwhile or of none, have been made good,
\* and no signal was given before the event it is about (order_book.h:305 to 435,
\* order_book_subscribers.h).  A book that was cleared and not filled again shows nothing.
CaughtUp ==
  Quiet => \A i \in DOMAIN Queries[subscriber] : Shows(Queries[subscriber][i])

\* Outside a read, nothing in the copy is news to the callback, except what was there
\* before anything was read (order_book_subscribers.h:86 to 97).
CopyWasTold ==
  (\A h \in ToSet(handlers) : ~h.changed) /\ (\A o \in ToSet(bookOps) : o.op # "query" \/ ~o.changed)
    /\ reading = << >>
  => \/ told = <<copy>>
     \/ told = << >> /\ \E g \in Garbage : copy = [side \in {"bid", "ask"} |-> [i \in 1 .. 5 |-> g]]

\* What the exchange sent is all handled in the end, and the copy shows the book.
EverythingSettles == <>[](queue_ = << >> /\ syncQ = << >> /\ Quiet)

\* The book is well formed at every step (order_book.h:52 to 115).
BookInOrder == TypeOK /\ IndexesAgree

\* From queue to book the stream is followed: no message lies unattended, and the book holds
\* what the exchange had.
FollowsStream == NoMessageLeftBehind /\ BookFollowsStream

\* A subscriber ends up with what the book shows, and what it has was passed on.
SubscriberIsTold == CaughtUp /\ CopyWasTold

=============================================================================
