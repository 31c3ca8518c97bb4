# Verification of cryptobot_algo

TLA+ modules, TLC configurations and TLAPS proofs for the C++ library under
`aos/` (exchange-independent parts) and `aoe/` (Binance and Bybit). Everything
in the library is a header template driven by boost.asio coroutines: strands on
one `thread_pool`, an `io_context` per session, lock-free queues between them.

## 1. Inventory

| part | state it keeps | operations | talks to |
|---|---|---|---|
| Binance order book sync (`aoe/binance/order_book_sync`) | last diff and snapshot ids, four flags, buffer `diffs_` | `AcceptDiff`, `AcceptSnapshot`, `RequestNewSnapshot` | listeners (in), REST session, order book (out) |
| Bybit order book sync (`aoe/bybit/order_book_sync`) | two ids, `received_snapshot_success_` | `AcceptDiff`, `AcceptSnapshot` | listener (in), order book (out) |
| Order book and notifier (`aos/order_book`) | two price maps, two AVL trees, subscribers | `OnEvent`, `Clear`, `UpdateTop*` | sync (in), notifiers |
| Notifiers (`aos/order_book_subscriber`) | last best price or level, callback | `OnOrderBookUpdate` | order book (await), strategy |
| Response queue listeners (`aoe/*/response_queue_listener`) | none of their own; a shared queue | `OnDataEnqueued`, `ProcessQueue` | sessions (in), syncs, order managers |
| Web socket sessions (`aoe/session/web_socket`) | message queue, promises, cancel signal | `AsyncWrite`, `StartAsync`, `StopAsync`, loops, destructor | network, listener |
| REST session (`aoe/session/rest`) | message queue | `AsyncWrite`, `Start`, `RequestLoop` | network, listener |
| Order manager (`aoe/*/order_manager`, `order_storage`, `order_event`, `aos/uid`) | stored orders, id counter, pool of returned ids | place, cancel, amend, `OnResponse` | strategy (in), exchange API, order listener |
| Memory pools and reference counts (`aos/common`) | free list, a count in each event | `Allocate`, `Deallocate`, `intrusive_ptr` | any thread |
| Parsers (`aoe/*/parser`) | a pool of events each | `ParseAndCreate` | listeners |
| Positions and profit (`aos/position*`, `aos/pnl`) | net or hedged quantity and average price; profit by pair | `Add`, `Remove`, `UpdatePosition`, `UpdateBBO` | execution listeners, order book |
| Sliding window, trackers, histograms (`aos/sliding_window_storage`, `aos/*_tracker`, `aos/*histogram`) | a window and one statistic each | `AddData`, `OnDataAdded`, `OnDataRemoved` | strategies |
| Strategies and engine (`aos/strategy*`, `aos/strategies`) | windows by asset, a queue of actions | `OnBid`/`OnAsk`, `AddData`, `Wait` | notifiers, order manager |
| Infrastructure (`aoe/*/infrastructure`) | a context per trading pair | `Register`, `SetCallbackOn...Change`, `StartAsync`, `StopAsync` | all of the above |
| Clients of a session (`aoe/*/session_setup`, `ping_manager`, `subscription_builder`, `api`) | a timer; the keys of the config file | `Setup`, `Subscribe`, `PlaceOrder`, `CancelOrder` | sessions |
| Requests and tables (`aoe/*/request*`, `enum_printer`, `aos/converters`, `aos/trading_pair`) | none | building of messages | clients, infrastructure |

The rest (logging, cryptography, order filters, triangle tables) is text or
arithmetic; `PROJECT.json` lists every part with the reason it is or is not
modelled, and every hazard at its line.

What makes these parts hard:

- *Concurrency*: coroutines of one class interleave at every `co_await`; the
  order book runs on a strand of its own and receives operations later than
  they are sent; a session runs on its own thread; several write loops share
  one queue.
- *Failure*: diffs are lost when a message does not parse or a listener stops
  early, REST requests end without an answer, writes fail, the peer closes the
  connection while somebody waits for it.
- *Ordering*: a snapshot is older or newer than the buffered diffs; reports of
  an order cross cancels and amendments of it; ids are reused while requests
  for the previous order are on their way.
- *Numbers*: average prices divide by quantities that may be zero, hedged
  positions tell their sides apart by sign, tables are indexed by enumerators.
- *Shared memory*: a reader of the order book resumes on its own strand while
  the book's strand changes it, and the blocks it reads may have been freed; an
  event is freed by whichever strand lets go of it last.
- *Threads*: a session's `io_context` keeps a thread of the pool until the
  session ends, a request for a snapshot keeps one until it is answered, and the
  strands live on what is left.

## 2. Plan

Most important first. All of it exists; the last column says what is proved and
what is still worth proving.

| order | module | what | properties, theorems |
|---|---|---|---|
| 1 | `BinanceOrderBookSync` with `SnapshotPhases` | the local order book | `SnapshotPhases` implemented; types, phases, queue, book, nothing missed (proved) |
| 2 | `OrderManager` | orders and client ids over two channels | types, ids, storage, cancels, quantities, nothing stuck (proved) |
| 3 | `WebSocketSession` | loops, queue, promises, destructor | types, `MessagesKept` (proved) |
| 4 | `Positions` | averages, realized and unrealized profit | types, `BreakEven`, `UnrealizedIsRight` (proved) |
| 5 | `OrderBookLevels`, `BybitBookFeed` | from Bybit's channel through listener, synchroniser and book to a callback | `BookInOrder`, `FollowsStream`, `SubscriberIsTold` (proved) |
| 6 | `WindowTrackers`, `StrategyEngine` | windows, trackers, histograms, the strategy on its strand | `StrandInOrder`, `ReadingsDescribeWindow`, `OrdersExplained`, `HistogramsAgree`, for all windows and links (proved) |
| 7 | `EventParsers`, `EventPool` | what becomes of a message; the lock-free pool and the counts of its events | types, counts, no block twice or lost (proved) |
| 8 | `TradingPairs`, `Requests`, `ClientQueue`, `ClientSession`, `Infrastructure` | who connects where, says what, runs on which thread and is destroyed when | types of both parts, `SessionsAreSafe`, `AuthFirst`, `RequestsAreUnderstood` (proved) |

`BinanceOrderBookSync` composes the exchange, the REST session, two listeners,
the synchroniser and the book's strand in one module, because its properties
speak of all of them. `OrderManager` composes the manager, the storage, the id
generator and the exchange. `BybitBookFeed` composes a listener, a synchroniser,
the order book with its two indices and a subscriber. `Infrastructure` composes
what the instance wires together but takes the inside of a strand or a session
from the modules above as one step.
Every property of a passing run is shown to be breakable by a plausible bug
(`PROJECT.json`, `mutants`; the operators marked "Fault" in the modules are those
bugs, and no specification uses them).

## 3. The modules and the code

`PROJECT.json` maps each definition to its lines; variables ending in `_` are the
C++ members of that name.

### BinanceOrderBookSync

`OrderBookSync` for spot and for futures (`Market`). `ProcessDiff` and
`ProcessSnapshot` are the two handlers posted to `strand_`; each runs without
suspension and is one action, with all it sends. The order book executes what
it was sent on its own strand (`ExecuteBookOp`), one operation at a time, in
order: `bookOps` is that strand's queue. `RequestNewSnapshot` is a coroutine:
`requests` counts those that have not finished, `FailRequest` and
`AnswerRequest` are its ends. Updates are known by their ids and a level holds
the id of its last writer, so that "the book misses an update" is visible.
The exchange makes updates, joins some in a diff and sends it; the last
`Reserve` ids are made only while the sync needs a diff to go on. The wire may
lose diffs: the listeners drop messages that do not parse or for which no
synchroniser was registered.

`SnapshotPhases` says what the class promises about its four flags: one phase
out of four, one request at a time, and a live book only after an answer. The
refinement mapping reads the phase off the flags and counts requests together
with answers that have not been processed.

### OrderManager

`OrderManager`, `OrderStorage`, `UIDManager` and the order watcher. A call of
`PlaceOrder`, `CancelOrder` or `AmendOrder` and the processing of one report are
one action each: the code has no lock and leaves it to its user to call from one
strand, so the model does the same. Requests and reports travel over two
connections that keep their order. The exchange (`HandleRequest`, `Fill`,
`Expire`) is outside the program; it accepts or rejects
an order, and what it answers to a request for an order that is not open does
not come with the reports. Callers cancel and amend whatever id they name
(`CalledIds`): the request is sent although nothing may be stored under it. A report
may be refused by the parser, which loses it (`Drop`), and `missed` remembers the
placement: what depends on reports is claimed for the others only. Ids are what the
program knows; `placement` tells apart two orders that had the same id at
different times and exists only in the model. "expired" stands for
`expired_in_match` too, which the code treats alike. The managers of both
exchanges are the same code; what differs is the parser of reports
(`Exchange`): Bybit's refuses all. On the Binance side the listener that would feed the watcher is
commented out in the repository, and the model starts at the watcher.

### WebSocketSession

`WebSocketSessionRW` and `WebSocketSessionW` (`Kind`). One thread runs the
session's `io_context`, so coroutines interleave at `co_await`s only, and each
stretch between two of them is one action: a write loop begins, its timer fires
and `async_write` starts, the write ends and the loop looks at its queue again.
All timers run for one second and fire in the order they were started. What is
posted after `run()` has returned is never executed (`ContextRuns`). Several
write loops can have a write pending at once; the stream does not allow it, and
each write may then succeed or fail. `cancel_signal_` has one slot: `slot` says
whose handler is in it. The destructor waits for two promises.

### Positions

The net and the hedged strategy, the storage by pair, the storages of realized
and unrealized profit with their calculators, and the four kinds of executions
of Bybit (Binance's are the same code under other names). The code has each
class twice, once with references ("Default") and once with intrusive pointers;
they differ only in `RemovePosition` of a pair without a position, where the
module follows the Default version. Averages and profits are exact fractions:
doubles round, which the module leaves out, and divide by zero without stopping,
which it does not: `<<0, 0>>` is inf or nan and passes through every operation.
`UpdateBBO` is called by tests and examples; `GenericPositionStorageByPair`
itself keeps its unrealized storage private and never feeds it quotes.
`UnrealizedIsRight` compares the profit with the position (for a net one with the
money that was spent on it, which the storage does not see). It is the profit at the
first quote ever after an execution and at the latest after a quote, as
`try_emplace` has it, and two cases are excepted: a side that was reported under the
other's name since its last own report (`misfiled`; a closed short is stored as the
long side), and a division by zero.
All operations of one storage are sequential.

### OrderBookLevels and BybitBookFeed

`OrderBookLevels` has the two sides of `OrderBookInner`: a map from price to
level, a search tree of the same levels and the pool their memory comes from. A
level is a block with a number, and what a block holds stays there when it is
freed, so that a reader that holds on to a freed block reads what was there. The
tree is the set of its blocks: the intrusive AVL tree is boost's.

`BybitBookFeed` has four strands. `Listener`: every message enqueued spawns a run
of `ProcessQueue`, which handles messages until the queue is empty or one is
refused. `Sync`: `AcceptSnapshot` and `AcceptDiff`, with the ids uninitialised at
first (`Uninitialized` is the set of values they may have). `OrderBook`: an event
is applied level by level, and `Clear` is an operation of its own. `Subscriber`:
one of the notifiers of `aos/order_book_subscriber`, or a caller of the top-5 and
top-N coroutines, chosen by `Subscribers`. A coroutine that awaits
`dispatch(strand_)` of the book passes through that strand's queue and resumes
on its own strand: its reads are steps that interleave with the levels of the
next event. As long as the tree is the one that the read began with, the iterator comes to
the next level. Once the tree has changed (`Torn`) it may come to any block, a freed one
too, or to memory that is no level (`Garbage`), and may find the end anywhere: the node it
stands on may have lost its links, and `begin()` after the test for an empty tree may be the
header. What is left out is that such a walk may also crash or never end. `adopted` and
`merged` remember which snapshot the book is built on and whether it was laid over levels
of another. The exchange sends a snapshot, diffs with consecutive ids, repeated
snapshots, and after a restart begins again at 1; messages may be lost.

### WindowTrackers and StrategyEngine

`WindowTrackers` translates the trackers of average, extremes and deviation, the
histograms and the mutual information as operators on the state of one asset:
each sees one sample come and one go. Averages and ratios are numerator and
denominator; the comparison of a sum of logarithms with a threshold is the same
comparison between products of counts, which integers can do. A division by zero
gives the unknown bin `NoWidth`.

`StrategyEngine` has the engine's strand as a queue of jobs; callbacks of
notifiers post samples and prices from any thread, and `Wait` returns when the
strand has come to it. A job analyses the sample against the window before it,
running the actions that the strategy's queues hold for buying and for selling,
and then adds it. `kind` chooses between the engine and the observable storages,
which have a strand of their own and pooled classes. The order at the end of the
chain of actions is commented out in the source; `last` records that it was
reached.

### EventParsers and EventPool

`EventParsers` says of each parser which fields it reads before and after the
event is made, and so which messages are refused, dropped, or become events; a
message is known by what is wrong with it. The registries of statuses are tables
here too: Bybit's order parser leaves its own empty.

`EventPool` has `MemoryPoolThreadSafety` with `RefCounted`, one step for every
access to the head, to a link or to a count. `Parsers` are the strands that
allocate (each listener owns its pool, so there is one), all strands copy,
handle and let go. The atomics are sequentially consistent here; the code gives
them weaker orders.

### TradingPairs, Requests, ClientQueue, ClientSession and Infrastructure

`TradingPairs` has the enumeration, the table indexed by it that leaves out two
pairs, and the table back. `Requests` has the printed enumerators, the bodies of
orders, cancels, subscriptions and logins with the makers that wrap them, and
the endpoint of each session class: a maker yields a set of at most one message,
none when a field does not convert.

`ClientSession` is one session with the clients wired to it: `Setup`, which reads
the keys, logs in and for Bybit starts the pings; `Subscribe`, `PlaceOrder` and
`CancelOrder`; the timer; and the session as a queue that is sent once it is
connected. The owner calls `Setup` first (`SetupCalled`) and goes on whatever it has
returned, as the examples do. A write-only session sends until its queue is empty for
the first time and nothing afterwards (`Drain`). `wrote` remembers the last message with the
pair it was asked for. What its clients share, the wiring and the queue, is in `ClientQueue`, with
the property about it. `Infrastructure` has `InfrastructureImpl` of both exchanges: the
contexts with their members, the queue of each `io_context` (`ready`), the runs of
`run()` that wait for a thread and those inside it, the work of the strands on
the same threads, the callbacks, and the destruction member by member in the
reverse order of declaration, in which the destructor of a session waits for its
loops. A message on a strand brings the book on or not (`book`): Binance's first diff asks
for a snapshot, for which a thread of the pool waits (`Request`, `EndRequest`), and only
when the book is live does a message that changes the best price call a callback
(`Change`). The book of Binance's spot instances is lost with its first request, which
nobody answers. The loop that ends keeps its promise and `run()` returns later, in a step
of its own: the destructor waits for the former only, so a context may be destroyed
while its `run()` has still to return. The model has that, and the coroutine of a listener
that has been destroyed (`HandleTooLate`), and leaves their effects open.
The instances are the four the source declares, spot and futures of Binance's main
net, spot and linear of Bybit's.

### MC modules

`MCClient` holds `Infrastructure` and an instance of `ClientSession`; `part` says
which of the two a behaviour is of, as they share no state. The others give values
to constants.

## 4. Runs

| run | instance | shows |
|---|---|---|
| `FuturesSync` | one level, 15 ids of which 8 in reserve, steps 1 and 2, one loss, one failed request, fair | one flag at a time; the book's queue agrees with the flags, so that a snapshot meets an empty book and diffs are unbroken; it implements `SnapshotPhases`; it goes live again after a loss unless a request failed |
| `FuturesConverges` | two levels, 6 ids, dense ids, no losses, fair | no update is missed by a live book; book and exchange end up equal |
| `SpotExternal` | spot, two snapshots from outside, one loss | only verified snapshots reach the book, and diffs stay unbroken though snapshots come unasked |
| `FuturesSkips` (violation) | one loss | buffered diffs newer than the snapshot are skipped |
| `OrdersIds` | three placements, quantity 2, two messages in flight, cancels of id 0 stored or not, refused reports | unique ids, the storage holds exactly the unfinished orders, a cancel hits its own order or none; unless a report on the order was refused, pending actions are awaited and quantities agree |
| `OrdersEnd` | chosen ids, amendments, failing requests, refused reports, fair | orders that ended leave the storage unless a report on them was refused |
| `SessionRW` | two messages, two reads, `StopAsync`, fair | messages once and in order, none lies unattended, all are sent unless disturbed, the destructor returns |
| `PositionsPnl` | four executions, two prices, two quantities, two quotes | the average of a net position is its break-even price; the unrealized profit is that of the position, open or closed, at the quote it was computed with, but for two cases the property names |
| `StrategyWindow` | two linked markets, windows of two samples, three prices, five samples, one other job | trackers say what the window holds; windows are what was posted, in order; `Wait` sees the samples before it; an order is reached exactly when the conditions held on the window before; histograms agree with the samples and with each other |
| `BybitFeed` | two prices a side, four kinds of subscriber, three messages, a loss, a restart and a repeated snapshot, fair | map, tree and pool agree; no message lies unattended; at the id of the sync the book has all the exchange had, and nothing else unless a new snapshot was merged with an older book, but for a restart together with a loss; a subscriber's copy shows the book once things are quiet, and its callback was told; everything settles |
| `EventPool` | a parser and two other strands, three blocks, four messages, one extra copy of each event, fair | counts are the number of holders; no block in two places; none lost; all return |
| `Client` | four instances, two pairs of which one has no symbol, two threads; nineteen wirings of a session with every set of keys, whether `Setup` succeeds or not, fair | one thread in an `io_context`; each session asks for its own pair and finds its members alive; started sessions connect; a callback is called unless the book is lost; a stopped Binance instance can be destroyed; where `Setup` has logged in nothing is sent before the login; requests are understood and about the pair they were asked for; pings are sent again and again where the session can write them |

Deadlock is not checked: every model is bounded and stops when its bounds are
used up, and the programs stop when nothing arrives.

**Bounds, and why they are enough.** A resynchronisation of the order book takes
a gap, a request, two or three buffered diffs, an answer in the middle of them
and a diff that follows: seven ids; the 15 of `FuturesSync` allow a first
synchronisation, a loss and a second one. Without the `Reserve` the exchange
could use up its ids before a sync has seen the diff it waits for, and liveness
would fail for want of traffic. `NoUpdateMissed` is checked with dense ids
(`IdSteps = {1}`) only: with steps the code's own test of the gap cannot see
everything. Three placements are the least in which an id is used, returned,
used again and returned; two messages in flight let a cancel cross a report. Callers name
the id 0, the first to be recycled, whether it is stored at the time or not: another id
would meet the same cases one placement later.
Two messages give three write loops (that of `Run` is the third), the least in
which two overlap and one drains the queue of the other. Four executions open,
extend, reduce and turn a position. Five samples fill two windows of two and
move one on, with equal samples and with an extreme that leaves. Three messages
to Bybit's listener are a snapshot and two diffs, or any of them lost or replaced
by a restart; two operations ahead of the book and two behind it let a read fall
between two events. With three messages ids tell what is missing. With five they may not:
a snapshot with id 1, a diff, a restart that is taken for the same snapshot, its first
diff, which is lost, and its second, which continues the ids of the old book.
`BookFollowsStream` therefore excepts a restart together with a loss (`IdsTell`). Three blocks are what an ABA needs: the head, its successor
and one that comes back meanwhile; four messages empty the pool and reuse it. With
two threads and two pairs the sessions can take every thread, which is the case
the liveness properties have to except. Callbacks are set for one pair (`Called`) and before
`StartAsync`, as the examples do; `MaxQueue = 2` holds a login and a request, or two requests,
with a ping on top.

**Fairness.** Binance: handlers posted to a strand are run, a request that has
started ends, and the exchange goes on trading while it has ids; nothing is
assumed of losses. Orders: the exchange handles requests and the watcher
processes reports; callers owe nothing. Sessions: the thread of the
`io_context` runs what is ready, timers fire and writes complete or fail; a read
may never complete, `Run` may never get through, and the owner owes nothing.
Feed, pool: the strands run what they hold; the exchange owes nothing.
Infrastructure: a thread runs what it has taken; what was posted to the pool gets a thread
that is free again and again (strong fairness, since the pool's queue is first in, first
out and others take threads in between); connections are made or fail, requests end,
and the exchange goes on sending to a session that has subscribed, among the rest
messages that parse and change the best price. Clients: timer and session are run; a full queue (`MaxQueue`)
holds the owner back, but not the pings.
These are what `thread_pool`, strands and `io_context::run` guarantee.

## 5. Proofs

The eight modules named `...Proofs` prove for every value of the constants what the
runs show for one. A theorem that needs more than the assumptions of its module says
so in its `ASSUME`; why is said here.

*Order book.* `TypeCorrect`, `SnapshotsVerified` and `BookUnbroken` need no assumption.
`SnapshotsVerified` follows a snapshot from its verification into the book's queue
(`VerifiedInv`). For `BookUnbroken`, `ChainInv` says that what is buffered and what
is on its way is in order and lies between the last diff that was applied and the
last id the exchange has sent (`InOrder`, `Between`), and that the operations in the
book's queue take the book from its last diff to some id (`Moves`, `Brings`) that
agrees with where the class is (`EndsAt`). Each drained buffer starts a new chain
behind its snapshot, and the exchange may skip ids in between, so the chain is one of
`previous` and `final`, not of consecutive numbers.

The rest assumes
`MaxExternal = 0`: snapshots come only from the requests of the class itself, as
in the futures class. `PhasesExclusive` and `PhasesRefined` use the inductive
invariant `PhaseInv`: one flag is set, the flag of an open request bounds the
requests and answers, and answers carry their trading pair. None of these is
inductive alone: a second answer would find the wrong flag, and two flags would
let a second request start. `QueueConsistent` adds `BookQueueConsistent`, which
relates every operation in the queue of the book's strand to its predecessor and
the end of the queue to the flags; what the book executes next
(`SnapshotMeetsEmptyBook`, `BookDiffsUnbroken`, theorem `BookIsSound`) says
nothing of what is behind it, hence the strengthening. The longest case is
`DrainBuffer`, which sends a snapshot and a prefix of the buffer at once.

`NothingMissed` states `NoUpdateMissed` as long as nothing was lost
(`losses = 0`) and ids follow one another (`IdSteps = {1}`): the counterexample of
`FuturesSkips` is one loss, and with gaps in the ids a class that compares ids cannot
see every loss. Its invariant `CoverInv` relates the book to the exchange's
history. `Stream` says that what waits in the buffer and on the wire is the end of
the history, each diff with the last value of every level it changes (`Written`).
`Covers` says that a snapshot shows every level at least as new as the history has it
at its id, and `WillShow` that the book, once its queue is executed, will show each
level at least as new as the diff that was applied last. A snapshot overlaps with
the diffs behind it, and its order with the diffs on the wire is free: the invariant
therefore compares levels with a position in the history (`Base`), never with one
another.

*Orders.* `TypeCorrect` already needs the channels: a placement in flight must
belong to a call that was made (`RequestsInv`), a report bears the id of its
placement, and its last one is unique (`ReportsInv`). With `ManualIds = {}`,
`IdsSafe` and `StorageExact` follow from `IdsInv`: ids below the counter, unique
among unfinished orders, the pool free of them, the storage exactly theirs; each
part is needed to keep another when an order leaves or an id is taken.
`CancelsSafe` needs `ReferencesInv` on top: when a request in flight bears an id
that another placement also has, that placement is over or is announced after
the request.

`QuantitiesAgree` and `NoOrderIsStuck` hold for either exchange and speak of the orders of
which no report was refused (`missed`); with Bybit's parser those are the ones that were
not reported on yet (section 6, 3). `QuantitiesAgree` excludes amendments, which are not
stored (a hazard). `QtyInv` compares the storage, at every moment, with what is in flight:
what the newest report on the order says is left, or, when there is none, what the
exchange has left; `LastsInv` says that nothing follows a last report. `NoOrderIsStuck`
excludes requests that fail, which do leave their order pending (a hazard). The four parts
of `AwaitInv` keep one another: a cancel stands behind the placement it is about
(`OrderedInv`), an order the exchange does not know is still asked for (`AskedInv`), the
end of an order is in flight until the storage has heard of it (`EndedInv`), and each
pending action has its request or its answer in flight (`PendingInv`). The case that needs
them all is a cancel that meets an order which was filled meanwhile.

*Pool.* Every theorem of `EventPoolProofs` assumes that one strand allocates
(`\A p, q \in Parsers : p = q`). `TypeCorrect`, `CountsCorrect` and `PoolSafe` share the
inductive invariant `Inv`, which adds `InHand` to the three: what each strand knows
at each place of its code. Its heart is that between the read of the head and the
exchange nobody else pops, so the head stays free and keeps its link; other
strands only push, which changes the head and makes the exchange fail. Without
it `NoBlockTwice` is not inductive, and with two allocating strands it is not true
(the ABA at `mem_pool.h:183`). `LEMMA CountHolders` relates cardinalities before and
after a strand's step, since a count is compared with the number of holders.
`PoolComplete` adds that whoever follows the links from the head meets every free
block (`FreeAreListed`). The list is the least set that is closed under the links, a
definition without recursion: a pop and a push can be compared with the list before
without an induction.

*Sessions.* `WebSocketSessionProofs` holds for both kinds of session, any number of
messages and reads, with or without `StopAsync`. The types and `MessagesKept`
share one invariant. `MessagesInOrder` compares three sequences, the messages
handed to the stream, those of the loops on the timer list and those queued, with
the numbers of all the calls; it is kept by moving a head from one sequence to the
end of the one before (`HeadMovesLeft`, `HeadMovesFirst`). For that the list of
timers must name each loop once, and only loops that wait (`TimersAreDelays`), and
a loop must not be spawned twice (`SpawnedOnce`), or a spawn could meet a loop that
holds a message.

*Positions.* `PositionsProofs` holds for all prices, quantities and quotes and any number
of executions, in both modes. The model computes with fractions in lowest terms, so
equal fractions have to be the same pair: `LowestUnique` shows that the lowest terms of
a quotient are unique (without a greatest common divisor, from the least denominator
that will do), and `SameRatio`, `PlusIs`, `TimesIs` and `OverIs` reduce every equation of
the model to one between integers. `PositionsInv` is `TypeOK`, `BreakEven` and the value of
the known entries (`EntriesValued`), with the facts those need: without a quote there is no
profit, without an entry neither (`Unquoted`, `Unknown`), no money is in a position that is
gone (`ClosedIsZero`), and an entry that is not misfiled is the side of the position, or has
no quantity where the position has no such side (`EntriesFiled`). `RightFollows` then goes
from the entries to the position; for a net one `BreakEven` turns quantity times average
into the money.
The core of `BreakEven` is `AverageKeepsMoney`: additions and removals alike make the new
average from the old quantity times the old average, the money of the execution and the
new quantity.

*Clients and infrastructure.* `ClientProofs` is about `MCClient`, the module that has
both. Its theorems hold for every instance, any pairs and any number of threads, and for
every wiring, any keys and any length of the queue. `SessionsSafe` follows from three facts:
`OneRun` counts the `run()` calls of an `io_context`, posted or under way; `StartedOnce`
says that the handler that starts a session finds it idle; `MembersWait` says that a
session that is not over has kept its context together, because its destructor waits
and what it uses is destroyed after it. The second is needed for the third: a session
that was started again after its end would run in a context half destroyed.
`ClientTypes` has the types of both parts, with the number of threads that the
`io_context`s and the requests for snapshots keep, which is the cardinality of a finite set:
each step takes a thread for one new member at most, and only a free one (`BusyKept`,
`Taken`). `LoginGoesFirst` speaks of sessions whose `Setup` has logged in; it rests on
`LoginLeads`: the queue is empty until `Setup` is through, and once it has logged in begins
with the login until that is sent. A ping cannot come before, since `Setup` sets the timer
after it has queued the login; that is the part of `TypeOK` that makes it inductive.

`RequestsRight` assumes that the instances are the four of the repository and the wirings
those of `MCWirings`: another wiring can subscribe anywhere. Of a wiring it uses only
`Matches`, which says in one conjunct for each kind of client where that must be
connected. What a client writes has the symbol of the pair it was asked for: that every
symbol leads back to its own pair (`SymbolIs`) rests on the comparison in the table, since
the index does not. `UnderstoodInv` says it of the last message written (`wrote`); the session
changes nothing on the way. `AsksInv` does the same for the subscriptions and the snapshot
requests of the infrastructure. For Binance's orders only the symbol is claimed: they have
the form of Bybit's, and Binance would not understand them (10 in section 6).

*Strategy.* All the properties of `StrategyWindow` are proved in `StrategyEngineProofs`,
for any assets, prices, window size, number of bins and thresholds and any finite set
of links (a program calls `Connect` finitely often; `LinksAssumption`). `Inv` says that
the strand is the rest of what was posted, in order (`StrandIsRest`), that a `Wait`
carries the number of jobs before it (`WaitsCount`, `ReturnedAreRun`), and that
the storage and the prices are those which the jobs run so far make from the history
(`WindowsKept`). The storage is not described by its fields: `WindowOf(s)` is the
window that holds the samples `s`, with trackers computed from them (sum and
count, the bag of the samples with its least and largest element), and `Windows` has
`WindowOf` of the newest samples for every asset. A step then needs two facts:
`AddData` takes `WindowOf(s)` to `WindowOf` of `s` shifted by the new sample
(`AddDataIs`, `PooledAddDataIs`, from one lemma for each tracker and direction, such as
`MinRemove`: the oldest sample leaves and may have been the only smallest one), and the
newest samples of a longer history are those of the old one, shifted
(`NewestAppend`). `TrackersRight` and `HistogramsRight` are read off `WindowOf`. `OrdersRight`
follows the asset through the strategy's queues action by action (`QueuesAre`), on
the windows the storage holds before the sample (`StorageHolds`).

*Order book and feed.* `BybitBookFeedProofs` has the three safety properties of `BybitFeed`,
for any opening book, any trades, first id, bounds and garbage, and the subscribers
the repository has (`SubscribersAssumption`); a book has finitely many prices and
no level of quantity zero (`MarketAssumption`). `Inv` counts the messages of the
listener's queue against its runs. `Types` says that the book is well formed
(`GoodBook`) between any two levels: the map is injective into the blocks, the tree is
its image, the free list has every other block once. `LevelAdded` and `LevelRemoved`
are the two operations, with what the side holds afterwards, and `OrderedIs` that the
sorted tree is a list, so that `BookAlwaysInOrder` can speak of its head.

For `SubscriberAlwaysTold` the invariant is `Signals`. An event the book has still to
process is followed by a signal, or will be (`EventsAnnounced`); what a query asks
for is shown, or a signal for it is on its way, or the query is being read and
what it has read so far is shown (`AllFresh`). A read in a tree that has changed since it
began may show anything (`PartlyIn` is of trees that are unchanged or empty by now), but then
the event that changed the tree was not finished when the read began, and its signal is
still to come behind it in the strand of the book. `ToldRight` says that the
callback lags behind the copy only while some coroutine carries `changed`.

For `StreamFollowed` the invariant is `Following`. `past` remembers every book of the
exchange, and each message in a queue is described by it (`Described`): a snapshot has the
levels of its book, a diff leads from the book before to its own. `BookKept` is the
property with the facts it needs of the sync's ids. Whatever a book has, after a snapshot it
has every level of the snapshot (`LevelsGiven`), and a diff keeps that so (`HasChanged`); if
it was empty, or was already what the snapshot is of, it has no other (`LevelsRestore`). With restarts but no losses, ids repeat,
and what saves the book is that the messages form an unbroken stream from the place
where the sync is to where the exchange is (`Placed`). With losses but no restart, an id
names one book, and the test of `ProcessDiff` suffices. With both, it is not so: see 9 in
section 6. What the book will be when its strand has run is a fold over the
operations (`ResultRuns`), each event being a fold over its levels (`ChangedRuns`).

*Induction.* The induction theorems of the library take an operator, which the
provers cannot instantiate. Where a lemma speaks of every position of a sequence
(the history of the exchange, a chain of diffs), it looks at a least counterexample:
a nonempty set of natural numbers has a least element (`LeastNat`), which is not the
first position, and the position before it already refutes the claim.
`StrategyEngineProofs` also needs what recursive functions compute (the history of an
asset, the sum of a window). `UpTo` is induction over the numbers up to n, with a set
for the predicate; `Recursion` uses it to show that a function defined by
`f[i \in 0 .. n]` exists and satisfies its equations, so that two lengths of a sequence can be
compared; `FoldsAgree` does the same for a fold over a finite set. The lemmas
about recursive definitions (`SumAppend`, `SumTail`, `ValuesMore`, `PairsAre`,
`CountsSum`) rest on these three. The folds of `BybitBookFeedProofs` are treated the same way.

Several properties of the runs are conjunctions of named parts (`BookInOrder`,
`FollowsStream`, ...): a theorem may prove one part. `TypeOK` of
the order book sync, of `OrderManager` and of `EventPool`,
`OneRequestAtATime`, `SnapshotMeetsEmptyBook` and `PoolHoldsFreeIds` are proved and
not run again; that of `ClientSession` is run together with that of `Infrastructure`.

*Only model-checked*: all liveness (TLAPS does not reason about fairness and
ENABLED): `Recovers`, `Converges`, `EndedOrdersLeave`, `EveryMessageSent`, `DestructorReturns`,
`EverythingSettles`, `EverythingReturns` and `StartedSessionsServe`, `StoppedIsDestroyed` and
`KeepsAlive` of `Client`. Every other property of a
passing run has a theorem.

## 6. What the code does otherwise than it says

Found while modelling. 1 is the counterexample of a violation run; 2 to 5 can be
seen in the models (a spot instance without external snapshots; `Exchange =
"bybit"`; `Kind = "W"`; a hedged position); the others are facts of the source or
behaviours the models have.

1. The skip over buffered diffs (`order_book_sync.h:320`, "skip earlier diffs as
   soon as possible") drops those newer than the snapshot too; when the diff that
   joins up with the snapshot was lost, the book lacks updates and nothing
   notices.
2. The spot synchroniser does not start its REST session (line 107, compare 307):
   `examples/dsc.md:16` promises data from example34, whose book stays empty.
3. Bybit's parser of order reports registers no statuses
   (`order_event_parser.h:46`; Binance's does at its line 48), so no placement is
   ever confirmed.
4. The write-only session is never ready (`web_socket.h:431`; the other one is, line
   181) and ends its only loop on an empty queue, where the comment at line 498 says
   it is suspended: what is written after that is never sent.
5. Closing a hedged short is stored as an empty long
   (`pnl_unrealized_storage.h:144`), against the comment at line 203.
6. The table of symbols misses two pairs, so pairs after the third look at the
   entry of another and are refused: of all pairs only three convert.
7. Bybit's `StopAsync` only logs, and `ioc_trade_thread_` does not run the
   `io_context` of the trade session: orders given to the infrastructure stay where
   they are, and its destructor waits for ever. In `Infrastructure` a Bybit instance
   never reaches "gone".
8. With as many Binance pairs as threads no strand runs; the infrastructure takes
   whatever pool it is given.
9. Bybit: the snapshot of a second restart is taken for that of the first, also when diffs
   came in between (line 49 of `order_book_sync.h`, against the comment at line 59),
   and after a gap nothing asks for a snapshot: the book stays empty until the
   exchange sends one. When the first diff after such a restart is lost, a later one may
   continue the ids of the old book: it is applied to it and nothing notices.
   `BookFollowsStream` excepts the case (`IdsTell`). A snapshot with a new id other than 1 is
   merged with the book (lines 57 to 66): when a diff that removed a level was lost and the
   exchange then repeats its snapshot with the id it is at, the level stays, without any
   restart. `BookFollowsStream` claims of such a book that it lacks nothing (`merged`).
10. Binance's makers wrap orders as Bybit expects them; its test-net trade sessions
    have Bybit's path; Bybit's main-net tickers connect to the test net; an
    unsigned login is not sent and `Setup` returns true.
11. The largest sample of a window falls into bin number `number_bins`, one more
    than asked for; the deviation strategy passes the hash of the paired asset on
    with the value of the original one.
12. Bybit's list of executions yields only its first known item
    (`execution_event_parser.h:93`).
13. The examples 27, 28 and, for executions, 30 (line 157) do not look at what `Setup`
    returns: without keys they subscribe on a session that has not logged in, and nothing
    pings it.
    example27 connects to the test net with the keys of the main net.
14. A thread of the pool that requests a snapshot waits for the answer: the `jthread` of the
    request is joined at the end of the coroutine (Binance's `order_book_sync.h:308`).
15. `ProcessQueue` of the listeners is a coroutine that keeps the listener's address
    (`listener.h:34` of the diffs): after the destruction of its context it runs in freed
    memory. The same destructor waits for the loops of the session and not for `run()`,
    which may still be inside the `io_context` that is destroyed.
16. Binance's parser of order reports looks the pair up in a table and refuses the report
    of a pair that is not there (`order_event_parser.h:91`): the order stays stored, and its id
    taken.

Listed as hazards, and built into the models: a late report erases a pending
cancel; ids chosen by callers collide with generated ones; amendments are not
stored; a failed request leaves its order pending; the destructor of a session
returns at the end of the first of several write loops; `StopAsync` reaches only
the loop that assigned last; a partial removal of a net position books a profit
and lowers the average by it as well; the unrealized profit after an execution
uses the first quote ever received. After a gap the Binance book keeps its stale
levels until the next diff clears it, without any mark a reader could test.

## 7. Not modelled

- *I/O and cryptography*: TLS, name resolution, HTTP, JSON text, HMAC and Ed25519.
  Which messages they drop or refuse is modelled.
- *Code that cannot run*: the seven other order classes of each exchange, the
  linear and futures cancels and the amends override with another return type or
  call setters their base lacks; `SumTracker` and the real-time mutual information
  call functions that do not exist; the REST order APIs are empty;
  `multi_pool.h` and the order listeners are commented out. None of them compiles
  when used, and nothing uses them.
- *Data races on plain objects*: `NumberPool` is a queue without a lock that callers
  and the listener's strand use; `OrderManager` takes calls and reports to be
  serialised. `ExecutorProvider` sets a flag before it inserts the strand into a map
  that other threads search; only its unit test calls it.
- *Other parts*: positions by order id and the position tracker, the secondary
  indices of the order storage, stop-order reports of Bybit, the multi order manager
  (a map), quantity filters (floating-point rounding), triangle tables, logging,
  hashes, tables between pairs and tickers that nothing uses. Adding and removing
  subscribers while events run is left out of `BybitBookFeed`.
- *Weak memory*: `EventPool` is sequentially consistent. *Rounding*: averages, ratios
  and profits are exact fractions.
