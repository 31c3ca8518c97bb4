--------------------------- MODULE Infrastructure ---------------------------
(***************************************************************************)
(* InfrastructureImpl of Binance and of Bybit: for every registered pair a *)
(* context with its own io_context, a session on it, and listener, sync,   *)
(* book and notifiers on strands of the thread pool that all share.        *)
(*                                                                         *)
(* Binance runs each io_context in a thread of the pool, from StartAsync   *)
(* on; Bybit gives each a thread of its own, from Register on.  A thread   *)
(* that runs an io_context does nothing else until its session is over,    *)
(* and one that asks for a snapshot waits for the answer, so the strands   *)
(* have the threads that are left.                                         *)
(*                                                                         *)
(* The owner's calls come from one thread, and StartAsync and StopAsync    *)
(* once each, as in the examples.  What happens inside the strands is in   *)
(* BybitBookFeed, inside the sessions in WebSocketSession.                 *)
(***************************************************************************)
EXTENDS Requests, FiniteSets

CONSTANTS
  Pairs,        \* bound: the pairs that are registered
  Threads,      \* the threads of the pool
  Enabled,      \* NotifierFlags: the notifiers that contexts have
  Called,       \* bound: the pairs for which the owner sets callbacks
  Aliases,      \* the instances of InfrastructureImpl to be checked
  MaxWork,      \* bound: waiting messages of a pair that are told apart
  MaxTrades     \* bound: orders and cancellations

ASSUME InfrastructureAssumption ==
  Pairs \subseteq TradingPairs /\ Called \subseteq Pairs /\ {Threads, MaxWork, MaxTrades} \subseteq Nat \ {0}

VARIABLES
  alias,        \* which instance this is
  phase,        \* "up", "stopped", "destroying", "trade" (waits for the trade session), "gone"
  contexts,     \* contexts_: the registered pairs
  accepted,     \* callbacks that were set, by pair
  told,         \* history: notifiers that have called them
  started,      \* StartAsync was called, with these contexts
  orderly,      \* history: every session was live and subscribed when StopAsync came
  ready,        \* handlers that wait in each io_context
  runs,         \* run() calls posted to the pool that no thread has taken
  inside,       \* threads in run()
  returned,     \* a run() has returned: the io_context is stopped
  session,      \* state of each session
  outbox, sent, \* its message_queue_, and what it has written
  written,      \* write_done_promise_ is set
  cancelled,    \* the read loop has seen the signal
  work,         \* messages that wait for the listener's strand
  book,         \* what the sync has come to: "none" yet, "asked" for a snapshot, "requested"
                \* (a thread waits for the answer), "live", "lost" (nobody will answer),
                \* "undefined" (the listener was destroyed before)
  members,      \* members of the context still to be destroyed, the next first
  trade         \* handlers that wait in ioc_trade_

owner  == <<phase, contexts, accepted, started, orderly, trade>>
loop   == <<ready, runs, inside, returned>>
net    == <<session, outbox, sent, written, cancelled>>
strand == <<work, told, book>>
vars   == <<alias, owner, loop, net, strand, members>>

-----------------------------------------------------------------------------
(* The four instances.                                                     *)

BinanceMainSpot ==
  [exchange |-> "binance", market |-> "spot", session |-> BinanceMainSpotBook, rate |-> "k100"]

BinanceMainFutures ==
  [exchange |-> "binance", market |-> "futures", session |-> BinanceMainFuturesBook, rate |-> "k100"]

BybitMainSpot ==
  [exchange |-> "bybit", market |-> "spot", session |-> BybitMainSpotBook, rate |-> "k200"]

\* Fault: the session of the other market.
BybitMainLinearAtSpot ==
  [exchange |-> "bybit", market |-> "linear", session |-> BybitMainSpotBook, rate |-> "k500"]

BybitMainLinear ==
  [exchange |-> "bybit", market |-> "linear", session |-> BybitMainLinearBook, rate |-> "k500"]

Alias(name) ==
  CASE name = "BinanceMainSpot" -> BinanceMainSpot [] name = "BinanceMainFutures" -> BinanceMainFutures
    [] name = "BybitMainSpot"   -> BybitMainSpot   [] name = "BybitMainLinear"    -> BybitMainLinear

Binance == alias.exchange = "binance"

\* The subscription and the snapshot request of the instance, for a pair.
Asks(p) ==
  CASE Binance /\ alias.market = "spot"    -> BinanceDiff(BinanceSpotSpeed, p, alias.rate)
    [] Binance /\ alias.market = "futures" -> BinanceDiff(BinanceFuturesSpeed, p, alias.rate)
    [] ~Binance /\ alias.market = "spot"   -> BybitSpotBook(p, alias.rate)
    [] ~Binance /\ alias.market = "linear" -> BybitLinearBook(p, alias.rate)

SnapshotOf(p) ==
  IF ~Binance THEN {} ELSE IF alias.market = "spot" THEN SpotSnapshot(p) ELSE FuturesSnapshot(p)

\* A context's members in the order of their destruction, the last declared first.
\* Fault: the session is declared before what it uses.
BinanceListenerFirst == <<"builder", "listener", "book", "session", "ioc">>

BinanceMembers == <<"session", "builder", "listener", "book", "ioc">>
BybitMembers   == <<"guard", "thread", "builder", "session", "listener", "book", "ioc">>

-----------------------------------------------------------------------------
(* The owner's calls.                                                      *)

\* Threads of the pool that are in a run(), or in a request for a snapshot (the pairs with 0).
Occupied ==
  {t \in Pairs \X (0 .. 3) :
     IF t[2] = 0 THEN book[t[1]] = "requested" ELSE t[2] <= inside[t[1]]}

Busy == IF Binance THEN Cardinality(Occupied) ELSE 0

FreeThread == Busy < Threads

\* Fault: as in the lines commented out, Register has the pool run the io_context.
PostedByRegisterToo == 1
PostedByRegister    == 0

\* Both: the context is made and the subscription, if it converts, waits in the io_context.
Build(p) ==
  /\ contexts' = contexts \cup {p}
  /\ session' = [session EXCEPT ![p] = "idle"]
  /\ ready' = [ready EXCEPT ![p] = IF Asks(p) = {} THEN <<>> ELSE <<"write">>]

RegisterBinance(p) ==
  /\ Build(p)
  /\ members' = [members EXCEPT ![p] = BinanceMembers]
  /\ runs' = [runs EXCEPT ![p] = @ + PostedByRegister]
  /\ UNCHANGED inside

\* The thread of Bybit's context starts at once and its work guard keeps it.
RegisterBybit(p) ==
  /\ Build(p)
  /\ members' = [members EXCEPT ![p] = BybitMembers]
  /\ inside' = [inside EXCEPT ![p] = 1]
  /\ UNCHANGED runs

Register(p) ==
  /\ phase = "up" /\ p \notin contexts
  /\ IF Binance THEN RegisterBinance(p) ELSE RegisterBybit(p)
  /\ UNCHANGED <<alias, phase, accepted, started, orderly, trade, returned, outbox, sent, written,
                 cancelled, strand>>

\* SetCallbackOn...Change, one for each notifier, returns whether it took the callback.
Takes(p, notifier) == p \in contexts /\ notifier \in Enabled

SetCallback(p, notifier) ==
  /\ phase = "up" /\ started = {} /\ p \in Called /\ Takes(p, notifier)
  /\ accepted' = [accepted EXCEPT ![p] = @ \cup {notifier}]
  /\ UNCHANGED <<alias, phase, contexts, started, orderly, trade, loop, net, strand, members>>

StartBinance ==
  /\ runs' = [p \in Pairs |-> IF p \in contexts THEN runs[p] + 1 ELSE runs[p]]
  /\ UNCHANGED trade

StartBybit == trade' = Append(trade, "run") /\ UNCHANGED runs

\* The callbacks are set by then, as the examples do.
StartAsync ==
  /\ phase = "up" /\ started = {} /\ contexts # {}
  /\ \A p \in contexts \cap Called : accepted[p] # {}
  /\ started' = contexts
  /\ ready' = [p \in Pairs |-> IF p \in contexts THEN Append(ready[p], "run") ELSE ready[p]]
  /\ IF Binance THEN StartBinance ELSE StartBybit
  /\ UNCHANGED <<alias, phase, contexts, accepted, orderly, inside, returned, net, strand, members>>

\* Fault: Bybit's StopAsync, which only logs.
StopNothing(p) == ready[p]

\* Each session is told through its io_context.
StopSession(p) == IF Binance /\ p \in contexts THEN Append(ready[p], "stop") ELSE ready[p]

StopAsync ==
  /\ phase = "up" /\ started # {} /\ phase' = "stopped"
  /\ orderly' = (started = contexts /\ \A p \in contexts : session[p] = "live" /\ sent[p] # {})
  /\ ready' = [p \in Pairs |-> StopSession(p)]
  /\ UNCHANGED <<alias, contexts, accepted, started, trade, runs, inside, returned, net,
                 strand, members>>

\* Bybit's PlaceOrder and CancelOrder: ioc_trade_thread_ runs nothing, so they stay here.
Order(messages) ==
  /\ phase = "up" /\ ~Binance /\ messages # {} /\ Len(trade) < MaxTrades
  /\ trade' = Append(trade, "write")
  /\ UNCHANGED <<alias, phase, contexts, accepted, started, orderly, loop, net, strand, members>>

PlaceOrder(p)  == Order(BybitPlace([pair |-> p, id |-> 1]))
CancelOrder(p) == Order(BybitCancel([pair |-> p, id |-> 1]))

-----------------------------------------------------------------------------
(* The io_contexts.                                                        *)

\* A thread of the pool takes a posted run(); one that was stopped returns at once.
TakeRun(p) ==
  /\ runs[p] > 0 /\ FreeThread
  /\ runs' = [runs EXCEPT ![p] = @ - 1]
  /\ inside' = [inside EXCEPT ![p] = IF returned[p] THEN @ ELSE @ + 1]
  /\ UNCHANGED <<alias, owner, ready, returned, net, strand, members>>

Runs(p, handler) ==
  /\ inside[p] > 0 /\ ready[p] # <<>> /\ Head(ready[p]) = handler
  /\ ready' = [ready EXCEPT ![p] = Tail(@)]
  /\ UNCHANGED <<alias, owner, runs, inside, returned, strand, members>>

\* No session is connected when it comes, so that writing waits.
RunWrite(p) ==
  /\ Runs(p, "write")
  /\ outbox' = [outbox EXCEPT ![p] = Asks(p)]
  /\ UNCHANGED <<session, sent, written, cancelled>>

RunSession(p) ==
  /\ Runs(p, "run")
  /\ session' = [session EXCEPT ![p] = "connecting"]
  /\ UNCHANGED <<outbox, sent, written, cancelled>>

\* Fault: the signal is kept for a session that has no loops yet.
RunStopKept(p) ==
  /\ Runs(p, "stop")
  /\ cancelled' = [cancelled EXCEPT ![p] = TRUE]
  /\ UNCHANGED <<session, outbox, sent, written>>

\* The signal finds a slot once the read loop has begun, as it has if anything was sent.
RunStop(p) ==
  /\ Runs(p, "stop")
  /\ \E begun \in {sent[p] # {}, TRUE} :
       cancelled' = [cancelled EXCEPT ![p] = begun /\ session[p] = "live"]
  /\ UNCHANGED <<session, outbox, sent, written>>

NetStep == UNCHANGED <<alias, owner, loop, members>>

Connect(p) ==
  /\ inside[p] > 0 /\ session[p] = "connecting"
  /\ \E outcome \in {"live", "failed"} : session' = [session EXCEPT ![p] = outcome]
  /\ UNCHANGED <<outbox, sent, written, cancelled, strand>> /\ NetStep

\* The write loop ends with the queue, or at a write that fails.
WriteLoop(p) ==
  /\ inside[p] > 0 /\ session[p] \in {"live", "over"} /\ ~written[p]
  /\ written' = [written EXCEPT ![p] = TRUE]
  /\ outbox' = [outbox EXCEPT ![p] = {}]
  /\ sent' = [sent EXCEPT ![p] = IF session[p] = "live" THEN outbox[p] ELSE {}]
  /\ UNCHANGED <<session, cancelled, strand>> /\ NetStep

\* A message was read; the loop looks at the signal before it reads again.
ReadLoop(p) ==
  /\ inside[p] > 0 /\ session[p] = "live" /\ sent[p] # {}
  /\ work' = [work EXCEPT ![p] = IF @ < MaxWork THEN @ + 1 ELSE @]
  /\ session' = [session EXCEPT ![p] = IF cancelled[p] THEN "over" ELSE @]
  /\ UNCHANGED <<outbox, sent, written, cancelled, told, book>> /\ NetStep

\* The exchange or the network ends the connection.
ReadError(p) ==
  /\ inside[p] > 0 /\ session[p] = "live"
  /\ session' = [session EXCEPT ![p] = "over"]
  /\ UNCHANGED <<outbox, sent, written, cancelled, strand>> /\ NetStep

\* run() returns when nothing is left to do and no guard says otherwise.
Return(p) ==
  /\ inside[p] > 0 /\ ready[p] = <<>>
  /\ session[p] \in {"idle", "failed", "over"} /\ (session[p] = "over" => written[p])
  /\ \A i \in DOMAIN members[p] : members[p][i] # "guard"
  /\ inside' = [inside EXCEPT ![p] = @ - 1]
  /\ returned' = [returned EXCEPT ![p] = TRUE]
  /\ UNCHANGED <<alias, owner, ready, runs, net, strand, members>>

-----------------------------------------------------------------------------
(* The strands of a context: a message goes through listener, sync and     *)
(* book to the subscribers, if a thread is free.                           *)

\* Fault: the best ask price notifier is not added to the subscribers.
SubscribersButAskPrice == Enabled \ {"best_ask_price"}

Subscribers == Enabled

Alive(p, member) == \E i \in DOMAIN members[p] : members[p][i] = member

Handle(p) ==
  /\ work[p] > 0 /\ FreeThread
  /\ work' = [work EXCEPT ![p] = @ - 1]
  /\ UNCHANGED <<alias, owner, loop, net, members>>

Tell(p) == told' = [told EXCEPT ![p] = @ \cup (accepted[p] \cap Subscribers)]

Becomes(p, state) == book' = [book EXCEPT ![p] = state]

\* The message that brings the book on: Binance's first diff asks for a snapshot, Bybit's first
\* message is one.
Begin(p) ==
  /\ Handle(p) /\ Alive(p, "listener") /\ book[p] = "none"
  /\ Becomes(p, IF Binance THEN "asked" ELSE "live") /\ UNCHANGED told

\* Then a message changes the best price.
Change(p) ==
  /\ Handle(p) /\ Alive(p, "listener") /\ book[p] = "live"
  /\ Tell(p) /\ UNCHANGED book

\* A message that does neither: it is refused, waits in the sync's buffer or leaves the best
\* price alone; or it shows a gap, after which Binance's next diff asks again, while Bybit
\* waits for another snapshot.
Pass(p) ==
  /\ Handle(p) /\ Alive(p, "listener")
  /\ \/ UNCHANGED book
     \/ Binance /\ book[p] = "live" /\ Becomes(p, "none")
     \/ ~Binance /\ Becomes(p, IF book[p] = "lost" THEN "live" ELSE "lost")
  /\ UNCHANGED told

\* ProcessQueue keeps the listener's address and no reference to it: what it does when the
\* listener is destroyed is undefined, be it to call the callback or nothing.  A thread that
\* waits for an answer does so still.
HandleTooLate(p) ==
  /\ Handle(p) /\ ~Alive(p, "listener")
  /\ Becomes(p, IF book[p] = "requested" THEN "requested" ELSE "undefined")
  /\ Tell(p) \/ UNCHANGED told

HandleMessage(p) == Begin(p) \/ Change(p) \/ Pass(p) \/ HandleTooLate(p)

\* RequestNewSnapshot: a thread of the pool runs it and waits for the thread of the request,
\* which ends with the REST session.  Spot does not start that session, so nobody answers.
Request(p) ==
  /\ book[p] = "asked" /\ FreeThread
  /\ Becomes(p, IF alias.market = "spot" THEN "lost" ELSE "requested")
  /\ UNCHANGED <<alias, owner, loop, net, work, told, members>>

\* A request that fails is not repeated.
EndRequest(p) ==
  /\ book[p] = "requested" /\ \E outcome \in {"live", "lost"} : Becomes(p, outcome)
  /\ UNCHANGED <<alias, owner, loop, net, work, told, members>>

-----------------------------------------------------------------------------
(* The destructor takes the contexts one after the other.                  *)

Destroy ==
  /\ phase \in {"up", "stopped"} /\ phase' = "destroying"
  /\ UNCHANGED <<alias, contexts, accepted, started, orderly, trade, loop, net, strand, members>>

\* The jthread joins, and the session waits for both its promises.  Nothing waits for
\* the run() of Binance that is about to return.
Waits(p, member) ==
  \/ member = "thread" /\ inside[p] > 0
  \/ member = "session" /\ ~(session[p] = "over" /\ written[p])

Begun(p) == members[p] # <<>> /\ members[p] \notin {BinanceMembers, BybitMembers}

DestroyMember(p) ==
  /\ phase = "destroying" /\ members[p] # <<>> /\ ~Waits(p, Head(members[p]))
  /\ \A q \in contexts \ {p} : ~Begun(q)
  /\ members' = [members EXCEPT ![p] = Tail(@)]
  /\ UNCHANGED <<alias, owner, loop, net, strand>>

\* The trade session of Bybit waits for promises that ioc_trade_ would have to set.
DestroyContexts ==
  /\ phase = "destroying" /\ \A p \in contexts : members[p] = <<>>
  /\ phase' = IF Binance THEN "gone" ELSE "trade"
  /\ UNCHANGED <<alias, contexts, accepted, started, orderly, trade, loop, net, strand, members>>

-----------------------------------------------------------------------------
Init ==
  /\ alias \in {Alias(name) : name \in Aliases}
  /\ phase = "up" /\ contexts = {} /\ started = {} /\ orderly = FALSE /\ trade = <<>>
  /\ accepted = [p \in Pairs |-> {}] /\ told = [p \in Pairs |-> {}]
  /\ ready = [p \in Pairs |-> <<>>] /\ runs = [p \in Pairs |-> 0]
  /\ inside = [p \in Pairs |-> 0] /\ returned = [p \in Pairs |-> FALSE]
  /\ session = [p \in Pairs |-> "none"]
  /\ outbox = [p \in Pairs |-> {}] /\ sent = [p \in Pairs |-> {}]
  /\ written = [p \in Pairs |-> FALSE] /\ cancelled = [p \in Pairs |-> FALSE]
  /\ work = [p \in Pairs |-> 0] /\ book = [p \in Pairs |-> "none"]
  /\ members = [p \in Pairs |-> <<>>]

Owner(p) ==
  \/ Register(p) \/ PlaceOrder(p) \/ CancelOrder(p)
  \/ \E notifier \in {"best_bid", "best_ask", "best_bid_price", "best_ask_price"} :
       SetCallback(p, notifier)

Context(p) == RunWrite(p) \/ RunSession(p) \/ RunStop(p) \/ Connect(p) \/ WriteLoop(p) \/ Return(p)

Destructor == DestroyContexts \/ \E p \in Pairs : DestroyMember(p)

Posted(p) == TakeRun(p) \/ Request(p)

Pool(p) == Posted(p) \/ HandleMessage(p) \/ EndRequest(p)

Next ==
  \/ \E p \in Pairs : Owner(p) \/ Context(p) \/ ReadLoop(p) \/ ReadError(p) \/ Pool(p)
  \/ StartAsync \/ StopAsync \/ Destroy \/ Destructor

Spec == Init /\ [][Next]_vars

\* Threads run what they have taken, and the pool takes what was posted in order, so that
\* whatever waits there gets the thread that is free again and again; connections are made or
\* fail, requests end; the exchange goes on sending to those who have subscribed, messages
\* that parse and prices that change among them; a destructor goes on when it can.
FairParts ==
  /\ \A p \in Pairs : /\ WF_vars(Context(p)) /\ SF_vars(Posted(p)) /\ WF_vars(EndRequest(p))
                      /\ WF_vars(ReadLoop(p)) /\ SF_vars(Begin(p)) /\ SF_vars(Change(p))
  /\ WF_vars(Destructor)

-----------------------------------------------------------------------------
(* Properties.                                                             *)

Handlers == {"write", "run", "stop"}

\* The variables have their types, no more threads run io_contexts and wait for requests than
\* there are, and the loops of a session begin only when it is connected.
TypeOK ==
  /\ phase \in {"up", "stopped", "destroying", "trade", "gone"}
  /\ contexts \subseteq Pairs /\ started \subseteq contexts /\ orderly \in BOOLEAN
  /\ accepted \in [Pairs -> SUBSET Enabled] /\ told \in [Pairs -> SUBSET Enabled]
  /\ \A p \in Pairs : \A i \in DOMAIN ready[p] : ready[p][i] \in Handlers
  /\ runs \in [Pairs -> Nat] /\ inside \in [Pairs -> Nat] /\ Busy <= Threads
  /\ returned \in [Pairs -> BOOLEAN] /\ work \in [Pairs -> 0 .. MaxWork]
  /\ session \in [Pairs -> {"none", "idle", "connecting", "live", "over", "failed"}]
  /\ book \in [Pairs -> {"none", "asked", "requested", "live", "lost", "undefined"}]
  /\ \A p \in Pairs : written[p] \/ cancelled[p] => session[p] \in {"live", "over"}
  /\ \A i \in DOMAIN trade : trade[i] \in {"run", "write"}

\* At most one thread runs the io_context of a session, whose flag, queue and stream
\* have no lock (web_socket.h:38, 56): neither Register and StartAsync nor the pool bring
\* in a second one.
OneThreadPerContext == \A p \in Pairs : inside[p] <= 1

\* The book of a pair is asked for by the symbol of that pair, the snapshot too, and at
\* the endpoint of the instance's market; a pair whose symbol is not found is not asked for.
MarketAt(at) ==
  CASE at.path = "/v5/public/spot" \/ at.host = "stream.binance.com"  -> {"spot"}
    [] at.path = "/v5/public/linear"     -> {"linear"}
    [] at.host = "fstream.binance.com"   -> {"futures"}
    [] OTHER -> {}

RestSession == IF alias.market = "spot" THEN SpotRestSession ELSE FuturesRestSession

AsksForItsPair ==
  \A p \in Pairs :
    /\ \A m \in outbox[p] \cup sent[p] :
         PairOfSymbol[m.symbol] = p /\ alias.market \in MarketAt(alias.session)
    /\ book[p] = "asked" =>
         \A m \in SnapshotOf(p) : PairOfSymbol[m.symbol] = p /\ m.host = RestSession.host

\* While the loops of a session run, what they use is there: the destructor of a context
\* ends with the members that the others use (infrastructure.h:52, "it is last").
LoopsHaveTheirMembers ==
  \A p \in Pairs : session[p] = "live" =>
    Alive(p, "session") /\ Alive(p, "listener") /\ Alive(p, "ioc")

\* Every session that StartAsync started comes to connect, unless the infrastructure is
\* destroyed: the pool has a thread for each, which finds the session's work in the io_context
\* and does not return before.
StartedSessionsRun ==
  started # {} /\ phase = "up" /\ (Binance => Cardinality(started) <= Threads)
    ~> (\A p \in started : session[p] # "idle") \/ phase # "up"

\* A callback that was taken comes to be called, if Binance's pool has a thread more than
\* pairs: diffs and the snapshot request find it free.  The book must not be lost: a failed
\* request or, for Bybit, a message lost; the book of Binance's spot instances always is.
CallbacksAreTold ==
  \A p \in Called : \A n \in Enabled :
    n \in accepted[p] /\ session[p] = "live" /\ sent[p] # {} /\ phase = "up"
      /\ (Binance => Cardinality(started) < Threads)
      ~> n \in told[p] \/ book[p] = "lost" \/ session[p] # "live" \/ phase # "up"

\* An infrastructure of Binance that was stopped when all its sessions were live and
\* subscribed can be destroyed: each read loop sees the signal at its next message, and
\* both promises are kept.
StoppedIsDestroyed ==
  Binance /\ orderly /\ phase = "destroying" ~> phase = "gone"

\* A session is run by one thread at a time, and while its loops run what they use is there.
SessionsAreSafe == OneThreadPerContext /\ LoopsHaveTheirMembers

\* A started session comes to connect, and its messages reach the callbacks, if the threads
\* suffice.
StartedSessionsServe == StartedSessionsRun /\ CallbacksAreTold

=============================================================================
