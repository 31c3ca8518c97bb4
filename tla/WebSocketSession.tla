-------------------------- MODULE WebSocketSession --------------------------
(***************************************************************************)
(* A web socket session (aoe/session/web_socket/web_socket.h): the         *)
(* coroutines that connect, read and write, the queue of messages between  *)
(* AsyncWrite and the write loops, the one cancellation signal they share, *)
(* and the two promises the destructor waits for.                          *)
(*                                                                         *)
(* Kind "RW" is WebSocketSessionRW, "W" is WebSocketSessionW.              *)
(*                                                                         *)
(* Every session has an io_context of its own that one thread runs, so the *)
(* coroutines interleave at their co_awaits only: a step below is the code *)
(* between two of them.  AsyncWrite and StopAsync run as handlers of that  *)
(* thread; calls made when run() has returned for want of work never run,  *)
(* and are no steps.                                                       *)
(***************************************************************************)
EXTENDS Naturals, Sequences, FiniteSets, SequencesExt

CONSTANTS
  Kind,         \* "RW" or "W"
  MayStop,      \* whether the owner calls StopAsync
  MaxMessages,  \* bound: calls of AsyncWrite
  MaxReads      \* bound: messages read

ASSUME KindAssumption   == Kind \in {"RW", "W"}
ASSUME InputsAssumption == MayStop \in BOOLEAN
ASSUME BoundsAssumption == MaxMessages \in Nat /\ MaxReads \in Nat

VARIABLES
  connection,          \* what Run has come to
  session_ready_,
  stream_,             \* "open" until CloseSessionFast closes it
  message_queue_,      \* messages, numbered in the order of the AsyncWrites
  calls,               \* how many messages AsyncWrite has enqueued
  loops,               \* the write loops, each a coroutine of its own
  timers,              \* the loops that sit out their second, oldest first
  reader,              \* the read loop
  slot,                \* whose handler cancel_signal_ holds: the last to assign
  responses,           \* messages put on the response queue
  started,             \* the messages handed to the stream, in that order
  read_done_promise_,
  write_done_promise_,
  owner                \* "uses" the session, "waits" in its destructor, "gone"

vars == <<connection, session_ready_, stream_, message_queue_, calls, loops, timers,
          reader, slot, responses, started, read_done_promise_, write_done_promise_,
          owner>>

-----------------------------------------------------------------------------
(* Data.                                                                   *)

Messages == 1 .. MaxMessages

\* Run spawns write loop 0, AsyncWrite of message m spawns write loop m.
LoopIds == 0 .. MaxMessages

Ended == {"unready", "drained", "cancelled", "failed"}

\* A write loop: where it is (or how it ended), the local flag its handler sets,
\* and the message it has taken from the queue (0: none).
Loop == [at : {"none", "spawned", "delay", "writing"} \cup Ended,
         cancelled : BOOLEAN, message : {0} \cup Messages]

Reader == [at : {"none", "spawned", "reading", "done"}, cancelled : BOOLEAN]

Alive(l) == loops[l].at \in {"spawned", "delay", "writing"}

ReaderAlive == reader.at \in {"spawned", "reading"}

\* run() goes on as long as there is work: before Run (the handlers wait for the
\* thread), while it connects, and while a loop is alive.
ContextRuns ==
  connection \in {"idle", "connecting"} \/ ReaderAlive \/ \E l \in LoopIds : Alive(l)

-----------------------------------------------------------------------------
(* The cancellation signal.  assign replaces the handler of the loop that  *)
(* assigned before; emit runs the one handler there is.  It holds a        *)
(* reference into its loop's frame: when that loop has ended, what it      *)
(* writes to is no longer anybody's flag.                                  *)

\* The write loops ls after emit.
LoopsAfterEmit(ls) ==
  [l \in LoopIds |->
     IF slot = <<"write", l>> THEN [ls[l] EXCEPT !.cancelled = TRUE] ELSE ls[l]]

ReaderAfterEmit(r) == [r EXCEPT !.cancelled = @ \/ slot = <<"read">>]

-----------------------------------------------------------------------------
(* The write loop.                                                         *)

\* Fault: as in W, an empty queue ends the loop without a word.
FulfilsUnlessDrained(how) == how \in {"cancelled", "failed"}

\* A loop that ends fulfils the promise, a second set_value throws into detached;
\* W leaves an empty queue with co_return instead.
Fulfils(how) == how \in {"cancelled", "failed"} \/ (how = "drained" /\ Kind = "RW")

Finish(l, how) ==
  /\ loops' = [loops EXCEPT ![l].at = how, ![l].message = 0]
  /\ write_done_promise_' = (write_done_promise_ \/ Fulfils(how))
  /\ UNCHANGED <<message_queue_, timers>>

\* Fault: looks at the next message and leaves it in the queue.
PeekMessage(l) ==
  /\ loops' = [loops EXCEPT ![l].at = "delay", ![l].message = Head(message_queue_)]
  /\ timers' = Append(timers, l)
  /\ UNCHANGED <<message_queue_, write_done_promise_>>

\* Fault: what is dequeued does not reach the loop's variable.
TakeNothing(l) ==
  /\ loops' = [loops EXCEPT ![l].at = "delay"]
  /\ message_queue_' = Tail(message_queue_)
  /\ timers' = Append(timers, l)
  /\ UNCHANGED write_done_promise_

\* Takes the next message and starts the timer.
TakeMessage(l) ==
  /\ loops' = [loops EXCEPT ![l].at = "delay", ![l].message = Head(message_queue_)]
  /\ message_queue_' = Tail(message_queue_)
  /\ timers' = Append(timers, l)
  /\ UNCHANGED write_done_promise_

\* The head of the loop, up to the next co_await.
Iterate(l, cancelled) ==
  IF cancelled THEN Finish(l, "cancelled")
  ELSE IF message_queue_ = <<>> THEN Finish(l, "drained")
  ELSE TakeMessage(l)

\* Fault: the check of session_ready_ is the wrong way round.
MayBeginUnready(l) == l = 0 \/ ~session_ready_

\* Loop 0 is spawned by Run itself, the others by StartWrite, which checks that the
\* session is ready.
MayBegin(l) == l = 0 \/ session_ready_

BeginWriteLoop(l) ==
  /\ loops[l].at = "spawned"
  /\ \/ /\ ~MayBegin(l)
        /\ Finish(l, "unready")
        /\ UNCHANGED slot
     \/ /\ MayBegin(l)
        /\ slot' = <<"write", l>>
        /\ Iterate(l, FALSE)
  /\ UNCHANGED <<connection, session_ready_, stream_, calls, reader, responses, started,
                 read_done_promise_, owner>>

\* All timers run for one second, so they fire in the order they were started.
\* async_write takes the message.
StartAsyncWrite(l) ==
  /\ timers # <<>> /\ Head(timers) = l
  /\ timers' = Tail(timers)
  /\ loops' = [loops EXCEPT ![l].at = "writing"]
  /\ started' = Append(started, loops[l].message)
  /\ UNCHANGED <<connection, session_ready_, stream_, message_queue_, calls, reader, slot,
                 responses, read_done_promise_, write_done_promise_, owner>>

\* Several loops can be writing at once, which the stream does not provide for: each
\* write then succeeds or fails, in any order.
EndAsyncWrite(l) ==
  /\ loops[l].at = "writing"
  /\ \/ stream_ = "open" /\ Iterate(l, loops[l].cancelled)
     \/ Finish(l, "failed")
  /\ UNCHANGED <<connection, session_ready_, stream_, calls, reader, slot, responses,
                 started, read_done_promise_, owner>>

-----------------------------------------------------------------------------
(* The read loop.                                                          *)

BeginReadLoop ==
  /\ reader.at = "spawned"
  /\ reader' = [reader EXCEPT !.at = "reading"]
  /\ slot' = <<"read">>
  /\ UNCHANGED <<connection, session_ready_, stream_, message_queue_, calls, loops, timers,
                 responses, started, read_done_promise_, write_done_promise_, owner>>

\* The way out of the loop: CloseSessionFast, then the promise.
EndReadLoop ==
  /\ loops' = LoopsAfterEmit(loops)
  /\ reader' = [ReaderAfterEmit(reader) EXCEPT !.at = "done"]
  /\ stream_' = "closed"
  /\ read_done_promise_' = TRUE

\* A message has been read; only then does the loop look at its flag.
ReadMessage ==
  /\ reader.at = "reading"
  /\ responses < MaxReads
  /\ responses' = responses + 1
  /\ IF reader.cancelled THEN EndReadLoop
                         ELSE UNCHANGED <<loops, reader, stream_, read_done_promise_>>
  /\ UNCHANGED <<connection, session_ready_, message_queue_, calls, timers, slot, started,
                 write_done_promise_, owner>>

ReadFails ==
  /\ reader.at = "reading"
  /\ EndReadLoop
  /\ UNCHANGED <<connection, session_ready_, message_queue_, calls, timers, slot, responses,
                 started, write_done_promise_, owner>>

-----------------------------------------------------------------------------
(* Run, and the calls of the owner.                                        *)

Spawned(ls, l) == [ls EXCEPT ![l].at = "spawned"]

StartAsync ==
  /\ connection = "idle"
  /\ owner = "uses"
  /\ connection' = "connecting"
  /\ UNCHANGED <<session_ready_, stream_, message_queue_, calls, loops, timers, reader, slot,
                 responses, started, read_done_promise_, write_done_promise_, owner>>

\* Fault: as in W, the session is never ready.
NeverReady == FALSE

\* The end of Run: the resolver, the connection and both handshakes have succeeded.
ReadyAfterRun == Kind = "RW"

Connected ==
  /\ connection = "connecting"
  /\ connection' = "connected"
  /\ session_ready_' = ReadyAfterRun
  /\ loops' = Spawned(loops, 0)
  /\ reader' = [reader EXCEPT !.at = "spawned"]
  /\ UNCHANGED <<stream_, message_queue_, calls, timers, slot, responses, started,
                 read_done_promise_, write_done_promise_, owner>>

ConnectFails ==
  /\ connection = "connecting"
  /\ connection' = "failed"
  /\ UNCHANGED <<session_ready_, stream_, message_queue_, calls, loops, timers, reader, slot,
                 responses, started, read_done_promise_, write_done_promise_, owner>>

AsyncWrite ==
  /\ owner = "uses"
  /\ ContextRuns
  /\ calls < MaxMessages
  /\ calls' = calls + 1
  /\ message_queue_' = Append(message_queue_, calls + 1)
  /\ loops' = Spawned(loops, calls + 1)
  /\ UNCHANGED <<connection, session_ready_, stream_, timers, reader, slot, responses,
                 started, read_done_promise_, write_done_promise_, owner>>

StopAsync ==
  /\ MayStop /\ Kind = "RW"
  /\ owner = "uses"
  /\ ContextRuns
  /\ loops' = LoopsAfterEmit(loops)
  /\ reader' = ReaderAfterEmit(reader)
  /\ UNCHANGED <<connection, session_ready_, stream_, message_queue_, calls, timers, slot,
                 responses, started, read_done_promise_, write_done_promise_, owner>>

Destroy ==
  /\ owner = "uses"
  /\ owner' = "waits"
  /\ UNCHANGED <<connection, session_ready_, stream_, message_queue_, calls, loops, timers,
                 reader, slot, responses, started, read_done_promise_, write_done_promise_>>

\* Both futures are ready.
Destroyed ==
  /\ owner = "waits"
  /\ read_done_promise_ /\ write_done_promise_
  /\ owner' = "gone"
  /\ UNCHANGED <<connection, session_ready_, stream_, message_queue_, calls, loops, timers,
                 reader, slot, responses, started, read_done_promise_, write_done_promise_>>

-----------------------------------------------------------------------------
Init ==
  /\ connection = "idle"
  /\ session_ready_ = FALSE
  /\ stream_ = "open"
  /\ message_queue_ = <<>>
  /\ calls = 0
  /\ loops = [l \in LoopIds |-> [at |-> "none", cancelled |-> FALSE, message |-> 0]]
  /\ timers = <<>>
  /\ reader = [at |-> "none", cancelled |-> FALSE]
  /\ slot = <<"none">>
  /\ responses = 0
  /\ started = <<>>
  /\ read_done_promise_ = FALSE
  /\ write_done_promise_ = FALSE
  /\ owner = "uses"

\* What the thread of the io_context does.  Nothing is known of a coroutine that
\* outlives the session, so such steps are not followed.
Coroutines ==
  /\ owner # "gone"
  /\ \/ \E l \in LoopIds : BeginWriteLoop(l) \/ StartAsyncWrite(l) \/ EndAsyncWrite(l)
     \/ BeginReadLoop
     \/ ReadMessage
     \/ ReadFails
     \/ Connected
     \/ ConnectFails

Next == Coroutines \/ StartAsync \/ AsyncWrite \/ StopAsync \/ Destroy \/ Destroyed

Spec == Init /\ [][Next]_vars

\* The thread runs what is ready, timers fire and writes complete, and the destructor
\* returns when it can.  A read may never complete, Run may never get through, and the
\* owner owes nothing.
Fairness ==
  /\ \A l \in LoopIds : /\ WF_vars(owner # "gone" /\ BeginWriteLoop(l))
                        /\ WF_vars(owner # "gone" /\ StartAsyncWrite(l))
                        /\ WF_vars(owner # "gone" /\ EndAsyncWrite(l))
  /\ WF_vars(owner # "gone" /\ BeginReadLoop)
  /\ WF_vars(Destroyed)

FairSpec == Spec /\ Fairness

-----------------------------------------------------------------------------
(* Properties.                                                             *)

\* Every variable keeps its type.
TypeOK ==
  /\ connection \in {"idle", "connecting", "connected", "failed"}
  /\ session_ready_ \in BOOLEAN
  /\ stream_ \in {"open", "closed"}
  /\ message_queue_ \in Seq(Messages)
  /\ calls \in 0 .. MaxMessages
  /\ loops \in [LoopIds -> Loop]
  /\ timers \in Seq(LoopIds)
  /\ reader \in Reader
  /\ slot \in {<<"none">>, <<"read">>} \cup {<<"write", l>> : l \in LoopIds}
  /\ responses \in 0 .. MaxReads
  /\ started \in Seq(Messages)
  /\ read_done_promise_ \in BOOLEAN
  /\ write_done_promise_ \in BOOLEAN
  /\ owner \in {"uses", "waits", "gone"}

\* However many write loops run at once, no message is dropped between the queue and
\* the stream, none is sent twice, and all are sent in the order of the calls: those
\* handed to the stream, those whose second has not passed and those still queued are
\* together the messages of all the calls.
MessagesInOrder ==
  started \o [i \in 1 .. Len(timers) |-> loops[timers[i]].message] \o message_queue_
    = [m \in 1 .. calls |-> m]

\* Once the session is ready, a message does not lie in the queue with no write loop
\* about to look there, unless a loop was cancelled or its write failed.
QueueIsWatched ==
  session_ready_ /\ message_queue_ # <<>> =>
    \E l \in LoopIds : Alive(l) \/ loops[l].at \in {"cancelled", "failed"}

\* No message is lost, overtaken or forgotten in the queue (web_socket.h:247 to 301).
MessagesKept == MessagesInOrder /\ QueueIsWatched

\* What keeps messages from being sent: Run did not get through, a loop was cancelled,
\* a write failed, the stream is closed, or the owner destroyed the session.
Disturbed ==
  \/ connection # "connected"
  \/ stream_ = "closed"
  \/ owner # "uses"
  \/ \E l \in LoopIds : loops[l].cancelled \/ loops[l].at = "failed"

\* Every message is handed to the stream in the end, unless something disturbs the
\* session.
EveryMessageSent ==
  \A m \in Messages : calls >= m ~> Disturbed \/ m \in ToSet(started)

\* Once the connection has ended, the destructor does not wait for ever: whatever the
\* write loops were about, one of them has said that it is done.
DestructorReturns ==
  owner = "waits" /\ stream_ = "closed" ~> owner = "gone"

=============================================================================
