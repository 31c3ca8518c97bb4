----------------------- MODULE WebSocketSessionProofs -----------------------
(***************************************************************************)
(* Theorems about WebSocketSession, for both kinds of session and any      *)
(* number of messages and reads.                                           *)
(***************************************************************************)
EXTENDS WebSocketSession, SequenceTheorems, TLAPS

-----------------------------------------------------------------------------
(* The inductive invariant.                                                *)

\* A loop in the list of timers waits there once, and with a message in hand.
TimersAreDelays ==
  /\ \A i \in 1 .. Len(timers) : loops[timers[i]].at = "delay"
  /\ \A i, j \in 1 .. Len(timers) : timers[i] = timers[j] => i = j
  /\ \A l \in LoopIds : loops[l].at = "delay" => loops[l].message \in Messages

\* A loop is spawned once: loop 0 when Run gets through, loop m by the m-th AsyncWrite.
SpawnedOnce ==
  /\ connection \in {"idle", "connecting"} => loops[0].at = "none"
  /\ \A l \in LoopIds : l > calls => loops[l].at = "none"

\* The messages of the loops that wait for their timers, in the order of the timers.
Timed == [i \in 1 .. Len(timers) |-> loops[timers[i]].message]

Inv == TypeOK /\ TimersAreDelays /\ SpawnedOnce /\ MessagesInOrder /\ QueueIsWatched

-----------------------------------------------------------------------------
(* Sequences.                                                              *)

\* The head of the last part may move to the end of the middle one.
LEMMA HeadMovesLeft ==
  ASSUME NEW s \in Seq(Messages), NEW t \in Seq(Messages), NEW q \in Seq(Messages),
         q # <<>>
  PROVE  s \o Append(t, Head(q)) \o Tail(q) = s \o t \o q
<1>1. Head(q) \in Messages /\ Tail(q) \in Seq(Messages) /\ Len(Tail(q)) = Len(q) - 1 /\ Len(q) >= 1
  BY HeadTailProperties, EmptySeq
<1>. DEFINE a == s \o Append(t, Head(q)) \o Tail(q)
            b == s \o t \o q
<1>2. a \in Seq(Messages) /\ b \in Seq(Messages) /\ Len(a) = Len(b)
  BY <1>1
<1>3. \A i \in 1 .. Len(a) : a[i] = b[i]
  BY <1>1
<1>. QED
  BY <1>2, <1>3, SeqEqual

\* The head of the middle part may move to the end of the first one.
LEMMA HeadMovesFirst ==
  ASSUME NEW s \in Seq(Messages), NEW t \in Seq(Messages), NEW q \in Seq(Messages),
         t # <<>>
  PROVE  Append(s, Head(t)) \o Tail(t) \o q = s \o t \o q
<1>1. Head(t) \in Messages /\ Tail(t) \in Seq(Messages) /\ Len(Tail(t)) = Len(t) - 1 /\ Len(t) >= 1
  BY HeadTailProperties, EmptySeq
<1>. DEFINE a == Append(s, Head(t)) \o Tail(t) \o q
            b == s \o t \o q
<1>2. a \in Seq(Messages) /\ b \in Seq(Messages) /\ Len(a) = Len(b)
  BY <1>1
<1>3. \A i \in 1 .. Len(a) : a[i] = b[i]
  BY <1>1
<1>. QED
  BY <1>2, <1>3, SeqEqual

\* What is appended to the last part is appended to the whole.
LEMMA AppendMovesOut ==
  ASSUME NEW s \in Seq(Messages), NEW q \in Seq(Messages), NEW m \in Messages
  PROVE  s \o Append(q, m) = Append(s \o q, m)
<1>. DEFINE a == s \o Append(q, m)
            b == Append(s \o q, m)
<1>1. a \in Seq(Messages) /\ b \in Seq(Messages) /\ Len(a) = Len(b)
  OBVIOUS
<1>2. \A i \in 1 .. Len(a) : a[i] = b[i]
  OBVIOUS
<1>. QED
  BY <1>1, <1>2, SeqEqual

\* Counting on by one.
LEMMA CountingAppend ==
  ASSUME NEW n \in Nat
  PROVE  Append([m \in 1 .. n |-> m], n + 1) = [m \in 1 .. n + 1 |-> m]
<1>. DEFINE a == Append([m \in 1 .. n |-> m], n + 1)
            b == [m \in 1 .. n + 1 |-> m]
<1>1. [m \in 1 .. n |-> m] \in Seq(Nat) /\ b \in Seq(Nat)
  BY IsASeq
<1>2. a \in Seq(Nat) /\ Len(a) = n + 1 /\ Len(b) = n + 1
  BY <1>1
<1>3. \A i \in 1 .. Len(a) : a[i] = b[i]
  BY <1>1, <1>2
<1>. QED
  BY <1>1, <1>2, <1>3, SeqEqual

\* The three parts of MessagesInOrder are sequences of messages.
LEMMA TimedTypes ==
  ASSUME TypeOK, TimersAreDelays
  PROVE  Timed \in Seq(Messages) /\ Len(Timed) = Len(timers)
<1>1. \A i \in 1 .. Len(timers) : loops[timers[i]].message \in Messages
  BY DEF TypeOK, TimersAreDelays
<1>2. Len(timers) \in Nat
  BY LenProperties DEF TypeOK
<1>. QED
  BY <1>1, <1>2, IsASeq DEF Timed

\* They stay as long as no loop that waits for its timer is touched.
LEMMA TimedStays ==
  ASSUME timers' = timers,
         \A i \in 1 .. Len(timers) : loops'[timers[i]].message = loops[timers[i]].message
  PROVE  Timed' = Timed
BY DEF Timed

-----------------------------------------------------------------------------
(* What a step does to the variables of the write loops.                   *)

\* The part of TypeOK that speaks of the write loops.
LoopTypes ==
  /\ message_queue_ \in Seq(Messages)
  /\ loops \in [LoopIds -> Loop]
  /\ timers \in Seq(LoopIds)
  /\ write_done_promise_ \in BOOLEAN

LoopParts == LoopTypes /\ TimersAreDelays /\ SpawnedOnce /\ MessagesInOrder /\ QueueIsWatched

\* A loop that does not wait for its timer may end: as "drained" when the queue is empty,
\* as "unready" when the session is.
LEMMA FinishKeeps ==
  ASSUME Inv, NEW l \in LoopIds, NEW how \in Ended,
         loops[l].at \in {"spawned", "writing"},
         how = "drained" => message_queue_ = <<>>,
         how = "unready" => ~session_ready_,
         Finish(l, how),
         UNCHANGED <<connection, session_ready_, calls, started>>
  PROVE  LoopParts'
<1>. USE DEF Inv
<1>1. loops' = [loops EXCEPT ![l].at = how, ![l].message = 0] /\ timers' = timers
      /\ message_queue_' = message_queue_
  BY DEF Finish
<1>2. LoopTypes'
  <2>1. loops' \in [LoopIds -> Loop]
    BY <1>1 DEF TypeOK, Loop
  <2>. QED
    BY <1>1, <2>1 DEF LoopTypes, TypeOK, Finish, Fulfils
<1>3. \A k \in LoopIds : k # l => loops'[k] = loops[k]
  BY <1>1 DEF TypeOK
<1>4. loops'[l].at = how /\ how \notin {"delay", "none"}
  BY <1>1 DEF TypeOK, Loop, Ended
<1>5. \A i \in 1 .. Len(timers) : timers[i] \in LoopIds /\ timers[i] # l
  BY DEF TypeOK, TimersAreDelays
<1>6. TimersAreDelays'
  <2>1. ASSUME NEW i \in 1 .. Len(timers') PROVE loops'[timers'[i]].at = "delay"
    <3>1. i \in 1 .. Len(timers) /\ timers'[i] = timers[i]
      BY <1>1
    <3>2. loops'[timers[i]] = loops[timers[i]]
      BY <1>3, <1>5, <3>1
    <3>. QED
      BY <3>1, <3>2 DEF TimersAreDelays
  <2>2. \A i, j \in 1 .. Len(timers') : timers'[i] = timers'[j] => i = j
    BY <1>1 DEF TimersAreDelays
  <2>3. \A k \in LoopIds : loops'[k].at = "delay" => loops'[k].message \in Messages
    BY <1>3, <1>4 DEF TimersAreDelays
  <2>. QED
    BY <2>1, <2>2, <2>3 DEF TimersAreDelays
<1>7. SpawnedOnce'
  <2>1. 0 \in LoopIds
    BY BoundsAssumption DEF LoopIds
  <2>. QED
    BY <1>3, <2>1 DEF SpawnedOnce
<1>8. MessagesInOrder'
  <2>1. Timed' = Timed
    BY <1>1, <1>3, <1>5, TimedStays
  <2>. QED
    BY <1>1, <2>1 DEF MessagesInOrder, Timed
<1>9. QueueIsWatched'
  <2>. SUFFICES ASSUME session_ready_, message_queue_ # <<>>
                PROVE  (\E k \in LoopIds : Alive(k) \/ loops[k].at \in {"cancelled", "failed"})'
    BY <1>1 DEF QueueIsWatched
  <2>1. how \in {"cancelled", "failed"}
    BY DEF Ended
  <2>. QED
    BY <1>4, <2>1
<1>. QED
  BY <1>2, <1>6, <1>7, <1>8, <1>9 DEF LoopParts

\* A loop that does not wait for its timer may take the next message and start it.
LEMMA TakeKeeps ==
  ASSUME Inv, NEW l \in LoopIds,
         loops[l].at \in {"spawned", "writing"},
         message_queue_ # <<>>,
         TakeMessage(l),
         UNCHANGED <<connection, session_ready_, calls, started>>
  PROVE  LoopParts'
<1>. USE DEF Inv
<1>1. /\ loops' = [loops EXCEPT ![l].at = "delay", ![l].message = Head(message_queue_)]
      /\ message_queue_' = Tail(message_queue_)
      /\ timers' = Append(timers, l)
      /\ UNCHANGED write_done_promise_
  BY DEF TakeMessage
<1>2. Head(message_queue_) \in Messages /\ Tail(message_queue_) \in Seq(Messages)
  BY HeadTailProperties DEF TypeOK
<1>3. /\ timers' \in Seq(LoopIds) /\ Len(timers') = Len(timers) + 1 /\ Len(timers) \in Nat
      /\ \A i \in 1 .. Len(timers) : timers'[i] = timers[i]
      /\ timers'[Len(timers) + 1] = l
  BY <1>1, AppendProperties, LenProperties DEF TypeOK
<1>4. LoopTypes'
  <2>1. loops' \in [LoopIds -> Loop]
    BY <1>1, <1>2 DEF TypeOK, Loop
  <2>. QED
    BY <1>1, <1>2, <1>3, <2>1 DEF LoopTypes, TypeOK
<1>5. \A k \in LoopIds : k # l => loops'[k] = loops[k]
  BY <1>1 DEF TypeOK
<1>6. loops'[l].at = "delay" /\ loops'[l].message = Head(message_queue_)
  BY <1>1 DEF TypeOK, Loop
<1>7. \A i \in 1 .. Len(timers) : timers[i] \in LoopIds /\ timers[i] # l
  BY DEF TypeOK, TimersAreDelays
<1>8. TimersAreDelays'
  <2>1. \A i \in 1 .. Len(timers') : loops'[timers'[i]].at = "delay"
    BY <1>3, <1>5, <1>6, <1>7 DEF TimersAreDelays
  <2>2. \A i, j \in 1 .. Len(timers') : timers'[i] = timers'[j] => i = j
    BY <1>3, <1>7 DEF TimersAreDelays
  <2>3. \A k \in LoopIds : loops'[k].at = "delay" => loops'[k].message \in Messages
    BY <1>2, <1>5, <1>6 DEF TimersAreDelays
  <2>. QED
    BY <2>1, <2>2, <2>3 DEF TimersAreDelays
<1>9. SpawnedOnce'
  <2>1. 0 \in LoopIds
    BY BoundsAssumption DEF LoopIds
  <2>. QED
    BY <1>5, <2>1 DEF SpawnedOnce
<1>10. MessagesInOrder'
  <2>1. Timed \in Seq(Messages) /\ Len(Timed) = Len(timers)
    BY TimedTypes
  <2>2. Timed' = Append(Timed, Head(message_queue_))
    <3>1. Timed' \in Seq(Messages) /\ Len(Timed') = Len(timers')
      <4>1. \A i \in 1 .. Len(timers') : loops'[timers'[i]].message \in Messages
        BY <1>2, <1>3, <1>5, <1>6, <1>7 DEF TimersAreDelays
      <4>. QED
        BY <1>3, <4>1, IsASeq DEF Timed
    <3>2. /\ Append(Timed, Head(message_queue_)) \in Seq(Messages)
          /\ Len(Append(Timed, Head(message_queue_))) = Len(timers')
      BY <1>2, <1>3, <2>1, AppendProperties
    <3>3. \A i \in 1 .. Len(timers') : Timed'[i] = Append(Timed, Head(message_queue_))[i]
      <4>1. \A i \in 1 .. Len(timers) : Timed'[i] = Timed[i]
        BY <1>3, <1>5, <1>7 DEF Timed
      <4>2. Timed'[Len(timers) + 1] = Head(message_queue_)
        BY <1>3, <1>6 DEF Timed
      <4>. QED
        BY <1>2, <1>3, <2>1, <4>1, <4>2, AppendProperties
    <3>. QED
      BY <3>1, <3>2, <3>3, SeqEqual
  <2>3. started \in Seq(Messages) /\ message_queue_ \in Seq(Messages)
    BY DEF TypeOK
  <2>4. started \o Timed' \o message_queue_' = started \o Timed \o message_queue_
    <3>1. started \o Append(Timed, Head(message_queue_)) \o Tail(message_queue_)
            = started \o Timed \o message_queue_
      BY <2>1, <2>3, HeadMovesLeft
    <3>. QED
      BY <1>1, <2>2, <3>1
  <2>. QED
    BY <2>4 DEF MessagesInOrder, Timed
<1>11. QueueIsWatched'
  BY <1>6 DEF QueueIsWatched, Alive
<1>. QED
  BY <1>4, <1>8, <1>9, <1>10, <1>11 DEF LoopParts

\* So the head of the write loop may be run by a loop that is due.
LEMMA IterateKeeps ==
  ASSUME Inv, NEW l \in LoopIds, NEW cancelled \in BOOLEAN,
         loops[l].at \in {"spawned", "writing"},
         Iterate(l, cancelled),
         UNCHANGED <<connection, session_ready_, calls, started>>
  PROVE  LoopParts'
<1>1. CASE cancelled
  <2>1. Finish(l, "cancelled")
    BY <1>1 DEF Iterate
  <2>. QED
    BY <2>1, FinishKeeps DEF Ended
<1>2. CASE ~cancelled /\ message_queue_ = <<>>
  <2>1. Finish(l, "drained")
    BY <1>2 DEF Iterate
  <2>. QED
    BY <1>2, <2>1, FinishKeeps DEF Ended
<1>3. CASE ~cancelled /\ message_queue_ # <<>>
  <2>1. TakeMessage(l)
    BY <1>3 DEF Iterate
  <2>. QED
    BY <1>3, <2>1, TakeKeeps
<1>. QED
  BY <1>1, <1>2, <1>3

\* Emitting the signal sets flags and nothing else.
LEMMA EmitKeeps ==
  ASSUME Inv, loops' = LoopsAfterEmit(loops),
         UNCHANGED <<connection, session_ready_, message_queue_, calls, timers, started,
                     write_done_promise_>>
  PROVE  LoopParts'
<1>. USE DEF Inv
<1>1. \A k \in LoopIds : loops'[k].at = loops[k].at /\ loops'[k].message = loops[k].message
  BY DEF LoopsAfterEmit, TypeOK, Loop
<1>2. \A i \in 1 .. Len(timers) : timers[i] \in LoopIds
  BY DEF TypeOK
<1>3. LoopTypes'
  <2>1. loops' \in [LoopIds -> Loop]
    BY DEF LoopsAfterEmit, TypeOK, Loop
  <2>. QED
    BY <2>1 DEF LoopTypes, TypeOK
<1>4. TimersAreDelays'
  <2>1. \A i \in 1 .. Len(timers') : loops'[timers'[i]].at = "delay"
    BY <1>1, <1>2 DEF TimersAreDelays
  <2>2. \A k \in LoopIds : loops'[k].at = "delay" => loops'[k].message \in Messages
    BY <1>1 DEF TimersAreDelays
  <2>. QED
    BY <2>1, <2>2 DEF TimersAreDelays
<1>5. SpawnedOnce'
  <2>1. 0 \in LoopIds
    BY BoundsAssumption DEF LoopIds
  <2>. QED
    BY <1>1, <2>1 DEF SpawnedOnce
<1>6. MessagesInOrder'
  <2>1. Timed' = Timed
    BY <1>1, <1>2, TimedStays
  <2>. QED
    BY <2>1 DEF MessagesInOrder, Timed
<1>7. QueueIsWatched'
  BY <1>1 DEF QueueIsWatched, Alive
<1>. QED
  BY <1>3, <1>4, <1>5, <1>6, <1>7 DEF LoopParts

\* Steps that leave the loops alone keep what is said of them.
LEMMA OthersKeep ==
  ASSUME Inv,
         UNCHANGED <<session_ready_, message_queue_, calls, loops, timers, started,
                     write_done_promise_>>,
         connection' \in {"idle", "connecting"} => connection \in {"idle", "connecting"}
  PROVE  LoopParts'
<1>1. LoopTypes'
  BY DEF Inv, LoopTypes, TypeOK
<1>2. TimersAreDelays'
  BY DEF Inv, TimersAreDelays
<1>3. SpawnedOnce'
  BY DEF Inv, SpawnedOnce
<1>4. MessagesInOrder'
  BY DEF Inv, MessagesInOrder
<1>5. QueueIsWatched'
  BY DEF Inv, QueueIsWatched, Alive
<1>. QED
  BY <1>1, <1>2, <1>3, <1>4, <1>5 DEF LoopParts

\* Spawning a loop that was never spawned touches no timer.
LEMMA SpawnKeeps ==
  ASSUME Inv, NEW l \in LoopIds, loops[l].at = "none", loops' = Spawned(loops, l),
         UNCHANGED timers
  PROVE  /\ loops' \in [LoopIds -> Loop]
         /\ loops'[l].at = "spawned"
         /\ \A k \in LoopIds : k # l => loops'[k] = loops[k]
         /\ TimersAreDelays'
         /\ Timed' = Timed
<1>. USE DEF Inv
<1>1. loops' \in [LoopIds -> Loop]
  BY DEF Spawned, TypeOK, Loop
<1>2. loops'[l].at = "spawned" /\ \A k \in LoopIds : k # l => loops'[k] = loops[k]
  BY DEF Spawned, TypeOK, Loop
<1>3. \A i \in 1 .. Len(timers) : timers[i] \in LoopIds /\ timers[i] # l
  BY DEF TypeOK, TimersAreDelays
<1>4. TimersAreDelays'
  <2>1. \A i \in 1 .. Len(timers') : loops'[timers'[i]].at = "delay"
    BY <1>2, <1>3 DEF TimersAreDelays
  <2>2. \A k \in LoopIds : loops'[k].at = "delay" => loops'[k].message \in Messages
    BY <1>2 DEF TimersAreDelays
  <2>. QED
    BY <2>1, <2>2 DEF TimersAreDelays
<1>5. Timed' = Timed
  BY <1>2, <1>3, TimedStays
<1>. QED
  BY <1>1, <1>2, <1>4, <1>5

-----------------------------------------------------------------------------
(* The actions.                                                            *)

\* What LoopTypes leaves out of TypeOK.
OtherTypes ==
  /\ connection \in {"idle", "connecting", "connected", "failed"}
  /\ session_ready_ \in BOOLEAN
  /\ stream_ \in {"open", "closed"}
  /\ calls \in 0 .. MaxMessages
  /\ reader \in Reader
  /\ slot \in {<<"none">>, <<"read">>} \cup {<<"write", l>> : l \in LoopIds}
  /\ responses \in 0 .. MaxReads
  /\ started \in Seq(Messages)
  /\ read_done_promise_ \in BOOLEAN
  /\ owner \in {"uses", "waits", "gone"}

LEMMA InvPartsNext == OtherTypes' /\ LoopParts' => Inv'
BY DEF Inv, TypeOK, OtherTypes, LoopParts, LoopTypes

LEMMA InitInv == Init => Inv
<1>. SUFFICES ASSUME Init PROVE Inv
  OBVIOUS
<1>. USE BoundsAssumption
<1>1. TypeOK
  <2>1. loops \in [LoopIds -> Loop]
    BY DEF Init, Loop
  <2>2. reader \in Reader
    BY DEF Init, Reader
  <2>3. /\ message_queue_ \in Seq(Messages) /\ timers \in Seq(LoopIds)
        /\ started \in Seq(Messages)
    BY EmptySeq DEF Init
  <2>4. calls \in 0 .. MaxMessages /\ responses \in 0 .. MaxReads
    BY DEF Init
  <2>5. slot = <<"none">>
    BY DEF Init
  <2>. QED
    BY <2>1, <2>2, <2>3, <2>4, <2>5 DEF Init, TypeOK
<1>2. TimersAreDelays
  BY DEF Init, TimersAreDelays
<1>3. SpawnedOnce
  BY DEF Init, SpawnedOnce, LoopIds
<1>4. MessagesInOrder
  <2>1. started = <<>> /\ timers = <<>> /\ message_queue_ = <<>> /\ calls = 0
    BY DEF Init
  <2>2. [i \in 1 .. Len(timers) |-> loops[timers[i]].message] = <<>>
    BY <2>1
  <2>3. [m \in 1 .. calls |-> m] = <<>>
    BY <2>1
  <2>. QED
    BY <2>1, <2>2, <2>3, ConcatEmptySeq DEF MessagesInOrder
<1>5. QueueIsWatched
  BY DEF Init, QueueIsWatched
<1>. QED
  BY <1>1, <1>2, <1>3, <1>4, <1>5 DEF Inv

LEMMA BeginWriteLoopStep ==
  ASSUME Inv, NEW l \in LoopIds, BeginWriteLoop(l)
  PROVE  Inv'
<1>1. OtherTypes'
  BY DEF Inv, TypeOK, OtherTypes, BeginWriteLoop
<1>2. LoopParts'
  <2>1. CASE ~MayBegin(l) /\ Finish(l, "unready")
    BY <2>1, FinishKeeps DEF BeginWriteLoop, MayBegin, Ended
  <2>2. CASE Iterate(l, FALSE)
    BY <2>2, IterateKeeps DEF BeginWriteLoop
  <2>. QED
    BY <2>1, <2>2 DEF BeginWriteLoop
<1>. QED
  BY <1>1, <1>2, InvPartsNext

LEMMA EndAsyncWriteStep ==
  ASSUME Inv, NEW l \in LoopIds, EndAsyncWrite(l)
  PROVE  Inv'
<1>1. OtherTypes'
  BY DEF Inv, TypeOK, OtherTypes, EndAsyncWrite
<1>2. LoopParts'
  <2>1. CASE Iterate(l, loops[l].cancelled)
    <3>1. loops[l].cancelled \in BOOLEAN
      BY DEF Inv, TypeOK, Loop
    <3>. QED
      BY <2>1, <3>1, IterateKeeps DEF EndAsyncWrite
  <2>2. CASE Finish(l, "failed")
    BY <2>2, FinishKeeps DEF EndAsyncWrite, Ended
  <2>. QED
    BY <2>1, <2>2 DEF EndAsyncWrite
<1>. QED
  BY <1>1, <1>2, InvPartsNext

\* The oldest timer fires: its message moves from the head of Timed to the end of started.
LEMMA StartAsyncWriteStep ==
  ASSUME Inv, NEW l \in LoopIds, StartAsyncWrite(l)
  PROVE  Inv'
<1>. USE DEF Inv
<1>1. /\ timers # <<>> /\ Head(timers) = l /\ timers' = Tail(timers)
      /\ loops' = [loops EXCEPT ![l].at = "writing"]
      /\ started' = Append(started, loops[l].message)
      /\ UNCHANGED <<connection, session_ready_, message_queue_, calls, write_done_promise_>>
  BY DEF StartAsyncWrite
<1>2. /\ timers' \in Seq(LoopIds) /\ Len(timers') = Len(timers) - 1
      /\ Len(timers) \in Nat /\ Len(timers) >= 1
      /\ \A i \in 1 .. Len(timers') : timers'[i] = timers[i + 1]
      /\ timers[1] = l
  BY <1>1, HeadTailProperties, EmptySeq, LenProperties DEF TypeOK
<1>3. \A i \in 1 .. Len(timers') : timers'[i] \in LoopIds /\ timers'[i] # l
  <2>. SUFFICES ASSUME NEW i \in 1 .. Len(timers')
                PROVE  timers'[i] \in LoopIds /\ timers'[i] # l
    OBVIOUS
  <2>1. i + 1 \in 1 .. Len(timers) /\ 1 \in 1 .. Len(timers) /\ i + 1 # 1
        /\ timers'[i] = timers[i + 1]
    BY <1>2
  <2>2. timers[i + 1] \in LoopIds
    BY <2>1 DEF TypeOK
  <2>3. timers[i + 1] = timers[1] => i + 1 = 1
    BY <2>1 DEF TimersAreDelays
  <2>. QED
    BY <1>2, <2>1, <2>2, <2>3
<1>4. /\ loops[l].at = "delay" /\ loops[l].message \in Messages
      /\ loops'[l].at = "writing"
      /\ \A k \in LoopIds : k # l => loops'[k] = loops[k]
  <2>1. 1 \in 1 .. Len(timers)
    BY <1>2
  <2>2. loops[l].at = "delay"
    BY <1>2, <2>1 DEF TimersAreDelays
  <2>3. loops[l].message \in Messages
    BY <2>2 DEF TimersAreDelays
  <2>4. loops'[l].at = "writing" /\ \A k \in LoopIds : k # l => loops'[k] = loops[k]
    BY <1>1 DEF TypeOK, Loop
  <2>. QED
    BY <2>2, <2>3, <2>4
<1>5. OtherTypes'
  <2>1. started' \in Seq(Messages)
    BY <1>1, <1>4, AppendProperties DEF TypeOK
  <2>. QED
    BY <2>1 DEF TypeOK, OtherTypes, StartAsyncWrite
<1>6. LoopTypes'
  <2>1. loops' \in [LoopIds -> Loop]
    BY <1>1 DEF TypeOK, Loop
  <2>. QED
    BY <1>1, <1>2, <2>1 DEF LoopTypes, TypeOK
<1>7. TimersAreDelays'
  <2>1. \A i \in 1 .. Len(timers') : loops'[timers'[i]].at = "delay"
    BY <1>2, <1>3, <1>4 DEF TimersAreDelays
  <2>2. \A i, j \in 1 .. Len(timers') : timers'[i] = timers'[j] => i = j
    <3>. SUFFICES ASSUME NEW i \in 1 .. Len(timers'), NEW j \in 1 .. Len(timers'),
                         timers'[i] = timers'[j]
                  PROVE  i = j
      OBVIOUS
    <3>1. i + 1 \in 1 .. Len(timers) /\ j + 1 \in 1 .. Len(timers)
          /\ timers[i + 1] = timers[j + 1]
      BY <1>2
    <3>. QED
      BY <3>1 DEF TimersAreDelays
  <2>3. \A k \in LoopIds : loops'[k].at = "delay" => loops'[k].message \in Messages
    BY <1>4 DEF TimersAreDelays
  <2>. QED
    BY <2>1, <2>2, <2>3 DEF TimersAreDelays
<1>8. SpawnedOnce'
  <2>1. 0 \in LoopIds
    BY BoundsAssumption DEF LoopIds
  <2>. QED
    BY <1>1, <1>4, <2>1 DEF SpawnedOnce
<1>9. MessagesInOrder'
  <2>1. Timed \in Seq(Messages) /\ Len(Timed) = Len(timers) /\ Timed # <<>>
    BY <1>2, TimedTypes, EmptySeq
  <2>2. Head(Timed) = loops[l].message
    <3>1. Timed[1] = loops[l].message
      BY <1>2 DEF Timed
    <3>. QED
      BY <2>1, <3>1
  <2>3. Timed' = Tail(Timed)
    <3>1. Tail(Timed) \in Seq(Messages) /\ Len(Tail(Timed)) = Len(timers')
          /\ \A i \in 1 .. Len(timers') : Tail(Timed)[i] = Timed[i + 1]
      BY <1>2, <2>1, HeadTailProperties
    <3>2. \A i \in 1 .. Len(timers') : Timed[i + 1] = loops[timers'[i]].message
      BY <1>2 DEF Timed
    <3>3. Timed' \in Seq(Messages) /\ Len(Timed') = Len(timers')
      <4>1. \A i \in 1 .. Len(timers') : loops'[timers'[i]].message \in Messages
        BY <1>2, <1>3, <1>4 DEF TimersAreDelays
      <4>. QED
        BY <1>2, <4>1, IsASeq DEF Timed
    <3>4. \A i \in 1 .. Len(timers') : Timed'[i] = Tail(Timed)[i]
      <4>1. \A i \in 1 .. Len(timers') : Timed'[i] = loops'[timers'[i]].message
        BY DEF Timed
      <4>. QED
        BY <1>3, <1>4, <3>1, <3>2, <4>1
    <3>. QED
      BY <3>1, <3>3, <3>4, SeqEqual
  <2>4. started \in Seq(Messages) /\ message_queue_ \in Seq(Messages)
    BY DEF TypeOK
  <2>5. Append(started, Head(Timed)) \o Tail(Timed) \o message_queue_
          = started \o Timed \o message_queue_
    BY <2>1, <2>4, HeadMovesFirst
  <2>6. started' \o Timed' \o message_queue_' = started \o Timed \o message_queue_
    BY <1>1, <2>2, <2>3, <2>5
  <2>. QED
    BY <1>1, <2>6 DEF MessagesInOrder, Timed
<1>10. QueueIsWatched'
  BY <1>4 DEF QueueIsWatched, Alive
<1>. QED
  BY <1>5, <1>6, <1>7, <1>8, <1>9, <1>10, InvPartsNext DEF LoopParts

\* The read loop begins, reads, or ends with an emission of the signal.
LEMMA ReaderStep ==
  ASSUME Inv, BeginReadLoop \/ ReadMessage \/ ReadFails
  PROVE  Inv'
<1>1. CASE BeginReadLoop
  <2>1. OtherTypes'
    BY <1>1 DEF Inv, TypeOK, OtherTypes, BeginReadLoop, Reader
  <2>2. LoopParts'
    BY <1>1, OthersKeep DEF BeginReadLoop
  <2>. QED
    BY <2>1, <2>2, InvPartsNext
<1>2. CASE ReadMessage
  <2>1. OtherTypes'
    <3>1. reader' \in Reader
      BY <1>2 DEF ReadMessage, EndReadLoop, ReaderAfterEmit, Inv, TypeOK, Reader
    <3>2. responses' \in 0 .. MaxReads
      BY <1>2, BoundsAssumption DEF ReadMessage, Inv, TypeOK
    <3>. QED
      BY <1>2, <3>1, <3>2 DEF Inv, TypeOK, OtherTypes, ReadMessage, EndReadLoop
  <2>2. CASE reader.cancelled
    <3>1. LoopParts'
      BY <1>2, <2>2, EmitKeeps DEF ReadMessage, EndReadLoop
    <3>. QED
      BY <2>1, <3>1, InvPartsNext
  <2>3. CASE ~reader.cancelled
    <3>1. LoopParts'
      BY <1>2, <2>3, OthersKeep DEF ReadMessage
    <3>. QED
      BY <2>1, <3>1, InvPartsNext
  <2>. QED
    BY <2>2, <2>3
<1>3. CASE ReadFails
  <2>1. OtherTypes'
    <3>1. reader' \in Reader
      BY <1>3 DEF ReadFails, EndReadLoop, ReaderAfterEmit, Inv, TypeOK, Reader
    <3>. QED
      BY <1>3, <3>1 DEF Inv, TypeOK, OtherTypes, ReadFails, EndReadLoop
  <2>2. LoopParts'
    BY <1>3, EmitKeeps DEF ReadFails, EndReadLoop
  <2>. QED
    BY <2>1, <2>2, InvPartsNext
<1>. QED
  BY <1>1, <1>2, <1>3

\* Run gets through and spawns loop 0.
LEMMA ConnectedStep ==
  ASSUME Inv, Connected
  PROVE  Inv'
<1>. USE DEF Inv
<1>1. 0 \in LoopIds /\ loops[0].at = "none"
  BY BoundsAssumption DEF Connected, SpawnedOnce, LoopIds
<1>2. /\ loops' \in [LoopIds -> Loop] /\ loops'[0].at = "spawned"
      /\ \A k \in LoopIds : k # 0 => loops'[k] = loops[k]
      /\ TimersAreDelays' /\ Timed' = Timed
  BY <1>1, SpawnKeeps DEF Connected
<1>3. OtherTypes'
  BY KindAssumption DEF TypeOK, OtherTypes, Connected, ReadyAfterRun, Reader
<1>4. LoopTypes'
  BY <1>2 DEF LoopTypes, TypeOK, Connected
<1>5. SpawnedOnce'
  <2>1. \A l \in LoopIds : l > calls' => loops'[l].at = "none"
    <3>1. ~(0 > calls)
      BY DEF TypeOK
    <3>. QED
      BY <1>2, <3>1 DEF SpawnedOnce, Connected
  <2>. QED
    BY <2>1 DEF SpawnedOnce, Connected
<1>6. MessagesInOrder'
  BY <1>2 DEF MessagesInOrder, Timed, Connected
<1>7. QueueIsWatched'
  BY <1>1, <1>2 DEF QueueIsWatched, Alive
<1>. QED
  BY <1>2, <1>3, <1>4, <1>5, <1>6, <1>7, InvPartsNext DEF LoopParts

\* A message is queued behind all the others, and a loop is spawned for it.
LEMMA AsyncWriteStep ==
  ASSUME Inv, AsyncWrite
  PROVE  Inv'
<1>. USE DEF Inv
<1>. DEFINE l == calls + 1
<1>1. /\ calls \in Nat /\ l \in LoopIds /\ l \in Messages /\ l > calls /\ l # 0
      /\ calls' = l /\ loops[l].at = "none"
  BY BoundsAssumption DEF AsyncWrite, SpawnedOnce, TypeOK, LoopIds, Messages
<1>2. /\ loops' \in [LoopIds -> Loop] /\ loops'[l].at = "spawned"
      /\ \A k \in LoopIds : k # l => loops'[k] = loops[k]
      /\ TimersAreDelays' /\ Timed' = Timed
  BY <1>1, SpawnKeeps DEF AsyncWrite
<1>3. OtherTypes'
  <2>1. calls' \in 0 .. MaxMessages
    BY BoundsAssumption DEF AsyncWrite, TypeOK
  <2>. QED
    BY <2>1 DEF TypeOK, OtherTypes, AsyncWrite
<1>4. LoopTypes'
  <2>1. message_queue_' \in Seq(Messages)
    BY <1>1, AppendProperties DEF AsyncWrite, TypeOK
  <2>. QED
    BY <1>2, <2>1 DEF LoopTypes, TypeOK, AsyncWrite
<1>5. SpawnedOnce'
  <2>1. 0 \in LoopIds /\ loops'[0] = loops[0]
    BY <1>1, <1>2, BoundsAssumption DEF LoopIds
  <2>2. \A k \in LoopIds : k > calls' => loops'[k].at = "none"
    <3>. SUFFICES ASSUME NEW k \in LoopIds, k > l PROVE loops'[k].at = "none"
      BY <1>1
    <3>1. k > calls /\ k # l
      BY <1>1 DEF LoopIds
    <3>. QED
      BY <1>2, <3>1 DEF SpawnedOnce
  <2>. QED
    BY <2>1, <2>2 DEF SpawnedOnce, AsyncWrite
<1>6. MessagesInOrder'
  <2>1. Timed \in Seq(Messages) /\ started \in Seq(Messages) /\ message_queue_ \in Seq(Messages)
    BY TimedTypes DEF TypeOK
  <2>2. started \o Timed \in Seq(Messages)
    BY <2>1, ConcatProperties
  <2>3. started \o Timed \o Append(message_queue_, l)
          = Append(started \o Timed \o message_queue_, l)
    BY <1>1, <2>1, <2>2, AppendMovesOut
  <2>4. started \o Timed \o message_queue_ = [m \in 1 .. calls |-> m]
    BY DEF MessagesInOrder, Timed
  <2>5. Append([m \in 1 .. calls |-> m], l) = [m \in 1 .. l |-> m]
    BY <1>1, CountingAppend
  <2>6. started' \o Timed' \o message_queue_' = [m \in 1 .. calls' |-> m]
    BY <1>1, <1>2, <2>3, <2>4, <2>5 DEF AsyncWrite
  <2>. QED
    BY <2>6 DEF MessagesInOrder, Timed
<1>7. QueueIsWatched'
  BY <1>1, <1>2 DEF QueueIsWatched, Alive
<1>. QED
  BY <1>2, <1>3, <1>4, <1>5, <1>6, <1>7, InvPartsNext DEF LoopParts

\* The rest of what the thread and the owner do leaves the loops alone, or emits.
LEMMA OwnerStep ==
  ASSUME Inv, ConnectFails \/ StartAsync \/ StopAsync \/ Destroy \/ Destroyed
  PROVE  Inv'
<1>1. OtherTypes'
  <2>1. reader' \in Reader
    BY DEF Inv, TypeOK, Reader, ReaderAfterEmit, ConnectFails, StartAsync, StopAsync, Destroy,
           Destroyed
  <2>. QED
    BY <2>1 DEF Inv, TypeOK, OtherTypes, ConnectFails, StartAsync, StopAsync, Destroy, Destroyed
<1>2. CASE StopAsync
  <2>1. LoopParts'
    BY <1>2, EmitKeeps DEF StopAsync
  <2>. QED
    BY <1>1, <2>1, InvPartsNext
<1>3. CASE ConnectFails \/ StartAsync \/ Destroy \/ Destroyed
  <2>1. LoopParts'
    BY <1>3, OthersKeep DEF ConnectFails, StartAsync, Destroy, Destroyed
  <2>. QED
    BY <1>1, <2>1, InvPartsNext
<1>. QED
  BY <1>2, <1>3

LEMMA StutterStep == Inv /\ UNCHANGED vars => Inv'
<1>. SUFFICES ASSUME Inv, UNCHANGED vars PROVE Inv'
  OBVIOUS
<1>1. OtherTypes'
  BY DEF Inv, TypeOK, OtherTypes, vars
<1>2. LoopParts'
  BY OthersKeep DEF vars
<1>. QED
  BY <1>1, <1>2, InvPartsNext

LEMMA NextInv == Inv /\ [Next]_vars => Inv'
<1>. SUFFICES ASSUME Inv, [Next]_vars PROVE Inv'
  OBVIOUS
<1>1. CASE \E l \in LoopIds : BeginWriteLoop(l) \/ StartAsyncWrite(l) \/ EndAsyncWrite(l)
  BY <1>1, BeginWriteLoopStep, StartAsyncWriteStep, EndAsyncWriteStep
<1>2. CASE BeginReadLoop \/ ReadMessage \/ ReadFails
  BY <1>2, ReaderStep
<1>3. CASE Connected
  BY <1>3, ConnectedStep
<1>4. CASE AsyncWrite
  BY <1>4, AsyncWriteStep
<1>5. CASE ConnectFails \/ StartAsync \/ StopAsync \/ Destroy \/ Destroyed
  BY <1>5, OwnerStep
<1>6. CASE UNCHANGED vars
  BY <1>6, StutterStep
<1>. QED
  BY <1>1, <1>2, <1>3, <1>4, <1>5, <1>6 DEF Next, Coroutines

-----------------------------------------------------------------------------
(* The theorems.                                                           *)

LEMMA Invariance == Spec => []Inv
<1>. QED
  BY InitInv, NextInv, PTL DEF Spec

\* Every variable of a session keeps its type; above all, a timer only ever fires for a
\* loop that has a message in its hand (web_socket.h:247 to 301).
THEOREM SessionTypes == Spec => []TypeOK
<1>1. Inv => TypeOK
  BY DEF Inv
<1>. QED
  BY <1>1, Invariance, PTL

\* However many write loops share the queue, and however they end, no message is lost,
\* doubled or overtaken between AsyncWrite and the stream, and none lies in the queue of a
\* ready session unattended (web_socket.h:82 to 99, 247 to 301).
THEOREM SessionKeepsMessages == Spec => []MessagesKept
<1>1. Inv => MessagesKept
  BY DEF Inv, MessagesKept
<1>. QED
  BY <1>1, Invariance, PTL

=============================================================================
