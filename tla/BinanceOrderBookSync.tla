------------------------ MODULE BinanceOrderBookSync ------------------------
(***************************************************************************)
(* The local copy of a Binance order book, as aoe/binance/order_book_sync/ *)
(* order_book_sync.h keeps it (class OrderBookSync, one version for spot   *)
(* and one for futures).                                                   *)
(*                                                                         *)
(* The exchange pushes diffs (ranges of updates) over a web socket.  On    *)
(* the first diff, and again whenever a diff is found missing, OrderBook-  *)
(* Sync clears the book, asks the REST endpoint for a snapshot, buffers    *)
(* the diffs that arrive meanwhile, and resumes from snapshot and buffer.  *)
(* All handlers of OrderBookSync run on strand_, one after the other; the  *)
(* order book runs the operations sent to it, in order, on its own strand. *)
(*                                                                         *)
(* An update is known by its id.  What a price level holds is the id of    *)
(* the last update that wrote it, 0 standing for an absent level.          *)
(***************************************************************************)
EXTENDS Integers, Sequences

CONSTANTS
  Levels,        \* the price levels of the book
  Market,        \* "spot" or "futures": which of the two classes is modelled
  IdSteps,       \* by how much an update id may exceed the previous one
  MaxId,         \* bound: the ids of the updates the exchange makes
  Reserve,       \* bound: the last ids, kept for a sync in need of a diff
  MaxLosses,     \* bound: how many diffs are lost on their way to the sync
  MaxFailures,   \* bound: how many REST requests of a started session fail
  MaxExternal    \* bound: how many snapshots come from outside the sync

ASSUME LevelsAssumption  == Levels # {}
ASSUME MarketAssumption  == Market \in {"spot", "futures"}
ASSUME IdStepsAssumption == IdSteps \subseteq Nat \ {0}
ASSUME BoundsAssumption  ==
  /\ MaxId \in Nat /\ Reserve \in Nat /\ MaxLosses \in Nat
  /\ MaxFailures \in Nat /\ MaxExternal \in Nat

VARIABLES
  (* The exchange and the network, outside the program.                    *)
  lastId,      \* the id of the last update
  market,      \* the exchange's own book
  unsent,      \* the updates that are in no diff yet: first id and levels
  sentId,      \* the final id of the last diff
  history,     \* for each diff sent, its final id and market at that moment
  wire,        \* diffs between the exchange and strand_, oldest first
  losses, failures, externals,        \* counters for the bounds
  (* RequestNewSnapshot and the snapshot listener.                         *)
  requests,    \* RequestNewSnapshot coroutines that have not finished
  snapshots,   \* snapshots passed to AcceptSnapshot, not yet processed
  (* OrderBookSync.                                                        *)
  last_diff_update_id_,
  last_snapshot_,
  need_make_snapshot_,
  need_process_current_snapshot_,
  snapshot_request_in_flight_,
  snapshot_was_processed_,
  diffs_,
  (* The order book and the queue of its strand.                           *)
  bookOps,     \* operations sent to the book that it has not executed
  book,        \* the levels of the book
  bookDiff     \* final id of the last diff in the book since it was cleared

trading  == <<lastId, market, unsent, sentId, history>>
exchange == <<trading, losses, failures, externals>>
flags    == <<need_make_snapshot_, need_process_current_snapshot_,
              snapshot_request_in_flight_, snapshot_was_processed_>>
sync     == <<last_diff_update_id_, last_snapshot_, flags, diffs_>>
vars     == <<exchange, wire, requests, snapshots, sync, bookOps, book, bookDiff>>

-----------------------------------------------------------------------------
(* Data.                                                                   *)

Contents == [Levels -> Nat]
Empty    == [l \in Levels |-> 0]

\* FirstUpdateId, FinalUpdateId, PreviousUpdateId and the levels of a diff; a
\* level the diff leaves alone is 0.
Diff == [first : Nat, final : Nat, previous : Nat, changes : Contents]

\* UpdateId, the levels, and whether TradingPair() is set (not kCount).
Snapshot == [id : Nat, levels : Contents, pairKnown : BOOLEAN]

NoSnapshot == [id |-> 0, levels |-> Empty, pairKnown |-> FALSE]

BookOp ==
  [kind : {"clear"}] \cup
  [kind : {"snapshot"}, changes : Contents, pairKnown : BOOLEAN] \cup
  [kind : {"diff"}, changes : Contents, first : Nat, final : Nat, previous : Nat]

ClearOp       == [kind |-> "clear"]
SnapshotOp(s) == [kind |-> "snapshot", changes |-> s.levels,
                  pairKnown |-> s.pairKnown]
DiffOp(d)     == [kind |-> "diff", changes |-> d.changes, first |-> d.first,
                  final |-> d.final, previous |-> d.previous]

\* The contents once changes are applied: a level not in changes stays.
Merge(contents, changes) ==
  [l \in Levels |-> IF changes[l] # 0 THEN changes[l] ELSE contents[l]]

-----------------------------------------------------------------------------
(* The decisions of OrderBookSync.                                         *)

\* Fault: the spot rule forgets the + 1 and is used for both markets.
PacketLostNoIncrement(d, last) == d.first # last

\* CheckPacketLost: the diff does not continue the diff that ended at last.
PacketLost(d, last) ==
  IF Market = "spot" THEN d.first # last + 1 ELSE d.previous # last

\* Fault: a diff that starts right after the snapshot counts as skippable.
StraddlesFromSnapshot(d, id) == d.first <= id /\ d.final >= id + 1

\* The diff covers the first update that the snapshot does not.
Straddles(d, id) == d.first <= id + 1 /\ d.final >= id + 1

\* ProcessSnapshot pops the first n diffs of ds.
Skips(ds, id, n) ==
  /\ \A i \in 1..n : ~Straddles(ds[i], id)
  /\ n < Len(ds) => Straddles(ds[n + 1], id)

\* The final id of the n-th diff of ds, or last when there is none.
FinalOf(ds, n, last) == IF n = 0 THEN last ELSE ds[n].final

\* Fault: the loop applies the whole buffer.
AppliesAll(ds, last, n) == n = Len(ds)

\* The loop of ProcessDiff applies the first n diffs of ds.
Applies(ds, last, n) ==
  /\ \A i \in 1..n : ~PacketLost(ds[i], FinalOf(ds, i - 1, last))
  /\ n < Len(ds) => PacketLost(ds[n + 1], FinalOf(ds, n, last))

-----------------------------------------------------------------------------
(* The exchange and the network.                                           *)

\* The sync cannot go on before another diff reaches it.
NeedsDiff ==
  /\ need_make_snapshot_ \/ need_process_current_snapshot_
  /\ unsent.first = 0 /\ wire = <<>>

Update ==
  /\ \E l \in Levels, step \in IdSteps :
       LET id == lastId + step
       IN  /\ id + Reserve <= MaxId \/ (id <= MaxId /\ NeedsDiff)
           /\ lastId' = id
           /\ market' = [market EXCEPT ![l] = id]
           /\ unsent' = [first   |-> IF unsent.first = 0 THEN id ELSE unsent.first,
                         changes |-> [unsent.changes EXCEPT ![l] = id]]
  /\ UNCHANGED <<sentId, history, losses, failures, externals, wire, requests,
                 snapshots, sync, bookOps, book, bookDiff>>

\* The exchange sends the updates it has not sent yet as one diff.
Publish ==
  /\ unsent.first # 0
  /\ wire' = Append(wire, [first    |-> unsent.first,
                           final    |-> lastId,
                           previous |-> sentId,
                           changes  |-> unsent.changes])
  /\ sentId' = lastId
  /\ history' = Append(history, [final |-> lastId, market |-> market])
  /\ unsent' = [first |-> 0, changes |-> Empty]
  /\ UNCHANGED <<lastId, market, losses, failures, externals, requests,
                 snapshots, sync, bookOps, book, bookDiff>>

\* The connection or the parser of the diff listener drops a diff.
LoseDiff ==
  /\ losses < MaxLosses
  /\ lastId + Reserve <= MaxId
  /\ wire # <<>>
  /\ wire' = Tail(wire)
  /\ losses' = losses + 1
  /\ UNCHANGED <<trading, failures, externals, requests, snapshots, sync,
                 bookOps, book, bookDiff>>

\* The exchange's answer to a REST request made now.
CurrentSnapshot(pairKnown) ==
  [id |-> lastId, levels |-> market, pairKnown |-> pairKnown]

-----------------------------------------------------------------------------
(* RequestNewSnapshot, on the thread pool.                                 *)

\* A RequestNewSnapshot coroutine is running.
RequestRuns == requests > 0

\* The futures class starts the session; its answer passes through the
\* listener, which sets the trading pair, to AcceptSnapshot.
AnswerRequest ==
  /\ Market = "futures"
  /\ RequestRuns
  /\ requests' = requests - 1
  /\ snapshots' = Append(snapshots, CurrentSnapshot(TRUE))
  /\ UNCHANGED <<exchange, wire, sync, bookOps, book, bookDiff>>

\* The session cannot connect or the answer cannot be parsed: the error is
\* logged and nothing tells OrderBookSync.
FailRequest ==
  /\ Market = "futures"
  /\ RequestRuns
  /\ failures < MaxFailures
  /\ failures' = failures + 1
  /\ requests' = requests - 1
  /\ UNCHANGED <<trading, losses, externals, wire, snapshots, sync,
                 bookOps, book, bookDiff>>

\* The spot class does not start the session: the coroutine only runs the
\* handler that enqueues the request, and ends.
ReturnUnstarted ==
  /\ Market = "spot"
  /\ RequestRuns
  /\ requests' = requests - 1
  /\ UNCHANGED <<exchange, wire, snapshots, sync, bookOps, book, bookDiff>>

\* A session and listener built outside OrderBookSync pass it a snapshot.
ExternalSnapshot ==
  /\ externals < MaxExternal
  /\ externals' = externals + 1
  /\ \E pairKnown \in BOOLEAN :
       snapshots' = Append(snapshots, CurrentSnapshot(pairKnown))
  /\ UNCHANGED <<trading, losses, failures, wire, requests, sync,
                 bookOps, book, bookDiff>>

-----------------------------------------------------------------------------
(* The handlers of OrderBookSync, on strand_.                              *)

\* Fault: the trading pair of a snapshot is not looked at.
VerifiedAlways(s) == TRUE

\* "verified snapshot": its trading pair has been set.
Verified(s) == s.pairKnown

ProcessSnapshot ==
  /\ snapshots # <<>>
  /\ LET s == Head(snapshots)
     IN  /\ last_snapshot_' = s
         /\ snapshot_request_in_flight_' = FALSE
         /\ \E n \in 0..Len(diffs_) :
              /\ Skips(diffs_, s.id, n)
              /\ last_diff_update_id_' = FinalOf(diffs_, n, last_diff_update_id_)
              /\ diffs_' = SubSeq(diffs_, n + 1, Len(diffs_))
         /\ need_process_current_snapshot_' = Verified(s)
         /\ need_make_snapshot_' = (need_make_snapshot_ \/ ~Verified(s))
  /\ snapshots' = Tail(snapshots)
  /\ UNCHANGED <<exchange, wire, requests, snapshot_was_processed_, bookOps,
                 book, bookDiff>>

\* ProcessDiff returns early: the book is live and the diff continues it.
ForwardDiff(d) ==
  /\ snapshot_was_processed_
  /\ ~PacketLost(d, last_diff_update_id_)
  /\ bookOps' = Append(bookOps, DiffOp(d))
  /\ last_diff_update_id_' = d.final
  /\ UNCHANGED <<requests, last_snapshot_, flags, diffs_>>

Buffers(d) ==
  ~(snapshot_was_processed_ /\ ~PacketLost(d, last_diff_update_id_))

\* Fault: the book is not cleared before a new snapshot.
SendNothing == UNCHANGED bookOps

\* order_book_.Clear()
SendClear == bookOps' = Append(bookOps, ClearOp)

SpawnRequest == requests' = requests + 1 /\ snapshot_request_in_flight_' = TRUE

RequestSnapshot(d) ==
  /\ Buffers(d)
  /\ need_make_snapshot_ /\ ~snapshot_request_in_flight_
  /\ diffs_' = Append(diffs_, d)
  /\ SendClear
  /\ SpawnRequest
  /\ need_make_snapshot_' = FALSE
  /\ UNCHANGED <<last_diff_update_id_, last_snapshot_,
                 need_process_current_snapshot_, snapshot_was_processed_>>

AwaitSnapshot(d) ==
  /\ Buffers(d)
  /\ snapshot_request_in_flight_
  /\ diffs_' = Append(diffs_, d)
  /\ UNCHANGED <<requests, last_diff_update_id_, last_snapshot_, flags, bookOps>>

\* What DrainBuffer sends to the book when it applies n diffs of ds.
Drained(ds, n) ==
  (IF need_process_current_snapshot_ THEN <<SnapshotOp(last_snapshot_)>> ELSE <<>>)
  \o [i \in 1..n |-> DiffOp(ds[i])]

\* Fault: a gap is noticed only at the front of the buffer.
BrokenAtFront(ds, n) == n = 0

\* Fault: a gap in the buffer does not call for a new snapshot.
NeverBroken(ds, n) == FALSE

\* The loop met a diff that does not continue the one before.
Broken(ds, n) == n < Len(ds)

\* Fault: a gap in the buffer leaves the book marked as live.
LiveDespiteGap(ds, n) ==
  snapshot_was_processed_ \/ need_process_current_snapshot_

LiveAfter(ds, n) ==
  /\ snapshot_was_processed_ \/ need_process_current_snapshot_
  /\ n = Len(ds)

\* The snapshot, if one waits, and the diffs that continue it go to the book;
\* at the first that does not the buffer is dropped and a new snapshot due.
DrainBuffer(d) ==
  /\ Buffers(d)
  /\ ~need_make_snapshot_ /\ ~snapshot_request_in_flight_
  /\ LET ds == Append(diffs_, d)
     IN  \E n \in 0..Len(ds) :
         /\ Applies(ds, last_diff_update_id_, n)
         /\ bookOps' = bookOps \o Drained(ds, n)
         /\ last_diff_update_id_' = FinalOf(ds, n, last_diff_update_id_)
         /\ diffs_' = <<>>
         /\ need_make_snapshot_' = Broken(ds, n)
         /\ snapshot_was_processed_' = LiveAfter(ds, n)
  /\ need_process_current_snapshot_' = FALSE
  /\ UNCHANGED <<requests, last_snapshot_, snapshot_request_in_flight_>>

ProcessDiff ==
  /\ wire # <<>>
  /\ LET d == Head(wire)
     IN  \/ ForwardDiff(d)
         \/ RequestSnapshot(d)
         \/ AwaitSnapshot(d)
         \/ DrainBuffer(d)
  /\ wire' = Tail(wire)
  /\ UNCHANGED <<exchange, snapshots, book, bookDiff>>

-----------------------------------------------------------------------------
(* The order book, on its strand.                                          *)

ExecuteBookOp ==
  /\ bookOps # <<>>
  /\ LET op == Head(bookOps)
     IN  \/ /\ op.kind = "clear"
            /\ book' = Empty
            /\ bookDiff' = 0
         \/ /\ op.kind = "snapshot"
            /\ book' = Merge(book, op.changes)
            /\ UNCHANGED bookDiff
         \/ /\ op.kind = "diff"
            /\ book' = Merge(book, op.changes)
            /\ bookDiff' = op.final
  /\ bookOps' = Tail(bookOps)
  /\ UNCHANGED <<exchange, wire, requests, snapshots, sync>>

-----------------------------------------------------------------------------
Init ==
  /\ lastId = 1
  /\ \E l \in Levels : market = [Empty EXCEPT ![l] = 1]
  /\ unsent = [first |-> 0, changes |-> Empty]
  /\ sentId = 1
  /\ history = <<>>
  /\ wire = <<>>
  /\ losses = 0 /\ failures = 0 /\ externals = 0
  /\ requests = 0
  /\ snapshots = <<>>
  /\ last_diff_update_id_ = 0
  /\ last_snapshot_ = NoSnapshot
  /\ need_make_snapshot_ = TRUE
  /\ need_process_current_snapshot_ = FALSE
  /\ snapshot_request_in_flight_ = FALSE
  /\ snapshot_was_processed_ = FALSE
  /\ diffs_ = <<>>
  /\ bookOps = <<>>
  /\ book = Empty
  /\ bookDiff = 0

Next ==
  \/ Update
  \/ Publish
  \/ LoseDiff
  \/ AnswerRequest
  \/ FailRequest
  \/ ReturnUnstarted
  \/ ExternalSnapshot
  \/ ProcessSnapshot
  \/ ProcessDiff
  \/ ExecuteBookOp

Spec == Init /\ [][Next]_vars

\* The strands and the thread pool run what is posted to them; the exchange
\* goes on trading and publishing, and answers.
Fairness ==
  /\ WF_vars(Update) /\ WF_vars(Publish)
  /\ WF_vars(AnswerRequest) /\ WF_vars(ReturnUnstarted)
  /\ WF_vars(ProcessSnapshot) /\ WF_vars(ProcessDiff) /\ WF_vars(ExecuteBookOp)

FairSpec == Spec /\ Fairness

-----------------------------------------------------------------------------
(* Properties.                                                             *)

\* The types of the variables; the counters stay within their bounds.
TypeOK ==
  /\ lastId \in Nat /\ sentId \in Nat
  /\ market \in Contents
  /\ unsent \in [first : Nat, changes : Contents]
  /\ history \in Seq([final : Nat, market : Contents])
  /\ wire \in Seq(Diff)
  /\ losses \in Nat /\ failures \in Nat /\ externals \in Nat
  /\ requests \in Nat
  /\ snapshots \in Seq(Snapshot)
  /\ last_diff_update_id_ \in Nat
  /\ last_snapshot_ \in Snapshot
  /\ need_make_snapshot_ \in BOOLEAN
  /\ need_process_current_snapshot_ \in BOOLEAN
  /\ snapshot_request_in_flight_ \in BOOLEAN
  /\ snapshot_was_processed_ \in BOOLEAN
  /\ diffs_ \in Seq(Diff)
  /\ bookOps \in Seq(BookOp)
  /\ book \in Contents
  /\ bookDiff \in Nat

\* The four flags of OrderBookSync, set and cleared in six places, always
\* stand for one phase: exactly one of them is set.
ExactlyOneFlag ==
  \E f \in 1..4 : \A g \in 1..4 : flags[g] <=> (f = g)

\* snapshot_request_in_flight_ bounds the requests: while it is clear nothing
\* is on its way from a request to ProcessSnapshot, while it is set at most
\* one thing is.
OneRequestAtATime ==
  requests + Len(snapshots) <= IF snapshot_request_in_flight_ THEN 1 ELSE 0

\* Whatever the strands interleave, the book executes a snapshot only when it
\* is empty: the Clear sent with the request reached it first and no diff
\* slipped in between (a snapshot adds levels, it does not remove any).
SnapshotMeetsEmptyBook ==
  bookOps # <<>> /\ Head(bookOps).kind = "snapshot" => book = Empty

Continues(op, id) ==
  IF Market = "spot" THEN op.first = id + 1 ELSE op.previous = id

\* Between a Clear and the next one, the diffs the book executes form an
\* unbroken chain, across the forwarding path, the buffer and the losses.
BookDiffsUnbroken ==
  bookOps # <<>> /\ Head(bookOps).kind = "diff" /\ bookDiff # 0
    => Continues(Head(bookOps), bookDiff)

\* The i-th operation may stand where it stands in the book's queue: a snapshot
\* follows a Clear, a diff continues the diff before it.
InPlace(i) ==
  /\ bookOps[i].kind = "snapshot" =>
       IF i = 1 THEN book = Empty /\ bookDiff = 0
                ELSE bookOps[i - 1].kind = "clear"
  /\ bookOps[i].kind = "diff" =>
       IF i = 1 THEN bookDiff = 0 \/ Continues(bookOps[i], bookDiff)
                ELSE bookOps[i - 1].kind = "diff" =>
                       Continues(bookOps[i], bookOps[i - 1].final)

\* Once its queue has been executed the book is empty.
EndsCleared ==
  IF bookOps = <<>> THEN book = Empty /\ bookDiff = 0
                    ELSE bookOps[Len(bookOps)].kind = "clear"

\* Once its queue has been executed the book is at last_diff_update_id_, or at
\* a snapshot.
EndsAtLastDiff ==
  IF bookOps = <<>> THEN bookDiff \in {0, last_diff_update_id_}
  ELSE bookOps[Len(bookOps)].kind = "diff" =>
         bookOps[Len(bookOps)].final = last_diff_update_id_

\* The queue of the book's strand agrees with the flags on the other strand:
\* while a snapshot is awaited or waits the book ends up cleared, and a live
\* book ends up where OrderBookSync believes it to be.
BookQueueConsistent ==
  /\ \A i \in 1..Len(bookOps) : InPlace(i)
  /\ snapshot_request_in_flight_ \/ need_process_current_snapshot_ => EndsCleared
  /\ snapshot_was_processed_ => EndsAtLastDiff

\* When the book is live and has executed everything sent to it, no level is
\* older than the last diff: the skipped part of the buffer, the snapshot and
\* the diffs after it together cover every update.
NoUpdateMissed ==
  snapshot_was_processed_ /\ bookOps = <<>> =>
    \A i \in 1..Len(history) :
      history[i].final = last_diff_update_id_ =>
        \A l \in Levels : book[l] >= history[i].market[l]

\* A snapshot whose trading pair was never set ("verified snapshot") does not
\* reach the book, even when it overtakes a verified one that still waits.
OnlyVerifiedSnapshots ==
  bookOps # <<>> /\ Head(bookOps).kind = "snapshot" => Head(bookOps).pairKnown

\* With no losses and every request answered, the book goes live, stays live
\* and ends up holding what the exchange holds.
Converges ==
  <>[](snapshot_was_processed_ /\ book = market)

\* A lost diff costs the book its live phase at most for a while: at the
\* latest with the diffs that follow the new snapshot it is live again, unless a
\* request for a snapshot failed, which is never repeated.
Recovers == <>[](snapshot_was_processed_ \/ failures > 0)

\* "skip earlier diffs as soon as possible": the diffs that ProcessSnapshot
\* drops from the buffer end at or before the snapshot.
OnlyEarlierDiffsSkipped ==
  [][snapshots # <<>> /\ snapshots' = Tail(snapshots) =>
       \A i \in 1..(Len(diffs_) - Len(diffs_')) :
         diffs_[i].final <= Head(snapshots).id]_vars

\* The flags and the request implement the phases of a synchroniser.
Phase ==
  IF snapshot_request_in_flight_ THEN "requested"
  ELSE IF need_process_current_snapshot_ THEN "ready"
  ELSE IF snapshot_was_processed_ THEN "live" ELSE "idle"

Phases == INSTANCE SnapshotPhases
            WITH phase <- Phase, open <- requests + Len(snapshots)

\* Every step of the sync is a step of SnapshotPhases or leaves it unchanged.
ImplementsPhases == Phases!Spec
=============================================================================
