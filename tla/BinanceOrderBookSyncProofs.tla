--------------------- MODULE BinanceOrderBookSyncProofs ---------------------
(***************************************************************************)
(* Theorems about OrderBookSync, for every set of levels, every stream of  *)
(* updates and every bound.                                                *)
(***************************************************************************)
EXTENDS BinanceOrderBookSync, SequenceTheorems, WellFoundedInduction, TLAPS

-----------------------------------------------------------------------------
(* Types of the operators.                                                 *)

\* Applying changes to contents gives contents.
LEMMA MergeType ==
  ASSUME NEW c \in Contents, NEW d \in Contents
  PROVE  Merge(c, d) \in Contents
BY DEF Contents, Merge

LEMMA EmptyType == Empty \in Contents
BY DEF Empty, Contents

LEMMA FinalOfType ==
  ASSUME NEW ds \in Seq(Diff), NEW n \in 0..Len(ds), NEW last \in Nat
  PROVE  FinalOf(ds, n, last) \in Nat
<1>1. CASE n = 0
  BY <1>1 DEF FinalOf
<1>2. CASE n # 0
  <2>1. ds[n] \in Diff
    BY <1>2, ElementOfSeq
  <2>. QED
    BY <1>2, <2>1 DEF FinalOf, Diff
<1>. QED BY <1>1, <1>2

\* What is left of a buffer after its first n diffs.
LEMMA RestType ==
  ASSUME NEW S, NEW ds \in Seq(S), NEW n \in 0..Len(ds)
  PROVE  SubSeq(ds, n + 1, Len(ds)) \in Seq(S)
<1>1. n + 1 \in 1..Len(ds) + 1 /\ Len(ds) \in Nat
  BY LenProperties
<1>2. Len(ds) \in n..Len(ds)
  BY <1>1
<1>. QED BY <1>1, <1>2, SubSeqProperties

LEMMA OpTypes ==
  /\ ClearOp \in BookOp
  /\ \A s \in Snapshot : SnapshotOp(s) \in BookOp
  /\ \A d \in Diff : DiffOp(d) \in BookOp
BY DEF ClearOp, SnapshotOp, DiffOp, BookOp, Snapshot, Diff

\* What DrainBuffer sends is a sequence of operations.
LEMMA DrainedType ==
  ASSUME NEW ds \in Seq(Diff), NEW n \in 0..Len(ds), last_snapshot_ \in Snapshot
  PROVE  Drained(ds, n) \in Seq(BookOp)
<1>1. SnapshotOp(last_snapshot_) \in BookOp
  BY OpTypes
<1>2. \A i \in 1..n : ds[i] \in Diff
  BY ElementOfSeq, LenProperties
<1>3. [i \in 1..n |-> DiffOp(ds[i])] \in Seq(BookOp)
  <2>1. n \in Nat
    BY LenProperties
  <2>2. \A i \in 1..n : DiffOp(ds[i]) \in BookOp
    BY <1>2, OpTypes
  <2>. QED BY <2>1, <2>2, IsASeq
<1>4. <<SnapshotOp(last_snapshot_)>> \in Seq(BookOp) /\ << >> \in Seq(BookOp)
  BY <1>1
<1>. QED BY <1>3, <1>4, ConcatProperties DEF Drained
-----------------------------------------------------------------------------
(* Type correctness.                                                       *)

LEMMA InitType == Init => TypeOK
<1>. SUFFICES ASSUME Init PROVE TypeOK
  OBVIOUS
<1>1. market \in Contents
  BY EmptyType DEF Init, Contents, Empty
<1>2. NoSnapshot \in Snapshot
  BY EmptyType DEF NoSnapshot, Snapshot
<1>3. unsent \in [first : Nat, changes : Contents]
  BY EmptyType DEF Init
<1>4. /\ history \in Seq([final : Nat, market : Contents])
      /\ wire \in Seq(Diff) /\ diffs_ \in Seq(Diff)
      /\ snapshots \in Seq(Snapshot) /\ bookOps \in Seq(BookOp)
  BY DEF Init
<1>. QED BY <1>1, <1>2, <1>3, <1>4, EmptyType DEF Init, TypeOK

\* The steps of the exchange and of the network.
LEMMA ExchangeTypes ==
  TypeOK /\ (Update \/ Publish \/ LoseDiff) => TypeOK'
<1>. SUFFICES ASSUME TypeOK, Update \/ Publish \/ LoseDiff PROVE TypeOK'
  OBVIOUS
<1>. USE DEF TypeOK
<1>1. CASE Update
  <2>1. PICK l \in Levels, step \in IdSteps :
          /\ lastId' = lastId + step
          /\ market' = [market EXCEPT ![l] = lastId + step]
          /\ unsent' = [first   |-> IF unsent.first = 0 THEN lastId + step
                                                       ELSE unsent.first,
                        changes |-> [unsent.changes EXCEPT ![l] = lastId + step]]
    BY <1>1 DEF Update
  <2>2. lastId' \in Nat
    BY <2>1, IdStepsAssumption
  <2>3. market' \in Contents
    BY <2>1, <2>2 DEF Contents
  <2>4. unsent' \in [first : Nat, changes : Contents]
    <3>1. [unsent.changes EXCEPT ![l] = lastId + step] \in Contents
      BY <2>1, <2>2 DEF Contents
    <3>. QED BY <2>1, <2>2, <3>1
  <2>. QED BY <1>1, <2>2, <2>3, <2>4 DEF Update, sync, flags
<1>2. CASE Publish
  <2>1. wire' \in Seq(Diff)
    <3>1. [first |-> unsent.first, final |-> lastId, previous |-> sentId,
           changes |-> unsent.changes] \in Diff
      BY DEF Diff
    <3>. QED BY <1>2, <3>1, AppendProperties DEF Publish
  <2>2. history' \in Seq([final : Nat, market : Contents])
    BY <1>2, AppendProperties DEF Publish
  <2>3. unsent' \in [first : Nat, changes : Contents]
    BY <1>2, EmptyType DEF Publish
  <2>. QED BY <1>2, <2>1, <2>2, <2>3 DEF Publish, sync, flags
<1>3. CASE LoseDiff
  <2>1. wire' \in Seq(Diff)
    BY <1>3, HeadTailProperties DEF LoseDiff
  <2>. QED BY <1>3, <2>1 DEF LoseDiff, trading, sync, flags
<1>. QED BY <1>1, <1>2, <1>3

LEMMA CurrentSnapshotType ==
  ASSUME TypeOK, NEW p \in BOOLEAN
  PROVE  CurrentSnapshot(p) \in Snapshot
BY DEF TypeOK, CurrentSnapshot, Snapshot

\* The steps of RequestNewSnapshot and of a snapshot from outside.
LEMMA RequestTypes ==
  /\ TypeOK
  /\ AnswerRequest \/ FailRequest \/ ReturnUnstarted \/ ExternalSnapshot
  => TypeOK'
<1>. SUFFICES ASSUME TypeOK,
                     AnswerRequest \/ FailRequest \/ ReturnUnstarted \/ ExternalSnapshot
              PROVE  TypeOK'
  OBVIOUS
<1>1. CASE AnswerRequest
  <2>1. snapshots' \in Seq(Snapshot)
    BY <1>1, CurrentSnapshotType, AppendProperties DEF AnswerRequest, TypeOK
  <2>2. UNCHANGED <<lastId, market, unsent, sentId, history, losses, failures, externals>>
    BY <1>1 DEF AnswerRequest, exchange, trading
  <2>3. UNCHANGED <<last_diff_update_id_, last_snapshot_, flags, diffs_>>
    BY <1>1 DEF AnswerRequest, sync
  <2>4. requests' \in Nat /\ UNCHANGED <<wire, bookOps, book, bookDiff>>
    BY <1>1 DEF TypeOK, AnswerRequest, RequestRuns
  <2>. QED BY <2>1, <2>2, <2>3, <2>4 DEF TypeOK, flags
<1>2. CASE FailRequest
  BY <1>2 DEF TypeOK, FailRequest, RequestRuns, trading, sync, flags
<1>3. CASE ReturnUnstarted
  BY <1>3 DEF TypeOK, ReturnUnstarted, RequestRuns, exchange, trading, sync, flags
<1>4. CASE ExternalSnapshot
  <2>1. snapshots' \in Seq(Snapshot)
    BY <1>4, CurrentSnapshotType, AppendProperties DEF ExternalSnapshot, TypeOK
  <2>. QED BY <1>4, <2>1 DEF TypeOK, ExternalSnapshot, trading, sync, flags
<1>. QED BY <1>1, <1>2, <1>3, <1>4

LEMMA ProcessSnapshotType == TypeOK /\ ProcessSnapshot => TypeOK'
<1>. SUFFICES ASSUME TypeOK, ProcessSnapshot PROVE TypeOK'
  OBVIOUS
<1>. DEFINE s == Head(snapshots)
<1>1. s \in Snapshot /\ snapshots' \in Seq(Snapshot)
  BY HeadTailProperties DEF ProcessSnapshot, TypeOK
<1>2. PICK n \in 0..Len(diffs_) :
        /\ last_diff_update_id_' = FinalOf(diffs_, n, last_diff_update_id_)
        /\ diffs_' = SubSeq(diffs_, n + 1, Len(diffs_))
  BY DEF ProcessSnapshot
<1>3. last_diff_update_id_' \in Nat
  BY <1>2, FinalOfType DEF TypeOK
<1>4. diffs_' \in Seq(Diff)
  BY <1>2, RestType DEF TypeOK
<1>5. Verified(s) \in BOOLEAN
  BY <1>1 DEF Verified, Snapshot
<1>. QED BY <1>1, <1>3, <1>4, <1>5 DEF ProcessSnapshot, TypeOK, exchange, trading

\* What the four alternatives of ProcessDiff change keeps its type.
LEMMA DiffTypes ==
  ASSUME TypeOK, NEW d \in Diff,
         ForwardDiff(d) \/ RequestSnapshot(d) \/ AwaitSnapshot(d) \/ DrainBuffer(d)
  PROVE  /\ requests' \in Nat
         /\ last_diff_update_id_' \in Nat
         /\ last_snapshot_' \in Snapshot
         /\ need_make_snapshot_' \in BOOLEAN
         /\ need_process_current_snapshot_' \in BOOLEAN
         /\ snapshot_request_in_flight_' \in BOOLEAN
         /\ snapshot_was_processed_' \in BOOLEAN
         /\ diffs_' \in Seq(Diff)
         /\ bookOps' \in Seq(BookOp)
<1>1. CASE ForwardDiff(d)
  <2>1. bookOps' \in Seq(BookOp)
    BY <1>1, OpTypes, AppendProperties DEF ForwardDiff, TypeOK
  <2>2. d.final \in Nat
    BY DEF Diff
  <2>. QED BY <1>1, <2>1, <2>2 DEF ForwardDiff, TypeOK, flags
<1>2. CASE RequestSnapshot(d)
  <2>1. bookOps' \in Seq(BookOp)
    BY <1>2, OpTypes, AppendProperties DEF RequestSnapshot, SendClear, TypeOK
  <2>2. diffs_' \in Seq(Diff)
    BY <1>2, AppendProperties DEF RequestSnapshot, TypeOK
  <2>3. snapshot_request_in_flight_' \in BOOLEAN /\ need_make_snapshot_' \in BOOLEAN
    BY <1>2 DEF RequestSnapshot, SpawnRequest
  <2>4. /\ need_process_current_snapshot_' \in BOOLEAN
        /\ snapshot_was_processed_' \in BOOLEAN
    BY <1>2 DEF RequestSnapshot, TypeOK
  <2>5. requests' \in Nat
    BY <1>2 DEF RequestSnapshot, SpawnRequest, TypeOK
  <2>. QED BY <1>2, <2>1, <2>2, <2>3, <2>4, <2>5 DEF RequestSnapshot, TypeOK
<1>3. CASE AwaitSnapshot(d)
  <2>1. diffs_' \in Seq(Diff)
    BY <1>3, AppendProperties DEF AwaitSnapshot, TypeOK
  <2>. QED BY <1>3, <2>1 DEF AwaitSnapshot, TypeOK, flags
<1>4. CASE DrainBuffer(d)
  <2>. DEFINE ds == Append(diffs_, d)
  <2>1. ds \in Seq(Diff)
    BY AppendProperties DEF TypeOK
  <2>2. PICK n \in 0..Len(ds) :
          /\ bookOps' = bookOps \o Drained(ds, n)
          /\ last_diff_update_id_' = FinalOf(ds, n, last_diff_update_id_)
          /\ diffs_' = <<>>
          /\ need_make_snapshot_' = Broken(ds, n)
          /\ snapshot_was_processed_' = LiveAfter(ds, n)
    BY <1>4 DEF DrainBuffer
  <2>3. last_diff_update_id_' \in Nat
    BY <2>1, <2>2, FinalOfType DEF TypeOK
  <2>4. bookOps' \in Seq(BookOp)
    <3>1. Drained(ds, n) \in Seq(BookOp)
      BY <2>1, DrainedType DEF TypeOK
    <3>. HIDE DEF ds
    <3>. QED BY <2>2, <3>1, ConcatProperties DEF TypeOK
  <2>5. need_make_snapshot_' \in BOOLEAN /\ snapshot_was_processed_' \in BOOLEAN
    BY <2>2 DEF Broken, LiveAfter
  <2>6. diffs_' \in Seq(Diff)
    BY <2>2
  <2>. QED BY <1>4, <2>3, <2>4, <2>5, <2>6 DEF DrainBuffer, TypeOK
<1>. QED BY <1>1, <1>2, <1>3, <1>4

LEMMA ProcessDiffType == TypeOK /\ ProcessDiff => TypeOK'
<1>. SUFFICES ASSUME TypeOK, ProcessDiff PROVE TypeOK'
  OBVIOUS
<1>1. Head(wire) \in Diff /\ wire' \in Seq(Diff)
  BY HeadTailProperties DEF ProcessDiff, TypeOK
<1>2. \/ ForwardDiff(Head(wire)) \/ RequestSnapshot(Head(wire))
      \/ AwaitSnapshot(Head(wire)) \/ DrainBuffer(Head(wire))
  BY DEF ProcessDiff
<1>3. UNCHANGED <<lastId, market, unsent, sentId, history, losses, failures,
                  externals, snapshots, book, bookDiff>>
  BY DEF ProcessDiff, exchange, trading
<1>. QED BY <1>1, <1>2, <1>3, DiffTypes DEF TypeOK

LEMMA ExecuteBookOpType == TypeOK /\ ExecuteBookOp => TypeOK'
<1>. SUFFICES ASSUME TypeOK, ExecuteBookOp PROVE TypeOK'
  OBVIOUS
<1>1. Head(bookOps) \in BookOp /\ bookOps' \in Seq(BookOp)
  BY HeadTailProperties DEF ExecuteBookOp, TypeOK
<1>2. book' \in Contents /\ bookDiff' \in Nat
  <2>1. CASE Head(bookOps).kind = "clear"
    BY <2>1, EmptyType DEF ExecuteBookOp, TypeOK
  <2>2. CASE Head(bookOps).kind = "snapshot"
    BY <2>2, <1>1, MergeType DEF ExecuteBookOp, TypeOK, BookOp
  <2>3. CASE Head(bookOps).kind = "diff"
    BY <2>3, <1>1, MergeType DEF ExecuteBookOp, TypeOK, BookOp
  <2>. QED BY <2>1, <2>2, <2>3 DEF ExecuteBookOp
<1>3. UNCHANGED <<lastId, market, unsent, sentId, history, losses, failures,
                  externals, wire, requests, snapshots>>
  BY DEF ExecuteBookOp, exchange, trading
<1>4. UNCHANGED <<last_diff_update_id_, last_snapshot_, flags, diffs_>>
  BY DEF ExecuteBookOp, sync
<1>. QED BY <1>1, <1>2, <1>3, <1>4 DEF TypeOK, flags

LEMMA NextType == TypeOK /\ [Next]_vars => TypeOK'
<1>1. CASE UNCHANGED vars
  <2>1. UNCHANGED <<lastId, market, unsent, sentId, history, losses, failures,
                    externals, wire, requests, snapshots, bookOps, book, bookDiff>>
    BY <1>1 DEF vars, exchange, trading
  <2>2. UNCHANGED <<last_diff_update_id_, last_snapshot_, flags, diffs_>>
    BY <1>1 DEF vars, sync
  <2>. QED BY <2>1, <2>2 DEF TypeOK, flags
<1>. QED BY <1>1, ExchangeTypes, RequestTypes, ProcessSnapshotType,
            ProcessDiffType, ExecuteBookOpType DEF Next

\* Every variable keeps its type, whatever the constants: the buffer holds
\* diffs, the book's queue holds operations, and no id or level becomes
\* negative.
THEOREM TypeCorrect == Spec => []TypeOK
BY InitType, NextType, PTL DEF Spec

-----------------------------------------------------------------------------
(* Flags and requests, when every snapshot is one that was asked for.      *)

\* The flags one by one.
OneFlag ==
  /\ need_make_snapshot_ \/ need_process_current_snapshot_
     \/ snapshot_request_in_flight_ \/ snapshot_was_processed_
  /\ need_make_snapshot_ =>
       ~need_process_current_snapshot_ /\ ~snapshot_request_in_flight_
         /\ ~snapshot_was_processed_
  /\ need_process_current_snapshot_ =>
       ~snapshot_request_in_flight_ /\ ~snapshot_was_processed_
  /\ snapshot_request_in_flight_ => ~snapshot_was_processed_

\* An answer to a request carries its trading pair.
AnswersVerified == \A i \in 1..Len(snapshots) : snapshots[i].pairKnown

\* The inductive invariant.
PhaseInv == TypeOK /\ OneFlag /\ OneRequestAtATime /\ AnswersVerified

LEMMA OneFlagIsExactlyOne == OneFlag <=> ExactlyOneFlag
<1>1. /\ flags[1] = need_make_snapshot_ /\ flags[2] = need_process_current_snapshot_
      /\ flags[3] = snapshot_request_in_flight_ /\ flags[4] = snapshot_was_processed_
  BY DEF flags
<1>2. 1..4 = {1, 2, 3, 4}
  OBVIOUS
<1>. QED BY <1>1, <1>2 DEF OneFlag, ExactlyOneFlag

LEMMA InitPhase == Init => PhaseInv
<1>. SUFFICES ASSUME Init PROVE PhaseInv
  OBVIOUS
<1>1. OneFlag
  BY DEF Init, OneFlag
<1>2. OneRequestAtATime /\ AnswersVerified
  BY DEF Init, OneRequestAtATime, AnswersVerified
<1>. QED BY <1>1, <1>2, InitType DEF PhaseInv

\* The steps that change no flag: an open request stays one, becomes an
\* answer, or ends.
LEMMA RequestPhase ==
  ASSUME PhaseInv, MaxExternal = 0,
         AnswerRequest \/ FailRequest \/ ReturnUnstarted \/ ExternalSnapshot
  PROVE  OneFlag' /\ OneRequestAtATime' /\ AnswersVerified'
<1>. USE DEF PhaseInv
<1>1. CASE AnswerRequest
  <2>1. UNCHANGED flags
    BY <1>1 DEF AnswerRequest, sync
  <2>2. /\ requests \in Nat /\ requests > 0 /\ requests' = requests - 1
        /\ snapshots \in Seq(Snapshot)
        /\ snapshots' = Append(snapshots, CurrentSnapshot(TRUE))
    BY <1>1 DEF AnswerRequest, RequestRuns, TypeOK
  <2>3. Len(snapshots') = Len(snapshots) + 1 /\ Len(snapshots) \in Nat
    BY <2>2, CurrentSnapshotType, AppendProperties
  <2>4. OneRequestAtATime'
    BY <2>1, <2>2, <2>3 DEF OneRequestAtATime, flags
  <2>5. AnswersVerified'
    <3>1. CurrentSnapshot(TRUE).pairKnown
      BY DEF CurrentSnapshot
    <3>2. CurrentSnapshot(TRUE) \in Snapshot
      BY CurrentSnapshotType
    <3>3. /\ \A i \in 1..Len(snapshots) : snapshots'[i] = snapshots[i]
          /\ snapshots'[Len(snapshots) + 1] = CurrentSnapshot(TRUE)
      <4>1. snapshots \in Seq(Snapshot) /\ snapshots' = Append(snapshots, CurrentSnapshot(TRUE))
        BY <2>2
      <4>2. \A t \in Snapshot :
              /\ \A i \in 1..Len(snapshots) : Append(snapshots, t)[i] = snapshots[i]
              /\ Append(snapshots, t)[Len(snapshots) + 1] = t
        BY <4>1, AppendProperties
      <4>. QED BY <3>2, <4>1, <4>2
    <3>4. SUFFICES ASSUME NEW i \in 1..Len(snapshots') PROVE snapshots'[i].pairKnown
      BY DEF AnswersVerified
    <3>5. CASE i = Len(snapshots) + 1
      BY <3>1, <3>3, <3>5
    <3>6. CASE i # Len(snapshots) + 1
      <4>1. i \in 1..Len(snapshots)
        BY <2>3, <3>6
      <4>. QED BY <3>3, <4>1 DEF AnswersVerified
    <3>. QED BY <3>5, <3>6
  <2>. QED BY <2>1, <2>4, <2>5 DEF OneFlag, flags
<1>2. CASE FailRequest \/ ReturnUnstarted
  <2>1. UNCHANGED flags /\ UNCHANGED snapshots
    BY <1>2 DEF FailRequest, ReturnUnstarted, sync
  <2>2. requests \in Nat /\ requests > 0 /\ requests' = requests - 1
    BY <1>2 DEF FailRequest, ReturnUnstarted, RequestRuns, TypeOK
  <2>3. OneRequestAtATime'
    BY <2>1, <2>2, LenProperties DEF OneRequestAtATime, flags, TypeOK
  <2>. QED BY <2>1, <2>3 DEF OneFlag, AnswersVerified, flags
<1>3. CASE ExternalSnapshot
  BY <1>3 DEF ExternalSnapshot, TypeOK
<1>. QED BY <1>1, <1>2, <1>3

\* A snapshot is processed only while a request is in flight, and is then the
\* only one there is.
LEMMA SnapshotPhase ==
  ASSUME PhaseInv, ProcessSnapshot
  PROVE  /\ snapshot_request_in_flight_ /\ requests = 0 /\ Len(snapshots) = 1
         /\ need_process_current_snapshot_' /\ ~snapshot_request_in_flight_'
         /\ ~need_make_snapshot_' /\ ~snapshot_was_processed_'
         /\ requests' = 0 /\ snapshots' = <<>>
<1>. USE DEF PhaseInv
<1>1. snapshots \in Seq(Snapshot) /\ snapshots # <<>> /\ requests \in Nat
  BY DEF ProcessSnapshot, TypeOK
<1>2. Len(snapshots) \in Nat /\ Len(snapshots) # 0
  BY <1>1, EmptySeq, LenProperties
<1>3. snapshot_request_in_flight_ /\ requests = 0 /\ Len(snapshots) = 1
  <2>1. requests + Len(snapshots) <= (IF snapshot_request_in_flight_ THEN 1 ELSE 0)
    BY DEF OneRequestAtATime
  <2>2. snapshot_request_in_flight_
    <3>1. SUFFICES ASSUME ~snapshot_request_in_flight_ PROVE FALSE
      OBVIOUS
    <3>2. requests + Len(snapshots) <= 0
      BY <2>1, <3>1
    <3>. QED BY <1>1, <1>2, <3>2
  <2>3. requests + Len(snapshots) <= 1
    BY <2>1, <2>2
  <2>4. requests = 0 /\ Len(snapshots) = 1
    BY <1>1, <1>2, <2>3
  <2>. QED BY <2>2, <2>4
<1>4. ~need_make_snapshot_ /\ ~snapshot_was_processed_
  BY <1>3 DEF OneFlag
<1>5. Head(snapshots).pairKnown
  BY <1>1, <1>3, HeadTailProperties DEF AnswersVerified
<1>6. /\ need_process_current_snapshot_' = Verified(Head(snapshots))
      /\ need_make_snapshot_' = (need_make_snapshot_ \/ ~Verified(Head(snapshots)))
      /\ snapshot_request_in_flight_' = FALSE
      /\ snapshot_was_processed_' = snapshot_was_processed_
      /\ requests' = requests
      /\ snapshots' = Tail(snapshots)
  BY DEF ProcessSnapshot
<1>7. snapshots' \in Seq(Snapshot) /\ Len(snapshots') = 0
  BY <1>1, <1>3, <1>6, HeadTailProperties
<1>8. snapshots' = <<>>
  BY <1>7, EmptySeq
<1>9. need_process_current_snapshot_' /\ ~need_make_snapshot_'
  BY <1>4, <1>5, <1>6 DEF Verified
<1>. QED BY <1>3, <1>4, <1>6, <1>8, <1>9

\* The alternatives of ProcessDiff, flag by flag.
LEMMA DiffPhase ==
  ASSUME PhaseInv, NEW d \in Diff,
         ForwardDiff(d) \/ RequestSnapshot(d) \/ AwaitSnapshot(d) \/ DrainBuffer(d)
  PROVE  /\ OneFlag'
         /\ \/ UNCHANGED <<flags, requests>>
            \/ /\ need_make_snapshot_ /\ requests + Len(snapshots) = 0
               /\ snapshot_request_in_flight_' /\ requests' = requests + 1
            \/ /\ ~need_make_snapshot_ /\ ~snapshot_request_in_flight_
               /\ ~need_process_current_snapshot_' /\ ~snapshot_request_in_flight_'
               /\ UNCHANGED requests
<1>. USE DEF PhaseInv
<1>1. CASE ForwardDiff(d)
  BY <1>1 DEF ForwardDiff, OneFlag, flags
<1>2. CASE RequestSnapshot(d)
  <2>1. /\ need_make_snapshot_ /\ ~snapshot_request_in_flight_
        /\ ~need_make_snapshot_' /\ snapshot_request_in_flight_'
        /\ need_process_current_snapshot_' = need_process_current_snapshot_
        /\ snapshot_was_processed_' = snapshot_was_processed_
    BY <1>2 DEF RequestSnapshot, SpawnRequest
  <2>2. OneFlag'
    BY <2>1 DEF OneFlag
  <2>3. requests' = requests + 1
    BY <1>2 DEF RequestSnapshot, SpawnRequest
  <2>4. requests + Len(snapshots) <= 0
    BY <2>1 DEF OneRequestAtATime
  <2>5. requests + Len(snapshots) = 0
    BY <2>4, LenProperties DEF TypeOK
  <2>. QED BY <2>1, <2>2, <2>3, <2>5
<1>3. CASE AwaitSnapshot(d)
  BY <1>3 DEF AwaitSnapshot, OneFlag, flags
<1>4. CASE DrainBuffer(d)
  <2>. DEFINE ds == Append(diffs_, d)
  <2>1. ~need_make_snapshot_ /\ ~snapshot_request_in_flight_
    BY <1>4 DEF DrainBuffer
  <2>2. ~need_process_current_snapshot_'
    BY <1>4 DEF DrainBuffer
  <2>3. ~snapshot_request_in_flight_'
    BY <1>4, <2>1 DEF DrainBuffer
  <2>4. PICK n \in 0..Len(ds) :
          /\ need_make_snapshot_' = Broken(ds, n)
          /\ snapshot_was_processed_' = LiveAfter(ds, n)
    BY <1>4 DEF DrainBuffer
  <2>5. need_process_current_snapshot_ \/ snapshot_was_processed_
    BY <2>1 DEF OneFlag
  <2>6. Len(ds) \in Nat
    BY AppendProperties, LenProperties DEF TypeOK
  <2>7. Broken(ds, n) <=> n # Len(ds)
    BY <2>6 DEF Broken
  <2>8. LiveAfter(ds, n) <=> n = Len(ds)
    BY <2>5 DEF LiveAfter
  <2>9. need_make_snapshot_' <=> ~snapshot_was_processed_'
    BY <2>4, <2>7, <2>8
  <2>10. OneFlag'
    BY <2>2, <2>3, <2>9 DEF OneFlag
  <2>11. UNCHANGED requests
    BY <1>4 DEF DrainBuffer
  <2>. QED BY <2>1, <2>2, <2>3, <2>10, <2>11
<1>. QED BY <1>1, <1>2, <1>3, <1>4

\* The steps that leave flags, requests and snapshots alone.
LEMMA OtherPhase ==
  ASSUME PhaseInv, UNCHANGED <<flags, requests, snapshots>>
  PROVE  OneFlag' /\ OneRequestAtATime' /\ AnswersVerified'
BY DEF PhaseInv, OneFlag, OneRequestAtATime, AnswersVerified, flags

LEMMA NextPhase ==
  ASSUME MaxExternal = 0, PhaseInv, [Next]_vars
  PROVE  PhaseInv'
<1>. SUFFICES OneFlag' /\ OneRequestAtATime' /\ AnswersVerified'
  BY NextType DEF PhaseInv
<1>1. CASE Update \/ Publish \/ LoseDiff \/ ExecuteBookOp \/ UNCHANGED vars
  <2>1. UNCHANGED <<flags, requests, snapshots>>
    BY <1>1 DEF Update, Publish, LoseDiff, ExecuteBookOp, vars, sync
  <2>. QED BY <2>1, OtherPhase
<1>2. CASE AnswerRequest \/ FailRequest \/ ReturnUnstarted \/ ExternalSnapshot
  BY <1>2, RequestPhase
<1>3. CASE ProcessSnapshot
  <2>1. OneFlag'
    BY <1>3, SnapshotPhase DEF OneFlag
  <2>2. OneRequestAtATime'
    BY <1>3, SnapshotPhase DEF OneRequestAtATime
  <2>3. AnswersVerified'
    BY <1>3, SnapshotPhase DEF AnswersVerified
  <2>. QED BY <2>1, <2>2, <2>3
<1>4. CASE ProcessDiff
  <2>. DEFINE d == Head(wire)
  <2>1. d \in Diff
    BY <1>4, HeadTailProperties DEF ProcessDiff, PhaseInv, TypeOK
  <2>2. ForwardDiff(d) \/ RequestSnapshot(d) \/ AwaitSnapshot(d) \/ DrainBuffer(d)
    BY <1>4 DEF ProcessDiff
  <2>3. UNCHANGED snapshots
    BY <1>4 DEF ProcessDiff
  <2>. HIDE DEF d
  <2>4. OneFlag'
    BY <2>1, <2>2, DiffPhase
  <2>5. requests' + Len(snapshots') <= IF snapshot_request_in_flight_' THEN 1 ELSE 0
    <3>1. CASE UNCHANGED <<flags, requests>>
      BY <2>3, <3>1 DEF PhaseInv, OneRequestAtATime, flags
    <3>2. CASE /\ requests + Len(snapshots) = 0
               /\ snapshot_request_in_flight_' /\ requests' = requests + 1
      <4>1. requests' + Len(snapshots') <= 1
        BY <2>3, <3>2, LenProperties DEF PhaseInv, TypeOK
      <4>. QED BY <3>2, <4>1
    <3>3. CASE /\ ~snapshot_request_in_flight_ /\ ~snapshot_request_in_flight_'
               /\ UNCHANGED requests
      <4>1. requests + Len(snapshots) <= 0
        BY <3>3 DEF PhaseInv, OneRequestAtATime
      <4>. QED BY <2>3, <3>3, <4>1
    <3>. QED BY <2>1, <2>2, <3>1, <3>2, <3>3, DiffPhase
  <2>6. AnswersVerified'
    BY <2>3 DEF PhaseInv, AnswersVerified
  <2>. QED BY <2>4, <2>5, <2>6 DEF OneRequestAtATime
<1>. QED BY <1>1, <1>2, <1>3, <1>4 DEF Next

\* When the only snapshots are those the class asked for (it is used without
\* a session of its own outside), its four flags always stand for one phase
\* and at most one request is open.
THEOREM PhasesExclusive ==
  ASSUME MaxExternal = 0
  PROVE  Spec => [](ExactlyOneFlag /\ OneRequestAtATime)
<1>1. Init => PhaseInv
  BY InitPhase
<1>2. PhaseInv /\ [Next]_vars => PhaseInv'
  BY NextPhase
<1>3. PhaseInv => ExactlyOneFlag /\ OneRequestAtATime
  BY OneFlagIsExactlyOne DEF PhaseInv
<1>. QED BY <1>1, <1>2, <1>3, PTL DEF Spec

-----------------------------------------------------------------------------
(* Refinement of SnapshotPhases.                                           *)

\* Phase read back as flags.
LEMMA PhaseMeaning ==
  ASSUME OneFlag
  PROVE  /\ Phase = "requested" <=> snapshot_request_in_flight_
         /\ Phase = "ready" <=> need_process_current_snapshot_
         /\ Phase = "live" <=> snapshot_was_processed_
         /\ Phase = "idle" <=> need_make_snapshot_
BY DEF OneFlag, Phase

LEMMA StutterPhase ==
  ASSUME UNCHANGED <<flags, requests, snapshots>>
  PROVE  UNCHANGED Phases!vars
BY DEF Phases!vars, Phase, flags

LEMMA StepImplementsPhases ==
  ASSUME MaxExternal = 0, PhaseInv, [Next]_vars
  PROVE  [Phases!Next]_(Phases!vars)
<1>0. PhaseInv' /\ OneFlag /\ OneFlag' /\ requests \in Nat /\ Len(snapshots) \in Nat
  BY NextPhase, LenProperties DEF PhaseInv, TypeOK
<1>. DEFINE open == requests + Len(snapshots)
<1>1. CASE Update \/ Publish \/ LoseDiff \/ ExecuteBookOp \/ UNCHANGED vars
  <2>1. UNCHANGED <<flags, requests, snapshots>>
    BY <1>1 DEF Update, Publish, LoseDiff, ExecuteBookOp, vars, sync
  <2>. QED BY <2>1, StutterPhase
<1>2. CASE AnswerRequest
  <2>1. UNCHANGED Phase
    BY <1>2 DEF AnswerRequest, sync, flags, Phase
  <2>2. /\ snapshots \in Seq(Snapshot) /\ requests' = requests - 1
        /\ snapshots' = Append(snapshots, CurrentSnapshot(TRUE))
    BY <1>2 DEF AnswerRequest, PhaseInv, TypeOK
  <2>3. CurrentSnapshot(TRUE) \in Snapshot
    BY CurrentSnapshotType DEF PhaseInv
  <2>4. Len(snapshots') = Len(snapshots) + 1
    BY <2>2, <2>3, AppendProperties
  <2>5. open' = open
    BY <1>0, <2>2, <2>4
  <2>. QED BY <2>1, <2>5 DEF Phases!vars
<1>3. CASE FailRequest \/ ReturnUnstarted
  <2>1. UNCHANGED <<flags, snapshots>> /\ requests > 0 /\ requests' = requests - 1
    BY <1>3 DEF FailRequest, ReturnUnstarted, RequestRuns, sync
  <2>2. open > 0
    BY <1>0, <2>1
  <2>3. snapshot_request_in_flight_ /\ open <= 1
    <3>1. open <= IF snapshot_request_in_flight_ THEN 1 ELSE 0
      BY DEF PhaseInv, OneRequestAtATime
    <3>2. ASSUME ~snapshot_request_in_flight_ PROVE FALSE
      <4>1. open <= 0
        BY <3>1, <3>2
      <4>. QED BY <1>0, <2>2, <4>1
    <3>. QED BY <3>1, <3>2
  <2>4. Phase = "requested" /\ UNCHANGED Phase
    BY <1>0, <2>1, <2>3, PhaseMeaning DEF Phase, flags
  <2>5. open = 1 /\ open' = 0
    BY <1>0, <2>1, <2>2, <2>3
  <2>. QED BY <2>4, <2>5 DEF Phases!Next, Phases!Fail
<1>4. CASE ExternalSnapshot
  BY <1>4 DEF ExternalSnapshot, PhaseInv, TypeOK
<1>5. CASE ProcessSnapshot
  <2>1. Phase = "requested" /\ Phase' = "ready"
    BY <1>0, <1>5, SnapshotPhase DEF Phase
  <2>2. open = 1 /\ open' = 0
    BY <1>5, SnapshotPhase
  <2>. QED BY <2>1, <2>2 DEF Phases!Next, Phases!Answer
<1>6. CASE ProcessDiff
  <2>. DEFINE d == Head(wire)
  <2>1. d \in Diff
    BY <1>6, HeadTailProperties DEF ProcessDiff, PhaseInv, TypeOK
  <2>2. ForwardDiff(d) \/ RequestSnapshot(d) \/ AwaitSnapshot(d) \/ DrainBuffer(d)
    BY <1>6 DEF ProcessDiff
  <2>3. UNCHANGED snapshots
    BY <1>6 DEF ProcessDiff
  <2>. HIDE DEF d
  <2>4. CASE UNCHANGED <<flags, requests>>
    BY <2>3, <2>4, StutterPhase
  <2>5. CASE /\ need_make_snapshot_ /\ requests + Len(snapshots) = 0
             /\ snapshot_request_in_flight_' /\ requests' = requests + 1
    <3>1. Phase = "idle"
      BY <1>0, <2>5 DEF OneFlag, Phase
    <3>2. Phase' = "requested"
      BY <2>5 DEF Phase
    <3>3. open = 0 /\ open' = 1
      BY <1>0, <2>3, <2>5
    <3>. QED BY <3>1, <3>2, <3>3 DEF Phases!Next, Phases!Request
  <2>6. CASE /\ ~need_make_snapshot_ /\ ~snapshot_request_in_flight_
             /\ ~need_process_current_snapshot_' /\ ~snapshot_request_in_flight_'
             /\ UNCHANGED requests
    <3>1. Phase \in {"ready", "live"}
      BY <1>0, <2>6 DEF OneFlag, Phase
    <3>2. Phase' \in {"live", "idle"}
      BY <2>6 DEF Phase
    <3>3. open' = open
      BY <2>3, <2>6
    <3>. QED BY <3>1, <3>2, <3>3
         DEF Phases!Next, Phases!Resume, Phases!Gap, Phases!vars
  <2>. QED BY <2>1, <2>2, <2>4, <2>5, <2>6, DiffPhase
<1>. QED BY <1>1, <1>2, <1>3, <1>4, <1>5, <1>6 DEF Next

\* The class with its request and listener implements SnapshotPhases: a
\* snapshot is asked for only when the book is unusable and none is on its way,
\* and the book goes live only from a snapshot that was asked for.
THEOREM PhasesRefined ==
  ASSUME MaxExternal = 0
  PROVE  Spec => ImplementsPhases
<1>1. Init => PhaseInv /\ Phases!Init
  <2>1. ASSUME Init PROVE Phases!Init
    BY <2>1 DEF Init, Phases!Init, Phase
  <2>. QED BY <2>1, InitPhase
<1>2. PhaseInv /\ [Next]_vars => PhaseInv'
  BY NextPhase
<1>3. PhaseInv /\ [Next]_vars => [Phases!Next]_(Phases!vars)
  BY StepImplementsPhases
<1>. QED BY <1>1, <1>2, <1>3, PTL DEF Spec, ImplementsPhases, Phases!Spec

-----------------------------------------------------------------------------
(* What reaches the book, and in which order.                              *)

\* The inductive invariant.
QueueInv == PhaseInv /\ BookQueueConsistent

LEMMA OpKinds ==
  /\ ClearOp.kind = "clear"
  /\ \A s \in Snapshot : SnapshotOp(s).kind = "snapshot"
  /\ \A d \in Diff : DiffOp(d).kind = "diff" /\ DiffOp(d).final = d.final
BY DEF ClearOp, SnapshotOp, DiffOp

\* CheckPacketLost, asked of a diff on its way to the book.
LEMMA ContinuesMeansNotLost ==
  ASSUME NEW d \in Diff, NEW id \in Nat
  PROVE  Continues(DiffOp(d), id) <=> ~PacketLost(d, id)
BY DEF Continues, PacketLost, DiffOp

\* Operations that keep their place in the queue stay in place.
LEMMA KeptInPlace ==
  ASSUME NEW k \in Nat, \A i \in 1..k : InPlace(i),
         \A i \in 1..k : bookOps'[i] = bookOps[i],
         UNCHANGED <<book, bookDiff>>
  PROVE  \A i \in 1..k : InPlace(i)'
<1>1. SUFFICES ASSUME NEW i \in 1..k PROVE InPlace(i)'
  OBVIOUS
<1>2. InPlace(i) /\ bookOps'[i] = bookOps[i]
  OBVIOUS
<1>3. i = 1 \/ (i # 1 /\ i - 1 \in 1..k)
  OBVIOUS
<1>. QED BY <1>2, <1>3 DEF InPlace, Continues, Empty

\* The drained operations, one by one.
LEMMA DrainedElements ==
  ASSUME NEW ds \in Seq(Diff), NEW n \in 0..Len(ds), last_snapshot_ \in Snapshot
  PROVE  /\ need_process_current_snapshot_ =>
              /\ Len(Drained(ds, n)) = n + 1
              /\ Drained(ds, n)[1] = SnapshotOp(last_snapshot_)
              /\ \A j \in 1..n : Drained(ds, n)[j + 1] = DiffOp(ds[j])
         /\ ~need_process_current_snapshot_ =>
              /\ Len(Drained(ds, n)) = n
              /\ \A j \in 1..n : Drained(ds, n)[j] = DiffOp(ds[j])
<1>. DEFINE applied == [i \in 1..n |-> DiffOp(ds[i])]
<1>1. n \in Nat
  BY LenProperties
<1>2. \A i \in 1..n : DiffOp(ds[i]) \in BookOp
  BY ElementOfSeq, LenProperties, OpTypes
<1>3. applied \in Seq(BookOp) /\ Len(applied) = n
  BY <1>1, <1>2, IsASeq
<1>4. SnapshotOp(last_snapshot_) \in BookOp
  BY OpTypes
<1>5. CASE need_process_current_snapshot_
  <2>. DEFINE one == <<SnapshotOp(last_snapshot_)>>
  <2>1. one \in Seq(BookOp) /\ Len(one) = 1 /\ one[1] = SnapshotOp(last_snapshot_)
    BY <1>4
  <2>2. Drained(ds, n) = one \o applied
    BY <1>5 DEF Drained
  <2>3. /\ Len(one \o applied) = Len(one) + Len(applied)
        /\ \A j \in 1..(Len(one) + Len(applied)) : (one \o applied)[j] =
             IF j <= Len(one) THEN one[j] ELSE applied[j - Len(one)]
    BY <1>3, <2>1, ConcatProperties
  <2>4. \A j \in 1..n : applied[j] = DiffOp(ds[j])
    OBVIOUS
  <2>. HIDE DEF one, applied
  <2>. QED BY <1>1, <1>3, <1>5, <2>1, <2>2, <2>3, <2>4
<1>6. CASE ~need_process_current_snapshot_
  <2>1. Drained(ds, n) = <<>> \o applied
    BY <1>6 DEF Drained
  <2>2. Drained(ds, n) = applied
    BY <1>3, <2>1, ConcatEmptySeq
  <2>. QED BY <1>3, <1>6, <2>2
<1>. QED BY <1>5, <1>6

\* Appending one operation: only its own place is at stake.
LEMMA AppendInPlace ==
  ASSUME QueueInv, NEW op \in BookOp, bookOps' = Append(bookOps, op),
         UNCHANGED <<book, bookDiff>>,
         NEW CONSTANT k \in Nat, k = Len(bookOps), InPlace(k + 1)'
  PROVE  \A i \in 1..Len(bookOps') : InPlace(i)'
<1>1. /\ Len(bookOps') = k + 1
      /\ \A i \in 1..k : bookOps'[i] = bookOps[i]
  BY AppendProperties, LenProperties DEF QueueInv, PhaseInv, TypeOK
<1>2. \A i \in 1..k : InPlace(i)'
  BY <1>1, KeptInPlace DEF QueueInv, BookQueueConsistent
<1>3. \A i \in 1..Len(bookOps') : i \in 1..k \/ i = k + 1
  BY <1>1
<1>. QED BY <1>2, <1>3

LEMMA ForwardDiffQueue ==
  ASSUME QueueInv, NEW d \in Diff, ForwardDiff(d), UNCHANGED <<book, bookDiff>>
  PROVE  BookQueueConsistent'
<1>. USE DEF QueueInv
<1>0. PICK k \in Nat : k = Len(bookOps)
  BY LenProperties DEF PhaseInv, TypeOK
<1>1. /\ bookOps \in Seq(BookOp) /\ last_diff_update_id_ \in Nat
      /\ DiffOp(d) \in BookOp /\ bookOps' = Append(bookOps, DiffOp(d))
  BY OpTypes, LenProperties DEF PhaseInv, TypeOK, ForwardDiff
<1>2. /\ bookOps' # <<>> /\ Len(bookOps') = k + 1 /\ bookOps'[k + 1] = DiffOp(d)
      /\ \A i \in 1..k : bookOps'[i] = bookOps[i]
  BY <1>0, <1>1, AppendProperties
<1>3. snapshot_was_processed_ /\ UNCHANGED flags
  BY DEF ForwardDiff
<1>4. EndsAtLastDiff
  BY <1>3 DEF BookQueueConsistent
<1>5. Continues(DiffOp(d), last_diff_update_id_)
  BY <1>1, ContinuesMeansNotLost DEF ForwardDiff
<1>6. InPlace(k + 1)'
  <2>1. DiffOp(d).kind = "diff"
    BY OpKinds
  <2>2. CASE k = 0
    <3>1. bookOps = <<>>
      BY <1>0, <1>1, <2>2, EmptySeq
    <3>2. bookDiff = 0 \/ bookDiff = last_diff_update_id_
      BY <1>4, <3>1 DEF EndsAtLastDiff
    <3>. QED BY <1>2, <1>5, <2>1, <2>2, <3>2 DEF InPlace, Continues
  <2>3. CASE k # 0
    <3>1. bookOps # <<>> /\ k \in 1..k
      BY <1>0, <1>1, <2>3, EmptySeq
    <3>2. bookOps[k].kind = "diff" => bookOps[k].final = last_diff_update_id_
      BY <1>0, <1>4, <3>1 DEF EndsAtLastDiff
    <3>3. bookOps'[(k + 1) - 1] = bookOps[k] /\ k + 1 # 1
      BY <1>1, <1>2, <2>3, <3>1
    <3>. QED BY <1>2, <1>5, <2>1, <3>2, <3>3 DEF InPlace, Continues
  <2>. QED BY <2>2, <2>3
<1>7. \A i \in 1..Len(bookOps') : InPlace(i)'
  BY <1>0, <1>1, <1>6, AppendInPlace
<1>8. EndsAtLastDiff'
  BY <1>2, OpKinds DEF EndsAtLastDiff, ForwardDiff
<1>9. ~snapshot_request_in_flight_' /\ ~need_process_current_snapshot_'
  BY <1>3 DEF PhaseInv, OneFlag, flags
<1>. QED BY <1>7, <1>8, <1>9 DEF BookQueueConsistent

LEMMA RequestSnapshotQueue ==
  ASSUME QueueInv, NEW d \in Diff, RequestSnapshot(d), UNCHANGED <<book, bookDiff>>
  PROVE  BookQueueConsistent'
<1>. USE DEF QueueInv
<1>0. PICK k \in Nat : k = Len(bookOps)
  BY LenProperties DEF PhaseInv, TypeOK
<1>1. /\ bookOps \in Seq(BookOp) /\ ClearOp \in BookOp
      /\ bookOps' = Append(bookOps, ClearOp)
  BY OpTypes DEF PhaseInv, TypeOK, RequestSnapshot, SendClear
<1>2. bookOps' # <<>> /\ Len(bookOps') = k + 1 /\ bookOps'[k + 1] = ClearOp
  BY <1>0, <1>1, AppendProperties
<1>3. InPlace(k + 1)'
  BY <1>2, OpKinds DEF InPlace
<1>4. \A i \in 1..Len(bookOps') : InPlace(i)'
  BY <1>0, <1>1, <1>3, AppendInPlace
<1>5. EndsCleared'
  BY <1>2, OpKinds DEF EndsCleared
<1>6. ~snapshot_was_processed_'
  BY DEF RequestSnapshot, PhaseInv, OneFlag
<1>. QED BY <1>4, <1>5, <1>6 DEF BookQueueConsistent

LEMMA ProcessSnapshotQueue ==
  ASSUME QueueInv, ProcessSnapshot
  PROVE  BookQueueConsistent'
<1>1. snapshot_request_in_flight_ /\ ~snapshot_was_processed_'
  BY SnapshotPhase DEF QueueInv
<1>2. UNCHANGED <<bookOps, book, bookDiff>>
  BY DEF ProcessSnapshot
<1>3. EndsCleared'
  BY <1>1, <1>2 DEF QueueInv, BookQueueConsistent, EndsCleared, Empty
<1>4. \A i \in 1..Len(bookOps') : InPlace(i)'
  BY <1>2 DEF QueueInv, BookQueueConsistent, InPlace, Empty, Continues
<1>. QED BY <1>1, <1>3, <1>4 DEF BookQueueConsistent

\* The steps that neither move an operation nor change a flag.
LEMMA OtherQueue ==
  ASSUME QueueInv, UNCHANGED <<flags, last_diff_update_id_, bookOps, book, bookDiff>>
  PROVE  BookQueueConsistent'
BY DEF QueueInv, BookQueueConsistent, InPlace, Continues, Empty, EndsCleared,
       EndsAtLastDiff, flags

\* Where the loop of ProcessDiff applies diffs, each continues the one before.
LEMMA AppliedContinue ==
  ASSUME NEW ds \in Seq(Diff), NEW last \in Nat, NEW n \in 0..Len(ds),
         Applies(ds, last, n)
  PROVE  /\ n > 0 => Continues(DiffOp(ds[1]), last)
         /\ \A j \in 2..n : Continues(DiffOp(ds[j]), ds[j - 1].final)
<1>1. Len(ds) \in Nat /\ \A j \in 1..Len(ds) : ds[j] \in Diff
  BY LenProperties, ElementOfSeq
<1>2. ASSUME NEW j \in 1..n PROVE Continues(DiffOp(ds[j]), FinalOf(ds, j - 1, last))
  <2>1. j \in 1..Len(ds) /\ j - 1 \in 0..Len(ds)
    BY <1>1
  <2>2. ds[j] \in Diff /\ FinalOf(ds, j - 1, last) \in Nat
    BY <1>1, <2>1, FinalOfType
  <2>3. ~PacketLost(ds[j], FinalOf(ds, j - 1, last))
    BY DEF Applies
  <2>. QED BY <2>2, <2>3, ContinuesMeansNotLost
<1>3. n > 0 => Continues(DiffOp(ds[1]), last)
  <2>1. FinalOf(ds, 1 - 1, last) = last
    BY DEF FinalOf
  <2>. QED BY <1>1, <1>2, <2>1
<1>4. ASSUME NEW j \in 2..n PROVE Continues(DiffOp(ds[j]), ds[j - 1].final)
  <2>1. j \in 1..n /\ FinalOf(ds, j - 1, last) = ds[j - 1].final
    BY <1>1 DEF FinalOf
  <2>. QED BY <1>2, <2>1
<1>. QED BY <1>3, <1>4

\* A concatenation holds the elements of both sequences, at their places.
LEMMA ConcatParts ==
  ASSUME NEW S, NEW s \in Seq(S), NEW t \in Seq(S)
  PROVE  /\ Len(s \o t) = Len(s) + Len(t)
         /\ \A i \in 1..Len(s) : (s \o t)[i] = s[i]
         /\ \A j \in 1..Len(t) : (s \o t)[Len(s) + j] = t[j]
         /\ s \o t \in Seq(S)
<1>1. Len(s) \in Nat /\ Len(t) \in Nat
  BY LenProperties
<1>2. ASSUME NEW i \in 1..Len(s) PROVE (s \o t)[i] = s[i]
  <2>1. i \in 1..Len(s) + Len(t) /\ i <= Len(s)
    BY <1>1
  <2>. QED BY <2>1, ConcatProperties
<1>3. ASSUME NEW j \in 1..Len(t) PROVE (s \o t)[Len(s) + j] = t[j]
  <2>1. /\ Len(s) + j \in 1..Len(s) + Len(t) /\ ~(Len(s) + j <= Len(s))
        /\ (Len(s) + j) - Len(s) = j
    BY <1>1
  <2>. QED BY <2>1, ConcatProperties
<1>. QED BY <1>2, <1>3, ConcatProperties

LEMMA DrainBufferQueue ==
  ASSUME QueueInv, NEW d \in Diff, DrainBuffer(d), UNCHANGED <<book, bookDiff>>
  PROVE  BookQueueConsistent'
<1>. USE DEF QueueInv
<1>1. PICK k \in Nat : k = Len(bookOps)
  BY LenProperties DEF PhaseInv, TypeOK
<1>2. PICK ds \in Seq(Diff) : ds = Append(diffs_, d)
  BY AppendProperties DEF PhaseInv, TypeOK
<1>3. PICK n \in 0..Len(ds) :
        /\ Applies(ds, last_diff_update_id_, n)
        /\ bookOps' = bookOps \o Drained(ds, n)
        /\ last_diff_update_id_' = FinalOf(ds, n, last_diff_update_id_)
        /\ snapshot_was_processed_' = LiveAfter(ds, n)
  BY <1>2 DEF DrainBuffer
<1>4. PICK ops \in Seq(BookOp) : ops = Drained(ds, n)
  BY DrainedType DEF PhaseInv, TypeOK
<1>5. n \in Nat /\ Len(ops) \in Nat /\ \A j \in 1..n : ds[j] \in Diff
  BY LenProperties, ElementOfSeq
<1>6. /\ Len(bookOps') = k + Len(ops)
      /\ \A i \in 1..k : bookOps'[i] = bookOps[i]
      /\ \A j \in 1..Len(ops) : bookOps'[k + j] = ops[j]
      /\ bookOps' \in Seq(BookOp)
  <2>1. bookOps \in Seq(BookOp) /\ bookOps' = bookOps \o ops
    BY <1>3, <1>4 DEF PhaseInv, TypeOK
  <2>. QED BY <1>1, <2>1, ConcatParts
<1>7. \A i \in 1..k : InPlace(i)'
  BY <1>1, <1>6, KeptInPlace DEF BookQueueConsistent
<1>8. /\ n > 0 => Continues(DiffOp(ds[1]), last_diff_update_id_)
      /\ \A j \in 2..n : Continues(DiffOp(ds[j]), ds[j - 1].final)
  BY <1>3, AppliedContinue DEF PhaseInv, TypeOK
<1>9. /\ SnapshotOp(last_snapshot_).kind = "snapshot"
      /\ \A j \in 1..n : DiffOp(ds[j]).kind = "diff" /\ DiffOp(ds[j]).final = ds[j].final
  BY <1>5, OpKinds DEF PhaseInv, TypeOK
<1>10. last_snapshot_ \in Snapshot
  BY DEF PhaseInv, TypeOK
<1>11. ~snapshot_request_in_flight_' /\ ~need_process_current_snapshot_'
  BY DEF DrainBuffer
<1>12. n > 0 => last_diff_update_id_' = ds[n].final
  BY <1>3, <1>5 DEF FinalOf
<1>13. n = 0 => last_diff_update_id_' = last_diff_update_id_
  BY <1>3 DEF FinalOf
<1>14. bookOps' = <<>> <=> k + Len(ops) = 0
  BY <1>1, <1>5, <1>6, EmptySeq
<1>15. CASE need_process_current_snapshot_
  <2>1. /\ Len(ops) = n + 1 /\ ops[1] = SnapshotOp(last_snapshot_)
        /\ \A j \in 1..n : ops[j + 1] = DiffOp(ds[j])
    BY <1>4, <1>10, <1>15, DrainedElements
  <2>2. EndsCleared
    BY <1>15 DEF BookQueueConsistent
  <2>3. bookOps'[k + 1] = SnapshotOp(last_snapshot_)
        /\ \A j \in 1..n : bookOps'[k + 1 + j] = DiffOp(ds[j])
    <3>1. bookOps'[k + 1] = SnapshotOp(last_snapshot_)
      BY <1>5, <1>6, <2>1
    <3>2. ASSUME NEW j \in 1..n PROVE bookOps'[k + 1 + j] = DiffOp(ds[j])
      <4>1. j + 1 \in 1..Len(ops) /\ k + (j + 1) = k + 1 + j
        BY <1>5, <2>1
      <4>2. bookOps'[k + (j + 1)] = ops[j + 1]
        BY <1>6, <4>1
      <4>. QED BY <2>1, <4>1, <4>2
    <3>. QED BY <3>1, <3>2
  <2>4. InPlace(k + 1)'
    <3>1. CASE k = 0
      <4>1. book = Empty /\ bookDiff = 0
        BY <1>1, <2>2, <3>1, EmptySeq DEF EndsCleared, PhaseInv, TypeOK
      <4>. QED BY <1>9, <2>3, <3>1, <4>1 DEF InPlace, Empty
    <3>2. CASE k # 0
      <4>1. bookOps[k].kind = "clear"
        BY <1>1, <2>2, <3>2, EmptySeq DEF EndsCleared, PhaseInv, TypeOK
      <4>2. bookOps'[(k + 1) - 1] = bookOps[k] /\ k + 1 # 1
        BY <1>6, <3>2
      <4>. QED BY <1>9, <2>3, <4>1, <4>2 DEF InPlace
    <3>. QED BY <3>1, <3>2
  <2>5. ASSUME NEW j \in 1..n PROVE InPlace(k + 1 + j)'
    <3>1. bookOps'[k + 1 + j] = DiffOp(ds[j]) /\ k + 1 + j # 1
      BY <1>5, <2>3
    <3>2. CASE j = 1
      <4>1. bookOps'[(k + 1 + j) - 1].kind = "snapshot"
        BY <1>9, <2>3, <3>2
      <4>. QED BY <1>9, <3>1, <4>1 DEF InPlace
    <3>3. CASE j # 1
      <4>1. j \in 2..n /\ j - 1 \in 1..n /\ (k + 1 + j) - 1 = k + 1 + (j - 1)
        BY <1>5, <3>3
      <4>2. bookOps'[(k + 1 + j) - 1].final = ds[j - 1].final
        BY <1>9, <2>3, <4>1
      <4>3. Continues(DiffOp(ds[j]), ds[j - 1].final)
        BY <1>8, <4>1
      <4>. QED BY <1>9, <3>1, <4>2, <4>3 DEF InPlace, Continues
    <3>. QED BY <3>2, <3>3
  <2>6. \A i \in 1..Len(bookOps') : InPlace(i)'
    <3>1. SUFFICES ASSUME NEW i \in 1..Len(bookOps') PROVE InPlace(i)'
      OBVIOUS
    <3>2. i \in 1..k \/ i = k + 1 \/ \E j \in 1..n : i = k + 1 + j
      <4>1. i \in 1..(k + 1 + n)
        BY <1>5, <1>6, <2>1
      <4>2. i > k + 1 => i - (k + 1) \in 1..n /\ i = k + 1 + (i - (k + 1))
        BY <1>5, <4>1
      <4>. QED BY <4>1, <4>2
    <3>. QED BY <1>7, <2>4, <2>5, <3>2
  <2>7. EndsAtLastDiff'
    <3>1. bookOps' # <<>> /\ Len(bookOps') = k + 1 + n
      BY <1>5, <1>6, <1>14, <2>1
    <3>2. CASE n = 0
      <4>1. Len(bookOps') = k + 1
        BY <3>1, <3>2
      <4>. QED BY <1>9, <2>3, <3>1, <4>1 DEF EndsAtLastDiff
    <3>3. CASE n # 0
      <4>1. n \in 1..n /\ n > 0
        BY <1>5, <3>3
      <4>. QED BY <1>9, <1>12, <2>3, <3>1, <4>1 DEF EndsAtLastDiff
    <3>. QED BY <3>2, <3>3
  <2>. QED BY <1>11, <2>6, <2>7 DEF BookQueueConsistent
<1>16. CASE ~need_process_current_snapshot_
  <2>1. Len(ops) = n /\ \A j \in 1..n : ops[j] = DiffOp(ds[j])
    BY <1>4, <1>10, <1>16, DrainedElements
  <2>2. snapshot_was_processed_
    BY <1>16 DEF DrainBuffer, PhaseInv, OneFlag
  <2>3. EndsAtLastDiff
    BY <2>2 DEF BookQueueConsistent
  <2>4. \A j \in 1..n : bookOps'[k + j] = DiffOp(ds[j])
    BY <1>6, <2>1
  <2>5. ASSUME NEW j \in 1..n PROVE InPlace(k + j)'
    <3>1. bookOps'[k + j] = DiffOp(ds[j]) /\ DiffOp(ds[j]).kind = "diff"
      BY <1>9, <2>4
    <3>2. CASE j = 1 /\ k = 0
      <4>1. bookDiff = 0 \/ bookDiff = last_diff_update_id_
        BY <1>1, <2>3, <3>2, EmptySeq DEF EndsAtLastDiff, PhaseInv, TypeOK
      <4>2. Continues(DiffOp(ds[1]), last_diff_update_id_) /\ k + j = 1
        BY <1>5, <1>8, <3>2
      <4>. QED BY <3>1, <3>2, <4>1, <4>2 DEF InPlace, Continues
    <3>3. CASE j = 1 /\ k # 0
      <4>1. bookOps[k].kind = "diff" => bookOps[k].final = last_diff_update_id_
        BY <1>1, <2>3, <3>3, EmptySeq DEF EndsAtLastDiff, PhaseInv, TypeOK
      <4>2. bookOps'[(k + j) - 1] = bookOps[k] /\ k + j # 1
        BY <1>6, <3>3
      <4>3. Continues(DiffOp(ds[j]), last_diff_update_id_)
        BY <1>5, <1>8, <3>3
      <4>. QED BY <3>1, <4>1, <4>2, <4>3 DEF InPlace, Continues
    <3>4. CASE j # 1
      <4>1. j \in 2..n /\ j - 1 \in 1..n /\ (k + j) - 1 = k + (j - 1) /\ k + j # 1
        BY <1>5, <3>4
      <4>2. bookOps'[(k + j) - 1].final = ds[j - 1].final
        BY <1>9, <2>4, <4>1
      <4>3. Continues(DiffOp(ds[j]), ds[j - 1].final)
        BY <1>8, <4>1
      <4>. QED BY <3>1, <4>1, <4>2, <4>3 DEF InPlace, Continues
    <3>. QED BY <3>2, <3>3, <3>4
  <2>6. \A i \in 1..Len(bookOps') : InPlace(i)'
    <3>1. SUFFICES ASSUME NEW i \in 1..Len(bookOps') PROVE InPlace(i)'
      OBVIOUS
    <3>2. i \in 1..k \/ \E j \in 1..n : i = k + j
      <4>1. i \in 1..(k + n)
        BY <1>5, <1>6, <2>1
      <4>2. i > k => i - k \in 1..n /\ i = k + (i - k)
        BY <1>5, <4>1
      <4>. QED BY <4>1, <4>2
    <3>. QED BY <1>7, <2>5, <3>2
  <2>7. EndsAtLastDiff'
    <3>1. Len(bookOps') = k + n
      BY <1>6, <2>1
    <3>2. CASE n = 0
      <4>1. UNCHANGED <<bookOps, last_diff_update_id_>>
        <5>1. ops = <<>>
          BY <2>1, <3>2, EmptySeq
        <5>2. bookOps' = bookOps
          BY <1>3, <1>4, <5>1, ConcatEmptySeq DEF PhaseInv, TypeOK
        <5>. QED BY <1>13, <3>2, <5>2
      <4>. QED BY <2>3, <4>1 DEF EndsAtLastDiff
    <3>3. CASE n # 0
      <4>1. n \in 1..n /\ n > 0 /\ bookOps' # <<>>
        BY <1>5, <1>14, <2>1, <3>3
      <4>. QED BY <1>9, <1>12, <2>4, <3>1, <4>1 DEF EndsAtLastDiff
    <3>. QED BY <3>2, <3>3
  <2>. QED BY <1>11, <2>6, <2>7 DEF BookQueueConsistent
<1>. QED BY <1>15, <1>16

LEMMA ExecuteQueue ==
  ASSUME QueueInv, ExecuteBookOp
  PROVE  BookQueueConsistent'
<1>. USE DEF QueueInv
<1>1. PICK k \in Nat : k = Len(bookOps)
  BY LenProperties DEF PhaseInv, TypeOK
<1>2. /\ bookOps \in Seq(BookOp) /\ bookOps # <<>> /\ bookOps' = Tail(bookOps)
      /\ Head(bookOps) = bookOps[1]
  BY HeadTailProperties DEF ExecuteBookOp, PhaseInv, TypeOK
<1>3. /\ k # 0 /\ bookOps' \in Seq(BookOp) /\ Len(bookOps') = k - 1
      /\ \A i \in 1..(k - 1) : bookOps'[i] = bookOps[i + 1]
  BY <1>1, <1>2, HeadTailProperties, EmptySeq
<1>4. UNCHANGED flags /\ UNCHANGED last_diff_update_id_
  BY DEF ExecuteBookOp, sync
<1>5. InPlace(1)
  BY <1>1, <1>3 DEF BookQueueConsistent
<1>6. /\ bookOps[1].kind = "clear" => book' = Empty /\ bookDiff' = 0
      /\ bookOps[1].kind = "diff" => bookDiff' = bookOps[1].final
      /\ bookOps[1].kind = "snapshot" => bookDiff' = 0
      /\ bookOps[1].kind \in {"clear", "snapshot", "diff"}
  BY <1>2, <1>5 DEF ExecuteBookOp, InPlace
<1>7. ASSUME NEW i \in 1..Len(bookOps') PROVE InPlace(i)'
  <2>1. i \in 1..(k - 1) /\ i + 1 \in 1..k
    BY <1>1, <1>3
  <2>2. InPlace(i + 1) /\ bookOps'[i] = bookOps[i + 1]
    BY <1>1, <1>3, <2>1 DEF BookQueueConsistent
  <2>3. CASE i = 1
    <3>1. bookOps'[1] = bookOps[2]
      BY <2>2, <2>3
    <3>2. /\ bookOps[2].kind = "snapshot" => bookOps[1].kind = "clear"
          /\ bookOps[2].kind = "diff" /\ bookOps[1].kind = "diff" =>
               Continues(bookOps[2], bookOps[1].final)
      BY <2>2, <2>3 DEF InPlace
    <3>. QED BY <1>6, <2>3, <3>1, <3>2 DEF InPlace, Continues, Empty
  <2>4. CASE i # 1
    <3>1. i - 1 \in 1..(k - 1) /\ (i - 1) + 1 = i /\ (i + 1) - 1 = i /\ i + 1 # 1
      BY <1>1, <2>1, <2>4
    <3>2. bookOps'[i - 1] = bookOps[i]
      BY <1>3, <3>1
    <3>. QED BY <2>2, <2>4, <3>1, <3>2 DEF InPlace, Continues
  <2>. QED BY <2>3, <2>4
<1>8. bookOps' = <<>> <=> k = 1
  BY <1>3, EmptySeq
<1>9. k # 1 => bookOps'[Len(bookOps')] = bookOps[k]
  <2>1. k # 1 => k - 1 \in 1..(k - 1) /\ (k - 1) + 1 = k
    BY <1>3
  <2>. QED BY <1>3, <2>1
<1>10. ASSUME EndsCleared PROVE EndsCleared'
  <2>1. bookOps[k].kind = "clear"
    BY <1>1, <1>2, <1>10 DEF EndsCleared
  <2>. QED BY <1>6, <1>8, <1>9, <2>1 DEF EndsCleared, Empty
<1>11. ASSUME EndsAtLastDiff PROVE EndsAtLastDiff'
  <2>1. bookOps[k].kind = "diff" => bookOps[k].final = last_diff_update_id_
    BY <1>1, <1>2, <1>11 DEF EndsAtLastDiff
  <2>2. CASE k = 1
    <3>1. bookDiff' \in {0, last_diff_update_id_}
      BY <1>6, <2>1, <2>2
    <3>. QED BY <1>4, <1>8, <2>2, <3>1 DEF EndsAtLastDiff
  <2>3. CASE k # 1
    BY <1>4, <1>8, <1>9, <2>1, <2>3 DEF EndsAtLastDiff
  <2>. QED BY <2>2, <2>3
<1>12. snapshot_request_in_flight_' \/ need_process_current_snapshot_' => EndsCleared'
  BY <1>4, <1>10 DEF BookQueueConsistent, flags
<1>13. snapshot_was_processed_' => EndsAtLastDiff'
  BY <1>4, <1>11 DEF BookQueueConsistent, flags
<1>. QED BY <1>7, <1>12, <1>13 DEF BookQueueConsistent

LEMMA NextQueue ==
  ASSUME MaxExternal = 0, QueueInv, [Next]_vars
  PROVE  QueueInv'
<1>. SUFFICES BookQueueConsistent'
  BY NextPhase DEF QueueInv
<1>1. CASE \/ Update \/ Publish \/ LoseDiff \/ AnswerRequest \/ FailRequest
           \/ ReturnUnstarted \/ ExternalSnapshot \/ UNCHANGED vars
  <2>1. UNCHANGED <<flags, last_diff_update_id_, bookOps, book, bookDiff>>
    BY <1>1 DEF Update, Publish, LoseDiff, AnswerRequest, FailRequest,
                ReturnUnstarted, ExternalSnapshot, vars, sync
  <2>. QED BY <2>1, OtherQueue
<1>2. CASE ProcessSnapshot
  BY <1>2, ProcessSnapshotQueue
<1>3. CASE ProcessDiff
  <2>. DEFINE d == Head(wire)
  <2>1. d \in Diff
    BY <1>3, HeadTailProperties DEF ProcessDiff, QueueInv, PhaseInv, TypeOK
  <2>2. ForwardDiff(d) \/ RequestSnapshot(d) \/ AwaitSnapshot(d) \/ DrainBuffer(d)
    BY <1>3 DEF ProcessDiff
  <2>3. UNCHANGED <<book, bookDiff>>
    BY <1>3 DEF ProcessDiff
  <2>. HIDE DEF d
  <2>4. CASE AwaitSnapshot(d)
    <3>1. UNCHANGED <<flags, last_diff_update_id_, bookOps, book, bookDiff>>
      BY <2>3, <2>4 DEF AwaitSnapshot
    <3>. QED BY <3>1, OtherQueue
  <2>. QED BY <2>1, <2>2, <2>3, <2>4, ForwardDiffQueue, RequestSnapshotQueue,
              DrainBufferQueue
<1>4. CASE ExecuteBookOp
  BY <1>4, ExecuteQueue
<1>. QED BY <1>1, <1>2, <1>3, <1>4 DEF Next

LEMMA InitQueue == Init => QueueInv
<1>. SUFFICES ASSUME Init PROVE QueueInv
  OBVIOUS
<1>1. /\ \A i \in 1..Len(bookOps) : InPlace(i)
      /\ ~snapshot_request_in_flight_ /\ ~need_process_current_snapshot_
      /\ ~snapshot_was_processed_
  BY DEF Init
<1>. QED BY <1>1, InitPhase DEF QueueInv, BookQueueConsistent

\* When the only snapshots are those the class asked for, the queue of the
\* book's strand agrees at every moment with the flags of OrderBookSync.
THEOREM QueueConsistent ==
  ASSUME MaxExternal = 0
  PROVE  Spec => []BookQueueConsistent
<1>1. Init => QueueInv
  BY InitQueue
<1>2. QueueInv /\ [Next]_vars => QueueInv'
  BY NextQueue
<1>3. QueueInv => BookQueueConsistent
  BY DEF QueueInv
<1>. QED BY <1>1, <1>2, <1>3, PTL DEF Spec

\* Whatever the two strands interleave, the book executes a snapshot only when
\* it is empty, and the diffs it executes between two Clears form one chain.
THEOREM BookIsSound ==
  ASSUME MaxExternal = 0
  PROVE  Spec => [](SnapshotMeetsEmptyBook /\ BookDiffsUnbroken)
<1>1. ASSUME QueueInv PROVE SnapshotMeetsEmptyBook /\ BookDiffsUnbroken
  <2>1. SUFFICES ASSUME bookOps # <<>>
                 PROVE  /\ Head(bookOps).kind = "snapshot" => book = Empty
                        /\ Head(bookOps).kind = "diff" /\ bookDiff # 0
                             => Continues(Head(bookOps), bookDiff)
    BY DEF SnapshotMeetsEmptyBook, BookDiffsUnbroken
  <2>2. bookOps \in Seq(BookOp) /\ Len(bookOps) \in Nat \ {0}
    BY <1>1, <2>1, EmptySeq DEF QueueInv, PhaseInv, TypeOK
  <2>3. InPlace(1) /\ Head(bookOps) = bookOps[1]
    BY <1>1, <2>1, <2>2, HeadTailProperties DEF QueueInv, BookQueueConsistent
  <2>. QED BY <2>3 DEF InPlace
<1>2. Init => QueueInv
  BY InitQueue
<1>3. QueueInv /\ [Next]_vars => QueueInv'
  BY NextQueue
<1>. QED BY <1>1, <1>2, <1>3, PTL DEF Spec

-----------------------------------------------------------------------------
(* Verified snapshots, wherever they come from.                            *)

\* What goes into the book, be it on its way or about to be sent, was verified.
VerifiedInv ==
  /\ TypeOK
  /\ need_process_current_snapshot_ => last_snapshot_.pairKnown
  /\ \A i \in 1..Len(bookOps) : bookOps[i].kind = "snapshot" => bookOps[i].pairKnown

\* Sending verified operations, after those that are on their way.
LEMMA SendVerified ==
  ASSUME VerifiedInv, NEW more \in Seq(BookOp), bookOps' = bookOps \o more,
         \A j \in 1..Len(more) : more[j].kind = "snapshot" => more[j].pairKnown
  PROVE  \A i \in 1..Len(bookOps') : bookOps'[i].kind = "snapshot" => bookOps'[i].pairKnown
<1>. SUFFICES ASSUME NEW i \in 1..Len(bookOps')
              PROVE  bookOps'[i].kind = "snapshot" => bookOps'[i].pairKnown
  OBVIOUS
<1>1. bookOps \in Seq(BookOp) /\ Len(bookOps) \in Nat /\ Len(more) \in Nat
  BY LenProperties DEF VerifiedInv, TypeOK
<1>2. /\ Len(bookOps') = Len(bookOps) + Len(more)
      /\ \A j \in 1..Len(bookOps) : bookOps'[j] = bookOps[j]
      /\ \A j \in 1..Len(more) : bookOps'[Len(bookOps) + j] = more[j]
  BY <1>1, ConcatParts
<1>3. CASE i <= Len(bookOps)
  BY <1>1, <1>2, <1>3 DEF VerifiedInv
<1>4. CASE i > Len(bookOps)
  <2>1. PICK j \in 1..Len(more) : i = Len(bookOps) + j
    <3>1. i - Len(bookOps) \in 1..Len(more) /\ i = Len(bookOps) + (i - Len(bookOps))
      BY <1>1, <1>2, <1>4
    <3>. QED BY <3>1
  <2>. QED BY <1>2, <2>1
<1>. QED BY <1>1, <1>3, <1>4

LEMMA DiffVerified ==
  ASSUME VerifiedInv, NEW d \in Diff,
         ForwardDiff(d) \/ RequestSnapshot(d) \/ AwaitSnapshot(d) \/ DrainBuffer(d)
  PROVE  /\ need_process_current_snapshot_' => last_snapshot_'.pairKnown
         /\ \A i \in 1..Len(bookOps') : bookOps'[i].kind = "snapshot" => bookOps'[i].pairKnown
<1>1. bookOps \in Seq(BookOp)
  BY DEF VerifiedInv, TypeOK
<1>2. CASE ForwardDiff(d)
  <2>1. bookOps' = bookOps \o <<DiffOp(d)>> /\ <<DiffOp(d)>> \in Seq(BookOp)
    BY <1>1, <1>2, OpTypes, AppendIsConcat DEF ForwardDiff
  <2>2. \A j \in 1..Len(<<DiffOp(d)>>) : <<DiffOp(d)>>[j].kind # "snapshot"
    BY OpKinds
  <2>. QED BY <1>2, <2>1, <2>2, SendVerified DEF ForwardDiff, flags, VerifiedInv
<1>3. CASE RequestSnapshot(d)
  <2>1. bookOps' = bookOps \o <<ClearOp>> /\ <<ClearOp>> \in Seq(BookOp)
    BY <1>1, <1>3, OpTypes, AppendIsConcat DEF RequestSnapshot, SendClear
  <2>2. \A j \in 1..Len(<<ClearOp>>) : <<ClearOp>>[j].kind # "snapshot"
    BY OpKinds
  <2>. QED BY <1>3, <2>1, <2>2, SendVerified DEF RequestSnapshot, VerifiedInv
<1>4. CASE AwaitSnapshot(d)
  BY <1>4 DEF AwaitSnapshot, flags, VerifiedInv
<1>5. CASE DrainBuffer(d)
  <2>1. PICK ds \in Seq(Diff) : ds = Append(diffs_, d)
    BY AppendProperties DEF VerifiedInv, TypeOK
  <2>2. PICK n \in 0..Len(ds) : bookOps' = bookOps \o Drained(ds, n)
    BY <1>5, <2>1 DEF DrainBuffer
  <2>3. n \in Nat /\ last_snapshot_ \in Snapshot /\ Drained(ds, n) \in Seq(BookOp)
    BY LenProperties, DrainedType DEF VerifiedInv, TypeOK
  <2>4. /\ SnapshotOp(last_snapshot_).pairKnown = last_snapshot_.pairKnown
        /\ \A j \in 1..n : DiffOp(ds[j]).kind # "snapshot"
    BY ElementOfSeq, LenProperties, OpKinds DEF SnapshotOp
  <2>5. ASSUME NEW j \in 1..Len(Drained(ds, n)), Drained(ds, n)[j].kind = "snapshot"
        PROVE  Drained(ds, n)[j].pairKnown
    <3>1. CASE need_process_current_snapshot_
      <4>1. CASE j = 1
        BY <2>3, <2>4, <3>1, <4>1, DrainedElements DEF VerifiedInv
      <4>2. CASE j # 1
        <5>1. j - 1 \in 1..n /\ (j - 1) + 1 = j
          BY <2>3, <3>1, <4>2, DrainedElements
        <5>2. Drained(ds, n)[j] = DiffOp(ds[j - 1])
          BY <2>3, <3>1, <5>1, DrainedElements
        <5>. QED BY <2>4, <2>5, <5>1, <5>2
      <4>. QED BY <4>1, <4>2
    <3>2. CASE ~need_process_current_snapshot_
      BY <2>3, <2>4, <2>5, <3>2, DrainedElements
    <3>. QED BY <3>1, <3>2
  <2>. QED BY <1>5, <2>2, <2>3, <2>5, SendVerified DEF DrainBuffer
<1>. QED BY <1>2, <1>3, <1>4, <1>5

LEMMA NextVerified == VerifiedInv /\ [Next]_vars => VerifiedInv'
<1>. SUFFICES ASSUME VerifiedInv, [Next]_vars PROVE VerifiedInv'
  OBVIOUS
<1>1. TypeOK'
  BY NextType DEF VerifiedInv
<1>2. CASE \/ Update \/ Publish \/ LoseDiff \/ AnswerRequest \/ FailRequest
           \/ ReturnUnstarted \/ ExternalSnapshot \/ UNCHANGED vars
  <2>1. UNCHANGED <<need_process_current_snapshot_, last_snapshot_, bookOps>>
    BY <1>2 DEF Update, Publish, LoseDiff, AnswerRequest, FailRequest,
                ReturnUnstarted, ExternalSnapshot, vars, sync, flags
  <2>. QED BY <1>1, <2>1 DEF VerifiedInv
<1>3. CASE ProcessSnapshot
  <2>1. /\ last_snapshot_' = Head(snapshots) /\ bookOps' = bookOps
        /\ need_process_current_snapshot_' = Verified(Head(snapshots))
    BY <1>3 DEF ProcessSnapshot
  <2>. QED BY <1>1, <2>1 DEF VerifiedInv, Verified
<1>4. CASE ProcessDiff
  <2>. DEFINE d == Head(wire)
  <2>1. d \in Diff
    BY <1>4, HeadTailProperties DEF ProcessDiff, VerifiedInv, TypeOK
  <2>2. ForwardDiff(d) \/ RequestSnapshot(d) \/ AwaitSnapshot(d) \/ DrainBuffer(d)
    BY <1>4 DEF ProcessDiff
  <2>. HIDE DEF d
  <2>. QED BY <1>1, <2>1, <2>2, DiffVerified DEF VerifiedInv
<1>5. CASE ExecuteBookOp
  <2>1. UNCHANGED <<need_process_current_snapshot_, last_snapshot_>>
    BY <1>5 DEF ExecuteBookOp, sync, flags
  <2>2. bookOps \in Seq(BookOp) /\ bookOps # <<>> /\ bookOps' = Tail(bookOps)
    BY <1>5 DEF ExecuteBookOp, VerifiedInv, TypeOK
  <2>3. /\ Len(bookOps) \in Nat /\ Len(bookOps') = Len(bookOps) - 1
        /\ \A i \in 1..Len(bookOps') : bookOps'[i] = bookOps[i + 1] /\ i + 1 \in 1..Len(bookOps)
    BY <2>2, HeadTailProperties, LenProperties, EmptySeq
  <2>. QED BY <1>1, <2>1, <2>3 DEF VerifiedInv
<1>. QED BY <1>2, <1>3, <1>4, <1>5 DEF Next

\* Whatever snapshots come from outside, and in whichever order: one that was not
\* verified does not reach the book.
THEOREM SnapshotsVerified == Spec => []OnlyVerifiedSnapshots
<1>1. Init => VerifiedInv
  <2>1. Init => /\ bookOps = <<>> /\ ~need_process_current_snapshot_
    BY DEF Init
  <2>. QED BY <2>1, InitType DEF VerifiedInv
<1>2. VerifiedInv => OnlyVerifiedSnapshots
  <2>. SUFFICES ASSUME VerifiedInv, bookOps # <<>>
                PROVE  Head(bookOps).kind = "snapshot" => Head(bookOps).pairKnown
    BY DEF OnlyVerifiedSnapshots
  <2>1. bookOps \in Seq(BookOp) /\ 1 \in 1..Len(bookOps) /\ Head(bookOps) = bookOps[1]
    BY EmptySeq, LenProperties, HeadTailProperties DEF VerifiedInv, TypeOK
  <2>. QED BY <2>1 DEF VerifiedInv
<1>. QED BY <1>1, <1>2, NextVerified, PTL DEF Spec
-----------------------------------------------------------------------------
(* The stream of diffs, as the values it is made of: history H, the diffs  *)
(* P that the sync has not applied yet, market k, the updates u that are   *)
(* in no diff, the last id s that was sent and the last id n of all.       *)

Histories == Seq([final : Nat, market : Contents])
Unsents   == [first : Nat, changes : Contents]

\* Where the i-th diff ended; before the first one, where the exchange began.
Final(H, i) == IF i = 0 THEN 1 ELSE H[i].final

\* How many diffs came before P.
Before(H, P) == Len(H) - Len(P)

Rises(H) == \A i, j \in 0..Len(H) : i < j => Final(H, i) < Final(H, j)

SentUpTo(H, u, s, n) ==
  s = Final(H, Len(H)) /\ IF u.first = 0 THEN n = s ELSE u.first = s + 1 /\ s < n

\* The updates in no diff are the newest of their levels.
Fresh(k, u, s, n) ==
  \A l \in Levels : k[l] <= n /\ (u.changes[l] # 0 => u.changes[l] = k[l] /\ s < k[l])

\* Levels hold ids that rise, and change only with an update of their own.
LevelsRise(H, k) ==
  \A i \in 1..Len(H), l \in Levels :
    /\ H[i].market[l] <= Final(H, i) /\ H[i].market[l] <= k[l]
    /\ k[l] <= Final(H, i) => k[l] <= H[i].market[l]
    /\ \A j \in i..Len(H) :
         H[j].market[l] <= Final(H, i) => H[j].market[l] <= H[i].market[l]

\* d is the i-th diff: it begins where the one before ended, and a level it writes gets what
\* the market held when it was sent.
IsDiff(d, H, i) ==
  /\ d.final = Final(H, i) /\ d.previous = Final(H, i - 1) /\ d.first = Final(H, i - 1) + 1
  /\ \A l \in Levels :
       d.changes[l] # 0 => d.changes[l] = H[i].market[l] /\ Final(H, i - 1) < d.changes[l]

\* P are the last diffs, without a gap.
Unbroken(H, P) ==
  /\ Len(P) <= Len(H)
  /\ \A i \in 1..Len(P) : IsDiff(P[i], H, Before(H, P) + i)

\* What a level holds at the e-th diff of P is older than P or written by P.
Written(H, P) ==
  \A e \in 1..Len(P), l \in Levels :
    \/ H[Before(H, P) + e].market[l] <= Final(H, Before(H, P))
    \/ \E j \in 1..e : P[j].changes[l] = H[Before(H, P) + e].market[l]

WrittenNow(H, P, k, u) ==
  \A l \in Levels :
    \/ k[l] <= Final(H, Before(H, P))
    \/ u.changes[l] = k[l]
    \/ \E j \in 1..Len(P) : P[j].changes[l] = k[l]

Stream(H, P, k, u, s, n) ==
  /\ H \in Histories /\ P \in Seq(Diff) /\ k \in Contents /\ u \in Unsents /\ s \in Nat /\ n \in Nat
  /\ Rises(H) /\ SentUpTo(H, u, s, n) /\ Fresh(k, u, s, n) /\ LevelsRise(H, k)
  /\ Unbroken(H, P) /\ Written(H, P) /\ WrittenNow(H, P, k, u)

LEMMA FinalTypes ==
  ASSUME NEW H \in Histories
  PROVE  /\ Len(H) \in Nat
         /\ \A i \in 0..Len(H) : Final(H, i) \in Nat
         /\ \A i \in 1..Len(H) : H[i].final = Final(H, i) /\ H[i].market \in Contents
         /\ \A i \in 1..Len(H), l \in Levels : H[i].market[l] \in Nat
<1>1. Len(H) \in Nat /\ \A i \in 1..Len(H) : H[i] \in [final : Nat, market : Contents]
  BY LenProperties, ElementOfSeq DEF Histories
<1>2. \A i \in 1..Len(H) : H[i].final \in Nat /\ H[i].market \in Contents
  BY <1>1
<1>3. ASSUME NEW i \in 0..Len(H) PROVE Final(H, i) \in Nat
  <2>1. i # 0 => i \in 1..Len(H)
    BY <1>1
  <2>. QED BY <1>2, <2>1 DEF Final
<1>4. \A i \in 1..Len(H) : H[i].final = Final(H, i)
  BY <1>1 DEF Final
<1>. QED BY <1>1, <1>2, <1>3, <1>4 DEF Contents

LEMMA DiffChanges ==
  ASSUME NEW P \in Seq(Diff)
  PROVE  /\ Len(P) \in Nat
         /\ \A i \in 1..Len(P) : P[i] \in Diff
         /\ \A i \in 1..Len(P), l \in Levels : P[i].changes[l] \in Nat
<1>1. Len(P) \in Nat /\ \A i \in 1..Len(P) : P[i] \in Diff
  BY LenProperties, ElementOfSeq
<1>. QED BY <1>1 DEF Diff, Contents

\* q is what is left of p after its first m elements.
IsRest(q, p, m) == Len(q) = Len(p) - m /\ \A i \in 1..Len(q) : q[i] = p[i + m]

\* The first m diffs leave P.
LEMMA StreamDrop ==
  ASSUME NEW H, NEW P, NEW k, NEW u, NEW s, NEW n, Stream(H, P, k, u, s, n),
         NEW m \in 0..Len(P), NEW Q \in Seq(Diff), IsRest(Q, P, m)
  PROVE  Stream(H, Q, k, u, s, n) /\ Before(H, Q) = Before(H, P) + m
<1>. USE DEF Stream, IsRest
<1>. DEFINE b == Before(H, P)
<1>1. /\ Len(P) \in Nat /\ m \in Nat /\ Len(H) \in Nat /\ Len(P) <= Len(H) /\ b \in 0..Len(H)
      /\ b + Len(P) = Len(H)
  BY FinalTypes, DiffChanges DEF Unbroken, Before
<1>2. Before(H, Q) = b + m /\ b + m \in 0..Len(H) /\ Len(Q) \in Nat /\ Len(Q) <= Len(H)
  BY <1>1 DEF Before
<1>. HIDE DEF b
<1>3. ASSUME NEW i \in 1..Len(Q) PROVE IsDiff(Q[i], H, Before(H, Q) + i)
  <2>1. i + m \in 1..Len(P) /\ Before(H, Q) + i = b + (i + m)
    BY <1>1, <1>2
  <2>. QED BY <2>1 DEF Unbroken, b
<1>4. ASSUME NEW j \in 1..m, NEW l \in Levels, NEW v \in Nat, P[j].changes[l] = v
      PROVE  v <= Final(H, b + m)
  <2>1. j \in 1..Len(P) /\ b + j \in 1..Len(H)
    BY <1>1
  <2>2. v # 0 => v = H[b + j].market[l]
    BY <1>4, <2>1 DEF Unbroken, IsDiff, b
  <2>3. v # 0 => v <= Final(H, b + j)
    BY <2>1, <2>2 DEF LevelsRise
  <2>4. Final(H, b + j) <= Final(H, b + m)
    <3>1. b + j \in 0..Len(H) /\ b + m \in 0..Len(H) /\ (b + j = b + m \/ b + j < b + m)
      BY <1>1
    <3>. QED BY <3>1, FinalTypes DEF Rises
  <2>5. Final(H, b + m) \in Nat /\ Final(H, b + j) \in Nat
    BY <1>1, <2>1, FinalTypes
  <2>. QED BY <2>3, <2>4, <2>5
<1>5. Final(H, b) <= Final(H, b + m) /\ Final(H, b) \in Nat /\ Final(H, b + m) \in Nat
  <2>1. b \in 0..Len(H) /\ b + m \in 0..Len(H) /\ (b = b + m \/ b < b + m)
    BY <1>1
  <2>2. Final(H, b) \in Nat /\ Final(H, b + m) \in Nat
    BY <2>1, FinalTypes
  <2>3. b < b + m => Final(H, b) < Final(H, b + m)
    BY <2>1 DEF Rises
  <2>. QED BY <2>1, <2>2, <2>3
<1>6. ASSUME NEW l \in Levels, NEW v \in Nat, NEW e \in m..Len(P),
             v <= Final(H, b) \/ \E j \in 1..e : P[j].changes[l] = v
      PROVE  v <= Final(H, b + m) \/ \E j \in 1..(e - m) : Q[j].changes[l] = v
  <2>1. CASE v <= Final(H, b)
    BY <1>5, <2>1
  <2>2. ASSUME NEW j \in 1..e, P[j].changes[l] = v
        PROVE  v <= Final(H, b + m) \/ \E i \in 1..(e - m) : Q[i].changes[l] = v
    <3>1. CASE j <= m
      <4>1. j \in 1..m
        BY <1>1, <3>1
      <4>. QED BY <1>4, <2>2, <4>1
    <3>2. CASE j > m
      <4>1. j - m \in 1..(e - m) /\ j - m \in 1..Len(Q) /\ (j - m) + m = j
        BY <1>1, <3>2
      <4>2. Q[j - m].changes[l] = v
        BY <2>2, <4>1
      <4>. QED BY <4>1, <4>2
    <3>. QED BY <1>1, <3>1, <3>2
  <2>3. CASE \E j \in 1..e : P[j].changes[l] = v
    BY <2>2, <2>3
  <2>. QED BY <1>6, <2>1, <2>3
<1>7. Written(H, Q)
  <2>. SUFFICES ASSUME NEW e \in 1..Len(Q), NEW l \in Levels
                PROVE  \/ H[Before(H, Q) + e].market[l] <= Final(H, Before(H, Q))
                       \/ \E j \in 1..e : Q[j].changes[l] = H[Before(H, Q) + e].market[l]
    BY DEF Written
  <2>. DEFINE v == H[b + (m + e)].market[l]
  <2>1. m + e \in m..Len(P) /\ m + e \in 1..Len(P) /\ b + (m + e) \in 1..Len(H) /\ (m + e) - m = e
        /\ Before(H, Q) + e = b + (m + e)
    BY <1>1, <1>2
  <2>2. v \in Nat
    BY <2>1, FinalTypes
  <2>3. v <= Final(H, b) \/ \E j \in 1..(m + e) : P[j].changes[l] = v
    BY <2>1 DEF Written, b
  <2>. HIDE DEF v
  <2>4. v <= Final(H, b + m) \/ \E j \in 1..((m + e) - m) : Q[j].changes[l] = v
    BY <1>6, <2>1, <2>2, <2>3
  <2>. QED BY <1>2, <2>1, <2>4 DEF v
<1>8. WrittenNow(H, Q, k, u)
  <2>. SUFFICES ASSUME NEW l \in Levels, u.changes[l] # k[l]
                PROVE  \/ k[l] <= Final(H, b + m)
                       \/ \E j \in 1..Len(Q) : Q[j].changes[l] = k[l]
    BY <1>2 DEF WrittenNow
  <2>1. k[l] <= Final(H, b) \/ \E j \in 1..Len(P) : P[j].changes[l] = k[l]
    BY DEF WrittenNow, b
  <2>. DEFINE v == k[l]
  <2>2. Len(P) \in m..Len(P) /\ v \in Nat /\ Len(P) - m = Len(Q)
    BY <1>1 DEF Contents
  <2>. HIDE DEF v
  <2>3. v <= Final(H, b + m) \/ \E j \in 1..(Len(P) - m) : Q[j].changes[l] = v
    BY <1>6, <2>1, <2>2 DEF v
  <2>. QED BY <2>2, <2>3 DEF v
<1>. QED BY <1>2, <1>3, <1>7, <1>8 DEF Unbroken, b

\* Nothing that was sent is newer than the last id.
LEMMA SentBefore ==
  ASSUME NEW H, NEW u, NEW s \in Nat, NEW n \in Nat, H \in Histories,
         Rises(H), SentUpTo(H, u, s, n), NEW i \in 0..Len(H)
  PROVE  Final(H, i) \in Nat /\ Final(H, i) <= s /\ s <= n
<1>1. Len(H) \in Nat /\ i \in Nat /\ Final(H, i) \in Nat /\ Len(H) \in 0..Len(H)
  BY FinalTypes
<1>2. i = Len(H) \/ i < Len(H)
  BY <1>1
<1>. QED BY <1>1, <1>2 DEF Rises, SentUpTo

LEMMA StreamUpdate ==
  ASSUME NEW H, NEW P, NEW k, NEW u, NEW s, NEW n, Stream(H, P, k, u, s, n),
         NEW x \in Levels, NEW k2, NEW u2,
         k2 = [k EXCEPT ![x] = n + 1],
         u2 = [first   |-> IF u.first = 0 THEN n + 1 ELSE u.first,
               changes |-> [u.changes EXCEPT ![x] = n + 1]]
  PROVE  Stream(H, P, k2, u2, s, n + 1)
<1>. USE DEF Stream
<1>1. /\ k2 \in Contents /\ k2[x] = n + 1 /\ \A l \in Levels \ {x} : k2[l] = k[l]
      /\ u2 \in Unsents /\ u2.changes[x] = n + 1
      /\ \A l \in Levels \ {x} : u2.changes[l] = u.changes[l]
      /\ u2.first = IF u.first = 0 THEN n + 1 ELSE u.first
  <2>1. u.changes \in Contents /\ u.first \in Nat
    BY DEF Unsents
  <2>2. [u.changes EXCEPT ![x] = n + 1] \in Contents /\ k2 \in Contents
    BY <2>1 DEF Contents
  <2>. QED BY <2>1, <2>2 DEF Contents, Unsents
<1>2. \A i \in 0..Len(H) : Final(H, i) \in Nat /\ Final(H, i) <= s /\ s <= n
  BY SentBefore
<1>3. SentUpTo(H, u2, s, n + 1)
  BY <1>1 DEF SentUpTo
<1>4. Fresh(k2, u2, s, n + 1)
  <2>. SUFFICES ASSUME NEW l \in Levels
                PROVE  k2[l] <= n + 1 /\ (u2.changes[l] # 0 => u2.changes[l] = k2[l] /\ s < k2[l])
    BY DEF Fresh
  <2>1. s <= n
    <3>1. 0 \in 0..Len(H)
      BY FinalTypes
    <3>. QED BY <1>2, <3>1
  <2>2. CASE l = x
    BY <1>1, <2>1, <2>2
  <2>3. CASE l # x
    <3>1. k[l] \in Nat /\ k2[l] = k[l] /\ u2.changes[l] = u.changes[l]
      BY <1>1, <2>3 DEF Contents
    <3>2. k[l] <= n /\ (u.changes[l] # 0 => u.changes[l] = k[l] /\ s < k[l])
      BY DEF Fresh
    <3>. QED BY <3>1, <3>2
  <2>. QED BY <2>2, <2>3
<1>5. LevelsRise(H, k2)
  <2>. SUFFICES ASSUME NEW i \in 1..Len(H), NEW l \in Levels
                PROVE  H[i].market[l] <= k2[l] /\ (k2[l] <= Final(H, i) => k2[l] <= H[i].market[l])
    BY DEF LevelsRise
  <2>1. /\ i \in 0..Len(H) /\ H[i].market[l] \in Nat
        /\ H[i].market[l] <= Final(H, i) /\ H[i].market[l] <= k[l]
        /\ k[l] <= Final(H, i) => k[l] <= H[i].market[l]
    BY FinalTypes DEF LevelsRise
  <2>2. CASE l = x
    <3>1. Final(H, i) \in Nat /\ Final(H, i) <= n
      BY <1>2, <2>1
    <3>. QED BY <1>1, <2>1, <2>2, <3>1
  <2>3. CASE l # x
    BY <1>1, <2>1, <2>3
  <2>. QED BY <2>2, <2>3
<1>6. WrittenNow(H, P, k2, u2)
  <2>. SUFFICES ASSUME NEW l \in Levels
                PROVE  \/ k2[l] <= Final(H, Before(H, P)) \/ u2.changes[l] = k2[l]
                       \/ \E j \in 1..Len(P) : P[j].changes[l] = k2[l]
    BY DEF WrittenNow
  <2>1. CASE l = x
    BY <1>1, <2>1
  <2>2. CASE l # x
    <3>1. k2[l] = k[l] /\ u2.changes[l] = u.changes[l]
      BY <1>1, <2>2
    <3>. QED BY <3>1 DEF WrittenNow
  <2>. QED BY <2>1, <2>2
<1>. QED BY <1>1, <1>3, <1>4, <1>5, <1>6

\* The updates that were in no diff become the last one.
Sends(H, P, k, u, s, n, G, Q) ==
  /\ u.first # 0
  /\ G = Append(H, [final |-> n, market |-> k])
  /\ Q \in Seq(Diff) /\ Len(Q) = Len(P) + 1
  /\ Q[Len(P) + 1] = [first |-> u.first, final |-> n, previous |-> s, changes |-> u.changes]
  /\ \A i \in 1..Len(P) : Q[i] = P[i]

LEMMA StreamPublish ==
  ASSUME NEW H, NEW P, NEW k, NEW u, NEW s, NEW n, Stream(H, P, k, u, s, n),
         NEW G, NEW Q, Sends(H, P, k, u, s, n, G, Q)
  PROVE  Stream(G, Q, k, [first |-> 0, changes |-> Empty], n, n) /\ Before(G, Q) = Before(H, P)
<1>0. PICK d :
        /\ d = [first |-> u.first, final |-> n, previous |-> s, changes |-> u.changes]
        /\ u.first # 0 /\ G = Append(H, [final |-> n, market |-> k])
        /\ Q \in Seq(Diff) /\ Len(Q) = Len(P) + 1 /\ Q[Len(P) + 1] = d
        /\ \A i \in 1..Len(P) : Q[i] = P[i]
  BY DEF Sends
<1>. USE <1>0 DEF Stream
<1>. DEFINE N == Len(H)
            v == [first |-> 0, changes |-> Empty]
            b == Before(H, P)
<1>1. /\ G \in Histories /\ Len(G) = N + 1 /\ G[N + 1] = [final |-> n, market |-> k]
      /\ \A i \in 1..N : G[i] = H[i]
  BY AppendProperties DEF Histories
<1>2. N \in Nat /\ Len(P) \in Nat /\ b \in 0..N /\ b + Len(P) = N
  BY FinalTypes, DiffChanges DEF Before, Unbroken
<1>3. Before(G, Q) = b
  BY <1>1, <1>2 DEF Before
<1>4. \A i \in 0..N : Final(G, i) = Final(H, i) /\ Final(H, i) \in Nat /\ Final(H, i) <= s
  <2>. SUFFICES ASSUME NEW i \in 0..N
                PROVE  Final(G, i) = Final(H, i) /\ Final(H, i) \in Nat /\ Final(H, i) <= s
    OBVIOUS
  <2>1. Final(H, i) \in Nat /\ Final(H, i) <= s
    BY SentBefore
  <2>2. i = 0 \/ i \in 1..N
    BY <1>2
  <2>. QED BY <1>1, <2>1, <2>2 DEF Final
<1>5. Final(G, N + 1) = n /\ s < n /\ s = Final(H, N) /\ u.first = s + 1
  BY <1>1, <1>2 DEF Final, SentUpTo
<1>6. v \in Unsents /\ v.first = 0 /\ \A l \in Levels : v.changes[l] = 0
  BY EmptyType DEF Unsents, Empty
<1>. HIDE DEF b, v
<1>7. ASSUME NEW i \in 1..Len(G) PROVE i \in 1..N \/ i = N + 1
  BY <1>1, <1>2
<1>8. Rises(G)
  <2>. SUFFICES ASSUME NEW i \in 0..Len(G), NEW j \in 0..Len(G), i < j
                PROVE  Final(G, i) < Final(G, j)
    BY DEF Rises
  <2>1. i \in 0..N /\ (j \in 0..N \/ j = N + 1)
    BY <1>1, <1>2
  <2>2. CASE j \in 0..N
    BY <1>4, <2>1, <2>2 DEF Rises
  <2>3. CASE j = N + 1
    BY <1>4, <1>5, <2>1, <2>3
  <2>. QED BY <2>1, <2>2, <2>3
<1>9. SentUpTo(G, v, n, n)
  BY <1>1, <1>5, <1>6 DEF SentUpTo
<1>10. Fresh(k, v, n, n)
  BY <1>6 DEF Fresh
<1>11. LevelsRise(G, k)
  <2>. SUFFICES ASSUME NEW i \in 1..Len(G), NEW l \in Levels
                PROVE  /\ G[i].market[l] <= Final(G, i) /\ G[i].market[l] <= k[l]
                       /\ k[l] <= Final(G, i) => k[l] <= G[i].market[l]
                       /\ \A j \in i..Len(G) :
                            G[j].market[l] <= Final(G, i) => G[j].market[l] <= G[i].market[l]
    BY DEF LevelsRise
  <2>1. k[l] \in Nat /\ k[l] <= n
    BY DEF Fresh, Contents
  <2>2. CASE i = N + 1
    <3>1. G[i].market[l] = k[l] /\ Final(G, i) = n
      BY <1>1, <1>5, <2>2
    <3>2. \A j \in i..Len(G) : j = i
      BY <1>1, <1>2, <2>2
    <3>. QED BY <2>1, <3>1, <3>2
  <2>3. CASE i \in 1..N
    <3>1. /\ H[i].market[l] <= Final(H, i) /\ H[i].market[l] <= k[l]
          /\ k[l] <= Final(H, i) => k[l] <= H[i].market[l]
          /\ \A j \in i..N :
               H[j].market[l] <= Final(H, i) => H[j].market[l] <= H[i].market[l]
      BY <2>3 DEF LevelsRise
    <3>2. G[i] = H[i] /\ Final(G, i) = Final(H, i)
      BY <1>1, <1>2, <1>4, <2>3
    <3>3. ASSUME NEW j \in i..Len(G), G[j].market[l] <= Final(G, i)
          PROVE  G[j].market[l] <= G[i].market[l]
      <4>1. CASE j = N + 1
        BY <1>1, <3>1, <3>2, <3>3, <4>1
      <4>2. CASE j # N + 1
        <5>1. j \in i..N /\ j \in 1..N
          BY <1>1, <1>2, <2>3, <4>2
        <5>. QED BY <1>1, <3>1, <3>2, <3>3, <5>1
      <4>. QED BY <4>1, <4>2
    <3>. QED BY <3>1, <3>2, <3>3
  <2>. QED BY <1>7, <2>2, <2>3
<1>12. Unbroken(G, Q)
  <2>1. Len(Q) <= Len(G)
    BY <1>1, <1>2 
  <2>2. ASSUME NEW i \in 1..Len(P) PROVE IsDiff(Q[i], G, b + i)
    <3>1. IsDiff(P[i], H, b + i) /\ Q[i] = P[i]
      BY DEF Unbroken, b
    <3>2. b + i \in 1..N /\ b + i \in 0..N /\ (b + i) - 1 \in 0..N
      BY <1>2
    <3>. QED BY <1>1, <1>4, <3>1, <3>2 DEF IsDiff
  <2>3. IsDiff(d, G, N + 1)
    <3>1. N \in 0..N /\ (N + 1) - 1 = N
      BY <1>2
    <3>2. Final(G, (N + 1) - 1) = s
      BY <1>4, <1>5, <3>1
    <3>3. /\ d.final = n /\ d.previous = s /\ d.first = s + 1
          /\ \A l \in Levels : d.changes[l] # 0 => d.changes[l] = k[l] /\ s < d.changes[l]
      BY <1>5 DEF Fresh
    <3>. QED BY <1>1, <1>5, <3>2, <3>3 DEF IsDiff
  <2>4. ASSUME NEW i \in 1..Len(Q) PROVE IsDiff(Q[i], G, b + i)
    <3>1. i \in 1..Len(P) \/ (i = Len(P) + 1 /\ b + i = N + 1)
      BY <1>2
    <3>. QED BY <2>2, <2>3, <3>1
  <2>. QED BY <1>3, <2>1, <2>4 DEF Unbroken
<1>13. ASSUME NEW l \in Levels
       PROVE  k[l] <= Final(G, b) \/ \E j \in 1..Len(Q) : Q[j].changes[l] = k[l]
  <2>1. Final(G, b) = Final(H, b)
    BY <1>2, <1>4
  <2>2. \/ k[l] <= Final(H, b)
        \/ u.changes[l] = k[l]
        \/ \E j \in 1..Len(P) : P[j].changes[l] = k[l]
    BY DEF WrittenNow, b
  <2>3. CASE u.changes[l] = k[l]
    <3>1. Len(P) + 1 \in 1..Len(Q) /\ Q[Len(P) + 1].changes[l] = k[l]
      BY <1>2, <2>3
    <3>. QED BY <3>1
  <2>4. CASE \E j \in 1..Len(P) : P[j].changes[l] = k[l]
    <3>1. PICK j \in 1..Len(P) : P[j].changes[l] = k[l]
      BY <2>4
    <3>2. j \in 1..Len(Q) /\ Q[j].changes[l] = k[l]
      BY <1>2, <3>1
    <3>. QED BY <3>2
  <2>. QED BY <2>1, <2>2, <2>3, <2>4
<1>14. WrittenNow(G, Q, k, v)
  BY <1>3, <1>13 DEF WrittenNow
<1>15. Written(G, Q)
  <2>. SUFFICES ASSUME NEW e \in 1..Len(Q), NEW l \in Levels
                PROVE  \/ G[b + e].market[l] <= Final(G, b)
                       \/ \E j \in 1..e : Q[j].changes[l] = G[b + e].market[l]
    BY <1>3 DEF Written
  <2>1. CASE e = Len(P) + 1
    <3>1. G[b + e].market[l] = k[l] /\ e = Len(Q)
      BY <1>1, <1>2, <2>1
    <3>. QED BY <1>13, <3>1
  <2>2. CASE e # Len(P) + 1
    <3>1. e \in 1..Len(P) /\ b + e \in 1..N /\ \A j \in 1..e : j \in 1..Len(P)
      BY <1>2, <2>2
    <3>2. \/ H[b + e].market[l] <= Final(H, b)
          \/ \E j \in 1..e : P[j].changes[l] = H[b + e].market[l]
      BY <3>1 DEF Written, b
    <3>3. G[b + e] = H[b + e] /\ Final(G, b) = Final(H, b) /\ \A j \in 1..e : Q[j] = P[j]
      BY <1>1, <1>2, <1>4, <3>1
    <3>. QED BY <3>2, <3>3
  <2>. QED BY <2>1, <2>2
<1>. QED BY <1>1, <1>3, <1>6, <1>8, <1>9, <1>10, <1>11, <1>12, <1>14, <1>15 DEF v, b
-----------------------------------------------------------------------------
(* Snapshots, and the diffs that they make superfluous.                    *)

\* A snapshot taken when the market was k and its last id n, or earlier: it is no older, at
\* any level, than the diffs that ended when it was taken.
Covers(t, H, k, n) ==
  /\ t.id <= n
  /\ \A i \in 1..Len(H), l \in Levels : Final(H, i) <= t.id => H[i].market[l] <= t.levels[l]
  /\ t.id = n => \A l \in Levels : k[l] <= t.levels[l]

LEMMA CoversNow ==
  ASSUME NEW H, NEW P, NEW k, NEW u, NEW s, NEW n, Stream(H, P, k, u, s, n), NEW p \in BOOLEAN
  PROVE  Covers([id |-> n, levels |-> k, pairKnown |-> p], H, k, n)
BY DEF Covers, Stream, LevelsRise, Contents

LEMMA CoversAfterUpdate ==
  ASSUME NEW t \in Snapshot, NEW H, NEW k, NEW n \in Nat, Covers(t, H, k, n), NEW k2
  PROVE  Covers(t, H, k2, n + 1)
BY DEF Covers, Snapshot

LEMMA CoversAfterPublish ==
  ASSUME NEW t \in Snapshot, NEW H \in Histories, NEW k \in Contents, NEW n \in Nat,
         Covers(t, H, k, n), NEW G, G = Append(H, [final |-> n, market |-> k])
  PROVE  Covers(t, G, k, n)
<1>1. /\ Len(G) = Len(H) + 1 /\ G[Len(H) + 1] = [final |-> n, market |-> k]
      /\ \A i \in 1..Len(H) : G[i] = H[i]
  BY AppendProperties DEF Histories
<1>2. Len(H) \in Nat
  BY FinalTypes
<1>3. ASSUME NEW i \in 1..Len(G), NEW l \in Levels, Final(G, i) <= t.id
      PROVE  G[i].market[l] <= t.levels[l]
  <2>1. CASE i = Len(H) + 1
    <3>1. Final(G, i) = n /\ G[i].market = k
      BY <1>1, <1>2, <2>1 DEF Final
    <3>2. t.id = n
      BY <1>3, <3>1 DEF Covers, Snapshot
    <3>. QED BY <3>1, <3>2 DEF Covers
  <2>2. CASE i # Len(H) + 1
    <3>1. i \in 1..Len(H) /\ G[i] = H[i] /\ Final(G, i) = Final(H, i)
      BY <1>1, <1>2, <2>2 DEF Final
    <3>. QED BY <1>3, <3>1 DEF Covers
  <2>. QED BY <2>1, <2>2
<1>. QED BY <1>3 DEF Covers

\* A set of numbers has a least one.
LEMMA LeastNat ==
  ASSUME NEW T \in SUBSET Nat, T # {}
  PROVE  \E x \in T : \A y \in T : x <= y
<1>. DEFINE R == OpToRel(<, Nat)
<1>1. IsWellFoundedOn(R, Nat)
  BY NatLessThanWellFounded
<1>2. \A x, y \in Nat : <<y, x>> \in R <=> y < x
  <2>. TAKE x, y \in Nat
  <2>1. <<y, x>> \in Nat \X Nat
    OBVIOUS
  <2>. QED BY <2>1 DEF OpToRel
<1>. HIDE DEF R
<1>3. PICK x \in T : \A y \in T : ~(<<y, x>> \in R)
  BY <1>1, WFMin
<1>4. ASSUME NEW y \in T PROVE x <= y
  <2>1. ~(y < x) /\ x \in Nat /\ y \in Nat
    BY <1>2, <1>3
  <2>. QED BY <2>1
<1>. QED BY <1>4

\* What ProcessSnapshot skips had ended when the snapshot was taken: the first diff that had
\* not would straddle it.
LEMMA SkippedEnded ==
  ASSUME NEW H, NEW P, NEW k, NEW u, NEW s, NEW n, Stream(H, P, k, u, s, n),
         NEW ds \in Seq(Diff), Len(ds) <= Len(P), \A i \in 1..Len(ds) : ds[i] = P[i],
         ds # <<>>, NEW id \in Nat, ds[1].final <= id,
         NEW m \in 0..Len(ds), Skips(ds, id, m)
  PROVE  m # 0 /\ ds[m].final <= id
<1>. USE DEF Stream
<1>1. Len(ds) \in Nat /\ Len(ds) # 0 /\ Len(P) \in Nat /\ m \in Nat
  BY EmptySeq, DiffChanges
<1>2. /\ \A i \in 1..Len(ds) : ds[i].final \in Nat /\ ds[i].first \in Nat
      /\ \A i \in 2..Len(ds) : ds[i].first = ds[i - 1].final + 1
  <2>1. \A i \in 1..Len(ds) : ds[i] \in Diff /\ IsDiff(ds[i], H, Before(H, P) + i)
    BY <1>1, DiffChanges DEF Unbroken
  <2>2. ASSUME NEW i \in 2..Len(ds) PROVE ds[i].first = ds[i - 1].final + 1
    <3>1. i \in 1..Len(ds) /\ i - 1 \in 1..Len(ds)
      BY <1>1
    <3>2. Before(H, P) \in Int
      BY <1>1, FinalTypes DEF Before
    <3>3. (Before(H, P) + i) - 1 = Before(H, P) + (i - 1)
      BY <3>1, <3>2
    <3>. QED BY <2>1, <3>1, <3>3 DEF IsDiff
  <2>. QED BY <2>1, <2>2 DEF Diff
<1>3. \A i \in 1..m : ~Straddles(ds[i], id)
  BY DEF Skips
<1>4. m # 0
  <2>. SUFFICES ASSUME m = 0 PROVE FALSE
    OBVIOUS
  <2>1. Straddles(ds[1], id)
    BY <1>1 DEF Skips
  <2>. QED BY <1>1, <1>2, <2>1 DEF Straddles
<1>5. ds[m].final <= id
  <2>. SUFFICES ASSUME ~(ds[m].final <= id) PROVE FALSE
    OBVIOUS
  <2>. DEFINE T == {i \in 1..m : ~(ds[i].final <= id)}
  <2>1. m \in T /\ T \in SUBSET Nat
    BY <1>1, <1>4
  <2>2. PICK x \in T : \A y \in T : x <= y
    <3>. HIDE DEF T
    <3>. QED BY <2>1, LeastNat
  <2>3. x \in 1..m /\ ~(ds[x].final <= id) /\ x # 1
    BY <2>2
  <2>4. /\ x - 1 \in 1..m /\ x \in 2..Len(ds) /\ x \in 1..Len(ds)
        /\ x - 1 \in 1..Len(ds) /\ ~(x <= x - 1)
    BY <1>1, <2>3
  <2>5. ds[x - 1].final <= id
    BY <2>2, <2>4
  <2>6. Straddles(ds[x], id)
    <3>1. /\ ds[x].first = ds[x - 1].final + 1 /\ ds[x].final \in Nat /\ ds[x - 1].final \in Nat
          /\ ds[x].final > id
      BY <1>2, <2>3, <2>4
    <3>. QED BY <2>5, <3>1 DEF Straddles
  <2>. QED BY <1>3, <2>3, <2>6
<1>. QED BY <1>4, <1>5

\* CheckPacketLost finds nothing lost where nothing is.
LEMMA NoneLost ==
  ASSUME NEW H, NEW P, NEW k, NEW u, NEW s, NEW n, Stream(H, P, k, u, s, n),
         NEW i \in 1..Len(P)
  PROVE  ~PacketLost(P[i], Final(H, Before(H, P) + (i - 1)))
<1>1. IsDiff(P[i], H, Before(H, P) + i)
  BY DEF Stream, Unbroken
<1>2. (Before(H, P) + i) - 1 = Before(H, P) + (i - 1)
  BY FinalTypes, DiffChanges DEF Before, Stream
<1>. QED BY <1>1, <1>2 DEF IsDiff, PacketLost

LEMMA AllApplied ==
  ASSUME NEW H, NEW P, NEW k, NEW u, NEW s, NEW n, Stream(H, P, k, u, s, n),
         NEW ds \in Seq(Diff), Len(ds) <= Len(P), \A i \in 1..Len(ds) : ds[i] = P[i],
         NEW m \in 0..Len(ds), Applies(ds, Final(H, Before(H, P)), m)
  PROVE  m = Len(ds) /\ FinalOf(ds, m, Final(H, Before(H, P))) = Final(H, Before(H, P) + m)
<1>. DEFINE b == Before(H, P)
<1>1. Len(ds) \in Nat /\ Len(P) \in Nat /\ m \in Nat /\ b \in Nat
  BY DiffChanges, FinalTypes DEF Stream, Before, Unbroken
<1>2. FinalOf(ds, m, Final(H, b)) = Final(H, b + m)
  <2>1. CASE m = 0
    BY <1>1, <2>1 DEF FinalOf
  <2>2. CASE m # 0
    <3>1. m \in 1..Len(P) /\ ds[m] = P[m]
      BY <1>1, <2>2
    <3>. QED BY <2>2, <3>1 DEF FinalOf, Stream, Unbroken, IsDiff
  <2>. QED BY <2>1, <2>2
<1>3. m = Len(ds)
  <2>. SUFFICES ASSUME m < Len(ds) PROVE FALSE
    BY <1>1
  <2>1. m + 1 \in 1..Len(P) /\ ds[m + 1] = P[m + 1] /\ (m + 1) - 1 = m
    BY <1>1
  <2>2. PacketLost(ds[m + 1], Final(H, b + m))
    BY <1>2 DEF Applies
  <2>. QED BY <2>1, <2>2, NoneLost
<1>. QED BY <1>2, <1>3

-----------------------------------------------------------------------------
(* What the book will show once its queue has been executed.               *)

\* The operation leaves a level at v or above there.
Safe(op, l, v) == op.kind # "clear" /\ (op.changes[l] = 0 \/ op.changes[l] >= v)

\* The level will be at v or above.
WillShow(b, ops, l, v) ==
  \/ v = 0
  \/ b[l] >= v /\ \A i \in 1..Len(ops) : Safe(ops[i], l, v)
  \/ \E i \in 1..Len(ops) :
       /\ ops[i].kind # "clear" /\ ops[i].changes[l] >= v
       /\ \A j \in i + 1..Len(ops) : Safe(ops[j], l, v)

\* Safe operations change nothing.
LEMMA ShowsStill ==
  ASSUME NEW b, NEW ops \in Seq(BookOp), NEW more \in Seq(BookOp), NEW l, NEW v,
         WillShow(b, ops, l, v), \A j \in 1..Len(more) : Safe(more[j], l, v)
  PROVE  WillShow(b, ops \o more, l, v)
<1>. DEFINE k == Len(ops)
            all == ops \o more
<1>1. /\ k \in Nat /\ Len(more) \in Nat /\ Len(all) = k + Len(more)
      /\ \A i \in 1..k : all[i] = ops[i]
      /\ \A j \in 1..Len(more) : all[k + j] = more[j]
  BY ConcatParts, LenProperties
<1>. HIDE DEF all
<1>2. \A i \in k + 1..Len(all) : i - k \in 1..Len(more) /\ all[i] = more[i - k]
  <2>. TAKE i \in k + 1..Len(all)
  <2>1. i - k \in 1..Len(more) /\ k + (i - k) = i
    BY <1>1
  <2>. QED BY <1>1, <2>1
<1>3. \A i \in k + 1..Len(all) : Safe(all[i], l, v)
  BY <1>2
<1>4. CASE b[l] >= v /\ \A i \in 1..k : Safe(ops[i], l, v)
  <2>1. ASSUME NEW i \in 1..Len(all) PROVE Safe(all[i], l, v)
    <3>1. i \in 1..k \/ i \in k + 1..Len(all)
      BY <1>1
    <3>. QED BY <1>1, <1>3, <1>4, <3>1
  <2>. QED BY <1>4, <2>1 DEF WillShow, all
<1>5. ASSUME NEW i \in 1..k, ops[i].kind # "clear", ops[i].changes[l] >= v,
             \A j \in i + 1..k : Safe(ops[j], l, v)
      PROVE  WillShow(b, ops \o more, l, v)
  <2>1. i \in 1..Len(all) /\ all[i] = ops[i]
    BY <1>1
  <2>2. ASSUME NEW j \in i + 1..Len(all) PROVE Safe(all[j], l, v)
    <3>1. (j \in i + 1..k /\ j \in 1..k) \/ j \in k + 1..Len(all)
      BY <1>1
    <3>. QED BY <1>1, <1>3, <1>5, <3>1
  <2>. QED BY <1>5, <2>1, <2>2 DEF WillShow, all
<1>. QED BY <1>4, <1>5 DEF WillShow

\* An operation that writes v or more, followed by safe ones, decides.
LEMMA ShowsNew ==
  ASSUME NEW b, NEW ops \in Seq(BookOp), NEW more \in Seq(BookOp), NEW l, NEW v,
         NEW i \in 1..Len(more), more[i].kind # "clear", more[i].changes[l] >= v,
         \A j \in i + 1..Len(more) : Safe(more[j], l, v)
  PROVE  WillShow(b, ops \o more, l, v)
<1>. DEFINE k == Len(ops)
            all == ops \o more
<1>1. /\ k \in Nat /\ Len(more) \in Nat /\ Len(all) = k + Len(more)
      /\ \A j \in 1..Len(more) : all[k + j] = more[j]
  BY ConcatParts, LenProperties
<1>. HIDE DEF all
<1>2. k + i \in 1..Len(all) /\ all[k + i] = more[i]
  BY <1>1
<1>3. ASSUME NEW j \in k + i + 1..Len(all) PROVE Safe(all[j], l, v)
  <2>1. j - k \in i + 1..Len(more) /\ j - k \in 1..Len(more) /\ k + (j - k) = j
    BY <1>1
  <2>2. all[j] = more[j - k]
    BY <1>1, <2>1
  <2>. QED BY <2>1, <2>2
<1>. QED BY <1>2, <1>3 DEF WillShow, all

\* Executing the first operation brings it about.
LEMMA ShowsExecuted ==
  ASSUME NEW b \in Contents, NEW ops \in Seq(BookOp), ops # <<>>, NEW l \in Levels, NEW v \in Nat,
         WillShow(b, ops, l, v), NEW c,
         \/ Head(ops).kind = "clear"
         \/ Head(ops).kind # "clear" /\ c = Merge(b, Head(ops).changes)
  PROVE  WillShow(c, Tail(ops), l, v)
<1>. DEFINE k == Len(ops)
            op == ops[1]
            rest == Tail(ops)
<1>1. /\ k \in Nat \ {0} /\ op \in BookOp /\ Head(ops) = op
      /\ Len(rest) = k - 1 /\ \A i \in 1..k - 1 : rest[i] = ops[i + 1]
  <2>1. Len(ops) \in Nat /\ Len(ops) # 0
    BY EmptySeq, LenProperties
  <2>. QED BY <2>1, HeadTailProperties, ElementOfSeq
<1>2. op.kind # "clear" => op.changes[l] \in Nat
  BY <1>1 DEF BookOp, Contents
<1>3. op.kind # "clear" => c[l] = IF op.changes[l] # 0 THEN op.changes[l] ELSE b[l]
  BY <1>1 DEF Merge
<1>. HIDE DEF op, rest
<1>4. ASSUME \A i \in 2..k : Safe(ops[i], l, v), v # 0, op.kind # "clear",
             (b[l] >= v /\ Safe(op, l, v)) \/ op.changes[l] >= v
      PROVE  WillShow(c, rest, l, v)
  <2>1. c[l] >= v
    BY <1>2, <1>3, <1>4 DEF Safe, Contents
  <2>2. ASSUME NEW i \in 1..Len(rest) PROVE Safe(rest[i], l, v)
    <3>1. i \in 1..k - 1 /\ i + 1 \in 2..k
      BY <1>1
    <3>. QED BY <1>1, <1>4, <3>1
  <2>. QED BY <2>1, <2>2 DEF WillShow
<1>5. CASE v = 0
  BY <1>5 DEF WillShow, rest
<1>6. CASE v # 0 /\ b[l] >= v /\ \A i \in 1..k : Safe(ops[i], l, v)
  <2>1. Safe(op, l, v) /\ \A i \in 2..k : Safe(ops[i], l, v)
    BY <1>1, <1>6 DEF op
  <2>2. op.kind # "clear"
    BY <2>1 DEF Safe
  <2>. QED BY <1>4, <1>6, <2>1, <2>2 DEF rest
<1>7. ASSUME v # 0, NEW i \in 1..k, ops[i].kind # "clear", ops[i].changes[l] >= v,
             \A j \in i + 1..k : Safe(ops[j], l, v)
      PROVE  WillShow(c, Tail(ops), l, v)
  <2>1. CASE i = 1
    BY <1>4, <1>7, <2>1 DEF op, rest
  <2>2. CASE i # 1
    <3>1. i - 1 \in 1..Len(rest) /\ i - 1 \in 1..k - 1 /\ (i - 1) + 1 = i
      BY <1>1, <2>2
    <3>2. rest[i - 1] = ops[i]
      BY <1>1, <3>1
    <3>3. ASSUME NEW j \in (i - 1) + 1..Len(rest) PROVE Safe(rest[j], l, v)
      <4>1. j \in 1..k - 1 /\ j + 1 \in i + 1..k
        BY <1>1, <3>1
      <4>. QED BY <1>1, <1>7, <4>1
    <3>. QED BY <1>7, <3>1, <3>2, <3>3 DEF WillShow, rest
  <2>. QED BY <2>1, <2>2
<1>. QED BY <1>5, <1>6, <1>7 DEF WillShow, rest
-----------------------------------------------------------------------------
(* Diffs on their way, as a sequence.                                      *)

\* A diff that is buffered stays on its way.
LEMMA BufferedStillPending ==
  ASSUME NEW S, NEW ds \in Seq(S), NEW w \in Seq(S), w # <<>>
  PROVE  Append(ds, Head(w)) \o Tail(w) = ds \o w
<1>1. Head(w) \in S /\ Tail(w) \in Seq(S) /\ <<Head(w)>> \in Seq(S)
  BY HeadTailProperties
<1>2. Append(ds, Head(w)) = ds \o <<Head(w)>>
  BY <1>1, AppendIsConcat
<1>3. (ds \o <<Head(w)>>) \o Tail(w) = ds \o (<<Head(w)>> \o Tail(w))
  BY <1>1, ConcatAssociative
<1>4. <<Head(w)>> \o Tail(w) = w
  <2>1. Len(w) \in Nat /\ 1 \in 1..Len(w) /\ Len(w) \in 1..Len(w) /\ Head(w) = w[1]
    BY EmptySeq, LenProperties
  <2>2. SubSeq(w, 1, Len(w)) = <<w[1]>> \o SubSeq(w, 1 + 1, Len(w))
    BY <2>1, SubSeqRecursiveFirst
  <2>. QED BY <2>1, <2>2, SubSeqFull, TailIsSubSeq
<1>. QED BY <1>2, <1>3, <1>4

LEMMA PendingParts ==
  ASSUME NEW ds \in Seq(Diff), NEW w \in Seq(Diff), NEW P, P = ds \o w
  PROVE  /\ P \in Seq(Diff) /\ Len(P) = Len(ds) + Len(w) /\ Len(ds) \in Nat /\ Len(w) \in Nat
         /\ \A i \in 1..Len(ds) : P[i] = ds[i]
         /\ \A j \in 1..Len(w) : P[Len(ds) + j] = w[j]
BY ConcatParts, LenProperties

\* The buffer ds and the next diff, all of them, are applied: P is left without them.
TakesAll(ds, w, P, Q, all) ==
  w # <<>> /\ P = ds \o w /\ Q = <<>> \o Tail(w) /\ all = Append(ds, Head(w))

LEMMA DrainedPending ==
  ASSUME NEW ds \in Seq(Diff), NEW w \in Seq(Diff), NEW P, NEW Q, NEW all,
         TakesAll(ds, w, P, Q, all)
  PROVE  /\ Len(all) = Len(ds) + 1 /\ all \in Seq(Diff) /\ Len(all) <= Len(P)
         /\ \A i \in 1..Len(all) : all[i] = P[i]
         /\ Q \in Seq(Diff) /\ IsRest(Q, P, Len(all))
<1>. USE DEF TakesAll
<1>1. /\ P \in Seq(Diff) /\ Len(P) = Len(ds) + Len(w) /\ Len(ds) \in Nat
      /\ \A i \in 1..Len(ds) : P[i] = ds[i]
      /\ \A j \in 1..Len(w) : P[Len(ds) + j] = w[j]
  BY PendingParts
<1>2. /\ Head(w) \in Diff /\ Head(w) = w[1] /\ Tail(w) \in Seq(Diff) /\ Len(Tail(w)) = Len(w) - 1
      /\ \A i \in 1..Len(Tail(w)) : Tail(w)[i] = w[i + 1]
      /\ Len(w) \in Nat /\ Len(w) # 0
  BY HeadTailProperties, LenProperties, EmptySeq
<1>3. Q = Tail(w)
  BY <1>2, ConcatEmptySeq
<1>4. /\ all \in Seq(Diff) /\ Len(all) = Len(ds) + 1 /\ all[Len(ds) + 1] = w[1]
      /\ \A i \in 1..Len(ds) : all[i] = ds[i]
  BY <1>2, AppendProperties
<1>5. ASSUME NEW i \in 1..Len(all) PROVE all[i] = P[i]
  <2>1. i \in 1..Len(ds) \/ i = Len(ds) + 1
    BY <1>1, <1>4
  <2>2. 1 \in 1..Len(w)
    BY <1>2
  <2>. QED BY <1>1, <1>4, <2>1, <2>2
<1>6. ASSUME NEW i \in 1..Len(Q) PROVE Q[i] = P[i + Len(all)]
  <2>1. i \in 1..Len(Tail(w)) /\ i + 1 \in 1..Len(w) /\ i + Len(all) = Len(ds) + (i + 1)
    BY <1>1, <1>2, <1>3, <1>4
  <2>. QED BY <1>1, <1>2, <1>3, <2>1
<1>. QED BY <1>1, <1>2, <1>3, <1>4, <1>5, <1>6 DEF IsRest

\* What is left of the buffer after its first m diffs.
LEMMA RestElements ==
  ASSUME NEW ds \in Seq(Diff), NEW m \in 0..Len(ds), NEW r, r = SubSeq(ds, m + 1, Len(ds))
  PROVE  r \in Seq(Diff) /\ IsRest(r, ds, m)
<1>1. /\ m + 1 \in Int /\ Len(ds) \in Nat /\ \A i \in m + 1..Len(ds) : ds[i] \in Diff
  BY LenProperties, ElementOfSeq
<1>2. /\ r \in Seq(Diff) /\ Len(r) = IF m + 1 <= Len(ds) THEN Len(ds) - (m + 1) + 1 ELSE 0
      /\ \A i \in 1..Len(ds) - (m + 1) + 1 : r[i] = ds[(m + 1) + i - 1]
  BY <1>1, SubSeqProperties
<1>3. Len(r) = Len(ds) - m
  BY <1>1, <1>2
<1>4. ASSUME NEW i \in 1..Len(r) PROVE r[i] = ds[i + m]
  <2>1. i \in 1..(Len(ds) - (m + 1) + 1) /\ (m + 1) + i - 1 = i + m
    BY <1>1, <1>3
  <2>. QED BY <1>2, <2>1
<1>. QED BY <1>2, <1>3, <1>4 DEF IsRest

\* The first m diffs of the buffer ds are skipped.
LEMMA SkippedPending ==
  ASSUME NEW ds \in Seq(Diff), NEW w \in Seq(Diff), NEW m \in 0..Len(ds),
         NEW r \in Seq(Diff), IsRest(r, ds, m),
         NEW p, p = ds \o w, NEW q, q = r \o w
  PROVE  q \in Seq(Diff) /\ IsRest(q, p, m)
<1>1. /\ p \in Seq(Diff) /\ Len(p) = Len(ds) + Len(w) /\ Len(ds) \in Nat /\ Len(w) \in Nat
      /\ \A i \in 1..Len(ds) : p[i] = ds[i]
      /\ \A j \in 1..Len(w) : p[Len(ds) + j] = w[j]
  BY PendingParts
<1>2. /\ q \in Seq(Diff) /\ Len(q) = Len(r) + Len(w) /\ Len(r) \in Nat
      /\ \A i \in 1..Len(r) : q[i] = r[i]
      /\ \A j \in 1..Len(w) : q[Len(r) + j] = w[j]
  BY PendingParts
<1>3. Len(r) = Len(ds) - m /\ \A i \in 1..Len(r) : r[i] = ds[i + m]
  BY DEF IsRest
<1>4. ASSUME NEW i \in 1..Len(q) PROVE q[i] = p[i + m]
  <2>1. CASE i <= Len(r)
    <3>1. i \in 1..Len(r) /\ i + m \in 1..Len(ds)
      BY <1>1, <1>2, <1>3, <2>1
    <3>2. q[i] = ds[i + m]
      BY <1>2, <1>3, <3>1
    <3>3. p[i + m] = ds[i + m]
      BY <1>1, <3>1, Zenon
    <3>. QED BY <3>2, <3>3
  <2>2. CASE i > Len(r)
    <3>1. i - Len(r) \in 1..Len(w) /\ Len(r) + (i - Len(r)) = i /\ Len(ds) + (i - Len(r)) = i + m
      BY <1>1, <1>2, <1>3, <2>2
    <3>. QED BY <1>1, <1>2, <3>1
  <2>3. i <= Len(r) \/ i > Len(r)
    BY <1>1, <1>2
  <2>. QED BY <2>1, <2>2, <2>3, Zenon
<1>. QED BY <1>1, <1>2, <1>3, <1>4 DEF IsRest

-----------------------------------------------------------------------------
(* No update is missed while no diff is lost.                              *)

\* Diffs that were sent and not applied yet; the number of those before.
Pending == diffs_ \o wire
Base    == Before(history, Pending)

StreamInv == Stream(history, Pending, market, unsent, sentId, lastId)

\* The sync is where the diffs before Pending ended.
AtBase == Base \in 1..Len(history) /\ last_diff_update_id_ = Final(history, Base)

\* A snapshot that is on its way covers at least the first diff of the buffer.
AnswersCover ==
  \A i \in 1..Len(snapshots) :
    /\ Covers(snapshots[i], history, market, lastId)
    /\ diffs_ # <<>> /\ diffs_[1].final <= snapshots[i].id

SnapshotCovers ==
  need_process_current_snapshot_ =>
    /\ AtBase /\ last_diff_update_id_ <= last_snapshot_.id
    /\ Covers(last_snapshot_, history, market, lastId)

BookCovers ==
  snapshot_was_processed_ =>
    /\ AtBase /\ diffs_ = <<>>
    /\ \A l \in Levels : WillShow(book, bookOps, l, history[Base].market[l])

LosslessInv ==
  /\ StreamInv /\ AnswersCover /\ SnapshotCovers /\ BookCovers
  /\ snapshot_request_in_flight_ => diffs_ # <<>>
  /\ need_make_snapshot_ => diffs_ = <<>>

CoverInv == PhaseInv /\ (losses = 0 => LosslessInv)

LEMMA InitCover ==
  ASSUME Init
  PROVE  CoverInv
<1>1. PhaseInv /\ TypeOK
  BY InitPhase, InitType
<1>2. /\ history = <<>> /\ diffs_ = <<>> /\ wire = <<>> /\ snapshots = <<>>
      /\ lastId = 1 /\ sentId = 1 /\ unsent = [first |-> 0, changes |-> Empty]
      /\ ~need_process_current_snapshot_ /\ ~snapshot_was_processed_
      /\ ~snapshot_request_in_flight_
  BY DEF Init
<1>3. /\ Pending = <<>> /\ Len(history) = 0 /\ Len(Pending) = 0 /\ Before(history, Pending) = 0
      /\ Final(history, 0) = 1
  BY <1>2 DEF Pending, Before, Final
<1>4. /\ market \in Contents /\ unsent \in Unsents /\ \A l \in Levels : unsent.changes[l] = 0 /\ market[l] <= 1
  <2>1. PICK x \in Levels : market = [Empty EXCEPT ![x] = 1]
    BY DEF Init
  <2>2. \A l \in Levels : market[l] \in {0, 1}
    BY <2>1 DEF Empty
  <2>. QED BY <1>1, <1>2, <2>2 DEF TypeOK, Unsents, Empty
<1>5. StreamInv
  <2>1. history \in Histories /\ Pending \in Seq(Diff)
    BY <1>2, <1>3 DEF Histories
  <2>2. Rises(history) /\ LevelsRise(history, market) /\ Unbroken(history, Pending)
        /\ Written(history, Pending)
    BY <1>3 DEF Rises, LevelsRise, Unbroken, Written
  <2>3. SentUpTo(history, unsent, sentId, lastId)
    BY <1>2, <1>3 DEF SentUpTo
  <2>4. Fresh(market, unsent, sentId, lastId)
    BY <1>2, <1>4 DEF Fresh
  <2>5. WrittenNow(history, Pending, market, unsent)
    BY <1>3, <1>4 DEF WrittenNow
  <2>. QED BY <1>2, <1>4, <2>1, <2>2, <2>3, <2>4, <2>5 DEF StreamInv, Stream
<1>. QED BY <1>1, <1>2, <1>5
     DEF CoverInv, LosslessInv, AnswersCover, SnapshotCovers, BookCovers

LEMMA CoverTypes ==
  ASSUME TypeOK
  PROVE  /\ diffs_ \in Seq(Diff) /\ wire \in Seq(Diff) /\ Pending \in Seq(Diff)
         /\ history \in Histories /\ market \in Contents /\ unsent \in Unsents
         /\ sentId \in Nat /\ lastId \in Nat
         /\ snapshots \in Seq(Snapshot) /\ Len(snapshots) \in Nat
         /\ \A i \in 1..Len(snapshots) : snapshots[i] \in Snapshot
         /\ last_snapshot_ \in Snapshot /\ last_diff_update_id_ \in Nat
         /\ book \in Contents /\ bookOps \in Seq(BookOp)
<1>1. Pending \in Seq(Diff)
  BY PendingParts DEF TypeOK, Pending
<1>2. Len(snapshots) \in Nat /\ \A i \in 1..Len(snapshots) : snapshots[i] \in Snapshot
  BY LenProperties, ElementOfSeq DEF TypeOK
<1>. QED BY <1>1, <1>2 DEF TypeOK, Histories, Unsents

\* While the stream stays where it is, so does the sync in it.
LEMMA SameStream ==
  ASSUME LosslessInv, UNCHANGED <<history, market, unsent, sentId, lastId>>, Pending' = Pending
  PROVE  StreamInv' /\ Base' = Base
BY DEF LosslessInv, StreamInv, Base

LEMMA UpdateCover ==
  ASSUME IdSteps = {1}, TypeOK, LosslessInv, Update
  PROVE  LosslessInv'
<1>. USE DEF LosslessInv
<1>1. PICK x \in Levels :
        /\ lastId' = lastId + 1
        /\ market' = [market EXCEPT ![x] = lastId + 1]
        /\ unsent' = [first   |-> IF unsent.first = 0 THEN lastId + 1 ELSE unsent.first,
                      changes |-> [unsent.changes EXCEPT ![x] = lastId + 1]]
  BY DEF Update
<1>2. /\ UNCHANGED <<sentId, history, wire, snapshots, last_diff_update_id_, last_snapshot_,
                     diffs_, bookOps, book>>
      /\ UNCHANGED flags
  BY DEF Update, sync
<1>3. Pending' = Pending /\ Base' = Base
  BY <1>2 DEF Pending, Base
<1>4. StreamInv'
  <2>1. Stream(history, Pending, market', unsent', sentId, lastId + 1)
    BY <1>1, StreamUpdate DEF StreamInv
  <2>. QED BY <1>1, <1>2, <1>3, <2>1 DEF StreamInv
<1>5. \A t \in Snapshot :
        Covers(t, history, market, lastId) => Covers(t, history', market', lastId')
  BY <1>1, <1>2, CoverTypes, CoversAfterUpdate
<1>6. AnswersCover'
  BY <1>2, <1>5, CoverTypes DEF AnswersCover
<1>7. SnapshotCovers'
  BY <1>2, <1>3, <1>5, CoverTypes DEF SnapshotCovers, AtBase, Final, flags
<1>8. BookCovers'
  BY <1>2, <1>3 DEF BookCovers, AtBase, Final, WillShow, Safe, flags
<1>. QED BY <1>2, <1>4, <1>6, <1>7, <1>8 DEF flags

LEMMA PublishCover ==
  ASSUME TypeOK, LosslessInv, Publish
  PROVE  LosslessInv'
<1>. USE DEF LosslessInv
<1>. DEFINE d == [first |-> unsent.first, final |-> lastId, previous |-> sentId,
                  changes |-> unsent.changes]
            h == [final |-> lastId, market |-> market]
<1>1. /\ wire' = Append(wire, d) /\ sentId' = lastId /\ history' = Append(history, h)
      /\ unsent' = [first |-> 0, changes |-> Empty] /\ unsent.first # 0
      /\ UNCHANGED <<lastId, market, snapshots, last_diff_update_id_, last_snapshot_, diffs_,
                     bookOps, book>>
      /\ UNCHANGED flags
  BY DEF Publish, sync
<1>2. d \in Diff
  BY CoverTypes DEF Diff, Unsents
<1>3. h \in [final : Nat, market : Contents]
  BY CoverTypes
<1>. HIDE DEF d, h
<1>4. wire' \in Seq(Diff) /\ Len(wire') = Len(wire) + 1 /\ wire'[Len(wire) + 1] = d
      /\ \A i \in 1..Len(wire) : wire'[i] = wire[i]
  BY <1>1, <1>2, CoverTypes, AppendProperties
<1>5. /\ Pending' \in Seq(Diff) /\ Len(Pending') = Len(Pending) + 1
      /\ Pending'[Len(Pending) + 1] = d /\ \A i \in 1..Len(Pending) : Pending'[i] = Pending[i]
  <2>. DEFINE P == diffs_ \o wire
              Q == diffs_ \o wire'
  <2>1. /\ P \in Seq(Diff) /\ Len(P) = Len(diffs_) + Len(wire) /\ Len(diffs_) \in Nat
        /\ Len(wire) \in Nat
        /\ \A i \in 1..Len(diffs_) : P[i] = diffs_[i]
        /\ \A j \in 1..Len(wire) : P[Len(diffs_) + j] = wire[j]
    BY CoverTypes, PendingParts
  <2>2. /\ Q \in Seq(Diff) /\ Len(Q) = Len(diffs_) + Len(wire')
        /\ \A i \in 1..Len(diffs_) : Q[i] = diffs_[i]
        /\ \A j \in 1..Len(wire') : Q[Len(diffs_) + j] = wire'[j]
    <3>1. wire' \in Seq(Diff)
      BY <1>4
    <3>. QED BY <3>1, CoverTypes, PendingParts
  <2>3. Pending = P /\ Pending' = Q
    BY <1>1 DEF Pending
  <2>. HIDE DEF P, Q
  <2>4. Len(Q) = Len(P) + 1 /\ Q[Len(P) + 1] = d
    <3>1. Len(wire) + 1 \in 1..Len(wire') /\ Len(diffs_) + (Len(wire) + 1) = Len(P) + 1
      BY <1>4, <2>1
    <3>. QED BY <1>4, <2>1, <2>2, <3>1
  <2>5. ASSUME NEW i \in 1..Len(P) PROVE Q[i] = P[i]
    <3>1. CASE i <= Len(diffs_)
      <4>1. i \in 1..Len(diffs_)
        BY <2>1, <3>1
      <4>. QED BY <2>1, <2>2, <4>1
    <3>2. CASE i > Len(diffs_)
      <4>0. Len(P) \in Nat /\ Len(diffs_) \in Nat /\ i - Len(diffs_) \in Nat
        BY <2>1, <3>2
      <4>1. PICK j \in Nat : j = i - Len(diffs_)
        BY <4>0
      <4>2. j \in 1..Len(wire) /\ j \in 1..Len(wire') /\ Len(diffs_) + j = i
        BY <1>4, <2>1, <3>2, <4>1
      <4>3. P[Len(diffs_) + j] = wire[j] /\ Q[Len(diffs_) + j] = wire[j]
        BY <1>4, <2>1, <2>2, <4>2
      <4>. QED BY <4>2, <4>3
    <3>. QED BY <2>1, <3>1, <3>2
  <2>. QED BY <2>2, <2>3, <2>4, <2>5
<1>6. Stream(history', Pending', market, unsent', lastId, lastId) /\ Base' = Base
  <2>1. Stream(history, Pending, market, unsent, sentId, lastId)
    BY DEF StreamInv
  <2>2. Sends(history, Pending, market, unsent, sentId, lastId, history', Pending')
    BY <1>1, <1>5 DEF Sends, d, h
  <2>. QED BY <1>1, <2>1, <2>2, StreamPublish DEF Base
<1>7. StreamInv'
  BY <1>1, <1>6 DEF StreamInv
<1>8. /\ Len(history') = Len(history) + 1 /\ Len(history) \in Nat
      /\ \A i \in 1..Len(history) : history'[i] = history[i]
  BY <1>1, <1>3, CoverTypes, AppendProperties, LenProperties DEF Histories
<1>9. AtBase => AtBase' /\ history'[Base] = history[Base]
  BY <1>1, <1>6, <1>8 DEF AtBase, Final
<1>10. \A t \in Snapshot :
         Covers(t, history, market, lastId) => Covers(t, history', market', lastId')
  BY <1>1, CoverTypes, CoversAfterPublish DEF h
<1>11. AnswersCover'
  BY <1>1, <1>10, CoverTypes DEF AnswersCover
<1>12. SnapshotCovers'
  BY <1>1, <1>9, <1>10, CoverTypes DEF SnapshotCovers, flags
<1>13. BookCovers'
  <2>1. UNCHANGED <<snapshot_was_processed_, diffs_, book, bookOps>>
    BY <1>1 DEF flags
  <2>. SUFFICES ASSUME snapshot_was_processed_ PROVE BookCovers'
    BY <2>1 DEF BookCovers
  <2>2. /\ AtBase /\ diffs_ = <<>>
        /\ \A l \in Levels : WillShow(book, bookOps, l, history[Base].market[l])
    BY DEF BookCovers
  <2>3. AtBase' /\ history'[Base'] = history[Base]
    BY <1>6, <1>9, <2>2
  <2>4. \A l \in Levels : WillShow(book', bookOps', l, history'[Base'].market[l])
    BY <2>1, <2>2, <2>3
  <2>. QED BY <2>1, <2>2, <2>3, <2>4 DEF BookCovers
<1>. QED BY <1>1, <1>7, <1>11, <1>12, <1>13 DEF flags

\* A diff on its way ended before the last update.
LEMMA PendingEnded ==
  ASSUME NEW H, NEW P, NEW k, NEW u, NEW s, NEW n, Stream(H, P, k, u, s, n), NEW i \in 1..Len(P)
  PROVE  P[i].final <= n /\ P[i].final \in Nat
<1>. USE DEF Stream
<1>1. Before(H, P) + i \in 0..Len(H) /\ IsDiff(P[i], H, Before(H, P) + i)
  BY FinalTypes, DiffChanges DEF Before, Unbroken
<1>2. Final(H, Before(H, P) + i) \in Nat /\ Final(H, Before(H, P) + i) <= s /\ s <= n
  BY <1>1, SentBefore
<1>. QED BY <1>1, <1>2 DEF IsDiff

\* The request ends, with an answer or without one.
LEMMA RequestCover ==
  ASSUME MaxExternal = 0, PhaseInv, LosslessInv,
         AnswerRequest \/ FailRequest \/ ReturnUnstarted \/ ExternalSnapshot
  PROVE  LosslessInv'
<1>. USE DEF LosslessInv, PhaseInv
<1>1. CASE AnswerRequest
  <2>. DEFINE t == CurrentSnapshot(TRUE)
  <2>1. /\ RequestRuns /\ snapshots' = Append(snapshots, t)
        /\ UNCHANGED <<lastId, market, unsent, sentId, history, wire, last_diff_update_id_,
                       last_snapshot_, diffs_, bookOps, book>>
        /\ UNCHANGED flags
    BY <1>1 DEF AnswerRequest, exchange, trading, sync
  <2>2. t \in Snapshot
    BY CurrentSnapshotType
  <2>3. Covers(t, history, market, lastId) /\ t.id = lastId
    BY CoversNow DEF StreamInv, CurrentSnapshot
  <2>. HIDE DEF t
  <2>4. snapshot_request_in_flight_ /\ diffs_ # <<>>
    <3>1. requests > 0 /\ requests \in Nat /\ Len(snapshots) \in Nat
      BY <2>1, CoverTypes DEF RequestRuns, TypeOK
    <3>2. snapshot_request_in_flight_
      <4>. SUFFICES ASSUME ~snapshot_request_in_flight_ PROVE FALSE
        OBVIOUS
      <4>1. requests + Len(snapshots) <= 0
        BY DEF OneRequestAtATime
      <4>. QED BY <3>1, <4>1
    <3>. QED BY <3>2
  <2>5. diffs_[1].final <= lastId
    <3>1. Len(diffs_) \in Nat /\ Len(diffs_) # 0
      BY <2>4, CoverTypes, EmptySeq, LenProperties
    <3>2. 1 \in 1..Len(Pending) /\ Pending[1] = diffs_[1]
      BY <3>1, CoverTypes, PendingParts DEF Pending
    <3>3. Pending[1].final <= lastId
      BY <3>2, PendingEnded DEF StreamInv
    <3>. QED BY <3>2, <3>3
  <2>6. StreamInv' /\ Base' = Base /\ (AtBase' <=> AtBase)
    BY <2>1 DEF StreamInv, Base, Pending, AtBase, Final
  <2>7. ASSUME NEW i \in 1..Len(snapshots')
        PROVE  Covers(snapshots'[i], history, market, lastId) /\ diffs_[1].final <= snapshots'[i].id
    <3>1. /\ Len(snapshots') = Len(snapshots) + 1 /\ snapshots'[Len(snapshots) + 1] = t
          /\ \A j \in 1..Len(snapshots) : snapshots'[j] = snapshots[j]
      BY <2>1, <2>2, CoverTypes, AppendProperties
    <3>2. CASE i = Len(snapshots) + 1
      BY <2>3, <2>5, <3>1, <3>2
    <3>3. CASE i # Len(snapshots) + 1
      <4>1. i \in 1..Len(snapshots)
        BY <3>1, <3>3, CoverTypes
      <4>. QED BY <3>1, <4>1 DEF AnswersCover
    <3>. QED BY <3>2, <3>3
  <2>8. AnswersCover'
    BY <2>1, <2>4, <2>7 DEF AnswersCover
  <2>9. SnapshotCovers' /\ BookCovers'
    BY <2>1, <2>6 DEF SnapshotCovers, BookCovers, WillShow, Safe, flags
  <2>. QED BY <2>1, <2>6, <2>8, <2>9 DEF flags
<1>2. CASE FailRequest \/ ReturnUnstarted
  <2>1. /\ UNCHANGED <<lastId, market, unsent, sentId, history, wire, snapshots,
                       last_diff_update_id_, last_snapshot_, diffs_, bookOps, book>>
        /\ UNCHANGED flags
    BY <1>2 DEF FailRequest, ReturnUnstarted, exchange, trading, sync
  <2>2. StreamInv' /\ Base' = Base /\ (AtBase' <=> AtBase)
    BY <2>1 DEF StreamInv, Base, Pending, AtBase, Final
  <2>3. AnswersCover' /\ SnapshotCovers' /\ BookCovers'
    BY <2>1, <2>2 DEF AnswersCover, SnapshotCovers, BookCovers, WillShow, Safe, flags
  <2>. QED BY <2>1, <2>2, <2>3 DEF flags
<1>3. CASE ExternalSnapshot
  BY <1>3 DEF ExternalSnapshot, TypeOK
<1>. QED BY <1>1, <1>2, <1>3

LEMMA ExecuteCover ==
  ASSUME TypeOK, LosslessInv, ExecuteBookOp
  PROVE  LosslessInv'
<1>. USE DEF LosslessInv
<1>1. /\ UNCHANGED <<lastId, market, unsent, sentId, history, wire, snapshots,
                     last_diff_update_id_, last_snapshot_, diffs_>>
      /\ UNCHANGED flags
  BY DEF ExecuteBookOp, exchange, trading, sync
<1>2. StreamInv' /\ Base' = Base /\ (AtBase' <=> AtBase)
  BY <1>1 DEF StreamInv, Base, Pending, AtBase, Final
<1>3. AnswersCover' /\ SnapshotCovers'
  BY <1>1, <1>2 DEF AnswersCover, SnapshotCovers, flags
<1>4. ASSUME snapshot_was_processed_, NEW l \in Levels
      PROVE  WillShow(book', bookOps', l, history[Base].market[l])
  <2>1. /\ bookOps # <<>> /\ bookOps' = Tail(bookOps)
        /\ \/ Head(bookOps).kind = "clear"
           \/ Head(bookOps).kind # "clear" /\ book' = Merge(book, Head(bookOps).changes)
    BY DEF ExecuteBookOp
  <2>2. WillShow(book, bookOps, l, history[Base].market[l]) /\ Base \in 1..Len(history)
    BY <1>4 DEF BookCovers, AtBase
  <2>3. history[Base].market[l] \in Nat
    BY <2>2, CoverTypes, FinalTypes
  <2>. QED BY <2>1, <2>2, <2>3, CoverTypes, ShowsExecuted
<1>5. BookCovers'
  BY <1>1, <1>2, <1>4 DEF BookCovers, flags
<1>. QED BY <1>1, <1>2, <1>3, <1>5 DEF flags

LEMMA SnapshotCover ==
  ASSUME PhaseInv, LosslessInv, ProcessSnapshot
  PROVE  LosslessInv'
<1>. USE DEF LosslessInv, PhaseInv
<1>. DEFINE t == Head(snapshots)
<1>1. /\ snapshot_request_in_flight_ /\ Len(snapshots) = 1
      /\ need_process_current_snapshot_' /\ ~snapshot_request_in_flight_'
      /\ ~need_make_snapshot_' /\ ~snapshot_was_processed_' /\ snapshots' = <<>>
  BY SnapshotPhase
<1>2. PICK n \in 0..Len(diffs_) :
        /\ Skips(diffs_, t.id, n)
        /\ last_diff_update_id_' = FinalOf(diffs_, n, last_diff_update_id_)
        /\ diffs_' = SubSeq(diffs_, n + 1, Len(diffs_))
  BY DEF ProcessSnapshot
<1>3. /\ last_snapshot_' = t
      /\ UNCHANGED <<lastId, market, unsent, sentId, history, wire>>
  BY DEF ProcessSnapshot, exchange, trading
<1>4. /\ t \in Snapshot /\ Covers(t, history, market, lastId)
      /\ diffs_ # <<>> /\ diffs_[1].final <= t.id
  <2>1. t = snapshots[1] /\ 1 \in 1..Len(snapshots)
    BY <1>1
  <2>. QED BY <2>1, CoverTypes DEF AnswersCover
<1>. HIDE DEF t
<1>5. /\ Len(diffs_) \in Nat /\ Len(diffs_) <= Len(Pending) /\ Len(Pending) \in Nat
      /\ \A i \in 1..Len(diffs_) : Pending[i] = diffs_[i]
  BY CoverTypes, PendingParts DEF Pending
<1>6. n # 0 /\ diffs_[n].final <= t.id
  <2>1. t.id \in Nat
    BY <1>4 DEF Snapshot
  <2>. QED BY <1>2, <1>4, <1>5, <2>1, SkippedEnded, CoverTypes DEF StreamInv
<1>7. diffs_' \in Seq(Diff) /\ IsRest(diffs_', diffs_, n)
  BY <1>2, CoverTypes, RestElements
<1>8. Pending' \in Seq(Diff) /\ IsRest(Pending', Pending, n)
  <2>1. Pending = diffs_ \o wire /\ Pending' = diffs_' \o wire
    BY <1>3 DEF Pending
  <2>. QED BY <1>2, <1>7, <2>1, CoverTypes, SkippedPending
<1>9. StreamInv' /\ Base' = Base + n
  <2>1. n \in 0..Len(Pending)
    BY <1>2, <1>5
  <2>2. /\ Stream(history, Pending', market, unsent, sentId, lastId)
        /\ Before(history, Pending') = Base + n
    BY <1>8, <2>1, StreamDrop DEF StreamInv, Base
  <2>. QED BY <1>3, <2>2 DEF StreamInv, Base
<1>10. AtBase' /\ last_diff_update_id_' = diffs_[n].final
  <2>0. n \in 1..Len(diffs_) /\ n \in 1..Len(Pending) /\ n \in Nat
    BY <1>5, <1>6
  <2>1. last_diff_update_id_' = diffs_[n].final /\ n \in 1..Len(Pending) /\ diffs_[n] = Pending[n]
    BY <1>2, <1>5, <1>6, <2>0 DEF FinalOf
  <2>2. Pending[n].final = Final(history, Base + n)
    BY <2>1 DEF StreamInv, Stream, Unbroken, IsDiff, Base
  <2>3. Base + n \in 1..Len(history)
    <3>1. Len(history) \in Nat /\ Len(Pending) <= Len(history) /\ Base = Len(history) - Len(Pending)
      BY CoverTypes, LenProperties DEF StreamInv, Stream, Unbroken, Base, Before, Histories
    <3>. QED BY <1>5, <2>0, <3>1
  <2>. QED BY <1>3, <1>9, <2>1, <2>2, <2>3 DEF AtBase
<1>11. SnapshotCovers'
  BY <1>3, <1>4, <1>6, <1>10 DEF SnapshotCovers
<1>12. AnswersCover' /\ BookCovers'
  BY <1>1 DEF AnswersCover, BookCovers
<1>. QED BY <1>1, <1>9, <1>11, <1>12

\* A level that is shown at w or above is shown at anything below.
LEMMA ShowsLess ==
  ASSUME NEW b \in Contents, NEW ops \in Seq(BookOp), NEW l \in Levels, NEW w \in Nat,
         WillShow(b, ops, l, w), NEW v \in Nat, v <= w
  PROVE  WillShow(b, ops, l, v)
<1>1. /\ b[l] \in Nat
      /\ \A i \in 1..Len(ops) : ops[i].kind # "clear" => ops[i].changes[l] \in Nat
  <2>1. \A i \in 1..Len(ops) : ops[i] \in BookOp
    BY ElementOfSeq
  <2>. QED BY <2>1 DEF BookOp, Contents
<1>2. ASSUME NEW i \in 1..Len(ops), Safe(ops[i], l, w)
      PROVE  Safe(ops[i], l, v)
  BY <1>1, <1>2 DEF Safe
<1>3. CASE w = 0
  BY <1>3 DEF WillShow
<1>4. CASE b[l] >= w /\ \A i \in 1..Len(ops) : Safe(ops[i], l, w)
  BY <1>1, <1>2, <1>4 DEF WillShow
<1>5. ASSUME NEW i \in 1..Len(ops), ops[i].kind # "clear", ops[i].changes[l] >= w,
             \A j \in i + 1..Len(ops) : Safe(ops[j], l, w)
      PROVE  WillShow(b, ops, l, v)
  <2>1. ASSUME NEW j \in i + 1..Len(ops) PROVE Safe(ops[j], l, v)
    <3>1. j \in 1..Len(ops)
      BY LenProperties
    <3>. QED BY <1>2, <1>5, <3>1
  <2>2. ops[i].changes[l] >= v
    BY <1>1, <1>5
  <2>. QED BY <1>5, <2>1, <2>2 DEF WillShow
<1>. QED BY <1>3, <1>4, <1>5 DEF WillShow

\* A level that held w or above holds v or above after the first m diffs of P: it did before,
\* or one of the diffs wrote v, and no diff after that wrote anything older.
Reaches(P, m, l, w, v) ==
  \/ /\ v <= w
     /\ \A i \in 1..m : P[i].changes[l] = 0 \/ P[i].changes[l] >= v
  \/ \E j \in 1..m :
       /\ P[j].changes[l] = v
       /\ \A i \in j + 1..m : P[i].changes[l] = 0 \/ P[i].changes[l] >= v

LEMMA LevelFound ==
  ASSUME NEW H, NEW P, NEW k, NEW u, NEW s, NEW n, Stream(H, P, k, u, s, n),
         Before(H, P) \in 1..Len(H), NEW m \in 1..Len(P), NEW l \in Levels
  PROVE  /\ H[Before(H, P) + m].market[l] \in Nat /\ H[Before(H, P)].market[l] \in Nat
         /\ Reaches(P, m, l, H[Before(H, P)].market[l], H[Before(H, P) + m].market[l])
<1>. USE DEF Stream
<1>. DEFINE b == Before(H, P)
            v == H[b + m].market[l]
<1>1. /\ Len(H) \in Nat /\ Len(P) \in Nat /\ m \in Nat /\ b \in Nat /\ b + Len(P) = Len(H)
  BY FinalTypes, DiffChanges DEF Before
<1>2. b \in 1..Len(H) /\ b \in 0..Len(H) /\ b + m \in 1..Len(H) /\ b + m \in b..Len(H)
  BY <1>1
<1>3. v \in Nat /\ H[b].market[l] \in Nat /\ Final(H, b) \in Nat
  BY <1>2, FinalTypes
<1>. HIDE DEF v
<1>4. ASSUME NEW i \in 1..m, P[i].changes[l] # 0
      PROVE  /\ Final(H, b + (i - 1)) < P[i].changes[l]
             /\ P[i].changes[l] = H[b + i].market[l] /\ P[i].changes[l] \in Nat
  <2>1. i \in 1..Len(P) /\ (b + i) - 1 = b + (i - 1)
    BY <1>1
  <2>. QED BY <1>4, <2>1, DiffChanges DEF Unbroken, IsDiff
<1>5. ASSUME NEW j \in 0..m, NEW i \in j + 1..m, v <= Final(H, b + j)
      PROVE  P[i].changes[l] = 0 \/ P[i].changes[l] >= v
  <2>0. i \in 1..m /\ j <= i - 1 /\ j \in Nat /\ i - 1 \in Nat /\ i \in 1..Len(P)
    BY <1>1
  <2>1. /\ i \in 1..m /\ b + j \in 0..Len(H) /\ b + (i - 1) \in 0..Len(H)
        /\ b + j = b + (i - 1) \/ b + j < b + (i - 1)
    BY <1>1, <2>0
  <2>2. Final(H, b + j) <= Final(H, b + (i - 1))
        /\ Final(H, b + j) \in Nat /\ Final(H, b + (i - 1)) \in Nat
    BY <2>1, FinalTypes DEF Rises
  <2>3. CASE P[i].changes[l] # 0
    <3>1. Final(H, b + (i - 1)) < P[i].changes[l] /\ P[i].changes[l] \in Nat
      BY <1>4, <2>1, <2>3
    <3>2. v <= Final(H, b + j)
      BY <1>5
    <3>3. \A x, y, z, c \in Nat : x <= y /\ y <= z /\ z < c => c >= x
      OBVIOUS
    <3>. QED BY <1>3, <2>2, <3>1, <3>2, <3>3, Zenon
  <2>. QED BY <2>3
<1>6. ASSUME v <= Final(H, b) PROVE Reaches(P, m, l, H[b].market[l], v)
  <2>1. v <= H[b].market[l]
    BY <1>2, <1>6 DEF LevelsRise, v
  <2>2. b + 0 = b /\ 0 \in 0..m
    BY <1>1
  <2>3. \A i \in 0 + 1..m : P[i].changes[l] = 0 \/ P[i].changes[l] >= v
    BY <1>5, <1>6, <2>2
  <2>4. \A i \in 1..m : P[i].changes[l] = 0 \/ P[i].changes[l] >= v
    BY <2>3
  <2>. QED BY <2>1, <2>4 DEF Reaches
<1>7. ASSUME NEW j \in 1..m, P[j].changes[l] = v
      PROVE  Reaches(P, m, l, H[b].market[l], v)
  <2>2. v <= Final(H, b + j)
    <3>1. b + j \in 1..Len(H) /\ b + j \in 0..Len(H)
      BY <1>1, <1>2
    <3>2. v # 0 => v = H[b + j].market[l]
      BY <1>4, <1>7
    <3>3. H[b + j].market[l] <= Final(H, b + j) /\ Final(H, b + j) \in Nat
      BY <3>1, FinalTypes DEF LevelsRise
    <3>. QED BY <1>3, <3>2, <3>3
  <2>3. j \in 0..m
    BY <1>1
  <2>4. \A i \in j + 1..m : P[i].changes[l] = 0 \/ P[i].changes[l] >= v
    BY <1>5, <2>2, <2>3
  <2>. QED BY <1>7, <2>4 DEF Reaches
<1>8. v <= Final(H, b) \/ \E j \in 1..m : P[j].changes[l] = v
  BY DEF Written, v
<1>. QED BY <1>3, <1>6, <1>7, <1>8 DEF v

\* The buffer and the next diff leave the diffs on their way.
LEMMA AppliedStream ==
  ASSUME TypeOK, StreamInv, UNCHANGED <<history, market, unsent, sentId, lastId>>,
         NEW ds, TakesAll(diffs_, wire, Pending, Pending', ds)
  PROVE  /\ ds \in Seq(Diff) /\ Len(ds) = Len(diffs_) + 1 /\ Len(ds) <= Len(Pending)
         /\ \A i \in 1..Len(ds) : ds[i] = Pending[i]
         /\ Len(ds) \in Nat /\ Len(ds) \in 1..Len(Pending)
         /\ StreamInv' /\ Base' = Base + Len(ds)
         /\ Base + Len(ds) \in 1..Len(history)
<1>2. /\ Len(ds) = Len(diffs_) + 1 /\ ds \in Seq(Diff) /\ Len(ds) <= Len(Pending)
      /\ \A i \in 1..Len(ds) : ds[i] = Pending[i]
      /\ Pending' \in Seq(Diff) /\ IsRest(Pending', Pending, Len(ds))
  <2>1. diffs_ \in Seq(Diff) /\ wire \in Seq(Diff)
    BY CoverTypes
  <2>. QED BY <2>1, DrainedPending
<1>3. Len(ds) \in Nat /\ Len(diffs_) \in Nat /\ Len(Pending) \in Nat
  BY <1>2, CoverTypes, LenProperties
<1>4. Len(ds) \in 0..Len(Pending) /\ Len(ds) \in 1..Len(Pending)
  BY <1>2, <1>3
<1>5. /\ Stream(history, Pending', market, unsent, sentId, lastId)
      /\ Before(history, Pending') = Base + Len(ds)
  BY <1>2, <1>4, StreamDrop DEF StreamInv, Base
<1>6. Base + Len(ds) \in 1..Len(history)
  <2>1. Len(history) \in Nat /\ Len(Pending) <= Len(history) /\ Base = Len(history) - Len(Pending)
    BY CoverTypes, LenProperties DEF StreamInv, Stream, Unbroken, Base, Before, Histories
  <2>. QED BY <1>3, <1>4, <2>1
<1>. QED BY <1>2, <1>3, <1>4, <1>5, <1>6 DEF StreamInv, Base

LEMMA ForwardCover ==
  ASSUME PhaseInv, LosslessInv, wire # <<>>, wire' = Tail(wire), ForwardDiff(Head(wire)),
         UNCHANGED <<history, market, unsent, sentId, lastId, snapshots, book>>
  PROVE  LosslessInv'
<1>. USE DEF LosslessInv, PhaseInv
<1>. DEFINE d == Head(wire)
            ds == Append(diffs_, d)
<1>1. /\ snapshot_was_processed_ /\ bookOps' = Append(bookOps, DiffOp(d))
      /\ last_diff_update_id_' = d.final /\ UNCHANGED <<flags, diffs_>>
  BY DEF ForwardDiff
<1>2. AtBase /\ diffs_ = <<>> /\ ~snapshot_request_in_flight_
      /\ ~need_process_current_snapshot_ /\ ~need_make_snapshot_
  BY <1>1 DEF BookCovers, OneFlag
<1>3. d \in Diff
  BY CoverTypes, HeadTailProperties
<1>4. /\ Len(ds) = 1 /\ 1 \in 1..Len(Pending) /\ d = Pending[1]
      /\ StreamInv' /\ Base' = Base + 1 /\ Base + 1 \in 1..Len(history)
  <2>1. /\ Len(ds) = Len(diffs_) + 1 /\ \A i \in 1..Len(ds) : ds[i] = Pending[i]
        /\ Len(ds) \in 1..Len(Pending) /\ StreamInv' /\ Base' = Base + Len(ds)
        /\ Base + Len(ds) \in 1..Len(history)
    <3>1. TakesAll(diffs_, wire, Pending, Pending', ds)
      BY <1>1, <1>2 DEF TakesAll, Pending
    <3>. HIDE DEF ds
    <3>. QED BY <3>1, AppliedStream
  <2>2. Len(ds) = 1 /\ ds[1] = d
    <3>1. ds = Append(<<>>, d)
      BY <1>2
    <3>. HIDE DEF ds, d
    <3>2. Append(<<>>, d) = <<d>>
      OBVIOUS
    <3>. QED BY <3>1, <3>2
  <2>. HIDE DEF ds, d
  <2>3. 1 \in 1..Len(ds) /\ 1 \in 1..Len(Pending) /\ ds[1] = Pending[1]
    BY <2>1, <2>2
  <2>. QED BY <2>1, <2>2, <2>3
<1>. HIDE DEF ds, d
<1>5. AtBase'
  <2>1. d.final = Final(history, Base + 1)
    BY <1>4 DEF StreamInv, Stream, Unbroken, IsDiff, Base
  <2>. QED BY <1>1, <1>4, <2>1 DEF AtBase
<1>6. ASSUME NEW l \in Levels PROVE WillShow(book, bookOps', l, history[Base + 1].market[l])
  <2>. DEFINE more == <<DiffOp(d)>>
              v == history[Base + 1].market[l]
              w == history[Base].market[l]
  <2>1. /\ DiffOp(d) \in BookOp /\ DiffOp(d).kind # "clear" /\ DiffOp(d).changes = d.changes
    BY <1>3, OpTypes DEF DiffOp
  <2>2. /\ more \in Seq(BookOp) /\ Len(more) = 1 /\ more[1] = DiffOp(d)
        /\ bookOps' = bookOps \o more
    BY <1>1, <2>1, CoverTypes, AppendIsConcat
  <2>3. /\ v \in Nat /\ w \in Nat
        /\ \/ v <= w /\ (d.changes[l] = 0 \/ d.changes[l] >= v)
           \/ d.changes[l] = v
    <3>1. Before(history, Pending) \in 1..Len(history)
      BY <1>2 DEF AtBase, Base
    <3>2. v \in Nat /\ w \in Nat /\ Reaches(Pending, 1, l, w, v)
      BY <1>4, <3>1, LevelFound DEF StreamInv, Base
    <3>. HIDE DEF v, w
    <3>. QED BY <1>4, <3>2 DEF Reaches
  <2>. HIDE DEF more, v, w
  <2>4. CASE v <= w /\ (d.changes[l] = 0 \/ d.changes[l] >= v)
    <3>1. WillShow(book, bookOps, l, w)
      BY <1>1 DEF BookCovers, w
    <3>2. WillShow(book, bookOps, l, v)
      BY <2>3, <2>4, <3>1, CoverTypes, ShowsLess
    <3>3. \A j \in 1..Len(more) : Safe(more[j], l, v)
      BY <2>1, <2>2, <2>4 DEF Safe
    <3>4. WillShow(book, bookOps \o more, l, v)
      BY <2>2, <3>2, <3>3, CoverTypes, ShowsStill
    <3>. QED BY <2>2, <3>4 DEF v
  <2>5. CASE d.changes[l] = v
    <3>1. 1 \in 1..Len(more) /\ more[1].kind # "clear" /\ more[1].changes[l] >= v
          /\ \A j \in 1 + 1..Len(more) : Safe(more[j], l, v)
      BY <2>1, <2>2, <2>3, <2>5
    <3>2. WillShow(book, bookOps \o more, l, v)
      BY <2>2, <3>1, CoverTypes, ShowsNew
    <3>. QED BY <2>2, <3>2 DEF v
  <2>. QED BY <2>3, <2>4, <2>5
<1>7. BookCovers'
  <2>1. \A l \in Levels : WillShow(book', bookOps', l, history'[Base'].market[l])
    BY <1>4, <1>6
  <2>2. diffs_' = <<>>
    BY <1>1, <1>2
  <2>. QED BY <1>5, <2>1, <2>2 DEF BookCovers
<1>8. SnapshotCovers'
  BY <1>1, <1>2 DEF SnapshotCovers, flags
<1>9. AnswersCover'
  BY <1>1 DEF AnswersCover
<1>. QED BY <1>1, <1>2, <1>4, <1>7, <1>8, <1>9 DEF flags

\* A diff that has to wait: it moves into the buffer.
LEMMA BufferCover ==
  ASSUME PhaseInv, LosslessInv, wire # <<>>, wire' = Tail(wire),
         RequestSnapshot(Head(wire)) \/ AwaitSnapshot(Head(wire)),
         UNCHANGED <<history, market, unsent, sentId, lastId, snapshots, book>>
  PROVE  LosslessInv'
<1>. USE DEF LosslessInv, PhaseInv
<1>. DEFINE d == Head(wire)
<1>1. diffs_' = Append(diffs_, d) /\ UNCHANGED <<last_diff_update_id_, last_snapshot_>>
  BY DEF RequestSnapshot, AwaitSnapshot
<1>2. /\ snapshot_request_in_flight_' /\ ~need_make_snapshot_'
      /\ ~need_process_current_snapshot_' /\ ~snapshot_was_processed_'
  BY DEF RequestSnapshot, AwaitSnapshot, SpawnRequest, OneFlag, flags
<1>3. Pending' = Pending
  BY <1>1, CoverTypes, BufferedStillPending DEF Pending
<1>4. d \in Diff
  BY CoverTypes, HeadTailProperties
<1>. HIDE DEF d
<1>5. /\ diffs_' # <<>>
      /\ diffs_ # <<>> => diffs_'[1] = diffs_[1]
  <2>1. /\ diffs_' \in Seq(Diff) /\ Len(diffs_') = Len(diffs_) + 1
        /\ \A i \in 1..Len(diffs_) : diffs_'[i] = diffs_[i]
    BY <1>1, <1>4, CoverTypes, AppendProperties
  <2>2. Len(diffs_) \in Nat /\ (diffs_ # <<>> => Len(diffs_) # 0)
    BY CoverTypes, EmptySeq, LenProperties
  <2>3. diffs_' # <<>>
    <3>. SUFFICES ASSUME diffs_' = <<>> PROVE FALSE
      OBVIOUS
    <3>1. Len(diffs_') = 0
      OBVIOUS
    <3>. QED BY <2>1, <2>2, <3>1
  <2>. QED BY <2>1, <2>2, <2>3
<1>6. StreamInv'
  BY <1>3, SameStream
<1>7. AnswersCover'
  BY <1>5 DEF AnswersCover
<1>. QED BY <1>2, <1>5, <1>6, <1>7 DEF SnapshotCovers, BookCovers

\* The operations that DrainBuffer sends leave a level where it is after the n-th diff.
LEMMA DrainedShow ==
  ASSUME TypeOK, NEW ds \in Seq(Diff), NEW n \in 0..Len(ds), need_process_current_snapshot_,
         NEW l \in Levels, NEW w \in Nat, w <= last_snapshot_.levels[l], NEW v \in Nat,
         Reaches(ds, n, l, w, v)
  PROVE  WillShow(book, bookOps \o Drained(ds, n), l, v)
<1>. DEFINE more == Drained(ds, n)
<1>1. /\ more \in Seq(BookOp) /\ Len(more) = n + 1 /\ more[1] = SnapshotOp(last_snapshot_)
      /\ \A j \in 1..n : more[j + 1] = DiffOp(ds[j])
  BY CoverTypes, DrainedType, DrainedElements
<1>2. n \in Nat /\ \A d : DiffOp(d).kind = "diff" /\ DiffOp(d).changes = d.changes
  BY LenProperties DEF DiffOp
<1>. HIDE DEF more
<1>3. ASSUME NEW i \in 1..n, ds[i].changes[l] = 0 \/ ds[i].changes[l] >= v
      PROVE  Safe(more[i + 1], l, v)
  <2>1. more[i + 1].kind = "diff" /\ more[i + 1].changes = ds[i].changes
    <3>1. more[i + 1] = DiffOp(ds[i])
      BY <1>1
    <3>. QED BY <1>2, <3>1
  <2>. QED BY <1>3, <2>1 DEF Safe
<1>4. ASSUME NEW j \in 0..n, more[j + 1].kind # "clear", more[j + 1].changes[l] >= v,
             \A i \in j + 1..n : ds[i].changes[l] = 0 \/ ds[i].changes[l] >= v
      PROVE  WillShow(book, bookOps \o more, l, v)
  <2>1. j + 1 \in 1..Len(more)
    BY <1>1, <1>2
  <2>2. ASSUME NEW i \in (j + 1) + 1..Len(more) PROVE Safe(more[i], l, v)
    <3>1. i - 1 \in j + 1..n /\ i - 1 \in 1..n /\ (i - 1) + 1 = i
      BY <1>1, <1>2
    <3>2. Safe(more[(i - 1) + 1], l, v)
      BY <1>3, <1>4, <3>1
    <3>. QED BY <3>1, <3>2
  <2>. QED BY <1>1, <1>4, <2>1, <2>2, CoverTypes, ShowsNew
<1>5. CASE v <= w /\ \A i \in 1..n : ds[i].changes[l] = 0 \/ ds[i].changes[l] >= v
  <2>1. more[0 + 1].kind # "clear" /\ more[0 + 1].changes = last_snapshot_.levels
    BY <1>1 DEF SnapshotOp
  <2>2. last_snapshot_.levels[l] \in Nat
    BY CoverTypes DEF Snapshot, Contents
  <2>3. more[0 + 1].changes[l] >= v
    BY <1>5, <2>1, <2>2
  <2>4. 0 \in 0..n /\ \A i \in 0 + 1..n : ds[i].changes[l] = 0 \/ ds[i].changes[l] >= v
    BY <1>2, <1>5
  <2>. QED BY <1>4, <2>1, <2>3, <2>4 DEF more
<1>6. ASSUME NEW j \in 1..n, ds[j].changes[l] = v,
             \A i \in j + 1..n : ds[i].changes[l] = 0 \/ ds[i].changes[l] >= v
      PROVE  WillShow(book, bookOps \o more, l, v)
  <2>1. more[j + 1].kind # "clear" /\ more[j + 1].changes[l] = v
    <3>1. more[j + 1] = DiffOp(ds[j])
      BY <1>1
    <3>. QED BY <1>2, <1>6, <3>1
  <2>2. j \in 0..n
    BY <1>2
  <2>. QED BY <1>4, <1>6, <2>1, <2>2
<1>. QED BY <1>5, <1>6 DEF Reaches, more

LEMMA DrainCover ==
  ASSUME PhaseInv, LosslessInv, wire # <<>>, wire' = Tail(wire), DrainBuffer(Head(wire)),
         UNCHANGED <<history, market, unsent, sentId, lastId, snapshots, book>>
  PROVE  LosslessInv'
<1>. USE DEF LosslessInv, PhaseInv
<1>. DEFINE ds == Append(diffs_, Head(wire))
<1>1. PICK n \in 0..Len(ds) :
        /\ Applies(ds, last_diff_update_id_, n)
        /\ bookOps' = bookOps \o Drained(ds, n)
        /\ last_diff_update_id_' = FinalOf(ds, n, last_diff_update_id_)
        /\ diffs_' = <<>>
        /\ need_make_snapshot_' = Broken(ds, n)
        /\ snapshot_was_processed_' = LiveAfter(ds, n)
  BY DEF DrainBuffer
<1>2. /\ ~need_make_snapshot_ /\ ~snapshot_request_in_flight_
      /\ ~need_process_current_snapshot_' /\ ~snapshot_request_in_flight_'
      /\ Buffers(Head(wire))
  BY DEF DrainBuffer
<1>3. snapshot_was_processed_ \/ need_process_current_snapshot_
  BY <1>2 DEF OneFlag
<1>4. AtBase
  BY <1>3 DEF SnapshotCovers, BookCovers
<1>5. TakesAll(diffs_, wire, Pending, Pending', ds)
  BY <1>1 DEF TakesAll, Pending
<1>6. wire \in Seq(Diff) /\ Head(wire) \in Diff
  BY CoverTypes, HeadTailProperties
<1>7. diffs_ = <<>> => ds[1] = Head(wire)
  <2>1. Append(<<>>, Head(wire)) = <<Head(wire)>>
    OBVIOUS
  <2>. QED BY <2>1
<1>. HIDE DEF ds
<1>8. /\ ds \in Seq(Diff) /\ Len(ds) = Len(diffs_) + 1 /\ Len(ds) <= Len(Pending)
      /\ \A i \in 1..Len(ds) : ds[i] = Pending[i]
      /\ Len(ds) \in Nat /\ Len(ds) \in 1..Len(Pending)
      /\ StreamInv' /\ Base' = Base + Len(ds) /\ Base + Len(ds) \in 1..Len(history)
  BY <1>5, AppliedStream
<1>9. need_process_current_snapshot_
  <2>. SUFFICES ASSUME snapshot_was_processed_ PROVE FALSE
    BY <1>3
  <2>1. diffs_ = <<>> /\ PacketLost(Head(wire), last_diff_update_id_)
    BY <1>2 DEF BookCovers, Buffers
  <2>2. 1 \in 1..Len(Pending) /\ Pending[1] = Head(wire)
    BY <1>7, <1>8, <2>1
  <2>3. ~PacketLost(Pending[1], Final(history, Base + (1 - 1)))
    BY <2>2, NoneLost DEF StreamInv, Base
  <2>4. Base + (1 - 1) = Base
    BY <1>4 DEF AtBase
  <2>. QED BY <1>4, <2>1, <2>2, <2>3, <2>4 DEF AtBase
<1>10. n = Len(ds) /\ last_diff_update_id_' = Final(history, Base + n)
  <2>1. last_diff_update_id_ = Final(history, Before(history, Pending))
    BY <1>4 DEF AtBase, Base
  <2>2. Applies(ds, Final(history, Before(history, Pending)), n)
    BY <1>1, <2>1
  <2>3. /\ n = Len(ds)
        /\ FinalOf(ds, n, Final(history, Before(history, Pending)))
             = Final(history, Before(history, Pending) + n)
    BY <1>1, <1>8, <2>2, AllApplied DEF StreamInv
  <2>. QED BY <1>1, <2>1, <2>3 DEF Base
<1>11. ~need_make_snapshot_' /\ AtBase'
  <2>1. ~Broken(ds, n)
    BY <1>8, <1>10 DEF Broken
  <2>2. AtBase'
    BY <1>8, <1>10 DEF AtBase
  <2>. QED BY <1>1, <2>1, <2>2
<1>12. ASSUME NEW l \in Levels PROVE WillShow(book', bookOps', l, history'[Base'].market[l])
  <2>. DEFINE v == history[Base + n].market[l]
              w == history[Base].market[l]
  <2>1. w <= last_snapshot_.levels[l]
    BY <1>4, <1>9 DEF SnapshotCovers, Covers, AtBase
  <2>2. v \in Nat /\ w \in Nat /\ Reaches(Pending, n, l, w, v)
    <3>1. Before(history, Pending) \in 1..Len(history) /\ n \in 1..Len(Pending)
      BY <1>4, <1>8, <1>10 DEF AtBase, Base
    <3>. QED BY <3>1, LevelFound DEF StreamInv, Base
  <2>3. n \in Nat /\ \A i \in 1..n : Pending[i] = ds[i]
    BY <1>8, <1>10
  <2>. HIDE DEF v, w
  <2>4. Reaches(ds, n, l, w, v)
    <3>1. \A j \in 1..n : \A i \in j + 1..n : i \in 1..n
      BY <2>3
    <3>. QED BY <2>2, <2>3, <3>1 DEF Reaches
  <2>5. WillShow(book, bookOps \o Drained(ds, n), l, v)
    BY <1>1, <1>8, <1>9, <2>1, <2>2, <2>4, DrainedShow
  <2>6. history'[Base'].market[l] = v
    BY <1>8, <1>10 DEF v
  <2>. QED BY <1>1, <2>5, <2>6
<1>13. BookCovers'
  BY <1>1, <1>11, <1>12 DEF BookCovers
<1>14. AnswersCover'
  <2>1. requests + Len(snapshots) <= 0
    BY <1>2 DEF OneRequestAtATime
  <2>2. requests \in Nat /\ Len(snapshots) \in Nat
    BY CoverTypes DEF TypeOK
  <2>3. Len(snapshots') = 0
    BY <2>1, <2>2
  <2>. QED BY <2>3 DEF AnswersCover
<1>. QED BY <1>2, <1>8, <1>11, <1>13, <1>14 DEF SnapshotCovers

LEMMA ProcessDiffCover ==
  ASSUME PhaseInv, LosslessInv, ProcessDiff
  PROVE  LosslessInv'
<1>1. /\ wire # <<>> /\ wire' = Tail(wire)
      /\ UNCHANGED <<history, market, unsent, sentId, lastId, snapshots, book>>
  BY DEF ProcessDiff, exchange, trading
<1>2. \/ ForwardDiff(Head(wire)) \/ RequestSnapshot(Head(wire))
      \/ AwaitSnapshot(Head(wire)) \/ DrainBuffer(Head(wire))
  BY DEF ProcessDiff
<1>3. CASE ForwardDiff(Head(wire))
  BY <1>1, <1>3, ForwardCover
<1>4. CASE RequestSnapshot(Head(wire)) \/ AwaitSnapshot(Head(wire))
  BY <1>1, <1>4, BufferCover
<1>5. CASE DrainBuffer(Head(wire))
  BY <1>1, <1>5, DrainCover
<1>. QED BY <1>2, <1>3, <1>4, <1>5

LEMMA NextCover ==
  ASSUME MaxExternal = 0, IdSteps = {1}, CoverInv, [Next]_vars
  PROVE  CoverInv'
<1>. USE DEF CoverInv
<1>1. PhaseInv' /\ TypeOK
  BY NextPhase DEF PhaseInv
<1>. SUFFICES ASSUME losses' = 0 PROVE LosslessInv'
  BY <1>1
<1>2. CASE Update
  BY <1>1, <1>2, UpdateCover DEF Update
<1>3. CASE Publish
  BY <1>1, <1>3, PublishCover DEF Publish
<1>4. CASE LoseDiff
  BY <1>1, <1>4 DEF LoseDiff, TypeOK
<1>5. CASE AnswerRequest \/ FailRequest \/ ReturnUnstarted \/ ExternalSnapshot
  <2>1. UNCHANGED losses
    BY <1>5 DEF AnswerRequest, FailRequest, ReturnUnstarted, ExternalSnapshot, exchange
  <2>. QED BY <1>5, <2>1, RequestCover
<1>6. CASE ProcessSnapshot
  BY <1>6, SnapshotCover DEF ProcessSnapshot, exchange
<1>7. CASE ProcessDiff
  BY <1>7, ProcessDiffCover DEF ProcessDiff, exchange
<1>8. CASE ExecuteBookOp
  BY <1>1, <1>8, ExecuteCover DEF ExecuteBookOp, exchange
<1>9. CASE UNCHANGED vars
  <2>1. /\ UNCHANGED <<history, market, unsent, sentId, lastId, losses, wire, snapshots>>
        /\ UNCHANGED <<last_diff_update_id_, last_snapshot_, flags, diffs_, bookOps, book>>
    BY <1>9 DEF vars, exchange, trading, sync
  <2>2. LosslessInv /\ Pending' = Pending
    BY <2>1 DEF Pending
  <2>3. StreamInv' /\ Base' = Base
    BY <2>1, <2>2, SameStream
  <2>. QED BY <2>1, <2>2, <2>3
       DEF LosslessInv, AnswersCover, SnapshotCovers, BookCovers, AtBase, Final, WillShow, Safe, flags
<1>. QED BY <1>2, <1>3, <1>4, <1>5, <1>6, <1>7, <1>8, <1>9 DEF Next

\* With ids that follow one another and no snapshot from outside, and while no diff has been
\* lost: a live book that has executed everything sent to it is, at no level, older than the
\* last diff that OrderBookSync took in.
THEOREM NothingMissed ==
  ASSUME MaxExternal = 0, IdSteps = {1}
  PROVE  Spec => [](losses = 0 => NoUpdateMissed)
<1>1. Init => CoverInv
  BY InitCover
<1>2. CoverInv /\ [Next]_vars => CoverInv'
  BY NextCover
<1>3. CoverInv => (losses = 0 => NoUpdateMissed)
  <2>. SUFFICES ASSUME CoverInv, losses = 0, snapshot_was_processed_, bookOps = <<>>,
                       NEW i \in 1..Len(history), history[i].final = last_diff_update_id_,
                       NEW l \in Levels
                PROVE  book[l] >= history[i].market[l]
    BY DEF NoUpdateMissed
  <2>1. AtBase /\ WillShow(book, bookOps, l, history[Base].market[l]) /\ StreamInv /\ TypeOK
    BY DEF CoverInv, LosslessInv, BookCovers, PhaseInv
  <2>2. i = Base
    <3>1. /\ i \in 0..Len(history) /\ Base \in 0..Len(history)
          /\ Final(history, i) = Final(history, Base)
      BY <2>1 DEF AtBase, Final
    <3>2. Final(history, i) \in Nat /\ i \in Nat /\ Base \in Nat
      BY <2>1, <3>1, CoverTypes, FinalTypes
    <3>3. ~(i < Base) /\ ~(Base < i)
      BY <2>1, <3>1, <3>2 DEF StreamInv, Stream, Rises
    <3>. QED BY <3>2, <3>3
  <2>3. book[l] >= history[Base].market[l] \/ history[Base].market[l] = 0
    BY <2>1 DEF WillShow
  <2>4. book[l] \in Nat
    BY <2>1, CoverTypes DEF Contents
  <2>. QED BY <2>2, <2>3, <2>4
<1>. QED BY <1>1, <1>2, <1>3, PTL DEF Spec

-----------------------------------------------------------------------------
(* The chain of diffs in the book, whatever is lost and wherever snapshots *)
(* come from.                                                              *)

\* An operation that the book, at diff a since its last Clear, may execute; it is then at z.
Moves(a, op, z) ==
  \/ op.kind = "clear" /\ z = 0
  \/ op.kind = "snapshot" /\ z = a
  \/ op.kind = "diff" /\ (a = 0 \/ Continues(op, a)) /\ z = op.final

\* The operations bring the book from a to z, at[i] being where it is after i of them.
Brings(ops, a, z) ==
  \E at \in [0..Len(ops) -> Nat] :
    /\ at[0] = a /\ at[Len(ops)] = z
    /\ \A i \in 1..Len(ops) : Moves(at[i - 1], ops[i], at[i])

LEMMA BringsNothing ==
  ASSUME NEW ops, Len(ops) = 0, NEW a \in Nat
  PROVE  Brings(ops, a, a)
<1>. DEFINE at == [i \in 0..0 |-> a]
<1>1. at \in [0..Len(ops) -> Nat] /\ at[0] = a /\ at[Len(ops)] = a
  OBVIOUS
<1>. HIDE DEF at
<1>. QED BY <1>1 DEF Brings

LEMMA BringsOne ==
  ASSUME NEW ops, Len(ops) = 1, NEW a \in Nat, NEW z \in Nat, Moves(a, ops[1], z)
  PROVE  Brings(ops, a, z)
<1>. DEFINE at == [i \in 0..1 |-> IF i = 0 THEN a ELSE z]
<1>1. at \in [0..Len(ops) -> Nat] /\ at[0] = a /\ at[1] = z
  OBVIOUS
<1>. HIDE DEF at
<1>2. \A i \in 1..Len(ops) : Moves(at[i - 1], ops[i], at[i])
  <2>. SUFFICES ASSUME NEW i \in 1..1 PROVE Moves(at[i - 1], ops[i], at[i])
    OBVIOUS
  <2>1. i = 1 /\ i - 1 = 0
    OBVIOUS
  <2>. QED BY <1>1, <2>1
<1>. QED BY <1>1, <1>2 DEF Brings

LEMMA BringsBoth ==
  ASSUME NEW ops \in Seq(BookOp), NEW more \in Seq(BookOp), NEW a, NEW y, NEW z,
         Brings(ops, a, y), Brings(more, y, z)
  PROVE  Brings(ops \o more, a, z)
<1>. DEFINE k == Len(ops)
            all == ops \o more
<1>1. /\ k \in Nat /\ Len(more) \in Nat /\ Len(all) = k + Len(more)
      /\ \A i \in 1..k : all[i] = ops[i]
      /\ \A j \in 1..Len(more) : all[k + j] = more[j]
  BY ConcatParts, LenProperties
<1>2. PICK f \in [0..k -> Nat] :
        f[0] = a /\ f[k] = y /\ \A i \in 1..k : Moves(f[i - 1], ops[i], f[i])
  BY DEF Brings
<1>3. PICK g \in [0..Len(more) -> Nat] :
        /\ g[0] = y /\ g[Len(more)] = z
        /\ \A i \in 1..Len(more) : Moves(g[i - 1], more[i], g[i])
  BY DEF Brings
<1>. DEFINE at == [i \in 0..Len(all) |-> IF i <= k THEN f[i] ELSE g[i - k]]
<1>. HIDE DEF all
<1>4. at \in [0..Len(all) -> Nat]
  <2>. SUFFICES ASSUME NEW i \in 0..Len(all) PROVE (IF i <= k THEN f[i] ELSE g[i - k]) \in Nat
    OBVIOUS
  <2>1. (i <= k => i \in 0..k) /\ (~(i <= k) => i - k \in 0..Len(more))
    BY <1>1
  <2>. QED BY <2>1
<1>5. /\ \A i \in 0..k : at[i] = f[i]
      /\ \A j \in 0..Len(more) : at[k + j] = g[j]
  <2>1. ASSUME NEW i \in 0..k PROVE at[i] = f[i]
    <3>1. i \in 0..Len(all) /\ i <= k
      BY <1>1
    <3>. QED BY <3>1
  <2>2. ASSUME NEW j \in 0..Len(more) PROVE at[k + j] = g[j]
    <3>1. k + j \in 0..Len(all) /\ (k + j) - k = j /\ (k + j <= k => j = 0 /\ k + j = k)
      BY <1>1
    <3>2. at[k + j] = IF k + j <= k THEN f[k + j] ELSE g[(k + j) - k]
      BY <3>1
    <3>. HIDE DEF at
    <3>3. CASE k + j <= k
      BY <1>2, <1>3, <3>1, <3>2, <3>3
    <3>4. CASE ~(k + j <= k)
      BY <3>1, <3>2, <3>4
    <3>. QED BY <3>3, <3>4
  <2>. QED BY <2>1, <2>2
<1>. HIDE DEF at
<1>6. at[0] = a /\ at[Len(all)] = z
  <2>1. 0 \in 0..k /\ Len(more) \in 0..Len(more)
    BY <1>1
  <2>. QED BY <1>1, <1>2, <1>3, <1>5, <2>1
<1>7. ASSUME NEW i \in 1..Len(all) PROVE Moves(at[i - 1], all[i], at[i])
  <2>1. CASE i <= k
    <3>1. i \in 1..k /\ i \in 0..k /\ i - 1 \in 0..k
      BY <1>1, <2>1
    <3>. QED BY <1>1, <1>2, <1>5, <3>1
  <2>2. CASE ~(i <= k)
    <3>1. PICK j \in 1..Len(more) : i = k + j /\ i - 1 = k + (j - 1)
      <4>1. i - k \in 1..Len(more) /\ i = k + (i - k) /\ i - 1 = k + ((i - k) - 1)
        BY <1>1, <2>2
      <4>. QED BY <4>1
    <3>2. j \in 0..Len(more) /\ j - 1 \in 0..Len(more)
      BY <1>1
    <3>3. at[i] = g[j] /\ at[i - 1] = g[j - 1] /\ all[i] = more[j]
      BY <1>1, <1>5, <3>1, <3>2
    <3>. QED BY <1>3, <3>3
  <2>. QED BY <2>1, <2>2
<1>. QED BY <1>4, <1>6, <1>7 DEF Brings, all

LEMMA BringsHead ==
  ASSUME NEW ops \in Seq(BookOp), ops # <<>>, NEW a, NEW z, Brings(ops, a, z)
  PROVE  \E y \in Nat : Moves(a, Head(ops), y) /\ Brings(Tail(ops), y, z)
<1>. DEFINE k == Len(ops)
            rest == Tail(ops)
<1>1. /\ k \in Nat \ {0} /\ Head(ops) = ops[1]
      /\ Len(rest) = k - 1 /\ \A i \in 1..k - 1 : rest[i] = ops[i + 1]
  <2>1. Len(ops) \in Nat /\ Len(ops) # 0
    BY EmptySeq, LenProperties
  <2>. QED BY <2>1, HeadTailProperties
<1>2. PICK f \in [0..k -> Nat] :
        f[0] = a /\ f[k] = z /\ \A i \in 1..k : Moves(f[i - 1], ops[i], f[i])
  BY DEF Brings
<1>. HIDE DEF rest
<1>. DEFINE at == [i \in 0..Len(rest) |-> f[i + 1]]
<1>3. \A i \in 0..Len(rest) : i + 1 \in 0..k
  BY <1>1
<1>4. at \in [0..Len(rest) -> Nat] /\ \A i \in 0..Len(rest) : at[i] = f[i + 1]
  BY <1>3
<1>. HIDE DEF at
<1>5. at[0] = f[1] /\ at[Len(rest)] = z /\ 1 \in 1..k /\ 1 \in 0..k
  <2>1. 0 \in 0..Len(rest) /\ Len(rest) \in 0..Len(rest) /\ Len(rest) + 1 = k /\ 0 + 1 = 1
    BY <1>1
  <2>2. at[0] = f[0 + 1] /\ at[Len(rest)] = f[Len(rest) + 1]
    BY <1>4, <2>1
  <2>. QED BY <1>1, <1>2, <2>1, <2>2
<1>6. ASSUME NEW i \in 1..Len(rest) PROVE Moves(at[i - 1], rest[i], at[i])
  <2>1. /\ i \in 1..k - 1 /\ i + 1 \in 1..k /\ (i + 1) - 1 = i /\ (i - 1) + 1 = i
        /\ i \in 0..Len(rest) /\ i - 1 \in 0..Len(rest)
    BY <1>1
  <2>2. at[i - 1] = f[i] /\ at[i] = f[i + 1] /\ rest[i] = ops[i + 1]
    BY <1>1, <1>4, <2>1
  <2>3. Moves(f[(i + 1) - 1], ops[i + 1], f[i + 1])
    BY <1>2, <2>1
  <2>. QED BY <2>1, <2>2, <2>3
<1>7. Brings(rest, f[1], z)
  BY <1>4, <1>5, <1>6 DEF Brings
<1>8. Moves(a, Head(ops), f[1])
  <2>1. Moves(f[1 - 1], ops[1], f[1])
    BY <1>2, <1>5
  <2>. QED BY <1>1, <1>2, <2>1
<1>9. f[1] \in Nat
  BY <1>2, <1>5
<1>. QED BY <1>7, <1>8, <1>9 DEF rest

\* The diffs of ds follow one another, with gaps where some were lost.
Chain(ds) ==
  /\ \A i \in 1..Len(ds) : ds[i].previous < ds[i].first /\ ds[i].first <= ds[i].final
  /\ \A i, j \in 1..Len(ds) : i < j => ds[i].final <= ds[j].previous

\* The diffs of ds lie between the ids x and s.
Between(x, ds, s) == \A i \in 1..Len(ds) : x <= ds[i].previous /\ ds[i].final <= s

\* The buffer ds and then the diffs w on the wire, after x and up to s.
InOrder(x, ds, w, s) ==
  /\ Chain(ds) /\ Chain(w) /\ Between(x, ds, s) /\ Between(x, w, s) /\ x <= s
  /\ \A i \in 1..Len(ds), j \in 1..Len(w) : ds[i].final <= w[j].previous

LEMMA DiffIds ==
  ASSUME NEW ds \in Seq(Diff)
  PROVE  /\ Len(ds) \in Nat
         /\ \A i \in 1..Len(ds) :
              ds[i].first \in Nat /\ ds[i].final \in Nat /\ ds[i].previous \in Nat
<1>1. Len(ds) \in Nat /\ \A i \in 1..Len(ds) : ds[i] \in Diff
  BY LenProperties, ElementOfSeq
<1>. QED BY <1>1 DEF Diff

\* A diff is lost, or has been taken from the wire.
LEMMA OrderLost ==
  ASSUME NEW x, NEW s, NEW ds, NEW w \in Seq(Diff), w # <<>>, InOrder(x, ds, w, s)
  PROVE  InOrder(x, ds, Tail(w), s)
<1>. DEFINE v == Tail(w)
<1>1. /\ Len(w) \in Nat /\ Len(v) = Len(w) - 1
      /\ \A i \in 1..Len(v) : v[i] = w[i + 1]
  BY HeadTailProperties, LenProperties, EmptySeq
<1>. HIDE DEF v
<1>2. \A i \in 1..Len(v) : i + 1 \in 1..Len(w)
  BY <1>1
<1>3. \A i, j \in 1..Len(v) : i < j => i + 1 < j + 1
  BY <1>1
<1>4. Chain(v)
  BY <1>1, <1>2, <1>3 DEF Chain, InOrder
<1>5. Between(x, v, s)
  BY <1>1, <1>2 DEF Between, InOrder
<1>6. \A i \in 1..Len(ds), j \in 1..Len(v) : ds[i].final <= v[j].previous
  BY <1>1, <1>2 DEF InOrder
<1>. QED BY <1>4, <1>5, <1>6 DEF InOrder, v

\* A diff is sent.
LEMMA OrderSent ==
  ASSUME NEW x \in Nat, NEW s \in Nat, NEW ds \in Seq(Diff), NEW w \in Seq(Diff),
         InOrder(x, ds, w, s), NEW d \in Diff, d.previous = s, s < d.first, d.first <= d.final
  PROVE  InOrder(x, ds, Append(w, d), d.final)
<1>. DEFINE v == Append(w, d)
<1>1. /\ Len(w) \in Nat /\ Len(v) = Len(w) + 1 /\ v[Len(w) + 1] = d
      /\ \A i \in 1..Len(w) : v[i] = w[i]
  BY AppendProperties, LenProperties
<1>. HIDE DEF v
<1>2. \A i \in 1..Len(v) : i \in 1..Len(w) \/ i = Len(w) + 1
  BY <1>1
<1>3. s \in Nat /\ d.final \in Nat /\ d.first \in Nat /\ s < d.final
  BY DEF Diff
<1>4. /\ \A i \in 1..Len(w) : w[i].final \in Nat /\ w[i].final <= s /\ w[i].final <= d.final
      /\ \A i \in 1..Len(ds) : ds[i].final \in Nat /\ ds[i].final <= s /\ ds[i].final <= d.final
  BY <1>3, DiffIds DEF InOrder, Between
<1>5. Chain(v)
  <2>1. ASSUME NEW i \in 1..Len(v)
        PROVE  v[i].previous < v[i].first /\ v[i].first <= v[i].final
    BY <1>1, <1>2 DEF InOrder, Chain
  <2>2. ASSUME NEW i \in 1..Len(v), NEW j \in 1..Len(v), i < j
        PROVE  v[i].final <= v[j].previous
    <3>1. i \in 1..Len(w)
      BY <1>1, <2>2
    <3>2. CASE j = Len(w) + 1
      BY <1>1, <1>4, <3>1, <3>2
    <3>3. CASE j \in 1..Len(w)
      BY <1>1, <2>2, <3>1, <3>3 DEF InOrder, Chain
    <3>. QED BY <1>2, <3>2, <3>3
  <2>. QED BY <2>1, <2>2 DEF Chain
<1>6. Between(x, v, d.final)
  <2>. SUFFICES ASSUME NEW i \in 1..Len(v) PROVE x <= v[i].previous /\ v[i].final <= d.final
    BY DEF Between
  <2>1. CASE i = Len(w) + 1
    BY <1>1, <1>3, <2>1 DEF InOrder
  <2>2. CASE i \in 1..Len(w)
    BY <1>1, <1>4, <2>2 DEF InOrder, Between
  <2>. QED BY <1>2, <2>1, <2>2
<1>7. Between(x, ds, d.final)
  BY <1>4 DEF InOrder, Between
<1>8. ASSUME NEW i \in 1..Len(ds), NEW j \in 1..Len(v)
      PROVE  ds[i].final <= v[j].previous
  <2>1. CASE j = Len(w) + 1
    BY <1>1, <1>4, <2>1
  <2>2. CASE j \in 1..Len(w)
    BY <1>1, <2>2 DEF InOrder
  <2>. QED BY <1>2, <2>1, <2>2
<1>9. x <= d.final
  BY <1>3 DEF InOrder
<1>. QED BY <1>5, <1>6, <1>7, <1>8, <1>9 DEF InOrder, v

\* A diff moves from the wire into the buffer.
LEMMA OrderBuffered ==
  ASSUME NEW x \in Nat, NEW s \in Nat, NEW ds \in Seq(Diff), NEW w \in Seq(Diff), w # <<>>,
         InOrder(x, ds, w, s)
  PROVE  InOrder(x, Append(ds, Head(w)), Tail(w), s)
<1>. DEFINE d == Head(w)
            v == Append(ds, d)
<1>1. d = w[1] /\ 1 \in 1..Len(w) /\ d \in Diff
  BY HeadTailProperties, LenProperties, EmptySeq
<1>2. /\ Tail(w) \in Seq(Diff) /\ Len(w) \in Nat /\ Len(Tail(w)) = Len(w) - 1
      /\ \A i \in 1..Len(Tail(w)) : Tail(w)[i] = w[i + 1]
  BY HeadTailProperties, LenProperties, EmptySeq
<1>. HIDE DEF d
<1>3. /\ Len(ds) \in Nat /\ Len(v) = Len(ds) + 1 /\ v[Len(ds) + 1] = d
      /\ \A i \in 1..Len(ds) : v[i] = ds[i]
  BY <1>1, AppendProperties, LenProperties
<1>. HIDE DEF v
<1>4. \A i \in 1..Len(v) : i \in 1..Len(ds) \/ i = Len(ds) + 1
  BY <1>3
<1>5. InOrder(x, ds, Tail(w), s)
  BY OrderLost
<1>6. /\ d.previous < d.first /\ d.first <= d.final /\ x <= d.previous /\ d.final <= s
      /\ \A i \in 1..Len(ds) : ds[i].final <= d.previous
  BY <1>1 DEF InOrder, Chain, Between
<1>7. Chain(v)
  <2>1. ASSUME NEW i \in 1..Len(v)
        PROVE  v[i].previous < v[i].first /\ v[i].first <= v[i].final
    BY <1>3, <1>4, <1>6 DEF InOrder, Chain
  <2>2. ASSUME NEW i \in 1..Len(v), NEW j \in 1..Len(v), i < j
        PROVE  v[i].final <= v[j].previous
    <3>1. i \in 1..Len(ds)
      BY <1>3, <2>2
    <3>2. CASE j = Len(ds) + 1
      BY <1>3, <1>6, <3>1, <3>2
    <3>3. CASE j \in 1..Len(ds)
      BY <1>3, <2>2, <3>1, <3>3 DEF InOrder, Chain
    <3>. QED BY <1>4, <3>2, <3>3
  <2>. QED BY <2>1, <2>2 DEF Chain
<1>8. Between(x, v, s)
  BY <1>3, <1>4, <1>6 DEF InOrder, Between
<1>9. ASSUME NEW i \in 1..Len(v), NEW j \in 1..Len(Tail(w))
      PROVE  v[i].final <= Tail(w)[j].previous
  <2>1. CASE i = Len(ds) + 1
    <3>1. Tail(w)[j] = w[j + 1] /\ j + 1 \in 1..Len(w) /\ 1 < j + 1
      BY <1>2
    <3>. QED BY <1>1, <1>3, <2>1, <3>1 DEF InOrder, Chain
  <2>2. CASE i \in 1..Len(ds)
    BY <1>3, <1>5, <2>2 DEF InOrder
  <2>. QED BY <1>4, <2>1, <2>2
<1>. QED BY <1>5, <1>7, <1>8, <1>9 DEF InOrder, v, d

\* The first n diffs of the buffer leave it, r is what is left.
LEMMA OrderSkipped ==
  ASSUME NEW x \in Nat, NEW s \in Nat, NEW ds \in Seq(Diff), NEW w \in Seq(Diff),
         InOrder(x, ds, w, s), NEW n \in 0..Len(ds), NEW r \in Seq(Diff),
         IsRest(r, ds, n) \/ Len(r) = 0
  PROVE  InOrder(FinalOf(ds, n, x), r, w, s)
<1>. DEFINE y == FinalOf(ds, n, x)
<1>1. /\ Len(ds) \in Nat /\ n \in Nat
      /\ \A i \in 1..Len(ds) :
           ds[i].first \in Nat /\ ds[i].final \in Nat /\ ds[i].previous \in Nat
  BY DiffIds
<1>2. (n = 0 /\ y = x) \/ (n \in 1..Len(ds) /\ y = ds[n].final)
  BY <1>1 DEF FinalOf
<1>. HIDE DEF y
<1>3. y <= s /\ Between(y, w, s)
  BY <1>2 DEF InOrder, Between
<1>4. \A i \in 1..Len(ds) : n < i => y <= ds[i].previous
  BY <1>1, <1>2 DEF InOrder, Chain, Between
<1>5. CASE IsRest(r, ds, n)
  <2>1. /\ \A i \in 1..Len(r) : r[i] = ds[i + n] /\ i + n \in 1..Len(ds) /\ n < i + n
        /\ \A i, j \in 1..Len(r) : i < j => i + n < j + n
    BY <1>1, <1>5 DEF IsRest
  <2>2. Chain(r) /\ Between(y, r, s)
    BY <1>4, <2>1 DEF InOrder, Chain, Between
  <2>3. \A i \in 1..Len(r), j \in 1..Len(w) : r[i].final <= w[j].previous
    BY <2>1 DEF InOrder
  <2>. QED BY <1>3, <2>2, <2>3 DEF InOrder, y
<1>6. CASE Len(r) = 0
  <2>1. Chain(r) /\ Between(y, r, s)
    BY <1>6 DEF Chain, Between
  <2>. QED BY <1>3, <1>6, <2>1 DEF InOrder, y
<1>. QED BY <1>5, <1>6

\* A diff behind the buffer does not continue what was before it.
LEMMA BufferIsBetween ==
  ASSUME NEW x \in Nat, NEW s \in Nat, NEW ds \in Seq(Diff), NEW w \in Seq(Diff),
         InOrder(x, ds, w, s), ds # <<>>, w # <<>>
  PROVE  PacketLost(Head(w), x)
<1>1. 1 \in 1..Len(ds) /\ 1 \in 1..Len(w) /\ Head(w) = w[1]
  BY LenProperties, EmptySeq
<1>2. /\ x <= ds[1].previous /\ ds[1].previous < ds[1].first /\ ds[1].first <= ds[1].final
      /\ ds[1].final <= w[1].previous /\ w[1].previous < w[1].first
  BY <1>1 DEF InOrder, Chain, Between
<1>3. /\ ds[1].previous \in Nat /\ ds[1].first \in Nat /\ ds[1].final \in Nat
      /\ w[1].previous \in Nat /\ w[1].first \in Nat
  BY <1>1, DiffIds
<1>. QED BY <1>1, <1>2, <1>3 DEF PacketLost

\* Where the book ends up, z, agrees with what the sync does next.
EndsAt(z) ==
  /\ snapshot_was_processed_ => z \in {0, last_diff_update_id_}
  /\ diffs_ # <<>> => z = 0
  /\ ~snapshot_was_processed_ /\ ~need_make_snapshot_ => z = 0

SomeFlag ==
  \/ need_make_snapshot_ \/ need_process_current_snapshot_
  \/ snapshot_request_in_flight_ \/ snapshot_was_processed_

UnsentInOrder ==
  IF unsent.first = 0 THEN lastId = sentId ELSE sentId < unsent.first /\ unsent.first <= lastId

DiffsInOrder == InOrder(last_diff_update_id_, diffs_, wire, sentId)

BookInChain == \E z \in Nat : Brings(bookOps, bookDiff, z) /\ EndsAt(z)

ChainInv ==
  /\ TypeOK /\ SomeFlag /\ UnsentInOrder /\ DiffsInOrder /\ BookInChain
  /\ snapshot_request_in_flight_ => diffs_ # <<>>

LEMMA InitChain ==
  ASSUME Init
  PROVE  ChainInv
<1>1. /\ bookOps = <<>> /\ bookDiff = 0 /\ diffs_ = <<>> /\ wire = <<>>
      /\ last_diff_update_id_ = 0 /\ sentId = 1 /\ lastId = 1 /\ unsent.first = 0
      /\ need_make_snapshot_ /\ ~snapshot_was_processed_ /\ ~snapshot_request_in_flight_
  BY DEF Init
<1>2. DiffsInOrder
  BY <1>1 DEF DiffsInOrder, InOrder, Chain, Between
<1>3. BookInChain
  <2>1. Brings(bookOps, bookDiff, 0)
    BY <1>1, BringsNothing
  <2>. QED BY <1>1, <2>1 DEF BookInChain, EndsAt
<1>. QED BY <1>1, <1>2, <1>3, InitType DEF ChainInv, SomeFlag, UnsentInOrder

\* The steps of the exchange and of the network.
LEMMA ExchangeChain ==
  ASSUME ChainInv, Update \/ Publish \/ LoseDiff
  PROVE  ChainInv'
<1>. USE DEF ChainInv
<1>1. TypeOK'
  BY NextType DEF Next
<1>2. UNCHANGED <<last_diff_update_id_, diffs_, bookOps, bookDiff>> /\ UNCHANGED flags
  BY DEF Update, Publish, LoseDiff, sync
<1>3. SomeFlag' /\ BookInChain' /\ (snapshot_request_in_flight_' => diffs_' # <<>>)
  <2>1. UNCHANGED <<need_make_snapshot_, need_process_current_snapshot_,
                    snapshot_request_in_flight_, snapshot_was_processed_>>
    BY <1>2 DEF flags
  <2>2. BookInChain'
    <3>1. PICK z \in Nat : Brings(bookOps, bookDiff, z) /\ EndsAt(z)
      BY DEF BookInChain
    <3>2. Brings(bookOps', bookDiff', z)
      BY <1>2, <3>1
    <3>3. EndsAt(z)'
      BY <1>2, <2>1, <3>1 DEF EndsAt
    <3>. QED BY <3>2, <3>3 DEF BookInChain
  <2>. QED BY <1>2, <2>1, <2>2 DEF SomeFlag
<1>4. sentId \in Nat /\ lastId \in Nat /\ unsent.first \in Nat
  BY DEF TypeOK
<1>5. CASE Update
  <2>1. PICK step \in IdSteps :
          /\ lastId' = lastId + step
          /\ unsent'.first = IF unsent.first = 0 THEN lastId + step ELSE unsent.first
          /\ UNCHANGED <<sentId, wire>>
    BY <1>5 DEF Update
  <2>2. step \in Nat /\ step > 0
    BY IdStepsAssumption
  <2>3. UnsentInOrder'
    BY <1>4, <2>1, <2>2 DEF UnsentInOrder
  <2>4. DiffsInOrder'
    BY <1>2, <2>1 DEF DiffsInOrder
  <2>. QED BY <1>1, <1>3, <2>3, <2>4
<1>6. CASE Publish
  <2>. DEFINE d == [first |-> unsent.first, final |-> lastId, previous |-> sentId,
                    changes |-> unsent.changes]
  <2>1. /\ wire' = Append(wire, d) /\ sentId' = lastId /\ unsent'.first = 0 /\ lastId' = lastId
        /\ unsent.first # 0
    BY <1>6 DEF Publish
  <2>2. /\ d \in Diff /\ d.previous = sentId /\ d.final = lastId /\ d.first = unsent.first
    BY DEF TypeOK, Diff
  <2>. HIDE DEF d
  <2>3. InOrder(last_diff_update_id_, diffs_, Append(wire, d), d.final)
    BY <1>4, <2>1, <2>2, OrderSent DEF DiffsInOrder, UnsentInOrder, TypeOK
  <2>4. DiffsInOrder'
    BY <1>2, <2>1, <2>2, <2>3 DEF DiffsInOrder
  <2>5. UnsentInOrder'
    BY <2>1 DEF UnsentInOrder
  <2>. QED BY <1>1, <1>3, <2>4, <2>5
<1>7. CASE LoseDiff
  <2>1. wire # <<>> /\ wire' = Tail(wire) /\ UNCHANGED <<sentId, unsent, lastId>>
    BY <1>7 DEF LoseDiff, trading
  <2>2. InOrder(last_diff_update_id_, diffs_, Tail(wire), sentId)
    BY <2>1, OrderLost DEF DiffsInOrder, TypeOK
  <2>3. DiffsInOrder'
    BY <1>2, <2>1, <2>2 DEF DiffsInOrder
  <2>4. UnsentInOrder'
    BY <2>1 DEF UnsentInOrder
  <2>. QED BY <1>1, <1>3, <2>3, <2>4
<1>. QED BY <1>5, <1>6, <1>7

\* The steps that leave the diffs, the flags and the book alone.
LEMMA OtherChain ==
  ASSUME ChainInv, TypeOK',
         UNCHANGED <<sentId, unsent, lastId, wire, last_diff_update_id_, diffs_, flags, bookOps,
                     bookDiff>>
  PROVE  ChainInv'
<1>1. UNCHANGED <<need_make_snapshot_, need_process_current_snapshot_,
                  snapshot_request_in_flight_, snapshot_was_processed_>>
  BY DEF flags
<1>2. BookInChain'
  <2>1. PICK z \in Nat : Brings(bookOps, bookDiff, z) /\ EndsAt(z)
    BY DEF BookInChain, ChainInv
  <2>2. Brings(bookOps', bookDiff', z)
    BY <2>1
  <2>3. EndsAt(z)'
    BY <1>1, <2>1 DEF EndsAt
  <2>. QED BY <2>2, <2>3 DEF BookInChain
<1>. QED BY <1>1, <1>2 DEF ChainInv, SomeFlag, UnsentInOrder, DiffsInOrder

\* Wherever a snapshot comes from, and whatever it skips.
LEMMA ProcessSnapshotChain ==
  ASSUME ChainInv, ProcessSnapshot
  PROVE  ChainInv'
<1>. USE DEF ChainInv
<1>1. TypeOK'
  BY NextType DEF Next
<1>2. PICK n \in 0..Len(diffs_) :
        /\ last_diff_update_id_' = FinalOf(diffs_, n, last_diff_update_id_)
        /\ diffs_' = SubSeq(diffs_, n + 1, Len(diffs_))
  BY DEF ProcessSnapshot
<1>3. /\ ~snapshot_request_in_flight_'
      /\ need_process_current_snapshot_' = Verified(Head(snapshots))
      /\ need_make_snapshot_' = (need_make_snapshot_ \/ ~Verified(Head(snapshots)))
      /\ UNCHANGED <<sentId, unsent, lastId, wire, snapshot_was_processed_, bookOps, bookDiff>>
  BY DEF ProcessSnapshot, exchange, trading
<1>4. diffs_ \in Seq(Diff) /\ wire \in Seq(Diff) /\ sentId \in Nat /\ last_diff_update_id_ \in Nat
  BY DEF TypeOK
<1>5. diffs_' \in Seq(Diff) /\ IsRest(diffs_', diffs_, n)
  BY <1>2, <1>4, RestElements
<1>6. DiffsInOrder'
  <2>1. InOrder(FinalOf(diffs_, n, last_diff_update_id_), diffs_', wire, sentId)
    BY <1>4, <1>5, OrderSkipped DEF DiffsInOrder
  <2>. QED BY <1>2, <1>3, <2>1 DEF DiffsInOrder
<1>7. UnsentInOrder' /\ SomeFlag'
  BY <1>3 DEF UnsentInOrder, SomeFlag
<1>8. PICK z \in Nat : Brings(bookOps, bookDiff, z) /\ EndsAt(z)
  BY DEF BookInChain
<1>9. diffs_ = <<>> => n = 0
  <2>1. diffs_ = <<>> => Len(diffs_) = 0
    OBVIOUS
  <2>. QED BY <2>1
<1>10. n = 0 => last_diff_update_id_' = last_diff_update_id_
  BY <1>2 DEF FinalOf
<1>11. diffs_' # <<>> => diffs_ # <<>>
  <2>. SUFFICES ASSUME diffs_ = <<>>, diffs_' # <<>> PROVE FALSE
    OBVIOUS
  <2>1. Len(diffs_) = 0 /\ n = 0
    BY <1>9
  <2>2. Len(diffs_') = 0
    BY <1>5, <2>1 DEF IsRest
  <2>. QED BY <1>5, <2>2, EmptySeq
<1>12. EndsAt(z)'
  BY <1>3, <1>8, <1>9, <1>10, <1>11 DEF EndsAt
<1>13. BookInChain'
  <2>1. Brings(bookOps', bookDiff', z)
    BY <1>3, <1>8
  <2>. QED BY <1>12, <2>1 DEF BookInChain
<1>. QED BY <1>1, <1>3, <1>6, <1>7, <1>13

\* The book executes the first operation sent to it.
LEMMA ExecuteChain ==
  ASSUME ChainInv, ExecuteBookOp
  PROVE  ChainInv'
<1>. USE DEF ChainInv
<1>1. TypeOK'
  BY NextType DEF Next
<1>2. /\ UNCHANGED <<sentId, unsent, lastId, wire, last_diff_update_id_, diffs_>>
      /\ UNCHANGED <<need_make_snapshot_, need_process_current_snapshot_,
                     snapshot_request_in_flight_, snapshot_was_processed_>>
  BY DEF ExecuteBookOp, exchange, trading, sync, flags
<1>3. PICK z \in Nat : Brings(bookOps, bookDiff, z) /\ EndsAt(z)
  BY DEF BookInChain
<1>4. bookOps # <<>> /\ bookOps' = Tail(bookOps) /\ bookOps \in Seq(BookOp)
  BY DEF ExecuteBookOp, TypeOK
<1>5. PICK y \in Nat : Moves(bookDiff, Head(bookOps), y) /\ Brings(Tail(bookOps), y, z)
  BY <1>3, <1>4, BringsHead
<1>6. bookDiff' = y
  BY <1>5 DEF Moves, ExecuteBookOp
<1>7. BookInChain'
  <2>1. Brings(bookOps', bookDiff', z)
    BY <1>4, <1>5, <1>6
  <2>2. EndsAt(z)'
    BY <1>2, <1>3 DEF EndsAt
  <2>. QED BY <2>1, <2>2 DEF BookInChain
<1>. QED BY <1>1, <1>2, <1>7 DEF SomeFlag, UnsentInOrder, DiffsInOrder

\* The diffs that DrainBuffer applies bring the book to the last of them.
LEMMA AppliedBring ==
  ASSUME NEW ds \in Seq(Diff), NEW last \in Nat, NEW n \in 0..Len(ds), Applies(ds, last, n),
         NEW z \in {0, last}
  PROVE  Brings([i \in 1..n |-> DiffOp(ds[i])], z, FinalOf(ds, n, z))
<1>. DEFINE ops == [i \in 1..n |-> DiffOp(ds[i])]
            at  == [i \in 0..n |-> FinalOf(ds, i, z)]
<1>1. /\ n \in Nat /\ Len(ds) \in Nat
      /\ \A i \in 1..Len(ds) : ds[i] \in Diff
      /\ \A i \in 1..n : DiffOp(ds[i]) \in BookOp
  BY ElementOfSeq, LenProperties, OpTypes
<1>2. Len(ops) = n /\ \A i \in 1..n : ops[i] = DiffOp(ds[i])
  BY <1>1, IsASeq
<1>3. ASSUME NEW i \in 0..n PROVE FinalOf(ds, i, z) \in Nat /\ FinalOf(ds, i, last) \in Nat
  <2>1. i \in 0..Len(ds) /\ z \in Nat
    BY <1>1
  <2>. QED BY <2>1, FinalOfType
<1>4. at \in [0..n -> Nat] /\ at[0] = z /\ at[n] = FinalOf(ds, n, z)
  <2>1. 0 \in 0..n /\ n \in 0..n
    BY <1>1
  <2>2. FinalOf(ds, 0, z) = z
    BY DEF FinalOf
  <2>. QED BY <1>3, <2>1, <2>2
<1>5. ASSUME NEW i \in 1..n PROVE Moves(at[i - 1], ops[i], at[i])
  <2>1. i \in 1..Len(ds) /\ i - 1 \in 0..n /\ i \in 0..n /\ i # 0
    BY <1>1
  <2>2. at[i - 1] = FinalOf(ds, i - 1, z) /\ at[i] = ds[i].final
    BY <2>1 DEF FinalOf
  <2>3. Continues(DiffOp(ds[i]), FinalOf(ds, i - 1, last))
    <3>1. ds[i] \in Diff /\ FinalOf(ds, i - 1, last) \in Nat
      BY <1>1, <1>3, <2>1
    <3>2. ~PacketLost(ds[i], FinalOf(ds, i - 1, last))
      BY DEF Applies
    <3>. QED BY <3>1, <3>2, ContinuesMeansNotLost
  <2>4. FinalOf(ds, i - 1, z) \in {0, FinalOf(ds, i - 1, last)}
    BY DEF FinalOf
  <2>5. DiffOp(ds[i]).kind = "diff" /\ DiffOp(ds[i]).final = ds[i].final
    BY DEF DiffOp
  <2>. HIDE DEF at, ops
  <2>. QED BY <1>2, <2>2, <2>3, <2>4, <2>5 DEF Moves
<1>. HIDE DEF at, ops
<1>6. Brings(ops, z, FinalOf(ds, n, z))
  BY <1>2, <1>4, <1>5 DEF Brings
<1>. QED BY <1>6 DEF ops

\* With the snapshot in front of them too.
LEMMA DrainedBring ==
  ASSUME NEW ds \in Seq(Diff), NEW last \in Nat, NEW n \in 0..Len(ds), Applies(ds, last, n),
         NEW z \in {0, last}, last_snapshot_ \in Snapshot
  PROVE  Brings(Drained(ds, n), z, FinalOf(ds, n, z))
<1>. DEFINE applied == [i \in 1..n |-> DiffOp(ds[i])]
            front == IF need_process_current_snapshot_ THEN <<SnapshotOp(last_snapshot_)>>
                                                       ELSE <<>>
<1>1. applied \in Seq(BookOp)
  <2>1. n \in Nat /\ \A i \in 1..n : DiffOp(ds[i]) \in BookOp
    BY ElementOfSeq, LenProperties, OpTypes
  <2>. QED BY <2>1, IsASeq
<1>2. front \in Seq(BookOp) /\ Brings(front, z, z)
  <2>1. CASE need_process_current_snapshot_
    <3>1. SnapshotOp(last_snapshot_) \in BookOp /\ SnapshotOp(last_snapshot_).kind = "snapshot"
      BY OpTypes DEF SnapshotOp
    <3>2. front = <<SnapshotOp(last_snapshot_)>>
      BY <2>1
    <3>3. Moves(z, front[1], z) /\ Len(front) = 1 /\ front \in Seq(BookOp)
      BY <3>1, <3>2 DEF Moves
    <3>. QED BY <3>3, BringsOne
  <2>2. CASE ~need_process_current_snapshot_
    <3>1. front = <<>>
      BY <2>2
    <3>2. front \in Seq(BookOp) /\ Len(front) = 0
      BY <3>1
    <3>. QED BY <3>2, BringsNothing
  <2>. QED BY <2>1, <2>2
<1>3. Brings(applied, z, FinalOf(ds, n, z))
  BY AppliedBring
<1>4. Drained(ds, n) = front \o applied
  BY DEF Drained
<1>. HIDE DEF front, applied
<1>. QED BY <1>1, <1>2, <1>3, <1>4, BringsBoth

\* One more operation at the end of the book's queue.
LEMMA BringsMore ==
  ASSUME NEW ops \in Seq(BookOp), NEW op \in BookOp, NEW a, NEW y \in Nat, NEW z \in Nat,
         Brings(ops, a, y), Moves(y, op, z)
  PROVE  Brings(Append(ops, op), a, z)
<1>. DEFINE one == <<op>>
<1>1. one \in Seq(BookOp) /\ Len(one) = 1 /\ one[1] = op
  OBVIOUS
<1>2. Append(ops, op) = ops \o one
  BY AppendIsConcat
<1>. HIDE DEF one
<1>3. Brings(one, y, z)
  BY <1>1, BringsOne
<1>. QED BY <1>1, <1>2, <1>3, BringsBoth

\* What the handler of a diff finds, and what becomes of the diffs.
LEMMA DiffFound ==
  ASSUME ChainInv, wire # <<>>, wire' = Tail(wire), UNCHANGED <<sentId, unsent, lastId>>
  PROVE  /\ Head(wire) \in Diff /\ UnsentInOrder'
         /\ diffs_ # <<>> => PacketLost(Head(wire), last_diff_update_id_)
         /\ (UNCHANGED last_diff_update_id_ /\ diffs_' = Append(diffs_, Head(wire)))
              => DiffsInOrder'
         /\ \A n \in 0..Len(Append(diffs_, Head(wire))) :
              /\ last_diff_update_id_' =
                   FinalOf(Append(diffs_, Head(wire)), n, last_diff_update_id_)
              /\ diffs_' = <<>>
              => DiffsInOrder'
<1>. USE DEF ChainInv
<1>. DEFINE d == Head(wire)
            ds == Append(diffs_, d)
<1>1. /\ diffs_ \in Seq(Diff) /\ wire \in Seq(Diff) /\ sentId \in Nat
      /\ last_diff_update_id_ \in Nat
  BY DEF TypeOK
<1>2. d \in Diff /\ Tail(wire) \in Seq(Diff) /\ ds \in Seq(Diff)
  <2>1. d \in Diff /\ Tail(wire) \in Seq(Diff)
    BY <1>1, HeadTailProperties
  <2>. QED BY <1>1, <2>1, AppendProperties
<1>3. diffs_ # <<>> => PacketLost(d, last_diff_update_id_)
  BY <1>1, BufferIsBetween DEF DiffsInOrder
<1>4. InOrder(last_diff_update_id_, ds, Tail(wire), sentId)
  BY <1>1, OrderBuffered DEF DiffsInOrder
<1>5. UnsentInOrder'
  BY DEF UnsentInOrder
<1>6. UNCHANGED last_diff_update_id_ /\ diffs_' = ds => DiffsInOrder'
  BY <1>4 DEF DiffsInOrder
<1>. HIDE DEF ds, d
<1>7. ASSUME NEW n \in 0..Len(ds), diffs_' = <<>>,
             last_diff_update_id_' = FinalOf(ds, n, last_diff_update_id_)
      PROVE  DiffsInOrder'
  <2>1. diffs_' \in Seq(Diff) /\ Len(diffs_') = 0
    BY <1>7
  <2>2. InOrder(FinalOf(ds, n, last_diff_update_id_), diffs_', Tail(wire), sentId)
    BY <1>1, <1>2, <1>4, <2>1, OrderSkipped
  <2>. QED BY <1>7, <2>2 DEF DiffsInOrder
<1>. QED BY <1>2, <1>3, <1>5, <1>6, <1>7 DEF ds, d

LEMMA ForwardDiffChain ==
  ASSUME ChainInv, TypeOK', wire # <<>>, wire' = Tail(wire),
         UNCHANGED <<sentId, unsent, lastId, bookDiff>>, ForwardDiff(Head(wire))
  PROVE  ChainInv'
<1>. USE DEF ChainInv
<1>. DEFINE d == Head(wire)
<1>1. /\ snapshot_was_processed_ /\ ~PacketLost(d, last_diff_update_id_)
      /\ bookOps' = Append(bookOps, DiffOp(d)) /\ last_diff_update_id_' = d.final
      /\ UNCHANGED diffs_
      /\ UNCHANGED <<need_make_snapshot_, need_process_current_snapshot_,
                     snapshot_request_in_flight_, snapshot_was_processed_>>
  BY DEF ForwardDiff, flags
<1>2. d \in Diff /\ diffs_ = <<>> /\ UnsentInOrder'
  BY <1>1, DiffFound
<1>3. DiffsInOrder'
  <2>. DEFINE ds == Append(diffs_, d)
  <2>1. Len(ds) = 1 /\ ds[1] = d
    BY <1>2
  <2>2. 1 \in 0..Len(ds) /\ FinalOf(ds, 1, last_diff_update_id_) = d.final
    BY <2>1 DEF FinalOf
  <2>. HIDE DEF ds
  <2>3. /\ last_diff_update_id_' = FinalOf(ds, 1, last_diff_update_id_)
        /\ diffs_' = <<>>
    BY <1>1, <1>2, <2>2
  <2>. QED BY <2>2, <2>3, DiffFound DEF ds
<1>4. PICK z \in Nat : Brings(bookOps, bookDiff, z) /\ EndsAt(z)
  BY DEF BookInChain
<1>. HIDE DEF d
<1>5. BookInChain'
  <2>1. z \in {0, last_diff_update_id_} /\ last_diff_update_id_ \in Nat /\ d.final \in Nat
    BY <1>1, <1>2, <1>4 DEF EndsAt, TypeOK, Diff
  <2>2. DiffOp(d) \in BookOp /\ DiffOp(d).kind = "diff" /\ DiffOp(d).final = d.final
    BY <1>2, OpTypes DEF DiffOp
  <2>3. Continues(DiffOp(d), last_diff_update_id_)
    BY <1>1, <1>2, <2>1, ContinuesMeansNotLost
  <2>4. Moves(z, DiffOp(d), d.final)
    BY <2>1, <2>2, <2>3 DEF Moves
  <2>5. Brings(bookOps', bookDiff', d.final)
    <3>1. bookOps \in Seq(BookOp)
      BY DEF TypeOK
    <3>. QED BY <1>1, <1>4, <2>1, <2>2, <2>4, <3>1, BringsMore
  <2>6. PICK end \in Nat : end = d.final
    BY <2>1
  <2>7. EndsAt(end)'
    BY <1>1, <1>2, <2>6 DEF EndsAt
  <2>. QED BY <2>5, <2>6, <2>7 DEF BookInChain
<1>. QED BY <1>1, <1>2, <1>3, <1>5 DEF SomeFlag

LEMMA RequestSnapshotChain ==
  ASSUME ChainInv, TypeOK', wire # <<>>, wire' = Tail(wire),
         UNCHANGED <<sentId, unsent, lastId, bookDiff>>, RequestSnapshot(Head(wire))
  PROVE  ChainInv'
<1>. USE DEF ChainInv
<1>1. /\ diffs_' = Append(diffs_, Head(wire)) /\ bookOps' = Append(bookOps, ClearOp)
      /\ snapshot_request_in_flight_' /\ UNCHANGED last_diff_update_id_
  BY DEF RequestSnapshot, SendClear, SpawnRequest
<1>2. Head(wire) \in Diff /\ UnsentInOrder' /\ DiffsInOrder'
  BY <1>1, DiffFound
<1>3. diffs_' # <<>>
  <2>1. Len(diffs_') = Len(diffs_) + 1 /\ Len(diffs_) \in Nat
    BY <1>1, <1>2, AppendProperties, LenProperties DEF TypeOK
  <2>. QED BY <2>1
<1>4. BookInChain'
  <2>1. PICK z \in Nat : Brings(bookOps, bookDiff, z)
    BY DEF BookInChain
  <2>2. ClearOp \in BookOp /\ Moves(z, ClearOp, 0) /\ bookOps \in Seq(BookOp)
    BY OpTypes DEF Moves, ClearOp, TypeOK
  <2>3. Brings(bookOps', bookDiff', 0)
    BY <1>1, <2>1, <2>2, BringsMore
  <2>4. EndsAt(0)'
    BY DEF EndsAt
  <2>. QED BY <2>3, <2>4 DEF BookInChain
<1>. QED BY <1>1, <1>2, <1>3, <1>4 DEF SomeFlag

LEMMA AwaitSnapshotChain ==
  ASSUME ChainInv, TypeOK', wire # <<>>, wire' = Tail(wire),
         UNCHANGED <<sentId, unsent, lastId, bookDiff>>, AwaitSnapshot(Head(wire))
  PROVE  ChainInv'
<1>. USE DEF ChainInv
<1>1. /\ diffs_' = Append(diffs_, Head(wire)) /\ UNCHANGED <<bookOps, last_diff_update_id_>>
      /\ snapshot_request_in_flight_ /\ snapshot_request_in_flight_'
  BY DEF AwaitSnapshot, flags
<1>2. Head(wire) \in Diff /\ UnsentInOrder' /\ DiffsInOrder'
  BY <1>1, DiffFound
<1>3. diffs_' # <<>>
  <2>1. Len(diffs_') = Len(diffs_) + 1 /\ Len(diffs_) \in Nat
    BY <1>1, <1>2, AppendProperties, LenProperties DEF TypeOK
  <2>. QED BY <2>1
<1>4. BookInChain'
  <2>1. PICK z \in Nat : Brings(bookOps, bookDiff, z) /\ EndsAt(z)
    BY DEF BookInChain
  <2>2. z = 0
    BY <1>1, <2>1 DEF EndsAt
  <2>3. Brings(bookOps', bookDiff', z)
    BY <1>1, <2>1
  <2>4. EndsAt(z)'
    BY <2>2 DEF EndsAt
  <2>. QED BY <2>3, <2>4 DEF BookInChain
<1>. QED BY <1>1, <1>2, <1>3, <1>4 DEF SomeFlag

LEMMA DrainBufferChain ==
  ASSUME ChainInv, TypeOK', wire # <<>>, wire' = Tail(wire),
         UNCHANGED <<sentId, unsent, lastId, bookDiff>>, DrainBuffer(Head(wire))
  PROVE  ChainInv'
<1>. USE DEF ChainInv
<1>. DEFINE ds == Append(diffs_, Head(wire))
<1>1. PICK n \in 0..Len(ds) :
        /\ Applies(ds, last_diff_update_id_, n)
        /\ bookOps' = bookOps \o Drained(ds, n)
        /\ last_diff_update_id_' = FinalOf(ds, n, last_diff_update_id_)
        /\ diffs_' = <<>>
        /\ need_make_snapshot_' = Broken(ds, n)
        /\ snapshot_was_processed_' = LiveAfter(ds, n)
  BY DEF DrainBuffer
<1>2. /\ ~need_make_snapshot_ /\ ~snapshot_request_in_flight_ /\ ~snapshot_request_in_flight_'
  BY DEF DrainBuffer
<1>3. Head(wire) \in Diff /\ UnsentInOrder' /\ DiffsInOrder'
  BY <1>1, DiffFound
<1>4. ds \in Seq(Diff) /\ Len(ds) \in Nat \ {0} /\ n \in Nat
  <2>1. ds \in Seq(Diff) /\ Len(ds) = Len(diffs_) + 1 /\ Len(diffs_) \in Nat
    BY <1>3, AppendProperties, LenProperties DEF TypeOK
  <2>. QED BY <2>1
<1>. HIDE DEF ds
<1>5. (need_make_snapshot_' <=> n < Len(ds)) /\ (snapshot_was_processed_' <=> n = Len(ds))
  <2>1. snapshot_was_processed_ \/ need_process_current_snapshot_
    BY <1>2 DEF SomeFlag
  <2>. QED BY <1>1, <2>1 DEF Broken, LiveAfter
<1>6. SomeFlag'
  BY <1>4, <1>5 DEF SomeFlag
<1>7. PICK z \in Nat : Brings(bookOps, bookDiff, z) /\ EndsAt(z)
  BY DEF BookInChain
<1>8. BookInChain'
  <2>1. z \in {0, last_diff_update_id_} /\ last_diff_update_id_ \in Nat
    BY <1>2, <1>7 DEF EndsAt, TypeOK
  <2>2. last_snapshot_ \in Snapshot /\ bookOps \in Seq(BookOp)
    BY DEF TypeOK
  <2>3. Brings(Drained(ds, n), z, FinalOf(ds, n, z))
    BY <1>1, <1>4, <2>1, <2>2, DrainedBring
  <2>4. Drained(ds, n) \in Seq(BookOp)
    BY <1>4, <2>2, DrainedType
  <2>5. Brings(bookOps', bookDiff', FinalOf(ds, n, z))
    BY <1>1, <1>7, <2>2, <2>3, <2>4, BringsBoth
  <2>6. PICK end \in Nat : end = FinalOf(ds, n, z)
    BY <1>4, FinalOfType
  <2>7. n = Len(ds) => end = last_diff_update_id_'
    BY <1>1, <1>4, <2>6 DEF FinalOf
  <2>8. EndsAt(end)'
    BY <1>1, <1>4, <1>5, <2>7 DEF EndsAt
  <2>. QED BY <2>5, <2>6, <2>8 DEF BookInChain
<1>. QED BY <1>2, <1>3, <1>6, <1>8

LEMMA NextChain == ChainInv /\ [Next]_vars => ChainInv'
<1>. SUFFICES ASSUME ChainInv, [Next]_vars PROVE ChainInv'
  OBVIOUS
<1>1. TypeOK'
  BY NextType DEF ChainInv
<1>2. CASE Update \/ Publish \/ LoseDiff
  BY <1>2, ExchangeChain
<1>3. CASE AnswerRequest \/ FailRequest \/ ReturnUnstarted \/ ExternalSnapshot
  <2>1. UNCHANGED <<sentId, unsent, lastId, wire, last_diff_update_id_, diffs_, flags, bookOps,
                    bookDiff>>
    BY <1>3 DEF AnswerRequest, FailRequest, ReturnUnstarted, ExternalSnapshot, exchange,
                trading, sync
  <2>. QED BY <1>1, <2>1, OtherChain
<1>4. CASE ProcessSnapshot
  BY <1>4, ProcessSnapshotChain
<1>5. CASE ProcessDiff
  <2>1. /\ wire # <<>> /\ wire' = Tail(wire) /\ UNCHANGED <<sentId, unsent, lastId, bookDiff>>
        /\ \/ ForwardDiff(Head(wire)) \/ RequestSnapshot(Head(wire))
           \/ AwaitSnapshot(Head(wire)) \/ DrainBuffer(Head(wire))
    BY <1>5 DEF ProcessDiff, exchange, trading
  <2>. QED BY <1>1, <2>1, ForwardDiffChain, RequestSnapshotChain, AwaitSnapshotChain,
              DrainBufferChain
<1>6. CASE ExecuteBookOp
  BY <1>6, ExecuteChain
<1>7. CASE UNCHANGED vars
  <2>1. UNCHANGED <<sentId, unsent, lastId, wire, last_diff_update_id_, diffs_, flags, bookOps,
                    bookDiff>>
    BY <1>7 DEF vars, exchange, trading, sync
  <2>. QED BY <1>1, <2>1, OtherChain
<1>. QED BY <1>2, <1>3, <1>4, <1>5, <1>6, <1>7 DEF Next

\* For every market, every way of losing diffs, numbering updates and being sent snapshots:
\* between a Clear and the next one the diffs that the book executes form an unbroken chain.
THEOREM BookUnbroken == Spec => []BookDiffsUnbroken
<1>1. Init => ChainInv
  BY InitChain
<1>2. ChainInv /\ [Next]_vars => ChainInv'
  BY NextChain
<1>3. ChainInv => BookDiffsUnbroken
  <2>. SUFFICES ASSUME ChainInv, bookOps # <<>>, Head(bookOps).kind = "diff", bookDiff # 0
                PROVE  Continues(Head(bookOps), bookDiff)
    BY DEF BookDiffsUnbroken
  <2>1. PICK z \in Nat : Brings(bookOps, bookDiff, z)
    BY DEF ChainInv, BookInChain
  <2>2. bookOps \in Seq(BookOp)
    BY DEF ChainInv, TypeOK
  <2>3. PICK y \in Nat : Moves(bookDiff, Head(bookOps), y)
    BY <2>1, <2>2, BringsHead
  <2>. QED BY <2>3 DEF Moves
<1>. QED BY <1>1, <1>2, <1>3, PTL DEF Spec
=============================================================================
