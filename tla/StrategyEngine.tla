--------------------------- MODULE StrategyEngine ---------------------------
(***************************************************************************)
(* The strategy engine (aos/strategy_engine) with the deviation and mutual *)
(* information strategy (aos/strategies, aos/strategy), its sliding window *)
(* (aos/sliding_window_storage) and the linked markets                     *)
(* (aos/market_triplet_manager).                                           *)
(*                                                                         *)
(* Callbacks of the order book notifiers post work to the engine's strand, *)
(* from any thread; a job first analyses the sample against the window as  *)
(* it was before, to buy and to sell, and then adds it.  The observable    *)
(* storage (Kind "observable") does the same with a strand and observers   *)
(* of its own.                                                             *)
(***************************************************************************)
EXTENDS WindowTrackers

CONSTANTS
  Assets,          \* hashes of exchange, category and trading pair
  Links,           \* pairs of assets given to Connect
  Allowed,         \* config.allowed_asset_hash
  Prices,          \* samples
  Quotes,          \* prices set by SetBidPrice and SetAskPrice
  WindowSize,      \* config.window_size
  Bins,            \* config.number_bins
  RatioThreshold,  \* config.deviation_ratio_threshold, <<numerator, denominator>>
  MiThreshold,     \* config.mi_threshold, in bits, <<numerator, denominator>>
  MaxSamples,      \* bound: samples posted
  MaxOthers,       \* bound: prices set and waits, together
  MaxQueued        \* bound: jobs on the strand

ASSUME LinksAssumption  ==
  Links \subseteq Assets \X Assets /\ IsFiniteSet(Links) /\ Allowed \in Assets
ASSUME ConfigAssumption ==
  /\ Prices \subseteq Nat \ {0} /\ Quotes \subseteq Prices /\ WindowSize \in Nat \ {0} /\ Bins \in Nat \ {0}
  /\ RatioThreshold \in Nat \X (Nat \ {0}) /\ MiThreshold \in Nat \X (Nat \ {0})
ASSUME BoundsAssumption == MaxSamples \in Nat /\ MaxOthers \in Nat /\ MaxQueued \in Nat

VARIABLES
  kind,      \* "engine" or "observable"
  storage,   \* by asset: the window and its trackers
  bid_price_, ask_price_,
  strand,    \* jobs posted and not yet run
  returned,  \* how many jobs had been posted before each Wait that has returned
  posted,    \* every job ever posted (history)
  last       \* the last sample: what it was compared with, what it triggered (history)

vars == <<kind, storage, bid_price_, ask_price_, strand, returned, posted, last>>

-----------------------------------------------------------------------------
(* Linked markets.                                                         *)

\* Both directions.
Connect(pairs, link) ==
  {<<link[1], link[2]>>, <<link[2], link[1]>>} \cup pairs

pairs_ == FoldSet(LAMBDA link, pairs : Connect(pairs, link), {}, Links)

GetPairs(a) == {b \in Assets : <<a, b>> \in pairs_}

HasPair(a) == GetPairs(a) # {}

-----------------------------------------------------------------------------
(* The storage.                                                            *)

NewWindow == [data |-> << >>, avg |-> NoAvg, min |-> NoExtreme, max |-> NoExtreme]

UpdateTrackersOnAdd(w, v) ==
  [w EXCEPT !.avg = AvgOnAdd(@, v), !.min = MinOnAdd(@, v), !.max = MaxOnAdd(@, v)]

UpdateTrackersOnRemove(w, v) ==
  [w EXCEPT !.avg = AvgOnRemove(@, v), !.min = MinOnRemove(@, v), !.max = MaxOnRemove(@, v)]

\* Fault: the newest sample leaves, not the oldest.
AddDataDropsNewest(w, v) ==
  IF Len(w.data) = WindowSize THEN w
  ELSE UpdateTrackersOnAdd([w EXCEPT !.data = Append(@, v)], v)

\* The new sample first, then the oldest one out when there are too many.
AddData(w, v) ==
  LET grown == UpdateTrackersOnAdd([w EXCEPT !.data = Append(@, v)], v)
  IN  IF Len(grown.data) <= WindowSize THEN grown
      ELSE UpdateTrackersOnRemove([grown EXCEPT !.data = Tail(@)], Head(grown.data))

\* The pooled storage: the same steps through its own trackers.
PooledUpdate(op, w, v) ==
  [w EXCEPT !.avg = AvgTracker(op, @, v), !.min = MinTracker(op, @, v),
            !.max = MaxTracker(op, @, v)]

PooledAddData(w, v) ==
  LET grown == PooledUpdate("add", [w EXCEPT !.data = Append(@, v)], v)
  IN  IF Len(grown.data) <= WindowSize THEN grown
      ELSE PooledUpdate("remove", [grown EXCEPT !.data = Tail(@)], Head(grown.data))

HasEnoughData(w) == Len(w.data) >= WindowSize

\* What the storages answer about a window and a value: each question goes to a tracker.
Readings(w, v) ==
  [data |-> w.data, min |-> w.min.extreme, max |-> w.max.extreme, enough |-> HasEnoughData(w),
   avg |-> IF HasAvg(w.avg) THEN <<w.avg.sum, w.avg.count>> ELSE << >>,
   deviations |-> DeviationTracker(w.avg, v, RatioThreshold)]

PooledReadings(w, v)   == Readings(w, v)
CombinedReadings(w, v) == Readings(w, v)

NewStorage == [a \in Assets |-> NewWindow]

\* Every tracker the builder was given starts empty; the deviation tracker reads the
\* average the window keeps.
BuiltStorage           == NewStorage
BuiltObservableStorage == NewStorage

\* Mutual information of two assets: none without full windows and known extremes.
ComputeMutualInformation(s, a, b) ==
  LET x == s[a]
      y == s[b]
      Range2(w) == <<w.min.extreme[1], w.max.extreme[1]>>
  IN  /\ HasEnoughData(x) /\ HasEnoughData(y)
      /\ << >> \notin {x.min.extreme, x.max.extreme, y.min.extreme, y.max.extreme}
      /\ TrackedInformation(x.data, Range2(x), y.data, Range2(y), Bins, MiThreshold)

-----------------------------------------------------------------------------
(* The strategy: a list of actions, each of which passes assets on to the  *)
(* next.  s is the storage, a the asset at the front of the queue.         *)

AllowedAction(s, a, v) == IF a = Allowed THEN <<a>> ELSE << >>

\* Fault: samples below the average count as well.
DeviationActionAbsolute(s, a, v) ==
  LET ratio == GetDeviationRatioAbs(s[a].avg, v)
  IN  IF Exceeds(IF ratio = << >> THEN <<0, 1>> ELSE ratio, RatioThreshold)
      THEN <<a>> ELSE << >>

\* The status of the answer is not looked at: no ratio counts as 0.
DeviationAction(s, a, v) ==
  LET ratio == GetDeviationRatio(s[a].avg, v)
  IN  IF Exceeds(IF ratio = << >> THEN <<0, 1>> ELSE ratio, RatioThreshold)
      THEN <<a>> ELSE << >>

\* Passes the linked assets on, not the asset itself.
InformationAction(s, a, v) ==
  IF HasPair(a)
  THEN SetToSeq({b \in GetPairs(a) : ComputeMutualInformation(s, a, b)})
  ELSE << >>

\* The order is only logged.
OrderAction(s, a, v) == << >>

\* The queue before each action: an action is called for every asset that was in the
\* queue when its turn came, and analysis ends with the actions or with an empty queue.
Analyze(actions, s, asset, v) ==
  LET Apply(name, a) == CASE name = "allowed"     -> AllowedAction(s, a, v)
                          [] name = "deviation"   -> DeviationAction(s, a, v)
                          [] name = "information" -> InformationAction(s, a, v)
                          [] name = "order"       -> OrderAction(s, a, v)
      queue[i \in 0 .. Len(actions)] ==
        IF i = 0 THEN <<asset>>
        ELSE FlattenSeq([j \in DOMAIN queue[i - 1] |-> Apply(actions[i], queue[i - 1][j])])
  IN  queue

actions_to_buy_  == <<"allowed", "deviation", "information", "order">>
actions_to_sell_ == <<"allowed", "deviation", "information", "order">>

\* The assets for which the last action, the order, is reached.
AnalyzeToBuy(s, a, v)  == Analyze(actions_to_buy_, s, a, v)[3]
AnalyzeToSell(s, a, v) == Analyze(actions_to_sell_, s, a, v)[3]

-----------------------------------------------------------------------------
(* The strand.                                                             *)

Job(op, a, v) == [op |-> op, asset |-> a, value |-> v]

Of(op) == {i \in DOMAIN posted : posted[i].op \in op}

Post(job) == strand' = Append(strand, job) /\ posted' = Append(posted, job)

Init ==
  /\ kind \in {"engine", "observable"}
  /\ storage = IF kind = "engine" THEN NewStorage ELSE BuiltObservableStorage
  /\ bid_price_ = [a \in Assets |-> << >>] /\ ask_price_ = [a \in Assets |-> << >>]
  /\ strand = << >> /\ posted = << >> /\ returned = {} /\ last = << >>

\* A notifier's callback posts a sample: StrategyEngineDefault or the observable storage.
PostSample(a, v) ==
  /\ Cardinality(Of({"sample"})) < MaxSamples /\ Len(strand) < MaxQueued
  /\ Post(Job("sample", a, v))
  /\ UNCHANGED <<kind, storage, bid_price_, ask_price_, returned, last>>

PostPrice(op, a, v) ==
  /\ kind = "engine"
  /\ Cardinality(Of({"bid", "ask", "wait"})) < MaxOthers /\ Len(strand) < MaxQueued
  /\ Post(Job(op, a, v))
  /\ UNCHANGED <<kind, storage, bid_price_, ask_price_, returned, last>>

PostBidPrice(a, v) == PostPrice("bid", a, v)
PostAskPrice(a, v) == PostPrice("ask", a, v)

\* Fault: Wait does not wait.
WaitReturnsAtOnce ==
  /\ Cardinality(Of({"bid", "ask", "wait"})) < MaxOthers
  /\ returned' = returned \cup {Len(posted)}
  /\ Post(Job("wait", Allowed, Len(posted)))
  /\ UNCHANGED <<kind, storage, bid_price_, ask_price_, last>>

\* The caller's promise goes to the strand behind everything posted so far.
Wait ==
  /\ Cardinality(Of({"bid", "ask", "wait"})) < MaxOthers /\ Len(strand) < MaxQueued
  /\ Post(Job("wait", Allowed, Len(posted)))
  /\ UNCHANGED <<kind, storage, bid_price_, ask_price_, returned, last>>

-----------------------------------------------------------------------------
(* Running a job: samples are analysed before they are added.              *)

RunsNext == strand # << >> /\ strand' = Tail(strand) /\ UNCHANGED <<kind, posted>>

Added(a, v) ==
  [storage EXCEPT ![a] = IF kind = "engine" THEN AddData(@, v) ELSE PooledAddData(@, v)]

Analysed(a, v) ==
  [asset |-> a, value |-> v, before |-> [b \in Assets |-> storage[b].data],
   buy |-> AnalyzeToBuy(storage, a, v), sell |-> AnalyzeToSell(storage, a, v)]

\* Fault: the sample is added before it is analysed.
RunSampleAddsFirst ==
  /\ RunsNext /\ Head(strand).op = "sample"
  /\ LET a == Head(strand).asset
         v == Head(strand).value
     IN  /\ storage' = Added(a, v)
         /\ last' = [Analysed(a, v) EXCEPT !.buy = AnalyzeToBuy(Added(a, v), a, v)]
  /\ UNCHANGED <<bid_price_, ask_price_, returned>>

RunSample ==
  /\ RunsNext /\ Head(strand).op = "sample"
  /\ LET a == Head(strand).asset
         v == Head(strand).value
     IN  storage' = Added(a, v) /\ last' = Analysed(a, v)
  /\ UNCHANGED <<bid_price_, ask_price_, returned>>

RunBidPrice ==
  /\ RunsNext /\ Head(strand).op = "bid"
  /\ bid_price_' = [bid_price_ EXCEPT ![Head(strand).asset] = <<Head(strand).value>>]
  /\ UNCHANGED <<storage, ask_price_, returned, last>>

RunAskPrice ==
  /\ RunsNext /\ Head(strand).op = "ask"
  /\ ask_price_' = [ask_price_ EXCEPT ![Head(strand).asset] = <<Head(strand).value>>]
  /\ UNCHANGED <<storage, bid_price_, returned, last>>

\* The promise is kept and the caller of Wait goes on.
RunWait ==
  /\ RunsNext /\ Head(strand).op = "wait"
  /\ returned' = returned \cup {Head(strand).value}
  /\ UNCHANGED <<storage, bid_price_, ask_price_, last>>

Callers ==
  \/ \E a \in Assets, v \in Prices : PostSample(a, v)
  \/ \E a \in Assets, v \in Quotes : PostBidPrice(a, v) \/ PostAskPrice(a, v)
  \/ Wait

RunJob == RunSample \/ RunBidPrice \/ RunAskPrice \/ RunWait

Next == Callers \/ RunJob

Spec == Init /\ [][Next]_vars

-----------------------------------------------------------------------------
(* Properties.                                                             *)

Executed == SubSeq(posted, 1, Len(posted) - Len(strand))

\* The values of the jobs of one kind for an asset, in the order of the jobs.
ValuesOf(jobs, op, a) ==
  LET upTo[n \in 0 .. Len(jobs)] ==
        IF n = 0 THEN << >>
        ELSE IF jobs[n].op = op /\ jobs[n].asset = a THEN Append(upTo[n - 1], jobs[n].value)
        ELSE upTo[n - 1]
  IN  upTo[Len(jobs)]

History(op, a) == ValuesOf(Executed, op, a)

Newest(n, s) == SubSeq(s, 1 + (IF Len(s) > n THEN Len(s) - n ELSE 0), Len(s))

Sum(s) ==
  LET upTo[n \in 0 .. Len(s)] == IF n = 0 THEN 0 ELSE upTo[n - 1] + s[n]
  IN  upTo[Len(s)]

\* Jobs, windows and prices are of their types, and a strand holds no more than its bound.
TypeOK ==
  /\ kind \in {"engine", "observable"}
  /\ \A a \in Assets : storage[a].data \in BoundedSeq(Prices, WindowSize)
  /\ bid_price_ \in [Assets -> BoundedSeq(Prices, 1)]
  /\ ask_price_ \in [Assets -> BoundedSeq(Prices, 1)]
  /\ Len(strand) <= MaxQueued /\ IsSuffix(strand, posted)
  /\ \A j \in ToSet(posted) :
       j.op \in {"sample", "bid", "ask", "wait"} /\ j.asset \in Assets
  /\ returned \subseteq 0 .. Len(posted)

\* What the storage answers is what its window says: the trackers, which see samples come
\* and go one at a time (avg, min, max _tracker.h), agree with the statistics computed
\* from the samples themselves, equal samples included, and the comparison with a
\* threshold agrees with the ratio it is about.
ReadingsDescribeWindow ==
  \A a \in Assets, v \in Prices :
    LET r == (IF kind = "engine" THEN CombinedReadings(storage[a], v)
              ELSE PooledReadings(storage[a], v))
        x == r.data
        d == r.deviations
    IN  IF x = << >>
        THEN r.avg = << >> /\ r.min = << >> /\ r.max = << >> /\ d.above = << >>
        ELSE /\ r.avg = <<Sum(x), Len(x)>>
             /\ r.min = <<Min(ToSet(x))>> /\ r.max = <<Max(ToSet(x))>>
             /\ d.above = <<Exceeds(d.ratioAbs, RatioThreshold)>>
             /\ d.deviation[1] * Sum(x) = d.ratio[1] * Sum(x)
             /\ Absolute(d.percent[1]) = 100 * d.ratioAbs[1]

\* The window of an asset holds the latest samples posted for it, in the order in which
\* they were posted, and the prices are the latest set; nothing that is still on the
\* strand is seen (AddData in strategy_engine.h:20, sliding_window_storage.h:37 and 455).
WindowIsRecentHistory ==
  \A a \in Assets :
    /\ storage[a].data = Newest(WindowSize, History("sample", a))
    /\ bid_price_[a] = Newest(1, History("bid", a))
    /\ ask_price_[a] = Newest(1, History("ask", a))

\* Who returns from Wait finds every sample posted before it in the windows
\* (strategy_engine.h:41).
WaitersSeeTheirSamples == \A m \in returned : m <= Len(Executed)

\* Mean-based ratio of a value to samples, read off the samples.
RatioAbove(x, v) ==
  x # << >> /\ (v * Len(x) - Sum(x)) * RatioThreshold[2] > RatioThreshold[1] * Sum(x)

\* The queues of the strategy (strategy.h:30, c_strategy.h:34) reach the order exactly for
\* the assets linked to the allowed one, each once, when the sample is above the mean of
\* the window before it and both windows are full and tell enough of each other; buying
\* and selling agree.
OrdersExplained ==
  last # << >> =>
    LET a == last.asset
        x == last.before[a]
        Tells(b) ==
          LET y == last.before[b]
          IN  /\ Len(x) = WindowSize /\ Len(y) = WindowSize
              /\ SamplesInformation(x, y, Bins, MiThreshold)
        linked == {b \in Assets : <<a, b>> \in Links \/ <<b, a>> \in Links}
    IN  /\ ToBag(last.buy) = IF a = Allowed /\ RatioAbove(x, last.value)
                             THEN SetToBag({b \in linked : Tells(b)}) ELSE EmptyBag
        /\ ToBag(last.sell) = ToBag(last.buy)

\* The bins of a window, with the extremes of the trackers, are those with its own; every
\* sample falls into a bin from 0 to number_bins (the largest falls into number_bins, one
\* more than asked for); and the joint histogram of two full windows sums up to the
\* histogram of each (histogram_calculator.h:36, joint_histogram_calculator.h:63).
HistogramsAgree ==
  \A a, b \in Assets :
    LET x == storage[a]
        y == storage[b]
        TrackedRange(w) == <<w.min.extreme[1], w.max.extreme[1]>>
        hist  == HistogramCalculator(x.data, TrackedRange(x), Bins)
        joint == JointHistogramCalculator(x.data, TrackedRange(x), y.data, TrackedRange(y), Bins)
    IN  HasEnoughData(x) /\ HasEnoughData(y) =>
          /\ hist = HistogramCalculator(x.data, << >>, Bins)
          /\ joint = JointHistogramCalculator(x.data, << >>, y.data, << >>, Bins)
          /\ DOMAIN hist \subseteq 0 .. Bins \/ DOMAIN hist = {NoWidth}
          /\ \A k \in DOMAIN hist :
               hist[k] = SumFunctionOnSet(joint, {p \in DOMAIN joint : p[1] = k})
          /\ DOMAIN hist = {p[1] : p \in DOMAIN joint}

\* The strand of the engine or storage lets no job overtake another: windows are what was
\* posted, in that order, and who waited sees all of it.
StrandInOrder == TypeOK /\ WindowIsRecentHistory /\ WaitersSeeTheirSamples

=============================================================================
