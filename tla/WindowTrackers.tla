--------------------------- MODULE WindowTrackers ---------------------------
(***************************************************************************)
(* The trackers of a sliding window (aos/avg_tracker, min_tracker,         *)
(* max_tracker, deviation_tracker), the histograms (aos/histogram,         *)
(* aos/joint_histogram) and the mutual information computed from them, as  *)
(* operators on the state of one asset.                                    *)
(*                                                                         *)
(* The source has every class twice: with references ("Default") and with  *)
(* intrusive pointers.  An operator named after a class of the second kind *)
(* says that it is the same code.  Samples are integers; averages and      *)
(* ratios are kept as numerator and denominator.                           *)
(***************************************************************************)
EXTENDS Integers, BagsExt, SequencesExt

-----------------------------------------------------------------------------
(* Average: a sum and a count, both zero before the first sample.          *)

NoAvg == [sum |-> 0, count |-> 0]

AvgOnAdd(t, v)    == [sum |-> t.sum + v, count |-> t.count + 1]
AvgOnRemove(t, v) == [sum |-> t.sum - v, count |-> t.count - 1]

HasAvg(t) == t.count > 0

AvgTracker(op, t, v) == IF op = "add" THEN AvgOnAdd(t, v) ELSE AvgOnRemove(t, v)

-----------------------------------------------------------------------------
(* Minimum and maximum: how often each value occurs, and the extreme one.  *)

NoExtreme == [frequency |-> EmptyBag, extreme |-> << >>]

\* A map without an extreme is replaced by an empty one.
ExtremeOnAdd(t, v, Beats(_, _)) ==
  LET fresh == t.extreme = << >>
  IN  [frequency |-> BagAdd(IF fresh THEN EmptyBag ELSE t.frequency, v),
       extreme   |-> IF fresh \/ Beats(v, t.extreme[1]) THEN <<v>> ELSE t.extreme]

\* Only the loss of the extreme value makes the tracker look for another one, in the
\* order of the map; a value it does not know changes nothing.
ExtremeOnRemove(t, v, Beats(_, _)) ==
  LET left == BagRemove(t.frequency, v)
      best == CHOOSE x \in BagToSet(left) : \A y \in BagToSet(left) : ~Beats(y, x)
  IN  IF ~BagIn(v, t.frequency) THEN t
      ELSE [frequency |-> left,
            extreme   |-> CASE t.extreme # <<v>>  -> t.extreme
                            [] left = EmptyBag    -> << >>
                            [] OTHER              -> <<best>>]

Less(x, y) == x < y
More(x, y) == x > y

\* Fault: the smallest value left becomes the maximum (begin for rbegin).
MaxOnRemoveTakesFirst(t, v) ==
  LET r == ExtremeOnRemove(t, v, More)
  IN  IF r.extreme \in {<< >>, t.extreme} THEN r
      ELSE [r EXCEPT !.extreme = <<CHOOSE x \in BagToSet(r.frequency) :
                                     \A y \in BagToSet(r.frequency) : x <= y>>]

MinOnAdd(t, v)    == ExtremeOnAdd(t, v, Less)
MinOnRemove(t, v) == ExtremeOnRemove(t, v, Less)
MaxOnAdd(t, v)    == ExtremeOnAdd(t, v, More)
MaxOnRemove(t, v) == ExtremeOnRemove(t, v, More)

MinTracker(op, t, v) == IF op = "add" THEN MinOnAdd(t, v) ELSE MinOnRemove(t, v)
MaxTracker(op, t, v) == IF op = "add" THEN MaxOnAdd(t, v) ELSE MaxOnRemove(t, v)

-----------------------------------------------------------------------------
(* Deviations of a value from the average.  An answer is << >> when there  *)
(* is none ({false, T{}} in the source), else <<numerator, denominator>>.  *)

Absolute(k) == IF k < 0 THEN -k ELSE k

\* n/d > m/e, for d and e of any sign but zero.
Exceeds(q, r) ==
  LET d == q[2] * r[2]
  IN  IF d > 0 THEN q[1] * r[2] > r[1] * q[2] ELSE q[1] * r[2] < r[1] * q[2]

Distance(t, v) == v * t.count - t.sum

GetDeviation(t, v) ==
  IF HasAvg(t) THEN <<Distance(t, v), t.count>> ELSE << >>

\* Every ratio is refused for an average of zero as well.
HasRatio(t) == HasAvg(t) /\ t.sum # 0

GetDeviationRatio(t, v) ==
  IF HasRatio(t) THEN <<Distance(t, v), t.sum>> ELSE << >>

GetDeviationPercent(t, v) ==
  IF HasRatio(t) THEN <<100 * Distance(t, v), t.sum>> ELSE << >>

GetDeviationRatioAbs(t, v) ==
  IF HasRatio(t) THEN <<Absolute(Distance(t, v)), Absolute(t.sum)>> ELSE << >>

GetDeviationPercentAbs(t, v) ==
  IF HasRatio(t) THEN <<100 * Absolute(Distance(t, v)), Absolute(t.sum)>> ELSE << >>

\* The distance counts without its sign, the average with it.
IsDeviationRatioAboveThreshold(t, v, threshold) ==
  IF HasRatio(t) THEN <<Exceeds(<<Absolute(Distance(t, v)), t.sum>>, threshold)>> ELSE << >>

DeviationTracker(t, v, threshold) ==
  [deviation |-> GetDeviation(t, v), ratio |-> GetDeviationRatio(t, v),
   percent |-> GetDeviationPercent(t, v), ratioAbs |-> GetDeviationRatioAbs(t, v),
   percentAbs |-> GetDeviationPercentAbs(t, v),
   above |-> IsDeviationRatioAboveThreshold(t, v, threshold)]

-----------------------------------------------------------------------------
(* Histograms: how many samples fall into each bin.  The source divides    *)
(* the counts by the number of samples; the quotients are left to those    *)
(* who compare them.                                                       *)

\* The bin of a value when all samples are equal: 0/0 converted to an integer.  Which
\* one the build yields is left open; it is the same one for every sample.
NoWidth == -1

\* Fault: bins are counted from the maximum down.
BinFromTop(v, min, max, bins) ==
  IF min = max THEN NoWidth ELSE ((v - max) * bins) \div (max - min)

Bin(v, min, max, bins) ==
  IF min = max THEN NoWidth ELSE ((v - min) * bins) \div (max - min)

RangeOf(x) == <<Min(ToSet(x)), Max(ToSet(x))>>

Counted(keys) ==
  [k \in ToSet(keys) |-> Cardinality({i \in DOMAIN keys : keys[i] = k})]

HistogramBetween(x, min, max, bins) ==
  Counted([i \in DOMAIN x |-> Bin(x[i], min, max, bins)])

ComputeHistogram(x, bins) == HistogramBetween(x, Min(ToSet(x)), Max(ToSet(x)), bins)

HistogramCalculator(x, range, bins) ==
  IF range = << >> THEN ComputeHistogram(x, bins)
  ELSE HistogramBetween(x, range[1], range[2], bins)

\* Samples are paired by their place in the two windows, as many as x has.
JointHistogramBetween(x, xRange, y, yRange, bins) ==
  Counted([i \in DOMAIN x |-> <<Bin(x[i], xRange[1], xRange[2], bins),
                                Bin(y[i], yRange[1], yRange[2], bins)>>])

ComputeJointHistogram(x, y, bins) ==
  JointHistogramBetween(x, RangeOf(x), y, RangeOf(y), bins)

JointHistogramCalculator(x, xRange, y, yRange, bins) ==
  IF xRange = << >> THEN ComputeJointHistogram(x, y, bins)
  ELSE JointHistogramBetween(x, xRange, y, yRange, bins)

\* The sum over the joint histogram of p_xy * log2(p_xy / (p_x * p_y)), with n samples,
\* is (1/n) * log2(gain/loss): compared with t bits without a logarithm.
Exponentiated(joint, Base(_)) ==
  FoldFunction(LAMBDA a, b : a * b, 1, [k \in DOMAIN joint |-> Base(k) ^ joint[k]])

InformationExceeds(joint, histX, histY, n, t) ==
  LET gain == Exponentiated(joint, LAMBDA k : joint[k] * n)
      loss == Exponentiated(joint, LAMBDA k : histX[k[1]] * histY[k[2]])
  IN  gain ^ t[2] > loss ^ t[2] * 2 ^ (t[1] * n)

\* Of two samples, with their own extremes.
SamplesInformation(x, y, bins, t) ==
  InformationExceeds(ComputeJointHistogram(x, y, bins), ComputeHistogram(x, bins),
                     ComputeHistogram(y, bins), Len(x), t)

\* With the extremes the trackers know.
TrackedInformation(x, xRange, y, yRange, bins, t) ==
  InformationExceeds(JointHistogramBetween(x, xRange, y, yRange, bins),
                     HistogramBetween(x, xRange[1], xRange[2], bins),
                     HistogramBetween(y, yRange[1], yRange[2], bins), Len(x), t)

=============================================================================
