--------------------------- MODULE ManagerMetrics ---------------------------
(***************************************************************************)
(* The pure algorithms behind the manager dashboards                       *)
(* (apps/server/lib/analytics).  Amounts are integers, and every threshold   *)
(* is compared exactly: a quotient is multiplied out.                       *)
(***************************************************************************)
EXTENDS Integers, FiniteSets, FiniteSetsExt

-----------------------------------------------------------------------------
(* anomaly-detection.ts.  A sample is a function from its members to        *)
(* amounts: the moments of the population are sums over it.                 *)

SIGMA_THRESHOLD == 3

SampleSum(sample) == MapThenSumSet(LAMBDA i : sample[i], DOMAIN sample)
SampleSquares(sample) == MapThenSumSet(LAMBDA i : sample[i] * sample[i], DOMAIN sample)

(* N^2 times the population variance, and N times the excess over the mean. *)
ScaledVariance(sample) ==
  Cardinality(DOMAIN sample) * SampleSquares(sample)
    - SampleSum(sample) * SampleSum(sample)
ScaledExcess(sample, i) == Cardinality(DOMAIN sample) * sample[i] - SampleSum(sample)

(* At least three standard deviations above the mean, which some member     *)
(* differs from.                                                           *)
DetectSpike(sample, i) ==
  /\ ScaledVariance(sample) > 0
  /\ ScaledExcess(sample, i) >= 0
  /\ ScaledExcess(sample, i) * ScaledExcess(sample, i)
       >= SIGMA_THRESHOLD * SIGMA_THRESHOLD * ScaledVariance(sample)

(* More than half as much again as a positive last week; less than half.    *)
DetectWowSpike(thisWeek, lastWeek) ==
  lastWeek > 0 /\ 2 * (thisWeek - lastWeek) > lastWeek
DetectDropOff(thisWeek, lastWeek) ==
  lastWeek > 0 /\ 2 * (lastWeek - thisWeek) > lastWeek

(* The middle of a sequence of amounts in order, doubled. *)
RankOf(sample, i, order) ==
  Cardinality({j \in DOMAIN sample :
    \/ sample[j] < sample[i]
    \/ sample[j] = sample[i] /\ order[j] <= order[i]})
MedianTwice(sample, order) ==
  LET n == Cardinality(DOMAIN sample)
      At(r) == sample[CHOOSE i \in DOMAIN sample : RankOf(sample, i, order) = r]
  IN IF n % 2 = 1 THEN 2 * At(n \div 2 + 1) ELSE At(n \div 2) + At(n \div 2 + 1)

(* The first member, in the order given, of the largest use, and of the      *)
(* smallest use that is not zero.                                           *)
TopOf(sample, order) ==
  CHOOSE i \in DOMAIN sample : \A j \in DOMAIN sample :
    sample[j] < sample[i] \/ (sample[j] = sample[i] /\ order[i] <= order[j])
BottomOf(sample, order) ==
  CHOOSE i \in DOMAIN sample : sample[i] > 0 /\ \A j \in DOMAIN sample :
    sample[j] = 0 \/ sample[j] > sample[i] \/ (sample[j] = sample[i] /\ order[i] <= order[j])

(* One team dominates: twice the median and four times the least user. *)
DetectKnowledgeSharing(sample, order) ==
  /\ Cardinality(DOMAIN sample) >= 2
  /\ \E i \in DOMAIN sample : sample[i] > 0
  /\ TopOf(sample, order) # BottomOf(sample, order)
  /\ LET top == sample[TopOf(sample, order)]
         bottom == sample[BottomOf(sample, order)]
     IN /\ MedianTwice(sample, order) > 0
        /\ top >= MedianTwice(sample, order)
        /\ top >= 4 * bottom

-----------------------------------------------------------------------------
(* radar-normalize.ts and tool-mix.ts.                                      *)

(* Where a value lies between the least and the greatest of its axis, in    *)
(* hundredths; the middle when they are equal.                              *)
NormalizeAxis(values) ==
  LET all == {values[t] : t \in DOMAIN values}
      low == Min(all)  high == Max(all)
  IN [t \in DOMAIN values |->
        IF low = high THEN 50 ELSE (100 * (values[t] - low)) \div (high - low)]
NormalizeRadarMetrics(axes, teams, null) ==
  IF Cardinality(teams) < 2 THEN null
  ELSE [axis \in DOMAIN axes |-> NormalizeAxis(axes[axis])]

ToolBuckets == {"Edit", "Read", "Bash", "Agent", "Other"}
BucketOf(tool) ==
  CASE tool \in {"Edit", "Read", "Bash"} -> tool
    [] tool \in {"Task", "Agent"} -> "Agent"
    [] OTHER -> "Other"
(* Counts per bucket of a set of [tool, count] rows. *)
BucketizeToolMix(rows) ==
  [b \in ToolBuckets |->
     MapThenSumSet(LAMBDA r : r.count, {r \in rows : BucketOf(r.tool) = b})]
=============================================================================
