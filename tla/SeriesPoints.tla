---------------------------- MODULE SeriesPoints ----------------------------
(***************************************************************************)
(* The points of a series: where they lie, and what one tells of the       *)
(* rounds it stands for.  Rounds are named by the tick they were scheduled *)
(* for.  Of a round the points use how its execution ended and, of its     *)
(* samples, one latency at most, of which they know the bin.               *)
(***************************************************************************)
EXTENDS Integers, FiniteSetsExt

CONSTANTS
    Ended,      \* execution_status, by round
    Bins,       \* the bins of a histogram
    NoLatency,
    Latency     \* the bin of its latency, by round

ASSUME BinsAssumption == IsFiniteSet(Bins) /\ Bins \subseteq Nat /\ NoLatency \notin Bins

CeilDiv(a, b) == (a + b - 1) \div b

-----------------------------------------------------------------------------
(***************************************************************************)
(* Where the points lie: [start, width, number] of the range [from, to).   *)
(***************************************************************************)

RawLayout(from, to, maxPoints) ==
    LET width == Max({(to - from) \div maxPoints, 1})
    IN  [start |-> from, width |-> width,
         number |-> Min({CeilDiv(to - from, width), maxPoints})]

\* Mutant: a last point that is only partly filled is forgotten.
RowLayoutWhole(from, to, maxPoints, res) ==
    LET aligned == (from \div res) * res
        base == CeilDiv(to - aligned, res)
        merge == CeilDiv(base, maxPoints)
    IN  [start |-> aligned, width |-> merge * res, number |-> base \div merge]

\* Neighbouring buckets are merged until there are maxPoints of them.
RowLayout(from, to, maxPoints, res) ==
    LET aligned == (from \div res) * res
        base == CeilDiv(to - aligned, res)
        merge == CeilDiv(base, maxPoints)
    IN  [start |-> aligned, width |-> merge * res, number |-> CeilDiv(base, merge)]

IndexOf(t, layout) == (t - layout.start) \div layout.width

-----------------------------------------------------------------------------
(***************************************************************************)
(* What a point tells.                                                     *)
(***************************************************************************)

HistogramOf(rounds) == [b \in Bins |-> Cardinality({t \in rounds : Latency[t] = b})]

Samples(histogram) == SumFunction(histogram)
UpTo(histogram, bin) == SumFunctionOnSet(histogram, {b \in Bins : b <= bin})

\* The first bin up to which there are percent of the samples, rounded up.
Quantile(histogram, percent) ==
    IF Samples(histogram) = 0 THEN NoLatency
    ELSE Min({b \in Bins :
              UpTo(histogram, b) >= CeilDiv(percent * Samples(histogram), 100)})

\* Of sorted latencies, the one whose index from 0 is percent of the last index, rounded.
Percentile(histogram, percent) ==
    LET index == (percent * (Samples(histogram) - 1) + 50) \div 100
    IN  IF Samples(histogram) = 0 THEN NoLatency
        ELSE Min({b \in Bins : UpTo(histogram, b) > index})

Missing ==
    [status |-> "missing", rounds |-> {}, histogram |-> HistogramOf({}),
     p50 |-> NoLatency, p95 |-> NoLatency]

\* A point of raw rounds is exact, that of a row is not.
RawPoint(rounds) ==
    LET histogram == HistogramOf(rounds)
    IN  [status |-> IF \A t \in rounds : Ended[t] \in {"skipped", "cancelled"}
                    THEN "skipped" ELSE "observed",
         rounds |-> {"raw"} \X rounds,
         histogram |-> histogram,
         p50 |-> Percentile(histogram, 50), p95 |-> Percentile(histogram, 95)]

RowPoint(rounds) ==
    LET histogram == HistogramOf(rounds)
    IN  [status |-> IF \E t \in rounds : Ended[t] \in {"complete", "partial"}
                    THEN "observed" ELSE "skipped",
         rounds |-> {"row"} \X rounds,
         histogram |-> histogram,
         p50 |-> Quantile(histogram, 50), p95 |-> Quantile(histogram, 95)]

\* merge_series_points, of two or more
MergedStatus(points) == IF \E q \in points : q.status = "observed" THEN "observed" ELSE "skipped"

\* Mutant: quantiles are taken over from one of the points.
MergedFromOne(points) ==
    IF points = {} THEN Missing
    ELSE LET any == CHOOSE q \in points : TRUE
         IN  [any EXCEPT !.status = MergedStatus(points),
                         !.rounds = UNION {q.rounds : q \in points}]

Merged(points) ==
    LET histogram == [b \in Bins |-> SumFunction([q \in points |-> q.histogram[b]])]
    IN  CASE points = {} -> Missing
          [] Cardinality(points) = 1 -> CHOOSE q \in points : TRUE
          [] OTHER -> [status |-> MergedStatus(points),
                       rounds |-> UNION {q.rounds : q \in points},
                       histogram |-> histogram,
                       p50 |-> Quantile(histogram, 50), p95 |-> Quantile(histogram, 95)]
=============================================================================
