------------------------------ MODULE MCSeries ------------------------------
(***************************************************************************)
(* Instance of Series for TLC.                                             *)
(***************************************************************************)
EXTENDS Series

CONSTANTS p1

OnePair == <<p1>>
First == {p1}

KeepShort == [raw |-> 1, fine |-> 4, coarse |-> Forever]

\* Rounds are kept longer than the rows that count them.
KeepRounds == [raw |-> 4, fine |-> 1, coarse |-> Forever]

\* Rounds of every kind, and of several latencies.
Mixed == [t \in Instants |->
    CASE t % 4 = 3 -> "skipped" [] t % 8 = 4 -> "internal_error" [] t = 6 -> "partial"
      [] OTHER -> "complete"]
Spread == [t \in Instants |-> IF Mixed[t] = "skipped" THEN NoLatency ELSE (t * 2) % 3]

\* Two points, of fine rows that are merged or of raw rounds, which then are cut off at the
\* end; and a single point, of coarse rows or of the only raw round.
SomeRequests ==
    {[from |-> 1, to |-> MaxNow + 1, maxPoints |-> 2], [from |-> 0, to |-> MaxNow + 1, maxPoints |-> 1]}
=============================================================================
