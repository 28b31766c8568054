--------------------------- MODULE RollupsProofs ---------------------------
(***************************************************************************)
(* What rollups and retention do to the rounds, and what readers see of    *)
(* them meanwhile, for any pairs, resolutions, retention and delay, and    *)
(* however the workers and the statements of a reader interleave:          *)
(*   - no bucket ever counts what it should not;                           *)
(*   - of the pair that is listed first no round is lost, when what is     *)
(*     kept is longer than what the cycles may still have to read;         *)
(*   - what a cycle has done is counted, of every pair and for every late  *)
(*     round, when rows are kept as long as rounds are;                    *)
(*   - pages of rounds neither lose nor repeat one;                        *)
(*   - a series shows every round, where it belongs;                       *)
(*   - and counts none twice, when rows are kept longer than rounds;       *)
(*   - what a point tells is true of the rounds it stands for.             *)
(***************************************************************************)
EXTENDS Series, FiniteSetTheorems, WellFoundedInduction, TLAPS

RollupType ==
    /\ now \in Nat
    /\ \A p \in Pairs : raw[p] \subseteq stored[p] /\ stored[p] \subseteq Instants
    /\ stored \in [Pairs -> SUBSET Instants] /\ raw \in [Pairs -> SUBSET Instants]
    /\ rollup \in [Pairs -> [Resolutions -> [Instants -> SUBSET Instants]]]

\* What the rollup cycle has in hand: bounds at the beginning of a bucket that
\* is not to come, and rounds that were stored.
InHand ==
    /\ stage \in {"query", "write"} =>
        \A res \in Resolutions : Resolution = res =>
            closed \in Nat /\ closed <= now /\ BucketOf(closed, res) = closed
    /\ stage = "write" =>
        \A p \in Pairs : Pair = p =>
            taken \subseteq stored[p] /\ \A t \in taken : t <= closed

BucketsInv == RollupType /\ InHand /\ BucketsSound

-----------------------------------------------------------------------------
(***************************************************************************)
(* Buckets.                                                                *)
(***************************************************************************)

LEMMA ResolutionIsPositive == \A res \in Resolutions : res \in Nat /\ res > 0
BY RollupSizesAssumption DEF Resolutions

LEMMA BucketBegins ==
    ASSUME NEW t \in Nat, NEW res \in Resolutions
    PROVE  /\ BucketOf(t, res) \in Nat /\ BucketOf(t, res) <= t
           /\ t < BucketOf(t, res) + res
           /\ BucketOf(BucketOf(t, res), res) = BucketOf(t, res)
<1>1. res \in Nat /\ res > 0
    BY ResolutionIsPositive
<1> DEFINE q == t \div res
<1>2. q \in Nat /\ t = res * q + (t % res) /\ t % res \in Nat /\ t % res < res
    BY <1>1
<1>3. q * res \in Nat /\ q * res = res * q
    BY <1>1, <1>2
<1>4. q * res <= t /\ t < q * res + res
    BY <1>1, <1>2, <1>3
<1>5. (q * res) \div res = q
    BY <1>1, <1>2, <1>3
<1> QED
    BY <1>3, <1>4, <1>5 DEF BucketOf

\* A round before the end of the buckets that are over is in one of them, or is
\* the first second of the next.
LEMMA OverOrFirst ==
    ASSUME NEW t \in Nat, NEW over \in Nat, NEW res \in Resolutions,
           BucketOf(over, res) = over, t <= over
    PROVE  BucketOf(t, res) + res <= over \/ BucketOf(t, res) = t
<1>1. res \in Nat /\ res > 0
    BY ResolutionIsPositive
<1> DEFINE q == t \div res
           m == over \div res
<1>2. q \in Nat /\ m \in Nat /\ over = m * res
    BY <1>1 DEF BucketOf
<1>3. q * res \in Nat /\ m * res \in Nat /\ q * res <= t
    BY <1>1, <1>2, BucketBegins DEF BucketOf
<1> HIDE DEF q, m
<1>4. CASE q < m
  <2>1. m >= q + 1 /\ m - (q + 1) \in Nat
    BY <1>2, <1>4
  <2>2. m * res = (q + 1) * res + (m - (q + 1)) * res
    BY <1>1, <1>2, <2>1
  <2>3. (m - (q + 1)) * res \in Nat /\ (q + 1) * res = q * res + res
    BY <1>1, <1>2, <2>1
  <2>4. q * res + res <= over
    BY <1>1, <1>2, <1>3, <2>2, <2>3
  <2> QED
    BY <2>4 DEF BucketOf, q
<1>5. CASE q >= m
  <2>1. q - m \in Nat
    BY <1>2, <1>5
  <2>2. q * res = m * res + (q - m) * res /\ (q - m) * res \in Nat
    BY <1>1, <1>2, <2>1
  <2>3. q * res = t
    BY <1>2, <1>3, <2>2
  <2> QED
    BY <2>3 DEF BucketOf, q
<1> QED
    BY <1>2, <1>4, <1>5

-----------------------------------------------------------------------------
(***************************************************************************)
(* The invariant.                                                          *)
(***************************************************************************)

LEMMA BucketsInit == Init => BucketsInv
<1> SUFFICES ASSUME Init PROVE BucketsInv
    OBVIOUS
<1>1. RollupType
    BY DEF Init, RollupType
<1>2. InHand
    BY DEF Init, InHand
<1>3. BucketsSound
    BY DEF Init, BucketsSound
<1> QED
    BY <1>1, <1>2, <1>3 DEF BucketsInv

\* What BucketsInv speaks of.
bucketVars == <<now, stored, raw, rollup, stage, work, closed, taken>>

LEMMA BucketsUnchanged == BucketsInv /\ UNCHANGED bucketVars => BucketsInv'
BY DEF bucketVars, BucketsInv, RollupType, InHand, BucketsSound, Pair, Resolution

LEMMA TickKeepsBuckets == BucketsInv /\ Tick => BucketsInv'
<1> SUFFICES ASSUME BucketsInv, Tick PROVE BucketsInv'
    OBVIOUS
<1>1. now \in Nat /\ now' = now + 1
      /\ UNCHANGED <<stored, raw, rollup, stage, work, closed, taken>>
    BY DEF BucketsInv, RollupType, Tick
<1>2. RollupType'
    BY <1>1 DEF BucketsInv, RollupType
<1>3. InHand'
    BY <1>1 DEF BucketsInv, InHand, Pair, Resolution
<1>4. BucketsSound'
  <2> SUFFICES ASSUME NEW p \in Pairs, NEW res \in Resolutions, NEW b \in Instants,
                      NEW t \in rollup[p][res][b]
               PROVE  t \in stored[p] /\ BucketOf(t, res) = b /\ (b + res > now' => t = b)
    BY <1>1 DEF BucketsSound
  <2>1. t \in stored[p] /\ BucketOf(t, res) = b /\ (b + res > now => t = b)
    BY DEF BucketsInv, BucketsSound
  <2>2. b \in Int /\ res \in Int
    BY ResolutionIsPositive DEF Instants
  <2> QED
    BY <1>1, <2>1, <2>2
<1> QED
    BY <1>2, <1>3, <1>4 DEF BucketsInv

LEMMA StoringKeepsBuckets ==
    ASSUME BucketsInv, NEW p \in Pairs, NEW t \in Instants, StoreRound(p, t)
    PROVE  BucketsInv'
<1>1. /\ stored' = [stored EXCEPT ![p] = @ \cup {t}]
      /\ raw' = [raw EXCEPT ![p] = @ \cup {t}]
      /\ UNCHANGED <<now, rollup, stage, work, closed, taken>>
    BY DEF StoreRound, cycle
<1>2. \A q \in Pairs : stored[q] \subseteq stored'[q] /\ stored'[q] \subseteq Instants
    BY <1>1 DEF BucketsInv, RollupType
<1>3. \A q \in Pairs : raw'[q] \subseteq stored'[q]
    BY <1>1 DEF BucketsInv, RollupType
<1> QED
    BY <1>1, <1>2, <1>3
    DEF BucketsInv, RollupType, InHand, BucketsSound, Pair, Resolution

LEMMA ReadMarkKeepsBuckets == BucketsInv /\ ReadMark => BucketsInv'
<1> SUFFICES ASSUME BucketsInv, ReadMark PROVE BucketsInv'
    OBVIOUS
<1>1. closed' = BucketOf(now, Resolution) /\ stage' = "query"
      /\ UNCHANGED <<now, stored, raw, rollup, work, taken>>
    BY DEF ReadMark, LatestClosed
<1>2. now \in Nat
    BY DEF BucketsInv, RollupType
<1>3. InHand'
    BY <1>1, <1>2, BucketBegins DEF InHand, Resolution
<1> QED
    BY <1>1, <1>3 DEF BucketsInv, RollupType, BucketsSound

LEMMA ReadRoundsKeepsBuckets == BucketsInv /\ ReadRounds => BucketsInv'
<1> SUFFICES ASSUME BucketsInv, ReadRounds PROVE BucketsInv'
    OBVIOUS
<1>1. /\ stage = "query" /\ stage' = "write"
      /\ taken' = {t \in raw[Pair] : from < t /\ t <= closed}
      /\ UNCHANGED <<now, stored, raw, rollup, work, closed>>
    BY DEF ReadRounds
<1>2. InHand'
    BY <1>1 DEF BucketsInv, RollupType, InHand, Pair, Resolution
<1> QED
    BY <1>1, <1>2 DEF BucketsInv, RollupType, BucketsSound

\* A bucket that is written counts stored rounds of its own, and is over or
\* counts its first second only.
LEMMA UpsertKeepsBuckets == BucketsInv /\ Upsert => BucketsInv'
<1> SUFFICES ASSUME BucketsInv, Upsert PROVE BucketsInv'
    OBVIOUS
<1> DEFINE bucket == BucketOf(Least(taken), Resolution)
           rounds == {t \in taken : BucketOf(t, Resolution) = bucket}
<1>1. /\ stage = "write"
      /\ rollup' = [rollup EXCEPT ![Pair][Resolution][bucket] = rounds]
      /\ taken' = taken \ rounds
      /\ UNCHANGED <<now, stored, raw, stage, work, closed>>
    BY DEF Upsert
<1>2. /\ now \in Nat
      /\ rollup \in [Pairs -> [Resolutions -> [Instants -> SUBSET Instants]]]
      /\ \A p \in Pairs : stored[p] \subseteq Instants
      /\ \A p \in Pairs : Pair = p => taken \subseteq stored[p] /\ \A t \in taken : t <= closed
      /\ \A res \in Resolutions : Resolution = res =>
            closed \in Nat /\ closed <= now /\ BucketOf(closed, res) = closed
    BY <1>1 DEF BucketsInv, RollupType, InHand
<1>3. \A t \in rounds : t \in taken /\ BucketOf(t, Resolution) = bucket
    OBVIOUS
<1> HIDE DEF bucket, rounds
<1>4. ASSUME NEW p \in Pairs, NEW res \in Resolutions, NEW b \in Instants
      PROVE  \/ rollup'[p][res][b] = rollup[p][res][b]
             \/ p = Pair /\ res = Resolution /\ b = bucket /\ rollup'[p][res][b] = rounds
    BY <1>1, <1>2
<1>5. ASSUME Pair \in Pairs PROVE rounds \subseteq Instants
    BY <1>2, <1>3, <1>5
<1>6. rollup' \in [Pairs -> [Resolutions -> [Instants -> SUBSET Instants]]]
  <2>1. CASE Pair \in Pairs
    BY <1>1, <1>2, <1>5, <2>1
  <2>2. CASE Pair \notin Pairs
    BY <1>1, <1>2, <2>2
  <2> QED
    BY <2>1, <2>2
<1>7. BucketsSound'
  <2> SUFFICES ASSUME NEW p \in Pairs, NEW res \in Resolutions, NEW b \in Instants,
                      NEW t \in rollup'[p][res][b]
               PROVE  t \in stored[p] /\ BucketOf(t, res) = b /\ (b + res > now => t = b)
    BY <1>1 DEF BucketsSound
  <2>1. CASE rollup'[p][res][b] = rollup[p][res][b]
    BY <2>1 DEF BucketsInv, BucketsSound
  <2>2. CASE p = Pair /\ res = Resolution /\ b = bucket /\ rollup'[p][res][b] = rounds
    <3>1. t \in taken /\ BucketOf(t, res) = b /\ t \in stored[p] /\ t <= closed
      BY <1>2, <1>3, <2>2
    <3>2. t \in Nat /\ closed \in Nat /\ closed <= now /\ BucketOf(closed, res) = closed
      BY <1>2, <2>2, <3>1 DEF Instants
    <3>3. b + res <= closed \/ b = t
      BY <3>1, <3>2, OverOrFirst
    <3>4. b \in Int /\ res \in Int
      BY ResolutionIsPositive DEF Instants
    <3> QED
      BY <1>2, <3>1, <3>2, <3>3, <3>4
  <2> QED
    BY <1>4, <2>1, <2>2
<1>8. RollupType'
    BY <1>1, <1>6 DEF BucketsInv, RollupType
<1>9. InHand'
    BY <1>1 DEF BucketsInv, InHand, Pair, Resolution
<1> QED
    BY <1>7, <1>8, <1>9 DEF BucketsInv

LEMMA DeletingKeepsBuckets == BucketsInv /\ DeleteBuckets => BucketsInv'
<1> SUFFICES ASSUME BucketsInv, DeleteBuckets PROVE BucketsInv'
    OBVIOUS
<1>1. UNCHANGED <<now, stored, raw, stage, work, closed, taken>>
    BY DEF DeleteBuckets, cycle
<1>2. PICK doomed : rollup' = [p \in Pairs |-> [rollup[p] EXCEPT ![Swept] =
                        [b \in Instants |-> IF <<p, b>> \in doomed THEN {} ELSE @[b]]]]
    BY DEF DeleteBuckets
<1>3. rollup \in [Pairs -> [Resolutions -> [Instants -> SUBSET Instants]]]
    BY DEF BucketsInv, RollupType
<1>4. /\ rollup' \in [Pairs -> [Resolutions -> [Instants -> SUBSET Instants]]]
      /\ \A p \in Pairs, res \in Resolutions, b \in Instants :
            rollup'[p][res][b] \subseteq rollup[p][res][b]
  <2> DEFINE kept(p) == [b \in Instants |-> IF <<p, b>> \in doomed THEN {} ELSE rollup[p][Swept][b]]
  <2>1. Swept \in Resolutions
    BY DEF Swept, Resolutions
  <2>2. \A p \in Pairs : kept(p) \in [Instants -> SUBSET Instants]
                         /\ \A b \in Instants : kept(p)[b] \subseteq rollup[p][Swept][b]
    BY <1>3, <2>1
  <2>3. rollup' = [p \in Pairs |-> [rollup[p] EXCEPT ![Swept] = kept(p)]]
    BY <1>2
  <2> HIDE DEF kept
  <2> QED
    BY <1>3, <2>1, <2>2, <2>3
<1> QED
    BY <1>1, <1>4 DEF BucketsInv, RollupType, InHand, BucketsSound, Pair, Resolution

LEMMA BucketsStep == BucketsInv /\ [Next]_vars => BucketsInv'
<1> SUFFICES ASSUME BucketsInv, [Next]_vars PROVE BucketsInv'
    OBVIOUS
<1>1. CASE BeginCycle \/ NextPair \/ CycleFails
  <2>1. /\ stage' \in {"idle", "mark"}
        /\ UNCHANGED <<now, stored, raw, rollup>>
    BY <1>1 DEF BeginCycle, NextPair, CycleFails
  <2> QED
    BY <2>1 DEF BucketsInv, RollupType, InHand, BucketsSound
<1>2. CASE BeginSweep \/ EndRaw \/ EndFine \/ EndCoarse \/ UNCHANGED vars
    BY <1>2, BucketsUnchanged
    DEF BeginSweep, EndRaw, EndFine, EndCoarse, vars, cycle, bucketVars
<1>3. CASE DeleteRaw
  <2>1. UNCHANGED <<now, stored, rollup, stage, work, closed, taken>>
    BY <1>3 DEF DeleteRaw, cycle
  <2>2. PICK doomed : raw' = [p \in Pairs |-> {t \in raw[p] : <<p, t>> \notin doomed}]
    BY <1>3 DEF DeleteRaw
  <2>3. raw \in [Pairs -> SUBSET Instants]
    BY DEF BucketsInv, RollupType
  <2>4. raw' \in [Pairs -> SUBSET Instants] /\ \A p \in Pairs : raw'[p] \subseteq raw[p]
    BY <2>2, <2>3
  <2> QED
    BY <2>1, <2>4 DEF BucketsInv, RollupType, InHand, BucketsSound, Pair, Resolution
<1> QED
    BY <1>1, <1>2, <1>3, TickKeepsBuckets, StoringKeepsBuckets, ReadMarkKeepsBuckets,
       ReadRoundsKeepsBuckets, UpsertKeepsBuckets, DeletingKeepsBuckets
    DEF Next, Work, RollupStep, RetentionStep

\* A bucket counts rounds that were stored, in their own bucket, and of a bucket that is
\* not over at most the round of its first second (rollup_worker.rs:70-190), for any pairs,
\* resolutions, retention, delays and failed cycles, and whatever retention deletes between
\* the statements of a cycle.
THEOREM RollupsSound == Spec => []BucketsSound
<1>1. BucketsInv => BucketsSound
    BY DEF BucketsInv
<1> QED
    BY <1>1, BucketsInit, BucketsStep, PTL DEF Spec
-----------------------------------------------------------------------------
(***************************************************************************)
(* The least and the greatest of a set.                                    *)
(***************************************************************************)

\* A set of numbers has a least one: that of the intervals 0..n which includes no other.
LEMMA LeastIsThere ==
    ASSUME NEW S, S \subseteq Nat, S # {}
    PROVE  Least(S) \in S /\ \A y \in S : Least(S) <= y
<1> DEFINE R == StrictSubsetOrdering(Nat)
           F == FiniteSubsetsOf(Nat)
           T == {0..n : n \in S}
<1>1. IsWellFoundedOn(R, F)
    BY FS_StrictSubsetOrderingWellFounded
<1>2. T \subseteq F /\ T # {}
  <2>1. ASSUME NEW n \in S PROVE 0..n \in F
    <3>1. n \in Int /\ 0 \in Int
      OBVIOUS
    <3>2. IsFiniteSet(0..n)
      BY <3>1, FS_Interval
    <3> QED
      BY <3>2 DEF FiniteSubsetsOf
  <2> QED
    BY <2>1
<1>3. PICK I \in T : \A J \in T : ~ (<<J, I>> \in R)
  <2> HIDE DEF R, F, T
  <2> QED
    BY <1>1, <1>2, WFMin
<1>4. PICK x \in S : I = 0..x
    BY <1>3
<1>5. ASSUME NEW y \in S PROVE ~(y < x)
  <2>1. ~(<<0..y, 0..x>> \in R)
    BY <1>3, <1>4
  <2>2. y < x => 0..y \subseteq 0..x /\ 0..y # 0..x
    BY <1>5
  <2> QED
    BY <2>1, <2>2 DEF StrictSubsetOrdering
<1>6. \E y \in S : \A z \in S : y <= z
    BY <1>4, <1>5
<1> QED
    BY <1>6 DEF Least

LEMMA GreatestIsThere ==
    ASSUME NEW n \in Nat, NEW S, S \subseteq 0..n, S # {}
    PROVE  Greatest(S) \in S /\ \A y \in S : Greatest(S) >= y
<1> DEFINE D == {n - x : x \in S}
<1>0. \A x \in S : x \in Nat /\ n - x \in Nat
    OBVIOUS
<1>1. D \subseteq Nat /\ D # {}
    BY <1>0
<1>2. Least(D) \in D /\ \A d \in D : Least(D) <= d
    BY <1>1, LeastIsThere
<1>3. PICK x \in S : Least(D) = n - x
    BY <1>2
<1>4. \A y \in S : x >= y
  <2> SUFFICES ASSUME NEW y \in S PROVE x >= y
    OBVIOUS
  <2>1. n - y \in D
    OBVIOUS
  <2>2. n - x <= n - y /\ x \in Nat /\ y \in Nat
    BY <1>0, <1>2, <1>3, <2>1
  <2> QED
    BY <2>2
<1>5. \E y \in S : \A z \in S : y >= z
    BY <1>4
<1> QED
    BY <1>5 DEF Greatest

-----------------------------------------------------------------------------
(***************************************************************************)
(* Where buckets begin.                                                    *)
(***************************************************************************)

Begins(b, res) == b \in Nat /\ BucketOf(b, res) = b

LEMMA BeginningsApart ==
    ASSUME NEW res \in Resolutions, NEW b, NEW c, Begins(b, res), Begins(c, res), b < c
    PROVE  b + res <= c
<1>1. res \in Nat /\ res > 0
    BY ResolutionIsPositive
<1>2. PICK q, m : q = b \div res /\ m = c \div res
    OBVIOUS
<1>3. q \in Nat /\ m \in Nat /\ b = q * res /\ c = m * res /\ b \in Nat /\ c \in Nat
    BY <1>1, <1>2 DEF Begins, BucketOf
<1>4. CASE q >= m
  <2>1. q - m \in Nat
    BY <1>3, <1>4
  <2>2. q * res = m * res + (q - m) * res /\ (q - m) * res \in Nat /\ m * res \in Nat
    BY <1>1, <1>3, <2>1
  <2> QED
    BY <1>3, <2>2
<1>5. CASE q < m
  <2>1. m - (q + 1) \in Nat
    BY <1>3, <1>5
  <2>2. m * res = (q + 1) * res + (m - (q + 1)) * res /\ (m - (q + 1)) * res \in Nat
    BY <1>1, <1>3, <2>1
  <2>3. (q + 1) * res = q * res + res
    BY <1>1, <1>3
  <2> QED
    BY <1>1, <1>3, <2>2, <2>3
<1> QED
    BY <1>3, <1>4, <1>5

LEMMA BucketIsBeginning ==
    ASSUME NEW t \in Nat, NEW res \in Resolutions PROVE Begins(BucketOf(t, res), res)
BY BucketBegins DEF Begins

LEMMA BucketUnique ==
    ASSUME NEW t \in Nat, NEW res \in Resolutions, NEW b, Begins(b, res), b <= t, t < b + res
    PROVE  BucketOf(t, res) = b
<1>1. /\ BucketOf(t, res) \in Nat /\ BucketOf(t, res) <= t /\ t < BucketOf(t, res) + res
      /\ Begins(BucketOf(t, res), res) /\ b \in Nat /\ res \in Nat
    BY BucketBegins, ResolutionIsPositive DEF Begins
<1>2. CASE b < BucketOf(t, res)
  <2>1. b + res <= BucketOf(t, res)
    BY <1>1, <1>2, BeginningsApart
  <2> QED
    BY <1>1, <2>1
<1>3. CASE BucketOf(t, res) < b
  <2>1. BucketOf(t, res) + res <= b
    BY <1>1, <1>3, BeginningsApart
  <2> QED
    BY <1>1, <2>1
<1> QED
    BY <1>1, <1>2, <1>3

LEMMA BucketMonotone ==
    ASSUME NEW s \in Nat, NEW t \in Nat, NEW res \in Resolutions, s <= t
    PROVE  BucketOf(s, res) <= BucketOf(t, res)
<1>1. /\ BucketOf(s, res) \in Nat /\ BucketOf(s, res) <= s
      /\ BucketOf(t, res) \in Nat /\ t < BucketOf(t, res) + res /\ res \in Nat
      /\ Begins(BucketOf(s, res), res) /\ Begins(BucketOf(t, res), res)
    BY BucketBegins, ResolutionIsPositive DEF Begins
<1>2. CASE BucketOf(t, res) < BucketOf(s, res)
  <2>1. BucketOf(t, res) + res <= BucketOf(s, res)
    BY <1>1, <1>2, BeginningsApart
  <2> QED
    BY <1>1, <2>1
<1> QED
    BY <1>1, <1>2

\* Buckets before a beginning begin whole buckets before it.
LEMMA BeginsBefore ==
    ASSUME NEW res \in Resolutions, NEW b, Begins(b, res), NEW k \in Nat, b - k * res >= 0
    PROVE  Begins(b - k * res, res)
<1>1. res \in Nat /\ res > 0
    BY ResolutionIsPositive
<1>2. PICK q : q = b \div res
    OBVIOUS
<1>3. q \in Nat /\ b = q * res /\ b \in Nat
    BY <1>1, <1>2 DEF Begins, BucketOf
<1>4. q >= k
  <2>1. CASE q < k
    <3>1. k - q - 1 \in Nat
      BY <1>3, <2>1
    <3>2. k * res = q * res + res + (k - q - 1) * res /\ (k - q - 1) * res \in Nat
      BY <1>1, <1>3, <3>1
    <3> QED
      BY <1>1, <1>3, <3>2
  <2> QED
    BY <1>3, <2>1
<1>5. q - k \in Nat /\ (q - k) * res = q * res - k * res
    BY <1>1, <1>3, <1>4
<1>6. PICK d : d = q - k
    OBVIOUS
<1>7. (d * res) \div res = d
    BY <1>1, <1>5, <1>6
<1> QED
    BY <1>1, <1>3, <1>5, <1>6, <1>7 DEF Begins, BucketOf

-----------------------------------------------------------------------------
(***************************************************************************)
(* The pair that is listed first.                                          *)
(***************************************************************************)
FirstPair == PairOrder[1]

FirstIsSteady == PairOrder # <<>> /\ Steady = {FirstPair}

\* Cycles that fail, rounds that come late and the buckets that are read again fit into what
\* is kept; the buckets that are read again reach back behind whatever is not yet counted.
Span == (Lookback + 1) * Fine + MaxDelay + MaxFaults + 1

Roomy ==
    /\ Keep["raw"] # Forever => Keep["raw"] >= Span
    /\ Keep["fine"] # Forever => Keep["fine"] >= Fine + MaxDelay + MaxFaults + 2
    /\ Lookback * Fine > MaxDelay + MaxFaults + 2

\* The cycle comes to the fine buckets of the pair, or is at them.
AtFirst == stage # "idle" /\ Pair = FirstPair /\ Resolution = Fine

Late == IF ran THEN 0 ELSE 1

\* The tick up to which the cycles have done their work: each that fails is one behind.
DoneTo == now - 1 - Late - (IF AtFirst THEN 1 ELSE 0) - faults

\* A cycle of the tick after n reads the round: it is stored and before the bound.
Due(t, n) == t + MaxDelay <= n /\ t <= BucketOf(n + 1, Fine)

Expired(t) == Keep["fine"] # Forever /\ BucketOf(t, Fine) < now - Keep["fine"]

FineRow(t) == rollup[FirstPair][Fine][BucketOf(t, Fine)]
Counted(t) == FineRow(t) # {} /\ (t % Fine # 0 => t \in FineRow(t))

RoundsInTime ==
    /\ now <= MaxNow /\ faults \in 0..MaxFaults /\ ran \in BOOLEAN
    /\ \A t \in Instants : t + MaxDelay < now => t \in stored[FirstPair]
    /\ \A t \in stored[FirstPair] : t <= now

OldDeleted ==
    /\ \A t \in stored[FirstPair] \ raw[FirstPair] :
        Keep["raw"] # Forever /\ t < now - Keep["raw"]
    /\ cutoff \in Int
    /\ \A level \in {"raw", "fine"} : sweep = level =>
        cutoff = 0 \/ (Keep[level] # Forever /\ cutoff <= now - Keep[level])

DueCounted == \A t \in stored[FirstPair] : Due(t, DoneTo) => Expired(t) \/ Counted(t)

\* The query reaches back to what is not counted, and not to what is deleted.
Queried ==
    /\ \A t \in stored[FirstPair] : Due(t, DoneTo + 1) =>
        t <= closed /\ (t <= from => Expired(t) \/ Counted(t))
    /\ from \in Int /\ (from < 0 \/ Begins(from, Fine))
    /\ from >= now - Span - Late

\* What was read is counted once it is written, and is not written over.
Written ==
    \A t \in stored[FirstPair] : Due(t, DoneTo + 1) =>
        \/ t \in taken
        \/ Expired(t)
        \/ /\ Counted(t)
           /\ t % Fine # 0 => \A s \in taken : BucketOf(s, Fine) # BucketOf(t, Fine)

\* The inductive invariant of NoRoundLost.
KeptInv ==
    /\ BucketsInv /\ RoundsInTime /\ OldDeleted /\ DueCounted
    /\ AtFirst /\ stage = "query" => Queried
    /\ AtFirst /\ stage = "write" => Written

-----------------------------------------------------------------------------

LEMMA KeptConstants ==
    ASSUME FirstIsSteady, Roomy
    PROVE  /\ Fine \in Resolutions /\ Fine \in Nat /\ Fine > 0
           /\ MaxDelay \in Nat /\ MaxFaults \in Nat /\ MaxNow \in Nat
           /\ FirstPair \in Pairs /\ FirstPair \in Steady
           /\ Lookback \in Nat /\ Lookback * Fine \in Nat
           /\ Span = Lookback * Fine + Fine + MaxDelay + MaxFaults + 1 /\ Span \in Nat
           /\ 1 \in 1..(2 * Len(PairOrder))
           /\ Keep["raw"] # Forever => Keep["raw"] \in Nat
           /\ Keep["fine"] # Forever => Keep["fine"] \in Nat
<1>1. Fine \in Nat /\ Fine > 0 /\ Lookback \in Nat /\ Fine \in Resolutions
    BY RollupSizesAssumption DEF Resolutions
<1>2. Lookback * Fine \in Nat /\ (Lookback + 1) * Fine = Lookback * Fine + Fine
    BY <1>1
<1>3. Len(PairOrder) \in Nat /\ Len(PairOrder) > 0 /\ 1 \in DOMAIN PairOrder
    BY PairsAssumption DEF FirstIsSteady
<1>4. FirstPair \in Pairs /\ FirstPair \in Steady
    BY <1>3 DEF FirstPair, Pairs, FirstIsSteady
<1>5. MaxDelay \in Nat /\ MaxFaults \in Nat /\ MaxNow \in Nat
    BY RollupBoundsAssumption
<1>6. PICK m : m = Lookback * Fine
    OBVIOUS
<1>7. Span = m + Fine + MaxDelay + MaxFaults + 1 /\ m \in Nat
    BY <1>2, <1>6 DEF Span
<1>8. Span \in Nat
    BY <1>1, <1>5, <1>7
<1>9. /\ Keep["raw"] # Forever => Keep["raw"] \in Nat
      /\ Keep["fine"] # Forever => Keep["fine"] \in Nat
    BY KeepAssumption DEF Levels
<1> QED
    BY <1>1, <1>2, <1>3, <1>4, <1>5, <1>6, <1>7, <1>8, <1>9

LEMMA KeptFacts ==
    ASSUME FirstIsSteady, Roomy, KeptInv
    PROVE  /\ now \in Nat /\ now <= MaxNow /\ faults \in Nat /\ faults <= MaxFaults
           /\ Late \in {0, 1} /\ DoneTo \in Int
           /\ now - 3 - MaxFaults <= DoneTo /\ DoneTo + 1 <= now
           /\ AtFirst => DoneTo + 2 <= now /\ DoneTo = now - 2 - Late - faults
           /\ ~AtFirst => DoneTo = now - 1 - Late - faults
           /\ stored[FirstPair] \subseteq Instants /\ raw[FirstPair] \subseteq stored[FirstPair]
           /\ \A t \in stored[FirstPair] : t \in Nat /\ t <= now
           /\ \A b \in Instants : rollup[FirstPair][Fine][b] \subseteq Instants
<1>1. now \in Nat /\ now <= MaxNow /\ faults \in Nat /\ faults <= MaxFaults
    BY KeptConstants DEF KeptInv, BucketsInv, RollupType, RoundsInTime
<1>2. Late \in {0, 1}
    BY DEF Late
<1>3. \A t \in stored[FirstPair] : t \in Nat /\ t <= now
    BY KeptConstants DEF KeptInv, BucketsInv, RollupType, RoundsInTime, Instants
<1>4. \A b \in Instants : rollup[FirstPair][Fine][b] \subseteq Instants
    BY KeptConstants DEF KeptInv, BucketsInv, RollupType
<1>5. stored[FirstPair] \subseteq Instants /\ raw[FirstPair] \subseteq stored[FirstPair]
    BY KeptConstants DEF KeptInv, BucketsInv, RollupType
<1>6. PICK d : d = IF AtFirst THEN 1 ELSE 0
    OBVIOUS
<1>7. d \in {0, 1} /\ (AtFirst => d = 1) /\ (~AtFirst => d = 0)
    BY <1>6
<1>8. PICK l : l = Late
    OBVIOUS
<1>9. DoneTo = now - 1 - l - d - faults
    BY <1>6, <1>8 DEF DoneTo
<1>10. l \in {0, 1} /\ MaxFaults \in Nat
    BY <1>2, <1>8, KeptConstants
<1>11. /\ DoneTo \in Int /\ now - 3 - MaxFaults <= DoneTo /\ DoneTo + 1 <= now
       /\ AtFirst => DoneTo + 2 <= now /\ DoneTo = now - 2 - l - faults
       /\ ~AtFirst => DoneTo = now - 1 - l - faults
  <2>1. CASE AtFirst
    BY <1>1, <1>7, <1>9, <1>10, <2>1
  <2>2. CASE ~AtFirst
    BY <1>1, <1>7, <1>9, <1>10, <2>2
  <2> QED
    BY <2>1, <2>2
<1> QED
    BY <1>1, <1>2, <1>3, <1>4, <1>5, <1>8, <1>11

LEMMA DueLater ==
    ASSUME FirstIsSteady, Roomy, NEW t \in Nat, NEW n \in Int, NEW m \in Int, n <= m, Due(t, n)
    PROVE  Due(t, m)
<1>1. n + 1 \in Nat /\ m + 1 \in Nat /\ n + 1 <= m + 1
    BY KeptConstants DEF Due
<1>2. /\ BucketOf(n + 1, Fine) <= BucketOf(m + 1, Fine)
      /\ BucketOf(n + 1, Fine) \in Nat /\ BucketOf(m + 1, Fine) \in Nat
    BY <1>1, KeptConstants, BucketMonotone, BucketBegins
<1>3. MaxDelay \in Nat /\ t + MaxDelay <= n /\ t <= BucketOf(n + 1, Fine)
    BY KeptConstants DEF Due
<1>4. t + MaxDelay <= m
    BY <1>3
<1>5. PICK b, c : b = BucketOf(n + 1, Fine) /\ c = BucketOf(m + 1, Fine)
    OBVIOUS
<1>6. t <= c
    BY <1>2, <1>3, <1>5
<1> QED
    BY <1>4, <1>5, <1>6 DEF Due

\* What was stored in this tick, or is not yet over, is not due.
LEMMA NotDue ==
    ASSUME FirstIsSteady, Roomy, NEW t \in Nat, NEW n \in Int, ~Due(t, n)
    PROVE  t + MaxDelay > n \/ t + Fine > n + 1
<1>1. CASE n + 1 \in Nat
  <2>1. BucketOf(n + 1, Fine) \in Nat /\ n + 1 < BucketOf(n + 1, Fine) + Fine
    BY <1>1, KeptConstants, BucketBegins
  <2>2. PICK b : b = BucketOf(n + 1, Fine)
    OBVIOUS
  <2>3. b \in Nat /\ n + 1 < b + Fine /\ Fine \in Nat /\ MaxDelay \in Nat
    BY <2>1, <2>2, KeptConstants
  <2>4. ~(t + MaxDelay <= n) \/ ~(t <= b)
    BY <2>2 DEF Due
  <2> QED
    BY <2>3, <2>4
<1>2. CASE n + 1 \notin Nat
  <2>1. n < 0 /\ MaxDelay \in Nat
    BY <1>2, KeptConstants
  <2> QED
    BY <2>1
<1> QED
    BY <1>1, <1>2

LEMMA KeptUnchanged ==
    KeptInv /\ UNCHANGED <<now, stored, raw, rollup, stage, work, from, closed, taken, ran,
                          sweep, cutoff, faults>> => KeptInv'
<1> SUFFICES ASSUME KeptInv, UNCHANGED <<now, stored, raw, rollup, stage, work, from, closed,
                                         taken, ran, sweep, cutoff, faults>>
             PROVE  KeptInv'
    OBVIOUS
<1>1. BucketsInv'
    BY BucketsUnchanged DEF KeptInv, bucketVars
<1> QED
    BY <1>1
    DEF KeptInv, RoundsInTime, OldDeleted, DueCounted, Queried, Written, AtFirst, Pair,
        Resolution, DoneTo, Late, Expired, Counted, FineRow

\* A round that is stored is not due yet.
LEMMA StoringKeeps ==
    ASSUME FirstIsSteady, Roomy, KeptInv, NEW p \in Pairs, NEW t \in Instants, StoreRound(p, t)
    PROVE  KeptInv'
<1>1. /\ stored' = [stored EXCEPT ![p] = @ \cup {t}]
      /\ raw' = [raw EXCEPT ![p] = @ \cup {t}]
      /\ t <= now /\ now <= t + MaxDelay
      /\ UNCHANGED <<now, rollup, stage, work, from, closed, taken, ran, sweep, cutoff, faults>>
    BY DEF StoreRound, cycle, retention
<1>2. BucketsInv'
    BY StoringKeepsBuckets DEF KeptInv
<1>3. /\ stored \in [Pairs -> SUBSET Instants]
      /\ stored' \in [Pairs -> SUBSET Instants]
    BY <1>2 DEF KeptInv, BucketsInv, RollupType
<1>4. stored[FirstPair] \subseteq stored'[FirstPair]
      /\ \A u \in stored'[FirstPair] : u \in stored[FirstPair] \/ u = t
    BY <1>1, <1>3, KeptConstants
<1>5. \A u \in stored'[FirstPair] \ raw'[FirstPair] : u \in stored[FirstPair] \ raw[FirstPair]
  <2>1. raw \in [Pairs -> SUBSET Instants] /\ FirstPair \in Pairs
    BY KeptConstants DEF KeptInv, BucketsInv, RollupType
  <2>2. CASE p = FirstPair
    BY <1>1, <1>3, <2>1, <2>2
  <2>3. CASE p # FirstPair
    BY <1>1, <1>3, <2>1, <2>3
  <2> QED
    BY <2>2, <2>3
<1>6. DoneTo' = DoneTo /\ AtFirst' = AtFirst /\ Late' = Late
    BY <1>1 DEF DoneTo, AtFirst, Late, Pair, Resolution
<1>7. ~Due(t, DoneTo) /\ (AtFirst => ~Due(t, DoneTo + 1))
  <2>1. /\ t \in Nat /\ MaxDelay \in Nat /\ DoneTo \in Int /\ now \in Nat
        /\ DoneTo + 1 <= now /\ (AtFirst => DoneTo + 2 <= now) /\ now <= t + MaxDelay
    BY <1>1, KeptConstants, KeptFacts DEF Instants
  <2>2. PICK d : d = DoneTo
    OBVIOUS
  <2>3. ~(t + MaxDelay <= d) /\ (AtFirst => ~(t + MaxDelay <= d + 1))
    BY <2>1, <2>2
  <2> QED
    BY <2>2, <2>3 DEF Due
<1>8. \A u \in stored'[FirstPair] :
        /\ Due(u, DoneTo) => u \in stored[FirstPair]
        /\ AtFirst /\ Due(u, DoneTo + 1) => u \in stored[FirstPair]
    BY <1>4, <1>7
<1>9. \A u : (Expired(u) <=> Expired(u)') /\ (Counted(u) <=> Counted(u)')
    BY <1>1 DEF Expired, Counted, FineRow
<1>10. RoundsInTime'
    BY <1>1, <1>4 DEF KeptInv, RoundsInTime
<1>11. OldDeleted'
    BY <1>1, <1>5 DEF KeptInv, OldDeleted
<1>12. DueCounted'
    BY <1>6, <1>8, <1>9 DEF KeptInv, DueCounted
<1>13. AtFirst' /\ stage' = "query" => Queried'
    BY <1>1, <1>6, <1>8, <1>9 DEF KeptInv, Queried
<1>14. AtFirst' /\ stage' = "write" => Written'
    BY <1>1, <1>6, <1>8, <1>9 DEF KeptInv, Written
<1> QED
    BY <1>2, <1>10, <1>11, <1>12, <1>13, <1>14 DEF KeptInv

\* A cycle that does not get further leaves counted what is.
LEMMA NotFurther ==
    ASSUME FirstIsSteady, Roomy, KeptInv, UNCHANGED <<now, stored, rollup>>,
           DoneTo' \in Int, DoneTo' <= DoneTo
    PROVE  DueCounted'
<1>1. \A t : (Expired(t) <=> Expired(t)') /\ (Counted(t) <=> Counted(t)')
    BY DEF Expired, Counted, FineRow
<1>2. PICK n, m : n = DoneTo' /\ m = DoneTo
    OBVIOUS
<1>3. n \in Int /\ m \in Int /\ n <= m
    BY <1>2, KeptFacts
<1>4. \A t : Due(t, DoneTo)' <=> Due(t, n)
    BY <1>2 DEF Due
<1>5. \A t \in stored[FirstPair] : Due(t, n) => Due(t, m)
    BY <1>3, DueLater, KeptFacts
<1>6. \A t \in stored[FirstPair] : Due(t, m) => Expired(t) \/ Counted(t)
    BY <1>2 DEF KeptInv, DueCounted
<1> QED
    BY <1>1, <1>4, <1>5, <1>6 DEF DueCounted

\* Time passes after a cycle began, so the work that is done reaches as far as before.
LEMMA TickKeeps ==
    ASSUME FirstIsSteady, Roomy, KeptInv, Tick
    PROVE  KeptInv'
<1>1. /\ now' = now + 1 /\ now < MaxNow /\ ran = TRUE /\ ran' = FALSE
      /\ UNCHANGED <<stored, raw, rollup, stage, work, from, closed, taken, sweep, cutoff, faults>>
    BY DEF Tick, retention, KeptInv, RoundsInTime
<1>2. BucketsInv'
    BY TickKeepsBuckets DEF KeptInv
<1>3. now \in Nat /\ MaxNow \in Nat /\ MaxDelay \in Nat /\ Span \in Int
      /\ (Keep["raw"] # Forever => Keep["raw"] \in Nat)
      /\ (Keep["fine"] # Forever => Keep["fine"] \in Nat)
  <2>1. now \in Nat
    BY KeptFacts
  <2>2. /\ MaxNow \in Nat /\ MaxDelay \in Nat /\ Span \in Nat
        /\ Keep["raw"] # Forever => Keep["raw"] \in Nat
        /\ Keep["fine"] # Forever => Keep["fine"] \in Nat
    BY KeptConstants
  <2> QED
    BY <2>1, <2>2
<1>4. AtFirst' = AtFirst /\ Late = 0 /\ Late' = 1
    BY <1>1 DEF AtFirst, Late, Pair, Resolution
<1>5. DoneTo' = DoneTo
  <2>1. PICK d : d = IF AtFirst THEN 1 ELSE 0
    OBVIOUS
  <2>2. DoneTo = now - 1 - 0 - d - faults /\ DoneTo' = (now + 1) - 1 - 1 - d - faults
    BY <1>1, <1>4, <2>1 DEF DoneTo
  <2>3. d \in Int /\ faults \in Int /\ now \in Int
    BY <2>1, <1>3, KeptFacts
  <2> QED
    BY <2>2, <2>3
<1>6. \A t \in Instants : (Expired(t) => Expired(t)') /\ (Counted(t) <=> Counted(t)')
  <2> SUFFICES ASSUME NEW t \in Instants
               PROVE  (Expired(t) => Expired(t)') /\ (Counted(t) <=> Counted(t)')
    OBVIOUS
  <2>1. PICK b : b = BucketOf(t, Fine)
    OBVIOUS
  <2>2. b \in Nat
    BY <2>1, BucketBegins, KeptConstants DEF Instants
  <2> QED
    BY <1>1, <1>3, <2>1, <2>2 DEF Expired, Counted, FineRow
<1>7. \A t \in stored[FirstPair] : t \in Instants /\ t \in Nat /\ t <= now
    BY KeptFacts
<1>8. RoundsInTime'
  <2>1. ASSUME NEW t \in Instants, t + MaxDelay < now' PROVE t \in stored[FirstPair]
    <3>1. FirstPair \in Steady
      BY KeptConstants
    <3>2. t \in Nat
      BY <1>3 DEF Instants
    <3>3. t + MaxDelay <= now
      BY <1>1, <1>3, <2>1, <3>2
    <3> QED
      BY <3>1, <3>3 DEF Tick
  <2>2. now' <= MaxNow /\ faults' \in 0..MaxFaults /\ ran' \in BOOLEAN
    <3>1. faults' \in 0..MaxFaults
      BY <1>1 DEF KeptInv, RoundsInTime
    <3>2. now' <= MaxNow
      BY <1>1, <1>3
    <3>3. ran' \in BOOLEAN
      BY <1>1
    <3> QED
      BY <3>1, <3>2, <3>3
  <2>3. \A t \in stored'[FirstPair] : t <= now'
    BY <1>1, <1>3, <1>7
  <2> QED
    BY <1>1, <2>1, <2>2, <2>3 DEF RoundsInTime
<1>9. OldDeleted'
    BY <1>1, <1>3, <1>7 DEF KeptInv, OldDeleted
<1>10. DueCounted'
    BY <1>1, <1>5, <1>6, <1>7 DEF KeptInv, DueCounted, Due
<1>11. AtFirst' /\ stage' = "query" => Queried'
  <2> SUFFICES ASSUME AtFirst', stage' = "query" PROVE Queried'
    OBVIOUS
  <2>1. Queried
    BY <1>1, <1>4 DEF KeptInv
  <2>2. from \in Int /\ from >= now - Span - 0
    BY <1>4, <2>1 DEF Queried
  <2>3. from >= (now + 1) - Span - 1
    BY <1>3, <2>2
  <2> QED
    BY <1>1, <1>4, <1>5, <1>6, <1>7, <2>1, <2>3 DEF Queried, Due
<1>12. AtFirst' /\ stage' = "write" => Written'
  <2> SUFFICES ASSUME AtFirst', stage' = "write" PROVE Written'
    OBVIOUS
  <2>1. Written
    BY <1>1, <1>4 DEF KeptInv
  <2> QED
    BY <1>1, <1>5, <1>6, <1>7, <2>1 DEF Written, Due
<1> QED
    BY <1>2, <1>8, <1>9, <1>10, <1>11, <1>12 DEF KeptInv

\* What retention may delete of the rounds is older than what the cycles still have to count.
LEMMA DeletedWasDue ==
    ASSUME FirstIsSteady, Roomy, KeptInv, NEW t \in stored[FirstPair], t \notin raw[FirstPair]
    PROVE  Due(t, DoneTo)
<1>1. /\ t \in Nat /\ now \in Nat /\ MaxDelay \in Nat /\ MaxFaults \in Nat /\ Fine \in Nat
      /\ Fine > 0 /\ Lookback * Fine \in Nat /\ DoneTo \in Int /\ now - 3 - MaxFaults <= DoneTo
      /\ Span = Lookback * Fine + Fine + MaxDelay + MaxFaults + 1
    BY KeptConstants, KeptFacts
<1>2. Keep["raw"] \in Nat /\ t < now - Keep["raw"] /\ Keep["raw"] >= Span
    BY KeptConstants DEF KeptInv, OldDeleted, Roomy
<1>3. PICK n, l : n = DoneTo /\ l = Lookback * Fine
    OBVIOUS
<1>4. l > MaxDelay + MaxFaults + 2
    BY <1>3 DEF Roomy
<1>5. t < now - (l + Fine + MaxDelay + MaxFaults + 1)
    BY <1>1, <1>2, <1>3
<1>6. ~(t + MaxDelay > n) /\ ~(t + Fine > n + 1)
    BY <1>1, <1>3, <1>4, <1>5
<1> QED
    BY <1>1, <1>3, <1>6, NotDue

\* A cycle comes to the pair first, unless all its rounds are deleted.
LEMMA BeginCycleKeeps ==
    ASSUME FirstIsSteady, Roomy, KeptInv, BeginCycle
    PROVE  KeptInv'
<1>1. /\ stage = "idle" /\ work' = Listed /\ stage' = (IF Listed = {} THEN "idle" ELSE "mark")
      /\ ran' = TRUE
      /\ UNCHANGED <<now, stored, raw, rollup, from, closed, taken, sweep, cutoff, faults>>
    BY DEF BeginCycle, retention
<1>2. BucketsInv'
  <2>1. [Next]_vars
    BY DEF Next, Work, RollupStep
  <2> QED
    BY <2>1, BucketsStep DEF KeptInv
<1>3. RoundsInTime' /\ OldDeleted'
    BY <1>1 DEF KeptInv, RoundsInTime, OldDeleted
<1>4. ~AtFirst /\ Late' = 0 /\ DoneTo = now - 1 - Late - 0 - faults
    BY <1>1 DEF AtFirst, Late, DoneTo
<1>5. now \in Int /\ faults \in Int /\ Late \in {0, 1} /\ (ran <=> Late = 0)
    BY KeptFacts DEF Late
<1>6. PICK n, m, l : n = DoneTo' /\ m = DoneTo /\ l = Late
    OBVIOUS
<1>7. PICK d : d = IF AtFirst' THEN 1 ELSE 0
    OBVIOUS
<1>8. n = now - 1 - 0 - d - faults /\ m = now - 1 - l - faults /\ d \in {0, 1} /\ l \in {0, 1}
    BY <1>1, <1>4, <1>5, <1>6, <1>7 DEF DoneTo
<1>9. ASSUME n <= m PROVE DueCounted'
    BY <1>1, <1>5, <1>6, <1>8, <1>9, NotFurther
<1>10. ASSUME ~(n <= m) PROVE DueCounted'
  <2>1. ~AtFirst'
    BY <1>5, <1>7, <1>8, <1>10
  <2>2. raw[FirstPair] = {}
    <3>1. SUFFICES ASSUME raw[FirstPair] # {} PROVE AtFirst'
      BY <2>1
    <3>2. 1 \in 1..(2 * Len(PairOrder)) /\ PairAt(1) = FirstPair /\ ResolutionAt(1) = Fine
      BY KeptConstants DEF PairAt, ResolutionAt, FirstPair
    <3>3. 1 \in Listed /\ Listed \subseteq Nat /\ \A k \in Listed : k >= 1
      BY <3>1, <3>2 DEF Listed
    <3>4. Least(Listed) \in Listed /\ Least(Listed) <= 1
      <4>1. Least(Listed) \in Listed /\ \A k \in Listed : Least(Listed) <= k
        BY <3>3, LeastIsThere
      <4> QED
        BY <3>3, <4>1
    <3>5. PICK k : k = Least(Listed)
      OBVIOUS
    <3>6. k \in Nat /\ k >= 1 /\ k <= 1
      BY <3>3, <3>4, <3>5
    <3>7. Least(Listed) = 1
      BY <3>5, <3>6
    <3> QED
      BY <1>1, <3>2, <3>3, <3>7 DEF AtFirst, Pair, Resolution
  <2>3. \A t \in stored[FirstPair] : Expired(t) \/ Counted(t)
    BY <2>2, DeletedWasDue DEF KeptInv, DueCounted
  <2> QED
    BY <1>1, <2>3 DEF DueCounted, Expired, Counted, FineRow
<1>11. DueCounted'
    BY <1>9, <1>10
<1> QED
    BY <1>1, <1>2, <1>3, <1>11 DEF KeptInv

\* The bounds of the query, at the pair that is first: it reaches back to what is not counted
\* yet, as the latest bucket is recent enough, and not further than what is kept.
LEMMA ReadMarkQueries ==
    ASSUME FirstIsSteady, Roomy, KeptInv, ReadMark, AtFirst
    PROVE  Queried'
<1>1. /\ closed' = BucketOf(now, Fine) /\ from' = ComputeFrom(Starts(FirstPair, Fine), Fine)
      /\ stage = "mark" /\ stage' = "query"
      /\ UNCHANGED <<now, stored, raw, rollup, work, ran, faults>>
    BY DEF ReadMark, AtFirst, LatestClosed
<1>2. PICK n, k, L : n = DoneTo /\ k = Lookback * Fine /\ L = Late
    OBVIOUS
<1>3. /\ now \in Nat /\ now <= MaxNow /\ faults \in Nat /\ faults <= MaxFaults /\ L \in {0, 1}
      /\ n \in Int /\ n = now - 2 - L - faults /\ n + 2 <= now /\ MaxNow \in Nat
      /\ now - 3 - MaxFaults <= n
    BY <1>2, KeptFacts, KeptConstants
<1>4. /\ Fine \in Resolutions /\ Fine \in Nat /\ Fine > 0 /\ k \in Nat /\ Lookback \in Nat
      /\ MaxDelay \in Nat /\ MaxFaults \in Nat /\ FirstPair \in Pairs
      /\ k > MaxDelay + MaxFaults + 2
      /\ Span = k + Fine + MaxDelay + MaxFaults + 1
    BY <1>2, KeptConstants DEF Roomy
<1>5. \A t \in stored[FirstPair] : t \in Nat /\ t <= now /\ t \in Instants
    BY KeptFacts
<1>6. PICK S : S = Starts(FirstPair, Fine)
    OBVIOUS
<1>7. \A b \in S : b \in Nat /\ b <= now /\ Begins(b, Fine) /\ b \in Instants
  <2> SUFFICES ASSUME NEW b \in S PROVE b \in Nat /\ b <= now /\ Begins(b, Fine) /\ b \in Instants
    OBVIOUS
  <2>1. b \in Instants /\ rollup[FirstPair][Fine][b] # {}
    BY <1>6 DEF Starts
  <2>2. PICK t : t \in rollup[FirstPair][Fine][b]
    BY <2>1
  <2>3. t \in stored[FirstPair] /\ BucketOf(t, Fine) = b
    BY <1>4, <2>1, <2>2 DEF KeptInv, BucketsInv, BucketsSound
  <2>4. t \in Nat /\ t <= now
    BY <1>5, <2>3
  <2>5. b \in Nat /\ b <= t /\ Begins(b, Fine)
    BY <1>4, <2>3, <2>4, BucketBegins, BucketIsBeginning
  <2> QED
    BY <1>3, <2>1, <2>4, <2>5
<1>8. n - MaxDelay >= 0 => \E b \in S : b >= n - MaxDelay - Fine + 1
  <2> SUFFICES ASSUME n - MaxDelay >= 0
               PROVE  \E b \in S : b >= n - MaxDelay - Fine + 1
    OBVIOUS
  <2>1. PICK e : e = n - MaxDelay
    OBVIOUS
  <2>2. e \in Nat /\ e <= n + 1 /\ n + 1 \in Nat
    BY <1>3, <1>4, <2>1
  <2>3. PICK s : s = BucketOf(e, Fine)
    OBVIOUS
  <2>4. s \in Nat /\ s <= e /\ e < s + Fine /\ BucketOf(s, Fine) = s
    BY <1>4, <2>2, <2>3, BucketBegins
  <2>5. s \in Instants /\ s + MaxDelay < now
    BY <1>3, <1>4, <2>1, <2>4 DEF Instants
  <2>6. s \in stored[FirstPair]
    BY <2>5 DEF KeptInv, RoundsInTime
  <2>7. s <= BucketOf(n + 1, Fine)
    BY <1>4, <2>2, <2>3, BucketMonotone
  <2>8. s + MaxDelay <= n
    BY <1>3, <1>4, <2>1, <2>4
  <2>9. Expired(s) \/ Counted(s)
    BY <1>2, <2>6, <2>7, <2>8 DEF KeptInv, DueCounted, Due
  <2>10. ~Expired(s)
    <3> SUFFICES ASSUME Expired(s) PROVE FALSE
      OBVIOUS
    <3>1. /\ Keep["fine"] \in Nat /\ s < now - Keep["fine"]
          /\ Keep["fine"] >= Fine + MaxDelay + MaxFaults + 2
      BY <2>4, KeptConstants DEF Expired, Roomy
    <3> QED
      BY <1>3, <1>4, <2>1, <2>4, <3>1
  <2>11. s \in S
    BY <1>6, <2>4, <2>5, <2>9, <2>10 DEF Counted, FineRow, Starts
  <2> QED
    BY <1>3, <1>4, <2>1, <2>4, <2>11
<1>9. from' = (IF S = {} THEN -1 ELSE Greatest(S) - Lookback * Fine)
    BY <1>1, <1>6 DEF ComputeFrom
<1>10. PICK G : G = Greatest(S)
    OBVIOUS
<1>11. S # {} => G \in S /\ \A b \in S : G >= b
    BY <1>3, <1>7, <1>10, GreatestIsThere DEF Instants
<1>12. /\ from' \in Int /\ from' >= now - Span - L
       /\ S # {} => from' = G - k
       /\ S = {} => from' = -1
  <2>1. CASE S = {}
    <3>1. ~(n - MaxDelay >= 0)
      BY <1>8, <2>1
    <3> QED
      BY <1>3, <1>4, <1>9, <2>1, <3>1
  <2>2. CASE S # {}
    <3>1. from' = G - k /\ G \in Nat
      BY <1>2, <1>7, <1>9, <1>10, <1>11, <2>2
    <3>2. CASE n - MaxDelay >= 0
      <4>1. G >= n - MaxDelay - Fine + 1
        BY <1>3, <1>4, <1>7, <1>8, <1>11, <3>1, <3>2
      <4> QED
        BY <1>3, <1>4, <2>2, <3>1, <4>1
    <3>3. CASE ~(n - MaxDelay >= 0)
      BY <1>3, <1>4, <2>2, <3>1, <3>3
    <3> QED
      BY <3>2, <3>3
  <2> QED
    BY <2>1, <2>2
<1>13. from' < 0 \/ Begins(from', Fine)
  <2>1. CASE S = {}
    BY <1>12, <2>1
  <2>2. CASE S # {}
    <3>1. Begins(G, Fine) /\ from' = G - Lookback * Fine /\ from' \in Int
      BY <1>2, <1>7, <1>11, <1>12, <2>2
    <3>2. G - Lookback * Fine >= 0 => Begins(G - Lookback * Fine, Fine)
      BY <1>4, <3>1, BeginsBefore
    <3> QED
      BY <3>1, <3>2
  <2> QED
    BY <2>1, <2>2
<1>14. from' <= n + 1 \/ from' < 0
  <2>1. CASE S = {}
    BY <1>12, <2>1
  <2>2. CASE S # {}
    <3>1. from' = G - k /\ G \in Nat /\ G <= now
      BY <1>7, <1>11, <1>12, <2>2
    <3> QED
      BY <1>3, <1>4, <3>1
  <2> QED
    BY <2>1, <2>2
<1>15. ASSUME NEW t \in stored[FirstPair], Due(t, n + 1)
       PROVE  t <= closed' /\ (t <= from' => Expired(t) \/ Counted(t))
  <2>1. t \in Nat /\ t + MaxDelay <= n + 1 /\ t <= BucketOf(n + 2, Fine)
    <3>1. (n + 1) + 1 = n + 2
      BY <1>3
    <3> QED
      BY <1>5, <1>15, <3>1 DEF Due
  <2>2. n + 2 \in Nat
    BY <1>3, <1>4, <2>1
  <2>3. BucketOf(n + 2, Fine) <= BucketOf(now, Fine)
    BY <1>3, <1>4, <2>2, BucketMonotone
  <2>4. BucketOf(n + 2, Fine) \in Nat /\ BucketOf(now, Fine) \in Nat
    BY <1>3, <1>4, <2>2, BucketBegins
  <2>5. t <= closed'
    <3>1. PICK b, c : b = BucketOf(n + 2, Fine) /\ c = BucketOf(now, Fine)
      OBVIOUS
    <3> QED
      BY <1>1, <2>1, <2>3, <2>4, <3>1
  <2>6. ASSUME t <= from' PROVE Expired(t) \/ Counted(t)
    <3>1. from' \in Nat /\ Begins(from', Fine) /\ from' <= n + 1 /\ n + 1 \in Nat
      BY <1>3, <1>12, <1>13, <1>14, <2>1, <2>6
    <3>2. BucketOf(from', Fine) <= BucketOf(n + 1, Fine)
      BY <1>4, <3>1, BucketMonotone
    <3>3. BucketOf(from', Fine) = from' /\ BucketOf(n + 1, Fine) \in Nat
      BY <1>4, <3>1, BucketBegins DEF Begins
    <3>4. t <= BucketOf(n + 1, Fine)
      <4>1. PICK c : c = BucketOf(n + 1, Fine)
        OBVIOUS
      <4> QED
        BY <2>1, <2>6, <3>1, <3>2, <3>3, <4>1
    <3>5. S # {}
      BY <1>12, <3>1
    <3>6. from' = G - k /\ G \in Nat /\ G <= now
      BY <1>7, <1>11, <1>12, <3>5
    <3>7. t + MaxDelay <= n
      BY <1>3, <1>4, <2>1, <2>6, <3>6
    <3> QED
      BY <1>2, <3>4, <3>7 DEF Due, KeptInv, DueCounted
  <2> QED
    BY <2>5, <2>6
<1>16. DoneTo' = n /\ Late' = L
    BY <1>1, <1>2 DEF DoneTo, Late, AtFirst, Pair, Resolution
<1>17. \A t : (Expired(t) <=> Expired(t)') /\ (Counted(t) <=> Counted(t)')
    BY <1>1 DEF Expired, Counted, FineRow
<1> QED
    BY <1>1, <1>12, <1>13, <1>15, <1>16, <1>17 DEF Queried, Due

LEMMA ReadMarkKeeps ==
    ASSUME FirstIsSteady, Roomy, KeptInv, ReadMark
    PROVE  KeptInv'
<1>1. /\ stage = "mark" /\ stage' = "query"
      /\ UNCHANGED <<now, stored, raw, rollup, work, taken, ran, sweep, cutoff, faults>>
    BY DEF ReadMark, retention
<1>2. BucketsInv'
    BY ReadMarkKeepsBuckets DEF KeptInv
<1>3. AtFirst' = AtFirst /\ DoneTo' = DoneTo
    BY <1>1 DEF DoneTo, Late, AtFirst, Pair, Resolution
<1>4. RoundsInTime' /\ OldDeleted'
    BY <1>1 DEF KeptInv, RoundsInTime, OldDeleted
<1>5. DueCounted'
    BY <1>1, <1>3 DEF KeptInv, DueCounted, Due, Expired, Counted, FineRow
<1> QED
    BY <1>1, <1>2, <1>3, <1>4, <1>5, ReadMarkQueries DEF KeptInv

\* What is read: all that is between the bounds is still there, and of a bucket that is
\* counted already no round is read.
LEMMA ReadRoundsKeeps ==
    ASSUME FirstIsSteady, Roomy, KeptInv, ReadRounds
    PROVE  KeptInv'
<1>1. /\ stage = "query" /\ stage' = "write"
      /\ taken' = {t \in raw[Pair] : from < t /\ t <= closed}
      /\ UNCHANGED <<now, stored, raw, rollup, work, from, closed, ran, sweep, cutoff, faults>>
    BY DEF ReadRounds, retention
<1>2. BucketsInv'
    BY ReadRoundsKeepsBuckets DEF KeptInv
<1>3. AtFirst' = AtFirst /\ DoneTo' = DoneTo
    BY <1>1 DEF DoneTo, Late, AtFirst, Pair, Resolution
<1>4. RoundsInTime' /\ OldDeleted'
    BY <1>1 DEF KeptInv, RoundsInTime, OldDeleted
<1>5. \A t : (Expired(t) <=> Expired(t)') /\ (Counted(t) <=> Counted(t)')
    BY <1>1 DEF Expired, Counted, FineRow
<1>6. DueCounted'
    BY <1>1, <1>3, <1>5 DEF KeptInv, DueCounted, Due
<1>7. ASSUME AtFirst PROVE Written'
  <2>1. Queried /\ Pair = FirstPair
    BY <1>1, <1>7 DEF KeptInv, AtFirst
  <2>2. /\ from \in Int /\ (from < 0 \/ Begins(from, Fine)) /\ from >= now - Span - Late
        /\ now \in Nat /\ Late \in {0, 1} /\ Span \in Int
        /\ Fine \in Resolutions /\ Fine \in Nat /\ Fine > 0
    <3>1. Span \in Int /\ Fine \in Resolutions /\ Fine \in Nat /\ Fine > 0
      BY KeptConstants
    <3>2. now \in Nat /\ Late \in {0, 1}
      BY KeptFacts
    <3> QED
      BY <2>1, <3>1, <3>2 DEF Queried
  <2>3. raw[FirstPair] \subseteq stored[FirstPair] /\ \A t \in stored[FirstPair] : t \in Nat
    BY KeptFacts
  <2>4. ASSUME NEW t \in stored[FirstPair], Due(t, DoneTo + 1)
        PROVE  \/ t \in taken'
               \/ Expired(t)
               \/ /\ Counted(t)
                  /\ t % Fine # 0 => \A s \in taken' : BucketOf(s, Fine) # BucketOf(t, Fine)
    <3>1. t <= closed /\ (t <= from => Expired(t) \/ Counted(t)) /\ t \in Nat
      BY <2>1, <2>3, <2>4 DEF Queried
    <3>2. CASE t <= from
      <4>1. from \in Nat /\ Begins(from, Fine) /\ BucketOf(from, Fine) = from
        BY <2>2, <3>1, <3>2 DEF Begins
      <4>2. ASSUME t % Fine # 0, NEW s \in taken' PROVE BucketOf(s, Fine) # BucketOf(t, Fine)
        <5>1. s \in Nat /\ from < s
          BY <1>1, <2>1, <2>3
        <5>2. from % Fine = 0
          <6>1. PICK q : q = from \div Fine
            OBVIOUS
          <6>2. q \in Nat /\ from = q * Fine
            BY <2>2, <4>1, <6>1 DEF BucketOf
          <6> QED
            BY <2>2, <6>2
        <5>3. t < from
          BY <3>1, <3>2, <4>1, <4>2, <5>2
        <5>4. BucketOf(t, Fine) \in Nat /\ BucketOf(t, Fine) <= t
          BY <2>2, <3>1, BucketBegins
        <5>5. BucketOf(from, Fine) <= BucketOf(s, Fine) /\ BucketOf(s, Fine) \in Nat
          BY <2>2, <4>1, <5>1, BucketMonotone, BucketBegins
        <5>6. PICK b, c : b = BucketOf(t, Fine) /\ c = BucketOf(s, Fine)
          OBVIOUS
        <5>7. b < c
          BY <3>1, <4>1, <5>3, <5>4, <5>5, <5>6
        <5> QED
          BY <5>4, <5>5, <5>6, <5>7
      <4> QED
        BY <3>1, <3>2, <4>2
    <3>3. CASE ~(t <= from)
      <4>1. t \in raw[FirstPair]
        <5> SUFFICES ASSUME t \notin raw[FirstPair] PROVE FALSE
          OBVIOUS
        <5>1. Keep["raw"] \in Nat /\ t < now - Keep["raw"] /\ Keep["raw"] >= Span
          BY KeptConstants DEF KeptInv, OldDeleted, Roomy
        <5> QED
          BY <2>2, <3>1, <3>3, <5>1
      <4> QED
        BY <1>1, <2>1, <2>2, <3>1, <3>3, <4>1
    <3> QED
      BY <3>2, <3>3
  <2> QED
    BY <1>1, <1>3, <1>5, <2>4 DEF Written, Due
<1> QED
    BY <1>1, <1>2, <1>3, <1>4, <1>6, <1>7 DEF KeptInv

\* A bucket is written whole; a round of it that was not read is the one of its first second.
LEMMA UpsertKeeps ==
    ASSUME FirstIsSteady, Roomy, KeptInv, Upsert
    PROVE  KeptInv'
<1>1. PICK bucket, rounds :
        /\ bucket = BucketOf(Least(taken), Resolution)
        /\ rounds = {t \in taken : BucketOf(t, Resolution) = bucket}
        /\ rollup' = [rollup EXCEPT ![Pair][Resolution][bucket] = rounds]
        /\ taken' = taken \ rounds
    BY DEF Upsert
<1>2. /\ stage = "write" /\ taken # {}
      /\ UNCHANGED <<now, stored, raw, stage, work, from, closed, ran, sweep, cutoff, faults>>
    BY DEF Upsert, retention
<1>3. BucketsInv'
    BY UpsertKeepsBuckets DEF KeptInv
<1>4. AtFirst' = AtFirst /\ DoneTo' = DoneTo
    BY <1>2 DEF DoneTo, Late, AtFirst, Pair, Resolution
<1>5. RoundsInTime' /\ OldDeleted'
    BY <1>2 DEF KeptInv, RoundsInTime, OldDeleted
<1>6. /\ rollup \in [Pairs -> [Resolutions -> [Instants -> SUBSET Instants]]]
      /\ FirstPair \in Pairs /\ Fine \in Resolutions
    BY KeptConstants DEF KeptInv, BucketsInv, RollupType
<1>7. CASE ~AtFirst
  <2>1. rollup'[FirstPair][Fine] = rollup[FirstPair][Fine]
    BY <1>1, <1>2, <1>6, <1>7 DEF AtFirst
  <2>2. \A t : (Expired(t) <=> Expired(t)') /\ (Counted(t) <=> Counted(t)')
    BY <1>2, <2>1 DEF Expired, Counted, FineRow
  <2>3. DueCounted'
    BY <1>2, <1>4, <2>2 DEF KeptInv, DueCounted, Due
  <2> QED
    BY <1>3, <1>4, <1>5, <1>7, <2>3 DEF KeptInv
<1>8. CASE AtFirst
  <2>1. Pair = FirstPair /\ Resolution = Fine /\ Written
    BY <1>2, <1>8 DEF KeptInv, AtFirst
  <2>2. taken \subseteq stored[FirstPair]
    BY <1>2, <1>6, <2>1 DEF KeptInv, BucketsInv, InHand
  <2>3. \A t \in stored[FirstPair] : t \in Nat /\ t \in Instants
    BY KeptFacts
  <2>4. Least(taken) \in taken
    BY <1>2, <2>2, <2>3, LeastIsThere
  <2>5. Least(taken) \in rounds /\ bucket = BucketOf(Least(taken), Fine)
    BY <1>1, <2>1, <2>4
  <2>6. \A t \in stored[FirstPair] : BucketOf(t, Fine) \in Instants
    <3> SUFFICES ASSUME NEW t \in stored[FirstPair] PROVE BucketOf(t, Fine) \in Instants
      OBVIOUS
    <3>1. BucketOf(t, Fine) \in Nat /\ BucketOf(t, Fine) <= t /\ t \in Instants
      BY <1>6, <2>3, BucketBegins
    <3> QED
      BY <3>1, KeptConstants DEF Instants
  <2>7. \A b \in Instants : rollup'[FirstPair][Fine][b] =
                                (IF b = bucket THEN rounds ELSE rollup[FirstPair][Fine][b])
    BY <1>1, <1>6, <2>1
  <2>8. ASSUME NEW t \in stored[FirstPair], Due(t, DoneTo + 1)
        PROVE  \/ t \in taken'
               \/ Expired(t)
               \/ /\ Counted(t)'
                  /\ t % Fine # 0 => \A s \in taken' : BucketOf(s, Fine) # BucketOf(t, Fine)
    <3>1. \/ t \in taken
          \/ Expired(t)
          \/ /\ Counted(t)
             /\ t % Fine # 0 => \A s \in taken : BucketOf(s, Fine) # BucketOf(t, Fine)
      BY <2>1, <2>8 DEF Written
    <3>2. FineRow(t)' = (IF BucketOf(t, Fine) = bucket THEN rounds ELSE FineRow(t))
      BY <2>6, <2>7 DEF FineRow
    <3>3. CASE t \in taken /\ BucketOf(t, Fine) = bucket
      <4>1. t \in rounds /\ \A s \in taken' : BucketOf(s, Fine) # bucket
        BY <1>1, <2>1, <3>3
      <4> QED
        BY <3>2, <3>3, <4>1 DEF Counted
    <3>4. CASE t \in taken /\ BucketOf(t, Fine) # bucket
      BY <1>1, <2>1, <3>4
    <3>5. CASE /\ Counted(t)
               /\ t % Fine # 0 => \A s \in taken : BucketOf(s, Fine) # BucketOf(t, Fine)
      <4>1. Counted(t)'
        <5>1. CASE BucketOf(t, Fine) = bucket
          <6>1. ~(t % Fine # 0)
            BY <2>4, <2>5, <3>5, <5>1
          <6> QED
            BY <2>5, <3>2, <5>1, <6>1 DEF Counted
        <5>2. CASE BucketOf(t, Fine) # bucket
          BY <3>2, <3>5, <5>2 DEF Counted
        <5> QED
          BY <5>1, <5>2
      <4> QED
        BY <1>1, <3>5, <4>1
    <3> QED
      BY <3>1, <3>3, <3>4, <3>5
  <2>9. ASSUME NEW t \in stored[FirstPair], Due(t, DoneTo) PROVE Expired(t) \/ Counted(t)'
    <3>1. Due(t, DoneTo + 1)
      <4>1. PICK n : n = DoneTo
        OBVIOUS
      <4>2. n \in Int /\ n <= n + 1 /\ t \in Nat
        BY <4>1, <2>3, KeptFacts
      <4> QED
        BY <2>9, <4>1, <4>2, DueLater
    <3>2. Expired(t) \/ Counted(t)
      BY <2>9 DEF KeptInv, DueCounted
    <3>3. CASE t \in taken'
      <4>1. BucketOf(t, Fine) # bucket
        BY <1>1, <2>1, <3>3
      <4>2. FineRow(t)' = FineRow(t)
        BY <2>6, <2>7, <4>1 DEF FineRow
      <4> QED
        BY <3>2, <4>2 DEF Counted
    <3> QED
      BY <2>8, <3>1, <3>3
  <2>10. \A t : Expired(t) <=> Expired(t)'
    BY <1>2 DEF Expired
  <2>11. DueCounted'
    BY <1>2, <1>4, <2>9, <2>10 DEF DueCounted, Due
  <2>12. Written'
    BY <1>2, <1>4, <2>8, <2>10 DEF Written, Due
  <2> QED
    BY <1>2, <1>3, <1>4, <1>5, <2>11, <2>12 DEF KeptInv
<1> QED
    BY <1>7, <1>8

\* A cycle that is done with the pair leaves counted what was due.
LEMMA NextPairKeeps ==
    ASSUME FirstIsSteady, Roomy, KeptInv, NextPair
    PROVE  KeptInv'
<1>1. /\ stage = "write" /\ taken = {} /\ stage' \in {"idle", "mark"}
      /\ UNCHANGED <<now, stored, raw, rollup, ran, sweep, cutoff, faults>>
    BY DEF NextPair, retention
<1>2. BucketsInv'
  <2>1. [Next]_vars
    BY DEF Next, Work, RollupStep
  <2> QED
    BY <2>1, BucketsStep DEF KeptInv
<1>3. RoundsInTime' /\ OldDeleted'
    BY <1>1 DEF KeptInv, RoundsInTime, OldDeleted
<1>4. PICK n, m, l, d : /\ n = DoneTo' /\ m = DoneTo /\ l = Late
                        /\ d = IF AtFirst' THEN 1 ELSE 0
    OBVIOUS
<1>5. /\ n = now - 1 - l - d - faults /\ now \in Int /\ faults \in Int /\ l \in Int /\ m \in Int
      /\ d \in {0, 1}
      /\ AtFirst => m = now - 2 - l - faults
      /\ ~AtFirst => m = now - 1 - l - faults
    BY <1>1, <1>4, KeptFacts DEF DoneTo, Late
<1>6. CASE ~AtFirst
  <2>1. DoneTo' \in Int /\ DoneTo' <= DoneTo
    BY <1>4, <1>5, <1>6
  <2>2. DueCounted'
    BY <1>1, <2>1, NotFurther
  <2> QED
    BY <1>1, <1>2, <1>3, <2>2 DEF KeptInv
<1>7. CASE AtFirst
  <2>1. \A t \in stored[FirstPair] : Due(t, m + 1) => Expired(t) \/ Counted(t)
    BY <1>1, <1>4, <1>7 DEF KeptInv, Written
  <2>2. n \in Int /\ m + 1 \in Int /\ n <= m + 1
    BY <1>5, <1>7
  <2>3. \A t \in stored[FirstPair] : Due(t, n) => Expired(t) \/ Counted(t)
    BY <2>1, <2>2, DueLater, KeptFacts
  <2>4. DueCounted'
    BY <1>1, <1>4, <2>3 DEF DueCounted, Due, Expired, Counted, FineRow
  <2> QED
    BY <1>1, <1>2, <1>3, <2>4 DEF KeptInv
<1> QED
    BY <1>6, <1>7

\* A cycle that fails is one more to make up for.
LEMMA CycleFailsKeeps ==
    ASSUME FirstIsSteady, Roomy, KeptInv, CycleFails
    PROVE  KeptInv'
<1>1. /\ stage' = "idle" /\ faults < MaxFaults /\ faults' = faults + 1
      /\ UNCHANGED <<now, stored, raw, rollup, ran, sweep, cutoff>>
    BY DEF CycleFails, retention
<1>2. BucketsInv'
  <2>1. [Next]_vars
    BY DEF Next, Work
  <2> QED
    BY <2>1, BucketsStep DEF KeptInv
<1>3. now \in Int /\ faults \in Nat /\ MaxFaults \in Nat
    BY KeptFacts, KeptConstants
<1>4. RoundsInTime' /\ OldDeleted'
  <2>1. faults' \in 0..MaxFaults
    BY <1>1, <1>3
  <2> QED
    BY <1>1, <2>1 DEF KeptInv, RoundsInTime, OldDeleted
<1>5. PICK n, m, l : n = DoneTo' /\ m = DoneTo /\ l = Late
    OBVIOUS
<1>6. n = now - 1 - l - 0 - (faults + 1)
    BY <1>1, <1>5 DEF DoneTo, Late, AtFirst
<1>7. /\ m \in Int /\ l \in {0, 1}
      /\ AtFirst => m = now - 2 - l - faults
      /\ ~AtFirst => m = now - 1 - l - faults
    BY <1>5, KeptFacts
<1>8. n \in Int /\ n <= m
    BY <1>3, <1>6, <1>7
<1>9. DueCounted'
    BY <1>1, <1>5, <1>8, NotFurther
<1> QED
    BY <1>1, <1>2, <1>4, <1>9 DEF KeptInv

\* The bound of a level is what its retention gives, or deletes nothing.
LEMMA EnterCutoff ==
    ASSUME NEW level \in Levels, Enter(level), now \in Nat
    PROVE  /\ sweep' = level /\ cutoff' \in Int
           /\ cutoff' = 0 \/ (Keep[level] # Forever /\ cutoff' <= now - Keep[level])
<1>1. CASE PassedOver(level)
    BY <1>1 DEF Enter
<1>2. CASE ~PassedOver(level)
  <2>1. Keep[level] \in Nat /\ Keep[level] # Forever
    BY <1>2, KeepAssumption DEF PassedOver
  <2>2. PICK c : c = now - Keep[level]
    OBVIOUS
  <2>3. c \in Int
    BY <2>1, <2>2
  <2>4. \E x \in {0, c} : \A y \in {0, c} : x >= y
    <3>1. CASE c >= 0
      BY <2>3, <3>1
    <3>2. CASE ~(c >= 0)
      BY <2>3, <3>2
    <3> QED
      BY <3>1, <3>2
  <2>5. Greatest({0, c}) \in {0, c}
    BY <2>4 DEF Greatest
  <2>6. sweep' = level /\ cutoff' = Greatest({0, c})
    BY <1>2, <2>2 DEF Enter
  <2> QED
    BY <2>1, <2>2, <2>3, <2>5, <2>6
<1> QED
    BY <1>1, <1>2

\* Only bounds of retention change.
LEMMA SweepKeeps ==
    ASSUME FirstIsSteady, Roomy, KeptInv, BeginSweep \/ EndRaw \/ EndFine \/ EndCoarse
    PROVE  KeptInv'
<1>1. UNCHANGED <<now, stored, raw, rollup, stage, work, from, closed, taken, ran, faults>>
    BY DEF BeginSweep, EndRaw, EndFine, EndCoarse, cycle
<1>2. BucketsInv'
    BY <1>1, BucketsUnchanged DEF KeptInv, bucketVars
<1>3. /\ cutoff' \in Int
      /\ \A level \in {"raw", "fine"} : sweep' = level =>
            cutoff' = 0 \/ (Keep[level] # Forever /\ cutoff' <= now - Keep[level])
  <2>1. CASE EndCoarse
    BY <2>1 DEF EndCoarse
  <2>2. CASE ~EndCoarse
    <3>1. PICK level \in Levels : Enter(level)
      BY <2>2 DEF BeginSweep, EndRaw, EndFine, Levels
    <3>2. /\ sweep' = level /\ cutoff' \in Int
          /\ cutoff' = 0 \/ (Keep[level] # Forever /\ cutoff' <= now - Keep[level])
      BY <3>1, EnterCutoff, KeptFacts
    <3> QED
      BY <3>2
  <2> QED
    BY <2>1, <2>2
<1>4. OldDeleted'
    BY <1>1, <1>3 DEF KeptInv, OldDeleted
<1>5. RoundsInTime'
    BY <1>1 DEF KeptInv, RoundsInTime
<1>6. DoneTo' = DoneTo /\ AtFirst' = AtFirst /\ Late' = Late
    BY <1>1 DEF DoneTo, AtFirst, Late, Pair, Resolution
<1>7. \A t : (Expired(t) <=> Expired(t)') /\ (Counted(t) <=> Counted(t)')
    BY <1>1 DEF Expired, Counted, FineRow
<1>8. DueCounted'
    BY <1>1, <1>6, <1>7 DEF KeptInv, DueCounted, Due
<1>9. AtFirst' /\ stage' = "query" => Queried'
    BY <1>1, <1>6, <1>7 DEF KeptInv, Queried, Due
<1>10. AtFirst' /\ stage' = "write" => Written'
    BY <1>1, <1>6, <1>7 DEF KeptInv, Written, Due
<1> QED
    BY <1>2, <1>4, <1>5, <1>8, <1>9, <1>10 DEF KeptInv

\* Only old rounds are deleted.
LEMMA DeleteRawKeeps ==
    ASSUME FirstIsSteady, Roomy, KeptInv, DeleteRaw
    PROVE  KeptInv'
<1>1. /\ sweep = "raw"
      /\ UNCHANGED <<now, stored, rollup, stage, work, from, closed, taken, ran, sweep, cutoff,
                     faults>>
    BY DEF DeleteRaw, cycle, retention
<1>2. PICK doomed \in SUBSET Deletable :
        raw' = [p \in Pairs |-> {t \in raw[p] : <<p, t>> \notin doomed}]
    BY DEF DeleteRaw, Batches
<1>3. BucketsInv'
  <2>1. [Next]_vars
    BY DEF Next, Work, RetentionStep
  <2> QED
    BY <2>1, BucketsStep DEF KeptInv
<1>4. \A t \in stored[FirstPair] \ raw'[FirstPair] :
        Keep["raw"] # Forever /\ t < now - Keep["raw"]
  <2> SUFFICES ASSUME NEW t \in stored[FirstPair], t \notin raw'[FirstPair]
               PROVE  Keep["raw"] # Forever /\ t < now - Keep["raw"]
    OBVIOUS
  <2>1. CASE t \notin raw[FirstPair]
    BY <2>1 DEF KeptInv, OldDeleted
  <2>2. CASE t \in raw[FirstPair]
    <3>1. <<FirstPair, t>> \in Deletable
      BY <1>2, <2>2, KeptConstants
    <3>2. t < cutoff
      BY <3>1 DEF Deletable
    <3>3. /\ cutoff \in Int
          /\ cutoff = 0 \/ (Keep["raw"] # Forever /\ cutoff <= now - Keep["raw"])
      BY <1>1 DEF KeptInv, OldDeleted
    <3>4. t \in Nat /\ now \in Nat /\ (Keep["raw"] # Forever => Keep["raw"] \in Nat)
      BY KeptFacts, KeptConstants
    <3> QED
      BY <3>2, <3>3, <3>4
  <2> QED
    BY <2>1, <2>2
<1>5. OldDeleted'
    BY <1>1, <1>4 DEF KeptInv, OldDeleted
<1>6. DoneTo' = DoneTo /\ AtFirst' = AtFirst /\ Late' = Late
    BY <1>1 DEF DoneTo, AtFirst, Late, Pair, Resolution
<1> QED
    BY <1>1, <1>3, <1>5, <1>6
    DEF KeptInv, RoundsInTime, DueCounted, Queried, Written, Due, Expired, Counted, FineRow

\* Only buckets that expired are deleted.
LEMMA DeleteBucketsKeeps ==
    ASSUME FirstIsSteady, Roomy, KeptInv, DeleteBuckets
    PROVE  KeptInv'
<1>1. /\ sweep \in {"fine", "coarse"}
      /\ UNCHANGED <<now, stored, raw, stage, work, from, closed, taken, ran, sweep, cutoff,
                     faults>>
    BY DEF DeleteBuckets, cycle, retention
<1>2. PICK doomed \in SUBSET OldBuckets :
        rollup' = [p \in Pairs |-> [rollup[p] EXCEPT ![Swept] =
                     [b \in Instants |-> IF <<p, b>> \in doomed THEN {} ELSE @[b]]]]
    BY DEF DeleteBuckets, Batches
<1>3. BucketsInv'
    BY DeletingKeepsBuckets DEF KeptInv
<1>4. /\ rollup \in [Pairs -> [Resolutions -> [Instants -> SUBSET Instants]]]
      /\ FirstPair \in Pairs /\ Fine \in Resolutions /\ Fine # Coarse
    BY KeptConstants, RollupSizesAssumption DEF KeptInv, BucketsInv, RollupType
<1>5. ASSUME NEW t \in stored[FirstPair] PROVE Expired(t) \/ FineRow(t)' = FineRow(t)
  <2>1. PICK b : b = BucketOf(t, Fine)
    OBVIOUS
  <2>2. b \in Nat /\ b <= t /\ t \in Instants
    BY <1>4, <2>1, BucketBegins, KeptFacts
  <2>3. b \in Instants
    BY <2>2, KeptConstants DEF Instants
  <2>4. CASE sweep = "fine"
    <3>1. rollup'[FirstPair][Fine][b] = (IF <<FirstPair, b>> \in doomed THEN {}
                                          ELSE rollup[FirstPair][Fine][b])
      BY <1>2, <1>4, <2>3, <2>4 DEF Swept
    <3>2. CASE <<FirstPair, b>> \in doomed
      <4>1. b < cutoff
        BY <3>2 DEF OldBuckets
      <4>2. /\ cutoff \in Int
            /\ cutoff = 0 \/ (Keep["fine"] # Forever /\ cutoff <= now - Keep["fine"])
        BY <2>4 DEF KeptInv, OldDeleted
      <4>3. Keep["fine"] # Forever /\ b < now - Keep["fine"]
        <5>1. now \in Nat /\ (Keep["fine"] # Forever => Keep["fine"] \in Nat)
          BY KeptFacts, KeptConstants
        <5> QED
          BY <2>2, <4>1, <4>2, <5>1
      <4> QED
        BY <2>1, <4>3 DEF Expired
    <3>3. CASE <<FirstPair, b>> \notin doomed
      BY <2>1, <3>1, <3>3 DEF FineRow
    <3> QED
      BY <3>2, <3>3
  <2>5. CASE sweep # "fine"
    <3>1. rollup'[FirstPair][Fine] = rollup[FirstPair][Fine]
      BY <1>2, <1>4, <2>5 DEF Swept
    <3> QED
      BY <3>1 DEF FineRow
  <2> QED
    BY <2>4, <2>5
<1>6. \A t \in stored[FirstPair] :
        (Expired(t) <=> Expired(t)') /\ (Expired(t) \/ Counted(t) <=> Expired(t) \/ Counted(t)')
    BY <1>1, <1>5 DEF Expired, Counted
<1>7. DoneTo' = DoneTo /\ AtFirst' = AtFirst /\ Late' = Late
    BY <1>1 DEF DoneTo, AtFirst, Late, Pair, Resolution
<1>8. RoundsInTime' /\ OldDeleted'
    BY <1>1 DEF KeptInv, RoundsInTime, OldDeleted
<1>9. DueCounted'
    BY <1>1, <1>6, <1>7 DEF KeptInv, DueCounted, Due
<1>10. AtFirst' /\ stage' = "query" => Queried'
    BY <1>1, <1>6, <1>7 DEF KeptInv, Queried, Due
<1>11. AtFirst' /\ stage' = "write" => Written'
    BY <1>1, <1>6, <1>7 DEF KeptInv, Written, Due
<1> QED
    BY <1>3, <1>8, <1>9, <1>10, <1>11 DEF KeptInv

LEMMA KeptInit == FirstIsSteady /\ Roomy /\ Init => KeptInv
<1> SUFFICES ASSUME FirstIsSteady, Roomy, Init PROVE KeptInv
    OBVIOUS
<1>1. BucketsInv
    BY BucketsInit
<1>2. /\ now = 0 /\ stored[FirstPair] = {} /\ stage = "idle" /\ ran = FALSE /\ cutoff = 0
      /\ sweep = "idle" /\ faults = 0
    BY KeptConstants DEF Init
<1>3. RoundsInTime
  <2>1. \A t \in Instants : ~(t + MaxDelay < now)
    BY <1>2, KeptConstants DEF Instants
  <2>2. now <= MaxNow /\ faults \in 0..MaxFaults /\ ran \in BOOLEAN
    <3>1. faults \in 0..MaxFaults /\ now <= MaxNow
      BY <1>2, KeptConstants
    <3> QED
      BY <1>2, <3>1
  <2> QED
    BY <1>2, <2>1, <2>2 DEF RoundsInTime
<1> QED
    BY <1>1, <1>2, <1>3 DEF KeptInv, OldDeleted, DueCounted, AtFirst

LEMMA KeptStep == FirstIsSteady /\ Roomy /\ KeptInv /\ [Next]_vars => KeptInv'
<1> SUFFICES ASSUME FirstIsSteady, Roomy, KeptInv, [Next]_vars PROVE KeptInv'
    OBVIOUS
<1>1. CASE UNCHANGED vars
    BY <1>1, KeptUnchanged DEF vars, cycle, retention
<1> QED
    BY <1>1, StoringKeeps, TickKeeps, BeginCycleKeeps, ReadMarkKeeps, ReadRoundsKeeps,
       UpsertKeeps, NextPairKeeps, CycleFailsKeeps, SweepKeeps, DeleteRawKeeps, DeleteBucketsKeeps
    DEF Next, Work, RollupStep, RetentionStep

LEMMA KeptNotLost == FirstIsSteady /\ Roomy /\ KeptInv => NoRoundLost
<1> SUFFICES ASSUME FirstIsSteady, Roomy, KeptInv, NEW t \in stored[FirstPair],
                    t \notin raw[FirstPair]
             PROVE  \/ t \in rollup[FirstPair][Fine][BucketOf(t, Fine)]
                    \/ t % Fine = 0
                    \/ Keep["fine"] # Forever /\ BucketOf(t, Fine) < now - Keep["fine"]
    BY DEF NoRoundLost, FirstIsSteady
<1>1. Expired(t) \/ Counted(t)
    BY DeletedWasDue DEF KeptInv, DueCounted
<1> QED
    BY <1>1 DEF Expired, Counted, FineRow

\* A round of the pair that is listed first is in the database or counted by its fine bucket
\* until that bucket expires (rollup_worker.rs:62-190, retention_worker.rs), however the
\* statements of the rollup and the retention worker interleave, whichever cycles fail, up to
\* MaxFaults of them, and as late as a round may come: the rounds that a later cycle still has
\* to read, or reads again, are younger than any that retention deletes.
THEOREM FirstPairKept == FirstIsSteady /\ Roomy => (Spec => []NoRoundLost)
<1> SUFFICES ASSUME FirstIsSteady, Roomy PROVE Spec => []NoRoundLost
    OBVIOUS
<1>1. Init => KeptInv
    BY KeptInit
<1>2. KeptInv /\ [Next]_vars => KeptInv'
    BY KeptStep
<1>3. KeptInv => NoRoundLost
    BY KeptNotLost
<1> QED
    BY <1>1, <1>2, <1>3, PTL DEF Spec

-----------------------------------------------------------------------------
(***************************************************************************)
(* The rounds that a cycle has to count.                                   *)
(***************************************************************************)

\* Rows are kept as long as the rounds they count, at least.
RowsOutlive ==
    \A level \in {"fine", "coarse"} :
        \/ Keep[level] = Forever
        \/ Keep["raw"] # Forever /\ Keep[level] >= Keep["raw"]

\* What is read again reaches behind the rounds that still come.
LookbackReaches == \A res \in Resolutions : Lookback * res > MaxDelay + 1

\* No cycle is cut off by the size of its batch.
CyclesEnd == NextPair => work' = work \ {Least(work)}

Gone(t, res) == Keep["raw"] # Forever /\ BucketOf(t, res) < now - Keep["raw"]
Wanted(p, res) == {t \in stored[p] : t % res # 0 /\ ~Gone(t, res)}
CountedAt(p, res, t) == t \in rollup[p][res][BucketOf(t, res)]

\* The time when the cycle began, or earlier.
Begun == now - Late
Settled(t) == t + MaxDelay < Begun

\* What the cycle does not come to any more, or has been done.
IsDone(p, res) == \A k \in work : PairAt(k) # p \/ ResolutionAt(k) # res
Handling(p, res) == Pair = p /\ Resolution = res

DeletedGone ==
    \A p \in Pairs : \A t \in stored[p] \ raw[p] : Keep["raw"] # Forever /\ t < now - Keep["raw"]

SweepOld ==
    /\ cutoff \in Int
    /\ \A level \in Levels : sweep = level =>
        cutoff = 0 \/ (Keep[level] # Forever /\ cutoff <= now - Keep[level])

WorkListed ==
    /\ work \subseteq 1..(2 * Len(PairOrder))
    /\ stage # "idle" => work # {}

\* The lookback passes over nothing that is not counted.
PassedCounted(p, res) ==
    \A b \in Starts(p, res), t \in Wanted(p, res) : t <= b - Lookback * res => CountedAt(p, res, t)

BoundsSound(p, res) ==
    /\ from \in Int /\ (from < 0 \/ (Begins(from, res) /\ from <= now - Lookback * res))
    /\ closed + res > Begun
    /\ \A t \in Wanted(p, res) : t <= from => CountedAt(p, res, t)

ReadOrCounted(p, res) ==
    /\ \A s \in taken : from < s
    /\ \A t \in Wanted(p, res) : from < t /\ t <= closed /\ Settled(t) =>
        \/ t \in taken
        \/ CountedAt(p, res, t) /\ \A s \in taken : BucketOf(s, res) # BucketOf(t, res)

DoneCounted(p, res) ==
    \A t \in Wanted(p, res) :
        Settled(t) /\ BucketOf(t, res) + res <= Begun => CountedAt(p, res, t)

InTime(p, res) ==
    /\ PassedCounted(p, res)
    /\ stage \in {"query", "write"} /\ Handling(p, res) => BoundsSound(p, res)
    /\ stage = "write" /\ Handling(p, res) => ReadOrCounted(p, res)
    /\ stage # "idle" /\ IsDone(p, res) => DoneCounted(p, res)

TimelyBase ==
    /\ BucketsInv /\ ran \in BOOLEAN /\ faults \in Nat /\ WorkListed /\ DeletedGone /\ SweepOld
    /\ \A p \in Pairs : \A t \in stored[p] : t <= now

\* The inductive invariant of CountedInTime.
TimelyInv == TimelyBase /\ \A p \in Pairs, res \in Resolutions : InTime(p, res)

LEMMA LookbackFacts ==
    ASSUME LookbackReaches, NEW res \in Resolutions
    PROVE  /\ res \in Nat /\ res > 0 /\ MaxDelay \in Nat
           /\ Lookback * res \in Nat /\ Lookback * res > MaxDelay + 1 /\ Lookback * res >= res
<1>1. res \in Nat /\ res > 0 /\ MaxDelay \in Nat /\ Lookback \in Nat
    BY ResolutionIsPositive, RollupSizesAssumption, RollupBoundsAssumption
<1>2. Lookback * res \in Nat /\ Lookback * res > MaxDelay + 1
    BY <1>1 DEF LookbackReaches
<1>3. Lookback # 0
  <2>1. 0 * res = 0
    BY <1>1
  <2>2. ASSUME Lookback = 0 PROVE FALSE
    BY <1>1, <1>2, <2>1, <2>2
  <2> QED
    BY <2>2
<1>4. (Lookback - 1) * res \in Nat /\ Lookback * res = (Lookback - 1) * res + res
    BY <1>1, <1>3
<1> QED
    BY <1>1, <1>2, <1>4

LEMMA BaseFacts ==
    ASSUME TimelyBase
    PROVE  /\ now \in Nat /\ Begun \in Int /\ Begun <= now /\ now - 1 <= Begun
           /\ Keep["raw"] # Forever => Keep["raw"] \in Nat
           /\ \A p \in Pairs : \A t \in stored[p] : t \in Nat /\ t \in Instants /\ t <= now
<1>1. now \in Nat
    BY DEF TimelyBase, BucketsInv, RollupType
<1>2. Late \in {0, 1}
    BY DEF Late
<1>3. Keep["raw"] # Forever => Keep["raw"] \in Nat
    BY KeepAssumption DEF Levels
<1>4. \A p \in Pairs : \A t \in stored[p] : t \in Nat /\ t \in Instants /\ t <= now
    BY RollupBoundsAssumption DEF TimelyBase, BucketsInv, RollupType, Instants
<1> QED
    BY <1>1, <1>2, <1>3, <1>4 DEF Begun

LEMMA BucketIsInstant ==
    ASSUME NEW t \in Instants, NEW res \in Resolutions
    PROVE  BucketOf(t, res) \in Instants /\ BucketOf(t, res) \in Nat /\ BucketOf(t, res) <= t
<1>1. t \in Nat /\ MaxNow \in Nat /\ t <= MaxNow
    BY RollupBoundsAssumption DEF Instants
<1>2. BucketOf(t, res) \in Nat /\ BucketOf(t, res) <= t
    BY <1>1, BucketBegins
<1> QED
    BY <1>1, <1>2 DEF Instants

\* A row begins a bucket, and not in the future.
LEMMA RowBegins ==
    ASSUME TimelyBase, NEW p \in Pairs, NEW res \in Resolutions, NEW b \in Starts(p, res)
    PROVE  b \in Nat /\ b <= now /\ Begins(b, res)
<1>1. b \in Instants /\ rollup[p][res][b] # {}
    BY DEF Starts
<1>2. PICK t \in rollup[p][res][b] : t \in stored[p] /\ BucketOf(t, res) = b
    BY <1>1 DEF TimelyBase, BucketsInv, BucketsSound
<1>3. t \in Nat /\ t <= now /\ now \in Nat
    BY <1>2, BaseFacts
<1>4. b \in Nat /\ b <= t /\ BucketOf(b, res) = b
    BY <1>2, <1>3, BucketBegins
<1> QED
    BY <1>3, <1>4 DEF Begins

\* What a cycle is at is a pair and a resolution.
LEMMA CurrentIsListed ==
    ASSUME TimelyBase, stage # "idle"
    PROVE  Least(work) \in work /\ Pair \in Pairs /\ Resolution \in Resolutions
<1>1. work \subseteq 1..(2 * Len(PairOrder)) /\ work # {}
    BY DEF TimelyBase, WorkListed
<1>2. Len(PairOrder) \in Nat
    BY PairsAssumption
<1>3. Least(work) \in work
  <2>1. work \subseteq Nat
    BY <1>1, <1>2
  <2> QED
    BY <1>1, <2>1, LeastIsThere
<1>4. PICK k : k = Least(work)
    OBVIOUS
<1>5. k \in Nat /\ k >= 1 /\ k <= 2 * Len(PairOrder)
  <2>1. k \in 1..(2 * Len(PairOrder))
    BY <1>1, <1>3, <1>4
  <2> QED
    BY <1>2, <2>1
<1>6. (k + 1) \div 2 \in 1..Len(PairOrder)
    BY <1>2, <1>5
<1>7. PairAt(k) \in Pairs
    BY <1>6, PairsAssumption DEF PairAt, Pairs
<1> QED
    BY <1>3, <1>4, <1>7 DEF Pair, Resolution, ResolutionAt, Resolutions

\* A round that is still wanted is still there.
LEMMA WantedIsThere ==
    ASSUME TimelyBase, NEW p \in Pairs, NEW res \in Resolutions, NEW t \in Wanted(p, res)
    PROVE  t \in raw[p]
<1>1. t \in stored[p] /\ ~Gone(t, res)
    BY DEF Wanted
<1>2. t \in Nat /\ now \in Nat /\ (Keep["raw"] # Forever => Keep["raw"] \in Nat)
    BY <1>1, BaseFacts
<1>3. BucketOf(t, res) \in Nat /\ BucketOf(t, res) <= t
    BY <1>2, BucketBegins
<1>4. PICK b : b = BucketOf(t, res)
    OBVIOUS
<1>5. ASSUME t \notin raw[p] PROVE FALSE
  <2>1. Keep["raw"] # Forever /\ t < now - Keep["raw"]
    BY <1>1, <1>5 DEF TimelyBase, DeletedGone
  <2>2. b < now - Keep["raw"]
    BY <1>2, <1>3, <1>4, <2>1
  <2> QED
    BY <1>1, <1>4, <2>1, <2>2 DEF Gone
<1> QED
    BY <1>5

-----------------------------------------------------------------------------

LEMMA BaseInit == Init => TimelyBase
<1> SUFFICES ASSUME Init PROVE TimelyBase
    OBVIOUS
<1>1. BucketsInv
    BY BucketsInit
<1>2. /\ ran = FALSE /\ faults = 0 /\ work = {} /\ stage = "idle" /\ sweep = "idle" /\ cutoff = 0
      /\ \A p \in Pairs : stored[p] = {}
    BY DEF Init
<1>4. ran \in BOOLEAN /\ faults \in Nat /\ WorkListed /\ DeletedGone
    BY <1>2 DEF WorkListed, DeletedGone
<1>5. SweepOld
    BY <1>2 DEF SweepOld, Levels
<1>3. \A p \in Pairs : \A t \in stored[p] : t <= now
    BY <1>2
<1> QED
    BY <1>1, <1>3, <1>4, <1>5 DEF TimelyBase

\* The steps of a cycle delete nothing.
LEMMA CycleKeepsBase ==
    ASSUME TimelyBase, RollupStep \/ CycleFails
    PROVE  TimelyBase'
<1>1. BucketsInv'
    BY BucketsStep DEF TimelyBase, Next, Work
<1>2. UNCHANGED <<now, stored, raw, sweep, cutoff>>
    BY DEF RollupStep, BeginCycle, ReadMark, ReadRounds, Upsert, NextPair, CycleFails, retention
<1>3. ran' \in BOOLEAN /\ faults' \in Nat
  <2>1. ran \in BOOLEAN /\ faults \in Nat
    BY DEF TimelyBase
  <2>2. ran' = ran \/ ran' = TRUE
    BY DEF RollupStep, BeginCycle, ReadMark, ReadRounds, Upsert, NextPair, CycleFails
  <2>3. faults' = faults \/ faults' = faults + 1
    BY DEF RollupStep, BeginCycle, ReadMark, ReadRounds, Upsert, NextPair, CycleFails
  <2>4. ran' \in BOOLEAN
    BY <2>1, <2>2
  <2>5. faults' \in Nat
    BY <2>1, <2>3
  <2> QED
    BY <2>4, <2>5
<1>4. WorkListed'
  <2>1. CASE BeginCycle
    BY <2>1 DEF BeginCycle, Listed, WorkListed
  <2>2. CASE ReadMark \/ ReadRounds \/ Upsert
    BY <2>2 DEF TimelyBase, WorkListed, ReadMark, ReadRounds, Upsert
  <2>3. CASE NextPair
    <3>1. /\ work' = {} \/ work' = work \ {Least(work)}
          /\ stage' = IF work' = {} THEN "idle" ELSE "mark"
      BY <2>3 DEF NextPair
    <3> QED
      BY <3>1 DEF TimelyBase, WorkListed
  <2>4. CASE CycleFails
    BY <2>4 DEF CycleFails, WorkListed
  <2> QED
    BY <2>1, <2>2, <2>3, <2>4 DEF RollupStep
<1> QED
    BY <1>1, <1>2, <1>3, <1>4 DEF TimelyBase, DeletedGone, SweepOld

\* A sweep deletes only what is old.
LEMMA SweepKeepsBase ==
    ASSUME TimelyBase, RetentionStep
    PROVE  TimelyBase'
<1>1. BucketsInv'
    BY BucketsStep DEF TimelyBase, Next, Work
<1>2. UNCHANGED <<now, stored, cycle, faults>>
    BY DEF RetentionStep, BeginSweep, DeleteRaw, EndRaw, DeleteBuckets, EndFine, EndCoarse
<1>3. SweepOld'
  <2>1. CASE DeleteRaw \/ DeleteBuckets
    BY <1>2, <2>1 DEF DeleteRaw, DeleteBuckets, retention, TimelyBase, SweepOld
  <2>2. CASE EndCoarse
    BY <2>2 DEF EndCoarse, SweepOld, Levels
  <2>3. CASE BeginSweep \/ EndRaw \/ EndFine
    <3>1. PICK level \in Levels : Enter(level)
      BY <2>3 DEF BeginSweep, EndRaw, EndFine, Levels
    <3>2. /\ sweep' = level /\ cutoff' \in Int
          /\ cutoff' = 0 \/ (Keep[level] # Forever /\ cutoff' <= now - Keep[level])
      BY <3>1, EnterCutoff, BaseFacts
    <3> QED
      BY <1>2, <3>2 DEF SweepOld
  <2> QED
    BY <2>1, <2>2, <2>3 DEF RetentionStep
<1>4. DeletedGone'
  <2>1. CASE DeleteRaw
    <3>1. PICK doomed \in SUBSET Deletable :
            raw' = [p \in Pairs |-> {t \in raw[p] : <<p, t>> \notin doomed}]
      BY <2>1 DEF DeleteRaw, Batches
    <3>2. ASSUME NEW p \in Pairs, NEW t \in stored[p], t \notin raw'[p], t \in raw[p]
          PROVE  Keep["raw"] # Forever /\ t < now - Keep["raw"]
      <4>1. <<p, t>> \in Deletable
        BY <3>1, <3>2
      <4>2. t < cutoff
        BY <4>1 DEF Deletable
      <4>3. cutoff \in Int /\ (cutoff = 0 \/ (Keep["raw"] # Forever /\ cutoff <= now - Keep["raw"]))
        BY <2>1 DEF DeleteRaw, TimelyBase, SweepOld, Levels
      <4>4. t \in Nat /\ now \in Nat /\ (Keep["raw"] # Forever => Keep["raw"] \in Nat)
        BY BaseFacts
      <4> QED
        BY <4>2, <4>3, <4>4
    <3> QED
      BY <1>2, <3>2 DEF TimelyBase, DeletedGone
  <2>2. CASE ~DeleteRaw
    <3>1. raw' = raw
      BY <2>2 DEF RetentionStep, BeginSweep, EndRaw, DeleteBuckets, EndFine, EndCoarse
    <3> QED
      BY <1>2, <3>1 DEF TimelyBase, DeletedGone
  <2> QED
    BY <2>1, <2>2
<1> QED
    BY <1>1, <1>2, <1>3, <1>4 DEF TimelyBase, WorkListed, cycle

LEMMA BaseStep == TimelyBase /\ [Next]_vars => TimelyBase'
<1> SUFFICES ASSUME TimelyBase, [Next]_vars PROVE TimelyBase'
    OBVIOUS
<1>1. BucketsInv'
    BY BucketsStep DEF TimelyBase
<1>2. CASE UNCHANGED vars
    BY <1>1, <1>2 DEF vars, cycle, retention, TimelyBase, WorkListed, DeletedGone, SweepOld
<1>3. CASE Tick
  <2>1. /\ now' = now + 1 /\ ran' = FALSE
        /\ UNCHANGED <<stored, raw, stage, work, sweep, cutoff, faults>>
    BY <1>3 DEF Tick, retention
  <2>2. now \in Nat /\ \A level \in Levels : Keep[level] # Forever => Keep[level] \in Nat
    BY BaseFacts, KeepAssumption
  <2>3. DeletedGone'
    <3> SUFFICES ASSUME NEW p \in Pairs, NEW t \in stored[p] \ raw[p]
                 PROVE  Keep["raw"] # Forever /\ t < now' - Keep["raw"]
      BY <2>1 DEF DeletedGone
    <3>1. Keep["raw"] # Forever /\ t < now - Keep["raw"] /\ Keep["raw"] \in Nat /\ t \in Nat
      BY BaseFacts DEF TimelyBase, DeletedGone
    <3> QED
      BY <2>1, <2>2, <3>1
  <2>4. SweepOld'
    <3>1. cutoff' \in Int
      BY <2>1 DEF TimelyBase, SweepOld
    <3>2. ASSUME NEW level \in Levels, sweep = level
          PROVE  cutoff = 0 \/ (Keep[level] # Forever /\ cutoff <= now' - Keep[level])
      <4>1. /\ cutoff \in Int
            /\ cutoff = 0 \/ (Keep[level] # Forever /\ cutoff <= now - Keep[level])
        BY <3>2 DEF TimelyBase, SweepOld
      <4> QED
        BY <2>1, <2>2, <4>1
    <3> QED
      BY <2>1, <3>1, <3>2 DEF SweepOld
  <2>5. \A p \in Pairs : \A t \in stored'[p] : t <= now'
    BY <2>1, <2>2, BaseFacts
  <2> QED
    BY <1>1, <2>1, <2>3, <2>4, <2>5 DEF TimelyBase, WorkListed
<1>4. CASE \E p \in Pairs, t \in Instants : StoreRound(p, t)
  <2>1. PICK p \in Pairs, t \in Instants : StoreRound(p, t)
    BY <1>4
  <2>2. /\ stored' = [stored EXCEPT ![p] = @ \cup {t}]
        /\ raw' = [raw EXCEPT ![p] = @ \cup {t}] /\ t <= now
        /\ UNCHANGED <<now, stage, work, ran, sweep, cutoff, faults>>
    BY <2>1 DEF StoreRound, cycle, retention
  <2>3. stored \in [Pairs -> SUBSET Instants] /\ raw \in [Pairs -> SUBSET Instants]
    BY DEF TimelyBase, BucketsInv, RollupType
  <2>4. ASSUME NEW q \in Pairs
        PROVE  /\ \A u \in stored'[q] : u \in stored[q] \/ u = t
               /\ \A u \in stored'[q] \ raw'[q] : u \in stored[q] \ raw[q]
    <3>1. CASE q = p
      BY <2>2, <2>3, <3>1
    <3>2. CASE q # p
      BY <2>2, <2>3, <3>2
    <3> QED
      BY <3>1, <3>2
  <2>5. DeletedGone'
    BY <2>2, <2>4 DEF TimelyBase, DeletedGone
  <2>6. \A q \in Pairs : \A u \in stored'[q] : u <= now'
    BY <2>2, <2>4 DEF TimelyBase
  <2> QED
    BY <1>1, <2>2, <2>5, <2>6 DEF TimelyBase, WorkListed, SweepOld
<1> QED
    BY <1>2, <1>3, <1>4, CycleKeepsBase, SweepKeepsBase DEF Next, Work

-----------------------------------------------------------------------------

\* A step of others: what is wanted stays wanted and counted, or comes anew.
LEMMA OthersStep ==
    ASSUME LookbackReaches, TimelyInv, NEW p \in Pairs, NEW res \in Resolutions,
           UNCHANGED <<stage, work, from, closed, taken>>,
           now' \in Nat, now <= now', Begun' = Begun,
           Starts(p, res)' \subseteq Starts(p, res),
           \A t \in Wanted(p, res)' :
              /\ t \in Nat
              /\ t \in Wanted(p, res) \/ t + MaxDelay >= now
              /\ CountedAt(p, res, t) => CountedAt(p, res, t)'
    PROVE  InTime(p, res)'
<1>1. /\ res \in Nat /\ res > 0 /\ MaxDelay \in Nat
      /\ Lookback * res \in Nat /\ Lookback * res > MaxDelay + 1
    BY LookbackFacts
<1>2. PICK back : back = Lookback * res
    OBVIOUS
<1>3. /\ now \in Nat /\ Begun \in Int /\ Begun <= now
      /\ TimelyBase /\ InTime(p, res)
    BY BaseFacts DEF TimelyInv
<1>4. PassedCounted(p, res)'
  <2> SUFFICES ASSUME NEW b \in Starts(p, res)', NEW t \in Wanted(p, res)', t <= b - back
               PROVE  CountedAt(p, res, t)'
    BY <1>2 DEF PassedCounted
  <2>1. b \in Starts(p, res) /\ b \in Nat /\ b <= now
    BY <1>3, RowBegins
  <2>2. ~(t + MaxDelay >= now)
    BY <1>1, <1>2, <1>3, <2>1
  <2>3. t \in Wanted(p, res)
    BY <2>2
  <2>4. CountedAt(p, res, t)
    BY <1>2, <1>3, <2>1, <2>3 DEF InTime, PassedCounted
  <2> QED
    BY <2>4
<1>5. ASSUME stage' \in {"query", "write"}, Handling(p, res)' PROVE BoundsSound(p, res)'
  <2>1. BoundsSound(p, res)
    BY <1>3, <1>5 DEF InTime, Handling, Pair, Resolution
  <2>2. /\ from \in Int /\ (from < 0 \/ (Begins(from, res) /\ from <= now - back))
        /\ closed + res > Begun
    BY <1>2, <2>1 DEF BoundsSound
  <2>3. from < 0 \/ (Begins(from, res) /\ from <= now' - back)
    <3>1. CASE from < 0
      BY <3>1
    <3>2. CASE ~(from < 0)
      <4>1. Begins(from, res) /\ from <= now - back
        BY <2>2, <3>2
      <4>2. from <= now' - back
        BY <1>1, <1>2, <1>3, <2>2, <4>1
      <4> QED
        BY <4>1, <4>2
    <3> QED
      BY <3>1, <3>2
  <2>4. ASSUME NEW t \in Wanted(p, res)', t <= from PROVE CountedAt(p, res, t)'
    <3>1. ~(from < 0) /\ from <= now - back
      BY <2>2, <2>4
    <3>2. ~(t + MaxDelay >= now)
      BY <1>1, <1>2, <1>3, <2>2, <2>4, <3>1
    <3>3. t \in Wanted(p, res)
      BY <3>2
    <3>4. CountedAt(p, res, t)
      BY <2>1, <2>4, <3>3 DEF BoundsSound
    <3> QED
      BY <3>4
  <2>5. from' \in Int /\ (from' < 0 \/ (Begins(from', res) /\ from' <= now' - Lookback * res))
    BY <1>2, <2>2, <2>3
  <2>6. closed' + res > Begun'
    BY <2>2
  <2>7. \A t \in Wanted(p, res)' : t <= from' => CountedAt(p, res, t)'
    BY <2>4
  <2> QED
    BY <2>5, <2>6, <2>7 DEF BoundsSound, Begins
<1>6. \A t : Settled(t)' <=> Settled(t)
    BY DEF Settled
<1>7. ASSUME NEW t \in Wanted(p, res)', Settled(t) PROVE t \in Wanted(p, res)
  <2>1. t + MaxDelay < Begun
    BY <1>7 DEF Settled
  <2> QED
    BY <1>1, <1>3, <2>1
<1>8. ASSUME stage' = "write", Handling(p, res)' PROVE ReadOrCounted(p, res)'
  <2>1. ReadOrCounted(p, res)
    BY <1>3, <1>8 DEF InTime, Handling, Pair, Resolution
  <2>2. \A s \in taken' : from' < s
    BY <2>1 DEF ReadOrCounted
  <2>3. \A t \in Wanted(p, res)' : from' < t /\ t <= closed' /\ Settled(t)' =>
          \/ t \in taken'
          \/ CountedAt(p, res, t)' /\ \A s \in taken' : BucketOf(s, res) # BucketOf(t, res)
    BY <1>6, <1>7, <2>1 DEF ReadOrCounted
  <2> QED
    BY <2>2, <2>3 DEF ReadOrCounted
<1>9. ASSUME stage' # "idle", IsDone(p, res)' PROVE DoneCounted(p, res)'
  <2>1. DoneCounted(p, res)
    BY <1>3, <1>9 DEF InTime, IsDone
  <2>2. \A t \in Wanted(p, res)' :
            Settled(t)' /\ BucketOf(t, res) + res <= Begun' => CountedAt(p, res, t)'
    BY <1>6, <1>7, <2>1 DEF DoneCounted
  <2> QED
    BY <2>2 DEF DoneCounted
<1> QED
    BY <1>4, <1>5, <1>8, <1>9 DEF InTime

LEMMA TimelyTick ==
    ASSUME LookbackReaches, TimelyInv, Tick, NEW p \in Pairs, NEW res \in Resolutions
    PROVE  InTime(p, res)'
<1>1. /\ now' = now + 1 /\ ran = TRUE /\ ran' = FALSE
      /\ UNCHANGED <<stored, rollup, stage, work, from, closed, taken>>
    BY DEF Tick, TimelyInv, TimelyBase
<1>2. now \in Nat /\ (Keep["raw"] # Forever => Keep["raw"] \in Nat) /\ TimelyBase
    BY BaseFacts DEF TimelyInv
<1>3. Begun' = Begun
    BY <1>1, <1>2 DEF Begun, Late
<1>4. Starts(p, res)' = Starts(p, res)
    BY <1>1 DEF Starts
<1>5. ASSUME NEW t \in Wanted(p, res)'
      PROVE  t \in Nat /\ t \in Wanted(p, res) /\ (CountedAt(p, res, t) => CountedAt(p, res, t)')
  <2>1. t \in stored[p] /\ t % res # 0 /\ ~Gone(t, res)'
    BY <1>1 DEF Wanted
  <2>2. t \in Nat
    BY <1>2, <2>1, BaseFacts
  <2>3. PICK b : b = BucketOf(t, res)
    OBVIOUS
  <2>4. b \in Nat
    BY <2>2, <2>3, BucketBegins
  <2>5. ~Gone(t, res)
    BY <1>1, <1>2, <2>1, <2>3, <2>4 DEF Gone
  <2> QED
    BY <1>1, <2>1, <2>2, <2>5 DEF Wanted, CountedAt
<1>6. now' \in Nat /\ now <= now'
    BY <1>1, <1>2
<1> QED
    BY <1>1, <1>3, <1>4, <1>5, <1>6, OthersStep

LEMMA TimelyStore ==
    ASSUME LookbackReaches, TimelyInv, NEW q \in Pairs, NEW u \in Instants, StoreRound(q, u),
           NEW p \in Pairs, NEW res \in Resolutions
    PROVE  InTime(p, res)'
<1>1. /\ stored' = [stored EXCEPT ![q] = @ \cup {u}] /\ now <= u + MaxDelay
      /\ UNCHANGED <<now, rollup, stage, work, from, closed, taken, ran>>
    BY DEF StoreRound, cycle
<1>2. now \in Nat /\ TimelyBase /\ stored \in [Pairs -> SUBSET Instants] /\ u \in Nat
      /\ MaxDelay \in Nat
    BY BaseFacts, RollupBoundsAssumption
    DEF TimelyInv, TimelyBase, BucketsInv, RollupType, Instants
<1>3. Begun' = Begun
    BY <1>1 DEF Begun, Late
<1>4. Starts(p, res)' = Starts(p, res)
    BY <1>1 DEF Starts
<1>5. \A t \in stored'[p] : t \in stored[p] \/ t = u
    BY <1>1, <1>2
<1>6. ASSUME NEW t \in Wanted(p, res)'
      PROVE  /\ t \in Nat /\ (t \in Wanted(p, res) \/ t + MaxDelay >= now)
             /\ CountedAt(p, res, t) => CountedAt(p, res, t)'
  <2>1. t \in stored'[p] /\ t % res # 0 /\ ~Gone(t, res)
    BY <1>1 DEF Wanted, Gone
  <2>2. CASE t \in stored[p]
    BY <1>1, <1>2, <2>1, <2>2, BaseFacts DEF Wanted, CountedAt
  <2>3. CASE t = u
    BY <1>1, <1>2, <2>3 DEF CountedAt
  <2> QED
    BY <1>5, <2>1, <2>2, <2>3
<1> QED
    BY <1>1, <1>2, <1>3, <1>4, <1>6, OthersStep

\* Retention deletes rows of buckets that are gone.
LEMMA TimelySweep ==
    ASSUME LookbackReaches, RowsOutlive, TimelyInv, RetentionStep,
           NEW p \in Pairs, NEW res \in Resolutions
    PROVE  InTime(p, res)'
<1>1. UNCHANGED <<now, stored, stage, work, from, closed, taken, ran>>
    BY DEF RetentionStep, BeginSweep, DeleteRaw, EndRaw, DeleteBuckets, EndFine, EndCoarse, cycle
<1>2. now \in Nat /\ TimelyBase /\ (Keep["raw"] # Forever => Keep["raw"] \in Nat)
    BY BaseFacts DEF TimelyInv
<1>3. Begun' = Begun
    BY <1>1 DEF Begun, Late
<1>4. /\ Starts(p, res)' \subseteq Starts(p, res)
      /\ \A t \in Wanted(p, res) : CountedAt(p, res, t) => CountedAt(p, res, t)'
  <2>1. CASE ~DeleteBuckets
    <3>1. rollup' = rollup
      BY <2>1 DEF RetentionStep, BeginSweep, DeleteRaw, EndRaw, EndFine, EndCoarse
    <3> QED
      BY <3>1 DEF Starts, CountedAt
  <2>2. CASE DeleteBuckets
    <3>1. PICK doomed \in SUBSET OldBuckets :
            rollup' = [q \in Pairs |-> [rollup[q] EXCEPT ![Swept] =
                         [b \in Instants |-> IF <<q, b>> \in doomed THEN {} ELSE @[b]]]]
      BY <2>2 DEF DeleteBuckets, Batches
    <3>2. rollup \in [Pairs -> [Resolutions -> [Instants -> SUBSET Instants]]]
      BY <1>2 DEF TimelyBase, BucketsInv, RollupType
    <3>3. PICK level \in {"fine", "coarse"} : sweep = level
      BY <2>2 DEF DeleteBuckets
    <3>4. ASSUME NEW b \in Instants
          PROVE  \/ rollup'[p][res][b] = rollup[p][res][b]
                 \/ rollup'[p][res][b] = {} /\ b < cutoff
      <4>1. CASE res # Swept
        BY <3>1, <3>2, <4>1
      <4>2. CASE res = Swept
        <5>1. rollup'[p][res][b] = (IF <<p, b>> \in doomed THEN {} ELSE rollup[p][res][b])
          BY <3>1, <3>2, <4>2
        <5>2. <<p, b>> \in doomed => b < cutoff
          BY DEF OldBuckets
        <5> QED
          BY <5>1, <5>2
      <4> QED
        BY <4>1, <4>2
    <3>5. ASSUME NEW t \in Wanted(p, res), CountedAt(p, res, t) PROVE CountedAt(p, res, t)'
      <4>1. PICK b : b = BucketOf(t, res)
        OBVIOUS
      <4>2. t \in stored[p] /\ ~Gone(t, res)
        BY DEF Wanted
      <4>3. b \in Instants /\ b \in Nat
        BY <1>2, <4>1, <4>2, BaseFacts, BucketIsInstant
      <4>4. ~(b < cutoff)
        <5> SUFFICES ASSUME b < cutoff PROVE FALSE
          OBVIOUS
        <5>1. /\ cutoff \in Int
              /\ cutoff = 0 \/ (Keep[level] # Forever /\ cutoff <= now - Keep[level])
          BY <1>2, <3>3 DEF TimelyBase, SweepOld, Levels
        <5>2. Keep[level] # Forever /\ cutoff <= now - Keep[level]
          BY <4>3, <5>1
        <5>3. Keep["raw"] # Forever /\ Keep[level] >= Keep["raw"] /\ Keep[level] \in Nat
          BY <5>2, KeepAssumption DEF RowsOutlive, Levels
        <5>4. b < now - Keep["raw"]
          BY <1>2, <4>3, <5>1, <5>2, <5>3
        <5> QED
          BY <4>1, <4>2, <5>3, <5>4 DEF Gone
      <4>5. rollup'[p][res][b] = rollup[p][res][b]
        BY <3>4, <4>3, <4>4
      <4> QED
        BY <3>5, <4>1, <4>5 DEF CountedAt
    <3> QED
      BY <3>4, <3>5 DEF Starts
  <2> QED
    BY <2>1, <2>2
<1>5. ASSUME NEW t \in Wanted(p, res)'
      PROVE  t \in Nat /\ t \in Wanted(p, res) /\ (CountedAt(p, res, t) => CountedAt(p, res, t)')
  <2>1. t \in Wanted(p, res)
    BY <1>1 DEF Wanted, Gone
  <2>2. t \in Nat
    BY <1>2, <2>1, BaseFacts DEF Wanted
  <2> QED
    BY <1>4, <2>1, <2>2
<1>6. now' \in Nat /\ now <= now'
    BY <1>1, <1>2
<1> QED
    BY <1>1, <1>3, <1>4, <1>5, <1>6, OthersStep

LEMMA SameDatabase ==
    ASSUME UNCHANGED <<now, stored, rollup>>, NEW p \in Pairs, NEW res \in Resolutions
    PROVE  /\ Wanted(p, res)' = Wanted(p, res)
           /\ \A t : CountedAt(p, res, t)' <=> CountedAt(p, res, t)
           /\ PassedCounted(p, res) => PassedCounted(p, res)'
<1>1. Wanted(p, res)' = Wanted(p, res)
    BY DEF Wanted, Gone
<1>2. \A t : CountedAt(p, res, t)' <=> CountedAt(p, res, t)
    BY DEF CountedAt
<1>3. Starts(p, res)' = Starts(p, res)
    BY DEF Starts
<1> QED
    BY <1>1, <1>2, <1>3 DEF PassedCounted

LEMMA PlaceOf ==
    ASSUME NEW p \in Pairs, NEW res \in Resolutions
    PROVE  \E k \in 1..(2 * Len(PairOrder)) : PairAt(k) = p /\ ResolutionAt(k) = res
<1>1. PICK i \in 1..Len(PairOrder) : PairOrder[i] = p
    BY PairsAssumption DEF Pairs
<1>2. Len(PairOrder) \in Nat /\ i \in Nat /\ i >= 1 /\ i <= Len(PairOrder)
    BY <1>1, PairsAssumption
<1>3. PICK j : j = 2 * i
    OBVIOUS
<1>4. /\ j - 1 \in 1..(2 * Len(PairOrder)) /\ j \in 1..(2 * Len(PairOrder))
      /\ ((j - 1) + 1) \div 2 = i /\ (j + 1) \div 2 = i
      /\ (j - 1) % 2 = 1 /\ j % 2 = 0
    BY <1>2, <1>3
<1>5. PairAt(j - 1) = p /\ ResolutionAt(j - 1) = Fine
    BY <1>1, <1>4 DEF PairAt, ResolutionAt
<1>6. PairAt(j) = p /\ ResolutionAt(j) = Coarse
    BY <1>1, <1>4 DEF PairAt, ResolutionAt
<1> QED
    BY <1>4, <1>5, <1>6 DEF Resolutions

\* A cycle begins with everything that is still to be counted.
LEMMA TimelyBegin ==
    ASSUME TimelyInv, BeginCycle, NEW p \in Pairs, NEW res \in Resolutions
    PROVE  InTime(p, res)'
<1>1. /\ work' = Listed /\ stage' \in {"idle", "mark"}
      /\ UNCHANGED <<now, stored, raw, rollup>>
    BY DEF BeginCycle
<1>2. TimelyBase /\ PassedCounted(p, res)
    BY DEF TimelyInv, InTime
<1>3. ASSUME IsDone(p, res)' PROVE DoneCounted(p, res)'
  <2>1. PICK k \in 1..(2 * Len(PairOrder)) : PairAt(k) = p /\ ResolutionAt(k) = res
    BY PlaceOf
  <2>2. k \notin Listed
    BY <1>1, <1>3, <2>1 DEF IsDone
  <2>3. raw[p] = {}
    BY <2>1, <2>2 DEF Listed
  <2>4. Wanted(p, res) = {}
    BY <1>2, <2>3, WantedIsThere
  <2>5. Wanted(p, res)' = {}
    BY <1>1, <2>4, SameDatabase
  <2> QED
    BY <2>5 DEF DoneCounted
<1> QED
    BY <1>1, <1>2, <1>3, SameDatabase DEF InTime

LEMMA TimelyFails ==
    ASSUME TimelyInv, CycleFails, NEW p \in Pairs, NEW res \in Resolutions
    PROVE  InTime(p, res)'
<1>1. stage' = "idle" /\ UNCHANGED <<now, stored, rollup>>
    BY DEF CycleFails
<1> QED
    BY <1>1, SameDatabase DEF TimelyInv, InTime

\* What is done stays done while the cycle is at something else.
LEMMA DoneStays ==
    ASSUME TimelyInv, UNCHANGED <<now, ran, stored, rollup, work>>, stage # "idle",
           NEW p \in Pairs, NEW res \in Resolutions, IsDone(p, res)'
    PROVE  DoneCounted(p, res)'
<1>1. IsDone(p, res)
    BY DEF IsDone
<1>2. DoneCounted(p, res)
    BY <1>1 DEF TimelyInv, InTime
<1>3. Begun' = Begun /\ \A t : Settled(t)' <=> Settled(t)
    BY DEF Begun, Late, Settled
<1> QED
    BY <1>2, <1>3, SameDatabase DEF DoneCounted

\* The bounds of a query.
LEMMA TimelyMark ==
    ASSUME LookbackReaches, TimelyInv, ReadMark, NEW p \in Pairs, NEW res \in Resolutions
    PROVE  InTime(p, res)'
<1>1. /\ stage = "mark" /\ stage' = "query"
      /\ closed' = BucketOf(now, Resolution)
      /\ from' = ComputeFrom(Starts(Pair, Resolution), Resolution)
      /\ UNCHANGED <<now, ran, stored, raw, rollup, work>>
    BY DEF ReadMark, LatestClosed
<1>2. TimelyBase /\ PassedCounted(p, res)
    BY DEF TimelyInv, InTime
<1>3. /\ res \in Nat /\ res > 0 /\ Lookback * res \in Nat /\ Lookback \in Nat
    BY LookbackFacts, RollupSizesAssumption
<1>4. now \in Nat /\ Begun \in Int /\ Begun <= now
    BY <1>2, BaseFacts
<1>5. ASSUME Handling(p, res)' PROVE BoundsSound(p, res)'
  <2>1. Pair = p /\ Resolution = res
    BY <1>1, <1>5 DEF Handling, Pair, Resolution
  <2>2. closed' + res > Begun'
    <3>1. PICK b : b = BucketOf(now, res)
      OBVIOUS
    <3>2. b \in Nat /\ now < b + res
      BY <1>4, <3>1, BucketBegins
    <3>3. Begun' = Begun
      BY <1>1 DEF Begun, Late
    <3> QED
      BY <1>1, <1>3, <1>4, <2>1, <3>1, <3>2, <3>3
  <2>3. /\ from' \in Int
        /\ from' < 0 \/ (Begins(from', res) /\ from' <= now - Lookback * res)
        /\ \A t \in Wanted(p, res) : t <= from' => CountedAt(p, res, t)
    <3>1. CASE Starts(p, res) = {}
      <4>1. from' = -1
        BY <1>1, <2>1, <3>1 DEF ComputeFrom
      <4>2. \A t \in Wanted(p, res) : t \in Nat
        BY <1>2, BaseFacts DEF Wanted
      <4> QED
        BY <4>1, <4>2
    <3>2. CASE Starts(p, res) # {}
      <4>1. PICK g : g = Greatest(Starts(p, res))
        OBVIOUS
      <4>2. g \in Starts(p, res)
        <5>1. Starts(p, res) \subseteq 0..MaxNow /\ MaxNow \in Nat
          BY RollupBoundsAssumption DEF Starts, Instants
        <5> QED
          BY <3>2, <4>1, <5>1, GreatestIsThere
      <4>3. g \in Nat /\ g <= now /\ Begins(g, res)
        BY <1>2, <4>2, RowBegins
      <4>4. from' = g - Lookback * res
        BY <1>1, <2>1, <3>2, <4>1 DEF ComputeFrom
      <4>5. from' \in Int /\ from' <= now - Lookback * res
        BY <1>3, <1>4, <4>3, <4>4
      <4>6. from' >= 0 => Begins(from', res)
        BY <1>3, <4>3, <4>4, BeginsBefore
      <4>7. \A t \in Wanted(p, res) : t <= from' => CountedAt(p, res, t)
        BY <1>2, <4>2, <4>4 DEF PassedCounted
      <4> QED
        BY <4>5, <4>6, <4>7
    <3> QED
      BY <3>1, <3>2
  <2>4. /\ from' \in Int
        /\ from' < 0 \/ (Begins(from', res) /\ from' <= now' - Lookback * res)
    BY <1>1, <2>3
  <2>5. \A t \in Wanted(p, res)' : t <= from' => CountedAt(p, res, t)'
    BY <1>1, <2>3, SameDatabase
  <2> QED
    BY <2>2, <2>4, <2>5 DEF BoundsSound, Begins
<1>6. IsDone(p, res)' => DoneCounted(p, res)'
    BY <1>1, DoneStays
<1>7. PassedCounted(p, res)'
    BY <1>1, <1>2, SameDatabase
<1> QED
    BY <1>1, <1>5, <1>6, <1>7 DEF InTime

\* What is wanted and between the bounds is read.
LEMMA TimelyRead ==
    ASSUME TimelyInv, ReadRounds, NEW p \in Pairs, NEW res \in Resolutions
    PROVE  InTime(p, res)'
<1>1. /\ stage = "query" /\ stage' = "write"
      /\ taken' = {t \in raw[Pair] : from < t /\ t <= closed}
      /\ UNCHANGED <<now, ran, stored, raw, rollup, work, from, closed>>
    BY DEF ReadRounds
<1>2. TimelyBase /\ PassedCounted(p, res)
    BY DEF TimelyInv, InTime
<1>3. ASSUME Handling(p, res)' PROVE BoundsSound(p, res)' /\ ReadOrCounted(p, res)'
  <2>1. Pair = p /\ Handling(p, res)
    BY <1>1, <1>3 DEF Handling, Pair, Resolution
  <2>2. BoundsSound(p, res)
    BY <1>1, <2>1 DEF TimelyInv, InTime
  <2>3. Begun' = Begun
    BY <1>1 DEF Begun, Late
  <2>4. BoundsSound(p, res)'
    BY <1>1, <2>2, <2>3, SameDatabase DEF BoundsSound, Begins
  <2>5. \A t \in Wanted(p, res)' : from' < t /\ t <= closed' => t \in taken'
    BY <1>1, <1>2, <2>1, SameDatabase, WantedIsThere
  <2>6. \A s \in taken' : from' < s
    BY <1>1
  <2> QED
    BY <2>4, <2>5, <2>6 DEF ReadOrCounted
<1>4. IsDone(p, res)' => DoneCounted(p, res)'
    BY <1>1, DoneStays
<1>5. PassedCounted(p, res)'
    BY <1>1, <1>2, SameDatabase
<1> QED
    BY <1>1, <1>3, <1>4, <1>5 DEF InTime

\* When everything is written that was read, everything is counted.
LEMMA HandledCounted ==
    ASSUME TimelyInv, stage = "write", taken = {}, NEW p \in Pairs, NEW res \in Resolutions,
           Handling(p, res)
    PROVE  DoneCounted(p, res)
<1> SUFFICES ASSUME NEW t \in Wanted(p, res), Settled(t), BucketOf(t, res) + res <= Begun
             PROVE  CountedAt(p, res, t)
    BY DEF DoneCounted
<1>1. TimelyBase /\ BoundsSound(p, res) /\ ReadOrCounted(p, res)
    BY DEF TimelyInv, InTime
<1>2. closed \in Nat /\ Begins(closed, res)
    BY <1>1 DEF TimelyBase, BucketsInv, InHand, Handling, Begins
<1>3. t \in Nat /\ Begun \in Int /\ res \in Nat /\ res > 0
    BY <1>1, BaseFacts, ResolutionIsPositive DEF Wanted
<1>4. PICK b : b = BucketOf(t, res)
    OBVIOUS
<1>5. b \in Nat /\ t < b + res /\ Begins(b, res)
    BY <1>3, <1>4, BucketBegins, BucketIsBeginning
<1>6. closed + res > Begun /\ from \in Int
    BY <1>1 DEF BoundsSound
<1>7. b < closed
    BY <1>2, <1>3, <1>4, <1>5, <1>6
<1>8. b + res <= closed
    BY <1>2, <1>5, <1>7, BeginningsApart
<1>9. t <= closed
    BY <1>2, <1>3, <1>5, <1>8
<1>10. CASE t <= from
    BY <1>1, <1>10 DEF BoundsSound
<1>11. CASE ~(t <= from)
    BY <1>1, <1>3, <1>6, <1>9, <1>11 DEF ReadOrCounted
<1> QED
    BY <1>10, <1>11

LEMMA TimelyNext ==
    ASSUME TimelyInv, NextPair, CyclesEnd, NEW p \in Pairs, NEW res \in Resolutions
    PROVE  InTime(p, res)'
<1>1. /\ stage = "write" /\ taken = {} /\ stage' \in {"idle", "mark"}
      /\ work' = work \ {Least(work)}
      /\ UNCHANGED <<now, ran, stored, rollup>>
    BY DEF NextPair, CyclesEnd
<1>2. ASSUME IsDone(p, res)' PROVE DoneCounted(p, res)'
  <2>1. IsDone(p, res) \/ Handling(p, res)
    BY <1>1, <1>2 DEF IsDone, Handling, Pair, Resolution
  <2>2. DoneCounted(p, res)
    BY <1>1, <2>1, HandledCounted DEF TimelyInv, InTime
  <2>3. Begun' = Begun /\ \A t : Settled(t)' <=> Settled(t)
    BY <1>1 DEF Begun, Late, Settled
  <2> QED
    BY <1>1, <2>2, <2>3, SameDatabase DEF DoneCounted
<1> QED
    BY <1>1, <1>2, SameDatabase DEF TimelyInv, InTime

\* A bucket is written whole, and the oldest first.
LEMMA TimelyUpsert ==
    ASSUME LookbackReaches, TimelyInv, Upsert, NEW p \in Pairs, NEW res \in Resolutions
    PROVE  InTime(p, res)'
<1>1. PICK bucket, rounds :
        /\ bucket = BucketOf(Least(taken), Resolution)
        /\ rounds = {t \in taken : BucketOf(t, Resolution) = bucket}
        /\ rollup' = [rollup EXCEPT ![Pair][Resolution][bucket] = rounds]
        /\ taken' = taken \ rounds
    BY DEF Upsert
<1>2. /\ stage = "write" /\ taken # {}
      /\ UNCHANGED <<now, ran, stored, raw, stage, work, from, closed>>
    BY DEF Upsert
<1>3. TimelyBase /\ InTime(p, res)
    BY DEF TimelyInv
<1>4. /\ rollup \in [Pairs -> [Resolutions -> [Instants -> SUBSET Instants]]]
      /\ Pair \in Pairs /\ Resolution \in Resolutions
    BY <1>2, <1>3, CurrentIsListed DEF TimelyBase, BucketsInv, RollupType
<1>5. Begun' = Begun /\ \A t : Settled(t)' <=> Settled(t)
    BY <1>2 DEF Begun, Late, Settled
<1>6. Wanted(p, res)' = Wanted(p, res)
    BY <1>2 DEF Wanted, Gone
<1>7. CASE ~Handling(p, res)
  <2>1. rollup'[p][res] = rollup[p][res]
    BY <1>1, <1>4, <1>7 DEF Handling
  <2>2. Starts(p, res)' = Starts(p, res) /\ \A t : CountedAt(p, res, t)' <=> CountedAt(p, res, t)
    BY <2>1 DEF Starts, CountedAt
  <2>3. PassedCounted(p, res)'
    BY <1>3, <1>6, <2>2 DEF InTime, PassedCounted
  <2>4. IsDone(p, res)' => DoneCounted(p, res)'
    BY <1>2, <1>3, <1>5, <1>6, <2>2 DEF InTime, IsDone, DoneCounted
  <2>5. ~Handling(p, res)'
    BY <1>2, <1>7 DEF Handling, Pair, Resolution
  <2> QED
    BY <1>2, <2>3, <2>4, <2>5 DEF InTime
<1>8. CASE Handling(p, res)
  <2>1. /\ Pair = p /\ Resolution = res /\ BoundsSound(p, res) /\ ReadOrCounted(p, res)
        /\ PassedCounted(p, res)
    BY <1>2, <1>3, <1>8 DEF Handling, InTime
  <2>2. /\ taken \subseteq stored[p] /\ \A t \in taken : t <= closed
        /\ closed \in Nat /\ closed <= now
    BY <1>2, <1>3, <2>1 DEF TimelyBase, BucketsInv, InHand
  <2>3. /\ \A t \in stored[p] : t \in Nat /\ t \in Instants
        /\ now \in Nat /\ Begun \in Int /\ now - 1 <= Begun
    BY <1>3, BaseFacts
  <2>4. PICK oldest : oldest = Least(taken)
    OBVIOUS
  <2>5. oldest \in taken /\ oldest \in Nat /\ \A t \in taken : oldest <= t
    BY <1>2, <2>2, <2>3, <2>4, LeastIsThere
  <2>6. bucket = BucketOf(oldest, res) /\ bucket \in Nat /\ bucket <= oldest
    BY <1>1, <2>1, <2>4, <2>5, BucketBegins
  <2>7. \A b \in Instants : rollup'[p][res][b] =
                                (IF b = bucket THEN rounds ELSE rollup[p][res][b])
    BY <1>1, <1>4, <2>1
  <2>8. Starts(p, res)' \subseteq Starts(p, res) \cup {bucket}
    BY <2>7 DEF Starts
  <2>9. ASSUME NEW t \in Wanted(p, res)
        PROVE  /\ t \in Nat /\ t % res # 0
               /\ BucketOf(t, res) \in Nat
               /\ CountedAt(p, res, t)' <=>
                    IF BucketOf(t, res) = bucket THEN t \in rounds ELSE CountedAt(p, res, t)
    <3>1. t \in Nat /\ t \in Instants /\ t % res # 0
      BY <2>3 DEF Wanted
    <3>2. BucketOf(t, res) \in Instants /\ BucketOf(t, res) \in Nat
      BY <3>1, BucketIsInstant
    <3> QED
      BY <2>7, <3>1, <3>2 DEF CountedAt
  <2>10. ASSUME NEW t \in Wanted(p, res), t <= from PROVE BucketOf(t, res) # bucket
    <3> SUFFICES ASSUME BucketOf(t, res) = bucket PROVE FALSE
      OBVIOUS
    <3>1. t \in Nat /\ t % res # 0 /\ bucket <= t
      BY <2>9, BucketBegins
    <3>2. from \in Nat /\ Begins(from, res)
      BY <2>1, <2>10, <3>1 DEF BoundsSound, Begins
    <3>3. from < oldest
      BY <2>1, <2>5 DEF ReadOrCounted
    <3>4. BucketOf(from, res) <= BucketOf(oldest, res) /\ BucketOf(from, res) = from
      BY <2>5, <3>2, <3>3, BucketMonotone DEF Begins
    <3>5. t = from
      BY <2>6, <2>10, <3>1, <3>2, <3>4
    <3>6. PICK q : q = t \div res
      OBVIOUS
    <3>7. res \in Nat /\ res > 0
      BY ResolutionIsPositive
    <3>8. t = q * res /\ q \in Nat
      BY <3>1, <3>4, <3>5, <3>6, <3>7 DEF BucketOf
    <3>9. (q * res) % res = 0
      BY <3>7, <3>8
    <3> QED
      BY <3>1, <3>8, <3>9
  <2>11. BoundsSound(p, res)'
    <3>1. \A t \in Wanted(p, res) : t <= from => CountedAt(p, res, t)'
      BY <2>1, <2>9, <2>10 DEF BoundsSound
    <3>2. closed + res > Begun
      BY <2>1 DEF BoundsSound
    <3>3. from \in Int /\ (from < 0 \/ (Begins(from, res) /\ from <= now - Lookback * res))
      BY <2>1 DEF BoundsSound
    <3> QED
      BY <1>2, <1>5, <1>6, <3>1, <3>2, <3>3 DEF BoundsSound, Begins
  <2>12. ASSUME NEW t \in Wanted(p, res), from < t, t <= closed, Settled(t)
         PROVE  \/ t \in taken'
                \/ CountedAt(p, res, t)' /\ \A s \in taken' : BucketOf(s, res) # BucketOf(t, res)
    <3>1. \/ t \in taken
          \/ CountedAt(p, res, t) /\ \A s \in taken : BucketOf(s, res) # BucketOf(t, res)
      BY <2>1, <2>12 DEF ReadOrCounted
    <3>2. CASE t \in taken /\ BucketOf(t, res) # bucket
      BY <1>1, <2>1, <3>2
    <3>3. CASE t \in taken /\ BucketOf(t, res) = bucket
      <4>1. t \in rounds /\ \A s \in taken' : BucketOf(s, res) # bucket
        BY <1>1, <2>1, <3>3
      <4> QED
        BY <2>9, <3>3, <4>1
    <3>4. CASE CountedAt(p, res, t) /\ \A s \in taken : BucketOf(s, res) # BucketOf(t, res)
      <4>1. BucketOf(t, res) # bucket
        BY <2>5, <2>6, <3>4
      <4> QED
        BY <1>1, <2>9, <3>4, <4>1
    <3> QED
      BY <3>1, <3>2, <3>3, <3>4
  <2>13. ReadOrCounted(p, res)'
    <3>1. \A s \in taken' : from < s
      BY <1>1, <2>1 DEF ReadOrCounted
    <3> QED
      BY <1>2, <1>5, <1>6, <2>12, <3>1 DEF ReadOrCounted
  <2>14. ASSUME NEW b \in Starts(p, res)', NEW t \in Wanted(p, res), t <= b - Lookback * res
         PROVE  CountedAt(p, res, t)'
    <3>1. PICK back : back = Lookback * res
      OBVIOUS
    <3>2. /\ res \in Nat /\ res > 0 /\ MaxDelay \in Nat
          /\ back \in Nat /\ back > MaxDelay + 1 /\ back >= res
      BY <3>1, LookbackFacts
    <3>3. b \in Nat /\ b <= now
      <4>1. CASE b = bucket
        BY <2>2, <2>3, <2>5, <2>6, <4>1
      <4>2. CASE b \in Starts(p, res)
        BY <1>3, <4>2, RowBegins
      <4> QED
        BY <2>8, <4>1, <4>2
    <3>4. t \in Nat /\ t <= now - back
      BY <2>3, <2>9, <2>14, <3>1, <3>2, <3>3
    <3>5. Settled(t)
      <4>1. t + MaxDelay < Begun
        BY <2>3, <3>2, <3>4
      <4> QED
        BY <4>1 DEF Settled
    <3>6. t <= closed
      <4>1. closed + res > Begun
        BY <2>1 DEF BoundsSound
      <4> QED
        BY <2>2, <2>3, <3>2, <3>4, <4>1
    <3>7. from \in Int
      BY <2>1 DEF BoundsSound
    <3>8. CASE t <= from
      BY <2>1, <2>9, <2>10, <3>8 DEF BoundsSound
    <3>9. CASE from < t /\ t \notin taken'
      BY <2>12, <3>5, <3>6, <3>9
    <3>10. CASE from < t /\ t \in taken'
      <4>1. BucketOf(t, res) # bucket /\ oldest <= t
        BY <1>1, <2>1, <2>5, <3>10
      <4>2. b # bucket
        BY <2>6, <2>14, <2>5, <3>1, <3>2, <3>3, <3>4, <4>1
      <4>3. CountedAt(p, res, t)
        BY <2>1, <2>8, <2>14, <4>2 DEF PassedCounted
      <4> QED
        BY <2>9, <4>1, <4>3
    <3> QED
      BY <3>4, <3>7, <3>8, <3>9, <3>10
  <2>15. PassedCounted(p, res)'
    BY <1>6, <2>14 DEF PassedCounted
  <2>16. ~IsDone(p, res)'
    <3>1. Least(work) \in work /\ PairAt(Least(work)) = p /\ ResolutionAt(Least(work)) = res
      BY <1>2, <1>3, <2>1, CurrentIsListed DEF Pair, Resolution
    <3> QED
      BY <1>2, <3>1 DEF IsDone
  <2> QED
    BY <2>11, <2>13, <2>15, <2>16 DEF InTime
<1> QED
    BY <1>7, <1>8

LEMMA TimelyStep ==
    ASSUME LookbackReaches, RowsOutlive, TimelyInv, [Next]_vars, [CyclesEnd]_vars
    PROVE  TimelyInv'
<1>1. TimelyBase'
    BY BaseStep DEF TimelyInv
<1>2. ASSUME NEW p \in Pairs, NEW res \in Resolutions PROVE InTime(p, res)'
  <2>1. CASE UNCHANGED vars
    <3>1. UNCHANGED <<now, stored, rollup, stage, work, from, closed, taken, ran>>
      BY <2>1 DEF vars, cycle
    <3>2. InTime(p, res)
      BY DEF TimelyInv
    <3> QED
      BY <3>1, <3>2
      DEF InTime, PassedCounted, BoundsSound, ReadOrCounted, DoneCounted, Handling, IsDone, Pair,
          Resolution, Wanted, Gone, CountedAt, Starts, Settled, Begun, Late, Begins
  <2>2. CASE NextPair
    <3>1. work' # work \/ stage' # stage
      BY <2>2 DEF NextPair
    <3>2. CyclesEnd
      BY <3>1 DEF vars, cycle
    <3> QED
      BY <2>2, <3>2, TimelyNext
  <2> QED
    BY <2>1, <2>2, TimelyTick, TimelyStore, TimelySweep, TimelyBegin, TimelyFails, TimelyMark,
       TimelyRead, TimelyUpsert DEF Next, Work, RollupStep
<1> QED
    BY <1>1, <1>2 DEF TimelyInv

LEMMA TimelyInit == Init => TimelyInv
<1> SUFFICES ASSUME Init, NEW p \in Pairs, NEW res \in Resolutions PROVE InTime(p, res)
    BY BaseInit DEF TimelyInv
<1> QED
    BY DEF Init, InTime, PassedCounted, Wanted

\* A cycle that has ended leaves every round of a bucket that was over when it began counted by its
\* row, of every pair and resolution (rollup_worker.rs:62-190), the late ones and those of cycles
\* that failed too, if rows are kept as long as rounds, if the lookback is longer than a round may
\* be late, and if no cycle is cut off by its batch (rollup_worker.rs:74).
THEOREM CountedWhenDone ==
    RowsOutlive /\ LookbackReaches => (Spec /\ [][CyclesEnd]_vars => CountedInTime)
<1> SUFFICES ASSUME RowsOutlive, LookbackReaches
             PROVE  Spec /\ [][CyclesEnd]_vars => CountedInTime
    OBVIOUS
<1>1. Init => TimelyInv
    BY TimelyInit
<1>2. TimelyInv /\ [Next]_vars /\ [CyclesEnd]_vars => TimelyInv'
    BY TimelyStep
<1>3. ASSUME TimelyInv, [Next]_vars, [CyclesEnd]_vars
      PROVE  [stage = "write" /\ stage' = "idle" /\ faults' = faults =>
                \A p \in Steady, res \in Resolutions : \A t \in stored[p] :
                    /\ t + MaxDelay + 2 <= now /\ t % res # 0
                    /\ BucketOf(t, res) + res < now
                    /\ Keep["raw"] # Forever => BucketOf(t, res) >= now - Keep["raw"]
                    => t \in rollup[p][res][BucketOf(t, res)]]_vars
  <2> SUFFICES ASSUME stage = "write", stage' = "idle", faults' = faults,
                      NEW p \in Steady, NEW res \in Resolutions, NEW t \in stored[p],
                      t + MaxDelay + 2 <= now, t % res # 0, BucketOf(t, res) + res < now,
                      Keep["raw"] # Forever => BucketOf(t, res) >= now - Keep["raw"]
               PROVE  t \in rollup[p][res][BucketOf(t, res)]
    OBVIOUS
  <2>1. p \in Pairs /\ TimelyBase
    BY <1>3, KeepAssumption DEF TimelyInv
  <2>2. NextPair /\ work' = {}
    <3>1. faults \in Nat
      BY <2>1 DEF TimelyBase
    <3>2. ~CycleFails
      BY <3>1 DEF CycleFails
    <3>3. ~(UNCHANGED stage)
      OBVIOUS
    <3>4. NextPair
      BY <1>3, <3>2, <3>3
      DEF Next, Work, RollupStep, RetentionStep, Tick, StoreRound, BeginCycle, ReadMark, ReadRounds,
          Upsert, BeginSweep, DeleteRaw, EndRaw, DeleteBuckets, EndFine, EndCoarse, cycle, vars
    <3> QED
      BY <3>4 DEF NextPair
  <2>3. work' = work \ {Least(work)} /\ taken = {}
    BY <1>3, <2>2 DEF CyclesEnd, NextPair, vars, cycle
  <2>4. IsDone(p, res) \/ Handling(p, res)
    BY <2>2, <2>3 DEF IsDone, Handling, Pair, Resolution
  <2>5. DoneCounted(p, res)
    BY <1>3, <2>1, <2>3, <2>4, HandledCounted DEF TimelyInv, InTime
  <2>6. /\ now \in Nat /\ Begun \in Int /\ now - 1 <= Begun /\ t \in Nat
        /\ (Keep["raw"] # Forever => Keep["raw"] \in Nat)
    BY <2>1, BaseFacts
  <2>7. PICK b : b = BucketOf(t, res)
    OBVIOUS
  <2>8. b \in Nat /\ res \in Nat /\ MaxDelay \in Nat
    BY <2>6, <2>7, BucketBegins, ResolutionIsPositive, RollupBoundsAssumption
  <2>9. Settled(t) /\ b + res <= Begun
    BY <2>6, <2>7, <2>8 DEF Settled
  <2>10. t \in Wanted(p, res)
    BY <2>6, <2>7, <2>8 DEF Wanted, Gone
  <2> QED
    BY <2>5, <2>7, <2>9, <2>10 DEF DoneCounted, CountedAt
<1> QED
    BY <1>1, <1>2, <1>3, PTL DEF Spec, CountedInTime
-----------------------------------------------------------------------------
(***************************************************************************)
(* Readers.                                                                *)
(***************************************************************************)

\* A database step is one of the workers, or none.
LEMMA DatabaseSteps == [SeriesNext]_<<vars, reader>> => [Next]_vars
BY DEF SeriesNext, ReaderStep, AskSeries, ReadBuckets, EndSeries, AskPages, NextPage, Next, vars,
       database

\* Rounds that were ever stored are not stored again, and no round comes back.
LEMMA RoundsStay ==
    ASSUME BucketsInv, [Next]_vars, NEW p \in Pairs
    PROVE  stored[p] \subseteq stored'[p] /\ raw'[p] \cap stored[p] \subseteq raw[p]
<1>1. CASE \E q \in Pairs, t \in Instants : StoreRound(q, t)
  <2>1. PICK q \in Pairs, t \in Instants : StoreRound(q, t)
    BY <1>1
  <2>2. /\ t \notin stored[q]
        /\ stored' = [stored EXCEPT ![q] = @ \cup {t}]
        /\ raw' = [raw EXCEPT ![q] = @ \cup {t}]
        /\ stored \in [Pairs -> SUBSET Instants] /\ raw \in [Pairs -> SUBSET Instants]
    BY <2>1 DEF StoreRound, BucketsInv, RollupType
  <2>3. CASE p = q
    BY <2>2, <2>3
  <2>4. CASE p # q
    BY <2>2, <2>4
  <2> QED
    BY <2>3, <2>4
<1>2. CASE DeleteRaw
  <2>1. stored' = stored
    BY <1>2 DEF DeleteRaw
  <2>2. PICK doomed : raw' = [q \in Pairs |-> {t \in raw[q] : <<q, t>> \notin doomed}]
    BY <1>2 DEF DeleteRaw
  <2> QED
    BY <2>1, <2>2
<1>3. CASE UNCHANGED <<stored, raw>>
    BY <1>3
<1> QED
    BY <1>1, <1>2, <1>3
    DEF Next, Tick, Work, RollupStep, BeginCycle, ReadMark, ReadRounds, Upsert, NextPair,
        CycleFails, RetentionStep, BeginSweep, EndRaw, DeleteBuckets, EndFine, EndCoarse, vars

-----------------------------------------------------------------------------
(***************************************************************************)
(* Pages.                                                                  *)
(***************************************************************************)

\* What was returned is at the cursor or after it, and what is owed is before it.
PagesInv ==
    /\ reading = "pages" =>
        /\ asked.pair \in Pairs /\ asked.maxPoints \in Nat \ {0}
        /\ cursor \in Nat /\ \A t \in seen : t \in Nat /\ t >= cursor
        /\ owed \subseteq stored[asked.pair]
        /\ \A t \in owed \cap raw[asked.pair] : t < cursor
    /\ reading # "pages" => cursor = MaxNow + 1 /\ seen = {}

\* The rounds before the cursor, and how many of them are newer than one.
Older == {t \in raw[asked.pair] : t < cursor}
Newer(t) == {u \in Older : u > t}

LEMMA NewestCounts == \A n, t : t \in Newest(n) <=> t \in Older /\ Cardinality(Newer(t)) < n
BY DEF Newest, Older, Newer

LEMMA InstantsFinite == ASSUME NEW S, S \subseteq Instants PROVE IsFiniteSet(S)
<1>1. IsFiniteSet(0..MaxNow)
    BY RollupBoundsAssumption, FS_Interval
<1> QED
    BY <1>1, FS_Subset DEF Instants

LEMMA OlderAreNumbers == Older \subseteq Instants => \A t \in Older : t \in Nat /\ t \in 0..MaxNow
BY DEF Instants

LEMMA FewerAreNewer ==
    ASSUME Older \subseteq Instants, NEW s \in Older, NEW t \in Older, s < t
    PROVE  /\ Cardinality(Newer(t)) \in Nat /\ Cardinality(Newer(s)) \in Nat
           /\ Cardinality(Newer(t)) < Cardinality(Newer(s))
<1>1. IsFiniteSet(Newer(s)) /\ IsFiniteSet(Newer(t))
    BY InstantsFinite DEF Newer
<1>2. Newer(t) \subseteq Newer(s) /\ t \in Newer(s) /\ t \notin Newer(t)
    BY OlderAreNumbers DEF Newer
<1>3. Cardinality(Newer(t)) <= Cardinality(Newer(s))
      /\ (Cardinality(Newer(t)) = Cardinality(Newer(s)) => Newer(t) = Newer(s))
    BY <1>1, <1>2, FS_Subset
<1>4. Cardinality(Newer(t)) \in Nat /\ Cardinality(Newer(s)) \in Nat
    BY <1>1, FS_CardinalityType
<1> QED
    BY <1>2, <1>3, <1>4

\* Of a round of the page, all newer ones are in the page too.
LEMMA PageIsNewest ==
    ASSUME Older \subseteq Instants, NEW n \in Nat, NEW s \in Newest(n), NEW t \in Older, t >= s
    PROVE  t \in Newest(n)
<1>1. s \in Older /\ Cardinality(Newer(s)) < n /\ s \in Int /\ t \in Int
    BY NewestCounts, OlderAreNumbers
<1>2. CASE t = s
    BY <1>2
<1>3. CASE t # s
  <2>1. s < t
    BY <1>1, <1>3
  <2>2. Cardinality(Newer(t)) < n
    BY <1>1, <2>1, FewerAreNewer
  <2> QED
    BY <2>2, NewestCounts
<1> QED
    BY <1>2, <1>3

LEMMA PageIsNotEmpty ==
    ASSUME Older \subseteq Instants, Older # {}, NEW n \in Nat \ {0}
    PROVE  Newest(n) # {}
<1>1. PICK g : g = Greatest(Older)
    OBVIOUS
<1>2. g \in Older /\ \A t \in Older : g >= t
    BY <1>1, GreatestIsThere, RollupBoundsAssumption DEF Instants
<1>3. Newer(g) = {}
    BY <1>2, OlderAreNumbers DEF Newer
<1>4. Cardinality(Newer(g)) = 0
    BY <1>3, FS_EmptySet
<1> QED
    BY <1>2, <1>4, NewestCounts

\* When there is no more than a page, the page is all there is.
LEMMA LastPageIsAll ==
    ASSUME Older \subseteq Instants, NEW n \in Nat, Cardinality(Newest(n + 1)) <= n
    PROVE  Older \subseteq Newest(n)
<1> SUFFICES ASSUME NEW t \in Older, t \notin Newest(n) PROVE FALSE
    OBVIOUS
<1> DEFINE N == Newest(n + 1)
           Rest == Older \ N
<1>1. N \subseteq Older /\ IsFiniteSet(N) /\ Cardinality(N) \in Nat
  <2>1. N \subseteq Older
    BY NewestCounts
  <2>2. IsFiniteSet(N)
    BY <2>1, InstantsFinite
  <2> QED
    BY <2>1, <2>2, FS_CardinalityType
<1>2. ~(Cardinality(Newer(t)) < n) /\ Cardinality(Newer(t)) \in Nat
  <2>1. IsFiniteSet(Newer(t))
    BY InstantsFinite DEF Newer
  <2> QED
    BY <2>1, NewestCounts, FS_CardinalityType
<1>3. CASE t \in N
  <2>1. Newer(t) \subseteq N
    <3> SUFFICES ASSUME NEW u \in Newer(t) PROVE u \in N
      OBVIOUS
    <3>1. u \in Older /\ u >= t
      BY OlderAreNumbers DEF Newer
    <3>2. n + 1 \in Nat
      OBVIOUS
    <3> QED
      BY <1>3, <3>1, <3>2, PageIsNewest
  <2>2. Newer(t) \cup {t} \subseteq N /\ t \notin Newer(t) /\ IsFiniteSet(Newer(t))
    BY <1>3, <2>1, InstantsFinite, OlderAreNumbers DEF Newer
  <2>3. Cardinality(Newer(t) \cup {t}) = Cardinality(Newer(t)) + 1
    BY <2>2, FS_AddElement
  <2>4. Cardinality(Newer(t) \cup {t}) <= Cardinality(N)
    BY <1>1, <2>2, FS_Subset
  <2> QED
    BY <1>1, <1>2, <2>3, <2>4
<1>4. CASE t \notin N
  <2>1. Rest # {} /\ Rest \subseteq 0..MaxNow
    BY <1>4 DEF Instants
  <2>2. PICK s : s = Greatest(Rest)
    OBVIOUS
  <2>3. s \in Rest /\ \A u \in Rest : s >= u
    BY <2>1, <2>2, GreatestIsThere, RollupBoundsAssumption
  <2>4. Newer(s) \subseteq N
    BY <2>3, OlderAreNumbers DEF Newer
  <2>5. Cardinality(Newer(s)) <= Cardinality(N)
    BY <1>1, <2>4, FS_Subset
  <2>6. Cardinality(Newer(s)) \in Nat
    BY <1>1, <2>4, FS_Subset, FS_CardinalityType
  <2>7. ~(Cardinality(Newer(s)) < n + 1)
    BY <2>3, NewestCounts
  <2> QED
    BY <1>1, <2>5, <2>6, <2>7
<1> QED
    BY <1>3, <1>4

LEMMA PagesInit == SeriesInit => PagesInv
BY DEF SeriesInit, PagesInv

LEMMA NextPageKeeps ==
    ASSUME BucketsInv, PagesInv, NextPage
    PROVE  PagesInv'
<1>1. /\ reading = "pages" /\ asked.pair \in Pairs /\ asked.maxPoints \in Nat \ {0}
      /\ cursor \in Nat /\ UNCHANGED <<stored, raw>>
    BY DEF NextPage, PagesInv, database
<1>2. Older \subseteq Instants
    BY <1>1 DEF Older, BucketsInv, RollupType
<1>3. CASE HasMore
  <2>1. /\ reading' = reading /\ asked' = asked /\ cursor' = Least(Page)
        /\ seen' = seen \cup Page /\ owed' = owed \ Page
    BY <1>3 DEF NextPage, NextCursor
  <2>2. Page \subseteq Older /\ Older \subseteq Nat /\ Page # {}
    <3>1. Page \subseteq Older
      BY NewestCounts DEF Page
    <3>2. Older # {}
      <4>1. SUFFICES ASSUME Older = {} PROVE FALSE
        OBVIOUS
      <4>2. Newest(asked.maxPoints + 1) = {}
        BY <4>1, NewestCounts
      <4>3. Cardinality(Newest(asked.maxPoints + 1)) = 0
        BY <4>2, FS_EmptySet
      <4> QED
        BY <1>1, <1>3, <4>3 DEF HasMore
    <3> QED
      BY <1>1, <1>2, <3>1, <3>2, PageIsNotEmpty DEF Page, Instants
  <2>3. PICK l : l = Least(Page)
    OBVIOUS
  <2>4. l \in Page /\ \A t \in Page : l <= t
    BY <2>2, <2>3, LeastIsThere
  <2>5. l \in Nat /\ l < cursor
    BY <2>2, <2>4 DEF Older
  <2>6. \A t \in seen' : t \in Nat /\ t >= l
    <3>1. \A t \in seen : t \in Nat /\ t >= cursor
      BY <1>1 DEF PagesInv
    <3>2. \A t \in seen : t \in Nat /\ t >= l
      BY <1>1, <2>5, <3>1
    <3>3. \A t \in Page : t \in Nat /\ t >= l
      BY <2>2, <2>4, <2>5
    <3> QED
      BY <2>1, <3>2, <3>3
  <2>7. ASSUME NEW t \in owed \ Page, t \in raw[asked.pair] PROVE t < l
    <3>1. t \in Older
      BY <1>1, <2>7 DEF PagesInv, Older
    <3>2. ~(t >= l)
      BY <1>1, <1>2, <2>4, <2>7, <3>1, PageIsNewest DEF Page
    <3> QED
      BY <2>2, <2>5, <3>1, <3>2
  <2> QED
    BY <1>1, <2>1, <2>3, <2>5, <2>6, <2>7 DEF PagesInv
<1>4. CASE ~HasMore
    BY <1>4 DEF NextPage, PagesInv
<1> QED
    BY <1>3, <1>4

LEMMA PagesStep ==
    ASSUME BucketsInv, PagesInv, [SeriesNext]_<<vars, reader>>
    PROVE  PagesInv'
<1>1. CASE UNCHANGED reader
  <2>1. UNCHANGED <<reading, asked, cursor, seen, owed>>
    BY <1>1 DEF reader
  <2>2. \A p \in Pairs : stored[p] \subseteq stored'[p] /\ raw'[p] \cap stored[p] \subseteq raw[p]
    BY DatabaseSteps, RoundsStay
  <2>3. CASE reading = "pages"
    <3>1. PICK p : p = asked.pair
      OBVIOUS
    <3>2. p \in Pairs /\ owed \subseteq stored[p] /\ \A t \in owed \cap raw[p] : t < cursor
      BY <2>3, <3>1 DEF PagesInv
    <3>3. owed' \subseteq stored'[p] /\ \A t \in owed' \cap raw'[p] : t < cursor'
      BY <2>1, <2>2, <3>2
    <3> QED
      BY <2>1, <2>3, <3>1, <3>3 DEF PagesInv
  <2>4. CASE reading # "pages"
    BY <2>1, <2>4 DEF PagesInv
  <2> QED
    BY <2>3, <2>4
<1>2. CASE \E p \in Pairs, limit \in Limits : AskPages(p, limit)
  <2>1. PICK p \in Pairs, limit \in Limits : AskPages(p, limit)
    BY <1>2
  <2>2. /\ reading = "nothing" /\ reading' = "pages" /\ asked'.pair = p /\ asked'.maxPoints = limit
        /\ owed' = raw[p] /\ UNCHANGED <<stored, raw, cursor, seen>>
    BY <2>1 DEF AskPages, Nothing, database
  <2>3. cursor = MaxNow + 1 /\ seen = {}
    BY <2>2 DEF PagesInv
  <2>4. limit \in Nat \ {0} /\ MaxNow \in Nat
    BY RequestsAssumption, RollupBoundsAssumption
  <2>5. raw[p] \subseteq stored[p] /\ \A t \in raw[p] : t < MaxNow + 1
    BY <2>4 DEF BucketsInv, RollupType, Instants
  <2> QED
    BY <2>2, <2>3, <2>4, <2>5 DEF PagesInv
<1>3. CASE NextPage
    BY <1>3, NextPageKeeps
<1>4. CASE (\E p \in Pairs, q \in Requests : AskSeries(p, q)) \/ ReadBuckets \/ EndSeries
  <2>1. reading # "pages" /\ reading' # "pages" /\ UNCHANGED <<cursor, seen>>
    BY <1>4 DEF AskSeries, ReadBuckets, EndSeries
  <2> QED
    BY <2>1 DEF PagesInv
<1> QED
    BY <1>1, <1>2, <1>3, <1>4 DEF SeriesNext, ReaderStep

LEMMA PagesFollow == BucketsInv /\ PagesInv => PagesExact
<1> SUFFICES ASSUME BucketsInv, PagesInv, reading = "pages" PROVE PagesExact
    BY DEF PagesExact
<1>1. /\ asked.pair \in Pairs /\ asked.maxPoints \in Nat \ {0} /\ cursor \in Nat
      /\ \A t \in seen : t \in Nat /\ t >= cursor
      /\ \A t \in owed \cap raw[asked.pair] : t < cursor
    BY DEF PagesInv
<1>2. Older \subseteq Instants
    BY <1>1 DEF Older, BucketsInv, RollupType
<1>3. Page \cap seen = {}
  <2>1. \A t \in Page : t < cursor /\ t \in Nat
    BY <1>2, NewestCounts DEF Page, Older, Instants
  <2> QED
    BY <1>1, <2>1
<1>4. ~HasMore => owed \cap raw[asked.pair] \subseteq Page
  <2> SUFFICES ASSUME ~HasMore PROVE owed \cap raw[asked.pair] \subseteq Page
    OBVIOUS
  <2>1. Cardinality(Newest(asked.maxPoints + 1)) <= asked.maxPoints
    <3>1. Newest(asked.maxPoints + 1) \subseteq Instants
      BY <1>2, NewestCounts
    <3>2. Cardinality(Newest(asked.maxPoints + 1)) \in Nat
      BY <3>1, InstantsFinite, FS_CardinalityType
    <3> QED
      BY <1>1, <3>2 DEF HasMore
  <2>2. Older \subseteq Page
    BY <1>1, <1>2, <2>1, LastPageIsAll DEF Page
  <2> QED
    BY <1>1, <2>2 DEF Older
<1> QED
    BY <1>1, <1>3, <1>4 DEF PagesExact

\* No page of rounds repeats one, and together the pages return what was there from the first
\* to the last of them (api.rs:1553-1627), whatever is stored and deleted between the pages.
THEOREM NoPageLoses == SeriesSpec => []PagesExact
<1>1. SeriesInit => BucketsInv /\ PagesInv
    BY BucketsInit, PagesInit DEF SeriesInit
<1>2. BucketsInv /\ PagesInv /\ [SeriesNext]_<<vars, reader>> => BucketsInv' /\ PagesInv'
    BY DatabaseSteps, BucketsStep, PagesStep
<1> QED
    BY <1>1, <1>2, PagesFollow, PTL DEF SeriesSpec

-----------------------------------------------------------------------------
(***************************************************************************)
(* Where points lie.                                                       *)
(***************************************************************************)

LEMMA Division ==
    ASSUME NEW a \in Nat, NEW w \in Nat \ {0}
    PROVE  a \div w \in Nat /\ (a \div w) * w <= a /\ a < (a \div w) * w + w
<1>1. PICK q : q = a \div w
    OBVIOUS
<1>2. q \in Nat /\ a = w * q + (a % w) /\ a % w \in Nat /\ a % w < w
    BY <1>1
<1>3. q * w \in Nat /\ q * w = w * q
    BY <1>2
<1> QED
    BY <1>1, <1>2, <1>3

LEMMA ProductsOrdered ==
    ASSUME NEW m \in Nat, NEW n \in Nat, NEW w \in Nat \ {0}
    PROVE  (m <= n => m * w <= n * w) /\ (m < n => m * w + w <= n * w)
<1>1. m * w \in Nat /\ n * w \in Nat
    OBVIOUS
<1>2. ASSUME m <= n PROVE m * w <= n * w
  <2>1. n - m \in Nat
    BY <1>2
  <2>2. n * w = m * w + (n - m) * w /\ (n - m) * w \in Nat
    BY <2>1
  <2> QED
    BY <1>1, <2>2
<1>3. ASSUME m < n PROVE m * w + w <= n * w
  <2>1. n - (m + 1) \in Nat
    BY <1>3
  <2>2. n * w = (m + 1) * w + (n - (m + 1)) * w /\ (n - (m + 1)) * w \in Nat
    BY <2>1
  <2>3. (m + 1) * w = m * w + w
    OBVIOUS
  <2> QED
    BY <1>1, <2>2, <2>3
<1> QED
    BY <1>2, <1>3

LEMMA DivisionUnique ==
    ASSUME NEW a \in Nat, NEW w \in Nat \ {0}, NEW q \in Nat, q * w <= a, a < q * w + w
    PROVE  a \div w = q
<1>1. PICK d : d = a \div w
    OBVIOUS
<1>2. d \in Nat /\ d * w <= a /\ a < d * w + w
    BY <1>1, Division
<1>3. q * w \in Nat /\ d * w \in Nat
    BY <1>2
<1>4. ~(d < q) /\ ~(q < d)
    BY <1>2, <1>3, ProductsOrdered
<1> QED
    BY <1>1, <1>2, <1>4

LEMMA Ceiling ==
    ASSUME NEW a \in Nat, NEW b \in Nat \ {0}
    PROVE  /\ CeilDiv(a, b) \in Nat /\ CeilDiv(a, b) * b >= a /\ CeilDiv(a, b) * b < a + b
           /\ a > 0 => CeilDiv(a, b) > 0
<1>1. PICK c : c = CeilDiv(a, b)
    OBVIOUS
<1>2. a + b - 1 \in Nat
    OBVIOUS
<1>3. c \in Nat /\ c * b <= a + b - 1 /\ a + b - 1 < c * b + b
    BY <1>1, <1>2, Division DEF CeilDiv
<1>4. c * b \in Nat /\ (c = 0 => c * b = 0)
    BY <1>3
<1> QED
    BY <1>1, <1>3, <1>4

LEMMA MaxOfTwo ==
    ASSUME NEW a \in Int, NEW b \in Int
    PROVE  /\ Max({a, b}) \in {a, b} /\ Max({a, b}) >= a /\ Max({a, b}) >= b
           /\ Min({a, b}) \in {a, b} /\ Min({a, b}) <= a /\ Min({a, b}) <= b
<1>1. \E x \in {a, b} : \A y \in {a, b} : x >= y
  <2>1. CASE a >= b
    BY <2>1
  <2>2. CASE ~(a >= b)
    BY <2>2
  <2> QED
    BY <2>1, <2>2
<1>2. \E x \in {a, b} : \A y \in {a, b} : x =< y
  <2>1. CASE a <= b
    BY <2>1
  <2>2. CASE ~(a <= b)
    BY <2>2
  <2> QED
    BY <2>1, <2>2
<1>3. Max({a, b}) \in {a, b} /\ \A y \in {a, b} : Max({a, b}) >= y
    BY <1>1 DEF Max
<1>4. Min({a, b}) \in {a, b} /\ \A y \in {a, b} : Min({a, b}) =< y
    BY <1>2 DEF Min
<1> QED
    BY <1>3, <1>4

\* Raw points are no more than asked for, and what comes after the last is near the end.
LEMMA RawLayoutFits ==
    ASSUME NEW first \in Nat, NEW end \in Nat, first < end, NEW n \in Nat \ {0},
           NEW layout, layout = RawLayout(first, end, n)
    PROVE  /\ layout.start = first /\ layout.width \in Nat \ {0}
           /\ layout.number \in Nat /\ layout.number <= n
           /\ \A t \in Nat : first <= t /\ t < end /\ t - first >= layout.number * layout.width
                => end - t < n
<1>1. PICK s, w, k : /\ s = (end - first) \div n
                     /\ w = Max({s, 1})
                     /\ k = CeilDiv(end - first, w)
    OBVIOUS
<1>2. end - first \in Nat /\ end - first > 0
    OBVIOUS
<1>3. s \in Nat /\ s * n <= end - first /\ end - first < s * n + n
    BY <1>1, <1>2, Division
<1>4. w \in Nat \ {0} /\ s <= w
  <2>1. s \in Int /\ 1 \in Int
    BY <1>3
  <2>2. w \in {s, 1} /\ w >= s /\ w >= 1
    BY <1>1, <2>1, MaxOfTwo
  <2> QED
    BY <1>3, <2>2
<1>5. k \in Nat /\ k * w >= end - first
    BY <1>1, <1>2, <1>4, Ceiling
<1>6. /\ layout.start = first /\ layout.width = w
      /\ layout.number = Min({k, n})
    BY <1>1 DEF RawLayout
<1>7. layout.number \in {k, n} /\ layout.number <= n
  <2>1. k \in Int /\ n \in Int
    BY <1>5
  <2>2. Min({k, n}) \in {k, n} /\ Min({k, n}) <= n
    BY <2>1, MaxOfTwo
  <2> QED
    BY <1>6, <2>2
<1>8. ASSUME NEW t \in Nat, first <= t, t < end, t - first >= layout.number * w
      PROVE  end - t < n
  <2>1. CASE layout.number = k
    <3>1. k * w \in Nat
      BY <1>4, <1>5
    <3> QED
      BY <1>2, <1>5, <1>8, <2>1, <3>1
  <2>2. CASE layout.number = n
    <3>1. CASE s = 0
      BY <1>2, <1>3, <1>8, <3>1
    <3>2. CASE s # 0
      <4>1. s * n <= w * n /\ w * n = n * w /\ n * w \in Nat /\ s * n \in Nat
        BY <1>3, <1>4, ProductsOrdered
      <4> QED
        BY <1>2, <1>3, <1>8, <2>2, <4>1
    <3> QED
      BY <3>1, <3>2
  <2> QED
    BY <1>7, <2>1, <2>2
<1> QED
    BY <1>4, <1>5, <1>6, <1>7, <1>8

\* Points of rows are no more than asked for, begin with a row, and reach to the end.
RowsFit(layout, first, end, n, res) ==
    /\ layout.start = BucketOf(first, res)
    /\ \E merge \in Nat \ {0} : layout.width = merge * res
    /\ layout.number \in Nat /\ layout.number <= n
    /\ layout.start + layout.number * layout.width >= end

LEMMA RowLayoutFits ==
    ASSUME NEW first \in Nat, NEW end \in Nat, first < end, NEW n \in Nat \ {0},
           NEW res \in Resolutions,
           NEW layout, layout = RowLayout(first, end, n, res)
    PROVE  RowsFit(layout, first, end, n, res)
<1>1. PICK a, base, merge, number :
        /\ a = BucketOf(first, res) /\ base = CeilDiv(end - a, res)
        /\ merge = CeilDiv(base, n) /\ number = CeilDiv(base, merge)
    OBVIOUS
<1>2. res \in Nat \ {0}
    BY ResolutionIsPositive
<1>3. a \in Nat /\ a <= first
    BY <1>1, BucketBegins
<1>4. end - a \in Nat /\ end - a > 0
    BY <1>3
<1>5. base \in Nat /\ base > 0 /\ base * res >= end - a
    BY <1>1, <1>2, <1>4, Ceiling
<1>6. merge \in Nat \ {0} /\ merge * n >= base
    BY <1>1, <1>5, Ceiling
<1>7. number \in Nat /\ number * merge >= base /\ number * merge < base + merge
    BY <1>1, <1>5, <1>6, Ceiling
<1>8. number <= n
  <2> SUFFICES ASSUME n < number PROVE FALSE
    BY <1>7
  <2>1. n * merge + merge <= number * merge
    BY <1>6, <1>7, ProductsOrdered
  <2>2. n * merge = merge * n /\ n * merge \in Nat /\ number * merge \in Nat
    BY <1>6, <1>7
  <2> QED
    BY <1>5, <1>6, <1>7, <2>1, <2>2
<1>9. layout.start = a /\ layout.width = merge * res /\ layout.number = number
    BY <1>1 DEF RowLayout, BucketOf
<1>10. a + number * (merge * res) >= end
  <2>1. PICK m : m = number * merge
    OBVIOUS
  <2>2. m \in Nat /\ m >= base
    BY <1>6, <1>7, <2>1
  <2>3. base * res <= m * res
    BY <1>2, <1>5, <2>2, ProductsOrdered
  <2>4. m * res = number * (merge * res)
    BY <1>2, <1>6, <1>7, <2>1
  <2>5. base * res \in Nat /\ m * res \in Nat
    BY <1>2, <1>5, <2>2
  <2> QED
    BY <1>3, <1>5, <2>3, <2>4, <2>5
<1> QED
    BY <1>1, <1>6, <1>7, <1>8, <1>9, <1>10 DEF RowsFit

-----------------------------------------------------------------------------
(***************************************************************************)
(* What points stand for.                                                  *)
(***************************************************************************)

LEMMA RoundsOfPoints ==
    /\ RoundsOf(Missing) = {}
    /\ \A S : RoundsOf(RawPoint(S)) = S /\ RoundsOf(RowPoint(S)) = S
<1>1. Missing.rounds = {}
    BY DEF Missing
<1>2. ASSUME NEW S PROVE RawPoint(S).rounds = {"raw"} \X S /\ RowPoint(S).rounds = {"row"} \X S
    BY DEF RawPoint, RowPoint
<1>3. ASSUME NEW S PROVE RoundsOf(RawPoint(S)) = S
  <2>1. RoundsOf(RawPoint(S)) = {tagged[2] : tagged \in {"raw"} \X S}
    BY <1>2 DEF RoundsOf
  <2>2. \A x \in S : <<"raw", x>> \in {"raw"} \X S /\ <<"raw", x>>[2] = x
    OBVIOUS
  <2>3. \A tagged \in {"raw"} \X S : tagged[2] \in S
    OBVIOUS
  <2> QED
    BY <2>1, <2>2, <2>3
<1>4. ASSUME NEW S PROVE RoundsOf(RowPoint(S)) = S
  <2>1. RoundsOf(RowPoint(S)) = {tagged[2] : tagged \in {"row"} \X S}
    BY <1>2 DEF RoundsOf
  <2>2. \A x \in S : <<"row", x>> \in {"row"} \X S /\ <<"row", x>>[2] = x
    OBVIOUS
  <2>3. \A tagged \in {"row"} \X S : tagged[2] \in S
    OBVIOUS
  <2> QED
    BY <2>1, <2>2, <2>3
<1>5. RoundsOf(Missing) = {}
    BY <1>1 DEF RoundsOf
<1> QED
    BY <1>3, <1>4, <1>5

\* A merged point stands for the rounds of all its points.
LEMMA RoundsOfMerged ==
    ASSUME NEW P, IsFiniteSet(P)
    PROVE  RoundsOf(Merged(P)) = UNION {RoundsOf(q) : q \in P}
<1>1. CASE P = {}
  <2>1. Cardinality(P) # 1
    BY <1>1, FS_EmptySet
  <2>2. Merged(P) = Missing
    BY <1>1, <2>1 DEF Merged
  <2> QED
    BY <1>1, <2>2, RoundsOfPoints
<1>2. CASE P # {} /\ Cardinality(P) = 1
  <2>1. PICK q : P = {q}
    BY <1>2, FS_Singleton
  <2>2. Merged(P) = CHOOSE x \in P : TRUE
    BY <1>2 DEF Merged
  <2>3. Merged(P) = q
    BY <2>1, <2>2
  <2> QED
    BY <2>1, <2>3
<1>3. CASE P # {} /\ Cardinality(P) # 1
  <2>1. Merged(P).rounds = UNION {q.rounds : q \in P}
    BY <1>3 DEF Merged
  <2> QED
    BY <2>1 DEF RoundsOf
<1> QED
    BY <1>1, <1>2, <1>3

-----------------------------------------------------------------------------
(***************************************************************************)
(* A series shows what there is.                                           *)
(***************************************************************************)

SeriesInv ==
    /\ reading \in {"raw", "buckets", "uncovered"} =>
        /\ asked.pair \in Pairs /\ asked.from \in Nat /\ asked.to \in Nat
        /\ asked.from < asked.to /\ asked.maxPoints \in Nat \ {0}
    /\ reading \in {"buckets", "uncovered"} => resolution \in Resolutions
    /\ reading = "uncovered" => \A b \in Instants :
        /\ rows[b] \subseteq Instants /\ \A t \in rows[b] : BucketOf(t, resolution) = b
        /\ rows[b] # {} => AlignedFrom <= b /\ b < asked.to

LEMMA SeriesInvInit == SeriesInit => SeriesInv
BY DEF SeriesInit, SeriesInv

LEMMA SeriesInvStep ==
    ASSUME BucketsInv, SeriesInv, [SeriesNext]_<<vars, reader>>
    PROVE  SeriesInv'
<1>1. CASE UNCHANGED reader
    BY <1>1 DEF reader, SeriesInv, AlignedFrom
<1>2. CASE \E p \in Pairs, q \in Requests : AskSeries(p, q)
  <2>1. PICK p \in Pairs, q \in Requests : AskSeries(p, q)
    BY <1>2
  <2>2. /\ asked' = [pair |-> p, from |-> q.from, to |-> q.to, maxPoints |-> q.maxPoints]
        /\ \/ reading' = "raw"
           \/ reading' = "buckets" /\ resolution' \in Resolutions
    BY <2>1 DEF AskSeries, Resolutions
  <2> QED
    BY <2>2, RequestsAssumption DEF SeriesInv
<1>3. CASE ReadBuckets
  <2>1. /\ reading = "buckets" /\ reading' = "uncovered" /\ UNCHANGED <<asked, resolution>>
        /\ rows' = [b \in Instants |->
             IF AlignedFrom <= b /\ b < asked.to THEN rollup[asked.pair][resolution][b] ELSE {}]
    BY <1>3 DEF ReadBuckets
  <2>2. asked.pair \in Pairs /\ resolution \in Resolutions
    BY <2>1 DEF SeriesInv
  <2>3. AlignedFrom' = AlignedFrom
    BY <2>1 DEF AlignedFrom
  <2>4. ASSUME NEW b \in Instants
        PROVE  /\ rows'[b] \subseteq Instants /\ \A t \in rows'[b] : BucketOf(t, resolution) = b
               /\ rows'[b] # {} => AlignedFrom <= b /\ b < asked.to
    <3>1. /\ rollup[asked.pair][resolution][b] \subseteq Instants
          /\ \A t \in rollup[asked.pair][resolution][b] : BucketOf(t, resolution) = b
      BY <2>2 DEF BucketsInv, BucketsSound, RollupType
    <3> QED
      BY <2>1, <3>1
  <2> QED
    BY <2>1, <2>3, <2>4 DEF SeriesInv
<1>4. CASE EndSeries \/ NextPage \/ \E p \in Pairs, limit \in Limits : AskPages(p, limit)
  <2>1. reading' \in {"nothing", "pages"}
    BY <1>4 DEF EndSeries, AskPages, NextPage
  <2> QED
    BY <2>1 DEF SeriesInv
<1> QED
    BY <1>1, <1>2, <1>3, <1>4 DEF SeriesNext, ReaderStep

\* The rounds of some points, and that each lies where its rounds do.
ShownBy(points) == UNION {RoundsOf(points[i]) : i \in DOMAIN points}
InPlace(points, start, width) ==
    \A i \in DOMAIN points : \A t \in RoundsOf(points[i]) :
        start + i * width <= t /\ t < start + (i + 1) * width

LEMMA RawPointsShow ==
    ASSUME BucketsInv, SeriesInv, reading = "raw"
    PROVE  /\ RawPoints.layout.number <= asked.maxPoints
           /\ InPlace(RawPoints.points, RawPoints.layout.start, RawPoints.layout.width)
           /\ \A t \in Between(raw[asked.pair], asked.from, asked.to) \ ShownBy(RawPoints.points) :
                asked.to - t < asked.maxPoints
<1>1. /\ asked.pair \in Pairs /\ asked.from \in Nat /\ asked.to \in Nat
      /\ asked.from < asked.to /\ asked.maxPoints \in Nat \ {0}
    BY DEF SeriesInv
<1>2. PICK layout : layout = RawLayout(asked.from, asked.to, asked.maxPoints)
    OBVIOUS
<1>3. PICK rounds : rounds = Between(raw[asked.pair], asked.from, asked.to)
    OBVIOUS
<1>4. PICK w, k, a : w = layout.width /\ k = layout.number /\ a = asked.from
    OBVIOUS
<1>5. /\ layout.start = a /\ w \in Nat \ {0} /\ k \in Nat /\ k <= asked.maxPoints
      /\ \A t \in Nat : a <= t /\ t < asked.to /\ t - a >= k * w => asked.to - t < asked.maxPoints
    BY <1>1, <1>2, <1>4, RawLayoutFits
<1>6. \A t \in rounds : t \in Nat /\ a <= t /\ t < asked.to
    BY <1>1, <1>3, <1>4 DEF Between, BucketsInv, RollupType, Instants
<1>7. /\ RawPoints.layout = layout
      /\ RawPoints.points = [i \in 0..(k - 1) |->
            IF {t \in rounds : IndexOf(t, layout) = i} = {} THEN Missing
            ELSE RawPoint({t \in rounds : IndexOf(t, layout) = i})]
    BY <1>2, <1>3, <1>4 DEF RawPoints
<1>8. PICK points : points = RawPoints.points
    OBVIOUS
<1>9. DOMAIN points = 0..(k - 1)
    BY <1>7, <1>8
<1>10. \A i \in 0..(k - 1) : RoundsOf(points[i]) = {t \in rounds : IndexOf(t, layout) = i}
    BY <1>7, <1>8, RoundsOfPoints
<1>11. \A t \in rounds : IndexOf(t, layout) \in Nat /\ a + IndexOf(t, layout) * w <= t
                         /\ t < a + IndexOf(t, layout) * w + w
  <2> SUFFICES ASSUME NEW t \in rounds
               PROVE  IndexOf(t, layout) \in Nat /\ a + IndexOf(t, layout) * w <= t
                      /\ t < a + IndexOf(t, layout) * w + w
    OBVIOUS
  <2>1. PICK q : q = IndexOf(t, layout)
    OBVIOUS
  <2>2. q = (t - a) \div w
    BY <1>4, <1>5, <2>1 DEF IndexOf
  <2>3. t - a \in Nat /\ a \in Nat /\ t \in Nat
    BY <1>1, <1>4, <1>6
  <2>4. q \in Nat /\ q * w <= t - a /\ t - a < q * w + w
    BY <1>5, <2>2, <2>3, Division
  <2>5. q * w \in Nat
    BY <1>5, <2>4
  <2> QED
    BY <1>5, <2>1, <2>3, <2>4, <2>5
<1>12. ASSUME NEW i \in DOMAIN points, NEW t \in RoundsOf(points[i])
       PROVE  a + i * w <= t /\ t < a + (i + 1) * w
  <2>1. t \in rounds /\ IndexOf(t, layout) = i /\ i \in Nat
    BY <1>9, <1>10
  <2>2. (i + 1) * w = i * w + w /\ i * w \in Nat /\ a \in Nat
    BY <1>1, <1>4, <1>5, <2>1
  <2> QED
    BY <1>5, <1>11, <2>1, <2>2
<1>13. ASSUME NEW t \in rounds, t \notin ShownBy(points)
       PROVE  asked.to - t < asked.maxPoints
  <2>1. PICK q : q = IndexOf(t, layout)
    OBVIOUS
  <2>2. q \in Nat /\ a + q * w <= t
    BY <1>11, <2>1
  <2>3. ~(q < k)
    BY <1>5, <1>9, <1>10, <1>13, <2>1, <2>2 DEF ShownBy
  <2>4. k * w <= q * w /\ k * w \in Nat /\ q * w \in Nat
    BY <1>5, <2>2, <2>3, ProductsOrdered
  <2>5. t \in Nat /\ a \in Nat /\ a <= t /\ t < asked.to
    BY <1>1, <1>4, <1>6
  <2>6. t - a >= k * w
    BY <2>2, <2>4, <2>5
  <2> QED
    BY <1>5, <2>5, <2>6
<1>14. InPlace(points, a, w)
    BY <1>12 DEF InPlace
<1> QED
    BY <1>3, <1>4, <1>5, <1>7, <1>8, <1>13, <1>14

\* The points of rows that lie at place i, with the rows and the rounds without one.
PointsAt(i, layout, uncovered) ==
    {RowPoint(rows[b]) : b \in {c \in {d \in Instants : rows[d] # {}} : IndexOf(c, layout) = i}}
        \cup {RawPoint({t \in uncovered : BucketOf(t, resolution) = b}) :
                b \in {c \in {BucketOf(t, resolution) : t \in uncovered} : IndexOf(c, layout) = i}}

LEMMA ImageIsFinite ==
    ASSUME NEW f, IsFiniteSet(DOMAIN f), f = [x \in DOMAIN f |-> f[x]]
    PROVE  IsFiniteSet({f[x] : x \in DOMAIN f})
<1>1. f \in Surjection(DOMAIN f, {f[x] : x \in DOMAIN f})
    BY DEF Surjection
<1> QED
    BY <1>1, FS_Surjection

\* The rounds of a place are those of the rows and of the bare buckets that lie there.
LEMMA RoundsAtPlace ==
    ASSUME resolution \in Resolutions, NEW uncovered, uncovered \subseteq Instants,
           NEW layout, NEW i
    PROVE  \A t : t \in RoundsOf(Merged(PointsAt(i, layout, uncovered))) <=>
               \/ \E b \in Instants : t \in rows[b] /\ IndexOf(b, layout) = i
               \/ t \in uncovered /\ IndexOf(BucketOf(t, resolution), layout) = i
<1> DEFINE R == {c \in {d \in Instants : rows[d] # {}} : IndexOf(c, layout) = i}
           B == {c \in {BucketOf(t, resolution) : t \in uncovered} : IndexOf(c, layout) = i}
           Alone(b) == {t \in uncovered : BucketOf(t, resolution) = b}
           f == [b \in R |-> RowPoint(rows[b])]
           g == [b \in B |-> RawPoint(Alone(b))]
           P == PointsAt(i, layout, uncovered)
<1>1. R \subseteq Instants /\ B \subseteq Instants
  <2>1. ASSUME NEW t \in uncovered PROVE BucketOf(t, resolution) \in Instants
    <3>1. t \in Nat /\ t <= MaxNow /\ MaxNow \in Nat
      BY RollupBoundsAssumption DEF Instants
    <3>2. BucketOf(t, resolution) \in Nat /\ BucketOf(t, resolution) <= t
      BY <3>1, BucketBegins
    <3>3. PICK b : b = BucketOf(t, resolution)
      OBVIOUS
    <3> QED
      BY <3>1, <3>2, <3>3 DEF Instants
  <2> QED
    BY <2>1
<1>2. IsFiniteSet(R) /\ IsFiniteSet(B)
    BY <1>1, InstantsFinite
<1>3. /\ DOMAIN f = R /\ DOMAIN g = B
      /\ f = [x \in DOMAIN f |-> f[x]] /\ g = [x \in DOMAIN g |-> g[x]]
      /\ \A b \in R : f[b] = RowPoint(rows[b])
      /\ \A b \in B : g[b] = RawPoint(Alone(b))
    OBVIOUS
<1>4. P = {f[b] : b \in DOMAIN f} \cup {g[b] : b \in DOMAIN g}
    BY DEF PointsAt
<1>5. \A b \in R : RoundsOf(f[b]) = rows[b]
    BY <1>3, RoundsOfPoints
<1>6. \A b \in B : RoundsOf(g[b]) = Alone(b)
    BY <1>3, RoundsOfPoints
<1>7. \A b \in R : b \in Instants /\ rows[b] # {} /\ IndexOf(b, layout) = i
    OBVIOUS
<1>8. \A b \in Instants : rows[b] # {} /\ IndexOf(b, layout) = i => b \in R
    OBVIOUS
<1>9. \A b \in B : IndexOf(b, layout) = i
    OBVIOUS
<1>10. \A t \in uncovered : IndexOf(BucketOf(t, resolution), layout) = i
            => BucketOf(t, resolution) \in B
    OBVIOUS
<1>11. \A b, t : t \in Alone(b) <=> t \in uncovered /\ BucketOf(t, resolution) = b
    OBVIOUS
<1> HIDE DEF R, B, f, g, P, Alone
<1>12. IsFiniteSet(P)
  <2>1. IsFiniteSet({f[b] : b \in DOMAIN f}) /\ IsFiniteSet({g[b] : b \in DOMAIN g})
    BY <1>2, <1>3, ImageIsFinite
  <2> QED
    BY <1>4, <2>1, FS_Union
<1>13. RoundsOf(Merged(P)) = UNION {RoundsOf(q) : q \in P}
    BY <1>12, RoundsOfMerged
<1>14. \A t : t \in RoundsOf(Merged(P)) <=>
                (\E b \in R : t \in rows[b]) \/ (\E b \in B : t \in Alone(b))
  <2>1. \A t : t \in RoundsOf(Merged(P)) <=>
            (\E b \in R : t \in RoundsOf(f[b])) \/ (\E b \in B : t \in RoundsOf(g[b]))
    BY <1>3, <1>4, <1>13
  <2> QED
    BY <1>5, <1>6, <2>1
<1>15. \A t : (\E b \in R : t \in rows[b]) <=>
                (\E b \in Instants : t \in rows[b] /\ IndexOf(b, layout) = i)
    BY <1>7, <1>8
<1>16. \A t : (\E b \in B : t \in Alone(b)) <=>
                (t \in uncovered /\ IndexOf(BucketOf(t, resolution), layout) = i)
    BY <1>9, <1>10, <1>11
<1> QED
    BY <1>14, <1>15, <1>16 DEF P

LEMMA RowPointsShow ==
    ASSUME BucketsInv, SeriesInv, reading = "uncovered"
    PROVE  /\ RowPoints.layout.number <= asked.maxPoints
           /\ InPlace(RowPoints.points, RowPoints.layout.start, RowPoints.layout.width)
           /\ \A t \in Between(raw[asked.pair], asked.from, asked.to) \ ShownBy(RowPoints.points) :
                LET row == rollup[asked.pair][resolution][BucketOf(t, resolution)]
                IN  row # {} /\ (t \in row => rows[BucketOf(t, resolution)] # row)
<1>1. /\ asked.pair \in Pairs /\ asked.from \in Nat /\ asked.to \in Nat
      /\ asked.from < asked.to /\ asked.maxPoints \in Nat \ {0} /\ resolution \in Resolutions
      /\ \A b \in Instants :
            /\ rows[b] \subseteq Instants /\ \A t \in rows[b] : BucketOf(t, resolution) = b
            /\ rows[b] # {} => AlignedFrom <= b /\ b < asked.to
    BY DEF SeriesInv
<1>2. PICK layout : layout = RowLayout(asked.from, asked.to, asked.maxPoints, resolution)
    OBVIOUS
<1>3. PICK res, a, w, k : /\ res = resolution /\ a = AlignedFrom
                          /\ w = layout.width /\ k = layout.number
    OBVIOUS
<1>4. res \in Nat \ {0} /\ res \in Resolutions
    BY <1>1, <1>3, ResolutionIsPositive
<1>5. /\ layout.start = a /\ k \in Nat /\ k <= asked.maxPoints /\ a + k * w >= asked.to
      /\ \E merge \in Nat \ {0} : w = merge * res
  <2>1. /\ layout.start = BucketOf(asked.from, resolution)
        /\ \E merge \in Nat \ {0} : layout.width = merge * resolution
        /\ layout.number \in Nat /\ layout.number <= asked.maxPoints
        /\ layout.start + layout.number * layout.width >= asked.to
    <3>1. PICK first, end, n :
            first = asked.from /\ end = asked.to /\ n = asked.maxPoints
      OBVIOUS
    <3>2. /\ first \in Nat /\ end \in Nat /\ first < end /\ n \in Nat \ {0} /\ res \in Resolutions
          /\ layout = RowLayout(first, end, n, res)
      BY <1>1, <1>2, <1>3, <3>1
    <3>3. RowsFit(layout, first, end, n, res)
      BY <3>2, RowLayoutFits
    <3> QED
      BY <1>3, <3>1, <3>3 DEF RowsFit
  <2> QED
    BY <1>3, <2>1 DEF AlignedFrom
<1>6. PICK merge \in Nat \ {0} : w = merge * res
    BY <1>5
<1>7. w \in Nat \ {0}
    BY <1>4, <1>6
<1>8. a \in Nat /\ a <= asked.from /\ Begins(a, res)
    BY <1>1, <1>3, BucketBegins, BucketIsBeginning DEF AlignedFrom
<1>9. PICK uncovered : uncovered = Uncovered
    OBVIOUS
<1>10. /\ uncovered \subseteq Instants
       /\ \A t \in uncovered : t \in Nat /\ a <= t /\ t < asked.to
    BY <1>1, <1>3, <1>9 DEF Uncovered, Between, BucketsInv, RollupType, Instants
<1>11. /\ RowPoints.layout = layout
       /\ RowPoints.points = [i \in 0..(k - 1) |-> Merged(PointsAt(i, layout, uncovered))]
    BY <1>2, <1>3, <1>9 DEF RowPoints, PointsAt
<1>12. PICK points : points = RowPoints.points
    OBVIOUS
<1>13. DOMAIN points = 0..(k - 1)
    BY <1>11, <1>12
<1>14. \A i \in 0..(k - 1) : \A t : t \in RoundsOf(points[i]) <=>
               \/ \E b \in Instants : t \in rows[b] /\ IndexOf(b, layout) = i
               \/ t \in uncovered /\ IndexOf(BucketOf(t, res), layout) = i
    BY <1>1, <1>3, <1>10, <1>11, <1>12, RoundsAtPlace
\* A bucket lies whole in the place of its beginning.
<1>15. ASSUME NEW b \in Nat, Begins(b, res), a <= b, b < asked.to
       PROVE  /\ IndexOf(b, layout) \in 0..(k - 1)
              /\ a + IndexOf(b, layout) * w <= b
              /\ b + res <= a + IndexOf(b, layout) * w + w
  <2>1. PICK q : q = IndexOf(b, layout)
    OBVIOUS
  <2>2. q = (b - a) \div w /\ b - a \in Nat
    <3>1. q = (b - a) \div w
      BY <1>3, <1>5, <2>1 DEF IndexOf
    <3>2. b - a \in Nat
      BY <1>8, <1>15
    <3> QED
      BY <3>1, <3>2
  <2>3. q \in Nat /\ q * w <= b - a /\ b - a < q * w + w
    BY <1>7, <2>2, Division
  <2>4. q * w \in Nat
    BY <1>7, <2>3
  <2>5. q < k
    <3> SUFFICES ASSUME k <= q PROVE FALSE
      BY <1>5, <2>3
    <3>1. k * w <= q * w /\ k * w \in Nat
      BY <1>5, <1>7, <2>3, ProductsOrdered
    <3> QED
      BY <1>1, <1>5, <1>8, <1>15, <2>3, <2>4, <3>1
  <2>6. PICK e : e = a + q * w + w
    OBVIOUS
  <2>7. Begins(e, res)
    <3>1. PICK x : x = a \div res
      OBVIOUS
    <3>2. x \in Nat /\ a = x * res
      BY <1>4, <1>8, <3>1, Division DEF Begins, BucketOf
    <3>3. PICK y : y = x + q * merge + merge
      OBVIOUS
    <3>4. q * merge \in Nat /\ y \in Nat
      BY <1>6, <2>3, <3>2, <3>3
    <3>5. y * res = x * res + (q * merge) * res + merge * res
      BY <1>4, <1>6, <3>2, <3>3, <3>4
    <3>6. (q * merge) * res = q * w
      BY <1>4, <1>6, <2>3
    <3>7. e = y * res /\ e \in Nat
      BY <1>4, <1>6, <1>7, <1>8, <2>4, <2>6, <3>2, <3>5, <3>6
    <3>8. e \div res = y
      <4>1. y * res <= e /\ e < y * res + res
        BY <1>4, <3>7
      <4> QED
        BY <1>4, <3>4, <3>7, <4>1, DivisionUnique
    <3> QED
      BY <3>7, <3>8 DEF Begins, BucketOf
  <2>8. b < e
    BY <1>7, <1>8, <1>15, <2>3, <2>4, <2>6
  <2>9. b + res <= e
    BY <1>4, <1>15, <2>7, <2>8, BeginningsApart
  <2> QED
    BY <1>5, <1>7, <1>8, <1>15, <2>1, <2>3, <2>4, <2>5, <2>6, <2>9
<1>16. ASSUME NEW t \in Nat, a <= t, t < asked.to
       PROVE  /\ BucketOf(t, res) \in Nat /\ Begins(BucketOf(t, res), res)
              /\ a <= BucketOf(t, res) /\ BucketOf(t, res) <= t /\ t < BucketOf(t, res) + res
              /\ BucketOf(t, res) < asked.to
  <2>1. PICK b : b = BucketOf(t, res)
    OBVIOUS
  <2>2. b \in Nat /\ Begins(b, res) /\ b <= t /\ t < b + res
    BY <1>4, <2>1, BucketBegins, BucketIsBeginning
  <2>3. BucketOf(a, res) <= b
    BY <1>4, <1>8, <1>16, <2>1, BucketMonotone
  <2>4. a <= b
    BY <1>8, <2>3 DEF Begins
  <2> QED
    BY <1>1, <1>16, <2>1, <2>2, <2>4
<1>17. ASSUME NEW i \in DOMAIN points, NEW t \in RoundsOf(points[i])
       PROVE  a + i * w <= t /\ t < a + (i + 1) * w
  <2>1. i \in Nat /\ i * w \in Nat /\ (i + 1) * w = i * w + w
    BY <1>7, <1>13
  <2>2. \E b \in Nat : /\ Begins(b, res) /\ a <= b /\ b < asked.to /\ IndexOf(b, layout) = i
                       /\ t \in Nat /\ b <= t /\ t < b + res
    <3>1. CASE \E b \in Instants : t \in rows[b] /\ IndexOf(b, layout) = i
      <4>1. PICK b \in Instants : t \in rows[b] /\ IndexOf(b, layout) = i
        BY <3>1
      <4>2. t \in Instants /\ BucketOf(t, res) = b /\ a <= b /\ b < asked.to
        BY <1>1, <1>3, <4>1
      <4>3. t \in Nat /\ b \in Nat
        BY <4>1, <4>2 DEF Instants
      <4>4. b <= t /\ t < b + res /\ Begins(b, res)
        BY <1>4, <4>2, <4>3, BucketBegins, BucketIsBeginning
      <4> QED
        BY <4>1, <4>2, <4>3, <4>4
    <3>2. CASE t \in uncovered /\ IndexOf(BucketOf(t, res), layout) = i
      BY <1>10, <1>16, <3>2
    <3> QED
      BY <1>13, <1>14, <3>1, <3>2
  <2>3. PICK b \in Nat : /\ Begins(b, res) /\ a <= b /\ b < asked.to /\ IndexOf(b, layout) = i
                         /\ t \in Nat /\ b <= t /\ t < b + res
    BY <2>2
  <2>4. a + i * w <= b /\ b + res <= a + i * w + w
    BY <1>15, <2>3
  <2> QED
    BY <1>4, <1>7, <1>8, <2>1, <2>3, <2>4
<1>18. ASSUME NEW t \in Between(raw[asked.pair], asked.from, asked.to), t \notin ShownBy(points),
              NEW row, row = rollup[asked.pair][resolution][BucketOf(t, resolution)]
       PROVE  row # {} /\ (t \in row => rows[BucketOf(t, resolution)] # row)
  <2>1. t \in raw[asked.pair] /\ t \in Nat /\ t \in Instants /\ a <= t /\ t < asked.to
    BY <1>1, <1>8 DEF Between, BucketsInv, RollupType, Instants
  <2>2. PICK b : b = BucketOf(t, res)
    OBVIOUS
  <2>3. b \in Nat /\ Begins(b, res) /\ a <= b /\ b <= t /\ b < asked.to
    BY <1>16, <2>1, <2>2
  <2>4. IndexOf(b, layout) \in 0..(k - 1)
    BY <1>15, <2>3
  <2>5. row # {}
    <3> SUFFICES ASSUME row = {} PROVE FALSE
      OBVIOUS
    <3>1. t \in uncovered
      BY <1>3, <1>9, <1>18, <2>1 DEF Uncovered, Between
    <3>2. t \in RoundsOf(points[IndexOf(b, layout)])
      BY <1>14, <2>2, <2>4, <3>1
    <3> QED
      BY <1>13, <1>18, <2>4, <3>2 DEF ShownBy
  <2>6. ASSUME t \in row, rows[b] = row PROVE FALSE
    <3>1. b \in Instants
      <4>1. t <= MaxNow /\ MaxNow \in Nat
        BY <2>1, RollupBoundsAssumption DEF Instants
      <4> QED
        BY <2>1, <2>3, <4>1 DEF Instants
    <3>2. t \in RoundsOf(points[IndexOf(b, layout)])
      BY <1>14, <2>4, <2>6, <3>1
    <3> QED
      BY <1>13, <1>18, <2>4, <3>2 DEF ShownBy
  <2> QED
    BY <1>3, <2>2, <2>5, <2>6
<1>19. InPlace(points, a, w)
    BY <1>17 DEF InPlace
<1> QED
    BY <1>3, <1>5, <1>11, <1>12, <1>18, <1>19

LEMMA SeriesShows == BucketsInv /\ SeriesInv => RoundsShown
<1> SUFFICES ASSUME BucketsInv, SeriesInv, Answering PROVE RoundsShown
    BY DEF RoundsShown
<1>1. CASE reading = "raw"
  <2>1. Answer = RawPoints
    BY <1>1 DEF Answer
  <2> QED
    BY <1>1, <2>1, RawPointsShow DEF RoundsShown, InPlace, ShownBy
<1>2. CASE reading = "uncovered"
  <2>1. Answer = RowPoints
    BY <1>2 DEF Answer
  <2> QED
    BY <1>2, <2>1, RowPointsShow DEF RoundsShown, InPlace, ShownBy
<1> QED
    BY <1>1, <1>2 DEF Answering

\* A series (api.rs:858-1309) is no longer than asked for, its points lie where their rounds do, and
\* each round of the range is in one of them, but for what a row that was written meanwhile hides or
\* leaves out, and a remainder at the end of raw points.
THEOREM SeriesShowsRounds == SeriesSpec => []RoundsShown
<1>1. SeriesInit => BucketsInv /\ SeriesInv
    BY BucketsInit, SeriesInvInit DEF SeriesInit
<1>2. BucketsInv /\ SeriesInv /\ [SeriesNext]_<<vars, reader>> => BucketsInv' /\ SeriesInv'
    BY DatabaseSteps, BucketsStep, SeriesInvStep
<1> QED
    BY <1>1, <1>2, SeriesShows, PTL DEF SeriesSpec

-----------------------------------------------------------------------------
(***************************************************************************)
(* A round is shown once.                                                  *)
(***************************************************************************)

\* Rows are kept longer than rounds by a bucket, and longer than a cycle may be late to count.
RowsOutliveRounds ==
    \A level \in {"fine", "coarse"} :
        LET res == IF level = "fine" THEN Fine ELSE Coarse
        IN  \/ Keep[level] = Forever
            \/ /\ Keep["raw"] # Forever /\ Keep[level] >= Keep["raw"] + res - 1
               /\ Keep[level] >= res + Fine + MaxFaults
               /\ Keep[level] > res + MaxDelay + MaxFaults

HasRow(p, t) == rollup[p][Fine][BucketOf(t, Fine)] # {}

\* A cycle that began at n came to the round.
Reached(t, n) == t + MaxDelay < n /\ BucketOf(t, Fine) + Fine <= n

\* How long ago the last cycle began that has ended well, at most.
Lag == Late + (IF stage = "idle" THEN 0 ELSE 1) + faults

OldRow(p) == \A t \in raw[p] : Reached(t, now - Lag) => HasRow(p, t)

\* The lookback passes over nothing without a row.
PassedRow(p) ==
    \A b \in Starts(p, Fine), t \in raw[p] : t <= b - Lookback * Fine => HasRow(p, t)

BoundsRow(p) ==
    /\ from \in Int /\ (from < 0 \/ from <= now - Lookback * Fine)
    /\ closed + Fine > Begun
    /\ \A t \in raw[p] : t <= from => HasRow(p, t)

ReadRow(p) ==
    \A t \in raw[p] : from < t /\ t <= closed /\ Settled(t) => t \in taken \/ HasRow(p, t)

DoneRow(p) == \A t \in raw[p] : Reached(t, Begun) => HasRow(p, t)

RowsInTime(p) ==
    /\ PassedRow(p) /\ OldRow(p)
    /\ stage \in {"query", "write"} /\ Handling(p, Fine) => BoundsRow(p)
    /\ stage = "write" /\ Handling(p, Fine) => ReadRow(p)
    /\ stage # "idle" /\ IsDone(p, Fine) => DoneRow(p)

\* Of what is older than rounds are kept, only rounds that may not be counted yet are left.
RawSwept(p) ==
    \A t \in raw[p] : now - Keep["raw"] <= t \/ ~Reached(t, now - 2 - MaxFaults)

SweptInOrder(p) ==
    Keep["raw"] # Forever =>
        /\ sweep = "raw" => RawSwept(p) \/ now - Keep["raw"] <= cutoff
        /\ sweep \in {"fine", "coarse"} => RawSwept(p)

RowsInv ==
    /\ TimelyBase /\ faults <= MaxFaults
    /\ \A p \in Pairs : RowsInTime(p) /\ SweptInOrder(p)

\* What has been read of a row keeps a row as long as it is in the database.
ReadOnce ==
    reading = "uncovered" =>
        \A b \in Instants : \A t \in rows[b] :
            /\ t \in stored[asked.pair]
            /\ t \in raw[asked.pair] => rollup[asked.pair][resolution][b] # {}

LEMMA RowFacts ==
    ASSUME RowsInv
    PROVE  /\ now \in Nat /\ faults \in Nat /\ faults <= MaxFaults
           /\ MaxFaults \in Nat /\ MaxDelay \in Nat
           /\ Fine \in Nat /\ Fine > 0 /\ Fine \in Resolutions
           /\ Begun \in Int /\ Begun <= now /\ now - 1 <= Begun
           /\ Lag \in Nat /\ Lag <= 2 + MaxFaults
           /\ Keep["raw"] # Forever => Keep["raw"] \in Nat
<1>1. TimelyBase /\ faults \in Nat /\ faults <= MaxFaults
    BY DEF RowsInv, TimelyBase
<1>2. MaxFaults \in Nat /\ MaxDelay \in Nat
    BY RollupBoundsAssumption
<1>3. Fine \in Nat /\ Fine > 0 /\ Fine \in Resolutions
    BY RollupSizesAssumption DEF Resolutions
<1>4. PICK l, s : l = Late /\ s = IF stage = "idle" THEN 0 ELSE 1
    OBVIOUS
<1>5. l \in {0, 1} /\ s \in {0, 1} /\ Lag = l + s + faults
    BY <1>4 DEF Late, Lag
<1>6. Lag \in Nat /\ Lag <= 2 + MaxFaults
    BY <1>1, <1>2, <1>5
<1> QED
    BY <1>1, <1>2, <1>3, <1>6, BaseFacts

LEMMA RawFacts ==
    ASSUME TimelyBase, NEW p \in Pairs, NEW t \in raw[p]
    PROVE  /\ t \in stored[p] /\ t \in Nat /\ t \in Instants /\ t <= now
           /\ BucketOf(t, Fine) \in Nat /\ BucketOf(t, Fine) <= t
           /\ t < BucketOf(t, Fine) + Fine /\ Begins(BucketOf(t, Fine), Fine)
           /\ BucketOf(t, Fine) \in Instants
<1>1. t \in stored[p]
    BY DEF TimelyBase, BucketsInv, RollupType
<1>2. t \in Nat /\ t \in Instants /\ t <= now /\ Fine \in Resolutions
    BY <1>1, BaseFacts DEF Resolutions
<1> QED
    BY <1>1, <1>2, BucketBegins, BucketIsBeginning, BucketIsInstant

LEMMA ReachedLater ==
    ASSUME NEW t \in Nat, NEW n \in Int, NEW m \in Int, n <= m, Reached(t, n)
    PROVE  Reached(t, m)
<1>1. MaxDelay \in Nat /\ Fine \in Resolutions /\ Fine \in Nat
    BY RollupBoundsAssumption, RollupSizesAssumption DEF Resolutions
<1>2. PICK b : b = BucketOf(t, Fine)
    OBVIOUS
<1>3. b \in Nat
    BY <1>1, <1>2, BucketBegins
<1> QED
    BY <1>1, <1>2, <1>3 DEF Reached

\* A step of others: what has a row keeps it, and what comes anew is not reached yet.
LEMMA RowsOthers ==
    ASSUME LookbackReaches, RowsInv, NEW p \in Pairs,
           UNCHANGED <<stage, work, from, closed, taken>>,
           now' \in Int, now <= now', Begun' = Begun, now' - Lag' = now - Lag,
           Starts(p, Fine)' \subseteq Starts(p, Fine),
           \A t \in raw'[p] :
                /\ t \in Nat /\ (t \in raw[p] \/ now <= t + MaxDelay)
                /\ t \in raw[p] /\ HasRow(p, t) => HasRow(p, t)'
    PROVE  RowsInTime(p)'
<1>1. RowsInTime(p) /\ TimelyBase
    BY DEF RowsInv
<1>2. /\ now \in Nat /\ MaxDelay \in Nat /\ Begun \in Int /\ Begun <= now /\ Lag \in Nat
      /\ Fine \in Resolutions
    BY RowFacts
<1>3. Lookback * Fine \in Nat /\ Lookback * Fine > MaxDelay + 1
    BY <1>2, LookbackFacts
<1>4. \A t \in raw'[p] :
        t \in raw[p] \/ (~Reached(t, now - Lag) /\ ~Reached(t, Begun) /\ ~Settled(t))
    BY <1>2 DEF Reached, Settled
<1>5. PassedRow(p)'
  <2> SUFFICES ASSUME NEW b \in Starts(p, Fine)', NEW t \in raw'[p], t <= b - Lookback * Fine
               PROVE  HasRow(p, t)'
    BY DEF PassedRow
  <2>1. b \in Starts(p, Fine) /\ b \in Nat /\ b <= now
    BY <1>1, <1>2, RowBegins
  <2>2. t \in Nat /\ t \in raw[p]
    BY <1>2, <1>3, <2>1
  <2> QED
    BY <1>1, <2>1, <2>2 DEF RowsInTime, PassedRow
<1>6. OldRow(p)'
  <2> SUFFICES ASSUME NEW t \in raw'[p], Reached(t, now' - Lag') PROVE HasRow(p, t)'
    BY DEF OldRow, Reached
  <2> QED
    BY <1>1, <1>4 DEF RowsInTime, OldRow
<1>7. ASSUME stage' \in {"query", "write"}, Handling(p, Fine)' PROVE BoundsRow(p)'
  <2>1. BoundsRow(p)
    BY <1>1, <1>7 DEF RowsInTime, Handling, Pair, Resolution
  <2>2. from \in Int /\ (from < 0 \/ from <= now - Lookback * Fine) /\ closed + Fine > Begun
    BY <2>1 DEF BoundsRow
  <2>3. from < 0 \/ from <= now' - Lookback * Fine
    BY <1>2, <1>3, <2>2
  <2>4. ASSUME NEW t \in raw'[p], t <= from PROVE HasRow(p, t)'
    <3>1. t \in raw[p]
      BY <1>2, <1>3, <2>2, <2>4
    <3> QED
      BY <2>1, <2>4, <3>1 DEF BoundsRow
  <2> QED
    BY <2>2, <2>3, <2>4 DEF BoundsRow
<1>8. ASSUME stage' = "write", Handling(p, Fine)' PROVE ReadRow(p)'
  <2>1. ReadRow(p)
    BY <1>1, <1>8 DEF RowsInTime, Handling, Pair, Resolution
  <2>2. \A t : Settled(t)' <=> Settled(t)
    BY DEF Settled
  <2> SUFFICES ASSUME NEW t \in raw'[p], from < t, t <= closed, Settled(t), t \notin taken
               PROVE  HasRow(p, t)'
    BY <2>2 DEF ReadRow
  <2> QED
    BY <1>4, <2>1 DEF ReadRow
<1>9. ASSUME stage' # "idle", IsDone(p, Fine)' PROVE DoneRow(p)'
  <2>1. DoneRow(p)
    BY <1>1, <1>9 DEF RowsInTime, IsDone
  <2> SUFFICES ASSUME NEW t \in raw'[p], Reached(t, Begun) PROVE HasRow(p, t)'
    BY DEF DoneRow, Reached
  <2> QED
    BY <1>4, <2>1 DEF DoneRow
<1> QED
    BY <1>5, <1>6, <1>7, <1>8, <1>9 DEF RowsInTime

\* Nothing of a sweep is left when time passes.
LEMMA RowsTick ==
    ASSUME LookbackReaches, RowsInv, Tick, sweep = "idle", NEW p \in Pairs
    PROVE  RowsInTime(p)' /\ SweptInOrder(p)'
<1>1. /\ now' = now + 1 /\ ran = TRUE /\ ran' = FALSE
      /\ UNCHANGED <<stored, raw, rollup, stage, work, from, closed, taken, sweep, faults>>
    BY DEF Tick, retention, RowsInv, TimelyBase
<1>2. now \in Nat /\ faults \in Nat /\ TimelyBase
    BY RowFacts DEF RowsInv
<1>3. Late' = 1 /\ Late = 0
    BY <1>1 DEF Late
<1>4. Begun' = Begun
    BY <1>1, <1>2, <1>3 DEF Begun
<1>5. now' - Lag' = now - Lag
  <2>1. PICK s : s = IF stage = "idle" THEN 0 ELSE 1
    OBVIOUS
  <2>2. s \in {0, 1}
    BY <2>1
  <2>3. Lag = 0 + s + faults /\ Lag' = 1 + s + faults
    BY <1>1, <1>3, <2>1 DEF Lag
  <2> QED
    BY <1>1, <1>2, <2>2, <2>3
<1>6. Starts(p, Fine)' = Starts(p, Fine) /\ \A t : HasRow(p, t)' <=> HasRow(p, t)
    BY <1>1 DEF Starts, HasRow
<1>7. \A t \in raw'[p] : t \in Nat /\ t \in raw[p]
    BY <1>1, <1>2, RawFacts
<1>8. now' \in Int /\ now <= now'
    BY <1>1, <1>2
<1>9. RowsInTime(p)'
    BY <1>1, <1>4, <1>5, <1>6, <1>7, <1>8, RowsOthers
<1> QED
    BY <1>1, <1>9 DEF SweptInOrder

LEMMA RowsStore ==
    ASSUME LookbackReaches, RowsInv, NEW q \in Pairs, NEW u \in Instants, StoreRound(q, u),
           NEW p \in Pairs
    PROVE  RowsInTime(p)' /\ SweptInOrder(p)'
<1>1. /\ raw' = [raw EXCEPT ![q] = @ \cup {u}] /\ now <= u + MaxDelay
      /\ UNCHANGED <<now, rollup, stage, work, from, closed, taken, ran, sweep, cutoff, faults>>
    BY DEF StoreRound, cycle, retention
<1>2. /\ now \in Nat /\ faults \in Nat /\ TimelyBase /\ raw \in [Pairs -> SUBSET Instants]
      /\ u \in Nat /\ MaxDelay \in Nat /\ MaxFaults \in Nat
    BY RowFacts, RollupBoundsAssumption DEF RowsInv, TimelyBase, BucketsInv, RollupType, Instants
<1>3. Begun' = Begun /\ Lag' = Lag
    BY <1>1 DEF Begun, Late, Lag
<1>4. Starts(p, Fine)' = Starts(p, Fine) /\ \A t : HasRow(p, t)' <=> HasRow(p, t)
    BY <1>1 DEF Starts, HasRow
<1>5. \A t \in raw'[p] : t \in raw[p] \/ t = u
    BY <1>1, <1>2
<1>6. \A t \in raw'[p] : t \in Nat /\ (t \in raw[p] \/ now <= t + MaxDelay)
    BY <1>1, <1>2, <1>5, RawFacts
<1>7. RowsInTime(p)'
    BY <1>1, <1>2, <1>3, <1>4, <1>6, RowsOthers
<1>8. RawSwept(p) => RawSwept(p)'
  <2>1. \A t \in raw'[p] : t \in raw[p] \/ ~Reached(t, now - 2 - MaxFaults)
    BY <1>2, <1>6 DEF Reached
  <2> SUFFICES ASSUME RawSwept(p), NEW t \in raw'[p]
               PROVE  now - Keep["raw"] <= t \/ ~Reached(t, now - 2 - MaxFaults)
    BY <1>1 DEF RawSwept, Reached
  <2> QED
    BY <2>1 DEF RawSwept
<1>9. SweptInOrder(p)
    BY DEF RowsInv
<1>10. SweptInOrder(p)'
    BY <1>1, <1>8, <1>9 DEF SweptInOrder
<1> QED
    BY <1>7, <1>10

-----------------------------------------------------------------------------

\* A level is passed over only if it has nothing to delete.
LEMMA RawToSweep ==
    ASSUME RowsInv, Enter("raw"), Keep["raw"] # Forever, NEW p \in Pairs
    PROVE  RawSwept(p) \/ now - Keep["raw"] <= cutoff'
<1>1. cutoff' = IF PassedOver("raw") THEN 0 ELSE Greatest({0, now - Keep["raw"]})
    BY DEF Enter
<1>2. /\ now \in Nat /\ Keep["raw"] \in Nat /\ Lag \in Nat /\ Lag <= 2 + MaxFaults
      /\ MaxFaults \in Nat /\ TimelyBase
    BY RowFacts DEF RowsInv
<1>3. PICK keep : keep = now - Keep["raw"]
    OBVIOUS
<1>4. keep \in Int
    BY <1>2, <1>3
<1>5. CASE ~PassedOver("raw")
  <2>1. cutoff' = Greatest({0, keep})
    BY <1>1, <1>3, <1>5
  <2>2. \E x \in {0, keep} : \A y \in {0, keep} : x >= y
    BY <1>4
  <2>3. \A y \in {0, keep} : cutoff' >= y
    BY <2>1, <2>2 DEF Greatest
  <2> QED
    BY <1>3, <1>4, <2>1, <2>3
<1>6. CASE PassedOver("raw")
  <2>1. PICK E : E = UNION {Starts(q, Fine) : q \in Pairs}
    OBVIOUS
  <2>2. E # {} /\ Least(E) >= now - Keep["raw"]
    BY <1>6, <2>1 DEF PassedOver
  <2>3. E \subseteq Nat
    BY <2>1 DEF Starts, Instants
  <2>4. \A b \in E : Least(E) <= b /\ Least(E) \in Nat
    BY <2>2, <2>3, LeastIsThere
  <2> SUFFICES ASSUME NEW t \in raw[p], Reached(t, now - 2 - MaxFaults)
               PROVE  now - Keep["raw"] <= t
    BY DEF RawSwept
  <2>5. t \in Nat /\ BucketOf(t, Fine) \in Nat /\ BucketOf(t, Fine) <= t
        /\ BucketOf(t, Fine) \in Instants
    BY <1>2, RawFacts
  <2>6. Reached(t, now - Lag)
    BY <1>2, <2>5, ReachedLater
  <2>7. HasRow(p, t)
    BY <2>6 DEF RowsInv, RowsInTime, OldRow
  <2>8. BucketOf(t, Fine) \in E
    BY <2>1, <2>5, <2>7 DEF HasRow, Starts
  <2>9. PICK b : b = BucketOf(t, Fine)
    OBVIOUS
  <2>10. Least(E) <= b /\ Least(E) \in Nat /\ b \in Nat /\ b <= t
    BY <2>4, <2>5, <2>8, <2>9
  <2> QED
    BY <1>2, <2>2, <2>5, <2>10
<1> QED
    BY <1>5, <1>6

\* When no round is left to delete, those that are left are not yet counted.
LEMMA RawIsSwept ==
    ASSUME RowsInv, sweep = "raw", Deletable = {}, Keep["raw"] # Forever, NEW p \in Pairs
    PROVE  RawSwept(p)
<1>1. RawSwept(p) \/ now - Keep["raw"] <= cutoff
    BY DEF RowsInv, SweptInOrder
<1>2. /\ now \in Nat /\ Keep["raw"] \in Nat /\ Lag \in Nat /\ Lag <= 2 + MaxFaults
      /\ MaxFaults \in Nat /\ TimelyBase /\ cutoff \in Int
    BY RowFacts DEF RowsInv, TimelyBase, SweepOld
<1> SUFFICES ASSUME now - Keep["raw"] <= cutoff, NEW t \in raw[p],
                    Reached(t, now - 2 - MaxFaults), t < now - Keep["raw"]
             PROVE  FALSE
  <2>1. \A t \in raw[p] : t \in Nat
    BY <1>2, RawFacts
  <2> QED
    BY <1>1, <1>2, <2>1 DEF RawSwept
<1>3. t \in Nat /\ t \in Instants
    BY <1>2, RawFacts
<1>4. Reached(t, now - Lag)
    BY <1>2, <1>3, ReachedLater
<1>5. HasRow(p, t)
    BY <1>4 DEF RowsInv, RowsInTime, OldRow
<1>6. t < cutoff
    BY <1>2, <1>3
<1>7. <<p, t>> \in Deletable
    BY <1>3, <1>5, <1>6 DEF Deletable, HasRow
<1> QED
    BY <1>7

\* No row is deleted while a round of its bucket is in the database.
LEMMA DeletedRowIsBare ==
    ASSUME RowsOutliveRounds, RowsInv, sweep \in {"fine", "coarse"}, NEW r \in OldBuckets
    PROVE  r[1] \in Pairs /\ \A t \in raw[r[1]] : BucketOf(t, Swept) # r[2]
<1>1. PICK p \in Pairs, b \in Instants : r = <<p, b>>
    BY DEF OldBuckets
<1>2. b < cutoff /\ b \in Starts(p, Swept) /\ Swept \in Resolutions
    BY <1>1 DEF OldBuckets, Swept, Resolutions
<1>3. TimelyBase /\ SweptInOrder(p)
    BY DEF RowsInv
<1> SUFFICES ASSUME NEW t \in raw[p], BucketOf(t, Swept) = b PROVE FALSE
    BY <1>1
<1>4. PICK level, res : /\ level = sweep /\ res = Swept
                        /\ level \in {"fine", "coarse"}
                        /\ res = IF level = "fine" THEN Fine ELSE Coarse
    BY DEF Swept
<1>5. cutoff \in Int /\ (cutoff = 0 \/ (Keep[level] # Forever /\ cutoff <= now - Keep[level]))
    BY <1>3, <1>4 DEF TimelyBase, SweepOld, Levels
<1>6. b \in Nat /\ now \in Nat /\ t \in Nat /\ res \in Nat /\ res > 0 /\ t < b + res
      /\ Begins(b, res)
  <2>1. t \in Nat
    BY <1>3, RawFacts
  <2>2. b \in Nat /\ t < b + Swept /\ Begins(b, Swept)
    BY <1>2, <2>1, BucketBegins, BucketIsBeginning
  <2> QED
    BY <1>2, <1>4, <2>1, <2>2, RowFacts, ResolutionIsPositive
<1>7. Keep[level] # Forever /\ b < now - Keep[level] /\ Keep[level] \in Nat
    BY <1>2, <1>4, <1>5, <1>6, KeepAssumption DEF Levels
<1>8. /\ Keep["raw"] # Forever /\ Keep[level] >= Keep["raw"] + res - 1
      /\ Keep[level] >= res + Fine + MaxFaults
      /\ Keep[level] > res + MaxDelay + MaxFaults
    BY <1>4, <1>7 DEF RowsOutliveRounds
<1>9. Keep["raw"] \in Nat /\ MaxFaults \in Nat /\ MaxDelay \in Nat /\ Fine \in Nat
    BY <1>8, RowFacts
<1>10. RawSwept(p)
    BY <1>3, <1>4, <1>8 DEF SweptInOrder
<1>11. ~(now - Keep["raw"] <= t)
    BY <1>6, <1>7, <1>8, <1>9
<1>12. Reached(t, now - 2 - MaxFaults)
  <2>1. BucketOf(t, Fine) \in Nat /\ BucketOf(t, Fine) <= t
    BY <1>3, RawFacts
  <2>2. PICK f : f = BucketOf(t, Fine)
    OBVIOUS
  <2>3. f + Fine <= now - 2 - MaxFaults /\ t + MaxDelay < now - 2 - MaxFaults
    BY <1>6, <1>7, <1>8, <1>9, <2>1, <2>2
  <2> QED
    BY <2>2, <2>3 DEF Reached
<1> QED
    BY <1>10, <1>11, <1>12 DEF RawSwept

LEMMA RowsSweep ==
    ASSUME LookbackReaches, RowsOutliveRounds, RowsInv, RetentionStep, NEW p \in Pairs
    PROVE  RowsInTime(p)' /\ SweptInOrder(p)'
<1>1. UNCHANGED <<now, stored, stage, work, from, closed, taken, ran, faults>>
    BY DEF RetentionStep, BeginSweep, DeleteRaw, EndRaw, DeleteBuckets, EndFine, EndCoarse, cycle
<1>2. now \in Nat /\ TimelyBase /\ SweptInOrder(p)
    BY RowFacts DEF RowsInv
<1>3. Begun' = Begun /\ Lag' = Lag
    BY <1>1 DEF Begun, Late, Lag
<1>4. raw'[p] \subseteq raw[p]
  <2>1. CASE ~DeleteRaw
    BY <2>1 DEF RetentionStep, BeginSweep, EndRaw, DeleteBuckets, EndFine, EndCoarse
  <2>2. CASE DeleteRaw
    BY <2>2 DEF DeleteRaw
  <2> QED
    BY <2>1, <2>2
<1>5. /\ Starts(p, Fine)' \subseteq Starts(p, Fine)
      /\ \A t \in raw[p] : HasRow(p, t) => HasRow(p, t)'
  <2>1. CASE ~DeleteBuckets
    <3>1. rollup' = rollup
      BY <2>1 DEF RetentionStep, BeginSweep, DeleteRaw, EndRaw, EndFine, EndCoarse
    <3> QED
      BY <3>1 DEF Starts, HasRow
  <2>2. CASE DeleteBuckets
    <3>1. sweep \in {"fine", "coarse"} /\ Swept \in Resolutions
      BY <2>2 DEF DeleteBuckets, Swept, Resolutions
    <3>2. PICK doomed \in SUBSET OldBuckets :
            rollup' = [q \in Pairs |-> [rollup[q] EXCEPT ![Swept] =
                         [b \in Instants |-> IF <<q, b>> \in doomed THEN {} ELSE @[b]]]]
      BY <2>2 DEF DeleteBuckets, Batches
    <3>3. rollup \in [Pairs -> [Resolutions -> [Instants -> SUBSET Instants]]]
      BY <1>2 DEF TimelyBase, BucketsInv, RollupType
    <3>4. ASSUME NEW b \in Instants
          PROVE  \/ rollup'[p][Fine][b] = rollup[p][Fine][b]
                 \/ Swept = Fine /\ <<p, b>> \in doomed /\ rollup'[p][Fine][b] = {}
      <4>1. rollup'[p] = [rollup[p] EXCEPT ![Swept] =
                [c \in Instants |-> IF <<p, c>> \in doomed THEN {} ELSE rollup[p][Swept][c]]]
        BY <3>2
      <4>2. Fine \in Resolutions /\ rollup[p] \in [Resolutions -> [Instants -> SUBSET Instants]]
        BY <3>3 DEF Resolutions
      <4>3. CASE Swept # Fine
        BY <4>1, <4>2, <4>3
      <4>4. CASE Swept = Fine
        <5>1. rollup'[p][Fine] =
                [c \in Instants |-> IF <<p, c>> \in doomed THEN {} ELSE rollup[p][Fine][c]]
          BY <4>1, <4>2, <4>4
        <5> QED
          BY <4>4, <5>1
      <4> QED
        BY <4>3, <4>4
    <3>5. Starts(p, Fine)' \subseteq Starts(p, Fine)
      BY <3>4 DEF Starts
    <3>6. ASSUME NEW t \in raw[p], HasRow(p, t) PROVE HasRow(p, t)'
      <4>1. PICK b : b = BucketOf(t, Fine)
        OBVIOUS
      <4>2. b \in Instants /\ rollup[p][Fine][b] # {}
        BY <1>2, <3>6, <4>1, RawFacts DEF HasRow
      <4>3. ~(Swept = Fine /\ <<p, b>> \in doomed)
        BY <3>1, <4>1, DeletedRowIsBare
      <4>4. rollup'[p][Fine][b] # {}
        BY <3>4, <4>2, <4>3
      <4> QED
        BY <4>1, <4>4 DEF HasRow
    <3> QED
      BY <3>5, <3>6
  <2> QED
    BY <2>1, <2>2
<1>6. \A t \in raw'[p] : /\ t \in Nat /\ t \in raw[p]
                         /\ HasRow(p, t) => HasRow(p, t)'
    BY <1>2, <1>4, <1>5, RawFacts
<1>7. now' \in Int /\ now <= now' /\ now' - Lag' = now - Lag
    BY <1>1, <1>2, <1>3
<1>8. RowsInTime(p)'
    BY <1>1, <1>3, <1>5, <1>6, <1>7, RowsOthers
<1>9. RawSwept(p) => RawSwept(p)'
    BY <1>1, <1>4 DEF RawSwept, Reached
<1>10. SweptInOrder(p)'
  <2> SUFFICES ASSUME Keep["raw"] # Forever
               PROVE  /\ sweep' = "raw" => RawSwept(p)' \/ now - Keep["raw"] <= cutoff'
                      /\ sweep' \in {"fine", "coarse"} => RawSwept(p)'
    BY <1>1 DEF SweptInOrder
  <2>1. CASE BeginSweep
    <3>1. Enter("raw") /\ sweep' = "raw"
      BY <2>1 DEF BeginSweep, Enter
    <3> QED
      BY <1>9, <3>1, RawToSweep
  <2>2. CASE EndRaw
    <3>1. sweep = "raw" /\ Deletable = {} /\ sweep' = "fine"
      BY <2>2 DEF EndRaw, Enter
    <3> QED
      BY <1>9, <3>1, RawIsSwept
  <2>3. CASE DeleteRaw \/ DeleteBuckets
    <3>1. UNCHANGED <<sweep, cutoff>>
      BY <2>3 DEF DeleteRaw, DeleteBuckets, retention
    <3> QED
      BY <1>2, <1>9, <3>1 DEF SweptInOrder
  <2>4. CASE EndFine \/ EndCoarse
    <3>1. sweep \in {"fine", "coarse"} /\ sweep' \in {"coarse", "idle"}
      BY <2>4 DEF EndFine, EndCoarse, Enter
    <3> QED
      BY <1>2, <1>9, <3>1 DEF SweptInOrder
  <2> QED
    BY <2>1, <2>2, <2>3, <2>4 DEF RetentionStep
<1> QED
    BY <1>8, <1>10

-----------------------------------------------------------------------------

LEMMA SameRows ==
    ASSUME UNCHANGED <<now, raw, rollup>>, NEW p \in Pairs
    PROVE  /\ Starts(p, Fine)' = Starts(p, Fine)
           /\ \A t : HasRow(p, t)' <=> HasRow(p, t)
           /\ PassedRow(p) => PassedRow(p)'
<1>1. Starts(p, Fine)' = Starts(p, Fine) /\ \A t : HasRow(p, t)' <=> HasRow(p, t)
    BY DEF Starts, HasRow
<1> QED
    BY <1>1 DEF PassedRow

\* What has a row as old, has it when a cycle is said to be nearer by no more.
LEMMA OldRowStays ==
    ASSUME RowsInv, NEW p \in Pairs, UNCHANGED <<now, raw, rollup>>,
           NEW n \in Int, now' - Lag' = n, n <= now - Lag
    PROVE  OldRow(p)'
<1> SUFFICES ASSUME NEW t \in raw[p], Reached(t, n) PROVE HasRow(p, t)
    BY SameRows DEF OldRow, Reached
<1>1. t \in Nat /\ now \in Nat /\ Lag \in Nat
    BY RowFacts, RawFacts DEF RowsInv
<1>2. Reached(t, now - Lag)
    BY <1>1, ReachedLater
<1> QED
    BY <1>2 DEF RowsInv, RowsInTime, OldRow

LEMMA RowsBegin ==
    ASSUME RowsInv, BeginCycle, NEW p \in Pairs
    PROVE  RowsInTime(p)'
<1>1. /\ stage = "idle" /\ work' = Listed /\ ran' = TRUE
      /\ stage' = IF Listed = {} THEN "idle" ELSE "mark"
      /\ UNCHANGED <<now, stored, raw, rollup, faults>>
    BY DEF BeginCycle
<1>2. PassedRow(p) /\ now \in Nat /\ faults \in Nat /\ ran \in BOOLEAN
    BY RowFacts DEF RowsInv, RowsInTime, TimelyBase
<1>3. PICK k \in 1..(2 * Len(PairOrder)) : PairAt(k) = p /\ ResolutionAt(k) = Fine
    BY PlaceOf DEF Resolutions
<1>4. k \notin Listed => raw[p] = {}
    BY <1>3 DEF Listed
<1>5. IsDone(p, Fine)' => DoneRow(p)'
    BY <1>1, <1>3, <1>4 DEF IsDone, DoneRow
<1>6. OldRow(p)'
  <2>1. CASE k \in Listed
    <3>1. stage' = "mark" /\ Late' = 0
      BY <1>1, <2>1 DEF Late
    <3>2. Lag' = 0 + 1 + faults
      BY <1>1, <3>1 DEF Lag
    <3>3. Lag = Late + 0 + faults /\ Late \in {0, 1}
      BY <1>1 DEF Lag, Late
    <3>4. PICK n : n = now - 1 - faults
      OBVIOUS
    <3>5. n \in Int /\ now' - Lag' = n /\ n <= now - Lag
      BY <1>1, <1>2, <3>2, <3>3, <3>4
    <3> QED
      BY <1>1, <3>5, OldRowStays
  <2>2. CASE k \notin Listed
    BY <1>1, <1>4, <2>2 DEF OldRow
  <2> QED
    BY <2>1, <2>2
<1>7. stage' \in {"idle", "mark"} /\ PassedRow(p)'
    BY <1>1, <1>2, SameRows
<1> QED
    BY <1>5, <1>6, <1>7 DEF RowsInTime

\* A cycle that fails is one more that the last good one is behind.
LEMMA RowsFails ==
    ASSUME RowsInv, CycleFails, NEW p \in Pairs
    PROVE  RowsInTime(p)'
<1>1. /\ stage # "idle" /\ stage' = "idle" /\ faults < MaxFaults /\ faults' = faults + 1
      /\ UNCHANGED <<now, stored, raw, rollup, ran>>
    BY DEF CycleFails
<1>2. PassedRow(p) /\ now \in Nat /\ faults \in Nat /\ MaxFaults \in Nat
    BY RowFacts DEF RowsInv, RowsInTime
<1>3. PICK l : l = Late
    OBVIOUS
<1>4. l \in {0, 1} /\ Lag = l + 1 + faults
    BY <1>1, <1>3 DEF Late, Lag
<1>5. Lag' = l + 0 + (faults + 1)
    BY <1>1, <1>3 DEF Late, Lag
<1>6. now - Lag \in Int /\ now' - Lag' = now - Lag
    BY <1>1, <1>2, <1>4, <1>5
<1>7. OldRow(p)' /\ PassedRow(p)'
    BY <1>1, <1>2, <1>6, OldRowStays, SameRows
<1> QED
    BY <1>1, <1>2, <1>7 DEF RowsInTime

LEMMA RowsMark ==
    ASSUME LookbackReaches, RowsInv, ReadMark, NEW p \in Pairs
    PROVE  RowsInTime(p)'
<1>1. /\ stage = "mark" /\ stage' = "query"
      /\ closed' = BucketOf(now, Resolution)
      /\ from' = ComputeFrom(Starts(Pair, Resolution), Resolution)
      /\ UNCHANGED <<now, ran, stored, raw, rollup, work, faults>>
    BY DEF ReadMark, LatestClosed
<1>2. TimelyBase /\ RowsInTime(p)
    BY DEF RowsInv
<1>3. /\ Fine \in Nat /\ Fine > 0 /\ Fine \in Resolutions
      /\ now \in Nat /\ Begun \in Int /\ Begun <= now /\ Lag \in Nat
      /\ Lookback * Fine \in Nat
    BY RowFacts, LookbackFacts
<1>4. Begun' = Begun /\ Lag' = Lag
    BY <1>1 DEF Begun, Late, Lag
<1>5. ASSUME Handling(p, Fine)' PROVE BoundsRow(p)'
  <2>1. Pair = p /\ Resolution = Fine
    BY <1>1, <1>5 DEF Handling, Pair, Resolution
  <2>2. closed' + Fine > Begun'
    <3>1. PICK b : b = BucketOf(now, Fine)
      OBVIOUS
    <3>2. b \in Nat /\ now < b + Fine
      BY <1>3, <3>1, BucketBegins
    <3> QED
      BY <1>1, <1>3, <1>4, <2>1, <3>1, <3>2
  <2>3. /\ from' \in Int /\ (from' < 0 \/ from' <= now - Lookback * Fine)
        /\ \A t \in raw[p] : t <= from' => HasRow(p, t)
    <3>1. CASE Starts(p, Fine) = {}
      <4>1. from' = -1
        BY <1>1, <2>1, <3>1 DEF ComputeFrom
      <4>2. \A t \in raw[p] : t \in Nat
        BY <1>2, RawFacts
      <4> QED
        BY <4>1, <4>2
    <3>2. CASE Starts(p, Fine) # {}
      <4>1. PICK g : g = Greatest(Starts(p, Fine))
        OBVIOUS
      <4>2. g \in Starts(p, Fine)
        <5>1. Starts(p, Fine) \subseteq 0..MaxNow /\ MaxNow \in Nat
          BY RollupBoundsAssumption DEF Starts, Instants
        <5> QED
          BY <3>2, <4>1, <5>1, GreatestIsThere
      <4>3. g \in Nat /\ g <= now
        BY <1>2, <1>3, <4>2, RowBegins
      <4>4. from' = g - Lookback * Fine
        BY <1>1, <2>1, <3>2, <4>1 DEF ComputeFrom
      <4>5. from' \in Int /\ from' <= now - Lookback * Fine
        BY <1>3, <4>3, <4>4
      <4>6. \A t \in raw[p] : t <= from' => HasRow(p, t)
        BY <1>2, <4>2, <4>4 DEF RowsInTime, PassedRow
      <4> QED
        BY <4>5, <4>6
    <3> QED
      BY <3>1, <3>2
  <2>4. \A t \in raw'[p] : t <= from' => HasRow(p, t)'
    BY <1>1, <2>3, SameRows
  <2>5. from' < 0 \/ from' <= now' - Lookback * Fine
    BY <1>1, <2>3
  <2> QED
    BY <2>2, <2>3, <2>4, <2>5 DEF BoundsRow
<1>6. ASSUME IsDone(p, Fine)' PROVE DoneRow(p)'
  <2>1. DoneRow(p)
    BY <1>1, <1>2, <1>6 DEF RowsInTime, IsDone
  <2> QED
    BY <1>1, <1>4, <2>1, SameRows DEF DoneRow, Reached
<1>7. OldRow(p)' /\ PassedRow(p)'
  <2>1. now' - Lag' = now - Lag /\ now - Lag \in Int
    BY <1>1, <1>3, <1>4
  <2> QED
    BY <1>1, <1>2, <2>1, OldRowStays, SameRows DEF RowsInTime
<1> QED
    BY <1>1, <1>5, <1>6, <1>7 DEF RowsInTime

LEMMA RowsRead ==
    ASSUME RowsInv, ReadRounds, NEW p \in Pairs
    PROVE  RowsInTime(p)'
<1>1. /\ stage = "query" /\ stage' = "write"
      /\ taken' = {t \in raw[Pair] : from < t /\ t <= closed}
      /\ UNCHANGED <<now, ran, stored, raw, rollup, work, from, closed, faults>>
    BY DEF ReadRounds
<1>2. RowsInTime(p) /\ now \in Nat /\ Lag \in Nat
    BY RowFacts DEF RowsInv
<1>3. Begun' = Begun /\ Lag' = Lag
    BY <1>1 DEF Begun, Late, Lag
<1>4. ASSUME Handling(p, Fine)' PROVE BoundsRow(p)' /\ ReadRow(p)'
  <2>1. Pair = p /\ Handling(p, Fine)
    BY <1>1, <1>4 DEF Handling, Pair, Resolution
  <2>2. BoundsRow(p)
    BY <1>1, <1>2, <2>1 DEF RowsInTime
  <2>3. BoundsRow(p)'
    BY <1>1, <1>3, <2>2, SameRows DEF BoundsRow
  <2>4. \A t \in raw'[p] : from' < t /\ t <= closed' => t \in taken'
    BY <1>1, <2>1
  <2> QED
    BY <2>3, <2>4 DEF ReadRow
<1>5. ASSUME IsDone(p, Fine)' PROVE DoneRow(p)'
  <2>1. DoneRow(p)
    BY <1>1, <1>2, <1>5 DEF RowsInTime, IsDone
  <2> QED
    BY <1>1, <1>3, <2>1, SameRows DEF DoneRow, Reached
<1>6. OldRow(p)' /\ PassedRow(p)'
  <2>1. now' - Lag' = now - Lag /\ now - Lag \in Int
    BY <1>1, <1>2, <1>3
  <2> QED
    BY <1>1, <1>2, <2>1, OldRowStays, SameRows DEF RowsInTime
<1> QED
    BY <1>4, <1>5, <1>6 DEF RowsInTime

\* When everything is written that was read, everything has a row.
LEMMA HandledHasRow ==
    ASSUME RowsInv, stage = "write", taken = {}, NEW p \in Pairs, Handling(p, Fine)
    PROVE  DoneRow(p)
<1> SUFFICES ASSUME NEW t \in raw[p], Reached(t, Begun) PROVE HasRow(p, t)
    BY DEF DoneRow
<1>1. TimelyBase /\ BoundsRow(p) /\ ReadRow(p)
    BY DEF RowsInv, RowsInTime
<1>2. Fine \in Resolutions /\ Fine \in Nat /\ Fine > 0 /\ Begun \in Int
    BY RowFacts
<1>3. closed \in Nat /\ Begins(closed, Fine)
    BY <1>1, <1>2 DEF TimelyBase, BucketsInv, InHand, Handling, Begins
<1>4. PICK b : b = BucketOf(t, Fine)
    OBVIOUS
<1>5. t \in Nat /\ b \in Nat /\ t < b + Fine /\ Begins(b, Fine)
    BY <1>1, <1>4, RawFacts
<1>6. closed + Fine > Begun /\ from \in Int
    BY <1>1 DEF BoundsRow
<1>7. t + MaxDelay < Begun /\ b + Fine <= Begun
    BY <1>4 DEF Reached
<1>8. b < closed
    BY <1>2, <1>3, <1>5, <1>6, <1>7
<1>9. b + Fine <= closed
    BY <1>2, <1>3, <1>5, <1>8, BeginningsApart
<1>10. t <= closed
    BY <1>2, <1>3, <1>5, <1>9
<1>11. CASE t <= from
    BY <1>1, <1>11 DEF BoundsRow
<1>12. CASE ~(t <= from)
    BY <1>1, <1>5, <1>6, <1>7, <1>10, <1>12 DEF ReadRow, Settled
<1> QED
    BY <1>11, <1>12

LEMMA RowsNext ==
    ASSUME RowsInv, NextPair, CyclesEnd, NEW p \in Pairs
    PROVE  RowsInTime(p)'
<1>1. /\ stage = "write" /\ taken = {} /\ stage' = IF work' = {} THEN "idle" ELSE "mark"
      /\ work' = work \ {Least(work)}
      /\ UNCHANGED <<now, ran, stored, raw, rollup, faults>>
    BY DEF NextPair, CyclesEnd
<1>2. /\ RowsInTime(p) /\ TimelyBase /\ now \in Nat /\ Lag \in Nat /\ faults \in Nat
      /\ Begun \in Int
    BY RowFacts DEF RowsInv
<1>3. PICK l : l = Late
    OBVIOUS
<1>4. /\ l \in {0, 1} /\ Begun = now - l /\ Begun' = Begun /\ Lag = l + 1 + faults
      /\ Lag' = l + (IF stage' = "idle" THEN 0 ELSE 1) + faults
    BY <1>1, <1>3 DEF Begun, Late, Lag
<1>5. ASSUME IsDone(p, Fine)' PROVE DoneRow(p)
  <2>1. IsDone(p, Fine) \/ Handling(p, Fine)
    BY <1>1, <1>5 DEF IsDone, Handling, Pair, Resolution
  <2> QED
    BY <1>1, <1>2, <2>1, HandledHasRow DEF RowsInTime
<1>6. DoneRow(p) => DoneRow(p)'
    BY <1>1, <1>4, SameRows DEF DoneRow, Reached
<1>7. OldRow(p)'
  <2>1. CASE work' = {}
    <3>1. stage' = "idle" /\ IsDone(p, Fine)'
      BY <1>1, <2>1 DEF IsDone
    <3>2. DoneRow(p)
      BY <1>5, <3>1
    <3>3. PICK n : n = now - l - faults
      OBVIOUS
    <3>4. n \in Int /\ n <= Begun /\ now' - Lag' = n
      BY <1>1, <1>2, <1>4, <3>1, <3>3
    <3> SUFFICES ASSUME NEW t \in raw[p], Reached(t, n) PROVE HasRow(p, t)
      BY <1>1, <3>4, SameRows DEF OldRow, Reached
    <3>5. t \in Nat
      BY <1>2, RawFacts
    <3>6. Reached(t, Begun)
      BY <1>2, <3>4, <3>5, ReachedLater
    <3> QED
      BY <3>2, <3>6 DEF DoneRow
  <2>2. CASE work' # {}
    <3>1. stage' = "mark"
      BY <1>1, <2>2
    <3>2. now' - Lag' = now - Lag /\ now - Lag \in Int
      BY <1>1, <1>2, <1>4, <3>1
    <3> QED
      BY <1>1, <3>2, OldRowStays
  <2> QED
    BY <2>1, <2>2
<1>8. stage' \in {"idle", "mark"} /\ PassedRow(p)'
    BY <1>1, <1>2, SameRows DEF RowsInTime
<1> QED
    BY <1>5, <1>6, <1>7, <1>8 DEF RowsInTime

\* The bucket that is written gets a row, and the buckets before it had all they are to have.
LEMMA RowsUpsert ==
    ASSUME LookbackReaches, RowsInv, Upsert, NEW p \in Pairs
    PROVE  RowsInTime(p)'
<1>1. PICK bucket, rounds :
        /\ bucket = BucketOf(Least(taken), Resolution)
        /\ rounds = {t \in taken : BucketOf(t, Resolution) = bucket}
        /\ rollup' = [rollup EXCEPT ![Pair][Resolution][bucket] = rounds]
        /\ taken' = taken \ rounds
    BY DEF Upsert
<1>2. /\ stage = "write" /\ taken # {}
      /\ UNCHANGED <<now, ran, stored, raw, stage, work, from, closed, faults>>
    BY DEF Upsert
<1>3. TimelyBase /\ RowsInTime(p)
    BY DEF RowsInv
<1>4. /\ rollup \in [Pairs -> [Resolutions -> [Instants -> SUBSET Instants]]]
      /\ Pair \in Pairs /\ Resolution \in Resolutions /\ Fine \in Resolutions
    BY <1>2, <1>3, CurrentIsListed DEF TimelyBase, BucketsInv, RollupType, Resolutions
<1>5. /\ now \in Nat /\ Begun \in Int /\ now - 1 <= Begun /\ Lag \in Nat
      /\ Fine \in Nat /\ Fine > 0 /\ MaxDelay \in Nat
    BY RowFacts
<1>6. Begun' = Begun /\ Lag' = Lag /\ \A t : Settled(t)' <=> Settled(t)
    BY <1>2 DEF Begun, Late, Lag, Settled
<1>7. /\ taken \subseteq stored[Pair] /\ \A t \in taken : t <= closed
      /\ closed \in Nat /\ closed <= now
    BY <1>2, <1>3, <1>4 DEF TimelyBase, BucketsInv, InHand
<1>8. PICK oldest : oldest = Least(taken)
    OBVIOUS
<1>9. oldest \in taken /\ oldest \in Instants /\ oldest \in Nat /\ \A t \in taken : oldest <= t
  <2>1. \A t \in taken : t \in Nat /\ t \in Instants
    BY <1>3, <1>4, <1>7, BaseFacts
  <2> QED
    BY <1>2, <1>8, <2>1, LeastIsThere
<1>10. bucket \in Instants /\ bucket \in Nat /\ bucket <= oldest /\ rounds # {}
    BY <1>1, <1>4, <1>8, <1>9, BucketIsInstant
<1>11. ASSUME NEW b \in Instants
       PROVE  \/ rollup'[p][Fine][b] = rollup[p][Fine][b]
              \/ Handling(p, Fine) /\ b = bucket /\ rollup'[p][Fine][b] = rounds
    BY <1>1, <1>4 DEF Handling
<1>12. ASSUME NEW t \in raw[p], HasRow(p, t) PROVE HasRow(p, t)'
  <2>1. BucketOf(t, Fine) \in Instants
    BY <1>3, RawFacts
  <2>2. PICK b : b = BucketOf(t, Fine)
    OBVIOUS
  <2> QED
    BY <1>10, <1>11, <1>12, <2>1, <2>2 DEF HasRow
<1>13. ASSUME NEW t \in raw[p], Handling(p, Fine), t \in taken PROVE t \in taken' \/ HasRow(p, t)'
  <2>1. PICK b : b = BucketOf(t, Fine)
    OBVIOUS
  <2>2. Pair = p /\ Resolution = Fine
    BY <1>13 DEF Handling
  <2>3. CASE b = bucket
    <3>1. rollup'[p][Fine][bucket] = rounds
      BY <1>1, <1>4, <1>10, <2>2
    <3> QED
      BY <1>10, <2>1, <2>3, <3>1 DEF HasRow
  <2>4. CASE b # bucket
    BY <1>1, <1>13, <2>1, <2>2, <2>4
  <2> QED
    BY <2>3, <2>4
<1>14. OldRow(p)'
  <2>1. \A t \in raw[p] : Reached(t, now - Lag) => HasRow(p, t)
    BY <1>3 DEF RowsInTime, OldRow
  <2> QED
    BY <1>2, <1>6, <1>12, <2>1 DEF OldRow, Reached
<1>15. Handling(p, Fine)' => Handling(p, Fine)
    BY <1>2 DEF Handling, Pair, Resolution
<1>16. ASSUME Handling(p, Fine) PROVE BoundsRow(p)' /\ ReadRow(p)'
  <2>1. BoundsRow(p) /\ ReadRow(p)
    BY <1>2, <1>3, <1>16 DEF RowsInTime
  <2>2. from \in Int /\ (from < 0 \/ from <= now - Lookback * Fine) /\ closed + Fine > Begun
    BY <2>1 DEF BoundsRow
  <2>3. \A t \in raw[p] : t <= from => HasRow(p, t)'
    BY <1>12, <2>1 DEF BoundsRow
  <2>4. \A t \in raw[p] : from < t /\ t <= closed /\ Settled(t) => t \in taken' \/ HasRow(p, t)'
    BY <1>12, <1>13, <1>16, <2>1 DEF ReadRow
  <2>5. BoundsRow(p)'
    BY <1>2, <1>6, <2>2, <2>3 DEF BoundsRow
  <2> QED
    BY <1>2, <1>6, <2>4, <2>5 DEF ReadRow
<1>17. stage' # "idle" /\ IsDone(p, Fine)' => DoneRow(p)'
  <2> SUFFICES ASSUME stage # "idle", IsDone(p, Fine)' PROVE DoneRow(p)'
    BY <1>2
  <2>1. IsDone(p, Fine)
    BY <1>2 DEF IsDone
  <2>2. \A t \in raw[p] : Reached(t, Begun) => HasRow(p, t)
    BY <1>3, <2>1 DEF RowsInTime, DoneRow
  <2> QED
    BY <1>2, <1>6, <1>12, <2>2 DEF DoneRow, Reached
<1>18. ASSUME NEW b \in Starts(p, Fine)', NEW t \in raw[p], t <= b - Lookback * Fine
       PROVE  HasRow(p, t)'
  <2>1. CASE b \in Starts(p, Fine)
    BY <1>3, <1>12, <1>18, <2>1 DEF RowsInTime, PassedRow
  <2>2. CASE b \notin Starts(p, Fine)
    <3>1. Handling(p, Fine) /\ b = bucket
      BY <1>11, <2>2 DEF Starts
    <3>2. BoundsRow(p) /\ ReadRow(p)
      BY <1>2, <1>3, <3>1 DEF RowsInTime
    <3>3. PICK back : back = Lookback * Fine
      OBVIOUS
    <3>4. back \in Nat /\ back > MaxDelay + 1
      BY <1>4, <3>3, LookbackFacts
    <3>5. t \in Nat
      BY <1>3, RawFacts
    <3>6. t <= bucket - back /\ bucket <= closed /\ oldest <= closed
      BY <1>7, <1>9, <1>10, <1>18, <3>1, <3>3
    <3>7. t < oldest /\ t <= closed /\ t + MaxDelay < Begun
      BY <1>5, <1>7, <1>9, <1>10, <3>4, <3>5, <3>6
    <3>8. t \notin taken
      BY <1>9, <3>5, <3>7
    <3>9. from \in Int
      BY <3>2 DEF BoundsRow
    <3>10. HasRow(p, t)
      BY <3>2, <3>5, <3>7, <3>8, <3>9 DEF BoundsRow, ReadRow, Settled
    <3> QED
      BY <1>12, <3>10
  <2> QED
    BY <2>1, <2>2
<1>19. PassedRow(p)'
    BY <1>2, <1>18 DEF PassedRow
<1> QED
    BY <1>14, <1>15, <1>16, <1>17, <1>19 DEF RowsInTime

LEMMA RowsSame == RowsInv /\ UNCHANGED vars => RowsInv'
BY BaseStep
DEF vars, cycle, retention, RowsInv, RowsInTime, SweptInOrder, PassedRow, OldRow, BoundsRow,
    ReadRow, DoneRow, RawSwept, HasRow, Starts, Reached, Lag, Late, Begun, Settled, Handling,
    IsDone, Pair, Resolution

LEMMA RowsStep ==
    ASSUME LookbackReaches, RowsOutliveRounds, RowsInv, [Next]_vars, Tick => sweep = "idle",
           [CyclesEnd]_vars
    PROVE  RowsInv'
<1>1. TimelyBase'
    BY BaseStep DEF RowsInv
<1>2. CASE UNCHANGED vars
    BY <1>2, RowsSame
<1>3. CASE Tick
  <2>1. faults' = faults
    BY <1>3 DEF Tick
  <2> QED
    BY <1>1, <1>3, <2>1, RowsTick DEF RowsInv
<1>4. CASE \E q \in Pairs, u \in Instants : StoreRound(q, u)
  <2>1. faults' = faults
    BY <1>4 DEF StoreRound
  <2> QED
    BY <1>1, <1>4, <2>1, RowsStore DEF RowsInv
<1>5. CASE RetentionStep
  <2>1. faults' = faults
    BY <1>5 DEF RetentionStep, BeginSweep, DeleteRaw, EndRaw, DeleteBuckets, EndFine, EndCoarse
  <2> QED
    BY <1>1, <1>5, <2>1, RowsSweep DEF RowsInv
<1>6. CASE RollupStep \/ CycleFails
  <2>1. UNCHANGED <<now, raw, sweep, cutoff>>
    BY <1>6
    DEF RollupStep, BeginCycle, ReadMark, ReadRounds, Upsert, NextPair, CycleFails, retention
  <2>2. ASSUME NEW p \in Pairs PROVE SweptInOrder(p)'
    <3>1. RawSwept(p) => RawSwept(p)'
      BY <2>1 DEF RawSwept, Reached
    <3>2. SweptInOrder(p)
      BY DEF RowsInv
    <3> QED
      BY <2>1, <3>1, <3>2 DEF SweptInOrder
  <2>3. CASE CycleFails
    <3>1. faults' <= MaxFaults
      BY <2>3, RowFacts DEF CycleFails
    <3> QED
      BY <1>1, <2>2, <2>3, <3>1, RowsFails DEF RowsInv
  <2>4. CASE RollupStep
    <3>1. faults' = faults
      BY <2>4 DEF RollupStep, BeginCycle, ReadMark, ReadRounds, Upsert, NextPair
    <3>2. NextPair /\ ~UNCHANGED vars => CyclesEnd
      OBVIOUS
    <3>3. NextPair /\ UNCHANGED vars => RowsInv'
      BY <1>2
    <3>4. CASE NextPair /\ ~UNCHANGED vars
      BY <1>1, <2>2, <3>1, <3>2, <3>4, RowsNext DEF RowsInv
    <3>5. CASE BeginCycle \/ ReadMark \/ ReadRounds \/ Upsert
      BY <1>1, <2>2, <3>1, <3>5, RowsBegin, RowsMark, RowsRead, RowsUpsert DEF RowsInv
    <3> QED
      BY <2>4, <3>3, <3>4, <3>5 DEF RollupStep
  <2> QED
    BY <1>6, <2>3, <2>4
<1> QED
    BY <1>2, <1>3, <1>4, <1>5, <1>6 DEF Next, Work

LEMMA RowsInit == Init => RowsInv
<1> SUFFICES ASSUME Init PROVE RowsInv
    OBVIOUS
<1>1. TimelyBase
    BY BaseInit
<1>2. /\ faults = 0 /\ stage = "idle" /\ sweep = "idle" /\ \A p \in Pairs : raw[p] = {}
    BY DEF Init
<1>3. faults <= MaxFaults
    BY <1>2, RollupBoundsAssumption
<1>4. \A p \in Pairs : RowsInTime(p) /\ SweptInOrder(p)
    BY <1>2 DEF RowsInTime, PassedRow, OldRow, SweptInOrder
<1> QED
    BY <1>1, <1>3, <1>4 DEF RowsInv

-----------------------------------------------------------------------------

\* A row of a round that is in the database stays, though it may be written over.
LEMMA RowStays ==
    ASSUME RowsOutliveRounds, RowsInv, [Next]_vars, NEW p \in Pairs, NEW res \in Resolutions,
           NEW b \in Instants, NEW t \in raw[p], BucketOf(t, res) = b, rollup[p][res][b] # {}
    PROVE  rollup'[p][res][b] # {}
<1>1. rollup \in [Pairs -> [Resolutions -> [Instants -> SUBSET Instants]]] /\ TimelyBase
    BY DEF RowsInv, TimelyBase, BucketsInv, RollupType
<1>2. CASE Upsert
  <2>1. PICK bucket, rounds :
          /\ bucket = BucketOf(Least(taken), Resolution)
          /\ rounds = {u \in taken : BucketOf(u, Resolution) = bucket}
          /\ rollup' = [rollup EXCEPT ![Pair][Resolution][bucket] = rounds]
          /\ taken # {} /\ stage = "write"
    BY <1>2 DEF Upsert
  <2>2. Pair \in Pairs /\ Resolution \in Resolutions
    BY <1>1, <2>1, CurrentIsListed
  <2>3. taken \subseteq Nat
    BY <1>1, <2>1, <2>2, BaseFacts DEF TimelyBase, BucketsInv, InHand
  <2>4. Least(taken) \in taken
    BY <2>1, <2>3, LeastIsThere
  <2>5. rounds # {}
    BY <2>1, <2>4
  <2> QED
    BY <1>1, <2>1, <2>2, <2>5
<1>3. CASE DeleteBuckets
  <2>1. sweep \in {"fine", "coarse"} /\ Swept \in Resolutions
    BY <1>3 DEF DeleteBuckets, Swept, Resolutions
  <2>2. PICK doomed \in SUBSET OldBuckets :
          rollup' = [q \in Pairs |-> [rollup[q] EXCEPT ![Swept] =
                       [c \in Instants |-> IF <<q, c>> \in doomed THEN {} ELSE @[c]]]]
    BY <1>3 DEF DeleteBuckets, Batches
  <2>3. rollup'[p] = [rollup[p] EXCEPT ![Swept] =
            [c \in Instants |-> IF <<p, c>> \in doomed THEN {} ELSE rollup[p][Swept][c]]]
    BY <2>2
  <2>4. rollup[p] \in [Resolutions -> [Instants -> SUBSET Instants]]
    BY <1>1
  <2>5. CASE Swept # res
    BY <2>3, <2>4, <2>5
  <2>6. CASE Swept = res
    <3>1. rollup'[p][res][b] = IF <<p, b>> \in doomed THEN {} ELSE rollup[p][res][b]
      BY <2>3, <2>4, <2>6
    <3>2. <<p, b>> \notin doomed
      BY <2>1, <2>6, DeletedRowIsBare
    <3> QED
      BY <3>1, <3>2
  <2> QED
    BY <2>5, <2>6
<1>4. CASE rollup' = rollup
    BY <1>4
<1> QED
    BY <1>2, <1>3, <1>4
    DEF Next, Tick, Work, StoreRound, RollupStep, BeginCycle, ReadMark, ReadRounds, NextPair,
        CycleFails, RetentionStep, BeginSweep, DeleteRaw, EndRaw, EndFine, EndCoarse, vars

LEMMA ReadOnceStep ==
    ASSUME RowsOutliveRounds, RowsInv, SeriesInv, ReadOnce, [SeriesNext]_<<vars, reader>>
    PROVE  ReadOnce'
<1>1. [Next]_vars
    BY DatabaseSteps
<1>2. BucketsInv
    BY DEF RowsInv, TimelyBase
<1>3. CASE UNCHANGED reader
  <2>1. UNCHANGED <<reading, asked, resolution, rows>>
    BY <1>3 DEF reader
  <2> SUFFICES ASSUME reading = "uncovered", NEW b \in Instants, NEW t \in rows[b]
               PROVE  /\ t \in stored'[asked.pair]
                      /\ t \in raw'[asked.pair] => rollup'[asked.pair][resolution][b] # {}
    BY <2>1 DEF ReadOnce
  <2>2. PICK p, res : p = asked.pair /\ res = resolution
    OBVIOUS
  <2>3. p \in Pairs /\ res \in Resolutions /\ BucketOf(t, res) = b
    BY <2>2 DEF SeriesInv
  <2>4. t \in stored[p] /\ (t \in raw[p] => rollup[p][res][b] # {})
    BY <2>2 DEF ReadOnce
  <2>5. t \in stored'[p] /\ (t \in raw'[p] => t \in raw[p])
    BY <1>1, <1>2, <2>3, <2>4, RoundsStay
  <2>6. t \in raw[p] => rollup'[p][res][b] # {}
    BY <1>1, <2>3, <2>4, RowStays
  <2> QED
    BY <2>2, <2>5, <2>6
<1>4. CASE ReadBuckets
  <2>1. /\ reading = "buckets" /\ UNCHANGED <<asked, resolution, stored, raw, rollup>>
        /\ rows' = [b \in Instants |->
             IF AlignedFrom <= b /\ b < asked.to THEN rollup[asked.pair][resolution][b] ELSE {}]
    BY <1>4 DEF ReadBuckets, database
  <2>2. asked.pair \in Pairs /\ resolution \in Resolutions
    BY <2>1 DEF SeriesInv
  <2>3. ASSUME NEW b \in Instants, NEW t \in rows'[b]
        PROVE  t \in stored[asked.pair] /\ rollup[asked.pair][resolution][b] # {}
    <3>1. t \in rollup[asked.pair][resolution][b]
      BY <2>1, <2>3
    <3> QED
      BY <1>2, <2>2, <3>1 DEF BucketsInv, BucketsSound
  <2> QED
    BY <2>1, <2>3 DEF ReadOnce
<1>5. CASE EndSeries \/ NextPage \/ (\E p \in Pairs, limit \in Limits : AskPages(p, limit))
           \/ (\E p \in Pairs, q \in Requests : AskSeries(p, q))
  <2>1. reading' # "uncovered"
    BY <1>5 DEF EndSeries, AskPages, NextPage, AskSeries
  <2> QED
    BY <2>1 DEF ReadOnce
<1> QED
    BY <1>3, <1>4, <1>5 DEF SeriesNext, ReaderStep

\* A point has as many rounds as tags if no two of its tags name one round.
LEMMA TagsApart ==
    ASSUME NEW point, RoundsOf(point) \subseteq Instants,
           \A x \in point.rounds, y \in point.rounds : x[2] = y[2] => x = y
    PROVE  Cardinality(RoundsOf(point)) = Cardinality(point.rounds)
<1>1. PICK S, T : S = point.rounds /\ T = RoundsOf(point)
    OBVIOUS
<1>2. PICK f : f = [x \in S |-> x[2]]
    OBVIOUS
<1>3. T = {x[2] : x \in S}
    BY <1>1 DEF RoundsOf
<1>4. f \in [S -> T] /\ \A x \in S : f[x] = x[2]
    BY <1>2, <1>3
<1>5. \A y \in T : \E x \in S : f[x] = y
    BY <1>3, <1>4
<1>6. \A x, y \in S : f[x] = f[y] => x = y
    BY <1>1, <1>4
<1>7. f \in Injection(S, T)
    BY <1>4, <1>6 DEF Injection, IsInjective
<1>8. f \in Surjection(S, T)
    BY <1>4, <1>5 DEF Surjection
<1>9. IsFiniteSet(T)
    BY <1>1, InstantsFinite
<1> QED
    BY <1>1, <1>7, <1>8, <1>9, FS_Injection

\* A merged point has the tags of all its points.
LEMMA TagsOfMerged ==
    ASSUME NEW P, IsFiniteSet(P)
    PROVE  Merged(P).rounds = UNION {q.rounds : q \in P}
<1>1. CASE P = {}
  <2>1. Cardinality(P) # 1
    BY <1>1, FS_EmptySet
  <2>2. Merged(P) = Missing
    BY <1>1, <2>1 DEF Merged
  <2> QED
    BY <1>1, <2>2 DEF Missing
<1>2. CASE P # {} /\ Cardinality(P) = 1
  <2>1. PICK q : P = {q}
    BY <1>2, FS_Singleton
  <2>2. Merged(P) = CHOOSE x \in P : TRUE
    BY <1>2 DEF Merged
  <2> QED
    BY <2>1, <2>2
<1>3. CASE P # {} /\ Cardinality(P) # 1
    BY <1>3 DEF Merged
<1> QED
    BY <1>1, <1>2, <1>3

\* The tags of a place are those of the rows and of the rounds without one.
LEMMA TagsAtPlace ==
    ASSUME resolution \in Resolutions, NEW uncovered, uncovered \subseteq Instants,
           NEW layout, NEW i
    PROVE  \A x \in Merged(PointsAt(i, layout, uncovered)).rounds :
               \/ x[1] = "row" /\ x = <<"row", x[2]>> /\ \E b \in Instants : x[2] \in rows[b]
               \/ x[1] = "raw" /\ x = <<"raw", x[2]>> /\ x[2] \in uncovered
<1> DEFINE R == {c \in {d \in Instants : rows[d] # {}} : IndexOf(c, layout) = i}
           B == {c \in {BucketOf(t, resolution) : t \in uncovered} : IndexOf(c, layout) = i}
           Alone(b) == {t \in uncovered : BucketOf(t, resolution) = b}
           f == [b \in R |-> RowPoint(rows[b])]
           g == [b \in B |-> RawPoint(Alone(b))]
           P == PointsAt(i, layout, uncovered)
<1>1. IsFiniteSet(R) /\ IsFiniteSet(B)
  <2>1. \A t \in uncovered : BucketOf(t, resolution) \in Instants
    BY BucketIsInstant
  <2>2. R \subseteq Instants /\ B \subseteq Instants
    BY <2>1
  <2> QED
    BY <2>2, InstantsFinite
<1>2. /\ DOMAIN f = R /\ DOMAIN g = B
      /\ f = [x \in DOMAIN f |-> f[x]] /\ g = [x \in DOMAIN g |-> g[x]]
      /\ \A b \in R : f[b] = RowPoint(rows[b])
      /\ \A b \in B : g[b] = RawPoint(Alone(b))
    OBVIOUS
<1>3. P = {f[b] : b \in DOMAIN f} \cup {g[b] : b \in DOMAIN g}
    BY DEF PointsAt
<1>4. /\ \A b \in R : b \in Instants /\ f[b].rounds = {"row"} \X rows[b]
      /\ \A b \in B : g[b].rounds = {"raw"} \X Alone(b)
    BY <1>2 DEF RowPoint, RawPoint
<1>5. \A b : Alone(b) \subseteq uncovered
    OBVIOUS
<1> HIDE DEF R, B, f, g, P, Alone
<1>6. IsFiniteSet(P)
  <2>1. IsFiniteSet({f[b] : b \in DOMAIN f}) /\ IsFiniteSet({g[b] : b \in DOMAIN g})
    BY <1>1, <1>2, ImageIsFinite
  <2> QED
    BY <1>3, <2>1, FS_Union
<1>7. Merged(P).rounds = UNION {q.rounds : q \in P}
    BY <1>6, TagsOfMerged
<1> SUFFICES ASSUME NEW x \in Merged(P).rounds
             PROVE  \/ x[1] = "row" /\ x = <<"row", x[2]>> /\ \E b \in Instants : x[2] \in rows[b]
                    \/ x[1] = "raw" /\ x = <<"raw", x[2]>> /\ x[2] \in uncovered
    BY DEF P
<1>8. PICK q \in P : x \in q.rounds
    BY <1>7
<1>9. CASE \E b \in R : q = f[b]
  <2>1. PICK b \in R : q = f[b]
    BY <1>9
  <2>2. x \in {"row"} \X rows[b] /\ b \in Instants
    BY <1>4, <1>8, <2>1
  <2> QED
    BY <2>2
<1>10. CASE \E b \in B : q = g[b]
  <2>1. PICK b \in B : q = g[b]
    BY <1>10
  <2>2. x \in {"raw"} \X Alone(b)
    BY <1>4, <1>8, <2>1
  <2> QED
    BY <1>5, <2>2
<1> QED
    BY <1>2, <1>3, <1>9, <1>10

LEMMA RowPointsOnce ==
    ASSUME RowsInv, SeriesInv, ReadOnce, reading = "uncovered", NEW i \in DOMAIN RowPoints.points
    PROVE  Cardinality(RoundsOf(RowPoints.points[i])) = Cardinality(RowPoints.points[i].rounds)
<1>1. /\ asked.pair \in Pairs /\ resolution \in Resolutions
      /\ \A b \in Instants :
            rows[b] \subseteq Instants /\ \A t \in rows[b] : BucketOf(t, resolution) = b
    BY DEF SeriesInv
<1>2. PICK layout, uncovered, k :
        /\ layout = RowLayout(asked.from, asked.to, asked.maxPoints, resolution)
        /\ uncovered = Uncovered /\ k = layout.number
    OBVIOUS
<1>3. RowPoints.points = [j \in 0..(k - 1) |-> Merged(PointsAt(j, layout, uncovered))]
    BY <1>2 DEF RowPoints, PointsAt
<1>4. PICK point : point = RowPoints.points[i]
    OBVIOUS
<1>5. point = Merged(PointsAt(i, layout, uncovered))
    BY <1>3, <1>4
<1>6. /\ uncovered \subseteq Instants
      /\ \A t \in uncovered : /\ t \in raw[asked.pair]
                              /\ rollup[asked.pair][resolution][BucketOf(t, resolution)] = {}
    BY <1>1, <1>2 DEF Uncovered, Between, RowsInv, TimelyBase, BucketsInv, RollupType
<1>7. \A x \in point.rounds :
        \/ x[1] = "row" /\ x = <<"row", x[2]>> /\ \E b \in Instants : x[2] \in rows[b]
        \/ x[1] = "raw" /\ x = <<"raw", x[2]>> /\ x[2] \in uncovered
    BY <1>1, <1>5, <1>6, TagsAtPlace
<1>8. ASSUME NEW t \in uncovered, NEW b \in Instants, t \in rows[b] PROVE FALSE
  <2>1. BucketOf(t, resolution) = b
    BY <1>1, <1>8
  <2>2. rollup[asked.pair][resolution][b] # {}
    BY <1>6, <1>8 DEF ReadOnce
  <2>3. rollup[asked.pair][resolution][BucketOf(t, resolution)] = {}
    BY <1>6
  <2> QED
    BY <2>1, <2>2, <2>3
<1>9. \A x \in point.rounds, y \in point.rounds : x[2] = y[2] => x = y
  <2> SUFFICES ASSUME NEW x \in point.rounds, NEW y \in point.rounds, x[2] = y[2] PROVE x = y
    OBVIOUS
  <2>1. x[1] = y[1]
    BY <1>7, <1>8
  <2> QED
    BY <1>7, <2>1
<1>10. RoundsOf(point) \subseteq Instants
    BY <1>1, <1>6, <1>7 DEF RoundsOf
<1> QED
    BY <1>4, <1>9, <1>10, TagsApart

LEMMA RawPointsOnce ==
    ASSUME BucketsInv, SeriesInv, reading = "raw", NEW i \in DOMAIN RawPoints.points
    PROVE  Cardinality(RoundsOf(RawPoints.points[i])) = Cardinality(RawPoints.points[i].rounds)
<1>1. PICK layout, rounds, k :
        /\ layout = RawLayout(asked.from, asked.to, asked.maxPoints)
        /\ rounds = Between(raw[asked.pair], asked.from, asked.to) /\ k = layout.number
    OBVIOUS
<1>2. RawPoints.points = [j \in 0..(k - 1) |->
            IF {t \in rounds : IndexOf(t, layout) = j} = {} THEN Missing
            ELSE RawPoint({t \in rounds : IndexOf(t, layout) = j})]
    BY <1>1 DEF RawPoints
<1>3. PICK point, at : point = RawPoints.points[i] /\ at = {t \in rounds : IndexOf(t, layout) = i}
    OBVIOUS
<1>4. point = IF at = {} THEN Missing ELSE RawPoint(at)
    BY <1>2, <1>3
<1>5. at \subseteq Instants
    BY <1>1, <1>3 DEF SeriesInv, Between, BucketsInv, RollupType
<1>6. point.rounds \subseteq {"raw"} \X at
    BY <1>4 DEF Missing, RawPoint
<1>7. \A x \in point.rounds, y \in point.rounds : x[2] = y[2] => x = y
    BY <1>6
<1>8. RoundsOf(point) \subseteq Instants
    BY <1>5, <1>6 DEF RoundsOf
<1> QED
    BY <1>3, <1>7, <1>8, TagsApart

LEMMA ShownOnce == RowsInv /\ SeriesInv /\ ReadOnce => NoRoundTwice
<1> SUFFICES ASSUME RowsInv, SeriesInv, ReadOnce, Answering PROVE NoRoundTwice
    BY DEF NoRoundTwice
<1>1. CASE reading = "raw"
  <2>1. BucketsInv
    BY DEF RowsInv, TimelyBase
  <2> QED
    BY <1>1, <2>1, RawPointsOnce DEF NoRoundTwice, Answer
<1>2. CASE reading = "uncovered"
  <2>1. Answer = RowPoints
    BY <1>2 DEF Answer
  <2> QED
    BY <1>2, <2>1, RowPointsOnce DEF NoRoundTwice
<1> QED
    BY <1>1, <1>2 DEF Answering

LEMMA ReadsStayOnce ==
    ASSUME RowsOutliveRounds, LookbackReaches
    PROVE  SeriesSpec /\ [][CyclesEnd]_vars => [](RowsInv /\ SeriesInv /\ ReadOnce)
<1>1. SeriesInit => RowsInv /\ SeriesInv /\ ReadOnce
    BY RowsInit, SeriesInvInit DEF SeriesInit, ReadOnce
<1>2. ASSUME RowsInv, SeriesInv, ReadOnce, [SeriesNext]_<<vars, reader>>, [CyclesEnd]_vars
      PROVE  RowsInv' /\ SeriesInv' /\ ReadOnce'
  <2>1. [Next]_vars /\ BucketsInv
    BY <1>2, DatabaseSteps DEF RowsInv, TimelyBase
  <2>2. CASE UNCHANGED vars
    <3>1. RowsInv'
      BY <1>2, <2>2, RowsSame
    <3> QED
      BY <1>2, <2>1, <3>1, SeriesInvStep, ReadOnceStep
  <2>3. CASE ~UNCHANGED vars
    <3>1. Tick => sweep = "idle"
      <4> SUFFICES ASSUME Tick, sweep # "idle" PROVE FALSE
        OBVIOUS
      <4>1. Work \/ ReaderStep
        BY <1>2, <2>3 DEF SeriesNext, vars
      <4>2. now' = now
        BY <4>1 DEF Work, StoreRound, RollupStep, BeginCycle, ReadMark, ReadRounds, Upsert,
            NextPair, CycleFails, RetentionStep, BeginSweep, DeleteRaw, EndRaw, DeleteBuckets,
            EndFine, EndCoarse, ReaderStep, AskSeries, ReadBuckets, EndSeries, AskPages, NextPage,
            database
      <4>3. now' = now + 1 /\ now \in Nat
        BY <1>2, RowFacts DEF Tick
      <4> QED
        BY <4>2, <4>3
    <3> QED
      BY <1>2, <2>1, <3>1, RowsStep, SeriesInvStep, ReadOnceStep
  <2> QED
    BY <2>2, <2>3
<1> QED
    BY <1>1, <1>2, PTL DEF SeriesSpec

\* A series counts a round once (api.rs:858-1309), although it reads the rows and the rounds without
\* a row one after the other and retention deletes rows in between, if it keeps rows longer than
\* rounds, by what the cycles may be late too, and no cycle is cut off by its batch: it deletes
\* the rounds of a row before the row (retention_worker.rs:56), so that none comes back without it.
THEOREM SeriesCountsOnce ==
    RowsOutliveRounds /\ LookbackReaches =>
        (SeriesSpec /\ [][CyclesEnd]_vars => []NoRoundTwice)
<1> SUFFICES ASSUME RowsOutliveRounds, LookbackReaches
             PROVE  SeriesSpec /\ [][CyclesEnd]_vars => []NoRoundTwice
    OBVIOUS
<1> QED
    BY ReadsStayOnce, ShownOnce, PTL
-----------------------------------------------------------------------------
(***************************************************************************)
(* Sums: what a fold over a finite set returns.                            *)
(***************************************************************************)

\* What holds of a finite set whenever it holds of the smaller ones in it holds of all finite
\* sets: the smallest of those for which it does not would be a counterexample.
LEMMA SubsetInduction ==
    ASSUME NEW S, IsFiniteSet(S), NEW C,
           \A T \in SUBSET S : (\A R \in SUBSET T : R # T => R \in C) => T \in C
    PROVE  \A T \in SUBSET S : T \in C
<1> DEFINE Sizes == {Cardinality(T) : T \in (SUBSET S) \ C}
<1>1. \A T \in SUBSET S : IsFiniteSet(T) /\ Cardinality(T) \in Nat
    BY FS_Subset, FS_CardinalityType
<1> SUFFICES ASSUME (SUBSET S) \ C # {} PROVE FALSE
    OBVIOUS
<1>2. Sizes \subseteq Nat /\ Sizes # {}
    BY <1>1
<1>3. PICK n : n = Least(Sizes)
    OBVIOUS
<1>4. n \in Sizes /\ \A m \in Sizes : n <= m
    BY <1>2, <1>3, LeastIsThere
<1>5. PICK T \in (SUBSET S) \ C : n = Cardinality(T)
    BY <1>4
<1>6. PICK R \in SUBSET T : R # T /\ R \in (SUBSET S) \ C
    BY <1>5
<1>7. Cardinality(R) <= Cardinality(T) /\ Cardinality(R) # Cardinality(T)
    BY <1>1, <1>5, <1>6, FS_Subset
<1>8. n <= Cardinality(R)
    BY <1>4, <1>6
<1>9. n \in Nat /\ Cardinality(R) \in Nat
    BY <1>1, <1>5, <1>6
<1> QED
    BY <1>5, <1>7, <1>8, <1>9

\* How a sum is made: one element is taken away at a time.
Taken(s) == CHOOSE x \in s : TRUE
Adds(g, f, D) ==
    g = [s \in D |-> IF s = {} THEN 0 ELSE f[Taken(s)] + g[s \ {Taken(s)}]]

\* The sum is what the recursive function gives that is chosen to add up the subsets.
LEMMA SumIsChosen ==
    ASSUME NEW f, NEW S
    PROVE  SumFunctionOnSet(f, S) = (CHOOSE g : Adds(g, f, SUBSET S))[S]
BY DEF SumFunctionOnSet, FoldFunctionOnSet, MapThenFoldSet, Adds, Taken

\* There is one, for finite sets: up to a size, it is that of the size before and one step more.
LEMMA SumsExist ==
    ASSUME NEW f, NEW S, IsFiniteSet(S)
    PROVE  \E g : Adds(g, f, SUBSET S)
<1> DEFINE Upto(n) == {s \in SUBSET S : Cardinality(s) <= n}
           Bad == {n \in Nat : ~ \E g : Adds(g, f, Upto(n))}
<1>1. \A T \in SUBSET S : /\ IsFiniteSet(T) /\ Cardinality(T) \in Nat
                          /\ Cardinality(T) <= Cardinality(S)
                          /\ Cardinality(T) = 0 <=> T = {}
    BY FS_Subset, FS_CardinalityType, FS_EmptySet
<1>2. \A T \in SUBSET S : T # {} =>
          /\ Taken(T) \in T /\ T \ {Taken(T)} \in SUBSET S
          /\ Cardinality(T \ {Taken(T)}) = Cardinality(T) - 1
    BY <1>1, FS_RemoveElement DEF Taken
<1>3. \E g : Adds(g, f, Upto(0))
  <2>1. \A s \in Upto(0) : s = {}
    BY <1>1
  <2>2. Adds([s \in Upto(0) |-> 0], f, Upto(0))
    BY <2>1 DEF Adds
  <2> QED
    BY <2>2
<1>4. ASSUME NEW n \in Nat, NEW g, Adds(g, f, Upto(n))
      PROVE  \E k : Adds(k, f, Upto(n + 1))
  <2> DEFINE k == [s \in Upto(n + 1) |-> IF s = {} THEN 0 ELSE f[Taken(s)] + g[s \ {Taken(s)}]]
  <2>1. \A s \in Upto(n) : s \in Upto(n + 1) /\ k[s] = g[s]
    <3> SUFFICES ASSUME NEW s \in Upto(n) PROVE s \in Upto(n + 1) /\ k[s] = g[s]
      OBVIOUS
    <3>1. s \in Upto(n + 1)
      BY <1>1
    <3>2. g[s] = IF s = {} THEN 0 ELSE f[Taken(s)] + g[s \ {Taken(s)}]
      BY <1>4 DEF Adds
    <3> QED
      BY <3>1, <3>2
  <2>2. \A s \in Upto(n + 1) : s # {} => s \ {Taken(s)} \in Upto(n)
    BY <1>1, <1>2
  <2>3. k = [s \in Upto(n + 1) |-> IF s = {} THEN 0 ELSE f[Taken(s)] + k[s \ {Taken(s)}]]
    BY <2>1, <2>2
  <2>4. Adds(k, f, Upto(n + 1))
    BY <2>3 DEF Adds
  <2> QED
    BY <2>4
<1>5. Bad = {}
  <2> SUFFICES ASSUME Bad # {} PROVE FALSE
    OBVIOUS
  <2>1. PICK m : m = Least(Bad)
    OBVIOUS
  <2>2. m \in Bad /\ \A y \in Bad : m <= y
    BY <2>1, LeastIsThere
  <2>3. m # 0
    BY <1>3, <2>2
  <2>4. m - 1 \in Nat /\ m - 1 \notin Bad
    <3>1. m \in Nat
      BY <2>2
    <3> HIDE DEF Bad
    <3> QED
      BY <2>2, <2>3, <3>1
  <2>5. PICK g : Adds(g, f, Upto(m - 1))
    BY <2>4
  <2>6. \E k : Adds(k, f, Upto((m - 1) + 1))
    BY <1>4, <2>4, <2>5
  <2>7. (m - 1) + 1 = m
    BY <2>2
  <2> QED
    BY <2>2, <2>6, <2>7
<1>6. Cardinality(S) \in Nat /\ Upto(Cardinality(S)) = SUBSET S
    BY <1>1
<1>7. Cardinality(S) \notin Bad
    BY <1>5
<1> QED
    BY <1>6, <1>7

\* Two ways to sum agree where both are defined.
LEMMA SumsAgree ==
    ASSUME NEW f, NEW S, IsFiniteSet(S), NEW T \in SUBSET S,
           NEW g, NEW k, Adds(g, f, SUBSET S), Adds(k, f, SUBSET T)
    PROVE  g[T] = k[T]
<1> DEFINE Bad == {Cardinality(s) : s \in {r \in SUBSET T : g[r] # k[r]}}
<1>1. \A s \in SUBSET T : IsFiniteSet(s) /\ Cardinality(s) \in Nat
    BY FS_Subset, FS_CardinalityType
<1>2. Bad = {}
  <2> SUFFICES ASSUME Bad # {} PROVE FALSE
    OBVIOUS
  <2>1. PICK m : m = Least(Bad)
    OBVIOUS
  <2>2. Bad \subseteq Nat
    BY <1>1
  <2>3. m \in Bad /\ \A y \in Bad : m <= y
    BY <2>1, <2>2, LeastIsThere
  <2>4. PICK s \in SUBSET T : g[s] # k[s] /\ m = Cardinality(s)
    BY <2>3
  <2>5. s \in SUBSET S
    OBVIOUS
  <2>6. /\ g[s] = IF s = {} THEN 0 ELSE f[Taken(s)] + g[s \ {Taken(s)}]
        /\ k[s] = IF s = {} THEN 0 ELSE f[Taken(s)] + k[s \ {Taken(s)}]
    BY <2>5 DEF Adds
  <2>7. s # {}
    BY <2>4, <2>6
  <2>8. Taken(s) \in s
    BY <2>7 DEF Taken
  <2>9. Cardinality(s \ {Taken(s)}) = Cardinality(s) - 1
    BY <1>1, <2>8, FS_RemoveElement
  <2>10. s \ {Taken(s)} \in SUBSET T /\ g[s \ {Taken(s)}] # k[s \ {Taken(s)}]
    BY <2>4, <2>6, <2>7
  <2>11. m <= m - 1 /\ m \in Nat
    BY <1>1, <2>3, <2>4, <2>9, <2>10
  <2> QED
    BY <2>11
<1> QED
    BY <1>2

\* So that a sum is what is taken and the sum of the rest.
LEMMA SumFacts ==
    ASSUME NEW f, NEW S, IsFiniteSet(S)
    PROVE  /\ S = {} => SumFunctionOnSet(f, S) = 0
           /\ S # {} => SumFunctionOnSet(f, S) = f[Taken(S)] + SumFunctionOnSet(f, S \ {Taken(S)})
<1>1. PICK g : g = CHOOSE k : Adds(k, f, SUBSET S)
    OBVIOUS
<1>2. Adds(g, f, SUBSET S) /\ SumFunctionOnSet(f, S) = g[S]
    BY <1>1, SumsExist, SumIsChosen
<1>3. g[S] = IF S = {} THEN 0 ELSE f[Taken(S)] + g[S \ {Taken(S)}]
    BY <1>2 DEF Adds
<1>4. ASSUME S # {} PROVE g[S \ {Taken(S)}] = SumFunctionOnSet(f, S \ {Taken(S)})
  <2>1. PICK T : T = S \ {Taken(S)}
    OBVIOUS
  <2>2. T \in SUBSET S /\ IsFiniteSet(T)
    BY <2>1, FS_Subset
  <2>3. PICK k : k = CHOOSE h : Adds(h, f, SUBSET T)
    OBVIOUS
  <2>4. Adds(k, f, SUBSET T) /\ SumFunctionOnSet(f, T) = k[T]
    BY <2>2, <2>3, SumsExist, SumIsChosen
  <2>5. g[T] = k[T]
    BY <1>2, <2>2, <2>4, SumsAgree
  <2> QED
    BY <2>1, <2>4, <2>5
<1> QED
    BY <1>2, <1>3, <1>4

LEMMA SumOfNone == ASSUME NEW f PROVE SumFunctionOnSet(f, {}) = 0
BY SumFacts, FS_EmptySet

\* A sum of numbers is one, and does not depend on the order in which they are added.
LEMMA SumTakesOut ==
    ASSUME NEW f, NEW S, IsFiniteSet(S), \A x \in S : f[x] \in Nat
    PROVE  /\ SumFunctionOnSet(f, S) \in Nat
           /\ \A x \in S : SumFunctionOnSet(f, S) = f[x] + SumFunctionOnSet(f, S \ {x})
<1> DEFINE Total(T) == SumFunctionOnSet(f, T)
           Good(T) == Total(T) \in Nat /\ \A x \in T : Total(T) = f[x] + Total(T \ {x})
           C == {T \in SUBSET S : Good(T)}
<1>1. \A T \in SUBSET S : IsFiniteSet(T)
    BY FS_Subset
<1>2. ASSUME NEW T \in SUBSET S, \A R \in SUBSET T : R # T => R \in C PROVE Good(T)
  <2>1. CASE T = {}
    BY <2>1, SumOfNone
  <2>2. CASE T # {}
    <3>1. PICK c : c = Taken(T)
      OBVIOUS
    <3>2. c \in T
      BY <2>2, <3>1 DEF Taken
    <3>3. Total(T) = f[c] + Total(T \ {c})
      BY <1>1, <2>2, <3>1, SumFacts
    <3>4. \A x \in T : Good(T \ {x})
      <4> SUFFICES ASSUME NEW x \in T PROVE Good(T \ {x})
        OBVIOUS
      <4>1. T \ {x} \in SUBSET T /\ T \ {x} # T
        OBVIOUS
      <4>2. T \ {x} \in C
        BY <1>2, <4>1
      <4> QED
        BY <4>2
    <3>5. \A x \in S : f[x] \in Nat
      OBVIOUS
    <3> HIDE DEF Total, C
    <3>6. Total(T) \in Nat
      BY <3>2, <3>3, <3>4, <3>5
    <3>7. ASSUME NEW x \in T, x # c PROVE Total(T) = f[x] + Total(T \ {x})
      <4>1. x \in T \ {c} /\ c \in T \ {x} /\ (T \ {c}) \ {x} = (T \ {x}) \ {c}
        BY <3>2, <3>7
      <4>2. PICK n : n = Total((T \ {c}) \ {x})
        OBVIOUS
      <4>3. Total(T \ {c}) = f[x] + n
        BY <3>2, <3>4, <4>1, <4>2
      <4>4. Total(T \ {x}) = f[c] + n
        BY <3>4, <4>1, <4>2
      <4>5. n \in Nat
        <5>1. (T \ {c}) \ {x} \in SUBSET T /\ (T \ {c}) \ {x} # T
          BY <4>1
        <5>2. (T \ {c}) \ {x} \in C
          BY <1>2, <5>1
        <5> QED
          BY <4>2, <5>2 DEF C
      <4>6. f[x] \in Nat /\ f[c] \in Nat
        BY <3>2, <3>5
      <4> QED
        BY <3>3, <4>3, <4>4, <4>5, <4>6
    <3> QED
      BY <3>3, <3>6, <3>7
  <2> QED
    BY <2>1, <2>2
<1>3. S \in C
  <2>1. \A T \in SUBSET S : (\A R \in SUBSET T : R # T => R \in C) => T \in C
    BY <1>2
  <2> HIDE DEF C
  <2> QED
    BY <2>1, SubsetInduction
<1> QED
    BY <1>3

\* A sum over more is not less.
LEMMA SumGrows ==
    ASSUME NEW f, NEW S, IsFiniteSet(S), \A x \in S : f[x] \in Nat, NEW T \in SUBSET S
    PROVE  SumFunctionOnSet(f, T) <= SumFunctionOnSet(f, S)
<1> DEFINE Total(R) == SumFunctionOnSet(f, R)
           C == {R \in SUBSET S : \A Q \in SUBSET R : Total(Q) <= Total(R)}
<1>1. \A R \in SUBSET S : /\ IsFiniteSet(R) /\ Total(R) \in Nat
                          /\ \A x \in R : f[x] \in Nat /\ Total(R) = f[x] + Total(R \ {x})
    BY FS_Subset, SumTakesOut
<1>2. ASSUME NEW R \in SUBSET S, \A Q \in SUBSET R : Q # R => Q \in C, NEW Q \in SUBSET R
      PROVE  Total(Q) <= Total(R)
  <2>1. Total(Q) \in Nat /\ Total(R) \in Nat
    BY <1>1
  <2>2. CASE Q # R
    <3>1. PICK x \in R : x \notin Q
      BY <2>2
    <3>2. R \ {x} \in C /\ Q \in SUBSET (R \ {x})
      BY <1>2, <3>1
    <3>3. Total(Q) <= Total(R \ {x})
      BY <3>2
    <3>4. Total(R) = f[x] + Total(R \ {x}) /\ f[x] \in Nat /\ Total(R \ {x}) \in Nat
      BY <1>1
    <3> HIDE DEF Total
    <3> QED
      BY <2>1, <3>3, <3>4
  <2>3. CASE Q = R
    <3> HIDE DEF Total
    <3> QED
      BY <2>1, <2>3
  <2> QED
    BY <2>2, <2>3
<1>3. S \in C
  <2>1. \A R \in SUBSET S : (\A Q \in SUBSET R : Q # R => Q \in C) => R \in C
    BY <1>2
  <2> HIDE DEF C
  <2> QED
    BY <2>1, SubsetInduction
<1> QED
    BY <1>3

\* The sets A[q] are apart, f[q] is the size of A[q], and together they are U.
Partition(P, f, A, U) ==
    /\ \A q \in P : IsFiniteSet(A[q]) /\ f[q] = Cardinality(A[q])
    /\ \A q, r \in P : q # r => A[q] \cap A[r] = {}
    /\ \A t : t \in U <=> \E q \in P : t \in A[q]

\* The sizes of sets that are apart add up to the size of all of them together.
LEMMA SizesAddUp ==
    ASSUME NEW P, IsFiniteSet(P), NEW f, NEW A, NEW U, Partition(P, f, A, U)
    PROVE  IsFiniteSet(U) /\ SumFunctionOnSet(f, P) = Cardinality(U)
<1> DEFINE All(T) == UNION {A[q] : q \in T}
           Total(T) == SumFunctionOnSet(f, T)
           C == {T \in SUBSET P : IsFiniteSet(All(T)) /\ Total(T) = Cardinality(All(T))}
<1>0. /\ \A q \in P : IsFiniteSet(A[q]) /\ f[q] = Cardinality(A[q])
      /\ \A q, r \in P : q # r => A[q] \cap A[r] = {}
    BY DEF Partition
<1>1. \A q \in P : f[q] \in Nat
    BY <1>0, FS_CardinalityType
<1>2. ASSUME NEW T \in SUBSET P, \A R \in SUBSET T : R # T => R \in C
      PROVE  T \in C
  <2>1. CASE T = {}
    <3>1. All(T) = {}
      BY <2>1
    <3> QED
      BY <2>1, <3>1, SumOfNone, FS_EmptySet
  <2>2. CASE T # {}
    <3>1. PICK q \in T : TRUE
      BY <2>2
    <3>2. T \ {q} \in C
      BY <1>2, <3>1
    <3>3. All(T) = All(T \ {q}) \cup A[q] /\ All(T \ {q}) \cap A[q] = {}
      BY <1>0, <3>1
    <3>4. IsFiniteSet(T)
      BY FS_Subset
    <3>5. Total(T) = f[q] + Total(T \ {q})
      BY <1>1, <3>1, <3>4, SumTakesOut
    <3>6. f[q] = Cardinality(A[q]) /\ IsFiniteSet(A[q])
      BY <1>0, <3>1
    <3> HIDE DEF All, Total
    <3>7. IsFiniteSet(All(T \ {q})) /\ Total(T \ {q}) = Cardinality(All(T \ {q}))
      BY <3>2
    <3>8. /\ IsFiniteSet(All(T \ {q}) \cup A[q])
          /\ Cardinality(All(T \ {q}) \cup A[q])
                = Cardinality(All(T \ {q})) + Cardinality(A[q])
                  - Cardinality(All(T \ {q}) \cap A[q])
      BY <3>6, <3>7, FS_Union
    <3>9. /\ Cardinality(All(T \ {q}) \cap A[q]) = 0
          /\ Cardinality(A[q]) \in Nat /\ Cardinality(All(T \ {q})) \in Nat
      BY <3>3, <3>6, <3>7, FS_EmptySet, FS_CardinalityType
    <3>10. Total(T) = Cardinality(All(T)) /\ IsFiniteSet(All(T))
      <4> HIDE DEF C
      <4> QED
        BY <3>3, <3>5, <3>6, <3>7, <3>8, <3>9
    <3> QED
      BY <3>10
  <2> QED
    BY <2>1, <2>2
<1>3. P \in C
  <2>1. \A R \in SUBSET P : (\A Q \in SUBSET R : Q # R => Q \in C) => R \in C
    BY <1>2
  <2> HIDE DEF C
  <2> QED
    BY <2>1, SubsetInduction
<1>4. All(P) = U
    BY DEF Partition
<1> QED
    BY <1>3, <1>4
-----------------------------------------------------------------------------
(***************************************************************************)
(* What points tell: quantiles, and histograms that add up.                *)
(***************************************************************************)

LEMMA FiniteHasGreatest ==
    ASSUME NEW S, S \subseteq Nat, IsFiniteSet(S), S # {}
    PROVE  \E m \in S : \A y \in S : y <= m
<1> DEFINE C == {T \in SUBSET S : T # {} => \E m \in T : \A y \in T : y <= m}
<1>1. ASSUME NEW T \in SUBSET S, \A R \in SUBSET T : R # T => R \in C, T # {}
      PROVE  \E m \in T : \A y \in T : y <= m
  <2>1. PICK x \in T : TRUE
    BY <1>1
  <2>2. PICK R : R = T \ {x}
    OBVIOUS
  <2>3. R \in C
    BY <1>1, <2>1, <2>2
  <2>4. x \in Nat /\ \A y \in T : y \in Nat
    OBVIOUS
  <2>5. CASE R = {}
    <3>1. \A y \in T : y = x
      BY <2>2, <2>5
    <3> QED
      BY <2>4, <3>1
  <2>6. CASE R # {}
    <3>1. PICK m \in R : \A y \in R : y <= m
      BY <2>3, <2>6
    <3>2. m \in T /\ \A y \in T : y = x \/ y <= m
      BY <2>2, <3>1
    <3>3. CASE x <= m
      BY <3>2, <3>3
    <3>4. CASE ~(x <= m)
      <4>1. \A y \in T : y <= x
        BY <2>4, <3>2, <3>4
      <4> QED
        BY <4>1
    <3> QED
      BY <3>3, <3>4
  <2> QED
    BY <2>5, <2>6
<1>2. S \in C
  <2>1. \A T \in SUBSET S : (\A R \in SUBSET T : R # T => R \in C) => T \in C
    BY <1>1
  <2> HIDE DEF C
  <2> QED
    BY <2>1, SubsetInduction
<1> QED
    BY <1>2

\* The first bin up to which there are k samples has k up to it, and fewer before it.
LEMMA FirstBin ==
    ASSUME NEW h \in [Bins -> Nat], NEW k \in Nat, 0 < k, k <= Samples(h), NEW q,
           q = Min({b \in Bins : UpTo(h, b) >= k})
    PROVE  /\ q \in Bins /\ UpTo(h, q) \in Nat /\ UpTo(h, q) >= k
           /\ UpTo(h, q - 1) \in Nat /\ UpTo(h, q - 1) < k
<1> DEFINE Below(n) == {b \in Bins : b <= n}
           Enough == {b \in Bins : UpTo(h, b) >= k}
<1>1. IsFiniteSet(Bins) /\ Bins \subseteq Nat /\ \A b \in Bins : h[b] \in Nat
    BY BinsAssumption
<1>2. \A n : IsFiniteSet(Below(n)) /\ Below(n) \subseteq Nat /\ \A b \in Below(n) : h[b] \in Nat
    BY <1>1, FS_Subset
<1>3. \A n : UpTo(h, n) = SumFunctionOnSet(h, Below(n)) /\ UpTo(h, n) \in Nat
  <2> SUFFICES ASSUME NEW n PROVE UpTo(h, n) = SumFunctionOnSet(h, Below(n)) /\ UpTo(h, n) \in Nat
    OBVIOUS
  <2>1. UpTo(h, n) = SumFunctionOnSet(h, Below(n))
    BY DEF UpTo
  <2>2. SumFunctionOnSet(h, Below(n)) \in Nat
    BY <1>2, SumTakesOut
  <2> QED
    BY <2>1, <2>2
<1>4. Samples(h) = SumFunctionOnSet(h, Bins)
    BY DEF Samples, SumFunction
<1>5. Bins # {}
  <2> SUFFICES ASSUME Bins = {} PROVE FALSE
    OBVIOUS
  <2>1. Samples(h) = 0
    BY <1>4, SumOfNone
  <2> QED
    BY <2>1
<1>6. Enough # {} /\ Enough \subseteq Nat
  <2>1. PICK m \in Bins : \A b \in Bins : b <= m
    BY <1>1, <1>5, FiniteHasGreatest
  <2>2. Below(m) = Bins
    BY <2>1
  <2>3. UpTo(h, m) = Samples(h)
    BY <1>3, <1>4, <2>2
  <2> QED
    BY <1>1, <2>3
<1>7. q \in Enough /\ \A b \in Enough : q <= b
    BY <1>6, LeastIsThere DEF Min, Least
<1>8. q \in Bins /\ q \in Nat /\ UpTo(h, q) >= k
    BY <1>1, <1>7
<1>9. UpTo(h, q - 1) < k
  <2>1. CASE Below(q - 1) = {}
    BY <1>3, <2>1, SumOfNone
  <2>2. CASE Below(q - 1) # {}
    <3>1. PICK m \in Below(q - 1) : \A b \in Below(q - 1) : b <= m
      BY <1>2, <2>2, FiniteHasGreatest
    <3>2. m \in Bins /\ m \in Nat /\ m <= q - 1
      BY <1>1, <3>1
    <3>3. Below(m) = Below(q - 1)
      <4>1. \A b \in Bins : b \in Nat
        BY <1>1
      <4>2. \A b \in Bins : b <= q - 1 => b <= m
        BY <3>1
      <4>3. \A b \in Bins : b <= m => b <= q - 1
        BY <1>8, <3>2, <4>1
      <4> QED
        BY <4>2, <4>3
    <3>4. UpTo(h, m) = UpTo(h, q - 1)
      BY <1>3, <3>3
    <3>5. m \notin Enough
      BY <1>7, <1>8, <3>2
    <3>6. ~(UpTo(h, m) >= k)
      BY <3>2, <3>5
    <3> QED
      BY <1>3, <3>4, <3>6
  <2> QED
    BY <2>1, <2>2
<1> QED
    BY <1>3, <1>8, <1>9

\* What a quantile of a histogram may be: no latency if it is empty, and otherwise a bin up to
\* which there are the percent of its samples, up to one.
Ranked(q, h, percent) ==
    /\ q = NoLatency <=> Samples(h) = 0
    /\ Samples(h) # 0 =>
        /\ 100 * (UpTo(h, q) + 1) >= percent * Samples(h)
        /\ 100 * (UpTo(h, q - 1) - 1) <= percent * Samples(h)

LEMMA SamplesAreNumbers == ASSUME NEW h \in [Bins -> Nat] PROVE Samples(h) \in Nat
BY BinsAssumption, SumTakesOut DEF Samples, SumFunction

LEMMA QuantileRanked ==
    ASSUME NEW h \in [Bins -> Nat]
    PROVE  Ranked(Quantile(h, 50), h, 50) /\ Ranked(Quantile(h, 95), h, 95)
<1>1. PICK n : n = Samples(h)
    OBVIOUS
<1>2. n \in Nat
    BY <1>1, SamplesAreNumbers
<1>3. CASE n = 0
    BY <1>1, <1>3 DEF Ranked, Quantile
<1>4. CASE n # 0
  <2>1. ASSUME NEW percent \in {50, 95} PROVE Ranked(Quantile(h, percent), h, percent)
    <3>1. PICK k : k = CeilDiv(percent * n, 100)
      OBVIOUS
    <3>2. k \in Nat /\ 0 < k /\ k <= n /\ 100 * k >= percent * n /\ 100 * (k - 1) < percent * n
      BY <1>2, <1>4, <3>1 DEF CeilDiv
    <3>3. PICK q : q = Quantile(h, percent)
      OBVIOUS
    <3>4. q = Min({b \in Bins : UpTo(h, b) >= k})
      BY <1>1, <1>4, <3>1, <3>3 DEF Quantile
    <3>5. /\ q \in Bins /\ UpTo(h, q) \in Nat /\ UpTo(h, q) >= k
          /\ UpTo(h, q - 1) \in Nat /\ UpTo(h, q - 1) < k
      BY <1>1, <3>2, <3>4, FirstBin
    <3>6. q # NoLatency
      BY <3>5, BinsAssumption
    <3>7. /\ 100 * (UpTo(h, q) + 1) >= percent * n
          /\ 100 * (UpTo(h, q - 1) - 1) <= percent * n
      <4>1. PICK u, v : u = UpTo(h, q) /\ v = UpTo(h, q - 1)
        OBVIOUS
      <4>2. u \in Nat /\ v \in Nat /\ u >= k /\ v < k
        BY <3>5, <4>1
      <4>3. 100 * (u + 1) >= percent * n /\ 100 * (v - 1) <= percent * n
        BY <1>2, <3>2, <4>2
      <4> QED
        BY <4>1, <4>3
    <3> QED
      BY <1>1, <1>4, <3>3, <3>6, <3>7 DEF Ranked
  <2> QED
    BY <2>1
<1> QED
    BY <1>3, <1>4

LEMMA PercentileRanked ==
    ASSUME NEW h \in [Bins -> Nat]
    PROVE  Ranked(Percentile(h, 50), h, 50) /\ Ranked(Percentile(h, 95), h, 95)
<1>1. PICK n : n = Samples(h)
    OBVIOUS
<1>2. n \in Nat
    BY <1>1, SamplesAreNumbers
<1>3. CASE n = 0
    BY <1>1, <1>3 DEF Ranked, Percentile
<1>4. CASE n # 0
  <2>1. ASSUME NEW percent \in {50, 95} PROVE Ranked(Percentile(h, percent), h, percent)
    <3>1. PICK i : i = (percent * (n - 1) + 50) \div 100
      OBVIOUS
    <3>2. i \in Nat /\ i + 1 <= n /\ 100 * (i + 2) >= percent * n /\ 100 * (i - 1) <= percent * n
      BY <1>2, <1>4, <3>1
    <3>3. PICK q : q = Percentile(h, percent)
      OBVIOUS
    <3>4. q = Min({b \in Bins : UpTo(h, b) >= i + 1})
      <4>1. \A b \in Bins : UpTo(h, b) \in Nat
        <5> SUFFICES ASSUME NEW b \in Bins PROVE UpTo(h, b) \in Nat
          OBVIOUS
        <5>1. PICK B : B = {c \in Bins : c <= b}
          OBVIOUS
        <5>2. IsFiniteSet(B) /\ \A c \in B : h[c] \in Nat
          BY <5>1, BinsAssumption, FS_Subset
        <5> QED
          BY <5>1, <5>2, SumTakesOut DEF UpTo
      <4>2. \A b \in Bins : UpTo(h, b) > i <=> UpTo(h, b) >= i + 1
        BY <3>2, <4>1
      <4>3. {b \in Bins : UpTo(h, b) > i} = {b \in Bins : UpTo(h, b) >= i + 1}
        BY <4>2
      <4>4. q = Min({b \in Bins : UpTo(h, b) > i})
        BY <1>1, <1>4, <3>1, <3>3 DEF Percentile
      <4> QED
        BY <4>3, <4>4
    <3>5. /\ q \in Bins /\ UpTo(h, q) \in Nat /\ UpTo(h, q) >= i + 1
          /\ UpTo(h, q - 1) \in Nat /\ UpTo(h, q - 1) < i + 1
      <4>1. PICK k : k = i + 1
        OBVIOUS
      <4>2. k \in Nat /\ 0 < k /\ k <= Samples(h)
        BY <1>1, <3>2, <4>1
      <4> QED
        BY <3>4, <4>1, <4>2, FirstBin
    <3>6. q # NoLatency
      BY <3>5, BinsAssumption
    <3>7. /\ 100 * (UpTo(h, q) + 1) >= percent * n
          /\ 100 * (UpTo(h, q - 1) - 1) <= percent * n
      <4>1. PICK u, v : u = UpTo(h, q) /\ v = UpTo(h, q - 1)
        OBVIOUS
      <4>2. u \in Nat /\ v \in Nat /\ u >= i + 1 /\ v < i + 1
        BY <3>5, <4>1
      <4>3. 100 * (u + 1) >= percent * n /\ 100 * (v - 1) <= percent * n
        BY <1>2, <3>2, <4>2
      <4> QED
        BY <4>1, <4>3
    <3> QED
      BY <1>1, <1>4, <3>3, <3>6, <3>7 DEF Ranked
  <2> QED
    BY <2>1
<1> QED
    BY <1>3, <1>4

\* A point tells of the rounds, and has their histogram.
Faithful(point, rounds) == Tells(point, rounds) /\ point.histogram = HistogramOf(rounds)

LEMMA HistogramType ==
    ASSUME NEW rounds, IsFiniteSet(rounds)
    PROVE  HistogramOf(rounds) \in [Bins -> Nat]
<1>1. \A b \in Bins : Cardinality({t \in rounds : Latency[t] = b}) \in Nat
    BY FS_Subset, FS_CardinalityType
<1> QED
    BY <1>1 DEF HistogramOf

LEMMA RanksTell ==
    ASSUME NEW point, NEW rounds,
           point.status = "missing" <=> rounds = {},
           (\E t \in rounds : Ended[t] \in {"complete", "partial"}) => point.status = "observed",
           (\A t \in rounds : Ended[t] \in {"skipped", "cancelled"}) => point.status # "observed",
           Ranked(point.p50, HistogramOf(rounds), 50), Ranked(point.p95, HistogramOf(rounds), 95)
    PROVE  Tells(point, rounds)
BY DEF Tells, Ranked

LEMMA RawPointFaithful ==
    ASSUME NEW rounds, IsFiniteSet(rounds), rounds # {}
    PROVE  Faithful(RawPoint(rounds), rounds)
<1>1. PICK point : point = RawPoint(rounds)
    OBVIOUS
<1>2. /\ point.status = IF \A t \in rounds : Ended[t] \in {"skipped", "cancelled"}
                        THEN "skipped" ELSE "observed"
      /\ point.histogram = HistogramOf(rounds)
      /\ point.p50 = Percentile(HistogramOf(rounds), 50)
      /\ point.p95 = Percentile(HistogramOf(rounds), 95)
    BY <1>1 DEF RawPoint
<1>3. Ranked(point.p50, HistogramOf(rounds), 50) /\ Ranked(point.p95, HistogramOf(rounds), 95)
    BY <1>2, HistogramType, PercentileRanked
<1> QED
    BY <1>1, <1>2, <1>3, RanksTell DEF Faithful

LEMMA RowPointFaithful ==
    ASSUME NEW rounds, IsFiniteSet(rounds), rounds # {}
    PROVE  Faithful(RowPoint(rounds), rounds)
<1>1. PICK point : point = RowPoint(rounds)
    OBVIOUS
<1>2. /\ point.status = IF \E t \in rounds : Ended[t] \in {"complete", "partial"}
                        THEN "observed" ELSE "skipped"
      /\ point.histogram = HistogramOf(rounds)
      /\ point.p50 = Quantile(HistogramOf(rounds), 50)
      /\ point.p95 = Quantile(HistogramOf(rounds), 95)
    BY <1>1 DEF RowPoint
<1>3. Ranked(point.p50, HistogramOf(rounds), 50) /\ Ranked(point.p95, HistogramOf(rounds), 95)
    BY <1>2, HistogramType, QuantileRanked
<1>4. \A t \in rounds :
        ~(Ended[t] \in {"skipped", "cancelled"} /\ Ended[t] \in {"complete", "partial"})
    OBVIOUS
<1> QED
    BY <1>1, <1>2, <1>3, <1>4, RanksTell DEF Faithful

LEMMA MissingFaithful == Faithful(Missing, {})
<1>1. PICK h : h = HistogramOf({})
    OBVIOUS
<1>2. h \in [Bins -> Nat] /\ \A b \in Bins : h[b] = 0
  <2>1. \A b \in Bins : Cardinality({t \in {} : Latency[t] = b}) = 0
    BY FS_EmptySet
  <2> QED
    BY <1>1, <2>1 DEF HistogramOf
<1>3. Samples(h) = 0
  <2>1. \A b \in Bins : IsFiniteSet({}) /\ h[b] = Cardinality({})
    BY <1>2, FS_EmptySet
  <2>2. PICK A : A = [b \in Bins |-> {}]
    OBVIOUS
  <2>3. \A b \in Bins : IsFiniteSet(A[b]) /\ h[b] = Cardinality(A[b])
    BY <2>1, <2>2
  <2>4. /\ \A b, c \in Bins : b # c => A[b] \cap A[c] = {}
        /\ \A t : t \in {} <=> \E b \in Bins : t \in A[b]
    BY <2>2
  <2>5. Partition(Bins, h, A, {})
    BY <2>3, <2>4 DEF Partition
  <2>6. SumFunctionOnSet(h, Bins) = Cardinality({})
    BY <2>5, BinsAssumption, SizesAddUp
  <2> QED
    BY <1>2, <2>6, FS_EmptySet DEF Samples, SumFunction
<1>4. Ranked(NoLatency, h, 50) /\ Ranked(NoLatency, h, 95)
    BY <1>3 DEF Ranked
<1> QED
    BY <1>1, <1>4, RanksTell DEF Faithful, Missing

\* The histogram of points that have no round in common is that of all their rounds.
LEMMA HistogramsAddUp ==
    ASSUME NEW P, IsFiniteSet(P),
           \A q \in P : IsFiniteSet(RoundsOf(q)) /\ q.histogram = HistogramOf(RoundsOf(q)),
           \A q, r \in P : q # r => RoundsOf(q) \cap RoundsOf(r) = {}
    PROVE  [b \in Bins |-> SumFunction([q \in P |-> q.histogram[b]])]
               = HistogramOf(UNION {RoundsOf(q) : q \in P})
<1>1. ASSUME NEW b \in Bins
      PROVE  SumFunction([q \in P |-> q.histogram[b]])
                 = Cardinality({t \in UNION {RoundsOf(q) : q \in P} : Latency[t] = b})
  <2>1. PICK f, A : /\ f = [q \in P |-> q.histogram[b]]
                    /\ A = [q \in P |-> {t \in RoundsOf(q) : Latency[t] = b}]
    OBVIOUS
  <2>2. ASSUME NEW q \in P PROVE IsFiniteSet(A[q]) /\ f[q] = Cardinality(A[q])
    <3>1. A[q] = {t \in RoundsOf(q) : Latency[t] = b} /\ f[q] = HistogramOf(RoundsOf(q))[b]
      BY <2>1
    <3>2. f[q] = Cardinality({t \in RoundsOf(q) : Latency[t] = b})
      BY <3>1 DEF HistogramOf
    <3> QED
      BY <3>1, <3>2, FS_Subset
  <2>3. \A q, r \in P : q # r => A[q] \cap A[r] = {}
    BY <2>1
  <2>4. PICK U : U = {t \in UNION {RoundsOf(q) : q \in P} : Latency[t] = b}
    OBVIOUS
  <2>5. \A t : t \in U <=> \E q \in P : t \in A[q]
    BY <2>1, <2>4
  <2>6. SumFunction(f) = SumFunctionOnSet(f, P)
    BY <2>1 DEF SumFunction
  <2>7. Partition(P, f, A, U)
    BY <2>2, <2>3, <2>5 DEF Partition
  <2>8. SumFunctionOnSet(f, P) = Cardinality(U)
    BY <2>7, SizesAddUp
  <2> QED
    BY <2>1, <2>4, <2>6, <2>8
<1> QED
    BY <1>1 DEF HistogramOf

\* Points that tell of rounds of their own tell of all of them when they are merged.
LEMMA MergedFaithful ==
    ASSUME NEW P, IsFiniteSet(P),
           \A q \in P : /\ IsFiniteSet(RoundsOf(q)) /\ RoundsOf(q) # {}
                        /\ Faithful(q, RoundsOf(q)),
           \A q, r \in P : q # r => RoundsOf(q) \cap RoundsOf(r) = {}
    PROVE  Faithful(Merged(P), UNION {RoundsOf(q) : q \in P})
<1> DEFINE all == UNION {RoundsOf(q) : q \in P}
<1>1. CASE P = {}
  <2>1. Cardinality(P) # 1 /\ all = {}
    BY <1>1, FS_EmptySet
  <2>2. Merged(P) = Missing
    BY <1>1, <2>1 DEF Merged
  <2> QED
    BY <2>1, <2>2, MissingFaithful
<1>2. CASE P # {} /\ Cardinality(P) = 1
  <2>1. PICK q : P = {q}
    BY <1>2, FS_Singleton
  <2>2. Merged(P) = CHOOSE x \in P : TRUE
    BY <1>2 DEF Merged
  <2>3. Merged(P) = q /\ all = RoundsOf(q)
    BY <2>1, <2>2
  <2> QED
    BY <2>1, <2>3
<1>3. CASE P # {} /\ Cardinality(P) # 1
  <2>1. PICK h : h = [b \in Bins |-> SumFunction([q \in P |-> q.histogram[b]])]
    OBVIOUS
  <2>2. PICK point : point = Merged(P)
    OBVIOUS
  <2>3. /\ point.status = MergedStatus(P) /\ point.histogram = h
        /\ point.p50 = Quantile(h, 50) /\ point.p95 = Quantile(h, 95)
    BY <1>3, <2>1, <2>2 DEF Merged
  <2>4. h = HistogramOf(all)
    BY <2>1, HistogramsAddUp DEF Faithful
  <2>5. IsFiniteSet(all)
    <3>1. IsFiniteSet({RoundsOf(q) : q \in P})
      <4>1. PICK f : f = [q \in P |-> RoundsOf(q)]
        OBVIOUS
      <4>2. IsFiniteSet({f[q] : q \in DOMAIN f})
        BY <4>1, ImageIsFinite
      <4>3. {f[q] : q \in DOMAIN f} = {RoundsOf(q) : q \in P}
        BY <4>1
      <4> QED
        BY <4>2, <4>3
    <3> QED
      BY <3>1, FS_UNION
  <2>6. Ranked(point.p50, HistogramOf(all), 50) /\ Ranked(point.p95, HistogramOf(all), 95)
    BY <2>3, <2>4, <2>5, HistogramType, QuantileRanked
  <2>7. point.status = "missing" <=> all = {}
    BY <1>3, <2>3 DEF MergedStatus
  <2>8. \A q \in P :
          /\ (\E t \in RoundsOf(q) : Ended[t] \in {"complete", "partial"}) => q.status = "observed"
          /\ (\A t \in RoundsOf(q) : Ended[t] \in {"skipped", "cancelled"}) => q.status # "observed"
    BY DEF Faithful, Tells
  <2>9. (\E t \in all : Ended[t] \in {"complete", "partial"}) => point.status = "observed"
    BY <2>3, <2>8 DEF MergedStatus
  <2>10. (\A t \in all : Ended[t] \in {"skipped", "cancelled"}) => point.status # "observed"
    BY <2>3, <2>8 DEF MergedStatus
  <2>11. Tells(point, all)
    <3> HIDE DEF all
    <3> QED
      BY <2>6, <2>7, <2>9, <2>10, RanksTell
  <2> QED
    BY <2>2, <2>3, <2>4, <2>11 DEF Faithful
<1> QED
    BY <1>1, <1>2, <1>3

\* Of each place of the rows the points stand for rounds of their own.
LEMMA PlaceFaithful ==
    ASSUME resolution \in Resolutions, NEW uncovered, uncovered \subseteq Instants,
           \A b \in Instants :
               rows[b] \subseteq Instants /\ \A t \in rows[b] : BucketOf(t, resolution) = b,
           \A t \in uncovered, b \in Instants : t \notin rows[b],
           NEW layout, NEW i
    PROVE  LET point == Merged(PointsAt(i, layout, uncovered))
           IN  Faithful(point, RoundsOf(point))
<1> DEFINE R == {c \in {d \in Instants : rows[d] # {}} : IndexOf(c, layout) = i}
           B == {c \in {BucketOf(t, resolution) : t \in uncovered} : IndexOf(c, layout) = i}
           Alone(b) == {t \in uncovered : BucketOf(t, resolution) = b}
           f == [b \in R |-> RowPoint(rows[b])]
           g == [b \in B |-> RawPoint(Alone(b))]
           P == PointsAt(i, layout, uncovered)
<1>1. IsFiniteSet(R) /\ IsFiniteSet(B)
  <2>1. \A t \in uncovered : BucketOf(t, resolution) \in Instants
    BY BucketIsInstant
  <2>2. R \subseteq Instants /\ B \subseteq Instants
    BY <2>1
  <2> QED
    BY <2>2, InstantsFinite
<1>2. /\ DOMAIN f = R /\ DOMAIN g = B
      /\ f = [x \in DOMAIN f |-> f[x]] /\ g = [x \in DOMAIN g |-> g[x]]
      /\ \A b \in R : f[b] = RowPoint(rows[b])
      /\ \A b \in B : g[b] = RawPoint(Alone(b))
    OBVIOUS
<1>3. P = {f[b] : b \in DOMAIN f} \cup {g[b] : b \in DOMAIN g}
    BY DEF PointsAt
<1>4. \A b \in R : b \in Instants /\ rows[b] # {} /\ IsFiniteSet(rows[b])
    BY InstantsFinite
<1>5. \A b \in B : Alone(b) # {} /\ IsFiniteSet(Alone(b))
  <2>1. \A b : Alone(b) \subseteq Instants
    OBVIOUS
  <2> QED
    BY <2>1, InstantsFinite
<1>6. \A b, t : t \in Alone(b) => t \in uncovered /\ BucketOf(t, resolution) = b
    OBVIOUS
<1> HIDE DEF R, B, f, g, P, Alone
<1>7. /\ \A b \in R : RoundsOf(f[b]) = rows[b] /\ Faithful(f[b], rows[b])
      /\ \A b \in B : RoundsOf(g[b]) = Alone(b) /\ Faithful(g[b], Alone(b))
    BY <1>2, <1>4, <1>5, RoundsOfPoints, RowPointFaithful, RawPointFaithful
<1>8. IsFiniteSet(P)
  <2>1. IsFiniteSet({f[b] : b \in DOMAIN f}) /\ IsFiniteSet({g[b] : b \in DOMAIN g})
    BY <1>1, <1>2, ImageIsFinite
  <2> QED
    BY <1>3, <2>1, FS_Union
<1>9. \A q \in P : (\E b \in R : q = f[b]) \/ (\E b \in B : q = g[b])
    BY <1>2, <1>3
<1>10. \A q \in P : IsFiniteSet(RoundsOf(q)) /\ RoundsOf(q) # {} /\ Faithful(q, RoundsOf(q))
    BY <1>4, <1>5, <1>7, <1>9
<1>11. \A q, r \in P : q # r => RoundsOf(q) \cap RoundsOf(r) = {}
  <2> SUFFICES ASSUME NEW q \in P, NEW r \in P, NEW t \in RoundsOf(q), t \in RoundsOf(r)
               PROVE  q = r
    OBVIOUS
  <2>1. CASE t \in uncovered
    <3>1. ASSUME NEW p \in P, t \in RoundsOf(p)
          PROVE  \E b \in B : p = g[b] /\ BucketOf(t, resolution) = b
      <4>1. ~ \E b \in R : p = f[b]
        BY <1>4, <1>7, <2>1, <3>1
      <4> QED
        BY <1>6, <1>7, <1>9, <3>1, <4>1
    <3> QED
      BY <3>1
  <2>2. CASE t \notin uncovered
    <3>1. ASSUME NEW p \in P, t \in RoundsOf(p)
          PROVE  \E b \in R : p = f[b] /\ BucketOf(t, resolution) = b
      <4>1. ~ \E b \in B : p = g[b]
        BY <1>6, <1>7, <2>2, <3>1
      <4> QED
        BY <1>4, <1>7, <1>9, <3>1, <4>1
    <3> QED
      BY <3>1
  <2> QED
    BY <2>1, <2>2
<1>12. Faithful(Merged(P), UNION {RoundsOf(q) : q \in P})
    BY <1>8, <1>10, <1>11, MergedFaithful
<1>13. RoundsOf(Merged(P)) = UNION {RoundsOf(q) : q \in P}
    BY <1>8, RoundsOfMerged
<1> QED
    BY <1>12, <1>13 DEF P

LEMMA RowPointsTell ==
    ASSUME RowsInv, SeriesInv, ReadOnce, reading = "uncovered", NEW i \in DOMAIN RowPoints.points
    PROVE  Tells(RowPoints.points[i], RoundsOf(RowPoints.points[i]))
<1>1. /\ asked.pair \in Pairs /\ resolution \in Resolutions
      /\ \A b \in Instants :
            rows[b] \subseteq Instants /\ \A t \in rows[b] : BucketOf(t, resolution) = b
    BY DEF SeriesInv
<1>2. PICK layout, uncovered, k :
        /\ layout = RowLayout(asked.from, asked.to, asked.maxPoints, resolution)
        /\ uncovered = Uncovered /\ k = layout.number
    OBVIOUS
<1>3. RowPoints.points = [j \in 0..(k - 1) |-> Merged(PointsAt(j, layout, uncovered))]
    BY <1>2 DEF RowPoints, PointsAt
<1>4. PICK point : point = RowPoints.points[i]
    OBVIOUS
<1>5. point = Merged(PointsAt(i, layout, uncovered))
    BY <1>3, <1>4
<1>6. /\ uncovered \subseteq Instants
      /\ \A t \in uncovered : /\ t \in raw[asked.pair]
                              /\ rollup[asked.pair][resolution][BucketOf(t, resolution)] = {}
    BY <1>1, <1>2 DEF Uncovered, Between, RowsInv, TimelyBase, BucketsInv, RollupType
<1>7. ASSUME NEW t \in uncovered, NEW b \in Instants, t \in rows[b] PROVE FALSE
  <2>1. BucketOf(t, resolution) = b
    BY <1>1, <1>7
  <2>2. rollup[asked.pair][resolution][b] # {}
    BY <1>6, <1>7 DEF ReadOnce
  <2>3. rollup[asked.pair][resolution][BucketOf(t, resolution)] = {}
    BY <1>6
  <2> QED
    BY <2>1, <2>2, <2>3
<1>8. Faithful(point, RoundsOf(point))
    BY <1>1, <1>5, <1>6, <1>7, PlaceFaithful
<1> QED
    BY <1>4, <1>8 DEF Faithful

LEMMA RawPointsTell ==
    ASSUME BucketsInv, SeriesInv, reading = "raw", NEW i \in DOMAIN RawPoints.points
    PROVE  Tells(RawPoints.points[i], RoundsOf(RawPoints.points[i]))
<1>1. PICK layout, rounds, k :
        /\ layout = RawLayout(asked.from, asked.to, asked.maxPoints)
        /\ rounds = Between(raw[asked.pair], asked.from, asked.to) /\ k = layout.number
    OBVIOUS
<1>2. RawPoints.points = [j \in 0..(k - 1) |->
            IF {t \in rounds : IndexOf(t, layout) = j} = {} THEN Missing
            ELSE RawPoint({t \in rounds : IndexOf(t, layout) = j})]
    BY <1>1 DEF RawPoints
<1>3. PICK point, at : point = RawPoints.points[i] /\ at = {t \in rounds : IndexOf(t, layout) = i}
    OBVIOUS
<1>4. point = IF at = {} THEN Missing ELSE RawPoint(at)
    BY <1>2, <1>3
<1>5. IsFiniteSet(at)
  <2>1. at \subseteq Instants
    BY <1>1, <1>3 DEF SeriesInv, Between, BucketsInv, RollupType
  <2> QED
    BY <2>1, InstantsFinite
<1>6. Faithful(point, at) /\ RoundsOf(point) = at
    BY <1>4, <1>5, MissingFaithful, RawPointFaithful, RoundsOfPoints
<1> QED
    BY <1>3, <1>6 DEF Faithful

LEMMA PointsAreTold == RowsInv /\ SeriesInv /\ ReadOnce => PointsTell
<1> SUFFICES ASSUME RowsInv, SeriesInv, ReadOnce, Answering PROVE PointsTell
    BY DEF PointsTell
<1>1. CASE reading = "raw"
  <2>1. BucketsInv
    BY DEF RowsInv, TimelyBase
  <2> QED
    BY <1>1, <2>1, RawPointsTell DEF PointsTell, Answer
<1>2. CASE reading = "uncovered"
  <2>1. Answer = RowPoints
    BY <1>2 DEF Answer
  <2> QED
    BY <1>2, <2>1, RowPointsTell DEF PointsTell
<1> QED
    BY <1>1, <1>2 DEF Answering

\* A point of a series is missing when it has no round and observed when one of its rounds was
\* executed, and its quantiles are, up to one rank, those of the latencies of all its rounds
\* (api.rs:1311-1501), whether they come from samples, from the row of a bucket or from the sum of
\* the histograms of several rows and rounds; under the hypotheses of SeriesCountsOnce, since a
\* round that is counted twice is twice in that sum.
THEOREM SeriesTellsRounds ==
    RowsOutliveRounds /\ LookbackReaches =>
        (SeriesSpec /\ [][CyclesEnd]_vars => []PointsTell)
<1> SUFFICES ASSUME RowsOutliveRounds, LookbackReaches
             PROVE  SeriesSpec /\ [][CyclesEnd]_vars => []PointsTell
    OBVIOUS
<1> QED
    BY ReadsStayOnce, PointsAreTold, PTL
=============================================================================
