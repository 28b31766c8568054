------------------------------ MODULE Rollups ------------------------------
(***************************************************************************)
(* The rollup worker and the retention worker, on the rounds that the      *)
(* storage writer inserts.  The rollup worker counts the rounds of a       *)
(* (check, observer) pair in buckets of two resolutions, always again from *)
(* two buckets before the latest one; the retention worker deletes rounds  *)
(* that have a fine bucket, and old buckets.  Neither waits for the other. *)
(*                                                                         *)
(* A tick is a second of scheduled_at, and a bucket is the set of the      *)
(* rounds it counts, {} when there is no row.  scheduled_at is compared as *)
(* text, with an offset +00:00 against bounds that end in Z: a round in    *)
(* the very second of a bound sorts before the bound.                      *)
(***************************************************************************)
EXTENDS Integers, Sequences, FiniteSets

CONSTANTS
    PairOrder,      \* the (check, observer) pairs as they are listed
    Steady,         \* the pairs whose check runs all the time
    Fine, Coarse,   \* RESOLUTION_5M and RESOLUTION_1H, in ticks
    Lookback,       \* LOOKBACK_BUCKETS
    BatchSize,      \* BATCH_SIZE of the rollup worker
    DeleteBatch,    \* DELETE_BATCH_SIZE of the retention worker
    Keep,           \* the retention of each level, in ticks, or Forever
    Forever,
    MaxDelay,       \* bound of the model: from scheduled_at to the insert
    MaxNow,         \* bound of the model: ticks
    MaxFaults       \* bound of the model: cycles that fail

Pairs == {PairOrder[i] : i \in DOMAIN PairOrder}
Resolutions == {Fine, Coarse}
Instants == 0..MaxNow
Levels == {"raw", "fine", "coarse"}

ASSUME PairsAssumption == PairOrder \in Seq(Pairs)
ASSUME RollupSizesAssumption ==
    /\ Fine \in Nat \ {0} /\ Coarse \in Nat \ {0} /\ Fine # Coarse
    /\ Lookback \in Nat /\ BatchSize \in Nat \ {0} /\ DeleteBatch \in Nat \ {0}
ASSUME KeepAssumption == Steady \subseteq Pairs /\ Keep \in [Levels -> (Nat \ {0}) \cup {Forever}]
ASSUME RollupBoundsAssumption == MaxDelay \in Nat /\ MaxNow \in Nat /\ MaxFaults \in Nat

VARIABLES
    now,
    stored,         \* history: the rounds that were ever inserted
    raw,            \* rounds
    rollup,         \* rollups: by pair, resolution and bucket_start
    stage,          \* where the rollup cycle is with the first item of work
    work,           \* the pairs and resolutions the cycle still has to do, by their place
    from, closed,   \* the bounds of its query
    taken,          \* the rounds it read and has not written yet
    count,          \* total_processed
    ran,            \* a cycle began in this tick
    sweep,          \* the level that retention is deleting
    cutoff,         \* what is older is deleted
    faults

cycle == <<stage, work, from, closed, taken, count, ran>>
retention == <<sweep, cutoff>>
vars == <<now, stored, raw, rollup, cycle, retention, faults>>

Least(S) == CHOOSE x \in S : \A y \in S : x <= y
Greatest(S) == CHOOSE x \in S : \A y \in S : x >= y

BucketOf(t, res) == (t \div res) * res
Starts(p, res) == {b \in Instants : rollup[p][res][b] # {}}

Init ==
    /\ now = 0
    /\ stored = [p \in Pairs |-> {}]
    /\ raw = [p \in Pairs |-> {}]
    /\ rollup = [p \in Pairs |-> [res \in Resolutions |-> [b \in Instants |-> {}]]]
    /\ stage = "idle" /\ work = {} /\ from = 0 /\ closed = 0 /\ taken = {} /\ count = 0
    /\ ran = FALSE
    /\ sweep = "idle" /\ cutoff = 0
    /\ faults = 0

-----------------------------------------------------------------------------
(***************************************************************************)
(* Rounds arrive, in time or late.                                         *)
(***************************************************************************)

StoreRound(p, t) ==
    /\ t <= now /\ now <= t + MaxDelay /\ t \notin stored[p]
    /\ stored' = [stored EXCEPT ![p] = @ \cup {t}]
    /\ raw' = [raw EXCEPT ![p] = @ \cup {t}]
    /\ UNCHANGED <<now, rollup, cycle, retention, faults>>

\* A rollup cycle begins in every tick, and lasts into the next one at most.
Tick ==
    /\ now < MaxNow /\ ran
    /\ \A p \in Steady, t \in Instants : t + MaxDelay <= now => t \in stored[p]
    /\ now' = now + 1
    /\ ran' = FALSE
    /\ UNCHANGED <<stored, raw, rollup, stage, work, from, closed, taken, count, retention, faults>>

-----------------------------------------------------------------------------
(***************************************************************************)
(* A rollup cycle.                                                         *)
(***************************************************************************)

\* What is at place k: of every pair the fine buckets, then the coarse ones.
PairAt(k) == PairOrder[(k + 1) \div 2]
ResolutionAt(k) == IF k % 2 = 1 THEN Fine ELSE Coarse

\* Every pair that has rounds.
Listed == {k \in 1..(2 * Len(PairOrder)) : raw[PairAt(k)] # {}}

\* When time stands still at its bound, cycles go on.
BeginCycle ==
    /\ stage = "idle" /\ (ran => now = MaxNow)
    /\ work' = Listed
    /\ stage' = IF Listed = {} THEN "idle" ELSE "mark"
    /\ ran' = TRUE
    /\ UNCHANGED <<now, stored, raw, rollup, from, closed, taken, count, retention, faults>>

Pair == PairAt(Least(work))
Resolution == ResolutionAt(Least(work))

\* Mutant: buckets are taken for closed as soon as they begin.
ClosedAtNext(t, res) == BucketOf(t, res) + res

\* latest_closed: the end of the last bucket that is over.
LatestClosed(t, res) == BucketOf(t, res)

\* Mutant: everything is read again, whatever retention has left of it.
FromEpoch(starts, res) == -1

\* Mutant: no lookback.
FromLatest(starts, res) == IF starts = {} THEN -1 ELSE Greatest(starts)

\* compute_from: two buckets before the latest one, or the epoch.
ComputeFrom(starts, res) == IF starts = {} THEN -1 ELSE Greatest(starts) - Lookback * res

ReadMark ==
    /\ stage = "mark"
    /\ closed' = LatestClosed(now, Resolution)
    /\ from' = ComputeFrom(Starts(Pair, Resolution), Resolution)
    /\ stage' = "query"
    /\ UNCHANGED <<now, stored, raw, rollup, work, taken, count, ran, retention, faults>>

ReadRounds ==
    /\ stage = "query"
    /\ taken' = {t \in raw[Pair] : from < t /\ t <= closed}
    /\ stage' = "write"
    /\ UNCHANGED <<now, stored, raw, rollup, work, from, closed, count, ran, retention, faults>>

\* The oldest bucket of those read is written over.
Upsert ==
    /\ stage = "write" /\ taken # {}
    /\ LET bucket == BucketOf(Least(taken), Resolution)
           rounds == {t \in taken : BucketOf(t, Resolution) = bucket}
       IN  /\ rollup' = [rollup EXCEPT ![Pair][Resolution][bucket] = rounds]
           /\ taken' = taken \ rounds
    /\ count' = count + 1
    /\ UNCHANGED <<now, stored, raw, stage, work, from, closed, ran, retention, faults>>

\* On to the next resolution or pair, unless enough buckets were written.
NextPair ==
    /\ stage = "write" /\ taken = {}
    /\ work' = IF count >= BatchSize THEN {} ELSE work \ {Least(work)}
    /\ stage' = IF work' = {} THEN "idle" ELSE "mark"
    /\ count' = IF work' = {} THEN 0 ELSE count
    /\ from' = 0 /\ closed' = 0
    /\ UNCHANGED <<now, stored, raw, rollup, taken, ran, retention, faults>>

\* A statement fails; the next cycle starts from the first pair.
CycleFails ==
    /\ stage # "idle" /\ faults < MaxFaults
    /\ stage' = "idle" /\ work' = {} /\ taken' = {} /\ count' = 0 /\ from' = 0 /\ closed' = 0
    /\ faults' = faults + 1
    /\ UNCHANGED <<now, stored, raw, rollup, ran, retention>>

RollupStep == BeginCycle \/ ReadMark \/ ReadRounds \/ Upsert \/ NextPair

-----------------------------------------------------------------------------
(***************************************************************************)
(* A retention cycle.                                                      *)
(***************************************************************************)

\* A level is passed over when the next level begins after what it would
\* delete, whoever's buckets those are.
PassedOver(level) ==
    \/ Keep[level] = Forever
    \/ /\ level # "coarse"
       /\ LET earliest == UNION {Starts(p, IF level = "raw" THEN Fine ELSE Coarse) : p \in Pairs}
          IN  earliest # {} /\ Least(earliest) >= now - Keep[level]

\* A cutoff of 0 deletes nothing.
Enter(level) ==
    /\ sweep' = level
    /\ cutoff' = IF PassedOver(level) THEN 0 ELSE Greatest({0, now - Keep[level]})

\* The first of a set by their place in an order that leaves open which of
\* equals come first.
Batches(S, place) ==
    {B \in SUBSET S :
        /\ Cardinality(B) = Least({DeleteBatch, Cardinality(S)})
        /\ \A x \in B, y \in S \ B : place[x] <= place[y]}

\* delete_before_batch_with_rollup_check
Deletable ==
    {r \in Pairs \X Instants :
        /\ r[2] \in raw[r[1]] /\ r[2] < cutoff
        /\ rollup[r[1]][Fine][BucketOf(r[2], Fine)] # {}}

\* A sweep that keeps everything does nothing.
BeginSweep ==
    /\ sweep = "idle" /\ (\E level \in Levels : Keep[level] # Forever) /\ Enter("raw")
    /\ UNCHANGED <<now, stored, raw, rollup, cycle, faults>>

DeleteRaw ==
    /\ sweep = "raw" /\ Deletable # {}
    /\ \E doomed \in Batches(Deletable, [r \in Deletable |-> 0]) :
        raw' = [p \in Pairs |-> {t \in raw[p] : <<p, t>> \notin doomed}]
    /\ UNCHANGED <<now, stored, rollup, cycle, retention, faults>>

EndRaw ==
    /\ sweep = "raw" /\ Deletable = {} /\ Enter("fine")
    /\ UNCHANGED <<now, stored, raw, rollup, cycle, faults>>

Swept == IF sweep = "fine" THEN Fine ELSE Coarse

OldBuckets == {r \in Pairs \X Instants : r[2] \in Starts(r[1], Swept) /\ r[2] < cutoff}

\* delete_rollups_before, the oldest first
DeleteBuckets ==
    /\ sweep \in {"fine", "coarse"} /\ OldBuckets # {}
    /\ \E doomed \in Batches(OldBuckets, [r \in OldBuckets |-> r[2]]) :
        rollup' = [p \in Pairs |-> [rollup[p] EXCEPT ![Swept] =
                      [b \in Instants |-> IF <<p, b>> \in doomed THEN {} ELSE @[b]]]]
    /\ UNCHANGED <<now, stored, raw, cycle, retention, faults>>

EndFine ==
    /\ sweep = "fine" /\ OldBuckets = {} /\ Enter("coarse")
    /\ UNCHANGED <<now, stored, raw, rollup, cycle, faults>>

EndCoarse ==
    /\ sweep = "coarse" /\ OldBuckets = {}
    /\ sweep' = "idle" /\ cutoff' = 0
    /\ UNCHANGED <<now, stored, raw, rollup, cycle, faults>>

RetentionStep == BeginSweep \/ DeleteRaw \/ EndRaw \/ DeleteBuckets \/ EndFine \/ EndCoarse

Work ==
    \/ \E p \in Pairs, t \in Instants : StoreRound(p, t)
    \/ RollupStep \/ CycleFails
    \/ RetentionStep

Next == Tick \/ Work

Spec == Init /\ [][Next]_vars

\* The interval of the rollup worker ticks for ever, rounds are stored and
\* time passes; nothing is asked of retention.
FairSpec ==
    /\ Spec
    /\ WF_vars(RollupStep)
    /\ WF_vars(Tick)
    /\ \A p \in Steady, t \in Instants : WF_vars(StoreRound(p, t))

-----------------------------------------------------------------------------
(***************************************************************************)
(* Properties.                                                             *)
(***************************************************************************)

\* A bucket counts rounds that were stored, in their own bucket, and of a
\* bucket that is not over at most the round of its first second: the worker
\* never freezes half a bucket.
BucketsSound ==
    \A p \in Pairs, res \in Resolutions, b \in Instants : \A t \in rollup[p][res][b] :
        /\ t \in stored[p] /\ BucketOf(t, res) = b
        /\ b + res > now => t = b

\* While its check runs, a round is in the database or counted by its fine
\* bucket until that bucket is deleted, however retention and the rollup
\* cycles interleave and although each cycle writes its buckets over.  Rounds
\* in the first second of a bucket are left out: see FirstSecondKept.
NoRoundLost ==
    \A p \in Steady : \A t \in stored[p] :
        \/ t \in raw[p]
        \/ t \in rollup[p][Fine][BucketOf(t, Fine)]
        \/ t % Fine = 0
        \/ Keep["fine"] # Forever /\ BucketOf(t, Fine) < now - Keep["fine"]

\* A cycle that has done a pair and resolution leaves every round of a bucket that
\* is over counted, the ones that were stored late too, one round of the cycle after
\* the latest they may come; a cycle that failed is made up for by the next one.
\* Rounds that retention may have deleted, and those in the first second of a
\* bucket, are left out.
CountedInTime ==
    [][stage = "write" /\ stage' = "idle" /\ faults' = faults =>
        \A p \in Steady, res \in Resolutions : \A t \in stored[p] :
            /\ t + MaxDelay + 2 <= now /\ t % res # 0
            /\ BucketOf(t, res) + res < now
            /\ Keep["raw"] # Forever => BucketOf(t, res) >= now - Keep["raw"]
            => t \in rollup[p][res][BucketOf(t, res)]]_vars

\* Documented: both buckets are created, for every check.
BucketsAppear ==
    \A p \in Steady, t \in Instants, res \in Resolutions :
        t \in stored[p] /\ BucketOf(t, res) + res < MaxNow
            ~> rollup[p][res][BucketOf(t, res)] # {}

\* Tested as idempotent: aggregating again keeps a round that is still there.
FirstSecondKept ==
    [][\A p \in Pairs, res \in Resolutions, b \in Instants :
        rollup'[p][res][b] # {} => rollup[p][res][b] \cap raw[p] \subseteq rollup'[p][res][b]]_vars

\* Documented: a round is deleted only when its bucket exists, so what was
\* deleted stays counted, for a check that stopped too.
DeletedCounted ==
    \A p \in Pairs : \A t \in stored[p] \ raw[p] :
        t % Fine # 0 => t \in rollup[p][Fine][BucketOf(t, Fine)]

\* What the series endpoint shows at a resolution: the buckets, and the rounds
\* of those buckets that do not exist.
Shown(p, res) ==
    UNION {rollup[p][res][b] : b \in Instants}
        \cup {t \in raw[p] : rollup[p][res][BucketOf(t, res)] = {}}

\* Documented: a raw round is used when its bucket is not complete.
SeriesComplete ==
    \A p \in Pairs, res \in Resolutions : \A t \in raw[p] :
        BucketOf(t, res) + res > now => t \in Shown(p, res)
=============================================================================
