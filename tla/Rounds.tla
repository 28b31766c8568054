------------------------------- MODULE Rounds -------------------------------
(***************************************************************************)
(* What the scheduler, the probe workers and the storage writer of kemuri  *)
(* share: the resolved checks, the two bounded mpsc channels between them, *)
(* and the set of rounds in flight behind one mutex.                       *)
(*                                                                         *)
(* A round is one scheduled execution of one check; <<check, slot>> is its *)
(* identity, the slot being the time the scheduler meant it for.  Time is  *)
(* a natural number of ticks; a check stands for a (target id, check id).  *)
(***************************************************************************)
EXTENDS Integers, Sequences, FiniteSets

CONSTANTS
    Checks,       \* every check any configuration ever names
    Kinds,        \* the probe kinds: icmp, http, tcp, dns
    KindOf,       \* the probe kind of each check; reconciliation refuses to change it
    Intervals,    \* the intervals a check may be configured with
    Workers,      \* one probe worker per unit of scheduler.max_concurrent
    KindLimit,    \* scheduler.max_concurrent_by_probe; Unlimited where it is not set
    QueueCap,     \* capacity of the job channel (256 in serve)
    ResultCap,    \* capacity of the result channel (at least 256 in serve)
    NoCheck       \* no check at all

Unlimited == 0

ASSUME ChecksAssumption == IsFiniteSet(Checks) /\ NoCheck \notin Checks
ASSUME KindsAssumption == KindOf \in [Checks -> Kinds] /\ KindLimit \in [Kinds -> Nat]
ASSUME IntervalsAssumption == Intervals \subseteq Nat \ {0}
ASSUME WorkersAssumption == IsFiniteSet(Workers) /\ Workers # {}
ASSUME CapsAssumption == QueueCap \in Nat \ {0} /\ ResultCap \in Nat \ {0}

(***************************************************************************)
(* serve starts exactly max_concurrent workers.                            *)
(***************************************************************************)
MaxConcurrent == Cardinality(Workers)

Slots == Nat

\* RoundJob: what the scheduler hands to a worker.
RoundJob == [check : Checks, slot : Slots]

\* RoundExecutionStatus.  "executed" stands for complete, partial and
\* internal_error, which the scheduling of rounds does not tell apart.
Statuses == {"executed", "skipped_overlap", "skipped_backpressure"}

\* RoundResult: what a worker, or the scheduler for a skipped slot, hands to
\* the writer.
RoundResult == [check : Checks, slot : Slots, status : Statuses]

\* A configuration, seen from here: the checks it enables with their intervals.
Configurations == UNION {[S -> Intervals] : S \in SUBSET Checks}

NoRound == [check |-> NoCheck, slot |-> 0]
NoResult == [check |-> NoCheck, slot |-> 0, status |-> "executed"]

VARIABLES
    running,      \* running_rounds: the checks with a round in flight
    jobs,         \* the job channel, oldest first
    results,      \* the result channel, oldest first
    jobsOpen,     \* the scheduler still holds its senders of both channels
    worker        \* the workers, the receivers of jobs: state and round in hand

channelVars == <<running, jobs, results, jobsOpen, worker>>

HasRoom(channel, capacity) == Len(channel) < capacity

WorkerStates == {"idle", "probing", "sending", "exited", "dead"}

Gone(w) == worker[w].state \in {"exited", "dead"}

\* The job receiver is dropped with the last worker; from then on try_send
\* reports the channel closed.
ReceiverDropped == \A w \in Workers : Gone(w)

\* Every sender of results is gone: the scheduler's and one in each worker.
ResultsClosed == ~jobsOpen /\ ReceiverDropped

ChannelsTypeOK ==
    /\ running \in SUBSET Checks
    /\ jobs \in Seq(RoundJob)
    /\ results \in Seq(RoundResult)
    /\ jobsOpen \in BOOLEAN
    /\ worker \in [Workers -> [state : WorkerStates, job : RoundJob \cup {NoRound}]]

ChannelsInit ==
    /\ running = {}
    /\ jobs = <<>>
    /\ results = <<>>
    /\ jobsOpen = TRUE
    /\ worker = [w \in Workers |-> [state |-> "idle", job |-> NoRound]]
=============================================================================
