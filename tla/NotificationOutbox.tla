------------------------- MODULE NotificationOutbox -------------------------
(***************************************************************************)
(* The notification worker: a cycle lists the pending entries of the       *)
(* outbox that are due and sends them one after the other, each through    *)
(* its notifier, then marks what became of it.  Sending and marking are    *)
(* two steps; what the notifier received is not undone when the second     *)
(* does not happen.                                                        *)
(*                                                                         *)
(* Time is relative: due counts down to 0 and below, where it tells the    *)
(* entries that waited longer, to -Late at most.                           *)
(***************************************************************************)
EXTENDS Integers, Sequences, FiniteSets

CONSTANTS
    MaxEntries,     \* bound of the model: entries that are inserted
    Notifiers,
    NotifierOf,     \* the notifier of an entry
    Broken,         \* the notifiers whose receiver refuses everything
    BatchSize,      \* BATCH_SIZE
    MaxAttempts,    \* MAX_RETRY_ATTEMPTS
    Base,           \* RETRY_BASE_SECS, in ticks
    Cap,            \* RETRY_MAX_SECS, in ticks
    RetentionOn,    \* retention may delete the oldest entries
    Late,           \* bound of the model: how far below 0 due counts
    MaxLost,        \* bound of the model: answers that are lost
    MaxReloads,     \* bound of the model: changes of the configured notifiers
    MaxCrashes,     \* bound of the model: restarts
    MaxFailures     \* bound of the model: statements that fail

Entries == 1..MaxEntries

ASSUME OutboxSizesAssumption ==
    /\ MaxEntries \in Nat /\ Late \in Nat
    /\ BatchSize \in Nat \ {0} /\ MaxAttempts \in Nat \ {0}
    /\ Base \in Nat \ {0} /\ Cap \in Nat /\ Cap >= Base
\* The doubled delay stays a number; the code computes it in 64 bits.
ASSUME BackoffAssumption == \A attempt \in 0..MaxAttempts : Base * 2^attempt \in Nat
ASSUME NotifiersAssumption ==
    NotifierOf \in [Entries -> Notifiers] /\ Broken \subseteq Notifiers /\ RetentionOn \in BOOLEAN
ASSUME OutboxBoundsAssumption ==
    MaxLost \in Nat /\ MaxReloads \in Nat /\ MaxCrashes \in Nat /\ MaxFailures \in Nat

VARIABLES
    entry,          \* notification_outbox
    batch,          \* the entries the cycle still has to do, in order
    step,           \* where the cycle is with the first of them
    configured,     \* the notifiers of the live configuration
    received,       \* how often a notifier received an entry
    excuses,        \* history: how often a delivery went unrecorded
    lost, reloads, crashes, failures

faults == <<lost, reloads, crashes, failures>>
vars == <<entry, batch, step, configured, received, excuses, faults>>

Lesser(i, j) == IF i < j THEN i ELSE j
Greater(i, j) == IF i > j THEN i ELSE j

\* compute_backoff: doubled for each attempt, and up to a quarter of jitter.
Delays(attempt) ==
    LET interval == Lesser(Base * 2^attempt, Cap)
    IN  {Lesser(interval + jitter, Cap) : jitter \in {0} \cup 0..(interval \div 4 - 1)}

NoEntry == [status |-> "none", attempts |-> 0, due |-> 0]

Init ==
    /\ entry = [e \in Entries |-> NoEntry]
    /\ batch = <<>>
    /\ step = "idle"
    /\ configured = Notifiers
    /\ received = [e \in Entries |-> 0]
    /\ excuses = [e \in Entries |-> 0]
    /\ lost = 0 /\ reloads = 0 /\ crashes = 0 /\ failures = 0

Pending(e) == entry[e].status = "pending"

-----------------------------------------------------------------------------
(***************************************************************************)
(* What the worker does not do itself.                                     *)
(***************************************************************************)

\* An evaluator inserts the next entry.
InsertEntry ==
    /\ \E e \in Entries :
        /\ entry[e].status = "none"
        /\ \A f \in 1..(e - 1) : entry[f].status # "none"
        /\ entry' = [entry EXCEPT ![e] = [status |-> "pending", attempts |-> 0, due |-> 0]]
    /\ UNCHANGED <<batch, step, configured, received, excuses, faults>>

Tick ==
    /\ \E e \in Entries : Pending(e) /\ entry[e].due > -Late
    /\ entry' = [e \in Entries |->
                    IF Pending(e) THEN [entry[e] EXCEPT !.due = Greater(@ - 1, -Late)]
                                  ELSE entry[e]]
    /\ UNCHANGED <<batch, step, configured, received, excuses, faults>>

\* A reload swaps the map of notifiers.
Reload ==
    /\ reloads < MaxReloads
    /\ configured' \in SUBSET Notifiers
    /\ reloads' = reloads + 1
    /\ UNCHANGED <<entry, batch, step, received, excuses, lost, crashes, failures>>

\* The retention worker deletes the oldest rows, whatever their status.
Retention ==
    /\ RetentionOn
    /\ \E last \in Entries :
        /\ entry[last].status # "none"
        /\ entry' = [e \in Entries |->
                        IF e <= last THEN [NoEntry EXCEPT !.status = "deleted"] ELSE entry[e]]
    /\ UNCHANGED <<batch, step, configured, received, excuses, faults>>

-----------------------------------------------------------------------------
(***************************************************************************)
(* A cycle.                                                                *)
(***************************************************************************)

\* Mutant: delivered entries are listed too.
DueWhateverStatus == {e \in Entries : entry[e].status \in {"pending", "delivered"} /\ entry[e].due <= 0}

\* Mutant: entries that were given up are listed too.
DueFailedToo == {e \in Entries : entry[e].status \in {"pending", "failed"} /\ entry[e].due <= 0}

\* list_pending, before its ORDER BY and LIMIT.
Due == {e \in Entries : Pending(e) /\ entry[e].due <= 0}

\* The first BatchSize of them, those that waited longest first.
Batches ==
    LET n == Lesser(BatchSize, Cardinality(Due))
    IN  {b \in [1..n -> Due] :
            /\ \A i, j \in 1..n : i < j => b[i] # b[j] /\ entry[b[i]].due <= entry[b[j]].due
            /\ \A e \in Due \ {b[i] : i \in 1..n}, i \in 1..n : entry[b[i]].due <= entry[e].due}

BeginCycle ==
    /\ step = "idle" /\ Due # {}
    /\ batch' \in Batches
    /\ step' = "next"
    /\ UNCHANGED <<entry, configured, received, excuses, faults>>

\* The cycle is over, or its future is dropped with the process.
EndCycle == batch' = <<>> /\ step' = "idle"

NextEntry == IF Len(batch) = 1 THEN EndCycle ELSE batch' = Tail(batch) /\ step' = "next"

\* The notifier is looked up, and the event read to build what is sent.
PrepareSend ==
    /\ step = "next"
    /\ \/ NotifierOf[Head(batch)] \in configured /\ step' = "sending" /\ failures' = failures
       \/ NotifierOf[Head(batch)] \notin configured /\ step' = "refused" /\ failures' = failures
       \/ failures < MaxFailures /\ step' = "refused" /\ failures' = failures + 1
    /\ UNCHANGED <<entry, batch, configured, received, excuses, lost, reloads, crashes>>

Receive == received' = [received EXCEPT ![Head(batch)] = @ + 1]
Unrecorded == excuses' = [excuses EXCEPT ![Head(batch)] = @ + 1]

SendSucceeds ==
    /\ step = "sending" /\ NotifierOf[Head(batch)] \notin Broken
    /\ Receive
    /\ step' = "sent"
    /\ UNCHANGED <<entry, batch, configured, excuses, faults>>

SendRefused ==
    /\ step = "sending" /\ NotifierOf[Head(batch)] \in Broken
    /\ step' = "refused"
    /\ UNCHANGED <<entry, batch, configured, received, excuses, faults>>

\* The notifier received the entry, and its answer is lost or too late.
AnswerLost ==
    /\ step = "sending" /\ NotifierOf[Head(batch)] \notin Broken /\ lost < MaxLost
    /\ Receive /\ Unrecorded
    /\ step' = "refused"
    /\ lost' = lost + 1
    /\ UNCHANGED <<entry, batch, configured, reloads, crashes, failures>>

\* An UPDATE of a row that retention has deleted changes nothing.
Mark(e, new) == entry' = IF Pending(e) THEN [entry EXCEPT ![e] = new] ELSE entry

MarkDelivered ==
    /\ step = "sent"
    /\ LET e == Head(batch)
       IN  Mark(e, [status |-> "delivered", attempts |-> entry[e].attempts + 1, due |-> 0])
    /\ NextEntry
    /\ UNCHANGED <<configured, received, excuses, faults>>

\* Mutant: the failed attempt is not counted.
RetryUncounted(e, delay) ==
    Mark(e, [status |-> "pending", attempts |-> entry[e].attempts, due |-> delay])

\* Mutant: the refused entry stays where it is, ahead of all others.
RetryForgotten(e, delay) == UNCHANGED entry

\* mark_retry.
Retry(e, delay) ==
    Mark(e, [status |-> "pending", attempts |-> entry[e].attempts + 1, due |-> delay])

GivesUp(attempts) == attempts + 1 >= MaxAttempts

\* The attempts are those of the row as it was listed; no one else changes them.
MarkAttempt ==
    /\ step = "refused"
    /\ LET e == Head(batch)
       IN  IF GivesUp(entry[e].attempts)
           THEN Mark(e, [status |-> "failed", attempts |-> entry[e].attempts + 1, due |-> 0])
           ELSE \E delay \in Delays(entry[e].attempts) : Retry(e, delay)
    /\ NextEntry
    /\ UNCHANGED <<configured, received, excuses, faults>>

\* The statement fails: the cycle ends, and the entry is as it was.
MarkFails ==
    /\ step \in {"sent", "refused"} /\ failures < MaxFailures
    /\ IF step = "sent" THEN Unrecorded ELSE UNCHANGED excuses
    /\ EndCycle
    /\ failures' = failures + 1
    /\ UNCHANGED <<entry, configured, received, lost, reloads, crashes>>

\* The process dies and starts again.  What is on its way may arrive.
Crash ==
    /\ step # "idle" /\ crashes < MaxCrashes
    /\ \/ step = "sending" /\ NotifierOf[Head(batch)] \notin Broken /\ Receive /\ Unrecorded
       \/ step = "sent" /\ Unrecorded /\ UNCHANGED received
       \/ step # "sent" /\ UNCHANGED <<received, excuses>>
    /\ EndCycle
    /\ crashes' = crashes + 1
    /\ UNCHANGED <<entry, configured, lost, reloads, failures>>

-----------------------------------------------------------------------------
CycleStep ==
    \/ PrepareSend
    \/ SendSucceeds
    \/ SendRefused
    \/ AnswerLost
    \/ MarkDelivered
    \/ MarkAttempt
    \/ MarkFails

Next ==
    \/ InsertEntry
    \/ Tick
    \/ Reload
    \/ Retention
    \/ BeginCycle
    \/ CycleStep
    \/ Crash

Spec == Init /\ [][Next]_vars

\* Time passes, a cycle starts every ten seconds, and a send has a timeout: a
\* cycle that has begun goes on.
FairSpec == Spec /\ WF_vars(Tick) /\ WF_vars(BeginCycle) /\ WF_vars(CycleStep)

-----------------------------------------------------------------------------
(***************************************************************************)
(* Properties.                                                             *)
(***************************************************************************)
Settled(e) == entry[e].status \in {"delivered", "failed"}

\* An entry has attempts left exactly while it is pending, and has failed only
\* when it has none.
Row == {r \in [status : {"none", "pending", "delivered", "failed", "deleted"},
                attempts : 0..MaxAttempts, due : (-Late)..Cap] :
            /\ r.status = "pending" => r.attempts < MaxAttempts
            /\ r.status = "failed" => r.attempts = MaxAttempts
            /\ r.status = "delivered" => r.attempts > 0}

OutboxTypeOK ==
    /\ entry \in [Entries -> Row]
    /\ received \in [Entries -> Nat]
    /\ excuses \in [Entries -> Nat]

WorkerTypeOK ==
    /\ batch \in Seq(Entries)
    /\ step \in {"idle", "next", "sending", "sent", "refused"}
    /\ step = "idle" <=> batch = <<>>

EnvironmentTypeOK ==
    /\ configured \in SUBSET Notifiers
    /\ lost \in 0..MaxLost /\ reloads \in 0..MaxReloads
    /\ crashes \in 0..MaxCrashes /\ failures \in 0..MaxFailures

\* The variables have their types, and the worker is idle exactly when its
\* batch is empty.
TypeOK == OutboxTypeOK /\ WorkerTypeOK /\ EnvironmentTypeOK

\* A notifier receives an entry once, and once more for each time its delivery
\* went unrecorded: an answer that was lost, a crash or an error before the mark.
DuplicatesExplained == \A e \in Entries : received[e] <= 1 + excuses[e]

\* An entry is marked delivered only when its notifier received it.
DeliveredReceived == \A e \in Entries : entry[e].status = "delivered" => received[e] > 0

\* An entry that is settled is not sent again.
SettledIsFinal ==
    [][\A e \in Entries : Settled(e) => received'[e] = received[e]]_vars

\* Every entry is delivered or given up in the end, whatever becomes of the
\* notifiers, of single statements and of the process.
EntriesSettle ==
    \A e \in Entries : Pending(e) ~> ~Pending(e)

\* A receiver that refuses everything does not keep the entries of another from
\* being delivered, even when the batch has room for one entry only: while its
\* notifier is configured and its row is there, a new entry comes to its turn,
\* in spite of a lost answer and a failing statement, attempts being left.
HealthyDelivered ==
    \A e \in Entries :
        NotifierOf[e] \notin Broken =>
            (Pending(e) /\ entry[e].attempts = 0
                        ~> \/ entry[e].status \in {"delivered", "deleted"}
                           \/ NotifierOf[e] \notin configured)
=============================================================================
