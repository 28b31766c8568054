--------------------------- MODULE StorageWriter ----------------------------
(***************************************************************************)
(* The storage writer: the only consumer of results and the only writer of *)
(* rounds and of the current state of a check.                             *)
(***************************************************************************)
EXTENDS Rounds

CONSTANTS
    AlertCap,       \* capacity of the alert channel (256 in serve)
    StorageFails    \* a statement may fail: disk full, database locked, ...

ASSUME AlertCapAssumption == AlertCap \in Nat \ {0}
ASSUME StorageFailsAssumption == StorageFails \in BOOLEAN

VARIABLES
    dbActive,      \* checks.active
    rounds,        \* the rounds table
    currentState,  \* check_current_state: the round each row was written from
    alerts,        \* the alert channel: rounds to evaluate
    writer,        \* "writing" or "exited"
    dropped        \* history: results that were consumed without a round stored

writerVars == <<dbActive, rounds, currentState, alerts, writer, dropped>>

WriterInit(activeChecks) ==
    /\ dbActive = activeChecks
    /\ rounds = {}
    /\ currentState = [c \in Checks |-> NoResult]
    /\ alerts = <<>>
    /\ writer = "writing"
    /\ dropped = {}

SlotOf(r) == <<r.check, r.slot>>

SlotsOf(S) == {SlotOf(r) : r \in S}

\* UNIQUE (check, observer, scheduled_at) of the rounds table.
AlreadyStored(r) == SlotOf(r) \in SlotsOf(rounds)

\* Mutant: a result stays in the channel for another try.
ConsumeAgain(r) == writer = "writing" /\ results # <<>> /\ r = Head(results) /\ results' = results

Consume(r) == writer = "writing" /\ results # <<>> /\ r = Head(results) /\ results' = Tail(results)

DropResult(r) ==
    /\ dropped' = dropped \cup {r}
    /\ UNCHANGED <<rounds, currentState, alerts>>

\* The target or check is unknown or disabled by now: nothing is written.
DiscardInactive(r) == r.check \notin dbActive /\ DropResult(r)

\* DuplicateRound: the insert violates the unique index.
RejectDuplicate(r) == r.check \in dbActive /\ AlreadyStored(r) /\ DropResult(r)

\* Mutant: the current state is upserted although the insert failed.
InsertFailsUnnoticed(r) ==
    /\ StorageFails /\ r.check \in dbActive
    /\ currentState' = [currentState EXCEPT ![r.check] = r]
    /\ dropped' = dropped \cup {r}
    /\ UNCHANGED <<rounds, alerts>>

\* The insert fails for another reason; the round is not retried.
InsertFails(r) == StorageFails /\ r.check \in dbActive /\ ~AlreadyStored(r) /\ DropResult(r)

\* The upsert of the current state fails after the insert: no alert is raised.
UpsertFails(r) ==
    /\ StorageFails /\ r.check \in dbActive /\ ~AlreadyStored(r)
    /\ rounds' = rounds \cup {r}
    /\ UNCHANGED <<currentState, alerts, dropped>>

\* Insert, unconditional upsert, and a try_send that gives up when the alert
\* channel is full.
StoreRound(r) ==
    /\ r.check \in dbActive /\ ~AlreadyStored(r)
    /\ rounds' = rounds \cup {r}
    /\ currentState' = [currentState EXCEPT ![r.check] = r]
    /\ alerts' = IF HasRoom(alerts, AlertCap) THEN Append(alerts, SlotOf(r)) ELSE alerts
    /\ UNCHANGED dropped

WriteRound ==
    /\ results # <<>>
    /\ LET r == Head(results) IN
        /\ Consume(r)
        /\ \/ DiscardInactive(r)
           \/ RejectDuplicate(r)
           \/ InsertFails(r)
           \/ UpsertFails(r)
           \/ StoreRound(r)
    /\ UNCHANGED <<running, jobs, jobsOpen, worker, dbActive, writer>>

\* Mutant: the writer stops when the senders are gone, results or not.
FlushedAlways == TRUE

\* recv returns None only when every sender is gone and the channel is empty.
Flushed == results = <<>>

WriterExits ==
    /\ writer = "writing" /\ ResultsClosed /\ Flushed
    /\ writer' = "exited"
    /\ UNCHANGED channelVars
    /\ UNCHANGED <<dbActive, rounds, currentState, alerts, dropped>>

\* The alert evaluator takes the next round to evaluate (module AlertRule).
EvaluateAlert ==
    /\ alerts # <<>>
    /\ alerts' = Tail(alerts)
    /\ UNCHANGED channelVars
    /\ UNCHANGED <<dbActive, rounds, currentState, writer, dropped>>

WriterStep == WriteRound \/ WriterExits \/ EvaluateAlert

WriterTypeOK ==
    /\ dbActive \in SUBSET Checks
    /\ rounds \in SUBSET RoundResult
    /\ currentState \in [Checks -> RoundResult \cup {NoResult}]
    /\ alerts \in Seq(Checks \X Slots)
    /\ writer \in {"writing", "exited"}
    /\ dropped \in SUBSET RoundResult
=============================================================================
