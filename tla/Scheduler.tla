----------------------------- MODULE Scheduler ------------------------------
(***************************************************************************)
(* The scheduler task: one select loop over a tick, a shutdown watch and a *)
(* command channel.  A tick walks the active checks and, for each one that *)
(* is due, dispatches a job or records the slot as skipped.                *)
(***************************************************************************)
EXTENDS Rounds

CONSTANTS
    Offset,            \* deterministic_offset: the stable jitter of a check at an interval
    StartupImmediate,  \* startup_mode = immediate_then_aligned
    CommandCap,        \* capacity of the command channel (16 in Scheduler::start)
    InitialConfig,     \* the checks the process starts with
    MaxTime            \* bound of the model: the last instant a tick may happen at

ASSUME OffsetAssumption ==
    /\ Offset \in [Checks -> [Intervals -> Nat]]
    /\ \A c \in Checks, i \in Intervals : Offset[c][i] < i
ASSUME StartupAssumption == StartupImmediate \in BOOLEAN
ASSUME CommandCapAssumption == CommandCap \in Nat \ {0}
ASSUME InitialConfigAssumption == InitialConfig \in Configurations
ASSUME MaxTimeAssumption == MaxTime \in Nat

VARIABLES
    now,          \* the wall clock
    clockRead,    \* the scheduler's last reading of it
    active,       \* active_checks: the enabled checks and their intervals
    nextDue,      \* next_due: the slot each active check waits for
    startup,      \* startup_rounds: checks that have not had their startup round
    paused,       \* scheduling is paused by disk pressure
    phase,        \* "select", "scan" (inside a tick) or "stopped"
    scan,         \* checks this tick has still to look at
    blocked,      \* the skipped round whose send is awaited, with its status
    commands,     \* the command channel, oldest first
    stopSignal,   \* the shutdown watch
    issued        \* history: the slots the scheduler has dealt with

schedulerVars == <<clockRead, active, nextDue, startup, paused, phase, scan, blocked,
                   commands, stopSignal, issued>>

ReconcileCommand(config) == [type |-> "reconcile", checks |-> config, value |-> FALSE]
PauseCommand(value) == [type |-> "pause", checks |-> <<>>, value |-> value]

Commands == {ReconcileCommand(config) : config \in Configurations}
                \cup {PauseCommand(b) : b \in BOOLEAN}

-----------------------------------------------------------------------------
(***************************************************************************)
(* Slot arithmetic.                                                        *)
(***************************************************************************)

\* compute_next_due: the first aligned slot, plus the jitter of the check,
\* strictly after the given instant.
NextAligned(after, c, interval) ==
    LET candidate == (after \div interval) * interval + Offset[c][interval]
    IN  IF candidate > after THEN candidate ELSE candidate + interval

\* The first due instant of a check that enters the schedule.
FirstDue(at, c, interval) ==
    IF StartupImmediate THEN at ELSE NextAligned(at, c, interval)

\* next_due_after_attempt: the startup round moves to the aligned slots, every
\* other slot to the one an interval later.
NextDueAfterAttempt(c, due) ==
    IF c \in startup THEN NextAligned(clockRead, c, active[c]) ELSE due + active[c]

-----------------------------------------------------------------------------
SchedulerInit ==
    /\ now = 0
    /\ clockRead = 0
    /\ active = InitialConfig
    /\ nextDue = [c \in DOMAIN InitialConfig |-> FirstDue(0, c, InitialConfig[c])]
    /\ startup = IF StartupImmediate THEN DOMAIN InitialConfig ELSE {}
    /\ paused = FALSE
    /\ phase = "select"
    /\ scan = {}
    /\ blocked = NoResult
    /\ commands = <<>>
    /\ stopSignal = FALSE
    /\ issued = {}

DueChecks == {c \in DOMAIN nextDue : nextDue[c] <= now}

\* The tick branch of the select: the clock is read once, and the checks that
\* are due at that reading are looked at one after the other.  Two ticks never
\* read the same instant.
TickFires ==
    /\ phase = "select"
    /\ ~paused
    /\ now # clockRead
    /\ DueChecks # {}
    /\ clockRead' = now
    /\ scan' = DueChecks
    /\ phase' = "scan"
    /\ UNCHANGED <<now, active, nextDue, startup, paused, blocked, commands, stopSignal, issued>>
    /\ UNCHANGED channelVars

\* The tick has looked at every check.
TickEnds ==
    /\ phase = "scan"
    /\ scan = {}
    /\ blocked = NoResult
    /\ phase' = "select"
    /\ UNCHANGED <<now, clockRead, active, nextDue, startup, paused, scan, blocked,
                   commands, stopSignal, issued>>
    /\ UNCHANGED channelVars

-----------------------------------------------------------------------------
(***************************************************************************)
(* One check of a tick.  The running set is locked once for each question, *)
(* but only workers take checks out of it and only this task puts them in, *)
(* so the answers together are those of the instant of the last question.  *)
(***************************************************************************)

Overlaps(c) == c \in running

\* Mutant: one round too many is admitted.
AtGlobalLimitOffByOne == Cardinality(running) > MaxConcurrent

AtGlobalLimit == Cardinality(running) >= MaxConcurrent

\* The rounds in flight the scheduler counts against the limit of a probe kind:
\* those of the checks that are active now.
RunningOfKind(k) == {c \in running : c \in DOMAIN active /\ KindOf[c] = k}

AtKindLimit(c) ==
    LET limit == KindLimit[KindOf[c]]
    IN  limit # Unlimited /\ Cardinality(RunningOfKind(KindOf[c])) >= limit

\* Mutant: the attempt leaves the check on the slot it was for.
AdvanceStuck(c, due) ==
    /\ UNCHANGED nextDue
    /\ startup' = startup \ {c}
    /\ issued' = issued \cup {<<c, due>>}

\* The slot has been dealt with; the check waits for its next one.
Advance(c, due) ==
    /\ nextDue' = [nextDue EXCEPT ![c] = NextDueAfterAttempt(c, due)]
    /\ startup' = startup \ {c}
    /\ issued' = issued \cup {<<c, due>>}

Registered(c) == running \cup {c}

MayStart(c) == ~Overlaps(c) /\ ~AtGlobalLimit /\ ~AtKindLimit(c)

\* Dispatch: the check enters the running set and its job the channel.
Dispatch(c) ==
    /\ phase = "scan" /\ blocked = NoResult /\ c \in scan
    /\ MayStart(c) /\ ~ReceiverDropped
    /\ HasRoom(jobs, QueueCap)
    /\ running' = Registered(c)
    /\ jobs' = Append(jobs, [check |-> c, slot |-> nextDue[c]])
    /\ Advance(c, nextDue[c])
    /\ scan' = scan \ {c}
    /\ UNCHANGED <<now, clockRead, active, paused, phase, blocked, commands, stopSignal>>
    /\ UNCHANGED <<results, jobsOpen, worker>>

\* A due slot that cannot run becomes a skipped round, which the scheduler
\* starts to send.
Skip(c, status) ==
    /\ phase = "scan" /\ blocked = NoResult /\ c \in scan
    /\ blocked' = [check |-> c, slot |-> nextDue[c], status |-> status]
    /\ scan' = scan \ {c}
    /\ UNCHANGED <<now, clockRead, active, nextDue, startup, paused, phase, commands,
                   stopSignal, issued>>
    /\ UNCHANGED channelVars

SkipOverlap(c) == Overlaps(c) /\ Skip(c, "skipped_overlap")

SkipConcurrency(c) ==
    /\ ~Overlaps(c)
    /\ AtGlobalLimit \/ AtKindLimit(c)
    /\ Skip(c, "skipped_backpressure")

\* Mutant: the key stays behind when the channel is full.
SkipQueueFullKeyLeft(c) ==
    /\ phase = "scan" /\ blocked = NoResult /\ c \in scan
    /\ MayStart(c) /\ ~ReceiverDropped
    /\ ~HasRoom(jobs, QueueCap)
    /\ blocked' = [check |-> c, slot |-> nextDue[c], status |-> "skipped_backpressure"]
    /\ scan' = scan \ {c}
    /\ running' = running \cup {c}
    /\ UNCHANGED <<now, clockRead, active, nextDue, startup, paused, phase, commands,
                   stopSignal, issued, jobs, results, jobsOpen, worker>>

\* try_send found the job channel full; the key inserted for it was taken out again.
SkipQueueFull(c) ==
    /\ MayStart(c) /\ ~ReceiverDropped
    /\ ~HasRoom(jobs, QueueCap)
    /\ Skip(c, "skipped_backpressure")

\* try_send found no receiver: the key is taken out again and the task ends.
QueueClosed(c) ==
    /\ phase = "scan" /\ blocked = NoResult /\ c \in scan
    /\ MayStart(c) /\ ReceiverDropped
    /\ phase' = "stopped"
    /\ scan' = {}
    /\ UNCHANGED <<now, clockRead, active, nextDue, startup, paused, blocked, commands,
                   stopSignal, issued>>
    /\ UNCHANGED channelVars

\* The awaited send of the skipped round found room; the check moves to its next slot.
RecordSkippedRound ==
    /\ blocked # NoResult
    /\ HasRoom(results, ResultCap)
    /\ results' = Append(results, blocked)
    /\ Advance(blocked.check, blocked.slot)
    /\ blocked' = NoResult
    /\ UNCHANGED <<now, clockRead, active, paused, phase, scan, commands, stopSignal>>
    /\ UNCHANGED <<running, jobs, jobsOpen, worker>>

-----------------------------------------------------------------------------
(***************************************************************************)
(* The command branch of the select.                                       *)
(***************************************************************************)

\* Mutant: a kept check starts over as if it were new.
RescheduleAll(config, at) == [c \in DOMAIN config |-> FirstDue(at, c, config[c])]

\* Mutant: the slots of dropped checks are never removed.
RescheduleKeepsDropped(config, at) ==
    [c \in DOMAIN config \cup DOMAIN active |->
        IF c \in DOMAIN active THEN nextDue[c] ELSE FirstDue(at, c, config[c])]

\* A check that stays keeps the slot it waits for, whatever its interval is
\* now; one that is new gets a first slot.
Reschedule(config, at) ==
    [c \in DOMAIN config |->
        IF c \in DOMAIN active THEN nextDue[c] ELSE FirstDue(at, c, config[c])]

\* The clock has moved on by the time the command reads it.
Reconcile ==
    /\ phase = "select" /\ commands # <<>> /\ Head(commands).type = "reconcile"
    /\ LET config == Head(commands).checks IN
        /\ now' = now + 1
        /\ clockRead' = now'
        /\ nextDue' = Reschedule(config, now')
        /\ startup' = IF StartupImmediate
                      THEN startup \cup (DOMAIN config \ DOMAIN active) ELSE startup
        /\ active' = config
    /\ commands' = Tail(commands)
    /\ UNCHANGED <<paused, phase, scan, blocked, stopSignal, issued>>
    /\ UNCHANGED channelVars

Pause ==
    /\ phase = "select" /\ commands # <<>> /\ Head(commands).type = "pause"
    /\ paused' = Head(commands).value
    /\ commands' = Tail(commands)
    /\ UNCHANGED <<now, clockRead, active, nextDue, startup, phase, scan, blocked, stopSignal, issued>>
    /\ UNCHANGED channelVars

\* The shutdown branch of the select: the loop ends between two ticks only.
StopScheduler ==
    /\ phase = "select" /\ stopSignal
    /\ phase' = "stopped"
    /\ UNCHANGED <<now, clockRead, active, nextDue, startup, paused, scan, blocked,
                   commands, stopSignal, issued>>
    /\ UNCHANGED channelVars

ConsiderCheck(c) ==
    Dispatch(c) \/ SkipOverlap(c) \/ SkipConcurrency(c) \/ SkipQueueFull(c)
    \/ QueueClosed(c)

SchedulerStep ==
    \/ TickFires
    \/ \E c \in scan : ConsiderCheck(c)
    \/ RecordSkippedRound
    \/ TickEnds
    \/ Reconcile
    \/ Pause
    \/ StopScheduler

SchedulerTypeOK ==
    /\ now \in Nat
    /\ clockRead \in Nat
    /\ active \in Configurations
    /\ nextDue \in [DOMAIN active -> Slots]
    /\ startup \in SUBSET Checks
    /\ paused \in BOOLEAN
    /\ phase \in {"select", "scan", "stopped"}
    /\ scan \in SUBSET DOMAIN active
    /\ blocked \in RoundResult \cup {NoResult}
    /\ commands \in Seq(Commands)
    /\ stopSignal \in BOOLEAN
    /\ issued \in SUBSET (Checks \X Slots)
=============================================================================
