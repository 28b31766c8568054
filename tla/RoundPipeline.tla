--------------------------- MODULE RoundPipeline ----------------------------
(***************************************************************************)
(* The path of a round through kemuri: scheduler, job channel, workers,    *)
(* result channel, storage writer; and the task of serve that drives it,   *)
(* with reload, disk pressure, shutdown, and the death of a required task. *)
(***************************************************************************)
EXTENDS Scheduler, WorkerPool, StorageWriter

CONSTANTS
    ReloadConfigs,    \* the configurations a reload may bring
    MaxReloads,       \* bound of the model: reloads
    MaxPressure,      \* bound of the model: changes of disk pressure
    MaxBackSteps,     \* bound of the model: steps back of the wall clock
    DrainMayTimeOut   \* server.shutdown_timeout may elapse

ASSUME ReloadAssumption == ReloadConfigs \subseteq Configurations
ASSUME EnvironmentBounds ==
    /\ MaxReloads \in Nat
    /\ MaxPressure \in Nat
    /\ MaxBackSteps \in Nat
ASSUME DrainAssumption == DrainMayTimeOut \in BOOLEAN

VARIABLES
    stage,         \* where serve is: running, reloading, stopping, draining, done, aborted
    pending,       \* the configuration a reload has committed but not yet handed over
    reloads,       \* reloads so far
    pressure,      \* the last Pause value the disk monitor sent
    pressureTurns, \* how often it changed
    backSteps      \* how often the wall clock stepped back

serveVars == <<stage, pending, reloads, pressure, pressureTurns, backSteps>>
vars == <<channelVars, now, schedulerVars, writerVars, serveVars>>

Init ==
    /\ ChannelsInit
    /\ SchedulerInit
    /\ WriterInit(DOMAIN InitialConfig)
    /\ stage = "running"
    /\ pending = InitialConfig
    /\ reloads = 0
    /\ pressure = FALSE
    /\ pressureTurns = 0
    /\ backSteps = 0

ClockTicks ==
    /\ now < MaxTime
    /\ now' = now + 1
    /\ UNCHANGED <<channelVars, schedulerVars, writerVars, serveVars>>

\* The scheduler reads the wall clock, which an operator or NTP may set back.
ClockStepsBack ==
    /\ backSteps < MaxBackSteps
    /\ now' \in 0..(now - 1)
    /\ backSteps' = backSteps + 1
    /\ UNCHANGED <<channelVars, schedulerVars, writerVars>>
    /\ UNCHANGED <<stage, pending, reloads, pressure, pressureTurns>>

-----------------------------------------------------------------------------
(***************************************************************************)
(* perform_reload, up to its first and its second effect on this pipeline. *)
(* A reload that fails before the commit has no effect here.               *)
(***************************************************************************)

\* The reconciliation transaction.  A check that is no longer enabled becomes
\* inactive, except that the checks of a target that has gone as a whole keep
\* their rows as they were.
CommitReload ==
    /\ stage = "running" /\ reloads < MaxReloads
    /\ \E config \in ReloadConfigs, kept \in SUBSET dbActive :
        /\ pending' = config
        /\ dbActive' = DOMAIN config \cup kept
    /\ stage' = "reloading"
    /\ reloads' = reloads + 1
    /\ UNCHANGED <<rounds, currentState, alerts, writer, dropped>>
    /\ UNCHANGED <<channelVars, now, schedulerVars, pressure, pressureTurns, backSteps>>

\* Scheduler::reconcile: the send waits for room in the command channel.
HandOverReload ==
    /\ stage = "reloading"
    /\ HasRoom(commands, CommandCap) \/ phase = "stopped"
    /\ commands' = IF phase = "stopped" THEN commands
                   ELSE Append(commands, ReconcileCommand(pending))
    /\ stage' = "running"
    /\ UNCHANGED <<clockRead, active, nextDue, startup, paused, phase, scan, blocked,
                   stopSignal, issued>>
    /\ UNCHANGED <<channelVars, now, writerVars, pending, reloads, pressure, pressureTurns,
                   backSteps>>

\* The disk monitor sends a Pause when the pressure changes (module DiskMonitor).
DiskPressureTurns ==
    /\ pressureTurns < MaxPressure
    /\ stage \in {"running", "reloading", "stopping"} /\ phase # "stopped"
    /\ HasRoom(commands, CommandCap)
    /\ pressure' = ~pressure
    /\ pressureTurns' = pressureTurns + 1
    /\ commands' = Append(commands, PauseCommand(~pressure))
    /\ UNCHANGED <<clockRead, active, nextDue, startup, paused, phase, scan, blocked,
                   stopSignal, issued>>
    /\ UNCHANGED <<channelVars, now, writerVars, stage, pending, reloads, backSteps>>

-----------------------------------------------------------------------------
(***************************************************************************)
(* Shutdown.                                                               *)
(***************************************************************************)

BeginShutdown ==
    /\ stage = "running"
    /\ stage' = "stopping"
    /\ stopSignal' = TRUE
    /\ UNCHANGED <<clockRead, active, nextDue, startup, paused, phase, scan, blocked,
                   commands, issued>>
    /\ UNCHANGED <<channelVars, now, writerVars, pending, reloads, pressure, pressureTurns,
                   backSteps>>

\* SIGTERM or the end of the HTTP server.
ShutdownRequested == BeginShutdown

\* Mutant: only the scheduler is a required task.
OnlySchedulerRequired == phase = "stopped"

ComponentDied == phase = "stopped" \/ \E w \in Workers : worker[w].state = "dead"

\* A required task has ended and reported on the fatal channel.
FatalExit == ComponentDied /\ BeginShutdown

\* Mutant: the stopped scheduler keeps its senders.
OpenAfterStopStill == TRUE

OpenAfterStop == FALSE

\* Scheduler::stop: once the task has ended its senders are dropped.
DropSenders ==
    /\ stage = "stopping" /\ phase = "stopped"
    /\ stage' = "draining"
    /\ jobsOpen' = OpenAfterStop
    /\ UNCHANGED <<running, jobs, results, worker>>
    /\ UNCHANGED <<now, schedulerVars, writerVars, pending, reloads, pressure, pressureTurns,
                   backSteps>>

\* serve joins the workers, the writer and the alert evaluator.
DrainCompletes ==
    /\ stage = "draining" /\ ReceiverDropped /\ writer = "exited" /\ alerts = <<>>
    /\ stage' = "done"
    /\ UNCHANGED <<channelVars, now, schedulerVars, writerVars, pending, reloads, pressure,
                   pressureTurns, backSteps>>

\* The deadline passes first: every task that is left is aborted.
DrainTimesOut ==
    /\ DrainMayTimeOut /\ stage = "draining"
    /\ stage' = "aborted"
    /\ worker' = [w \in Workers |->
                    IF Gone(w) THEN worker[w]
                    ELSE [worker[w] EXCEPT !.state =
                            IF @ = "probing" THEN "dead" ELSE "exited"]]
    /\ writer' = "exited"
    /\ UNCHANGED <<running, jobs, results, jobsOpen>>
    /\ UNCHANGED <<dbActive, rounds, currentState, alerts, dropped>>
    /\ UNCHANGED <<now, schedulerVars, pending, reloads, pressure, pressureTurns,
                   backSteps>>

Stopped == stage \in {"done", "aborted"}

\* The process has ended.
Terminated == Stopped /\ UNCHANGED vars

-----------------------------------------------------------------------------
Scheduling ==
    /\ SchedulerStep
    /\ UNCHANGED <<writerVars, serveVars>>

Working(w) ==
    /\ WorkerStep(w)
    /\ UNCHANGED <<now, schedulerVars, writerVars, serveVars>>

Writing ==
    /\ WriterStep
    /\ UNCHANGED <<now, schedulerVars, serveVars>>

Next ==
    \/ ~Stopped /\ ClockTicks
    \/ ~Stopped /\ ClockStepsBack
    \/ ~Stopped /\ Scheduling
    \/ \E w \in Workers : ~Stopped /\ Working(w)
    \/ ~Stopped /\ Writing
    \/ CommitReload
    \/ HandOverReload
    \/ DiskPressureTurns
    \/ ShutdownRequested
    \/ FatalExit
    \/ DropSenders
    \/ DrainCompletes
    \/ DrainTimesOut
    \/ Terminated

Spec == Init /\ [][Next]_vars
-----------------------------------------------------------------------------
(***************************************************************************)
(* Fairness.  The runtime polls every task that can make progress.  The    *)
(* branches of the scheduler's select are polled in random order, so one   *)
(* that is ready again and again is taken in the end: strong fairness.     *)
(* Nothing makes the environment act: no fairness for the clock, reloads,  *)
(* disk pressure, panics, storage errors or a shutdown signal.             *)
(***************************************************************************)
InTick == (\E c \in scan : ConsiderCheck(c)) \/ RecordSkippedRound \/ TickEnds

Fairness ==
    /\ WF_vars(~Stopped /\ TickFires /\ UNCHANGED <<writerVars, serveVars>>)
    /\ WF_vars(~Stopped /\ InTick /\ UNCHANGED <<writerVars, serveVars>>)
    /\ SF_vars(~Stopped /\ (Reconcile \/ Pause) /\ UNCHANGED <<writerVars, serveVars>>)
    /\ SF_vars(~Stopped /\ StopScheduler /\ UNCHANGED <<writerVars, serveVars>>)
    /\ \A w \in Workers :
        WF_vars(~Stopped /\ Working(w))
    /\ WF_vars(~Stopped /\ Writing)
    /\ WF_vars(HandOverReload)
    /\ WF_vars(FatalExit)
    /\ WF_vars(DropSenders)
    /\ WF_vars(DrainCompletes)

FairSpec == Spec /\ Fairness

-----------------------------------------------------------------------------
(***************************************************************************)
(* Properties.                                                             *)
(***************************************************************************)

ServeTypeOK ==
    /\ stage \in {"running", "reloading", "stopping", "draining", "done", "aborted"}
    /\ pending \in Configurations
    /\ reloads \in 0..MaxReloads
    /\ pressure \in BOOLEAN
    /\ pressureTurns \in 0..MaxPressure
    /\ backSteps \in 0..MaxBackSteps

\* The variables have their types.
TypeOK == ChannelsTypeOK /\ SchedulerTypeOK /\ WriterTypeOK /\ ServeTypeOK

Holds(w) == worker[w].state \in {"probing", "dead"} /\ worker[w].job # NoRound

CheckHeld(w) == worker[w].job.check

Queued == {jobs[i].check : i \in DOMAIN jobs}
Held == {CheckHeld(w) : w \in {v \in Workers : Holds(v)}}

QueuedOnce == \A i, j \in DOMAIN jobs : jobs[i].check = jobs[j].check => i = j
HeldOnce == \A v, w \in Workers : Holds(v) /\ Holds(w) /\ CheckHeld(v) = CheckHeld(w) => v = w

\* The running set, which three tasks update under a mutex they do not hold
\* across their steps, is exactly the checks with a job in the channel or in
\* the hands of a worker that is probing (or died probing), and no check has
\* two rounds in flight (scheduler.rs:184-296, worker.rs:70-81).
RunningExact ==
    /\ running = Queued \cup Held
    /\ QueuedOnce
    /\ HeldOnce
    /\ Queued \cap Held = {}

\* scheduler.max_concurrent bounds the rounds in flight through overlaps,
\* reloads and dead workers.
GlobalLimitHeld == Cardinality(running) <= MaxConcurrent

\* scheduler.max_concurrent_by_probe bounds the rounds in flight of its kind.  Not
\* kept across a reload, of whose rounds the scheduler counts those of active checks
\* only: see README, divergences.
KindLimitHeld ==
    \A k \in Kinds :
        KindLimit[k] # Unlimited =>
            Cardinality({c \in running : KindOf[c] = k}) <= KindLimit[k]

InHand == {w \in Workers : worker[w].job # NoRound}

\* No slot is lost and none is duplicated between the scheduler and the
\* database: every slot dealt with is at exactly one place - the job channel, a
\* worker, the result channel, the rounds table or the discarded results -
\* whatever tasks interleave, stop, die or are aborted.
SlotConservation ==
    /\ issued = {SlotOf(jobs[i]) : i \in DOMAIN jobs}
                \cup {SlotOf(worker[w].job) : w \in InHand}
                \cup {SlotOf(results[i]) : i \in DOMAIN results}
                \cup SlotsOf(rounds)
                \cup SlotsOf(dropped)
    /\ Cardinality(issued) = Len(jobs) + Cardinality(InHand) + Len(results)
                             + Cardinality(rounds) + Cardinality(dropped)

\* The same promise without the places: the pipeline implements the ledger of
\* slots, in which a slot is opened once and closed at most once.
Ledger == INSTANCE RoundLedger WITH
    opened <- issued,
    stored <- SlotsOf(rounds),
    discarded <- SlotsOf(dropped)

LedgerSpec == Ledger!Spec

\* A graceful shutdown flushes: when every task has been joined and no worker
\* died, the slots dealt with are those in the database and those discarded.
DrainFlushes ==
    stage = "done" /\ (\A w \in Workers : worker[w].state # "dead") =>
        issued = SlotsOf(rounds) \cup SlotsOf(dropped)

\* The current state of a check is always that of a round in the table, even
\* when statements fail between the insert and the upsert.
CurrentStateBacked ==
    \A c \in Checks : currentState[c] \in rounds \cup {NoResult}

\* The check page shows the current state as that of the last round.
LastRoundIsLast ==
    \A r \in rounds : ~StorageFails => currentState[r.check].slot >= r.slot

\* The checks every configuration has, always with one interval.
Steady(c) ==
    \A config \in ReloadConfigs \cup {InitialConfig} :
        c \in DOMAIN config /\ config[c] = InitialConfig[c]

IsAligned(t, c, interval) == t % interval = Offset[c][interval]

\* A check that every reload keeps as it is misses no slot: between its first
\* slot after the startup round and the one it waits for, each aligned slot has
\* been dealt with, in spite of overlaps, backpressure, pauses and reloads.
NoSlotMissed ==
    \A c \in DOMAIN InitialConfig :
        Steady(c) =>
            /\ c \in DOMAIN active
            /\ \A s \in {d[2] : d \in {e \in issued : e[1] = c}} \ {0} :
                \A t \in s..(nextDue[c] - 1) :
                    IsAligned(t, c, active[c]) => <<c, t>> \in issued

\* A check every configuration has, with whatever interval.
Kept(c) == \A config \in ReloadConfigs \cup {InitialConfig} : c \in DOMAIN config

\* No slot comes round again, of which the second round would be probed only to be turned
\* away by the unique index: the slot a check waits for is later than all that were dealt
\* with.  A wall clock that steps back only makes it wait, and so does a reload that takes
\* the check away and a later one that brings it back; it takes both for a slot to recur.
SlotsAdvance ==
    \A c \in DOMAIN nextDue :
        backSteps = 0 \/ reloads < 2 \/ Kept(c) =>
            \A d \in issued : d[1] = c => d[2] < nextDue[c]

\* Every slot after the startup round is an aligned slot of the interval the
\* check has: "then uses interval-aligned slots with deterministic jitter".  Not kept
\* when a reload changes the interval: see README, divergences.
SlotsAligned ==
    \A c \in DOMAIN active : c \in startup \/ IsAligned(nextDue[c], c, active[c])

\* Every slot dealt with is settled: it reaches the database or is discarded
\* for a reason, unless the shutdown deadline aborts the tasks, the worker
\* holding it died, or it is in the job channel and no worker is left.
SlotsSettle ==
    \A c \in Checks, t \in 0..(MaxTime + MaxReloads) :
        <<c, t>> \in issued ~>
            \/ <<c, t>> \in SlotsOf(rounds) \cup SlotsOf(dropped)
            \/ stage = "aborted"
            \/ ReceiverDropped /\ <<c, t>> \in {SlotOf(jobs[i]) : i \in DOMAIN jobs}
            \/ \E w \in Workers : worker[w] = [state |-> "dead",
                                                job |-> [check |-> c, slot |-> t]]

\* A shutdown ends, whatever the channels hold when it begins.
ShutdownEnds == stage = "stopping" ~> Stopped

\* The death of a worker brings the process down instead of leaving it
\* scheduling with fewer workers.
DeathIsFatal == \A w \in Workers : worker[w].state = "dead" ~> Stopped

\* "Kemuri writes a no-data round when it cannot attempt a sample. Examples are
\* an overlap, queue backpressure, and a disk-pressure scheduling pause."
PausedSlotsRecorded ==
    \A c \in Checks, t \in 0..(MaxTime + MaxReloads) :
        (paused /\ c \in DOMAIN nextDue /\ nextDue[c] = t /\ t <= now)
            ~> (<<c, t>> \in issued \/ ~paused \/ c \notin DOMAIN nextDue \/ Stopped)
=============================================================================
