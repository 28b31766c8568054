------------------------- MODULE RoundPipelineProofs -------------------------
(***************************************************************************)
(* What holds of the round pipeline for every value of the constants.      *)
(***************************************************************************)
EXTENDS RoundPipeline, FiniteSetTheorems, TLAPS

(***************************************************************************)
(* Lemmas about the data.                                                  *)
(***************************************************************************)

\* A configuration maps some of the checks to intervals.
LEMMA ConfigurationIsFunction ==
    ASSUME NEW config \in Configurations
    PROVE  /\ DOMAIN config \in SUBSET Checks
           /\ config \in [DOMAIN config -> Intervals]
BY DEF Configurations

\* The slot arithmetic of a check yields slots.
LEMMA NextAlignedIsSlot ==
    ASSUME NEW after \in Nat, NEW c \in Checks, NEW i \in Intervals
    PROVE  NextAligned(after, c, i) \in Slots
<1>1. i \in Nat /\ i > 0 /\ Offset[c][i] \in Nat
    BY IntervalsAssumption, OffsetAssumption
<1>2. after \div i \in Nat
    BY <1>1
<1>3. (after \div i) * i \in Nat
    BY <1>1, <1>2
<1> QED
    BY <1>1, <1>3 DEF NextAligned, Slots

\* So does the first due instant of a check.
LEMMA FirstDueIsSlot ==
    ASSUME NEW at \in Nat, NEW c \in Checks, NEW i \in Intervals
    PROVE  FirstDue(at, c, i) \in Slots
BY NextAlignedIsSlot DEF FirstDue, Slots

\* A reload gives every check of the new configuration a slot.
LEMMA RescheduleIsSlots ==
    ASSUME NEW config \in Configurations, NEW at \in Nat, SchedulerTypeOK
    PROVE  Reschedule(config, at) \in [DOMAIN config -> Slots]
<1>1. \A c \in DOMAIN config : c \in Checks /\ config[c] \in Intervals
    BY ConfigurationIsFunction
<1>2. \A c \in DOMAIN active : nextDue[c] \in Slots
    BY DEF SchedulerTypeOK
<1>3. \A c \in DOMAIN config : FirstDue(at, c, config[c]) \in Slots
    BY <1>1, FirstDueIsSlot
<1> QED
    BY <1>2, <1>3 DEF Reschedule

\* A command is a reload, which carries a configuration, or a pause.
LEMMA CommandPayload ==
    ASSUME NEW m \in Commands
    PROVE  /\ m.type = "reconcile" => m.checks \in Configurations
           /\ m.type = "pause" => m.value \in BOOLEAN
BY DEF Commands, ReconcileCommand, PauseCommand

LEMMA CommandsAreCommands ==
    /\ \A config \in Configurations : ReconcileCommand(config) \in Commands
    /\ \A b \in BOOLEAN : PauseCommand(b) \in Commands
BY DEF Commands, ReconcileCommand, PauseCommand

-----------------------------------------------------------------------------
(***************************************************************************)
(* Type correctness.  By itself TypeOK is not inductive: the scheduler     *)
(* must be between two ticks with nothing left to look at when a reload    *)
(* changes its checks, and a worker that sends must have a round in hand.  *)
(***************************************************************************)
BetweenTicks ==
    /\ phase # "scan" => scan = {} /\ blocked = NoResult
    /\ blocked # NoResult => blocked.check \in DOMAIN active

HandsFull ==
    \A w \in Workers :
        worker[w].state \in {"probing", "sending", "dead"} => worker[w].job \in RoundJob

TInv == TypeOK /\ BetweenTicks /\ HandsFull

LEMMA TypeInit == Init => TInv
<1> SUFFICES ASSUME Init PROVE TInv
    OBVIOUS
<1> USE DEF Init
<1>1. ChannelsTypeOK
    BY DEF ChannelsInit, ChannelsTypeOK, WorkerStates
<1>2. InitialConfig \in Configurations /\ DOMAIN InitialConfig \in SUBSET Checks
      /\ \A c \in DOMAIN InitialConfig : InitialConfig[c] \in Intervals
    BY InitialConfigAssumption, ConfigurationIsFunction
<1>3. SchedulerTypeOK
  <2>1. nextDue \in [DOMAIN InitialConfig -> Slots]
    BY <1>2, FirstDueIsSlot DEF SchedulerInit
  <2>2. startup \in SUBSET Checks
    BY <1>2 DEF SchedulerInit
  <2>3. commands \in Seq(Commands)
    BY DEF SchedulerInit
  <2>4. scan \in SUBSET DOMAIN active /\ issued \in SUBSET (Checks \X Slots)
    BY DEF SchedulerInit
  <2> QED
    BY <1>2, <2>1, <2>2, <2>3, <2>4 DEF SchedulerInit, SchedulerTypeOK
<1>4. WriterTypeOK
    BY <1>2 DEF WriterInit, WriterTypeOK
<1>5. ServeTypeOK
  <2>1. 0 \in 0..MaxReloads /\ 0 \in 0..MaxPressure /\ 0 \in 0..MaxBackSteps
    BY EnvironmentBounds
  <2>2. pending \in Configurations
    BY InitialConfigAssumption
  <2> QED
    BY <2>1, <2>2 DEF ServeTypeOK
<1>6. BetweenTicks /\ HandsFull
    BY DEF SchedulerInit, ChannelsInit, BetweenTicks, HandsFull
<1> QED
    BY <1>1, <1>3, <1>4, <1>5, <1>6 DEF TypeOK, TInv

\* What a step leaves alone keeps its type.
LEMMA TypesUnchanged ==
    ASSUME TInv
    PROVE  /\ UNCHANGED channelVars => ChannelsTypeOK' /\ HandsFull'
           /\ UNCHANGED worker => HandsFull'
           /\ UNCHANGED <<now, schedulerVars>> => SchedulerTypeOK' /\ BetweenTicks'
           /\ UNCHANGED <<active, phase, scan, blocked>> => BetweenTicks'
           /\ UNCHANGED writerVars => WriterTypeOK'
           /\ UNCHANGED serveVars => ServeTypeOK'
<1>1. UNCHANGED channelVars => ChannelsTypeOK'
    BY DEF TInv, TypeOK, channelVars, ChannelsTypeOK
<1>2. UNCHANGED worker => HandsFull'
    BY DEF TInv, HandsFull
<1>3. UNCHANGED <<now, schedulerVars>> => SchedulerTypeOK'
    BY DEF TInv, TypeOK, schedulerVars, SchedulerTypeOK
<1>4. UNCHANGED <<active, phase, scan, blocked>> => BetweenTicks'
    BY DEF TInv, BetweenTicks
<1>5. UNCHANGED writerVars => WriterTypeOK'
    BY DEF TInv, TypeOK, writerVars, WriterTypeOK
<1>6. UNCHANGED serveVars => ServeTypeOK'
    BY DEF TInv, TypeOK, serveVars, ServeTypeOK
<1> QED
    BY <1>1, <1>2, <1>3, <1>4, <1>5, <1>6 DEF channelVars, schedulerVars

\* The check moves to its next slot.
LEMMA AdvanceKeepsTypes ==
    ASSUME TInv, NEW c \in DOMAIN active, NEW due \in Slots, Advance(c, due)
    PROVE  /\ nextDue' \in [DOMAIN active -> Slots]
           /\ startup' \in SUBSET Checks
           /\ issued' \in SUBSET (Checks \X Slots)
<1>1. c \in Checks /\ active[c] \in Intervals
    BY ConfigurationIsFunction DEF TInv, TypeOK, SchedulerTypeOK
<1>2. NextAligned(clockRead, c, active[c]) \in Slots
    BY <1>1, NextAlignedIsSlot DEF TInv, TypeOK, SchedulerTypeOK
<1>3. due + active[c] \in Slots
  <2>1. active[c] \in Nat /\ due \in Nat
    BY <1>1, IntervalsAssumption DEF Slots
  <2> QED
    BY <2>1 DEF Slots
<1>4. NextDueAfterAttempt(c, due) \in Slots
    BY <1>2, <1>3 DEF NextDueAfterAttempt
<1> QED
    BY <1>1, <1>4 DEF Advance, TInv, TypeOK, SchedulerTypeOK

LEMMA SchedulingKeepsTypes == TInv /\ Scheduling => TInv'
<1> SUFFICES ASSUME TInv, Scheduling PROVE TInv'
    OBVIOUS
<1>1. WriterTypeOK' /\ ServeTypeOK'
    BY TypesUnchanged DEF Scheduling
<1>2. \A c \in DOMAIN active : c \in Checks /\ nextDue[c] \in Slots
    BY ConfigurationIsFunction DEF TInv, TypeOK, SchedulerTypeOK
<1> SUFFICES ChannelsTypeOK' /\ HandsFull' /\ SchedulerTypeOK' /\ BetweenTicks'
    BY <1>1 DEF TInv, TypeOK
<1>3. CASE TickFires
  <2>1. ChannelsTypeOK' /\ HandsFull'
    BY <1>3, TypesUnchanged DEF TickFires
  <2>2. SchedulerTypeOK' /\ BetweenTicks'
    BY <1>3 DEF TickFires, DueChecks, TInv, TypeOK, SchedulerTypeOK, BetweenTicks
  <2> QED
    BY <2>1, <2>2
<1>4. CASE TickEnds
  <2>1. ChannelsTypeOK' /\ HandsFull'
    BY <1>4, TypesUnchanged DEF TickEnds
  <2>2. SchedulerTypeOK' /\ BetweenTicks'
    BY <1>4 DEF TickEnds, TInv, TypeOK, SchedulerTypeOK, BetweenTicks
  <2> QED
    BY <2>1, <2>2
<1>5. ASSUME NEW c \in scan, Dispatch(c)
      PROVE  ChannelsTypeOK' /\ HandsFull' /\ SchedulerTypeOK' /\ BetweenTicks'
  <2>1. c \in DOMAIN active /\ c \in Checks /\ nextDue[c] \in Slots
    BY <1>2 DEF TInv, TypeOK, SchedulerTypeOK
  <2>2. [check |-> c, slot |-> nextDue[c]] \in RoundJob
    BY <2>1 DEF RoundJob
  <2>3. jobs' \in Seq(RoundJob) /\ running' \in SUBSET Checks
    BY <1>5, <2>1, <2>2 DEF Dispatch, Registered, TInv, TypeOK, ChannelsTypeOK
  <2>4. ChannelsTypeOK' /\ HandsFull'
    BY <1>5, <2>3, TypesUnchanged DEF Dispatch, TInv, TypeOK, ChannelsTypeOK
  <2>5. SchedulerTypeOK' /\ BetweenTicks'
    BY <1>5, <2>1, AdvanceKeepsTypes
    DEF Dispatch, TInv, TypeOK, SchedulerTypeOK, BetweenTicks
  <2> QED
    BY <2>4, <2>5
<1>6. ASSUME NEW c \in scan, NEW status \in Statuses, Skip(c, status)
      PROVE  ChannelsTypeOK' /\ HandsFull' /\ SchedulerTypeOK' /\ BetweenTicks'
  <2>1. c \in DOMAIN active /\ c \in Checks /\ nextDue[c] \in Slots
    BY <1>2 DEF TInv, TypeOK, SchedulerTypeOK
  <2>2. blocked' \in RoundResult /\ blocked'.check = c
    BY <1>6, <2>1 DEF Skip, RoundResult
  <2>3. ChannelsTypeOK' /\ HandsFull'
    BY <1>6, TypesUnchanged DEF Skip
  <2>4. SchedulerTypeOK' /\ BetweenTicks'
    BY <1>6, <2>1, <2>2 DEF Skip, TInv, TypeOK, SchedulerTypeOK, BetweenTicks
  <2> QED
    BY <2>3, <2>4
<1>7. ASSUME NEW c \in scan, QueueClosed(c)
      PROVE  ChannelsTypeOK' /\ HandsFull' /\ SchedulerTypeOK' /\ BetweenTicks'
  <2>1. ChannelsTypeOK' /\ HandsFull'
    BY <1>7, TypesUnchanged DEF QueueClosed
  <2>2. SchedulerTypeOK' /\ BetweenTicks'
    BY <1>7 DEF QueueClosed, TInv, TypeOK, SchedulerTypeOK, BetweenTicks
  <2> QED
    BY <2>1, <2>2
<1>8. CASE RecordSkippedRound
  <2>1. blocked \in RoundResult /\ blocked.check \in DOMAIN active /\ blocked.slot \in Slots
    BY <1>8 DEF RecordSkippedRound, TInv, TypeOK, SchedulerTypeOK, BetweenTicks, RoundResult
  <2>2. results' \in Seq(RoundResult)
    BY <1>8, <2>1 DEF RecordSkippedRound, TInv, TypeOK, ChannelsTypeOK
  <2>3. ChannelsTypeOK' /\ HandsFull'
    BY <1>8, <2>2, TypesUnchanged DEF RecordSkippedRound, TInv, TypeOK, ChannelsTypeOK
  <2>4. SchedulerTypeOK' /\ BetweenTicks'
    BY <1>8, <2>1, AdvanceKeepsTypes
    DEF RecordSkippedRound, TInv, TypeOK, SchedulerTypeOK, BetweenTicks
  <2> QED
    BY <2>3, <2>4
<1>9. CASE Reconcile
  <2>1. Head(commands) \in Commands /\ commands' \in Seq(Commands)
    BY <1>9 DEF Reconcile, TInv, TypeOK, SchedulerTypeOK
  <2>2. Head(commands).checks \in Configurations
    BY <1>9, <2>1, CommandPayload DEF Reconcile
  <2>3. now' \in Nat /\ clockRead' \in Nat /\ active' \in Configurations
        /\ active' = Head(commands).checks
    BY <1>9, <2>2 DEF Reconcile, TInv, TypeOK, SchedulerTypeOK
  <2>4. nextDue' \in [DOMAIN active' -> Slots]
    BY <1>9, <2>2, <2>3, RescheduleIsSlots DEF Reconcile, TInv, TypeOK
  <2>5. startup' \in SUBSET Checks
    BY <1>9, <2>2, ConfigurationIsFunction DEF Reconcile, TInv, TypeOK, SchedulerTypeOK
  <2>6. scan = {} /\ blocked = NoResult
    BY <1>9 DEF Reconcile, TInv, BetweenTicks
  <2>7. SchedulerTypeOK' /\ BetweenTicks'
    BY <1>9, <2>1, <2>3, <2>4, <2>5, <2>6
    DEF Reconcile, TInv, TypeOK, SchedulerTypeOK, BetweenTicks
  <2>8. ChannelsTypeOK' /\ HandsFull'
    BY <1>9, TypesUnchanged DEF Reconcile
  <2> QED
    BY <2>7, <2>8
<1>10. CASE Pause
  <2>1. Head(commands) \in Commands /\ commands' \in Seq(Commands)
    BY <1>10 DEF Pause, TInv, TypeOK, SchedulerTypeOK
  <2>2. paused' \in BOOLEAN
    BY <1>10, <2>1, CommandPayload DEF Pause
  <2>3. SchedulerTypeOK' /\ BetweenTicks'
    BY <1>10, <2>1, <2>2 DEF Pause, TInv, TypeOK, SchedulerTypeOK, BetweenTicks
  <2>4. ChannelsTypeOK' /\ HandsFull'
    BY <1>10, TypesUnchanged DEF Pause
  <2> QED
    BY <2>3, <2>4
<1>11. CASE StopScheduler
  <2>1. ChannelsTypeOK' /\ HandsFull'
    BY <1>11, TypesUnchanged DEF StopScheduler
  <2>2. SchedulerTypeOK' /\ BetweenTicks'
    BY <1>11 DEF StopScheduler, TInv, TypeOK, SchedulerTypeOK, BetweenTicks
  <2> QED
    BY <2>1, <2>2
<1>12. ASSUME NEW c \in scan, ConsiderCheck(c)
       PROVE  ChannelsTypeOK' /\ HandsFull' /\ SchedulerTypeOK' /\ BetweenTicks'
    BY <1>12, <1>5, <1>6, <1>7
    DEF ConsiderCheck, SkipOverlap, SkipConcurrency, SkipQueueFull, Statuses
<1> QED
    BY <1>3, <1>4, <1>8, <1>9, <1>10, <1>11, <1>12 DEF Scheduling, SchedulerStep

LEMMA WorkingKeepsTypes ==
    ASSUME TInv, NEW w \in Workers, Working(w)
    PROVE  TInv'
<1>1. SchedulerTypeOK' /\ BetweenTicks' /\ WriterTypeOK' /\ ServeTypeOK'
    BY TypesUnchanged DEF Working
<1> SUFFICES ChannelsTypeOK' /\ HandsFull'
    BY <1>1 DEF TInv, TypeOK
<1>2. CASE TakeJob(w)
  <2>1. Head(jobs) \in RoundJob /\ jobs' \in Seq(RoundJob)
    BY <1>2 DEF TakeJob, TInv, TypeOK, ChannelsTypeOK
  <2> QED
    BY <1>2, <2>1 DEF TakeJob, WorkerStates, TInv, TypeOK, ChannelsTypeOK, HandsFull
<1>3. CASE FinishRound(w)
    BY <1>3 DEF FinishRound, Released, WorkerStates, TInv, TypeOK, ChannelsTypeOK, HandsFull
<1>4. CASE SendResult(w)
  <2>1. worker[w].job \in RoundJob
    BY <1>4 DEF SendResult, TInv, HandsFull
  <2>2. Executed(worker[w].job) \in RoundResult
    BY <2>1 DEF Executed, RoundJob, RoundResult, Statuses
  <2>3. results' \in Seq(RoundResult)
    BY <1>4, <2>2 DEF SendResult, TInv, TypeOK, ChannelsTypeOK
  <2> QED
    BY <1>4, <2>3 DEF SendResult, Idle, WorkerStates, TInv, TypeOK, ChannelsTypeOK, HandsFull
<1>5. CASE WorkerExits(w)
    BY <1>5 DEF WorkerExits, WorkerStates, TInv, TypeOK, ChannelsTypeOK, HandsFull
<1>6. CASE WorkerPanics(w)
    BY <1>6 DEF WorkerPanics, WorkerStates, TInv, TypeOK, ChannelsTypeOK, HandsFull
<1> QED
    BY <1>2, <1>3, <1>4, <1>5, <1>6 DEF Working, WorkerStep

LEMMA WritingKeepsTypes == TInv /\ Writing => TInv'
<1> SUFFICES ASSUME TInv, Writing PROVE TInv'
    OBVIOUS
<1>1. SchedulerTypeOK' /\ BetweenTicks' /\ ServeTypeOK'
    BY TypesUnchanged DEF Writing
<1> SUFFICES ChannelsTypeOK' /\ HandsFull' /\ WriterTypeOK'
    BY <1>1 DEF TInv, TypeOK
<1>2. CASE WriteRound
  <2> DEFINE r == Head(results)
  <2>1. r \in RoundResult /\ results' \in Seq(RoundResult)
    BY <1>2 DEF WriteRound, Consume, TInv, TypeOK, ChannelsTypeOK
  <2>2. ChannelsTypeOK' /\ HandsFull'
    BY <1>2, <2>1, TypesUnchanged DEF WriteRound, TInv, TypeOK, ChannelsTypeOK
  <2>3. SlotOf(r) \in Checks \X Slots
    BY <2>1 DEF RoundResult, SlotOf
  <2>4. CASE DropResult(r)
    BY <1>2, <2>1, <2>2, <2>4 DEF WriteRound, DropResult, TInv, TypeOK, WriterTypeOK
  <2>5. CASE UpsertFails(r)
    BY <1>2, <2>1, <2>2, <2>5 DEF WriteRound, UpsertFails, TInv, TypeOK, WriterTypeOK
  <2>6. CASE StoreRound(r)
    <3>1. alerts' \in Seq(Checks \X Slots)
      BY <2>3, <2>6 DEF StoreRound, TInv, TypeOK, WriterTypeOK
    <3> QED
      BY <1>2, <2>1, <2>2, <2>6, <3>1 DEF WriteRound, StoreRound, TInv, TypeOK, WriterTypeOK
  <2> QED
    BY <1>2, <2>2, <2>4, <2>5, <2>6
    DEF WriteRound, DiscardInactive, RejectDuplicate, InsertFails
<1>3. CASE WriterExits
    BY <1>3, TypesUnchanged DEF WriterExits, TInv, TypeOK, WriterTypeOK
<1>4. CASE EvaluateAlert
  <2>1. alerts' \in Seq(Checks \X Slots)
    BY <1>4 DEF EvaluateAlert, TInv, TypeOK, WriterTypeOK
  <2> QED
    BY <1>4, <2>1, TypesUnchanged DEF EvaluateAlert, TInv, TypeOK, WriterTypeOK
<1> QED
    BY <1>2, <1>3, <1>4 DEF Writing, WriterStep

LEMMA ServingKeepsTypes ==
    /\ TInv /\ CommitReload => TInv'
    /\ TInv /\ HandOverReload => TInv'
    /\ TInv /\ DiskPressureTurns => TInv'
    /\ TInv /\ BeginShutdown => TInv'
    /\ TInv /\ DropSenders => TInv'
    /\ TInv /\ DrainCompletes => TInv'
    /\ TInv /\ DrainTimesOut => TInv'
<1>1. ASSUME TInv, CommitReload PROVE TInv'
  <2>1. ChannelsTypeOK' /\ HandsFull' /\ SchedulerTypeOK' /\ BetweenTicks'
    BY <1>1, TypesUnchanged DEF CommitReload
  <2>2. dbActive' \in SUBSET Checks /\ pending' \in Configurations
    BY <1>1, ReloadAssumption, ConfigurationIsFunction
    DEF CommitReload, TInv, TypeOK, WriterTypeOK
  <2>3. WriterTypeOK'
    BY <1>1, <2>2 DEF CommitReload, TInv, TypeOK, WriterTypeOK
  <2>4. reloads' \in 0..MaxReloads
    BY <1>1, EnvironmentBounds DEF CommitReload, TInv, TypeOK, ServeTypeOK
  <2>5. ServeTypeOK'
    BY <1>1, <2>2, <2>4 DEF CommitReload, TInv, TypeOK, ServeTypeOK
  <2> QED
    BY <2>1, <2>3, <2>5 DEF TInv, TypeOK
<1>2. ASSUME TInv, HandOverReload PROVE TInv'
  <2>1. ChannelsTypeOK' /\ HandsFull' /\ BetweenTicks' /\ WriterTypeOK'
    BY <1>2, TypesUnchanged DEF HandOverReload
  <2>2. commands' \in Seq(Commands)
    BY <1>2, CommandsAreCommands
    DEF HandOverReload, TInv, TypeOK, SchedulerTypeOK, ServeTypeOK
  <2>3. SchedulerTypeOK' /\ ServeTypeOK'
    BY <1>2, <2>2 DEF HandOverReload, TInv, TypeOK, SchedulerTypeOK, ServeTypeOK
  <2> QED
    BY <2>1, <2>3 DEF TInv, TypeOK
<1>3. ASSUME TInv, DiskPressureTurns PROVE TInv'
  <2>1. ChannelsTypeOK' /\ HandsFull' /\ BetweenTicks' /\ WriterTypeOK'
    BY <1>3, TypesUnchanged DEF DiskPressureTurns
  <2>2. commands' \in Seq(Commands)
    <3>1. PauseCommand(~pressure) \in Commands
      BY <1>3, CommandsAreCommands DEF TInv, TypeOK, ServeTypeOK
    <3>2. commands \in Seq(Commands)
      BY <1>3 DEF TInv, TypeOK, SchedulerTypeOK
    <3> QED
      BY <1>3, <3>1, <3>2 DEF DiskPressureTurns
  <2>3. pressureTurns' \in 0..MaxPressure
    BY <1>3, EnvironmentBounds DEF DiskPressureTurns, TInv, TypeOK, ServeTypeOK
  <2>4. SchedulerTypeOK' /\ ServeTypeOK'
    BY <1>3, <2>2, <2>3 DEF DiskPressureTurns, TInv, TypeOK, SchedulerTypeOK, ServeTypeOK
  <2> QED
    BY <2>1, <2>4 DEF TInv, TypeOK
<1>4. ASSUME TInv, BeginShutdown PROVE TInv'
  <2>1. ChannelsTypeOK' /\ HandsFull' /\ BetweenTicks' /\ WriterTypeOK'
    BY <1>4, TypesUnchanged DEF BeginShutdown
  <2>2. SchedulerTypeOK' /\ ServeTypeOK'
    BY <1>4 DEF BeginShutdown, TInv, TypeOK, SchedulerTypeOK, ServeTypeOK
  <2> QED
    BY <2>1, <2>2 DEF TInv, TypeOK
<1>5. ASSUME TInv, DropSenders PROVE TInv'
  <2>1. SchedulerTypeOK' /\ BetweenTicks' /\ WriterTypeOK' /\ HandsFull'
    BY <1>5, TypesUnchanged DEF DropSenders
  <2>2. ChannelsTypeOK' /\ ServeTypeOK'
    BY <1>5 DEF DropSenders, OpenAfterStop, TInv, TypeOK, ChannelsTypeOK, ServeTypeOK
  <2> QED
    BY <2>1, <2>2 DEF TInv, TypeOK
<1>6. ASSUME TInv, DrainCompletes PROVE TInv'
  <2>1. ChannelsTypeOK' /\ HandsFull' /\ SchedulerTypeOK' /\ BetweenTicks' /\ WriterTypeOK'
    BY <1>6, TypesUnchanged DEF DrainCompletes
  <2>2. ServeTypeOK'
    BY <1>6 DEF DrainCompletes, TInv, TypeOK, ServeTypeOK
  <2> QED
    BY <2>1, <2>2 DEF TInv, TypeOK
<1>7. ASSUME TInv, DrainTimesOut PROVE TInv'
  <2>1. SchedulerTypeOK' /\ BetweenTicks'
    BY <1>7, TypesUnchanged DEF DrainTimesOut
  <2>2. ChannelsTypeOK' /\ HandsFull'
    BY <1>7 DEF DrainTimesOut, Gone, WorkerStates, TInv, TypeOK, ChannelsTypeOK, HandsFull
  <2>3. WriterTypeOK' /\ ServeTypeOK'
    BY <1>7 DEF DrainTimesOut, TInv, TypeOK, WriterTypeOK, ServeTypeOK
  <2> QED
    BY <2>1, <2>2, <2>3 DEF TInv, TypeOK
<1> QED
    BY <1>1, <1>2, <1>3, <1>4, <1>5, <1>6, <1>7

\* The clock of the host moves, forwards or back.
LEMMA ClockKeepsTypes == TInv /\ (ClockTicks \/ ClockStepsBack) => TInv'
<1> SUFFICES ASSUME TInv, ClockTicks \/ ClockStepsBack PROVE TInv'
    OBVIOUS
<1>1. ChannelsTypeOK' /\ HandsFull' /\ BetweenTicks' /\ WriterTypeOK'
    BY TypesUnchanged DEF ClockTicks, ClockStepsBack, schedulerVars
<1>2. now' \in Nat
    BY DEF ClockTicks, ClockStepsBack, TInv, TypeOK, SchedulerTypeOK
<1>3. SchedulerTypeOK'
    BY <1>2 DEF ClockTicks, ClockStepsBack, schedulerVars, TInv, TypeOK, SchedulerTypeOK
<1>4. backSteps' \in 0..MaxBackSteps
    BY EnvironmentBounds
    DEF ClockTicks, ClockStepsBack, serveVars, TInv, TypeOK, ServeTypeOK
<1>5. ServeTypeOK'
    BY <1>4 DEF ClockTicks, ClockStepsBack, serveVars, TInv, TypeOK, ServeTypeOK
<1> QED
    BY <1>1, <1>3, <1>5 DEF TInv, TypeOK

\* No step takes a variable out of its type.
LEMMA TypeStep == TInv /\ [Next]_vars => TInv'
<1> SUFFICES ASSUME TInv, [Next]_vars PROVE TInv'
    OBVIOUS
<1>1. CASE UNCHANGED vars
  <2>1. UNCHANGED channelVars /\ UNCHANGED <<now, schedulerVars>>
        /\ UNCHANGED writerVars /\ UNCHANGED serveVars
    BY <1>1 DEF vars
  <2> QED
    BY <2>1, TypesUnchanged DEF TInv, TypeOK
<1>2. CASE Next
    BY <1>1, <1>2, ClockKeepsTypes, SchedulingKeepsTypes, WorkingKeepsTypes,
       WritingKeepsTypes, ServingKeepsTypes
    DEF Next, ShutdownRequested, FatalExit, Terminated
<1> QED
    BY <1>1, <1>2

\* Every variable keeps its type: in particular the scheduler only ever waits
\* for slots of checks it has, and a worker that sends a result has a round to
\* send it for (scheduler.rs:22-32, worker.rs:53-83).
THEOREM TypeCorrect == Spec => []TypeOK
<1>1. TInv => TypeOK
    BY DEF TInv
<1> QED
    BY TypeInit, TypeStep, <1>1, PTL DEF Spec

-----------------------------------------------------------------------------
(***************************************************************************)
(* The running set.  RunningExact is inductive relative to the types: a    *)
(* check enters the set in the step that puts its job into the channel,    *)
(* and only if it is not there; it follows the job to a worker; and it     *)
(* leaves the set in the step in which that worker lets go of it.          *)
(***************************************************************************)

LEMMA NoRoundIsNoJob == \A j \in RoundJob : j # NoRound
<1> SUFFICES ASSUME NEW j \in RoundJob PROVE j.check # NoRound.check
    OBVIOUS
<1> QED
    BY ChecksAssumption DEF RoundJob, NoRound

\* Steps that leave the channel alone and no worker's hold changed.
LEMMA RunningUnchanged ==
    ASSUME RunningExact, UNCHANGED <<running, jobs>>,
           \A w \in Workers : /\ Holds(w)' <=> Holds(w)
                              /\ Holds(w) => CheckHeld(w)' = CheckHeld(w)
    PROVE  RunningExact'
<1>1. Queued' = Queued
    BY DEF Queued
<1>2. Held' = Held
    BY DEF Held
<1>3. QueuedOnce' /\ HeldOnce'
    BY DEF RunningExact, QueuedOnce, HeldOnce
<1> QED
    BY <1>1, <1>2, <1>3 DEF RunningExact

LEMMA DispatchKeepsRunning ==
    ASSUME TInv, RunningExact, NEW c \in scan, Dispatch(c)
    PROVE  RunningExact'
<1> DEFINE job == [check |-> c, slot |-> nextDue[c]]
<1>1. jobs \in Seq(RoundJob) /\ c \notin running /\ running' = running \cup {c}
    BY DEF Dispatch, MayStart, Overlaps, Registered, TInv, TypeOK, ChannelsTypeOK
<1>2. /\ jobs' = Append(jobs, job)
      /\ DOMAIN jobs' = DOMAIN jobs \cup {Len(jobs) + 1}
      /\ Len(jobs) + 1 \notin DOMAIN jobs
      /\ jobs'[Len(jobs) + 1] = job
      /\ \A i \in DOMAIN jobs : jobs'[i] = jobs[i]
    BY <1>1 DEF Dispatch
<1>3. Queued' = Queued \cup {c}
    BY <1>2 DEF Queued
<1>4. Held' = Held
    BY DEF Dispatch, Held, Holds, CheckHeld
<1>5. c \notin Queued /\ c \notin Held
    BY <1>1 DEF RunningExact
<1>6. QueuedOnce'
    BY <1>2, <1>5 DEF RunningExact, QueuedOnce, Queued
<1>7. HeldOnce'
    BY DEF Dispatch, RunningExact, HeldOnce, Holds, CheckHeld
<1> QED
    BY <1>1, <1>3, <1>4, <1>5, <1>6, <1>7 DEF RunningExact

LEMMA TakeJobKeepsRunning ==
    ASSUME TInv, RunningExact, NEW w \in Workers, TakeJob(w)
    PROVE  RunningExact'
<1> DEFINE c == Head(jobs).check
<1>1. jobs \in Seq(RoundJob) /\ jobs # <<>> /\ worker[w].state = "idle" /\ w \in DOMAIN worker
    BY DEF TakeJob, TInv, TypeOK, ChannelsTypeOK
<1>2. Head(jobs) \in RoundJob /\ Head(jobs) # NoRound
    BY <1>1, NoRoundIsNoJob
<1>3. /\ jobs' = Tail(jobs)
      /\ 1 \in DOMAIN jobs /\ jobs[1] = Head(jobs)
      /\ \A i \in DOMAIN jobs' : i + 1 \in DOMAIN jobs /\ i + 1 # 1 /\ jobs'[i] = jobs[i + 1]
      /\ \A j \in DOMAIN jobs : j = 1 \/ (j - 1 \in DOMAIN jobs' /\ jobs[j] = jobs'[j - 1])
    BY <1>1 DEF TakeJob
<1>4. /\ worker' = [worker EXCEPT ![w] = [state |-> "probing", job |-> Head(jobs)]]
      /\ ~Holds(w)
    BY <1>1 DEF TakeJob, Holds
<1>5. Holds(w)' /\ CheckHeld(w)' = c
    BY <1>1, <1>2, <1>4 DEF Holds, CheckHeld
<1>6. \A v \in Workers \ {w} : (Holds(v)' <=> Holds(v)) /\ CheckHeld(v)' = CheckHeld(v)
    BY <1>4 DEF Holds, CheckHeld
<1>7. Held' = Held \cup {c}
    BY <1>4, <1>5, <1>6 DEF Held
<1>8. \A i \in DOMAIN jobs' : jobs'[i].check # c
    BY <1>3 DEF RunningExact, QueuedOnce
<1>9. Queued = Queued' \cup {c}
  <2>1. ASSUME NEW k \in DOMAIN jobs PROVE jobs[k].check \in Queued' \cup {c}
    BY <1>3, <2>1 DEF Queued
  <2>2. ASSUME NEW k \in DOMAIN jobs' PROVE jobs'[k].check \in Queued
    BY <1>3, <2>2 DEF Queued
  <2>3. c \in Queued
    BY <1>3 DEF Queued
  <2>4. Queued \subseteq Queued' \cup {c}
    BY <2>1 DEF Queued
  <2>5. Queued' \subseteq Queued
    BY <2>2 DEF Queued
  <2> QED
    BY <2>3, <2>4, <2>5
<1>10. c \notin Queued'
    BY <1>8 DEF Queued
<1>11. c \notin Held
    BY <1>3 DEF RunningExact, Queued
<1>12. QueuedOnce'
    BY <1>3 DEF RunningExact, QueuedOnce
<1>13. HeldOnce'
    BY <1>5, <1>6, <1>11 DEF RunningExact, HeldOnce, Held
<1>14. running' = running
    BY DEF TakeJob
<1> QED
    BY <1>7, <1>9, <1>10, <1>11, <1>12, <1>13, <1>14 DEF RunningExact

LEMMA FinishRoundKeepsRunning ==
    ASSUME TInv, RunningExact, NEW w \in Workers, FinishRound(w)
    PROVE  RunningExact'
<1> DEFINE c == CheckHeld(w)
<1>1. worker[w].job \in RoundJob /\ worker[w].state = "probing" /\ w \in DOMAIN worker
    BY DEF FinishRound, TInv, TypeOK, ChannelsTypeOK, HandsFull
<1>2. Holds(w)
    BY <1>1, NoRoundIsNoJob DEF Holds
<1>3. worker' = [worker EXCEPT ![w].state = "sending"] /\ running' = running \ {c}
      /\ jobs' = jobs
    BY DEF FinishRound, Released, CheckHeld
<1>4. ~Holds(w)'
  <2>1. worker'[w].state = "sending"
    BY <1>1, <1>3 DEF TInv, TypeOK, ChannelsTypeOK
  <2> QED
    BY <2>1 DEF Holds
<1>5. \A v \in Workers \ {w} : (Holds(v)' <=> Holds(v)) /\ CheckHeld(v)' = CheckHeld(v)
    BY <1>3 DEF Holds, CheckHeld
<1>6. \A v \in Workers \ {w} : Holds(v) => CheckHeld(v) # c
    BY <1>2 DEF RunningExact, HeldOnce
<1>7. c \in Held
    BY <1>2 DEF Held
<1>8. Held' = Held \ {c}
    BY <1>4, <1>5, <1>6 DEF Held
<1>9. Queued' = Queued /\ QueuedOnce'
    BY <1>3 DEF RunningExact, Queued, QueuedOnce
<1>10. HeldOnce'
    BY <1>4, <1>5 DEF RunningExact, HeldOnce
<1> QED
    BY <1>3, <1>7, <1>8, <1>9, <1>10 DEF RunningExact

\* The other steps of a worker: it keeps what it holds.
LEMMA WorkingKeepsRunning ==
    ASSUME TInv, RunningExact, NEW w \in Workers, Working(w)
    PROVE  RunningExact'
<1>1. worker \in [Workers -> [state : WorkerStates, job : RoundJob \cup {NoRound}]]
    BY DEF TInv, TypeOK, ChannelsTypeOK
<1>2. CASE SendResult(w)
  <2>1. worker' = [worker EXCEPT ![w] = Idle] /\ worker[w].state = "sending"
        /\ UNCHANGED <<running, jobs>>
    BY <1>2 DEF SendResult
  <2>2. ~Holds(w) /\ ~Holds(w)'
    BY <1>1, <2>1 DEF Holds, Idle
  <2>3. \A v \in Workers \ {w} : (Holds(v)' <=> Holds(v)) /\ CheckHeld(v)' = CheckHeld(v)
    BY <1>1, <2>1 DEF Holds, CheckHeld
  <2> QED
    BY <2>1, <2>2, <2>3, RunningUnchanged
<1>3. CASE WorkerExits(w)
  <2>1. worker' = [worker EXCEPT ![w].state = "exited"] /\ worker[w].state = "idle"
        /\ UNCHANGED <<running, jobs>>
    BY <1>3 DEF WorkerExits
  <2>2. ~Holds(w) /\ ~Holds(w)'
    BY <1>1, <2>1 DEF Holds
  <2>3. \A v \in Workers \ {w} : (Holds(v)' <=> Holds(v)) /\ CheckHeld(v)' = CheckHeld(v)
    BY <1>1, <2>1 DEF Holds, CheckHeld
  <2> QED
    BY <2>1, <2>2, <2>3, RunningUnchanged
<1>4. CASE WorkerPanics(w)
  <2>1. worker' = [worker EXCEPT ![w].state = "dead"] /\ worker[w].state = "probing"
        /\ UNCHANGED <<running, jobs>>
    BY <1>4 DEF WorkerPanics
  <2>2. \A v \in Workers : (Holds(v)' <=> Holds(v)) /\ CheckHeld(v)' = CheckHeld(v)
    BY <1>1, <2>1 DEF Holds, CheckHeld
  <2> QED
    BY <2>1, <2>2, RunningUnchanged
<1> QED
    BY <1>2, <1>3, <1>4, TakeJobKeepsRunning, FinishRoundKeepsRunning
    DEF Working, WorkerStep

\* An aborted worker keeps its round in hand.
LEMMA AbortKeepsRunning == TInv /\ RunningExact /\ DrainTimesOut => RunningExact'
<1> SUFFICES ASSUME TInv, RunningExact, DrainTimesOut PROVE RunningExact'
    OBVIOUS
<1>1. worker \in [Workers -> [state : WorkerStates, job : RoundJob \cup {NoRound}]]
    BY DEF TInv, TypeOK, ChannelsTypeOK
<1>2. ASSUME NEW w \in Workers
      PROVE  (Holds(w)' <=> Holds(w)) /\ CheckHeld(w)' = CheckHeld(w)
  <2>1. /\ worker'[w].job = worker[w].job
        /\ worker'[w].state = IF Gone(w) THEN worker[w].state
                              ELSE IF worker[w].state = "probing" THEN "dead" ELSE "exited"
    BY <1>1, <1>2 DEF DrainTimesOut
  <2> QED
    BY <2>1 DEF Holds, CheckHeld, Gone
<1>3. UNCHANGED <<running, jobs>>
    BY DEF DrainTimesOut
<1> QED
    BY <1>2, <1>3, RunningUnchanged

LEMMA RunningStep == TInv /\ RunningExact /\ [Next]_vars => RunningExact'
<1> SUFFICES ASSUME TInv, RunningExact, [Next]_vars PROVE RunningExact'
    OBVIOUS
<1>1. ASSUME UNCHANGED <<running, jobs, worker>> PROVE RunningExact'
    BY <1>1, RunningUnchanged DEF Holds, CheckHeld
<1>2. CASE Scheduling
  <2>1. ASSUME NEW c \in scan, ConsiderCheck(c) PROVE RunningExact'
    BY <1>1, <2>1, DispatchKeepsRunning
    DEF ConsiderCheck, SkipOverlap, SkipConcurrency, SkipQueueFull, Skip, QueueClosed,
        channelVars
  <2> QED
    BY <1>1, <1>2, <2>1
    DEF Scheduling, SchedulerStep, TickFires, TickEnds, RecordSkippedRound, Reconcile,
        Pause, StopScheduler, channelVars
<1>3. CASE Writing
    BY <1>1, <1>3 DEF Writing, WriterStep, WriteRound, WriterExits, EvaluateAlert, channelVars
<1>4. CASE ClockTicks \/ ClockStepsBack
    BY <1>1, <1>4 DEF ClockTicks, ClockStepsBack, channelVars
<1>5. CASE CommitReload \/ HandOverReload \/ DiskPressureTurns \/ BeginShutdown
           \/ DropSenders \/ DrainCompletes
    BY <1>1, <1>5
    DEF CommitReload, HandOverReload, DiskPressureTurns, BeginShutdown, DropSenders,
        DrainCompletes, channelVars
<1>6. CASE UNCHANGED vars
    BY <1>1, <1>6 DEF vars, channelVars
<1> QED
    BY <1>2, <1>3, <1>4, <1>5, <1>6, WorkingKeepsRunning, AbortKeepsRunning
    DEF Next, ShutdownRequested, FatalExit, Terminated

LEMMA RunningInit == Init => RunningExact
<1> SUFFICES ASSUME Init PROVE RunningExact
    OBVIOUS
<1>1. running = {} /\ jobs = <<>> /\ \A w \in Workers : ~Holds(w)
    BY DEF Init, ChannelsInit, Holds
<1>2. Queued = {} /\ Held = {}
    BY <1>1 DEF Queued, Held
<1> QED
    BY <1>1, <1>2 DEF RunningExact, QueuedOnce, HeldOnce

\* The running set is exactly the rounds in flight, for any number of checks
\* and workers and any capacity of the channels, through reloads, panics,
\* shutdown and abort (scheduler.rs:184-296, worker.rs:70-81).
THEOREM RunningSetExact == Spec => []RunningExact
<1>1. Init => TInv /\ RunningExact
    BY TypeInit, RunningInit
<1>2. TInv /\ RunningExact /\ [Next]_vars => (TInv /\ RunningExact)'
    BY TypeStep, RunningStep
<1> QED
    BY <1>1, <1>2, PTL DEF Spec

-----------------------------------------------------------------------------
(***************************************************************************)
(* The limit on rounds in flight.  Only a dispatch adds a check, one at a  *)
(* time, and only below the limit.                                         *)
(***************************************************************************)

LEMMA RunningFinite == TInv => IsFiniteSet(running)
BY ChecksAssumption, FS_Subset DEF TInv, TypeOK, ChannelsTypeOK

LEMMA LimitStep == TInv /\ GlobalLimitHeld /\ [Next]_vars => GlobalLimitHeld'
<1> SUFFICES ASSUME TInv, GlobalLimitHeld, [Next]_vars PROVE GlobalLimitHeld'
    OBVIOUS
<1>1. IsFiniteSet(running) /\ Cardinality(running) \in Nat /\ MaxConcurrent \in Nat
    BY RunningFinite, WorkersAssumption, FS_CardinalityType DEF MaxConcurrent
<1>2. ASSUME running' = running PROVE GlobalLimitHeld'
    BY <1>2 DEF GlobalLimitHeld
<1>3. ASSUME NEW c \in scan, Dispatch(c) PROVE GlobalLimitHeld'
  <2>1. c \notin running /\ Cardinality(running) < MaxConcurrent
        /\ running' = running \cup {c}
    BY <1>1, <1>3 DEF Dispatch, MayStart, Overlaps, AtGlobalLimit, Registered
  <2>2. Cardinality(running') = Cardinality(running) + 1
    BY <1>1, <2>1, FS_AddElement
  <2> QED
    BY <1>1, <2>1, <2>2 DEF GlobalLimitHeld
<1>4. ASSUME NEW w \in Workers, FinishRound(w) PROVE GlobalLimitHeld'
  <2>1. running' \in SUBSET running
    BY <1>4 DEF FinishRound, Released
  <2>2. Cardinality(running') <= Cardinality(running) /\ Cardinality(running') \in Nat
    BY <1>1, <2>1, FS_Subset, FS_CardinalityType
  <2> QED
    BY <1>1, <2>2 DEF GlobalLimitHeld
<1>5. CASE Scheduling
  <2>1. ASSUME NEW c \in scan, ConsiderCheck(c) PROVE GlobalLimitHeld'
    BY <1>2, <1>3, <2>1
    DEF ConsiderCheck, SkipOverlap, SkipConcurrency, SkipQueueFull, Skip, QueueClosed,
        channelVars
  <2> QED
    BY <1>2, <1>5, <2>1
    DEF Scheduling, SchedulerStep, TickFires, TickEnds, RecordSkippedRound, Reconcile,
        Pause, StopScheduler, channelVars
<1>6. ASSUME NEW w \in Workers, Working(w) PROVE GlobalLimitHeld'
    BY <1>2, <1>4, <1>6
    DEF Working, WorkerStep, TakeJob, SendResult, WorkerExits, WorkerPanics
<1>7. CASE Writing
    BY <1>2, <1>7 DEF Writing, WriterStep, WriteRound, WriterExits, EvaluateAlert, channelVars
<1>8. CASE ClockTicks \/ ClockStepsBack
    BY <1>2, <1>8 DEF ClockTicks, ClockStepsBack, channelVars
<1>9. CASE CommitReload \/ HandOverReload \/ DiskPressureTurns \/ BeginShutdown
           \/ DropSenders \/ DrainCompletes \/ DrainTimesOut
    BY <1>2, <1>9
    DEF CommitReload, HandOverReload, DiskPressureTurns, BeginShutdown, DropSenders,
        DrainCompletes, DrainTimesOut, channelVars
<1>10. CASE UNCHANGED vars
    BY <1>2, <1>10 DEF vars, channelVars
<1> QED
    BY <1>5, <1>6, <1>7, <1>8, <1>9, <1>10
    DEF Next, ShutdownRequested, FatalExit, Terminated

\* scheduler.max_concurrent bounds the rounds in flight, whatever reloads,
\* overlaps and dead workers do (scheduler.rs:219-250).
THEOREM GlobalLimit == Spec => []GlobalLimitHeld
<1>1. Init => GlobalLimitHeld
  <2>1. Init => Cardinality(running) = 0
    BY FS_EmptySet DEF Init, ChannelsInit
  <2>2. MaxConcurrent \in Nat
    BY WorkersAssumption, FS_CardinalityType DEF MaxConcurrent
  <2> QED
    BY <2>1, <2>2 DEF GlobalLimitHeld
<1> QED
    BY TypeInit, TypeStep, LimitStep, <1>1, PTL DEF Spec

-----------------------------------------------------------------------------
(***************************************************************************)
(* The tables the writer keeps.                                            *)
(***************************************************************************)

\* Every step that is not the writer's leaves both tables alone.
LEMMA OnlyTheWriterWrites ==
    ASSUME [Next]_vars
    PROVE  Writing \/ UNCHANGED <<rounds, currentState>>
BY DEF Next, Scheduling, Working, ClockTicks, ClockStepsBack, CommitReload, HandOverReload,
       DiskPressureTurns, ShutdownRequested, FatalExit, BeginShutdown, DropSenders,
       DrainCompletes, DrainTimesOut, Terminated, vars, writerVars

\* The four ways one result is written.
LEMMA WriterSteps ==
    ASSUME Writing
    PROVE  \/ UNCHANGED <<rounds, currentState>>
           \/ /\ rounds' = rounds \cup {Head(results)}
              /\ UNCHANGED currentState
           \/ /\ rounds' = rounds \cup {Head(results)}
              /\ currentState' = [currentState EXCEPT ![Head(results).check] = Head(results)]
BY DEF Writing, WriterStep, WriteRound, WriterExits, EvaluateAlert, DiscardInactive,
       RejectDuplicate, InsertFails, UpsertFails, StoreRound, DropResult

\* The current state of a check is that of a stored round, or there is none
\* yet: rounds are never taken back, and the upsert comes after the insert even
\* when either statement fails (writer.rs:168-204).
THEOREM CurrentStateIsStored == Spec => []CurrentStateBacked
<1>1. Init => CurrentStateBacked
    BY DEF Init, WriterInit, CurrentStateBacked
<1>2. ASSUME TInv, CurrentStateBacked, [Next]_vars PROVE CurrentStateBacked'
  <2>1. CASE UNCHANGED <<rounds, currentState>>
    BY <1>2, <2>1 DEF CurrentStateBacked
  <2>2. CASE rounds' = rounds \cup {Head(results)} /\ UNCHANGED currentState
    BY <1>2, <2>2 DEF CurrentStateBacked
  <2>3. CASE /\ rounds' = rounds \cup {Head(results)}
             /\ currentState' = [currentState EXCEPT ![Head(results).check] = Head(results)]
    <3>1. currentState \in [Checks -> RoundResult \cup {NoResult}]
      BY <1>2 DEF TInv, TypeOK, WriterTypeOK
    <3> QED
      BY <1>2, <2>3, <3>1 DEF CurrentStateBacked
  <2> QED
    BY <1>2, <2>1, <2>2, <2>3, OnlyTheWriterWrites, WriterSteps
<1> QED
    BY TypeInit, TypeStep, <1>1, <1>2, PTL DEF Spec

-----------------------------------------------------------------------------
(***************************************************************************)
(* The limit of a probe kind.  The scheduler counts the rounds of active   *)
(* checks, so what keeps it is that no reload takes a check away that has  *)
(* a round in flight.                                                      *)
(***************************************************************************)
LeavesIdle == Reconcile => running \subseteq DOMAIN active'

OfKind(k) == {c \in running : KindOf[c] = k}

KindInv == running \subseteq DOMAIN active /\ KindLimitHeld

LEMMA OfKindFinite == ASSUME TInv, NEW k PROVE IsFiniteSet(OfKind(k))
BY RunningFinite, FS_Subset DEF OfKind

\* With fewer rounds in flight the limits are kept too.
LEMMA FewerKeepLimits ==
    ASSUME TInv, KindInv, running' \subseteq running, active' = active
    PROVE  KindInv'
<1>1. ASSUME NEW k \in Kinds, KindLimit[k] # Unlimited
      PROVE  Cardinality(OfKind(k)') <= KindLimit[k]
  <2>1. OfKind(k)' \subseteq OfKind(k)
      BY DEF OfKind
  <2>2. /\ Cardinality(OfKind(k)') <= Cardinality(OfKind(k))
        /\ Cardinality(OfKind(k)') \in Nat /\ Cardinality(OfKind(k)) \in Nat
      BY <2>1, OfKindFinite, FS_Subset, FS_CardinalityType
  <2>3. Cardinality(OfKind(k)) <= KindLimit[k]
      BY <1>1 DEF KindInv, KindLimitHeld, OfKind
  <2> QED
      BY <2>2, <2>3, KindsAssumption
<1> QED
    BY <1>1 DEF KindInv, KindLimitHeld, OfKind

LEMMA DispatchKeepsLimits ==
    ASSUME TInv, KindInv, NEW c \in scan, Dispatch(c)
    PROVE  KindInv'
<1>1. /\ c \in DOMAIN active /\ c \in Checks /\ KindOf[c] \in Kinds
      /\ running' = running \cup {c} /\ active' = active
      /\ c \notin running /\ ~AtKindLimit(c)
    BY ConfigurationIsFunction, KindsAssumption
    DEF Dispatch, MayStart, Overlaps, Registered, TInv, TypeOK, SchedulerTypeOK
<1>2. ASSUME NEW k \in Kinds, KindLimit[k] # Unlimited
      PROVE  Cardinality(OfKind(k)') <= KindLimit[k]
  <2>1. /\ IsFiniteSet(OfKind(k)) /\ Cardinality(OfKind(k)) \in Nat /\ KindLimit[k] \in Nat
        /\ Cardinality(OfKind(k)) <= KindLimit[k]
      BY <1>2, OfKindFinite, FS_CardinalityType, KindsAssumption
      DEF KindInv, KindLimitHeld, OfKind
  <2>2. CASE KindOf[c] = k
    <3>1. RunningOfKind(k) = OfKind(k)
        BY DEF RunningOfKind, OfKind, KindInv
    <3>2. Cardinality(OfKind(k)) < KindLimit[k]
        BY <1>1, <1>2, <2>1, <2>2, <3>1 DEF AtKindLimit
    <3>3. OfKind(k)' = OfKind(k) \cup {c} /\ c \notin OfKind(k)
        BY <1>1, <2>2 DEF OfKind
    <3>4. Cardinality(OfKind(k)') = Cardinality(OfKind(k)) + 1
        BY <2>1, <3>3, FS_AddElement
    <3> QED
        BY <2>1, <3>2, <3>4
  <2>3. CASE KindOf[c] # k
    <3>1. OfKind(k)' = OfKind(k)
        BY <1>1, <2>3 DEF OfKind
    <3> QED
        BY <2>1, <3>1
  <2> QED
      BY <2>2, <2>3
<1>3. running' \subseteq DOMAIN active'
    BY <1>1 DEF KindInv
<1> QED
    BY <1>2, <1>3 DEF KindInv, KindLimitHeld, OfKind

LEMMA KindStep == TInv /\ KindInv /\ [Next]_vars /\ [LeavesIdle]_vars => KindInv'
<1> SUFFICES ASSUME TInv, KindInv, [Next]_vars, [LeavesIdle]_vars PROVE KindInv'
    OBVIOUS
<1>1. ASSUME UNCHANGED <<running, active>> PROVE KindInv'
    BY <1>1, FewerKeepLimits
<1>2. CASE Scheduling
  <2>1. ASSUME NEW c \in scan, ConsiderCheck(c) PROVE KindInv'
    BY <1>1, <2>1, DispatchKeepsLimits
    DEF ConsiderCheck, SkipOverlap, SkipConcurrency, SkipQueueFull, Skip, QueueClosed,
        channelVars
  <2>2. CASE Reconcile
    <3>1. running' = running /\ vars' # vars
      BY <2>2 DEF Reconcile, channelVars, vars, TInv, TypeOK, SchedulerTypeOK
    <3>2. running' \subseteq DOMAIN active'
      BY <2>2, <3>1 DEF LeavesIdle
    <3>3. KindLimitHeld'
      BY <3>1 DEF KindInv, KindLimitHeld
    <3> QED
      BY <3>2, <3>3 DEF KindInv
  <2> QED
    BY <1>1, <1>2, <2>1, <2>2
    DEF Scheduling, SchedulerStep, TickFires, TickEnds, RecordSkippedRound, Pause,
        StopScheduler, channelVars
<1>3. ASSUME NEW w \in Workers, Working(w) PROVE KindInv'
    BY <1>3, FewerKeepLimits
    DEF Working, WorkerStep, TakeJob, FinishRound, Released, SendResult, WorkerExits,
        WorkerPanics, schedulerVars
<1>4. CASE Writing
    BY <1>1, <1>4
    DEF Writing, WriterStep, WriteRound, WriterExits, EvaluateAlert, channelVars, schedulerVars
<1>5. CASE ClockTicks \/ ClockStepsBack
    BY <1>1, <1>5 DEF ClockTicks, ClockStepsBack, channelVars, schedulerVars
<1>6. CASE CommitReload \/ HandOverReload \/ DiskPressureTurns \/ BeginShutdown
           \/ DropSenders \/ DrainCompletes \/ DrainTimesOut
    BY <1>1, <1>6
    DEF CommitReload, HandOverReload, DiskPressureTurns, BeginShutdown, DropSenders,
        DrainCompletes, DrainTimesOut, channelVars, schedulerVars
<1>7. CASE UNCHANGED vars
    BY <1>1, <1>7 DEF vars, channelVars, schedulerVars
<1> QED
    BY <1>2, <1>3, <1>4, <1>5, <1>6, <1>7 DEF Next, ShutdownRequested, FatalExit, Terminated

\* scheduler.max_concurrent_by_probe bounds the rounds in flight of its kind as long as no
\* reload takes a check away that has one (scheduler.rs:247-262): a check that is removed
\* and returns while its round is still in flight is the only way past the limit.
THEOREM KindLimits == Spec /\ [][LeavesIdle]_vars => []KindLimitHeld
<1>1. Init => KindInv
  <2> SUFFICES ASSUME Init PROVE KindInv
    OBVIOUS
  <2>1. running = {} /\ \A k : OfKind(k) = {}
    BY DEF Init, ChannelsInit, OfKind
  <2>2. \A k \in Kinds : KindLimit[k] \in Nat /\ Cardinality(OfKind(k)) <= KindLimit[k]
    BY <2>1, KindsAssumption, FS_EmptySet
  <2> QED
    BY <2>1, <2>2 DEF KindInv, KindLimitHeld, OfKind
<1>2. KindInv => KindLimitHeld
    BY DEF KindInv
<1> QED
    BY <1>1, <1>2, TypeInit, TypeStep, KindStep, PTL DEF Spec

=============================================================================
