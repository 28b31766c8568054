-------------------------- MODULE RoundLedgerProofs --------------------------
(***************************************************************************)
(* The slots of the round pipeline, for every value of the constants: each *)
(* one dealt with is at one place, the pipeline implements the ledger, a   *)
(* drain that ends flushes, and a check that is kept misses none.          *)
(***************************************************************************)
EXTENDS RoundPipelineProofs

(***************************************************************************)
(* The places of a slot.                                                   *)
(***************************************************************************)
SlotsIn(channel) == {SlotOf(channel[i]) : i \in DOMAIN channel}

OnceIn(channel) ==
    \A i, j \in DOMAIN channel : SlotOf(channel[i]) = SlotOf(channel[j]) => i = j

HandSlots == {SlotOf(worker[w].job) : w \in InHand}

OnceInHand ==
    \A v, w \in InHand : SlotOf(worker[v].job) = SlotOf(worker[w].job) => v = w

\* Every slot dealt with is somewhere, and nothing else is.
AllPlaced ==
    issued = SlotsIn(jobs) \cup HandSlots \cup SlotsIn(results)
             \cup SlotsOf(rounds) \cup SlotsOf(dropped)

\* No slot is at two places.
PlacesApart ==
    /\ OnceIn(jobs) /\ OnceInHand /\ OnceIn(results)
    /\ SlotsIn(jobs) \cap HandSlots = {}
    /\ SlotsIn(jobs) \cap SlotsIn(results) = {}
    /\ SlotsIn(jobs) \cap SlotsOf(rounds) = {}
    /\ SlotsIn(jobs) \cap SlotsOf(dropped) = {}
    /\ HandSlots \cap SlotsIn(results) = {}
    /\ HandSlots \cap SlotsOf(rounds) = {}
    /\ HandSlots \cap SlotsOf(dropped) = {}
    /\ SlotsIn(results) \cap SlotsOf(rounds) = {}
    /\ SlotsIn(results) \cap SlotsOf(dropped) = {}
    /\ SlotsOf(rounds) \cap SlotsOf(dropped) = {}

\* A worker that waits for a job has none.
HandsEmpty == \A w \in Workers : worker[w].state = "idle" => worker[w].job = NoRound

\* The slot a check waits for has not been dealt with: it is later than all of
\* the check that were, because no clock reading is earlier than one before.
SlotsFresh ==
    /\ MaxBackSteps = 0
    /\ clockRead <= now
    /\ \A e \in issued : e[2] <= clockRead
    /\ \A e \in issued : e[1] \in DOMAIN active => e[2] < nextDue[e[1]]
    /\ \A c \in scan : nextDue[c] <= clockRead
    /\ blocked # NoResult =>
        /\ blocked.slot = nextDue[blocked.check]
        /\ blocked.slot <= clockRead
        /\ blocked.check \notin scan

\* The count that goes with the places.
PlacesCounted ==
    /\ IsFiniteSet(issued) /\ IsFiniteSet(rounds) /\ IsFiniteSet(dropped)
    /\ Cardinality(issued) = Len(jobs) + Cardinality(InHand) + Len(results)
                             + Cardinality(rounds) + Cardinality(dropped)

\* What a channel that has been closed and drained leaves behind.
DrainInv ==
    /\ ~jobsOpen => phase = "stopped"
    /\ stage # "aborted" =>
        /\ \A w \in Workers : worker[w].state = "exited" =>
            ~jobsOpen /\ jobs = <<>> /\ worker[w].job = NoRound
        /\ writer = "exited" => ResultsClosed /\ results = <<>>
    /\ stage = "done" => ReceiverDropped /\ writer = "exited"

-----------------------------------------------------------------------------
(***************************************************************************)
(* Lemmas about channels.                                                  *)
(***************************************************************************)

\* Taking the head of a channel takes its slot, and no other.
LEMMA HeadLeaves ==
    ASSUME NEW S, NEW channel \in Seq(S), channel # <<>>
    PROVE  /\ Head(channel) \in S
           /\ SlotsIn(channel) = SlotsIn(Tail(channel)) \cup {SlotOf(Head(channel))}
           /\ OnceIn(channel) => /\ SlotOf(Head(channel)) \notin SlotsIn(Tail(channel))
                                 /\ OnceIn(Tail(channel))
           /\ Len(Tail(channel)) = Len(channel) - 1
<1> DEFINE rest == Tail(channel)
<1>1. /\ 1 \in DOMAIN channel /\ channel[1] = Head(channel) /\ Head(channel) \in S
      /\ \A i \in DOMAIN rest : i + 1 \in DOMAIN channel /\ i + 1 # 1 /\ rest[i] = channel[i + 1]
      /\ \A j \in DOMAIN channel : j = 1 \/ (j - 1 \in DOMAIN rest /\ channel[j] = rest[j - 1])
      /\ \A i \in DOMAIN rest : i \in Int
      /\ Len(rest) = Len(channel) - 1
    OBVIOUS
<1> HIDE DEF rest
<1>2. SlotsIn(channel) \subseteq SlotsIn(rest) \cup {SlotOf(Head(channel))}
  <2>1. ASSUME NEW j \in DOMAIN channel
        PROVE  SlotOf(channel[j]) \in SlotsIn(rest) \cup {SlotOf(Head(channel))}
    BY <1>1, <2>1 DEF SlotsIn
  <2> QED
    BY <2>1 DEF SlotsIn
<1>3. SlotsIn(rest) \subseteq SlotsIn(channel)
  <2>1. ASSUME NEW i \in DOMAIN rest PROVE SlotOf(rest[i]) \in SlotsIn(channel)
    BY <1>1, <2>1 DEF SlotsIn
  <2> QED
    BY <2>1 DEF SlotsIn
<1>4. SlotOf(Head(channel)) \in SlotsIn(channel)
    BY <1>1 DEF SlotsIn
<1>5. ASSUME OnceIn(channel) PROVE SlotOf(Head(channel)) \notin SlotsIn(rest)
  <2>1. \A i \in DOMAIN rest : SlotOf(rest[i]) # SlotOf(Head(channel))
    BY <1>1, <1>5 DEF OnceIn
  <2> QED
    BY <2>1 DEF SlotsIn
<1>6. ASSUME OnceIn(channel) PROVE OnceIn(rest)
  <2>1. ASSUME NEW i \in DOMAIN rest, NEW j \in DOMAIN rest,
               SlotOf(rest[i]) = SlotOf(rest[j])
        PROVE  i = j
    <3>1. i + 1 = j + 1
      BY <1>1, <1>6, <2>1 DEF OnceIn
    <3> QED
      BY <1>1, <2>1, <3>1
  <2> QED
    BY <2>1 DEF OnceIn
<1>7. SlotsIn(channel) = SlotsIn(rest) \cup {SlotOf(Head(channel))}
    BY <1>2, <1>3, <1>4
<1> QED
    BY <1>1, <1>5, <1>6, <1>7 DEF rest

\* Sending adds the slot that is sent, and no other.
LEMMA LastJoins ==
    ASSUME NEW S, NEW channel \in Seq(S), NEW r \in S
    PROVE  /\ SlotsIn(Append(channel, r)) = SlotsIn(channel) \cup {SlotOf(r)}
           /\ OnceIn(channel) /\ SlotOf(r) \notin SlotsIn(channel) => OnceIn(Append(channel, r))
           /\ Len(Append(channel, r)) = Len(channel) + 1
<1> DEFINE more == Append(channel, r)
<1>1. /\ DOMAIN more = DOMAIN channel \cup {Len(channel) + 1}
      /\ Len(channel) + 1 \notin DOMAIN channel
      /\ more[Len(channel) + 1] = r
      /\ \A i \in DOMAIN channel : more[i] = channel[i]
      /\ Len(more) = Len(channel) + 1
    OBVIOUS
<1> HIDE DEF more
<1>2. SlotsIn(more) = SlotsIn(channel) \cup {SlotOf(r)}
    BY <1>1 DEF SlotsIn
<1>3. ASSUME OnceIn(channel), SlotOf(r) \notin SlotsIn(channel) PROVE OnceIn(more)
    BY <1>1, <1>3 DEF SlotsIn, OnceIn
<1> QED
    BY <1>1, <1>2, <1>3 DEF more

LEMMA EmptyChannel == SlotsIn(<<>>) = {} /\ OnceIn(<<>>)
BY DEF SlotsIn, OnceIn

-----------------------------------------------------------------------------
(***************************************************************************)
(* The steps, seen from the places.                                        *)
(***************************************************************************)

\* Nothing moves.
Still ==
    /\ UNCHANGED <<jobs, results, rounds, dropped, issued>>
    /\ \A w \in Workers : worker'[w].job = worker[w].job

\* The steps that move something: each moves one slot.
Dispatching == \E c \in scan : Dispatch(c) /\ UNCHANGED <<rounds, dropped>>
Recording == RecordSkippedRound /\ UNCHANGED <<rounds, dropped>>
Taking(w) == TakeJob(w) /\ UNCHANGED <<issued, rounds, dropped>>
Sending(w) == SendResult(w) /\ UNCHANGED <<issued, rounds, dropped>>
Filing == WriteRound /\ UNCHANGED issued

LEMMA StepMovesOne ==
    ASSUME TInv, [Next]_vars
    PROVE  Still \/ Dispatching \/ Recording \/ (\E w \in Workers : Taking(w) \/ Sending(w))
           \/ Filing
<1>1. worker \in [Workers -> [state : WorkerStates, job : RoundJob \cup {NoRound}]]
    BY DEF TInv, TypeOK, ChannelsTypeOK
<1>2. CASE Scheduling
  <2>1. ASSUME NEW c \in scan, ConsiderCheck(c), UNCHANGED <<rounds, dropped>>
        PROVE  Still \/ Dispatching
    BY <2>1 DEF ConsiderCheck, SkipOverlap, SkipConcurrency, SkipQueueFull, Skip,
                QueueClosed, channelVars, Still, Dispatching
  <2> QED
    BY <1>2, <2>1
    DEF Scheduling, SchedulerStep, TickFires, TickEnds, Reconcile, Pause, StopScheduler,
        channelVars, writerVars, Still, Recording
<1>3. ASSUME NEW w \in Workers, Working(w) PROVE Still \/ Taking(w) \/ Sending(w)
  <2>1. CASE FinishRound(w)
    <3>1. worker' = [worker EXCEPT ![w].state = "sending"] /\ UNCHANGED <<jobs, results>>
      BY <2>1 DEF FinishRound
    <3>2. \A v \in Workers : worker'[v].job = worker[v].job
      BY <1>1, <3>1
    <3> QED
      BY <1>3, <3>1, <3>2 DEF Working, schedulerVars, writerVars, Still
  <2>2. CASE WorkerExits(w)
    <3>1. worker' = [worker EXCEPT ![w].state = "exited"] /\ UNCHANGED <<jobs, results>>
      BY <2>2 DEF WorkerExits
    <3>2. \A v \in Workers : worker'[v].job = worker[v].job
      BY <1>1, <3>1
    <3> QED
      BY <1>3, <3>1, <3>2 DEF Working, schedulerVars, writerVars, Still
  <2>3. CASE WorkerPanics(w)
    <3>1. worker' = [worker EXCEPT ![w].state = "dead"] /\ UNCHANGED <<jobs, results>>
      BY <2>3 DEF WorkerPanics
    <3>2. \A v \in Workers : worker'[v].job = worker[v].job
      BY <1>1, <3>1
    <3> QED
      BY <1>3, <3>1, <3>2 DEF Working, schedulerVars, writerVars, Still
  <2> QED
    BY <1>3, <2>1, <2>2, <2>3
    DEF Working, WorkerStep, Taking, Sending, schedulerVars, writerVars
<1>4. CASE Writing
    BY <1>4 DEF Writing, WriterStep, WriterExits, EvaluateAlert, channelVars, schedulerVars,
                Still, Filing
<1>5. CASE ClockTicks \/ ClockStepsBack
    BY <1>5 DEF ClockTicks, ClockStepsBack, channelVars, schedulerVars, writerVars, Still
<1>6. CASE CommitReload \/ HandOverReload \/ DiskPressureTurns \/ BeginShutdown
           \/ DropSenders \/ DrainCompletes
    BY <1>6
    DEF CommitReload, HandOverReload, DiskPressureTurns, BeginShutdown, DropSenders,
        DrainCompletes, channelVars, schedulerVars, writerVars, Still
<1>7. CASE DrainTimesOut
  <2>1. \A v \in Workers : worker'[v].job = worker[v].job
    BY <1>1, <1>7 DEF DrainTimesOut
  <2> QED
    BY <1>7, <2>1 DEF DrainTimesOut, schedulerVars, Still
<1>8. CASE UNCHANGED vars
    BY <1>8 DEF vars, channelVars, schedulerVars, writerVars, Still
<1> QED
    BY <1>2, <1>3, <1>4, <1>5, <1>6, <1>7, <1>8
    DEF Next, ShutdownRequested, FatalExit, Terminated

\* Hands that nothing moves in or out of.
LEMMA HandsStill ==
    ASSUME \A w \in Workers : worker'[w].job = worker[w].job
    PROVE  InHand' = InHand /\ HandSlots' = HandSlots /\ (OnceInHand => OnceInHand')
<1>1. InHand' = InHand
    BY DEF InHand
<1>2. \A w \in InHand : w \in Workers
    BY DEF InHand
<1> QED
    BY <1>1, <1>2 DEF HandSlots, OnceInHand

\* A dispatched slot enters the job channel.
LEMMA DispatchMoves ==
    ASSUME TInv, NEW c \in scan, Dispatch(c)
    PROVE  /\ SlotsIn(jobs)' = SlotsIn(jobs) \cup {<<c, nextDue[c]>>}
           /\ OnceIn(jobs) /\ <<c, nextDue[c]>> \notin SlotsIn(jobs) => OnceIn(jobs)'
           /\ Len(jobs') = Len(jobs) + 1
           /\ issued' = issued \cup {<<c, nextDue[c]>>}
           /\ UNCHANGED <<results, worker>>
<1> DEFINE job == [check |-> c, slot |-> nextDue[c]]
<1>1. jobs \in Seq(RoundJob) /\ c \in Checks /\ nextDue[c] \in Slots
    BY ConfigurationIsFunction DEF TInv, TypeOK, ChannelsTypeOK, SchedulerTypeOK
<1>2. job \in RoundJob /\ SlotOf(job) = <<c, nextDue[c]>>
    BY <1>1 DEF RoundJob, SlotOf
<1>3. jobs' = Append(jobs, job) /\ issued' = issued \cup {<<c, nextDue[c]>>}
      /\ UNCHANGED <<results, worker>>
    BY DEF Dispatch, Advance
<1> HIDE DEF job
<1> QED
    BY <1>1, <1>2, <1>3, LastJoins

\* A skipped slot enters the result channel.
LEMMA RecordMoves ==
    ASSUME TInv, RecordSkippedRound
    PROVE  /\ SlotsIn(results)' = SlotsIn(results) \cup {SlotOf(blocked)}
           /\ OnceIn(results) /\ SlotOf(blocked) \notin SlotsIn(results) => OnceIn(results)'
           /\ Len(results') = Len(results) + 1
           /\ issued' = issued \cup {SlotOf(blocked)}
           /\ UNCHANGED <<jobs, worker>>
<1>1. results \in Seq(RoundResult) /\ blocked \in RoundResult
    BY DEF RecordSkippedRound, TInv, TypeOK, ChannelsTypeOK, SchedulerTypeOK
<1>2. results' = Append(results, blocked) /\ issued' = issued \cup {SlotOf(blocked)}
      /\ UNCHANGED <<jobs, worker>>
    BY DEF RecordSkippedRound, Advance, SlotOf
<1> QED
    BY <1>1, <1>2, LastJoins

\* A worker takes the slot at the head of the job channel into its empty hands.
LEMMA TakeMoves ==
    ASSUME TInv, HandsEmpty, NEW w \in Workers, TakeJob(w)
    PROVE  /\ jobs \in Seq(RoundJob) /\ jobs # <<>> /\ jobs' = Tail(jobs)
           /\ w \notin InHand /\ InHand' = InHand \cup {w}
           /\ HandSlots' = HandSlots \cup {SlotOf(Head(jobs))}
           /\ OnceInHand /\ SlotOf(Head(jobs)) \notin HandSlots => OnceInHand'
           /\ UNCHANGED results
<1>1. /\ worker \in [Workers -> [state : WorkerStates, job : RoundJob \cup {NoRound}]]
      /\ jobs \in Seq(RoundJob) /\ jobs # <<>> /\ jobs' = Tail(jobs)
      /\ Head(jobs) \in RoundJob
      /\ worker[w].state = "idle"
      /\ worker' = [worker EXCEPT ![w] = [state |-> "probing", job |-> Head(jobs)]]
      /\ UNCHANGED results
    BY DEF TakeJob, TInv, TypeOK, ChannelsTypeOK
<1>2. worker[w].job = NoRound /\ worker'[w].job = Head(jobs) /\ Head(jobs) # NoRound
    BY <1>1, NoRoundIsNoJob DEF HandsEmpty
<1>3. \A v \in Workers \ {w} : worker'[v].job = worker[v].job
    BY <1>1
<1>4. w \notin InHand /\ InHand' = InHand \cup {w}
    BY <1>2, <1>3 DEF InHand
<1>5. \A v \in InHand : v \in Workers \ {w}
    BY <1>4 DEF InHand
<1>6. HandSlots' = HandSlots \cup {SlotOf(Head(jobs))}
    BY <1>2, <1>3, <1>4, <1>5 DEF HandSlots
<1>7. ASSUME OnceInHand, SlotOf(Head(jobs)) \notin HandSlots PROVE OnceInHand'
  <2>1. \A v \in InHand : SlotOf(worker[v].job) # SlotOf(Head(jobs))
    BY <1>7 DEF HandSlots
  <2> QED
    BY <1>2, <1>3, <1>4, <1>5, <1>7, <2>1 DEF OnceInHand
<1> QED
    BY <1>1, <1>4, <1>6, <1>7

\* A worker lays the slot it holds into the result channel.
LEMMA SendMoves ==
    ASSUME TInv, NEW w \in Workers, SendResult(w)
    PROVE  /\ w \in InHand /\ InHand' = InHand \ {w}
           /\ HandSlots = HandSlots' \cup {SlotOf(worker[w].job)}
           /\ OnceInHand => SlotOf(worker[w].job) \notin HandSlots' /\ OnceInHand'
           /\ SlotsIn(results)' = SlotsIn(results) \cup {SlotOf(worker[w].job)}
           /\ OnceIn(results) /\ SlotOf(worker[w].job) \notin SlotsIn(results)
                => OnceIn(results)'
           /\ Len(results') = Len(results) + 1
           /\ UNCHANGED jobs
<1> DEFINE job == worker[w].job
<1>1. /\ worker \in [Workers -> [state : WorkerStates, job : RoundJob \cup {NoRound}]]
      /\ worker[w].job \in RoundJob
      /\ results \in Seq(RoundResult)
      /\ results' = Append(results, Executed(job))
      /\ worker' = [worker EXCEPT ![w] = Idle]
      /\ UNCHANGED jobs
    BY DEF SendResult, TInv, TypeOK, ChannelsTypeOK, HandsFull
<1>2. Executed(job) \in RoundResult /\ SlotOf(Executed(job)) = SlotOf(job)
    BY <1>1 DEF Executed, RoundJob, RoundResult, Statuses, SlotOf
<1>3. job # NoRound /\ worker'[w].job = NoRound
    BY <1>1, NoRoundIsNoJob DEF Idle
<1>4. \A v \in Workers \ {w} : worker'[v].job = worker[v].job
    BY <1>1
<1>5. w \in InHand /\ InHand' = InHand \ {w}
    BY <1>3, <1>4 DEF InHand
<1>6. \A v \in InHand' : v \in Workers \ {w} /\ v \in InHand
    BY <1>5 DEF InHand
<1>7. HandSlots = HandSlots' \cup {SlotOf(job)}
    BY <1>4, <1>5, <1>6 DEF HandSlots
<1>8. ASSUME OnceInHand PROVE SlotOf(job) \notin HandSlots' /\ OnceInHand'
  <2>1. \A v \in InHand' : SlotOf(worker'[v].job) # SlotOf(job)
    BY <1>4, <1>5, <1>6, <1>8 DEF OnceInHand
  <2>2. OnceInHand'
    BY <1>4, <1>6, <1>8 DEF OnceInHand
  <2> QED
    BY <2>1, <2>2 DEF HandSlots
<1> HIDE DEF job
<1>9. /\ SlotsIn(results)' = SlotsIn(results) \cup {SlotOf(job)}
      /\ OnceIn(results) /\ SlotOf(job) \notin SlotsIn(results) => OnceIn(results)'
      /\ Len(results') = Len(results) + 1
    BY <1>1, <1>2, LastJoins
<1> QED
    BY <1>1, <1>5, <1>7, <1>8, <1>9 DEF job

\* The writer moves the slot at the head of the result channel to the rounds or to
\* the discarded results.
LEMMA FileMoves ==
    ASSUME TInv, WriteRound
    PROVE  /\ results \in Seq(RoundResult) /\ results # <<>> /\ results' = Tail(results)
           /\ UNCHANGED <<jobs, worker>>
           /\ \/ rounds' = rounds \cup {Head(results)} /\ UNCHANGED dropped
              \/ dropped' = dropped \cup {Head(results)} /\ UNCHANGED rounds
BY DEF WriteRound, Consume, DiscardInactive, RejectDuplicate, InsertFails, UpsertFails,
       StoreRound, DropResult, TInv, TypeOK, ChannelsTypeOK

LEMMA SlotsOfMore ==
    ASSUME NEW S, NEW r
    PROVE  SlotsOf(S \cup {r}) = SlotsOf(S) \cup {SlotOf(r)}
BY DEF SlotsOf

-----------------------------------------------------------------------------
(***************************************************************************)
(* No slot is lost.  This needs nothing of the clock.                      *)
(***************************************************************************)
PlacedInv == HandsEmpty /\ AllPlaced

LEMMA HandsEmptyStep ==
    ASSUME TInv, HandsEmpty, [Next]_vars
    PROVE  HandsEmpty'
<1>1. worker \in [Workers -> [state : WorkerStates, job : RoundJob \cup {NoRound}]]
    BY DEF TInv, TypeOK, ChannelsTypeOK
<1>2. ASSUME UNCHANGED worker PROVE HandsEmpty'
    BY <1>2 DEF HandsEmpty
<1>3. ASSUME NEW w \in Workers, Working(w) PROVE HandsEmpty'
    BY <1>1, <1>3
    DEF Working, WorkerStep, TakeJob, FinishRound, SendResult, WorkerExits, WorkerPanics, Idle,
        HandsEmpty
<1>4. CASE Scheduling
  <2>1. ASSUME NEW c \in scan, ConsiderCheck(c) PROVE UNCHANGED worker
    BY <2>1 DEF ConsiderCheck, Dispatch, SkipOverlap, SkipConcurrency, SkipQueueFull, Skip,
                QueueClosed, channelVars
  <2> QED
    BY <1>2, <1>4, <2>1
    DEF Scheduling, SchedulerStep, TickFires, TickEnds, RecordSkippedRound, Reconcile,
        Pause, StopScheduler, channelVars
<1>5. CASE Writing
    BY <1>2, <1>5 DEF Writing, WriterStep, WriteRound, WriterExits, EvaluateAlert, channelVars
<1>6. CASE ClockTicks \/ ClockStepsBack \/ CommitReload \/ HandOverReload \/ DiskPressureTurns
           \/ BeginShutdown \/ DropSenders \/ DrainCompletes
    BY <1>2, <1>6
    DEF ClockTicks, ClockStepsBack, CommitReload, HandOverReload, DiskPressureTurns,
        BeginShutdown, DropSenders, DrainCompletes, channelVars
<1>7. CASE DrainTimesOut
    BY <1>1, <1>7 DEF DrainTimesOut, Gone, HandsEmpty
<1>8. CASE UNCHANGED vars
    BY <1>2, <1>8 DEF vars, channelVars
<1> QED
    BY <1>3, <1>4, <1>5, <1>6, <1>7, <1>8 DEF Next, ShutdownRequested, FatalExit, Terminated

LEMMA AllPlacedStep ==
    ASSUME TInv, PlacedInv, [Next]_vars
    PROVE  AllPlaced'
<1>1. CASE Still
    BY <1>1, HandsStill DEF Still, PlacedInv, AllPlaced
<1>2. ASSUME NEW c \in scan, Dispatch(c), UNCHANGED <<rounds, dropped>> PROVE AllPlaced'
    BY <1>2, DispatchMoves, HandsStill DEF PlacedInv, AllPlaced
<1>3. CASE Recording
    BY <1>3, RecordMoves, HandsStill DEF Recording, PlacedInv, AllPlaced
<1>4. ASSUME NEW w \in Workers, Taking(w) PROVE AllPlaced'
    BY <1>4, TakeMoves, HeadLeaves DEF Taking, PlacedInv, AllPlaced
<1>5. ASSUME NEW w \in Workers, Sending(w) PROVE AllPlaced'
    BY <1>5, SendMoves DEF Sending, PlacedInv, AllPlaced
<1>6. CASE Filing
  <2>1. SlotsIn(results) = SlotsIn(results)' \cup {SlotOf(Head(results))}
    BY <1>6, FileMoves, HeadLeaves DEF Filing
  <2> QED
    BY <1>6, <2>1, FileMoves, SlotsOfMore, HandsStill DEF Filing, PlacedInv, AllPlaced
<1> QED
    BY <1>1, <1>2, <1>3, <1>4, <1>5, <1>6, StepMovesOne DEF Dispatching

LEMMA PlacedInit == Init => PlacedInv
<1> SUFFICES ASSUME Init PROVE PlacedInv
    OBVIOUS
<1>1. /\ issued = {} /\ jobs = <<>> /\ results = <<>> /\ rounds = {} /\ dropped = {}
      /\ \A w \in Workers : worker[w].job = NoRound
    BY DEF Init, ChannelsInit, SchedulerInit, WriterInit
<1>2. HandSlots = {} /\ SlotsOf(rounds) = {} /\ SlotsOf(dropped) = {}
    BY <1>1 DEF HandSlots, InHand, SlotsOf
<1> QED
    BY <1>1, <1>2, EmptyChannel DEF PlacedInv, HandsEmpty, AllPlaced

LEMMA PlacedStep == TInv /\ PlacedInv /\ [Next]_vars => PlacedInv'
BY HandsEmptyStep, AllPlacedStep DEF PlacedInv

-----------------------------------------------------------------------------
(***************************************************************************)
(* No slot comes twice, while the wall clock does not step back.           *)
(***************************************************************************)

LEMMA NextAlignedIsLater ==
    ASSUME NEW after \in Nat, NEW c \in Checks, NEW i \in Intervals
    PROVE  NextAligned(after, c, i) > after
<1>1. i \in Nat /\ i > 0 /\ Offset[c][i] \in Nat
    BY IntervalsAssumption, OffsetAssumption
<1> DEFINE q == after \div i
<1>2. q \in Nat /\ after = i * q + (after % i) /\ after % i < i /\ after % i \in Nat
    BY <1>1
<1>3. q * i \in Nat /\ q * i = i * q
    BY <1>1, <1>2
<1>4. q * i + Offset[c][i] + i > after
    BY <1>1, <1>2, <1>3
<1> QED
    BY <1>1, <1>3, <1>4 DEF NextAligned

LEMMA FirstDueIsNotEarlier ==
    ASSUME NEW at \in Nat, NEW c \in Checks, NEW i \in Intervals
    PROVE  FirstDue(at, c, i) >= at
<1>1. NextAligned(at, c, i) \in Nat
    BY NextAlignedIsSlot DEF Slots
<1> QED
    BY <1>1, NextAlignedIsLater DEF FirstDue

\* Once a slot has been dealt with, its check waits for a later one.
LEMMA AdvanceIsLater ==
    ASSUME TInv, NEW c \in DOMAIN active, NEW due \in Nat, due <= clockRead, Advance(c, due)
    PROVE  /\ nextDue'[c] > due
           /\ \A d \in DOMAIN active \ {c} : nextDue'[d] = nextDue[d]
           /\ issued' = issued \cup {<<c, due>>}
<1>1. c \in Checks /\ active[c] \in Intervals /\ clockRead \in Nat
      /\ nextDue \in [DOMAIN active -> Slots]
    BY ConfigurationIsFunction DEF TInv, TypeOK, SchedulerTypeOK
<1>2. NextAligned(clockRead, c, active[c]) \in Nat
    BY <1>1, NextAlignedIsSlot DEF Slots
<1>3. NextAligned(clockRead, c, active[c]) > due
    BY <1>1, <1>2, NextAlignedIsLater
<1>4. due + active[c] > due
  <2>1. \A i \in Intervals : due + i > due
    BY IntervalsAssumption
  <2> QED
    BY <1>1, <2>1
<1>5. NextDueAfterAttempt(c, due) > due
    BY <1>3, <1>4 DEF NextDueAfterAttempt
<1> QED
    BY <1>1, <1>5 DEF Advance

\* The slot a check waits for is new.
LEMMA WaitedForIsNew ==
    ASSUME TInv, SlotsFresh, NEW c \in DOMAIN active
    PROVE  <<c, nextDue[c]>> \notin issued
<1>1. nextDue[c] \in Nat
    BY DEF TInv, TypeOK, SchedulerTypeOK, Slots
<1> QED
    BY <1>1 DEF SlotsFresh

\* What SlotsFresh speaks of.
freshVars == <<now, clockRead, active, nextDue, scan, blocked, issued>>

LEMMA FreshUnchanged == SlotsFresh /\ UNCHANGED freshVars => SlotsFresh'
BY DEF freshVars, SlotsFresh

LEMMA SchedulingKeepsFresh ==
    ASSUME TInv, SlotsFresh, Scheduling
    PROVE  SlotsFresh'
<1>1. /\ now \in Nat /\ clockRead \in Nat
      /\ active \in Configurations
      /\ nextDue \in [DOMAIN active -> Nat]
      /\ scan \in SUBSET DOMAIN active
      /\ issued \in SUBSET (Checks \X Nat)
      /\ blocked # NoResult => blocked \in RoundResult /\ blocked.check \in DOMAIN active
      /\ phase # "scan" => scan = {} /\ blocked = NoResult
    BY DEF TInv, TypeOK, SchedulerTypeOK, BetweenTicks, Slots
<1>2. CASE TickFires
  <2>1. scan' = DueChecks /\ clockRead' = now /\ blocked = NoResult
        /\ UNCHANGED <<now, active, nextDue, blocked, issued>>
    BY <1>1, <1>2 DEF TickFires
  <2>2. \A c \in scan' : nextDue'[c] <= clockRead'
    BY <2>1 DEF DueChecks
  <2>3. \A e \in issued : e[2] \in Nat /\ e[2] <= clockRead'
    BY <1>1, <2>1 DEF SlotsFresh
  <2> QED
    BY <1>1, <2>1, <2>2, <2>3 DEF SlotsFresh
<1>3. CASE TickEnds \/ Pause \/ StopScheduler
    BY <1>3, FreshUnchanged DEF TickEnds, Pause, StopScheduler, freshVars
<1>4. ASSUME NEW c \in scan, Dispatch(c) PROVE SlotsFresh'
  <2>1. /\ c \in DOMAIN active /\ nextDue[c] \in Nat /\ nextDue[c] <= clockRead
        /\ Advance(c, nextDue[c])
        /\ scan' = scan \ {c} /\ blocked = NoResult
        /\ UNCHANGED <<now, clockRead, active, blocked>>
    BY <1>1, <1>4 DEF Dispatch, SlotsFresh
  <2>2. /\ nextDue'[c] > nextDue[c]
        /\ \A d \in DOMAIN active \ {c} : nextDue'[d] = nextDue[d]
        /\ issued' = issued \cup {<<c, nextDue[c]>>}
    BY <2>1, AdvanceIsLater
  <2>3. nextDue'[c] \in Nat
    BY <1>1, <2>1, AdvanceKeepsTypes DEF Slots
  <2>4. \A e \in issued' : e[2] <= clockRead'
    BY <2>1, <2>2 DEF SlotsFresh
  <2>5. ASSUME NEW e \in issued', e[1] \in DOMAIN active PROVE e[2] < nextDue'[e[1]]
    <3>1. CASE e = <<c, nextDue[c]>>
      BY <2>2, <3>1
    <3>2. CASE e \in issued /\ e[1] = c
      <4>1. e[2] < nextDue[c] /\ e[2] \in Nat
        BY <1>1, <2>1, <3>2 DEF SlotsFresh
      <4> QED
        BY <2>1, <2>2, <2>3, <3>2, <4>1
    <3>3. CASE e \in issued /\ e[1] # c
      BY <2>2, <2>5, <3>3 DEF SlotsFresh
    <3> QED
      BY <2>2, <2>5, <3>1, <3>2, <3>3
  <2>6. \A d \in scan' : nextDue'[d] <= clockRead'
    BY <1>1, <2>1, <2>2 DEF SlotsFresh
  <2> QED
    BY <2>1, <2>4, <2>5, <2>6 DEF SlotsFresh
<1>5. ASSUME NEW c \in scan, NEW status \in Statuses, Skip(c, status) PROVE SlotsFresh'
  <2>1. /\ blocked' = [check |-> c, slot |-> nextDue[c], status |-> status]
        /\ scan' = scan \ {c}
        /\ UNCHANGED <<now, clockRead, active, nextDue, issued>>
    BY <1>5 DEF Skip
  <2>2. nextDue[c] <= clockRead
    BY DEF SlotsFresh
  <2>3. blocked'.check = c /\ blocked'.slot = nextDue[c]
    BY <2>1
  <2> QED
    BY <2>1, <2>2, <2>3 DEF SlotsFresh
<1>6. ASSUME NEW c \in scan, QueueClosed(c) PROVE SlotsFresh'
    BY <1>6 DEF QueueClosed, SlotsFresh
<1>7. CASE RecordSkippedRound
  <2> DEFINE c == blocked.check
  <2>1. /\ c \in DOMAIN active /\ nextDue[c] \in Nat /\ nextDue[c] <= clockRead
        /\ blocked.slot = nextDue[c] /\ c \notin scan
        /\ Advance(c, nextDue[c])
        /\ blocked' = NoResult
        /\ UNCHANGED <<now, clockRead, active, scan>>
    BY <1>1, <1>7 DEF RecordSkippedRound, SlotsFresh
  <2> HIDE DEF c
  <2>2. /\ nextDue'[c] > nextDue[c]
        /\ \A d \in DOMAIN active \ {c} : nextDue'[d] = nextDue[d]
        /\ issued' = issued \cup {<<c, nextDue[c]>>}
    BY <2>1, AdvanceIsLater
  <2>3. nextDue'[c] \in Nat
    BY <1>1, <2>1, AdvanceKeepsTypes DEF Slots
  <2>4. \A e \in issued' : e[2] <= clockRead'
    BY <2>1, <2>2 DEF SlotsFresh
  <2>5. ASSUME NEW e \in issued', e[1] \in DOMAIN active PROVE e[2] < nextDue'[e[1]]
    <3>1. CASE e = <<c, nextDue[c]>>
      BY <2>2, <3>1
    <3>2. CASE e \in issued /\ e[1] = c
      <4>1. e[2] < nextDue[c] /\ e[2] \in Nat
        BY <1>1, <2>1, <3>2 DEF SlotsFresh
      <4> QED
        BY <2>1, <2>2, <2>3, <3>2, <4>1
    <3>3. CASE e \in issued /\ e[1] # c
      BY <2>2, <2>5, <3>3 DEF SlotsFresh
    <3> QED
      BY <2>2, <2>5, <3>1, <3>2, <3>3
  <2>6. \A d \in scan' : nextDue'[d] <= clockRead'
    BY <1>1, <2>1, <2>2 DEF SlotsFresh
  <2> QED
    BY <2>1, <2>4, <2>5, <2>6 DEF SlotsFresh
<1>8. CASE Reconcile
  <2> DEFINE config == Head(commands).checks
  <2>1. config \in Configurations
    <3>1. Head(commands) \in Commands
      BY <1>8 DEF Reconcile, TInv, TypeOK, SchedulerTypeOK
    <3> QED
      BY <1>8, <3>1, CommandPayload DEF Reconcile
  <2>2. /\ now' = now + 1 /\ clockRead' = now' /\ active' = config
        /\ nextDue' = Reschedule(config, now')
        /\ scan = {} /\ blocked = NoResult
        /\ UNCHANGED <<scan, blocked, issued>>
    BY <1>1, <1>8 DEF Reconcile
  <2> HIDE DEF config
  <2>3. \A c \in DOMAIN config : c \in Checks /\ config[c] \in Intervals
    BY <2>1, ConfigurationIsFunction
  <2>4. ASSUME NEW e \in issued PROVE e[2] \in Nat /\ e[2] <= clockRead' /\ e[2] < now'
    BY <1>1, <2>2 DEF SlotsFresh
  <2>5. ASSUME NEW e \in issued, e[1] \in DOMAIN config PROVE e[2] < nextDue'[e[1]]
    <3>1. nextDue'[e[1]] = IF e[1] \in DOMAIN active THEN nextDue[e[1]]
                           ELSE FirstDue(now', e[1], config[e[1]])
      BY <2>2, <2>5 DEF Reschedule
    <3>2. CASE e[1] \in DOMAIN active
      BY <3>1, <3>2 DEF SlotsFresh
    <3>3. CASE e[1] \notin DOMAIN active
      <4>1. now' \in Nat
        BY <1>1, <2>2
      <4>2. FirstDue(now', e[1], config[e[1]]) \in Nat
        BY <2>3, <2>5, <4>1, FirstDueIsSlot DEF Slots
      <4>3. FirstDue(now', e[1], config[e[1]]) >= now'
        BY <2>3, <2>5, <4>1, FirstDueIsNotEarlier
      <4> QED
        BY <2>4, <3>1, <3>3, <4>1, <4>2, <4>3
    <3> QED
      BY <3>2, <3>3
  <2> QED
    BY <1>1, <2>2, <2>4, <2>5 DEF SlotsFresh
<1>9. ASSUME NEW c \in scan, ConsiderCheck(c) PROVE SlotsFresh'
    BY <1>4, <1>5, <1>6, <1>9
    DEF ConsiderCheck, SkipOverlap, SkipConcurrency, SkipQueueFull, Statuses
<1> QED
    BY <1>2, <1>3, <1>7, <1>8, <1>9 DEF Scheduling, SchedulerStep

LEMMA FreshStep == TInv /\ SlotsFresh /\ [Next]_vars => SlotsFresh'
<1> SUFFICES ASSUME TInv, SlotsFresh, [Next]_vars PROVE SlotsFresh'
    OBVIOUS
<1>1. CASE ClockTicks
  <2>1. now' = now + 1 /\ now \in Nat /\ clockRead \in Nat
        /\ UNCHANGED <<clockRead, active, nextDue, scan, blocked, issued>>
    BY <1>1 DEF ClockTicks, schedulerVars, TInv, TypeOK, SchedulerTypeOK
  <2> QED
    BY <2>1 DEF SlotsFresh
<1>2. ~ClockStepsBack
    BY DEF ClockStepsBack, SlotsFresh, TInv, TypeOK, ServeTypeOK
<1>3. CASE Writing
    BY <1>3, FreshUnchanged DEF Writing, schedulerVars, freshVars
<1>4. ASSUME NEW w \in Workers, Working(w) PROVE SlotsFresh'
    BY <1>4, FreshUnchanged DEF Working, schedulerVars, freshVars
<1>5. CASE CommitReload \/ HandOverReload \/ DiskPressureTurns \/ BeginShutdown
           \/ DropSenders \/ DrainCompletes \/ DrainTimesOut
    BY <1>5, FreshUnchanged
    DEF CommitReload, HandOverReload, DiskPressureTurns, BeginShutdown, DropSenders,
        DrainCompletes, DrainTimesOut, schedulerVars, freshVars
<1>6. CASE UNCHANGED vars
    BY <1>6, FreshUnchanged DEF vars, schedulerVars, freshVars
<1> QED
    BY <1>1, <1>2, <1>3, <1>4, <1>5, <1>6, SchedulingKeepsFresh
    DEF Next, ShutdownRequested, FatalExit, Terminated

LEMMA FreshInit == Init /\ MaxBackSteps = 0 => SlotsFresh
BY DEF Init, SchedulerInit, SlotsFresh

-----------------------------------------------------------------------------
(***************************************************************************)
(* No slot is at two places, and the ledger.                               *)
(***************************************************************************)
SlotInv == TInv /\ PlacedInv /\ SlotsFresh /\ PlacesApart

LEMMA NewIsNowhere ==
    ASSUME PlacedInv, NEW s, s \notin issued
    PROVE  /\ s \notin SlotsIn(jobs) /\ s \notin HandSlots /\ s \notin SlotsIn(results)
           /\ s \notin SlotsOf(rounds) /\ s \notin SlotsOf(dropped)
BY DEF PlacedInv, AllPlaced

\* The skipped slot that waits to be recorded is new.
LEMMA BlockedIsNew ==
    ASSUME TInv, SlotsFresh, RecordSkippedRound
    PROVE  SlotOf(blocked) \notin issued
<1>1. blocked # NoResult /\ blocked.check \in DOMAIN active
      /\ blocked.slot = nextDue[blocked.check]
    BY DEF RecordSkippedRound, TInv, BetweenTicks, SlotsFresh
<1> QED
    BY <1>1, WaitedForIsNew DEF SlotOf

LEMMA ApartStep ==
    ASSUME SlotInv, [Next]_vars
    PROVE  PlacesApart'
<1> USE DEF SlotInv
<1>1. CASE Still
    BY <1>1, HandsStill DEF Still, PlacesApart
<1>2. ASSUME NEW c \in scan, Dispatch(c), UNCHANGED <<rounds, dropped>> PROVE PlacesApart'
  <2>1. c \in DOMAIN active
    BY DEF TInv, TypeOK, SchedulerTypeOK
  <2>2. <<c, nextDue[c]>> \notin issued
    BY <2>1, WaitedForIsNew
  <2> QED
    BY <1>2, <2>2, DispatchMoves, NewIsNowhere, HandsStill DEF PlacesApart
<1>3. CASE Recording
    BY <1>3, BlockedIsNew, RecordMoves, NewIsNowhere, HandsStill DEF Recording, PlacesApart
<1>4. ASSUME NEW w \in Workers, Taking(w) PROVE PlacesApart'
  <2> DEFINE s == SlotOf(Head(jobs))
  <2>0. jobs \in Seq(RoundJob) /\ jobs # <<>> /\ jobs' = Tail(jobs)
    BY <1>4, TakeMoves DEF Taking, PlacedInv
  <2>1. SlotsIn(jobs) = SlotsIn(jobs)' \cup {s} /\ s \notin SlotsIn(jobs)' /\ OnceIn(jobs)'
    <3>1. OnceIn(jobs)
      BY DEF PlacesApart
    <3> QED
      BY <2>0, <3>1, HeadLeaves
  <2>2. HandSlots' = HandSlots \cup {s} /\ (s \notin HandSlots => OnceInHand')
        /\ UNCHANGED <<results, rounds, dropped>>
    BY <1>4, TakeMoves DEF Taking, PlacedInv, PlacesApart
  <2> HIDE DEF s
  <2> QED
    BY <2>1, <2>2 DEF PlacesApart
<1>5. ASSUME NEW w \in Workers, Sending(w) PROVE PlacesApart'
  <2> DEFINE s == SlotOf(worker[w].job)
  <2>1. HandSlots = HandSlots' \cup {s} /\ s \notin HandSlots' /\ OnceInHand'
    BY <1>5, SendMoves DEF Sending, PlacesApart
  <2>2. SlotsIn(results)' = SlotsIn(results) \cup {s}
        /\ (s \notin SlotsIn(results) => OnceIn(results)')
        /\ UNCHANGED <<jobs, rounds, dropped>>
    BY <1>5, SendMoves DEF Sending, PlacesApart
  <2> HIDE DEF s
  <2> QED
    BY <2>1, <2>2 DEF PlacesApart
<1>6. CASE Filing
  <2> DEFINE s == SlotOf(Head(results))
  <2>0. results \in Seq(RoundResult) /\ results # <<>> /\ results' = Tail(results)
    BY <1>6, FileMoves DEF Filing
  <2>1. SlotsIn(results) = SlotsIn(results)' \cup {s} /\ s \notin SlotsIn(results)'
        /\ OnceIn(results)'
    <3>1. OnceIn(results)
      BY DEF PlacesApart
    <3> QED
      BY <2>0, <3>1, HeadLeaves
  <2>2. \/ SlotsOf(rounds)' = SlotsOf(rounds) \cup {s} /\ SlotsOf(dropped)' = SlotsOf(dropped)
        \/ SlotsOf(dropped)' = SlotsOf(dropped) \cup {s} /\ SlotsOf(rounds)' = SlotsOf(rounds)
    BY <1>6, FileMoves, SlotsOfMore DEF Filing
  <2>3. UNCHANGED jobs /\ HandSlots' = HandSlots /\ (OnceInHand => OnceInHand')
    BY <1>6, FileMoves, HandsStill DEF Filing
  <2> HIDE DEF s
  <2> QED
    BY <2>1, <2>2, <2>3 DEF PlacesApart
<1> QED
    BY <1>1, <1>2, <1>3, <1>4, <1>5, <1>6, StepMovesOne DEF Dispatching

LEMMA ApartInit == Init => PlacesApart
<1> SUFFICES ASSUME Init PROVE PlacesApart
    OBVIOUS
<1>1. /\ jobs = <<>> /\ results = <<>> /\ rounds = {} /\ dropped = {}
      /\ \A w \in Workers : worker[w].job = NoRound
    BY DEF Init, ChannelsInit, WriterInit
<1>2. InHand = {} /\ HandSlots = {} /\ SlotsOf(rounds) = {} /\ SlotsOf(dropped) = {}
    BY <1>1 DEF HandSlots, InHand, SlotsOf
<1> QED
    BY <1>1, <1>2, EmptyChannel DEF PlacesApart, OnceInHand

LEMMA SlotInit == Init /\ MaxBackSteps = 0 => SlotInv
BY TypeInit, PlacedInit, FreshInit, ApartInit DEF SlotInv

LEMMA SlotStep == SlotInv /\ [Next]_vars => SlotInv'
BY TypeStep, PlacedStep, FreshStep, ApartStep DEF SlotInv

\* Every step of the pipeline is one of the ledger, or none.
LEMMA LedgerStep ==
    ASSUME SlotInv, [Next]_vars
    PROVE  [Ledger!Next]_(Ledger!ledgerVars)
<1> USE DEF SlotInv
<1> USE DEF Ledger!Next, Ledger!ledgerVars
<1>1. CASE Still
    BY <1>1 DEF Still, SlotsOf
<1>2. ASSUME NEW c \in scan, Dispatch(c), UNCHANGED <<rounds, dropped>> PROVE Ledger!Open
  <2>1. c \in DOMAIN active
    BY DEF TInv, TypeOK, SchedulerTypeOK
  <2>2. <<c, nextDue[c]>> \notin issued /\ issued' = issued \cup {<<c, nextDue[c]>>}
    BY <1>2, <2>1, WaitedForIsNew, DispatchMoves
  <2> QED
    BY <1>2, <2>2 DEF Ledger!Open, SlotsOf
<1>3. CASE Recording
  <2>1. SlotOf(blocked) \notin issued /\ issued' = issued \cup {SlotOf(blocked)}
    BY <1>3, BlockedIsNew, RecordMoves DEF Recording
  <2>2. Ledger!Open
    BY <1>3, <2>1 DEF Recording, Ledger!Open, SlotsOf
  <2> QED
    BY <2>2
<1>4. ASSUME NEW w \in Workers, Taking(w) \/ Sending(w) PROVE UNCHANGED Ledger!ledgerVars
    BY <1>4 DEF Taking, Sending, SlotsOf
<1>5. CASE Filing
  <2> DEFINE s == SlotOf(Head(results))
  <2>1. s \in SlotsIn(results)
    BY <1>5, FileMoves, HeadLeaves DEF Filing
  <2>2. s \in Ledger!Pending
    BY <2>1 DEF Ledger!Pending, PlacedInv, AllPlaced, PlacesApart
  <2>3. \/ SlotsOf(rounds)' = SlotsOf(rounds) \cup {s} /\ SlotsOf(dropped)' = SlotsOf(dropped)
        \/ SlotsOf(dropped)' = SlotsOf(dropped) \cup {s} /\ SlotsOf(rounds)' = SlotsOf(rounds)
    BY <1>5, FileMoves, SlotsOfMore DEF Filing
  <2> HIDE DEF s
  <2>4. Ledger!Store \/ Ledger!Discard
    BY <1>5, <2>2, <2>3 DEF Filing, Ledger!Store, Ledger!Discard
  <2> QED
    BY <2>4
<1> QED
    BY <1>1, <1>2, <1>3, <1>4, <1>5, StepMovesOne DEF Dispatching

\* The pipeline implements the ledger of slots, for any number of checks, workers and
\* reloads: a slot is opened once and closed at most once, stored or discarded
\* (scheduler.rs:173-330, worker.rs:53-83, writer.rs:138-204).  A clock that steps back is
\* excluded: with it a slot does come again, and the unique index turns it away.
THEOREM LedgerImplemented == Spec /\ MaxBackSteps = 0 => LedgerSpec
<1>1. Init => Ledger!Init
    BY DEF Init, SchedulerInit, WriterInit, SlotsOf, Ledger!Init
<1>2. SlotInv /\ [Next]_vars => [Ledger!Next]_(Ledger!ledgerVars)
    BY LedgerStep
<1> QED
    BY <1>1, <1>2, SlotInit, SlotStep, PTL DEF Spec, LedgerSpec, Ledger!Spec
-----------------------------------------------------------------------------
(***************************************************************************)
(* The count that goes with the places.                                    *)
(***************************************************************************)

LEMMA CountTypes ==
    ASSUME TInv, PlacesCounted
    PROVE  /\ IsFiniteSet(InHand) /\ Cardinality(InHand) \in Nat
           /\ Len(jobs) \in Nat /\ Len(results) \in Nat
           /\ Cardinality(issued) \in Nat
           /\ Cardinality(rounds) \in Nat /\ Cardinality(dropped) \in Nat
<1>1. IsFiniteSet(InHand)
    BY WorkersAssumption, FS_Subset DEF InHand
<1>2. Len(jobs) \in Nat /\ Len(results) \in Nat
    BY DEF TInv, TypeOK, ChannelsTypeOK
<1> QED
    BY <1>1, <1>2, FS_CardinalityType DEF PlacesCounted

\* A slot that joins the set of those dealt with, or a row its table, counts one.
LEMMA OneMore ==
    ASSUME NEW S, NEW x, IsFiniteSet(S), x \notin S
    PROVE  IsFiniteSet(S \cup {x}) /\ Cardinality(S \cup {x}) = Cardinality(S) + 1
BY FS_AddElement

LEMMA OneLess ==
    ASSUME NEW S, NEW x, IsFiniteSet(S), x \in S
    PROVE  Cardinality(S \ {x}) = Cardinality(S) - 1
BY FS_RemoveElement

LEMMA CountStep ==
    ASSUME SlotInv, PlacesCounted, [Next]_vars
    PROVE  PlacesCounted'
<1> USE DEF SlotInv
<1>0. /\ IsFiniteSet(InHand) /\ Cardinality(InHand) \in Nat
      /\ Len(jobs) \in Nat /\ Len(results) \in Nat
      /\ Cardinality(issued) \in Nat
      /\ Cardinality(rounds) \in Nat /\ Cardinality(dropped) \in Nat
    BY CountTypes
<1>1. CASE Still
    BY <1>1, HandsStill DEF Still, PlacesCounted
<1>2. ASSUME NEW c \in scan, Dispatch(c), UNCHANGED <<rounds, dropped>> PROVE PlacesCounted'
  <2>1. c \in DOMAIN active
    BY DEF TInv, TypeOK, SchedulerTypeOK
  <2>2. <<c, nextDue[c]>> \notin issued
    BY <2>1, WaitedForIsNew
  <2>3. /\ Len(jobs') = Len(jobs) + 1 /\ issued' = issued \cup {<<c, nextDue[c]>>}
        /\ UNCHANGED results /\ InHand' = InHand
    BY <1>2, DispatchMoves, HandsStill
  <2>4. IsFiniteSet(issued') /\ Cardinality(issued') = Cardinality(issued) + 1
    BY <2>2, <2>3, OneMore DEF PlacesCounted
  <2> QED
    BY <1>0, <1>2, <2>3, <2>4 DEF PlacesCounted
<1>3. CASE Recording
  <2>1. SlotOf(blocked) \notin issued
    BY <1>3, BlockedIsNew DEF Recording
  <2>2. /\ Len(results') = Len(results) + 1 /\ issued' = issued \cup {SlotOf(blocked)}
        /\ UNCHANGED <<jobs, rounds, dropped>> /\ InHand' = InHand
    BY <1>3, RecordMoves, HandsStill DEF Recording
  <2>3. IsFiniteSet(issued') /\ Cardinality(issued') = Cardinality(issued) + 1
    BY <2>1, <2>2, OneMore DEF PlacesCounted
  <2> QED
    BY <1>0, <2>2, <2>3 DEF PlacesCounted
<1>4. ASSUME NEW w \in Workers, Taking(w) PROVE PlacesCounted'
  <2>1. /\ jobs \in Seq(RoundJob) /\ jobs # <<>> /\ jobs' = Tail(jobs)
        /\ w \notin InHand /\ InHand' = InHand \cup {w}
        /\ UNCHANGED <<results, issued, rounds, dropped>>
    BY <1>4, TakeMoves DEF Taking, PlacedInv
  <2>2. Len(jobs') = Len(jobs) - 1
    BY <2>1, HeadLeaves
  <2>3. Cardinality(InHand') = Cardinality(InHand) + 1
    BY <1>0, <2>1, OneMore
  <2> QED
    BY <1>0, <2>1, <2>2, <2>3 DEF PlacesCounted
<1>5. ASSUME NEW w \in Workers, Sending(w) PROVE PlacesCounted'
  <2>1. w \in InHand /\ InHand' = InHand \ {w}
    BY <1>5, SendMoves DEF Sending
  <2>2. Len(results') = Len(results) + 1 /\ UNCHANGED <<jobs, issued, rounds, dropped>>
    BY <1>5, SendMoves DEF Sending
  <2>3. Cardinality(InHand') = Cardinality(InHand) - 1
    BY <1>0, <2>1, OneLess
  <2>4. /\ Len(jobs') = Len(jobs) /\ Cardinality(issued') = Cardinality(issued)
        /\ Cardinality(rounds') = Cardinality(rounds)
        /\ Cardinality(dropped') = Cardinality(dropped)
        /\ IsFiniteSet(issued') /\ IsFiniteSet(rounds') /\ IsFiniteSet(dropped')
    BY <2>2 DEF PlacesCounted
  <2>5. Len(results') = Len(results) + 1
    BY <2>2
  <2>6. Cardinality(issued) = Len(jobs) + Cardinality(InHand) + Len(results)
                              + Cardinality(rounds) + Cardinality(dropped)
    BY DEF PlacesCounted
  <2>7. Cardinality(issued') = Len(jobs') + Cardinality(InHand') + Len(results')
                               + Cardinality(rounds') + Cardinality(dropped')
    BY <1>0, <2>3, <2>4, <2>5, <2>6
  <2> QED
    BY <2>4, <2>7 DEF PlacesCounted
<1>6. CASE Filing
  <2> DEFINE r == Head(results)
  <2>1. /\ results \in Seq(RoundResult) /\ results # <<>> /\ results' = Tail(results)
        /\ UNCHANGED <<jobs, issued, worker>>
        /\ \/ rounds' = rounds \cup {r} /\ UNCHANGED dropped
           \/ dropped' = dropped \cup {r} /\ UNCHANGED rounds
    BY <1>6, FileMoves DEF Filing
  <2>2. Len(results') = Len(results) - 1 /\ SlotOf(r) \in SlotsIn(results)
    BY <2>1, HeadLeaves
  <2>3. r \notin rounds /\ r \notin dropped
    BY <2>2 DEF PlacesApart, SlotsOf
  <2>4. InHand' = InHand
    BY <2>1, HandsStill
  <2> HIDE DEF r
  <2>5. /\ IsFiniteSet(rounds') /\ IsFiniteSet(dropped')
        /\ \/ /\ Cardinality(rounds') = Cardinality(rounds) + 1
              /\ Cardinality(dropped') = Cardinality(dropped)
           \/ /\ Cardinality(dropped') = Cardinality(dropped) + 1
              /\ Cardinality(rounds') = Cardinality(rounds)
    <3>0. IsFiniteSet(rounds) /\ IsFiniteSet(dropped)
      BY DEF PlacesCounted
    <3>1. CASE rounds' = rounds \cup {r} /\ UNCHANGED dropped
      <4>1. IsFiniteSet(rounds \cup {r})
            /\ Cardinality(rounds \cup {r}) = Cardinality(rounds) + 1
        BY <2>3, <3>0, OneMore
      <4> QED
        BY <1>0, <3>0, <3>1, <4>1
    <3>2. CASE dropped' = dropped \cup {r} /\ UNCHANGED rounds
      <4>1. IsFiniteSet(dropped \cup {r})
            /\ Cardinality(dropped \cup {r}) = Cardinality(dropped) + 1
        BY <2>3, <3>0, OneMore
      <4> QED
        BY <1>0, <3>0, <3>2, <4>1
    <3> QED
      BY <2>1, <3>1, <3>2
  <2>6. /\ Len(jobs') = Len(jobs) /\ Cardinality(issued') = Cardinality(issued)
        /\ Cardinality(InHand') = Cardinality(InHand) /\ IsFiniteSet(issued')
    BY <2>1, <2>4 DEF PlacesCounted
  <2>7. Cardinality(issued) = Len(jobs) + Cardinality(InHand) + Len(results)
                              + Cardinality(rounds) + Cardinality(dropped)
    BY DEF PlacesCounted
  <2>8. Cardinality(issued') = Len(jobs') + Cardinality(InHand') + Len(results')
                               + Cardinality(rounds') + Cardinality(dropped')
    <3>1. Len(results') = Len(results) - 1
      BY <2>2
    <3>2. Len(jobs') = Len(jobs) /\ Cardinality(issued') = Cardinality(issued)
          /\ Cardinality(InHand') = Cardinality(InHand)
      BY <2>6
    <3>3. CASE /\ Cardinality(rounds') = Cardinality(rounds) + 1
               /\ Cardinality(dropped') = Cardinality(dropped)
      BY <1>0, <2>7, <3>1, <3>2, <3>3
    <3>4. CASE /\ Cardinality(dropped') = Cardinality(dropped) + 1
               /\ Cardinality(rounds') = Cardinality(rounds)
      BY <1>0, <2>7, <3>1, <3>2, <3>4
    <3> QED
      BY <2>5, <3>3, <3>4
  <2> QED
    BY <2>5, <2>6, <2>8 DEF PlacesCounted
<1> QED
    BY <1>1, <1>2, <1>3, <1>4, <1>5, <1>6, StepMovesOne DEF Dispatching

LEMMA CountInit == Init => PlacesCounted
<1> SUFFICES ASSUME Init PROVE PlacesCounted
    OBVIOUS
<1>1. /\ jobs = <<>> /\ results = <<>> /\ rounds = {} /\ dropped = {} /\ issued = {}
      /\ \A w \in Workers : worker[w].job = NoRound
    BY DEF Init, ChannelsInit, SchedulerInit, WriterInit
<1>2. InHand = {}
    BY <1>1 DEF InHand
<1> QED
    BY <1>1, <1>2, FS_EmptySet DEF PlacesCounted

\* No slot is lost and none is duplicated on its way from the scheduler to the database
\* (scheduler.rs:173-330, worker.rs:53-83, writer.rs:138-204), for any number of checks,
\* workers and reloads, whatever tasks stop, die or are aborted.  The proof adds what the
\* count needs: the slot a check waits for is later than all of its slots dealt with, which
\* a clock that steps back would break.
THEOREM SlotsConserved == Spec /\ MaxBackSteps = 0 => []SlotConservation
<1>1. Init /\ MaxBackSteps = 0 => SlotInv /\ PlacesCounted
    BY SlotInit, CountInit
<1>2. SlotInv /\ PlacesCounted /\ [Next]_vars => (SlotInv /\ PlacesCounted)'
    BY SlotStep, CountStep
<1>3. SlotInv /\ PlacesCounted => SlotConservation
    BY DEF SlotInv, PlacedInv, AllPlaced, PlacesCounted, SlotConservation, SlotsIn, HandSlots
<1> QED
    BY <1>1, <1>2, <1>3, PTL DEF Spec

-----------------------------------------------------------------------------
(***************************************************************************)
(* A drain that ends flushes.                                              *)
(***************************************************************************)

\* A scheduler that runs has its senders, so nothing behind it has ended.
LEMMA SchedulingKeepsDrain ==
    ASSUME TInv, DrainInv, Scheduling
    PROVE  DrainInv'
<1>1. phase # "stopped" /\ UNCHANGED <<jobsOpen, worker, writer, stage>>
  <2>1. ASSUME NEW c \in scan, ConsiderCheck(c)
        PROVE  phase # "stopped" /\ UNCHANGED <<jobsOpen, worker>>
    BY <2>1
    DEF ConsiderCheck, Dispatch, SkipOverlap, SkipConcurrency, SkipQueueFull, Skip,
        QueueClosed, channelVars, TInv, BetweenTicks
  <2>2. CASE RecordSkippedRound
    <3>1. blocked # NoResult /\ UNCHANGED <<jobsOpen, worker, writer, stage>>
      BY <2>2 DEF RecordSkippedRound, Scheduling, writerVars, serveVars
    <3> QED
      BY <3>1 DEF TInv, BetweenTicks
  <2> QED
    BY <2>1, <2>2
    DEF Scheduling, SchedulerStep, TickFires, TickEnds, Reconcile, Pause, StopScheduler,
        channelVars, writerVars, serveVars
<1>2. jobsOpen
    BY <1>1 DEF DrainInv
<1>3. stage # "aborted" => \A w \in Workers : worker[w].state # "exited"
    BY <1>2 DEF DrainInv
<1>4. stage # "aborted" => writer # "exited"
    BY <1>2 DEF DrainInv, ResultsClosed
<1>5. stage # "done"
    BY <1>4 DEF DrainInv
<1> QED
    BY <1>1, <1>2, <1>3, <1>4, <1>5 DEF DrainInv

\* A worker that works is not gone, so neither is the writer.
LEMMA WorkingKeepsDrain ==
    ASSUME TInv, HandsEmpty, DrainInv, NEW w \in Workers, Working(w)
    PROVE  DrainInv'
<1>1. worker \in [Workers -> [state : WorkerStates, job : RoundJob \cup {NoRound}]]
    BY DEF TInv, TypeOK, ChannelsTypeOK
<1>2. /\ worker[w].state \notin {"exited", "dead"}
      /\ UNCHANGED <<jobsOpen, phase, stage, writer>>
      /\ UNCHANGED jobs \/ jobs # <<>>
    BY DEF Working, WorkerStep, TakeJob, FinishRound, SendResult, WorkerExits, WorkerPanics,
           schedulerVars, writerVars, serveVars
<1>3. \A v \in Workers \ {w} : worker'[v] = worker[v]
    BY <1>1 DEF Working, WorkerStep, TakeJob, FinishRound, SendResult, WorkerExits, WorkerPanics
<1>4. ~ReceiverDropped
    BY <1>2 DEF ReceiverDropped, Gone
<1>5. stage # "done" /\ (stage # "aborted" => writer # "exited")
    BY <1>4 DEF DrainInv, ResultsClosed
<1>6. worker'[w].state = "exited" =>
        ~jobsOpen /\ jobs = <<>> /\ jobs' = <<>> /\ worker'[w].job = NoRound
  <2>1. CASE WorkerExits(w)
    <3>1. worker' = [worker EXCEPT ![w].state = "exited"] /\ worker[w].state = "idle"
          /\ ~jobsOpen /\ jobs = <<>> /\ UNCHANGED jobs
      BY <2>1 DEF WorkerExits, Drained
    <3> QED
      BY <1>1, <3>1 DEF HandsEmpty
  <2>2. CASE TakeJob(w) \/ FinishRound(w) \/ SendResult(w) \/ WorkerPanics(w)
    BY <1>1, <2>2 DEF TakeJob, FinishRound, SendResult, WorkerPanics, Idle
  <2> QED
    BY <2>1, <2>2 DEF Working, WorkerStep
<1>7. ASSUME stage # "aborted", NEW v \in Workers, worker'[v].state = "exited"
      PROVE  ~jobsOpen /\ jobs' = <<>> /\ worker'[v].job = NoRound
    BY <1>2, <1>3, <1>6, <1>7 DEF DrainInv
<1> QED
    BY <1>2, <1>5, <1>7 DEF DrainInv

LEMMA DrainStep ==
    ASSUME TInv, HandsEmpty, DrainInv, [Next]_vars
    PROVE  DrainInv'
<1>1. CASE Writing
  <2>1. UNCHANGED <<jobsOpen, jobs, worker, phase, stage>>
    BY <1>1 DEF Writing, WriterStep, WriteRound, WriterExits, EvaluateAlert, channelVars,
                schedulerVars, serveVars
  <2>2. \/ UNCHANGED <<writer, results>>
        \/ writer = "writing" /\ UNCHANGED writer
        \/ writer' = "exited" /\ ResultsClosed /\ results = <<>> /\ UNCHANGED results
    BY <1>1 DEF Writing, WriterStep, WriteRound, Consume, WriterExits, Flushed, EvaluateAlert,
                channelVars
  <2> QED
    BY <2>1, <2>2 DEF DrainInv, ResultsClosed, ReceiverDropped, Gone
<1>2. CASE ClockTicks \/ ClockStepsBack \/ CommitReload \/ HandOverReload
           \/ DiskPressureTurns \/ BeginShutdown \/ UNCHANGED vars
  <2>1. UNCHANGED <<jobsOpen, jobs, results, worker, phase, writer>>
        /\ \/ stage' = stage
           \/ stage \notin {"aborted", "done"} /\ stage' \notin {"aborted", "done"}
    BY <1>2
    DEF ClockTicks, ClockStepsBack, CommitReload, HandOverReload, DiskPressureTurns,
        BeginShutdown, vars, channelVars, schedulerVars, writerVars, serveVars
  <2> QED
    BY <2>1 DEF DrainInv, ResultsClosed, ReceiverDropped, Gone
<1>3. CASE DropSenders
  <2>1. UNCHANGED <<jobs, results, worker, phase, writer>> /\ phase = "stopped"
        /\ ~jobsOpen' /\ stage = "stopping" /\ stage' = "draining"
    BY <1>3 DEF DropSenders, OpenAfterStop, schedulerVars, writerVars
  <2> QED
    BY <2>1 DEF DrainInv, ResultsClosed, ReceiverDropped, Gone
<1>4. CASE DrainCompletes
  <2>1. UNCHANGED <<jobsOpen, jobs, results, worker, phase, writer>>
        /\ ReceiverDropped /\ writer = "exited" /\ stage = "draining" /\ stage' = "done"
    BY <1>4 DEF DrainCompletes, channelVars, schedulerVars, writerVars
  <2> QED
    BY <2>1 DEF DrainInv, ResultsClosed, ReceiverDropped, Gone
<1>5. CASE DrainTimesOut
    BY <1>5 DEF DrainTimesOut, schedulerVars, DrainInv
<1>6. ASSUME NEW w \in Workers, Working(w) PROVE DrainInv'
    BY <1>6, WorkingKeepsDrain
<1> QED
    BY <1>1, <1>2, <1>3, <1>4, <1>5, <1>6, SchedulingKeepsDrain
    DEF Next, ShutdownRequested, FatalExit, Terminated

LEMMA DrainInit == Init => DrainInv
BY DEF Init, ChannelsInit, WriterInit, DrainInv

\* A graceful shutdown flushes (lib.rs:497-560, worker.rs:53-60, writer.rs:138-150): once the
\* tasks are joined and no worker died, every slot dealt with is stored or discarded, for
\* any number of workers and any capacity of the channels, clock steps included.
THEOREM ShutdownFlushes == Spec => []DrainFlushes
<1> DEFINE IInv == TInv /\ PlacedInv /\ DrainInv
<1>1. Init => IInv
    BY TypeInit, PlacedInit, DrainInit
<1>2. IInv /\ [Next]_vars => IInv'
    BY TypeStep, PlacedStep, DrainStep DEF PlacedInv
<1>3. IInv => DrainFlushes
  <2> SUFFICES ASSUME IInv, stage = "done", \A w \in Workers : worker[w].state # "dead"
               PROVE  issued = SlotsOf(rounds) \cup SlotsOf(dropped)
    BY DEF DrainFlushes
  <2>1. \A w \in Workers : worker[w].state = "exited"
    BY DEF DrainInv, ReceiverDropped, Gone
  <2>2. jobs = <<>> /\ (\A w \in Workers : worker[w].job = NoRound) /\ results = <<>>
    BY <2>1, WorkersAssumption DEF DrainInv
  <2>3. InHand = {}
    BY <2>2 DEF InHand
  <2>4. HandSlots = {} /\ SlotsIn(jobs) = {} /\ SlotsIn(results) = {}
    BY <2>2, <2>3, EmptyChannel DEF HandSlots
  <2> QED
    BY <2>4 DEF PlacedInv, AllPlaced
<1> QED
    BY <1>1, <1>2, <1>3, PTL DEF Spec

-----------------------------------------------------------------------------
(***************************************************************************)
(* The drain.  That a shutdown ends is a liveness property; what it rests  *)
(* on is not: while serve joins the tasks, some task that is left can take *)
(* a step, and every step they take uses up something there is a finite    *)
(* amount of.  The panics and storage errors of the environment do not     *)
(* change that, only its clock may go on for ever.                         *)
(***************************************************************************)

Doing(state) == {w \in Workers : worker[w].state = state}

\* What is left to do, in steps: a job has to be taken, finished, sent, stored and evaluated.
Weigh(queued, probing, sending, idle, reported, rest) ==
    5 * queued + 5 * probing + 4 * sending + idle + 2 * reported + rest

\* The alerts to evaluate, and the writer's exit.
Rest == Len(alerts) + (IF writer = "writing" THEN 1 ELSE 0)

Left ==
    Weigh(Len(jobs), Cardinality(Doing("probing")), Cardinality(Doing("sending")),
          Cardinality(Doing("idle")), Len(results), Rest)

\* A worker has a step: it takes a job, finishes its round, sends its result, or exits.
WorkerCanStep(w) ==
    \/ worker[w].state = "idle" /\ (jobs # <<>> \/ ~jobsOpen)
    \/ worker[w].state = "probing"
    \/ worker[w].state = "sending" /\ HasRoom(results, ResultCap)

\* The writer has one: it takes a result, or exits when no sender is left.
WriterCanStep == writer = "writing" /\ (results # <<>> \/ ResultsClosed)

Joined == ReceiverDropped /\ writer = "exited" /\ alerts = <<>>

\* The drain is never stuck, not even when every worker waits for room in the result channel.
DrainCanGoOn ==
    stage = "draining" =>
        Joined \/ (\E w \in Workers : WorkerCanStep(w)) \/ WriterCanStep \/ alerts # <<>>

drainVars == <<jobs, results, worker, alerts, writer>>

\* It never takes back a step: what is left grows less with each of them.
DrainWindsDown ==
    stage = "draining" /\ stage' = "draining" => UNCHANGED drainVars \/ Left' < Left

DrainOpen == stage = "draining" => ~jobsOpen

LEMMA DrainOpenStep == DrainOpen /\ [Next]_vars => DrainOpen'
<1> SUFFICES ASSUME DrainOpen, [Next]_vars PROVE DrainOpen'
    OBVIOUS
<1>1. CASE DropSenders
    BY <1>1 DEF DropSenders, OpenAfterStop, DrainOpen
<1>2. CASE Scheduling
  <2>1. ASSUME NEW c \in scan, ConsiderCheck(c) PROVE UNCHANGED jobsOpen
    BY <2>1 DEF ConsiderCheck, Dispatch, SkipOverlap, SkipConcurrency, SkipQueueFull, Skip,
                QueueClosed, channelVars
  <2>2. UNCHANGED <<stage, jobsOpen>>
    BY <1>2, <2>1
    DEF Scheduling, SchedulerStep, TickFires, TickEnds, RecordSkippedRound, Reconcile,
        Pause, StopScheduler, channelVars, serveVars
  <2> QED
    BY <2>2 DEF DrainOpen
<1>3. ASSUME NEW w \in Workers, Working(w) PROVE DrainOpen'
    BY <1>3
    DEF Working, WorkerStep, TakeJob, FinishRound, SendResult, WorkerExits, WorkerPanics,
        serveVars, DrainOpen
<1>4. CASE Writing
    BY <1>4 DEF Writing, WriterStep, WriteRound, WriterExits, EvaluateAlert, channelVars,
                serveVars, DrainOpen
<1>5. CASE ClockTicks \/ ClockStepsBack \/ DiskPressureTurns \/ UNCHANGED vars
    BY <1>5 DEF ClockTicks, ClockStepsBack, DiskPressureTurns, vars, channelVars, serveVars,
                DrainOpen
<1>6. CASE CommitReload \/ HandOverReload \/ BeginShutdown \/ DrainCompletes \/ DrainTimesOut
    BY <1>6 DEF CommitReload, HandOverReload, BeginShutdown, DrainCompletes, DrainTimesOut,
                DrainOpen
<1> QED
    BY <1>1, <1>2, <1>3, <1>4, <1>5, <1>6 DEF Next, ShutdownRequested, FatalExit, Terminated

LEMMA DoingCounts ==
    ASSUME NEW u
    PROVE  IsFiniteSet(Doing(u)) /\ Cardinality(Doing(u)) \in Nat
BY WorkersAssumption, FS_Subset, FS_CardinalityType DEF Doing

\* A worker that goes from one state to another counts there instead of here.
LEMMA DoingMoves ==
    ASSUME NEW w \in Workers, NEW s, NEW t, s # t,
           worker[w].state = s, worker'[w].state = t,
           \A v \in Workers \ {w} : worker'[v] = worker[v]
    PROVE  /\ Cardinality(Doing(s)') = Cardinality(Doing(s)) - 1
           /\ Cardinality(Doing(t)') = Cardinality(Doing(t)) + 1
           /\ \A u : u # s /\ u # t => Doing(u)' = Doing(u)
<1>1. Doing(s)' = Doing(s) \ {w} /\ w \in Doing(s)
    BY DEF Doing
<1>2. Doing(t)' = Doing(t) \cup {w} /\ w \notin Doing(t)
    BY DEF Doing
<1>3. ASSUME NEW u, u # s, u # t PROVE Doing(u)' = Doing(u)
    BY <1>3 DEF Doing
<1>4. IsFiniteSet(Doing(s)) /\ IsFiniteSet(Doing(t))
    BY DoingCounts
<1>5. Cardinality(Doing(s) \ {w}) = Cardinality(Doing(s)) - 1
    BY <1>1, <1>4, OneLess
<1>6. Cardinality(Doing(t) \cup {w}) = Cardinality(Doing(t)) + 1
    BY <1>2, <1>4, OneMore
<1> QED
    BY <1>1, <1>2, <1>3, <1>5, <1>6

\* Each step of a task takes a weight off and puts less of it elsewhere.
LEMMA StepsWeigh ==
    ASSUME NEW j \in Int, NEW p \in Int, NEW s \in Int, NEW i \in Int, NEW r \in Int,
           NEW a \in Int
    PROVE  /\ Weigh(j - 1, p + 1, s, i - 1, r, a) < Weigh(j, p, s, i, r, a)
           /\ Weigh(j, p - 1, s + 1, i, r, a) < Weigh(j, p, s, i, r, a)
           /\ Weigh(j, p, s - 1, i + 1, r + 1, a) < Weigh(j, p, s, i, r, a)
           /\ Weigh(j, p, s, i - 1, r, a) < Weigh(j, p, s, i, r, a)
           /\ Weigh(j, p - 1, s, i, r, a) < Weigh(j, p, s, i, r, a)
           /\ Weigh(j, p, s, i, r - 1, a) < Weigh(j, p, s, i, r, a)
           /\ Weigh(j, p, s, i, r - 1, a + 1) < Weigh(j, p, s, i, r, a)
           /\ Weigh(j, p, s, i, r, a - 1) < Weigh(j, p, s, i, r, a)
BY DEF Weigh

LEMMA WeightTypes ==
    ASSUME TInv
    PROVE  /\ Len(jobs) \in Int /\ Len(results) \in Int /\ Len(alerts) \in Int /\ Rest \in Int
           /\ Cardinality(Doing("probing")) \in Int
           /\ Cardinality(Doing("sending")) \in Int
           /\ Cardinality(Doing("idle")) \in Int
<1>1. Len(jobs) \in Nat /\ Len(results) \in Nat /\ Len(alerts) \in Nat
    BY DEF TInv, TypeOK, ChannelsTypeOK, WriterTypeOK
<1>2. Rest \in Int
    BY <1>1 DEF Rest
<1> QED
    BY <1>1, <1>2, DoingCounts

\* A worker's step leaves less to do.
LEMMA WorkingWinds ==
    ASSUME TInv, NEW w \in Workers, Working(w)
    PROVE  Left' < Left
<1> DEFINE p == Cardinality(Doing("probing"))
           s == Cardinality(Doing("sending"))
           i == Cardinality(Doing("idle"))
           j == Len(jobs)
           r == Len(results)
<1>1. /\ worker \in [Workers -> [state : WorkerStates, job : RoundJob \cup {NoRound}]]
      /\ jobs \in Seq(RoundJob) /\ results \in Seq(RoundResult)
    BY DEF TInv, TypeOK, ChannelsTypeOK
<1>2. p \in Int /\ s \in Int /\ i \in Int /\ j \in Int /\ r \in Int /\ Rest \in Int
    BY WeightTypes
<1>3. Left = Weigh(j, p, s, i, r, Rest) /\ Left' = Weigh(j', p', s', i', r', Rest')
    BY DEF Left
<1>4. \A v \in Workers \ {w} : worker'[v] = worker[v]
    BY <1>1 DEF Working, WorkerStep, TakeJob, FinishRound, SendResult, WorkerExits, WorkerPanics
<1>5. Rest' = Rest
    BY DEF Working, writerVars, Rest
<1>6. CASE TakeJob(w)
  <2>1. worker[w].state = "idle" /\ worker'[w].state = "probing" /\ UNCHANGED results
        /\ jobs # <<>> /\ jobs' = Tail(jobs)
    BY <1>1, <1>6 DEF TakeJob
  <2>2. i' = i - 1 /\ p' = p + 1 /\ s' = s
    BY <1>4, <2>1, DoingMoves
  <2>3. j' = j - 1 /\ r' = r
    BY <1>1, <2>1
  <2> HIDE DEF p, s, i, j, r
  <2> QED
    BY <1>2, <1>3, <1>5, <2>2, <2>3, StepsWeigh
<1>7. CASE FinishRound(w)
  <2>1. worker[w].state = "probing" /\ worker'[w].state = "sending" /\ UNCHANGED <<jobs, results>>
    BY <1>1, <1>7 DEF FinishRound
  <2>2. p' = p - 1 /\ s' = s + 1 /\ i' = i
    BY <1>4, <2>1, DoingMoves
  <2>3. j' = j /\ r' = r
    BY <2>1
  <2> HIDE DEF p, s, i, j, r
  <2> QED
    BY <1>2, <1>3, <1>5, <2>2, <2>3, StepsWeigh
<1>8. CASE SendResult(w)
  <2>1. worker[w].state = "sending" /\ worker'[w].state = "idle" /\ UNCHANGED jobs
        /\ results' = Append(results, Executed(worker[w].job))
    BY <1>1, <1>8 DEF SendResult, Idle
  <2>2. s' = s - 1 /\ i' = i + 1 /\ p' = p
    BY <1>4, <2>1, DoingMoves
  <2>3. j' = j /\ r' = r + 1
    BY <1>1, <2>1
  <2> HIDE DEF p, s, i, j, r
  <2> QED
    BY <1>2, <1>3, <1>5, <2>2, <2>3, StepsWeigh
<1>9. CASE WorkerExits(w)
  <2>1. worker[w].state = "idle" /\ worker'[w].state = "exited" /\ UNCHANGED <<jobs, results>>
    BY <1>1, <1>9 DEF WorkerExits
  <2>2. i' = i - 1 /\ p' = p /\ s' = s
    BY <1>4, <2>1, DoingMoves
  <2>3. j' = j /\ r' = r
    BY <2>1
  <2> HIDE DEF p, s, i, j, r
  <2> QED
    BY <1>2, <1>3, <1>5, <2>2, <2>3, StepsWeigh
<1>10. CASE WorkerPanics(w)
  <2>1. worker[w].state = "probing" /\ worker'[w].state = "dead" /\ UNCHANGED <<jobs, results>>
    BY <1>1, <1>10 DEF WorkerPanics
  <2>2. p' = p - 1 /\ s' = s /\ i' = i
    BY <1>4, <2>1, DoingMoves
  <2>3. j' = j /\ r' = r
    BY <2>1
  <2> HIDE DEF p, s, i, j, r
  <2> QED
    BY <1>2, <1>3, <1>5, <2>2, <2>3, StepsWeigh
<1> QED
    BY <1>6, <1>7, <1>8, <1>9, <1>10 DEF Working, WorkerStep

\* So does one of the writer, or of the evaluator behind it.
LEMMA WritingWinds ==
    ASSUME TInv, Writing
    PROVE  Left' < Left
<1> DEFINE p == Cardinality(Doing("probing"))
           s == Cardinality(Doing("sending"))
           i == Cardinality(Doing("idle"))
           j == Len(jobs)
           r == Len(results)
<1>1. /\ results \in Seq(RoundResult) /\ alerts \in Seq(Checks \X Slots)
      /\ Len(alerts) \in Nat
    BY DEF TInv, TypeOK, ChannelsTypeOK, WriterTypeOK
<1>2. p \in Int /\ s \in Int /\ i \in Int /\ j \in Int /\ r \in Int /\ Rest \in Int
    BY WeightTypes
<1>3. Left = Weigh(j, p, s, i, r, Rest) /\ Left' = Weigh(j', p', s', i', r', Rest')
    BY DEF Left
<1>4. p' = p /\ s' = s /\ i' = i /\ j' = j
    BY DEF Writing, WriterStep, WriteRound, WriterExits, EvaluateAlert, channelVars, Doing
<1>5. CASE WriteRound
  <2>1. results # <<>> /\ results' = Tail(results) /\ UNCHANGED writer
    BY <1>5 DEF WriteRound, Consume
  <2>2. UNCHANGED alerts \/ \E q \in Checks \X Slots : alerts' = Append(alerts, q)
    <3>1. Head(results) \in RoundResult
      BY <1>1, <2>1
    <3>2. SlotOf(Head(results)) \in Checks \X Slots
      BY <3>1 DEF RoundResult, SlotOf
    <3>3. UNCHANGED alerts \/ alerts' = Append(alerts, SlotOf(Head(results)))
      BY <1>5 DEF WriteRound, DiscardInactive, RejectDuplicate, InsertFails, UpsertFails,
                  StoreRound, DropResult
    <3> QED
      BY <3>2, <3>3
  <2>3. r' = r - 1
    BY <1>1, <2>1
  <2>4. Len(alerts') = Len(alerts) \/ Len(alerts') = Len(alerts) + 1
    BY <1>1, <2>2
  <2>5. Rest' = Rest \/ Rest' = Rest + 1
    BY <1>1, <2>1, <2>4 DEF Rest
  <2> HIDE DEF p, s, i, j, r
  <2> QED
    BY <1>2, <1>3, <1>4, <2>3, <2>5, StepsWeigh
<1>6. CASE WriterExits
  <2>1. Rest' = Rest - 1 /\ r' = r
    BY <1>1, <1>6 DEF WriterExits, channelVars, Rest
  <2> HIDE DEF p, s, i, j, r
  <2> QED
    BY <1>2, <1>3, <1>4, <2>1, StepsWeigh
<1>7. CASE EvaluateAlert
  <2>1. alerts # <<>> /\ alerts' = Tail(alerts) /\ UNCHANGED <<results, writer>>
    BY <1>7 DEF EvaluateAlert, channelVars
  <2>2. Len(alerts') = Len(alerts) - 1
    BY <1>1, <2>1
  <2>3. Rest' = Rest - 1 /\ r' = r
    BY <1>1, <2>1, <2>2 DEF Rest
  <2> HIDE DEF p, s, i, j, r
  <2> QED
    BY <1>2, <1>3, <1>4, <2>3, StepsWeigh
<1> QED
    BY <1>5, <1>6, <1>7 DEF Writing, WriterStep

LEMMA WindsStep ==
    ASSUME TInv, DrainInv, DrainOpen, [Next]_vars
    PROVE  DrainWindsDown
<1> SUFFICES ASSUME stage = "draining", stage' = "draining"
             PROVE  UNCHANGED drainVars \/ Left' < Left
    BY DEF DrainWindsDown
<1>1. phase = "stopped"
    BY DEF DrainInv, DrainOpen
<1>2. ~Scheduling
  <2>1. scan = {} /\ blocked = NoResult
    BY <1>1 DEF TInv, BetweenTicks
  <2> QED
    BY <1>1, <2>1
    DEF Scheduling, SchedulerStep, TickFires, TickEnds, RecordSkippedRound, Reconcile, Pause,
        StopScheduler
<1>3. CASE ClockTicks \/ ClockStepsBack \/ UNCHANGED vars
    BY <1>3 DEF ClockTicks, ClockStepsBack, vars, channelVars, writerVars, drainVars
<1>4. ~(CommitReload \/ HandOverReload \/ DiskPressureTurns \/ BeginShutdown \/ DropSenders
        \/ DrainCompletes \/ DrainTimesOut)
    BY DEF CommitReload, HandOverReload, DiskPressureTurns, BeginShutdown, DropSenders,
           DrainCompletes, DrainTimesOut
<1> QED
    BY <1>2, <1>3, <1>4, WorkingWinds, WritingWinds
    DEF Next, ShutdownRequested, FatalExit, Terminated, Stopped

\* Somebody can go on: when every worker waits for room, there is a result to take, and a
\* writer to take it, since it does not exit while a worker holds a sender.
LEMMA CanGoOn ==
    ASSUME TInv, DrainInv, DrainOpen
    PROVE  DrainCanGoOn
<1> SUFFICES ASSUME stage = "draining", ~Joined, alerts = <<>>, ~WriterCanStep
             PROVE  \E w \in Workers : WorkerCanStep(w)
    BY DEF DrainCanGoOn
<1>1. ~jobsOpen /\ writer \in {"writing", "exited"}
      /\ (writer = "exited" => ReceiverDropped /\ results = <<>>)
    BY DEF DrainOpen, DrainInv, ResultsClosed, TInv, TypeOK, WriterTypeOK
<1>2. writer = "writing" => results = <<>> /\ ~ReceiverDropped
    BY <1>1 DEF WriterCanStep, ResultsClosed
<1>3. results = <<>> /\ ~ReceiverDropped
    BY <1>1, <1>2 DEF Joined
<1>4. PICK w \in Workers : ~Gone(w)
    BY <1>3 DEF ReceiverDropped
<1>5. worker[w].state \in {"idle", "probing", "sending"}
    BY <1>4 DEF Gone, WorkerStates, TInv, TypeOK, ChannelsTypeOK
<1>6. HasRoom(results, ResultCap)
    BY <1>3, CapsAssumption DEF HasRoom
<1> QED
    BY <1>1, <1>5, <1>6 DEF WorkerCanStep

\* A shutdown cannot hang (lib.rs:497-560, worker.rs:53-83, writer.rs:138-150): as long as
\* the tasks are not joined one of them has a step, whatever the channels hold and however
\* small they are, and each step leaves less to do, whatever panics or fails.  ShutdownEnds
\* is this together with the fairness of the runtime.
THEOREM DrainEnds == Spec => []DrainCanGoOn /\ [][DrainWindsDown]_vars
<1> DEFINE IInv == TInv /\ PlacedInv /\ DrainInv /\ DrainOpen
<1>1. Init => IInv
    BY TypeInit, PlacedInit, DrainInit DEF Init, DrainOpen
<1>2. IInv /\ [Next]_vars => IInv'
    BY TypeStep, PlacedStep, DrainStep, DrainOpenStep DEF PlacedInv
<1>3. IInv => DrainCanGoOn
    BY CanGoOn
<1>4. IInv /\ [Next]_vars => DrainWindsDown
    BY WindsStep
<1> QED
    BY <1>1, <1>2, <1>3, <1>4, PTL DEF Spec

-----------------------------------------------------------------------------
(***************************************************************************)
(* The grid of a check.                                                    *)
(***************************************************************************)

\* A multiple of the interval and an offset below it: the offset is what is
\* left over.
LEMMA OffsetIsRest ==
    ASSUME NEW q \in Nat, NEW i \in Nat, NEW o \in Nat, o < i
    PROVE  (i * q + o) % i = o
<1> DEFINE x == i * q + o
           p == x \div i
           r == x % i
<1>1. i > 0 /\ i * q \in Nat
    OBVIOUS
<1>2. x \in Nat
    BY <1>1
<1>3. p \in Nat /\ r \in Nat /\ r < i /\ x = i * p + r
    BY <1>1, <1>2
<1>4. i * q + o = i * p + r
    BY <1>3
<1> HIDE DEF p, r, x
<1>5. CASE p > q
  <2>1. p - q - 1 \in Nat /\ i * (p - q - 1) \in Nat
    BY <1>3, <1>5
  <2>2. i * p = i * q + i + i * (p - q - 1)
    BY <1>1, <1>3, <2>1
  <2> QED
    BY <1>1, <1>3, <1>4, <2>1, <2>2
<1>6. CASE p < q
  <2>1. q - p - 1 \in Nat /\ i * (q - p - 1) \in Nat /\ i * p \in Nat
    BY <1>3, <1>6
  <2>2. i * q = i * p + i + i * (q - p - 1)
    BY <1>1, <1>3, <2>1
  <2> QED
    BY <1>1, <1>3, <1>4, <2>1, <2>2
<1>7. CASE p = q
    BY <1>1, <1>3, <1>4, <1>7 DEF r, x
<1> QED
    BY <1>3, <1>5, <1>6, <1>7

LEMMA RestOf ==
    ASSUME NEW t \in Nat, NEW i \in Nat, i > 0
    PROVE  t % i \in Nat /\ \E q \in Nat : t = i * q + (t % i)
<1> DEFINE q == t \div i
<1>1. q \in Nat /\ t = i * q + (t % i) /\ t % i \in Nat
    OBVIOUS
<1> HIDE DEF q
<1> QED
    BY <1>1

LEMMA RestIsLess ==
    ASSUME NEW t \in Nat, NEW i \in Nat, i > 0
    PROVE  t % i < i
OBVIOUS

\* The next slot of a grid is an interval later, and none is between.
LEMMA GridStep ==
    ASSUME NEW t \in Nat, NEW i \in Nat, i > 0
    PROVE  /\ (t + i) % i = t % i
           /\ \A u \in Nat : t < u /\ u < t + i => u % i # t % i
<1>1. PICK p \in Nat : t = i * p + (t % i)
    BY RestOf
<1> DEFINE r == t % i
<1>2. r \in Nat /\ r < i
    BY RestOf, RestIsLess
<1>3. t = i * p + r
    BY <1>1
<1>4. \A u \in Nat : u % i = t % i => \E q \in Nat : u = i * q + r
    BY RestOf
<1>5. (t + i) % i = r
  <2> HIDE DEF r
  <2>1. p + 1 \in Nat /\ i * (p + 1) = i * p + i
    OBVIOUS
  <2>2. t + i = i * (p + 1) + r
    BY <1>2, <1>3, <2>1
  <2> QED
    BY <1>2, <2>1, <2>2, OffsetIsRest
<1>6. ASSUME NEW u \in Nat, NEW q \in Nat, t < u, u < t + i, u = i * q + r PROVE FALSE
  <2> HIDE DEF r
  <2>1. CASE q <= p
    <3>1. p - q \in Nat /\ i * (p - q) \in Nat /\ i * p = i * q + i * (p - q)
      BY <2>1
    <3>2. i * q \in Nat
      OBVIOUS
    <3> QED
      BY <1>2, <1>3, <1>6, <3>1, <3>2
  <2>2. CASE q > p
    <3>1. q - p - 1 \in Nat /\ i * (q - p - 1) \in Nat
          /\ i * q = i * p + i + i * (q - p - 1)
      BY <2>2
    <3>2. i * p \in Nat
      OBVIOUS
    <3> QED
      BY <1>2, <1>3, <1>6, <3>1, <3>2
  <2> QED
    BY <2>1, <2>2
<1> HIDE DEF r
<1> QED
    BY <1>4, <1>5, <1>6 DEF r

LEMMA NextAlignedIsAligned ==
    ASSUME NEW after \in Nat, NEW c \in Checks, NEW i \in Intervals
    PROVE  IsAligned(NextAligned(after, c, i), c, i)
<1>1. i \in Nat /\ i > 0 /\ Offset[c][i] \in Nat /\ Offset[c][i] < i
    BY IntervalsAssumption, OffsetAssumption
<1> DEFINE q == after \div i
           o == Offset[c][i]
<1>2. q \in Nat
    BY <1>1
<1> HIDE DEF q
<1>3. q * i = i * q /\ q * i + o + i = i * (q + 1) + o /\ q + 1 \in Nat
    BY <1>1, <1>2
<1>4. (q * i + o) % i = o /\ (q * i + o + i) % i = o
    BY <1>1, <1>2, <1>3, OffsetIsRest
<1>5. NextAligned(after, c, i) \in {q * i + o, q * i + o + i}
    BY DEF NextAligned, q
<1> QED
    BY <1>4, <1>5 DEF IsAligned

-----------------------------------------------------------------------------
(***************************************************************************)
(* The slots of a check that every configuration has.                      *)
(***************************************************************************)
Known == ReloadConfigs \cup {InitialConfig}

\* No other configuration is on its way to the scheduler.
ConfigsKnown ==
    /\ active \in Known /\ pending \in Known
    /\ \A i \in DOMAIN commands : commands[i].type = "reconcile" => commands[i].checks \in Known

\* The slot that waits to be recorded is the one its check waits for.
BlockedIsDue ==
    blocked # NoResult => blocked.slot = nextDue[blocked.check] /\ blocked.check \notin scan

\* Before its startup round a check has had no slot; after it, it waits for one
\* of its grid, and has had each of the grid since its first.
OnGrid(c) ==
    LET i == InitialConfig[c] IN
    /\ IF c \in startup THEN nextDue[c] = 0 /\ \A s \in Slots : <<c, s>> \notin issued
       ELSE IsAligned(nextDue[c], c, i)
    /\ \A s \in Slots \ {0}, t \in Slots :
        <<c, s>> \in issued /\ s <= t /\ t < nextDue[c] /\ IsAligned(t, c, i) => <<c, t>> \in issued

GridInv ==
    /\ ConfigsKnown /\ BlockedIsDue
    /\ \A c \in DOMAIN InitialConfig : Steady(c) => OnGrid(c)

LEMMA SteadyIsActive ==
    ASSUME ConfigsKnown, NEW c \in DOMAIN InitialConfig, Steady(c)
    PROVE  c \in DOMAIN active /\ active[c] = InitialConfig[c]
BY DEF ConfigsKnown, Known, Steady

LEMMA CommandsAppended ==
    ASSUME TInv, NEW m \in Commands, commands' = Append(commands, m),
           \A i \in DOMAIN commands :
                commands[i].type = "reconcile" => commands[i].checks \in Known,
           m.type = "reconcile" => m.checks \in Known
    PROVE  \A i \in DOMAIN commands' :
                commands'[i].type = "reconcile" => commands'[i].checks \in Known
<1>1. commands \in Seq(Commands)
    BY DEF TInv, TypeOK, SchedulerTypeOK
<1> QED
    BY <1>1

LEMMA ConfigsStep == TInv /\ ConfigsKnown /\ [Next]_vars => ConfigsKnown'
<1> SUFFICES ASSUME TInv, ConfigsKnown, [Next]_vars PROVE ConfigsKnown'
    OBVIOUS
<1>0. commands \in Seq(Commands)
    BY DEF TInv, TypeOK, SchedulerTypeOK
<1>1. ASSUME UNCHANGED <<active, pending, commands>> PROVE ConfigsKnown'
    BY <1>1 DEF ConfigsKnown
<1>2. CASE Scheduling
  <2>1. CASE Reconcile
    <3>1. /\ active' = commands[1].checks /\ commands[1].type = "reconcile"
          /\ commands' = Tail(commands) /\ pending' = pending
      BY <1>0, <1>2, <2>1 DEF Reconcile, Scheduling, serveVars
    <3>2. 1 \in DOMAIN commands
      BY <1>0, <2>1 DEF Reconcile
    <3>3. \A i \in DOMAIN commands' : i + 1 \in DOMAIN commands /\ commands'[i] = commands[i + 1]
      BY <1>0, <2>1, <3>1 DEF Reconcile
    <3> QED
      BY <3>1, <3>2, <3>3 DEF ConfigsKnown
  <2>2. CASE Pause
    <3>1. commands' = Tail(commands) /\ pending' = pending /\ active' = active
      BY <1>2, <2>2 DEF Pause, Scheduling, serveVars
    <3>2. \A i \in DOMAIN commands' : i + 1 \in DOMAIN commands /\ commands'[i] = commands[i + 1]
      BY <1>0, <2>2, <3>1 DEF Pause
    <3> QED
      BY <3>1, <3>2 DEF ConfigsKnown
  <2>3. CASE TickFires \/ TickEnds \/ RecordSkippedRound \/ StopScheduler
    BY <1>1, <1>2, <2>3
    DEF TickFires, TickEnds, RecordSkippedRound, StopScheduler, Scheduling, serveVars
  <2>4. ASSUME NEW c \in scan, ConsiderCheck(c) PROVE ConfigsKnown'
    BY <1>1, <1>2, <2>4
    DEF ConsiderCheck, Dispatch, SkipOverlap, SkipConcurrency, SkipQueueFull, Skip, QueueClosed,
        Scheduling, serveVars
  <2> QED
    BY <1>2, <2>1, <2>2, <2>3, <2>4 DEF Scheduling, SchedulerStep
<1>3. CASE CommitReload
    BY <1>3 DEF CommitReload, ConfigsKnown, Known, schedulerVars
<1>4. CASE HandOverReload
  <2>1. active' = active /\ pending' = pending /\ pending \in Configurations
    BY <1>4 DEF HandOverReload, TInv, TypeOK, ServeTypeOK
  <2>2. CASE commands' = commands
    BY <1>1, <2>1, <2>2
  <2>3. CASE commands' = Append(commands, ReconcileCommand(pending))
    <3>1. ReconcileCommand(pending) \in Commands /\ ReconcileCommand(pending).checks = pending
      BY <2>1, CommandsAreCommands DEF ReconcileCommand
    <3> QED
      BY <2>1, <2>3, <3>1, CommandsAppended DEF ConfigsKnown
  <2> QED
    BY <1>4, <2>2, <2>3 DEF HandOverReload
<1>5. CASE DiskPressureTurns
  <2>1. UNCHANGED <<active, pending>> /\ commands' = Append(commands, PauseCommand(~pressure))
    BY <1>5 DEF DiskPressureTurns
  <2>2. PauseCommand(~pressure) \in Commands /\ PauseCommand(~pressure).type = "pause"
    BY CommandsAreCommands DEF PauseCommand
  <2> QED
    BY <2>1, <2>2, CommandsAppended DEF ConfigsKnown
<1>6. CASE ClockTicks \/ ClockStepsBack \/ Writing \/ BeginShutdown \/ DropSenders
           \/ DrainCompletes \/ DrainTimesOut
    BY <1>1, <1>6
    DEF ClockTicks, ClockStepsBack, Writing, BeginShutdown, DropSenders, DrainCompletes,
        DrainTimesOut, schedulerVars, serveVars
<1>7. ASSUME NEW w \in Workers, Working(w) PROVE ConfigsKnown'
    BY <1>1, <1>7 DEF Working, schedulerVars, serveVars
<1>8. CASE UNCHANGED vars
    BY <1>1, <1>8 DEF vars, schedulerVars, serveVars
<1> QED
    BY <1>2, <1>3, <1>4, <1>5, <1>6, <1>7, <1>8 DEF Next, ShutdownRequested, FatalExit, Terminated

\* A slot dealt with moves its check along its grid, and no other.
LEMMA AdvanceKeepsGrid ==
    ASSUME TInv, ConfigsKnown, NEW c \in DOMAIN active, Advance(c, nextDue[c]),
           NEW d \in DOMAIN InitialConfig, Steady(d), OnGrid(d)
    PROVE  OnGrid(d)'
<1> DEFINE i == InitialConfig[d]
<1>1. d \in DOMAIN active /\ active[d] = i /\ d \in Checks /\ i \in Intervals
    BY SteadyIsActive, ConfigurationIsFunction DEF TInv, TypeOK, SchedulerTypeOK
<1>2. /\ nextDue \in [DOMAIN active -> Nat] /\ clockRead \in Nat /\ i \in Nat /\ i > 0
      /\ issued \subseteq Checks \X Nat
  <2>1. i \in Nat /\ i > 0
    <3> HIDE DEF i
    <3> QED
        BY <1>1, IntervalsAssumption
  <2>2. nextDue \in [DOMAIN active -> Slots] /\ clockRead \in Nat
    BY DEF TInv, TypeOK, SchedulerTypeOK
  <2>3. issued \subseteq Checks \X Slots
    BY DEF TInv, TypeOK, SchedulerTypeOK
  <2> QED
    BY <2>1, <2>2, <2>3 DEF Slots
<1>3. /\ nextDue' = [nextDue EXCEPT ![c] = NextDueAfterAttempt(c, nextDue[c])]
      /\ startup' = startup \ {c} /\ issued' = issued \cup {<<c, nextDue[c]>>}
    BY DEF Advance
<1>4. CASE d # c
    BY <1>1, <1>2, <1>3, <1>4 DEF OnGrid
<1>5. CASE d = c /\ c \in startup
  <2>1. nextDue[d] = 0 /\ \A s \in Nat : <<d, s>> \notin issued
    BY <1>5 DEF OnGrid, Slots
  <2>2. nextDue'[d] = NextAligned(clockRead, d, i) /\ d \notin startup'
    BY <1>1, <1>2, <1>3, <1>5 DEF NextDueAfterAttempt
  <2>3. IsAligned(nextDue'[d], d, i)
    BY <1>1, <1>2, <2>2, NextAlignedIsAligned
  <2>4. \A s \in Slots \ {0} : <<d, s>> \notin issued'
    BY <1>3, <1>5, <2>1 DEF Slots
  <2> QED
    BY <2>2, <2>3, <2>4 DEF OnGrid
<1>6. CASE d = c /\ c \notin startup
  <2>1. nextDue[d] \in Nat /\ IsAligned(nextDue[d], d, i) /\ d \notin startup'
    BY <1>1, <1>2, <1>3, <1>6 DEF OnGrid
  <2>2. nextDue'[d] = nextDue[d] + i
    BY <1>1, <1>2, <1>3, <1>6 DEF NextDueAfterAttempt
  <2>3. /\ (nextDue[d] + i) % i = nextDue[d] % i
        /\ \A u \in Nat : nextDue[d] < u /\ u < nextDue[d] + i => u % i # nextDue[d] % i
    BY <1>2, <2>1, GridStep
  <2>4. IsAligned(nextDue'[d], d, i)
    BY <2>1, <2>2, <2>3 DEF IsAligned
  <2>5. ASSUME NEW s \in Slots \ {0}, NEW t \in Slots, <<d, s>> \in issued', s <= t,
               t < nextDue'[d], IsAligned(t, d, i)
        PROVE  <<d, t>> \in issued'
    <3>1. s \in Nat /\ t \in Nat
      BY DEF Slots
    <3>2. ~(nextDue[d] < t)
      BY <2>1, <2>2, <2>3, <2>5, <3>1 DEF IsAligned
    <3>3. CASE t = nextDue[d]
      BY <1>3, <1>6, <3>3
    <3>4. CASE t < nextDue[d]
      <4>1. <<d, s>> # <<c, nextDue[c]>>
        BY <1>6, <2>1, <2>5, <3>1, <3>4
      <4>2. <<d, s>> \in issued
        BY <1>3, <2>5, <4>1
      <4>3. <<d, t>> \in issued
        BY <2>5, <3>4, <4>2 DEF OnGrid
      <4> QED
        BY <1>3, <4>3
    <3> QED
      BY <2>1, <3>1, <3>2, <3>3, <3>4
  <2> QED
    BY <2>1, <2>4, <2>5 DEF OnGrid
<1> QED
    BY <1>4, <1>5, <1>6

LEMMA GridStays ==
    ASSUME UNCHANGED <<nextDue, startup, issued>>, NEW c, OnGrid(c)
    PROVE  OnGrid(c)'
BY DEF OnGrid

LEMMA SchedulingKeepsGrid ==
    ASSUME TInv, GridInv, Scheduling
    PROVE  BlockedIsDue' /\ \A c \in DOMAIN InitialConfig : Steady(c) => OnGrid(c)'
<1>1. /\ nextDue \in [DOMAIN active -> Slots] /\ scan \in SUBSET DOMAIN active
      /\ blocked # NoResult => blocked.check \in DOMAIN active
      /\ phase # "scan" => scan = {} /\ blocked = NoResult
    BY DEF TInv, TypeOK, SchedulerTypeOK, BetweenTicks
<1>2. CASE TickFires \/ TickEnds \/ Pause \/ StopScheduler
  <2>1. BlockedIsDue'
    BY <1>1, <1>2 DEF TickFires, TickEnds, Pause, StopScheduler, BlockedIsDue, GridInv
  <2> QED
    BY <1>2, <2>1, GridStays DEF TickFires, TickEnds, Pause, StopScheduler, GridInv
<1>3. ASSUME NEW c \in scan, Dispatch(c)
      PROVE  BlockedIsDue' /\ \A d \in DOMAIN InitialConfig : Steady(d) => OnGrid(d)'
  <2>1. c \in DOMAIN active /\ Advance(c, nextDue[c]) /\ blocked' = NoResult
    BY <1>1, <1>3 DEF Dispatch
  <2> QED
    BY <2>1, AdvanceKeepsGrid DEF GridInv, BlockedIsDue
<1>4. ASSUME NEW c \in scan, NEW status, Skip(c, status)
      PROVE  BlockedIsDue' /\ \A d \in DOMAIN InitialConfig : Steady(d) => OnGrid(d)'
  <2>1. /\ blocked' = [check |-> c, slot |-> nextDue[c], status |-> status]
        /\ scan' = scan \ {c} /\ UNCHANGED <<nextDue, startup, issued>>
    BY <1>4 DEF Skip
  <2>2. blocked'.check = c /\ blocked'.slot = nextDue[c]
    BY <2>1
  <2> QED
    BY <2>1, <2>2, GridStays DEF GridInv, BlockedIsDue
<1>5. ASSUME NEW c \in scan, QueueClosed(c)
      PROVE  BlockedIsDue' /\ \A d \in DOMAIN InitialConfig : Steady(d) => OnGrid(d)'
    BY <1>5, GridStays DEF QueueClosed, GridInv, BlockedIsDue
<1>6. CASE RecordSkippedRound
  <2>1. /\ blocked.check \in DOMAIN active /\ blocked' = NoResult
        /\ Advance(blocked.check, nextDue[blocked.check])
    BY <1>1, <1>6 DEF RecordSkippedRound, GridInv, BlockedIsDue
  <2> QED
    BY <2>1, AdvanceKeepsGrid DEF GridInv, BlockedIsDue
<1>7. CASE Reconcile
  <2> DEFINE config == Head(commands).checks
  <2>1. /\ blocked = NoResult /\ blocked' = NoResult /\ issued' = issued
        /\ nextDue' = Reschedule(config, now') /\ active' = config
        /\ startup' = IF StartupImmediate
                      THEN startup \cup (DOMAIN config \ DOMAIN active) ELSE startup
    BY <1>1, <1>7 DEF Reconcile
  <2>2. ASSUME NEW c \in DOMAIN InitialConfig, Steady(c) PROVE OnGrid(c)'
    <3>1. c \in DOMAIN active
      BY <2>2, SteadyIsActive DEF GridInv
    <3>2. c \in DOMAIN config
      <4>1. commands \in Seq(Commands) /\ commands # <<>>
        BY <1>7 DEF Reconcile, TInv, TypeOK, SchedulerTypeOK
      <4>2. config \in Known
        BY <1>7, <4>1 DEF Reconcile, GridInv, ConfigsKnown
      <4> QED
        BY <2>2, <4>2 DEF Known, Steady
    <3>3. nextDue'[c] = nextDue[c] /\ (c \in startup' <=> c \in startup)
      BY <2>1, <3>1, <3>2 DEF Reschedule
    <3> QED
      BY <2>1, <2>2, <3>3 DEF GridInv, OnGrid
  <2> QED
    BY <2>1, <2>2 DEF BlockedIsDue
<1> QED
    BY <1>2, <1>3, <1>4, <1>5, <1>6, <1>7
    DEF Scheduling, SchedulerStep, ConsiderCheck, SkipOverlap, SkipConcurrency, SkipQueueFull

LEMMA GridInvStep == TInv /\ GridInv /\ [Next]_vars => GridInv'
<1> SUFFICES ASSUME TInv, GridInv, [Next]_vars PROVE GridInv'
    OBVIOUS
<1>1. ConfigsKnown'
    BY ConfigsStep DEF GridInv
<1>2. ASSUME UNCHANGED <<nextDue, startup, issued, blocked, scan>> PROVE GridInv'
    BY <1>1, <1>2, GridStays DEF GridInv, BlockedIsDue
<1>3. CASE Scheduling
    BY <1>1, <1>3, SchedulingKeepsGrid DEF GridInv
<1>4. CASE CommitReload \/ HandOverReload \/ DiskPressureTurns
    BY <1>2, <1>4 DEF CommitReload, HandOverReload, DiskPressureTurns, schedulerVars
<1>5. CASE ClockTicks \/ ClockStepsBack \/ Writing \/ BeginShutdown \/ DropSenders
           \/ DrainCompletes \/ DrainTimesOut
    BY <1>2, <1>5
    DEF ClockTicks, ClockStepsBack, Writing, BeginShutdown, DropSenders, DrainCompletes,
        DrainTimesOut, schedulerVars
<1>6. ASSUME NEW w \in Workers, Working(w) PROVE GridInv'
    BY <1>2, <1>6 DEF Working, schedulerVars
<1>7. CASE UNCHANGED vars
    BY <1>2, <1>7 DEF vars, schedulerVars
<1> QED
    BY <1>3, <1>4, <1>5, <1>6, <1>7 DEF Next, ShutdownRequested, FatalExit, Terminated

LEMMA GridInit == Init => GridInv
<1> SUFFICES ASSUME Init PROVE GridInv
    OBVIOUS
<1>1. /\ active = InitialConfig /\ pending = InitialConfig /\ commands = <<>>
      /\ nextDue = [c \in DOMAIN InitialConfig |-> FirstDue(0, c, InitialConfig[c])]
      /\ startup = IF StartupImmediate THEN DOMAIN InitialConfig ELSE {}
      /\ blocked = NoResult /\ issued = {}
    BY DEF Init, SchedulerInit
<1>2. ConfigsKnown /\ BlockedIsDue
    BY <1>1 DEF ConfigsKnown, BlockedIsDue, Known
<1>3. ASSUME NEW c \in DOMAIN InitialConfig PROVE OnGrid(c)
  <2>1. c \in Checks /\ InitialConfig[c] \in Intervals /\ 0 \in Nat
    BY InitialConfigAssumption, ConfigurationIsFunction
  <2>2. CASE StartupImmediate
    BY <1>1, <2>2 DEF OnGrid, FirstDue
  <2>3. CASE ~StartupImmediate
    <3>1. nextDue[c] = NextAligned(0, c, InitialConfig[c]) /\ c \notin startup
      BY <1>1, <2>3 DEF FirstDue
    <3>2. IsAligned(nextDue[c], c, InitialConfig[c])
      BY <2>1, <3>1, NextAlignedIsAligned
    <3> QED
      BY <1>1, <3>1, <3>2 DEF OnGrid
  <2> QED
    BY <2>2, <2>3
<1> QED
    BY <1>2, <1>3 DEF GridInv

\* A check that every reload keeps as it is misses no slot of its grid
\* (scheduler.rs:173-330, compute_next_due and next_due_after_attempt), for any intervals,
\* jitter, limits, capacities and reloads of the other checks, whatever is skipped, paused or
\* panics, and even when the wall clock steps back.
THEOREM SlotsAreNotMissed == Spec => []NoSlotMissed
<1>1. TInv /\ GridInv => NoSlotMissed
  <2> SUFFICES ASSUME TInv, GridInv, NEW c \in DOMAIN InitialConfig, Steady(c)
               PROVE  /\ c \in DOMAIN active
                      /\ \A s \in {d[2] : d \in {e \in issued : e[1] = c}} \ {0} :
                          \A t \in s..(nextDue[c] - 1) :
                              IsAligned(t, c, active[c]) => <<c, t>> \in issued
    BY DEF NoSlotMissed
  <2>1. c \in DOMAIN active /\ active[c] = InitialConfig[c] /\ OnGrid(c)
    BY SteadyIsActive DEF GridInv
  <2>2. nextDue[c] \in Nat /\ issued \subseteq Checks \X Nat
    BY <2>1 DEF TInv, TypeOK, SchedulerTypeOK, Slots
  <2>3. ASSUME NEW s \in {d[2] : d \in {e \in issued : e[1] = c}} \ {0},
               NEW t \in s..(nextDue[c] - 1), IsAligned(t, c, active[c])
        PROVE  <<c, t>> \in issued
    <3>1. <<c, s>> \in issued /\ s \in Nat /\ s # 0
      BY <2>2
    <3>2. t \in Nat /\ s <= t /\ t < nextDue[c]
      BY <2>2, <3>1
    <3> QED
      BY <2>1, <2>3, <3>1, <3>2 DEF OnGrid, Slots
  <2> QED
    BY <2>1, <2>3
<1> QED
    BY <1>1, TypeInit, TypeStep, GridInit, GridInvStep, PTL DEF Spec

-----------------------------------------------------------------------------
(***************************************************************************)
(* Slots come in order, although the wall clock may step back.             *)
(***************************************************************************)

\* What a tick still has to look at, and what it has to record, was due when it began.
ScanIsDue ==
    /\ \A c \in scan : nextDue[c] <= clockRead
    /\ blocked # NoResult => nextDue[blocked.check] <= clockRead

\* Without a step back no slot dealt with is later than the clock.
ClockIsAhead ==
    backSteps = 0 => clockRead <= now /\ \A d \in issued : d[2] <= clockRead

QueuedReconcile(i) == i \in DOMAIN commands /\ commands[i].type = "reconcile"

\* A reload the scheduler has not heard of yet.
ReloadComes == stage = "reloading" \/ \E i \in Nat : QueuedReconcile(i)

OneReloadComes ==
    /\ stage = "reloading" => \A i \in Nat : ~QueuedReconcile(i)
    /\ \A i, j \in Nat : QueuedReconcile(i) /\ QueuedReconcile(j) => i = j

\* Until the first reload comes through, only active checks have had slots.
FirstReload ==
    /\ reloads = 0 => ~ReloadComes
    /\ reloads = 0 \/ (reloads = 1 /\ ReloadComes) => \A d \in issued : d[1] \in DOMAIN active
    /\ reloads = 1 => OneReloadComes

AdvanceInv ==
    ConfigsKnown /\ BlockedIsDue /\ ScanIsDue /\ ClockIsAhead /\ FirstReload /\ SlotsAdvance

\* What the invariant speaks of, beside the configurations on their way.
advanceVars == <<now, clockRead, active, nextDue, scan, blocked, issued, backSteps>>

LEMMA InOrderUnchanged ==
    ASSUME AdvanceInv, UNCHANGED advanceVars, UNCHANGED <<stage, commands, reloads>>,
           ConfigsKnown'
    PROVE  AdvanceInv'
BY DEF AdvanceInv, advanceVars, BlockedIsDue, ScanIsDue, ClockIsAhead, FirstReload, ReloadComes,
       OneReloadComes, QueuedReconcile, SlotsAdvance

\* A slot that is dealt with is not later than the reading of the clock, and its check
\* waits for a later one.
LEMMA AdvanceInOrder ==
    ASSUME TInv, AdvanceInv, NEW c \in DOMAIN active, nextDue[c] <= clockRead,
           Advance(c, nextDue[c]), blocked' = NoResult, scan' \in SUBSET scan, c \notin scan',
           UNCHANGED <<now, clockRead, active, commands, stage, reloads, backSteps>>,
           ConfigsKnown'
    PROVE  AdvanceInv'
<1>1. /\ now \in Nat /\ clockRead \in Nat /\ nextDue \in [DOMAIN active -> Nat]
      /\ scan \in SUBSET DOMAIN active /\ issued \in SUBSET (Checks \X Nat)
    BY DEF TInv, TypeOK, SchedulerTypeOK, Slots
<1>2. /\ nextDue'[c] > nextDue[c]
      /\ \A d \in DOMAIN active \ {c} : nextDue'[d] = nextDue[d]
      /\ issued' = issued \cup {<<c, nextDue[c]>>}
    BY <1>1, AdvanceIsLater
<1>3. nextDue' \in [DOMAIN active -> Nat]
    BY <1>1, AdvanceKeepsTypes DEF Slots
<1>4. BlockedIsDue' /\ ScanIsDue'
    BY <1>1, <1>2 DEF AdvanceInv, BlockedIsDue, ScanIsDue
<1>5. ClockIsAhead'
    BY <1>2 DEF AdvanceInv, ClockIsAhead
<1>6. FirstReload'
    BY <1>2 DEF AdvanceInv, FirstReload, ReloadComes, OneReloadComes, QueuedReconcile
<1>7. ASSUME NEW e \in DOMAIN nextDue', backSteps' = 0 \/ reloads' < 2 \/ Kept(e),
             NEW d \in issued', d[1] = e
      PROVE  d[2] < nextDue'[e]
  <2>1. CASE d = <<c, nextDue[c]>>
    BY <1>2, <1>7, <2>1
  <2>2. CASE d \in issued
    <3>1. e \in DOMAIN nextDue /\ d[2] < nextDue[e] /\ d[2] \in Nat
      BY <1>1, <1>3, <1>7, <2>2 DEF AdvanceInv, SlotsAdvance
    <3>2. nextDue[e] <= nextDue'[e] /\ nextDue[e] \in Nat /\ nextDue'[e] \in Nat
      BY <1>1, <1>2, <1>3, <3>1
    <3> QED
      BY <3>1, <3>2
  <2> QED
    BY <1>2, <1>7, <2>1, <2>2
<1>8. SlotsAdvance'
    BY <1>7 DEF SlotsAdvance
<1> QED
    BY <1>4, <1>5, <1>6, <1>8 DEF AdvanceInv

\* A reload keeps the slot of a check that stays; a check that comes back has had none,
\* unless this is not the first reload; and then it waits for a later one, unless the wall
\* clock stepped back.
LEMMA ReconcileInOrder ==
    ASSUME TInv, AdvanceInv, Reconcile, UNCHANGED <<stage, reloads, backSteps>>, ConfigsKnown'
    PROVE  AdvanceInv'
<1> DEFINE config == Head(commands).checks
<1>1. /\ now \in Nat /\ clockRead \in Nat /\ nextDue \in [DOMAIN active -> Nat]
      /\ issued \in SUBSET (Checks \X Nat) /\ commands \in Seq(Commands)
      /\ reloads \in Nat /\ Head(commands) \in Commands
    BY DEF Reconcile, TInv, TypeOK, SchedulerTypeOK, ServeTypeOK, Slots
<1>2. config \in Configurations
    BY <1>1, CommandPayload DEF Reconcile
<1>3. /\ now' = now + 1 /\ clockRead' = now' /\ active' = config
      /\ nextDue' = Reschedule(config, now') /\ commands' = Tail(commands)
      /\ scan = {} /\ blocked = NoResult /\ UNCHANGED <<scan, blocked, issued>>
    BY DEF Reconcile, TInv, BetweenTicks
<1>4. QueuedReconcile(1)
    BY <1>1 DEF Reconcile, QueuedReconcile
<1>5. ReloadComes /\ reloads # 0
    BY <1>4 DEF AdvanceInv, FirstReload, ReloadComes
<1> HIDE DEF config
<1>6. \A c \in DOMAIN config : c \in Checks /\ config[c] \in Intervals
    BY <1>2, ConfigurationIsFunction
<1>7. BlockedIsDue' /\ ScanIsDue'
    BY <1>3 DEF BlockedIsDue, ScanIsDue
<1>8. backSteps = 0 => \A d \in issued : d[2] \in Nat /\ d[2] < now'
    BY <1>1, <1>3 DEF AdvanceInv, ClockIsAhead
<1>9. ClockIsAhead'
    BY <1>1, <1>3, <1>8 DEF ClockIsAhead
<1>10. ASSUME reloads = 1 PROVE ~ReloadComes' /\ OneReloadComes'
  <2>1. stage # "reloading" /\ \A i \in Nat : QueuedReconcile(i) => i = 1
    BY <1>4, <1>10 DEF AdvanceInv, FirstReload, OneReloadComes
  <2>2. \A i \in Nat : QueuedReconcile(i)' => QueuedReconcile(i + 1) /\ i # 0
    BY <1>1, <1>3, <1>4 DEF QueuedReconcile
  <2>3. \A i \in Nat : ~QueuedReconcile(i)'
    BY <2>1, <2>2
  <2> QED
    BY <2>1, <2>3 DEF ReloadComes, OneReloadComes
<1>11. FirstReload'
    BY <1>5, <1>10 DEF FirstReload
<1>12. ASSUME NEW c \in DOMAIN nextDue', backSteps' = 0 \/ reloads' < 2 \/ Kept(c),
              NEW d \in issued', d[1] = c
       PROVE  d[2] < nextDue'[c]
  <2>1. /\ c \in DOMAIN config /\ d \in issued
        /\ nextDue'[c] = IF c \in DOMAIN active THEN nextDue[c]
                         ELSE FirstDue(now', c, config[c])
    BY <1>3, <1>12 DEF Reschedule
  <2>2. CASE c \in DOMAIN active
    BY <1>1, <1>12, <2>1, <2>2 DEF AdvanceInv, SlotsAdvance
  <2>3. CASE c \notin DOMAIN active
    <3>1. ~Kept(c)
      BY <2>3 DEF AdvanceInv, ConfigsKnown, Known, Kept
    <3>2. reloads # 1
      BY <1>5, <1>12, <2>1, <2>3 DEF AdvanceInv, FirstReload
    <3>3. backSteps = 0
      BY <1>1, <1>5, <1>12, <3>1, <3>2
    <3>4. now' \in Nat
      BY <1>1, <1>3
    <3>5. FirstDue(now', c, config[c]) \in Nat
      BY <1>6, <2>1, <3>4, FirstDueIsSlot DEF Slots
    <3>6. FirstDue(now', c, config[c]) >= now'
      BY <1>6, <2>1, <3>4, FirstDueIsNotEarlier
    <3> QED
      BY <1>8, <2>1, <2>3, <3>3, <3>4, <3>5, <3>6
  <2> QED
    BY <2>2, <2>3
<1>13. SlotsAdvance'
    BY <1>12 DEF SlotsAdvance
<1> QED
    BY <1>7, <1>9, <1>11, <1>13 DEF AdvanceInv

LEMMA SchedulingInOrder ==
    ASSUME TInv, AdvanceInv, Scheduling, ConfigsKnown'
    PROVE  AdvanceInv'
<1>1. /\ now \in Nat /\ clockRead \in Nat /\ nextDue \in [DOMAIN active -> Nat]
      /\ scan \in SUBSET DOMAIN active /\ issued \in SUBSET (Checks \X Nat)
      /\ blocked # NoResult => blocked.check \in DOMAIN active
      /\ phase # "scan" => scan = {} /\ blocked = NoResult
      /\ commands \in Seq(Commands)
    BY DEF TInv, TypeOK, SchedulerTypeOK, BetweenTicks, Slots
<1>2. UNCHANGED <<stage, reloads, backSteps>>
    BY DEF Scheduling, serveVars
<1>3. CASE TickFires
  <2>1. scan' = DueChecks /\ clockRead' = now /\ blocked = NoResult
        /\ UNCHANGED <<now, active, nextDue, blocked, issued, commands>>
    BY <1>1, <1>3 DEF TickFires
  <2>2. ScanIsDue' /\ BlockedIsDue'
    BY <2>1 DEF ScanIsDue, BlockedIsDue, DueChecks
  <2>3. ClockIsAhead'
    BY <1>1, <1>2, <2>1 DEF AdvanceInv, ClockIsAhead
  <2>4. FirstReload' /\ SlotsAdvance'
    BY <1>2, <2>1
    DEF AdvanceInv, FirstReload, ReloadComes, OneReloadComes, QueuedReconcile, SlotsAdvance
  <2> QED
    BY <2>2, <2>3, <2>4 DEF AdvanceInv
<1>4. CASE TickEnds \/ StopScheduler
    BY <1>2, <1>4, InOrderUnchanged DEF TickEnds, StopScheduler, advanceVars
<1>5. CASE Pause
  <2>1. commands' = Tail(commands) /\ UNCHANGED advanceVars /\ commands # <<>>
    BY <1>2, <1>5 DEF Pause, advanceVars
  <2>2. \A i \in Nat : QueuedReconcile(i)' => QueuedReconcile(i + 1)
    BY <1>1, <2>1 DEF QueuedReconcile
  <2>3. \A i \in Nat : i + 1 \in Nat
    OBVIOUS
  <2>4. ReloadComes' => ReloadComes
    BY <1>2, <2>2, <2>3 DEF ReloadComes
  <2>5. ASSUME OneReloadComes PROVE OneReloadComes'
    <3>1. stage' = "reloading" => \A i \in Nat : ~QueuedReconcile(i)'
      BY <1>2, <2>2, <2>3, <2>5 DEF OneReloadComes
    <3>2. ASSUME NEW i \in Nat, NEW j \in Nat, QueuedReconcile(i)', QueuedReconcile(j)'
          PROVE  i = j
      <4>1. i + 1 = j + 1
        BY <2>2, <2>3, <2>5, <3>2 DEF OneReloadComes
      <4> QED
        BY <4>1
    <3> QED
      BY <3>1, <3>2 DEF OneReloadComes
  <2>6. FirstReload'
    BY <1>2, <2>1, <2>4, <2>5 DEF AdvanceInv, FirstReload, advanceVars
  <2>7. BlockedIsDue' /\ ScanIsDue' /\ ClockIsAhead' /\ SlotsAdvance'
    BY <1>2, <2>1
    DEF AdvanceInv, BlockedIsDue, ScanIsDue, ClockIsAhead, SlotsAdvance, advanceVars
  <2> QED
    BY <2>6, <2>7 DEF AdvanceInv
<1>6. ASSUME NEW c \in scan, Dispatch(c) PROVE AdvanceInv'
  <2>1. /\ c \in DOMAIN active /\ nextDue[c] <= clockRead /\ Advance(c, nextDue[c])
        /\ blocked' = NoResult /\ scan' = scan \ {c}
        /\ UNCHANGED <<now, clockRead, active, commands>>
    BY <1>1, <1>6 DEF Dispatch, AdvanceInv, ScanIsDue
  <2> QED
    BY <1>2, <2>1, AdvanceInOrder
<1>7. ASSUME NEW c \in scan, NEW status, Skip(c, status) PROVE AdvanceInv'
  <2>1. /\ blocked' = [check |-> c, slot |-> nextDue[c], status |-> status]
        /\ scan' = scan \ {c}
        /\ UNCHANGED <<now, clockRead, active, nextDue, issued, commands>>
    BY <1>7 DEF Skip
  <2>2. blocked'.check = c /\ blocked'.slot = nextDue[c]
    BY <2>1
  <2>3. BlockedIsDue' /\ ScanIsDue'
    BY <2>1, <2>2 DEF AdvanceInv, BlockedIsDue, ScanIsDue
  <2>4. ClockIsAhead' /\ FirstReload' /\ SlotsAdvance'
    BY <1>2, <2>1
    DEF AdvanceInv, ClockIsAhead, FirstReload, ReloadComes, OneReloadComes, QueuedReconcile,
        SlotsAdvance
  <2> QED
    BY <2>3, <2>4 DEF AdvanceInv
<1>8. ASSUME NEW c \in scan, QueueClosed(c) PROVE AdvanceInv'
  <2>1. scan' = {} /\ UNCHANGED <<now, clockRead, active, nextDue, blocked, issued, commands>>
    BY <1>8 DEF QueueClosed
  <2> QED
    BY <1>2, <2>1
    DEF AdvanceInv, BlockedIsDue, ScanIsDue, ClockIsAhead, FirstReload, ReloadComes,
        OneReloadComes, QueuedReconcile, SlotsAdvance
<1>9. CASE RecordSkippedRound
  <2>1. /\ blocked.check \in DOMAIN active /\ nextDue[blocked.check] <= clockRead
        /\ Advance(blocked.check, nextDue[blocked.check]) /\ blocked.check \notin scan
        /\ blocked' = NoResult /\ UNCHANGED <<now, clockRead, active, commands, scan>>
    BY <1>1, <1>9 DEF RecordSkippedRound, AdvanceInv, BlockedIsDue, ScanIsDue
  <2> QED
    BY <1>2, <2>1, AdvanceInOrder
<1>10. CASE Reconcile
    BY <1>2, <1>10, ReconcileInOrder
<1> QED
    BY <1>3, <1>4, <1>5, <1>6, <1>7, <1>8, <1>9, <1>10
    DEF Scheduling, SchedulerStep, ConsiderCheck, SkipOverlap, SkipConcurrency, SkipQueueFull

\* A command that is sent is the last of the queue.
LEMMA CommandQueued ==
    ASSUME TInv, NEW m \in Commands, commands' = Append(commands, m)
    PROVE  \A i \in Nat : QueuedReconcile(i)' =>
                QueuedReconcile(i) \/ (i = Len(commands) + 1 /\ m.type = "reconcile")
<1>1. commands \in Seq(Commands)
    BY DEF TInv, TypeOK, SchedulerTypeOK
<1> QED
    BY <1>1 DEF QueuedReconcile

LEMMA InOrderStep == TInv /\ AdvanceInv /\ [Next]_vars => AdvanceInv'
<1> SUFFICES ASSUME TInv, AdvanceInv, [Next]_vars PROVE AdvanceInv'
    OBVIOUS
<1>1. ConfigsKnown'
    BY ConfigsStep DEF AdvanceInv
<1>2. /\ reloads \in Nat /\ backSteps \in Nat /\ now \in Nat /\ clockRead \in Nat
      /\ commands \in Seq(Commands) /\ pending \in Configurations
    BY EnvironmentBounds DEF TInv, TypeOK, SchedulerTypeOK, ServeTypeOK
<1>3. ASSUME UNCHANGED advanceVars, FirstReload', reloads' >= reloads, reloads' \in Nat
      PROVE  AdvanceInv'
  <2>1. reloads' < 2 => reloads < 2
    BY <1>2, <1>3
  <2> QED
    BY <1>1, <1>3, <2>1
    DEF AdvanceInv, advanceVars, BlockedIsDue, ScanIsDue, ClockIsAhead, SlotsAdvance
<1>4. CASE Scheduling
    BY <1>1, <1>4, SchedulingInOrder
<1>5. CASE CommitReload
  <2>1. /\ reloads' = reloads + 1 /\ stage = "running" /\ UNCHANGED advanceVars
        /\ commands' = commands /\ issued' = issued /\ active' = active
    BY <1>5 DEF CommitReload, schedulerVars, advanceVars
  <2>2. FirstReload'
    <3>1. ASSUME reloads' = 1
          PROVE  OneReloadComes' /\ \A d \in issued' : d[1] \in DOMAIN active'
      <4>1. ~ReloadComes /\ \A d \in issued : d[1] \in DOMAIN active
        BY <1>2, <2>1, <3>1 DEF AdvanceInv, FirstReload
      <4> QED
        BY <2>1, <4>1 DEF ReloadComes, OneReloadComes, QueuedReconcile
    <3> QED
      BY <1>2, <2>1, <3>1 DEF FirstReload
  <2> QED
    BY <1>2, <1>3, <2>1, <2>2
<1>6. CASE HandOverReload
  <2>1. /\ stage = "reloading" /\ stage' = "running" /\ reloads' = reloads
        /\ UNCHANGED advanceVars /\ issued' = issued /\ active' = active
    BY <1>6 DEF HandOverReload, advanceVars
  <2>2. reloads # 0 /\ ReloadComes
    BY <2>1 DEF AdvanceInv, FirstReload, ReloadComes
  <2>3. \A i \in Nat : QueuedReconcile(i)' =>
            QueuedReconcile(i) \/ i = Len(commands) + 1
    <3>1. CASE commands' = commands
      BY <3>1 DEF QueuedReconcile
    <3>2. CASE commands' = Append(commands, ReconcileCommand(pending))
      <4>1. ReconcileCommand(pending) \in Commands
        BY <1>2, CommandsAreCommands
      <4> QED
        BY <3>2, <4>1, CommandQueued
    <3> QED
      BY <1>6, <3>1, <3>2 DEF HandOverReload
  <2>4. reloads = 1 => OneReloadComes'
    BY <2>1, <2>3 DEF AdvanceInv, FirstReload, OneReloadComes
  <2>5. FirstReload'
    BY <2>1, <2>2, <2>4 DEF AdvanceInv, FirstReload
  <2> QED
    BY <1>2, <1>3, <2>1, <2>5
<1>7. CASE DiskPressureTurns
  <2>1. /\ UNCHANGED advanceVars /\ UNCHANGED <<stage, reloads>>
        /\ commands' = Append(commands, PauseCommand(~pressure))
        /\ issued' = issued /\ active' = active
    BY <1>7 DEF DiskPressureTurns, advanceVars
  <2>2. PauseCommand(~pressure) \in Commands /\ PauseCommand(~pressure).type = "pause"
    BY CommandsAreCommands DEF PauseCommand
  <2>3. \A i \in Nat : QueuedReconcile(i)' => QueuedReconcile(i)
    BY <2>1, <2>2, CommandQueued
  <2>4. FirstReload'
    BY <2>1, <2>3 DEF AdvanceInv, FirstReload, ReloadComes, OneReloadComes
  <2> QED
    BY <1>2, <1>3, <2>1, <2>4
<1>8. CASE ClockTicks
  <2>1. now' = now + 1 /\ UNCHANGED <<clockRead, active, nextDue, scan, blocked, issued,
                                     commands, stage, reloads, backSteps>>
    BY <1>8 DEF ClockTicks, schedulerVars, serveVars
  <2>2. ClockIsAhead'
    BY <1>2, <2>1 DEF AdvanceInv, ClockIsAhead
  <2> QED
    BY <1>1, <2>1, <2>2
    DEF AdvanceInv, BlockedIsDue, ScanIsDue, FirstReload, ReloadComes, OneReloadComes,
        QueuedReconcile, SlotsAdvance
<1>9. CASE ClockStepsBack
  <2>1. backSteps' # 0 /\ UNCHANGED <<clockRead, active, nextDue, scan, blocked, issued,
                                     commands, stage, reloads>>
    BY <1>2, <1>9 DEF ClockStepsBack, schedulerVars
  <2>2. SlotsAdvance'
    BY <2>1 DEF AdvanceInv, SlotsAdvance
  <2> QED
    BY <1>1, <2>1, <2>2
    DEF AdvanceInv, BlockedIsDue, ScanIsDue, ClockIsAhead, FirstReload, ReloadComes,
        OneReloadComes, QueuedReconcile
<1>10. CASE Writing \/ UNCHANGED vars
    BY <1>1, <1>10, InOrderUnchanged DEF Writing, vars, schedulerVars, serveVars, advanceVars
<1>11. ASSUME NEW w \in Workers, Working(w) PROVE AdvanceInv'
    BY <1>1, <1>11, InOrderUnchanged DEF Working, schedulerVars, serveVars, advanceVars
<1>12. CASE BeginShutdown \/ DropSenders \/ DrainCompletes \/ DrainTimesOut
  <2>1. /\ UNCHANGED advanceVars /\ UNCHANGED <<commands, reloads>>
        /\ stage' # "reloading" /\ issued' = issued /\ active' = active
    BY <1>12
    DEF BeginShutdown, DropSenders, DrainCompletes, DrainTimesOut, schedulerVars, advanceVars
  <2>2. FirstReload'
    BY <2>1 DEF AdvanceInv, FirstReload, ReloadComes, OneReloadComes, QueuedReconcile
  <2> QED
    BY <1>2, <1>3, <2>1, <2>2
<1> QED
    BY <1>4, <1>5, <1>6, <1>7, <1>8, <1>9, <1>10, <1>11, <1>12
    DEF Next, ShutdownRequested, FatalExit, Terminated

LEMMA InOrderInit == Init => AdvanceInv
<1> SUFFICES ASSUME Init PROVE AdvanceInv
    OBVIOUS
<1>1. /\ commands = <<>> /\ issued = {} /\ scan = {} /\ blocked = NoResult
      /\ now = 0 /\ clockRead = 0 /\ stage = "running" /\ reloads = 0
    BY DEF Init, SchedulerInit
<1>2. \A i \in Nat : ~QueuedReconcile(i)
    BY <1>1 DEF QueuedReconcile
<1> QED
    BY <1>1, <1>2, GridInit
    DEF AdvanceInv, GridInv, BlockedIsDue, ScanIsDue, ClockIsAhead, FirstReload, ReloadComes,
        OneReloadComes, SlotsAdvance

\* No slot comes round again while the clock goes forward, of a check that stays, or until
\* a check that was taken away is brought back (scheduler.rs:124-160 and 173-330, where the
\* slots are read off the wall clock), for any intervals, jitter, limits and capacities, and
\* whatever is skipped, paused or panics.
THEOREM SlotsInOrder == Spec => []SlotsAdvance
<1>1. AdvanceInv => SlotsAdvance
    BY DEF AdvanceInv
<1> QED
    BY <1>1, TypeInit, TypeStep, InOrderInit, InOrderStep, PTL DEF Spec

-----------------------------------------------------------------------------
(***************************************************************************)
(* The grid of every check, as long as no reload changes the interval of   *)
(* one that stays.                                                         *)
(***************************************************************************)
IntervalsKept == Reconcile => \A c \in DOMAIN active \cap DOMAIN active' : active'[c] = active[c]

AlignedInv == BlockedIsDue /\ SlotsAligned

LEMMA AdvanceKeepsAligned ==
    ASSUME TInv, SlotsAligned, NEW c \in DOMAIN active, Advance(c, nextDue[c]), active' = active
    PROVE  SlotsAligned'
<1> DEFINE i == active[c]
<1>1. /\ nextDue \in [DOMAIN active -> Slots] /\ clockRead \in Nat
      /\ c \in Checks /\ i \in Intervals
    BY ConfigurationIsFunction DEF TInv, TypeOK, SchedulerTypeOK
<1>2. i \in Nat /\ i > 0 /\ nextDue[c] \in Nat
  <2> HIDE DEF i
  <2> QED
      BY <1>1, IntervalsAssumption DEF Slots
<1>3. /\ nextDue' = [nextDue EXCEPT ![c] = NextDueAfterAttempt(c, nextDue[c])]
      /\ startup' = startup \ {c}
    BY DEF Advance
<1>4. IsAligned(nextDue'[c], c, i)
  <2>1. CASE c \in startup
    <3>1. nextDue'[c] = NextAligned(clockRead, c, i)
        BY <1>1, <1>3, <2>1 DEF NextDueAfterAttempt
    <3> QED
        BY <1>1, <3>1, NextAlignedIsAligned
  <2>2. CASE c \notin startup
    <3>1. nextDue'[c] = nextDue[c] + i
        BY <1>1, <1>3, <2>2 DEF NextDueAfterAttempt
    <3>2. IsAligned(nextDue[c], c, i)
        BY <2>2 DEF SlotsAligned
    <3>3. (nextDue[c] + i) % i = nextDue[c] % i
        BY <1>2, GridStep
    <3> QED
        BY <3>1, <3>2, <3>3 DEF IsAligned
  <2> QED
      BY <2>1, <2>2
<1>5. \A d \in DOMAIN active \ {c} : nextDue'[d] = nextDue[d] /\ (d \in startup' <=> d \in startup)
    BY <1>1, <1>3
<1> QED
    BY <1>4, <1>5 DEF SlotsAligned

LEMMA AlignedStays ==
    ASSUME UNCHANGED <<active, nextDue, startup>>, SlotsAligned PROVE SlotsAligned'
BY DEF SlotsAligned

LEMMA SchedulingKeepsAligned ==
    ASSUME TInv, AlignedInv, Scheduling, [IntervalsKept]_vars
    PROVE  AlignedInv'
<1>1. /\ nextDue \in [DOMAIN active -> Slots] /\ scan \in SUBSET DOMAIN active
      /\ blocked # NoResult => blocked.check \in DOMAIN active
      /\ phase # "scan" => scan = {} /\ blocked = NoResult
    BY DEF TInv, TypeOK, SchedulerTypeOK, BetweenTicks
<1>2. CASE TickFires \/ TickEnds \/ Pause \/ StopScheduler
  <2>1. BlockedIsDue'
    BY <1>1, <1>2 DEF TickFires, TickEnds, Pause, StopScheduler, BlockedIsDue, AlignedInv
  <2> QED
    BY <1>2, <2>1, AlignedStays DEF TickFires, TickEnds, Pause, StopScheduler, AlignedInv
<1>3. ASSUME NEW c \in scan, Dispatch(c) PROVE AlignedInv'
  <2>1. c \in DOMAIN active /\ Advance(c, nextDue[c]) /\ blocked' = NoResult /\ active' = active
    BY <1>1, <1>3 DEF Dispatch
  <2> QED
    BY <2>1, AdvanceKeepsAligned DEF AlignedInv, BlockedIsDue
<1>4. ASSUME NEW c \in scan, NEW status, Skip(c, status) PROVE AlignedInv'
  <2>1. /\ blocked' = [check |-> c, slot |-> nextDue[c], status |-> status]
        /\ scan' = scan \ {c} /\ UNCHANGED <<active, nextDue, startup>>
    BY <1>4 DEF Skip
  <2>2. blocked'.check = c /\ blocked'.slot = nextDue[c]
    BY <2>1
  <2> QED
    BY <2>1, <2>2, AlignedStays DEF AlignedInv, BlockedIsDue
<1>5. ASSUME NEW c \in scan, QueueClosed(c) PROVE AlignedInv'
    BY <1>5, AlignedStays DEF QueueClosed, AlignedInv, BlockedIsDue
<1>6. CASE RecordSkippedRound
  <2>1. /\ blocked.check \in DOMAIN active /\ blocked' = NoResult /\ active' = active
        /\ Advance(blocked.check, nextDue[blocked.check])
    BY <1>1, <1>6 DEF RecordSkippedRound, AlignedInv, BlockedIsDue
  <2> QED
    BY <2>1, AdvanceKeepsAligned DEF AlignedInv, BlockedIsDue
<1>7. CASE Reconcile
  <2> DEFINE config == Head(commands).checks
  <2>1. /\ blocked' = NoResult /\ active' = config /\ now' \in Nat /\ vars' # vars
        /\ nextDue' = Reschedule(config, now')
        /\ startup' = IF StartupImmediate
                      THEN startup \cup (DOMAIN config \ DOMAIN active) ELSE startup
    BY <1>1, <1>7 DEF Reconcile, vars, TInv, TypeOK, SchedulerTypeOK
  <2>2. config \in Configurations
    <3>1. commands \in Seq(Commands) /\ commands # <<>>
      BY <1>7 DEF Reconcile, TInv, TypeOK, SchedulerTypeOK
    <3> QED
      BY <1>7, <3>1, CommandPayload DEF Reconcile
  <2>3. ASSUME NEW c \in DOMAIN config, c \notin startup'
        PROVE  IsAligned(nextDue'[c], c, config[c])
    <3>1. c \in Checks /\ config[c] \in Intervals
      BY <2>2, ConfigurationIsFunction
    <3>2. CASE c \in DOMAIN active
      <4>1. nextDue'[c] = nextDue[c] /\ c \notin startup
        BY <2>1, <2>3, <3>2 DEF Reschedule
      <4>2. config[c] = active[c]
        BY <1>7, <2>1, <2>3, <3>2 DEF IntervalsKept
      <4> QED
        BY <3>2, <4>1, <4>2 DEF AlignedInv, SlotsAligned
    <3>3. CASE c \notin DOMAIN active
      <4>1. ~StartupImmediate
        BY <2>1, <2>3, <3>3
      <4>2. nextDue'[c] = NextAligned(now', c, config[c])
        BY <2>1, <2>3, <3>3, <4>1 DEF Reschedule, FirstDue
      <4> QED
        BY <2>1, <3>1, <4>2, NextAlignedIsAligned
    <3> QED
      BY <3>2, <3>3
  <2>4. SlotsAligned'
    BY <2>1, <2>3 DEF SlotsAligned
  <2> QED
    BY <2>1, <2>4 DEF AlignedInv, BlockedIsDue
<1> QED
    BY <1>2, <1>3, <1>4, <1>5, <1>6, <1>7
    DEF Scheduling, SchedulerStep, ConsiderCheck, SkipOverlap, SkipConcurrency, SkipQueueFull

LEMMA AlignedStep == TInv /\ AlignedInv /\ [Next]_vars /\ [IntervalsKept]_vars => AlignedInv'
<1> SUFFICES ASSUME TInv, AlignedInv, [Next]_vars, [IntervalsKept]_vars PROVE AlignedInv'
    OBVIOUS
<1>1. ASSUME UNCHANGED <<active, nextDue, startup, blocked, scan>> PROVE AlignedInv'
    BY <1>1, AlignedStays DEF AlignedInv, BlockedIsDue
<1>2. CASE Scheduling
    BY <1>2, SchedulingKeepsAligned
<1>3. CASE CommitReload \/ HandOverReload \/ DiskPressureTurns
    BY <1>1, <1>3 DEF CommitReload, HandOverReload, DiskPressureTurns, schedulerVars
<1>4. CASE ClockTicks \/ ClockStepsBack \/ Writing \/ BeginShutdown \/ DropSenders
           \/ DrainCompletes \/ DrainTimesOut
    BY <1>1, <1>4
    DEF ClockTicks, ClockStepsBack, Writing, BeginShutdown, DropSenders, DrainCompletes,
        DrainTimesOut, schedulerVars
<1>5. ASSUME NEW w \in Workers, Working(w) PROVE AlignedInv'
    BY <1>1, <1>5 DEF Working, schedulerVars
<1>6. CASE UNCHANGED vars
    BY <1>1, <1>6 DEF vars, schedulerVars
<1> QED
    BY <1>2, <1>3, <1>4, <1>5, <1>6 DEF Next, ShutdownRequested, FatalExit, Terminated

LEMMA AlignedInit == Init => AlignedInv
<1> SUFFICES ASSUME Init PROVE AlignedInv
    OBVIOUS
<1>1. /\ active = InitialConfig
      /\ nextDue = [c \in DOMAIN InitialConfig |-> FirstDue(0, c, InitialConfig[c])]
      /\ startup = IF StartupImmediate THEN DOMAIN InitialConfig ELSE {}
      /\ blocked = NoResult
    BY DEF Init, SchedulerInit
<1>2. ASSUME NEW c \in DOMAIN InitialConfig, c \notin startup
      PROVE  IsAligned(nextDue[c], c, InitialConfig[c])
  <2>1. c \in Checks /\ InitialConfig[c] \in Intervals /\ 0 \in Nat
    BY InitialConfigAssumption, ConfigurationIsFunction
  <2>2. nextDue[c] = NextAligned(0, c, InitialConfig[c])
    BY <1>1, <1>2 DEF FirstDue
  <2> QED
    BY <2>1, <2>2, NextAlignedIsAligned
<1> QED
    BY <1>1, <1>2 DEF AlignedInv, BlockedIsDue, SlotsAligned

\* Every slot after the startup round is one of the grid of the check, as long as no reload
\* changes the interval of a check that stays (scheduler.rs:141-160, next_due_after_attempt):
\* also of checks that come, go and return, and when the wall clock steps back.
THEOREM SlotsOnGrid == Spec /\ [][IntervalsKept]_vars => []SlotsAligned
<1>1. AlignedInv => SlotsAligned
    BY DEF AlignedInv
<1> QED
    BY <1>1, TypeInit, TypeStep, AlignedInit, AlignedStep, PTL DEF Spec

-----------------------------------------------------------------------------
(***************************************************************************)
(* The last round.  The writer upserts the current state from whatever it  *)
(* stores last, so the current state is that of the last slot only if the  *)
(* results of a check reach it in the order of their slots.                *)
(***************************************************************************)

\* A worker that will still send a result.
Probes(w) == worker[w].state \in {"probing", "sending"}

\* The slots whose results are not in the channel yet, and those that have left the pool.
UnderWay == SlotsIn(jobs) \cup {SlotOf(worker[w].job) : w \in {v \in Workers : Probes(v)}}
Reported == SlotsIn(results) \cup SlotsOf(rounds)

\* A step deals with a slot of a check only when the one before is not under way any more.
\* The code does not see to it: a worker that waits for room in the result channel has
\* released its check, and a slot that is skipped as an overlap is recorded at once.
InTurn == \A d \in issued' \ issued : \A e \in UnderWay : d[1] # e[1]

\* Results lie in the channel in the order of their slots, after all that were stored.
ResultsInOrder ==
    /\ \A i, j \in DOMAIN results :
        i < j /\ results[i].check = results[j].check => results[i].slot < results[j].slot
    /\ \A r \in rounds : \A i \in DOMAIN results :
        r.check = results[i].check => r.slot < results[i].slot

\* A check has one slot under way, which is later than all it has reported.
OneUnderWay ==
    /\ \A d, e \in UnderWay : d[1] = e[1] => d = e
    /\ \A d \in UnderWay, e \in Reported : d[1] = e[1] => e[2] < d[2]

OrderInv == ResultsInOrder /\ OneUnderWay

\* Only the head of the job channel comes under way in a worker, and workers let go.
LEMMA ProbesStay ==
    ASSUME TInv, [Next]_vars, NEW w \in Workers, Probes(w)', ~TakeJob(w)
    PROVE  Probes(w) /\ worker'[w].job = worker[w].job
<1>1. worker \in [Workers -> [state : WorkerStates, job : RoundJob \cup {NoRound}]]
    BY DEF TInv, TypeOK, ChannelsTypeOK
<1>2. CASE UNCHANGED worker
    BY <1>2 DEF Probes
<1>3. ASSUME NEW v \in Workers, Working(v)
      PROVE  Probes(w) /\ worker'[w].job = worker[w].job
  <2>1. CASE v # w
    <3>1. worker'[w] = worker[w]
      BY <1>1, <1>3, <2>1
      DEF Working, WorkerStep, TakeJob, FinishRound, SendResult, WorkerExits, WorkerPanics
    <3> QED
      BY <3>1 DEF Probes
  <2>2. CASE v = w
    <3>1. CASE FinishRound(w)
      BY <1>1, <3>1 DEF FinishRound, Probes
    <3>2. ~SendResult(w) /\ ~WorkerExits(w) /\ ~WorkerPanics(w)
      BY <1>1 DEF SendResult, Idle, WorkerExits, WorkerPanics, Probes
    <3> QED
      BY <1>3, <2>2, <3>1, <3>2 DEF Working, WorkerStep
  <2> QED
    BY <2>1, <2>2
<1>4. CASE Scheduling
  <2>1. ASSUME NEW c \in scan, ConsiderCheck(c) PROVE UNCHANGED worker
    BY <2>1 DEF ConsiderCheck, Dispatch, SkipOverlap, SkipConcurrency, SkipQueueFull, Skip,
                QueueClosed, channelVars
  <2> QED
    BY <1>2, <1>4, <2>1
    DEF Scheduling, SchedulerStep, TickFires, TickEnds, RecordSkippedRound, Reconcile,
        Pause, StopScheduler, channelVars
<1>5. CASE Writing
    BY <1>2, <1>5 DEF Writing, WriterStep, WriteRound, WriterExits, EvaluateAlert, channelVars
<1>6. CASE ClockTicks \/ ClockStepsBack \/ CommitReload \/ HandOverReload \/ DiskPressureTurns
           \/ BeginShutdown \/ DropSenders \/ DrainCompletes
    BY <1>2, <1>6
    DEF ClockTicks, ClockStepsBack, CommitReload, HandOverReload, DiskPressureTurns,
        BeginShutdown, DropSenders, DrainCompletes, channelVars
<1>7. CASE DrainTimesOut
  <2>1. worker'[w] = IF Gone(w) THEN worker[w]
                     ELSE [worker[w] EXCEPT !.state = IF @ = "probing" THEN "dead" ELSE "exited"]
    BY <1>7 DEF DrainTimesOut
  <2>2. ~Probes(w)'
    BY <1>1, <2>1 DEF Gone, Probes
  <2> QED
    BY <2>2
<1>8. CASE UNCHANGED vars
    BY <1>2, <1>8 DEF vars, channelVars
<1> QED
    BY <1>3, <1>4, <1>5, <1>6, <1>7, <1>8 DEF Next, ShutdownRequested, FatalExit, Terminated

\* What is under way or reported has been dealt with.
LEMMA UnderWayIssued ==
    ASSUME TInv, PlacedInv
    PROVE  UnderWay \subseteq issued /\ Reported \subseteq issued
           /\ UnderWay \subseteq SlotsIn(jobs) \cup HandSlots
<1>1. \A w \in Workers : Probes(w) => w \in InHand
    BY NoRoundIsNoJob DEF Probes, InHand, TInv, HandsFull
<1>2. UnderWay \subseteq SlotsIn(jobs) \cup HandSlots
    BY <1>1 DEF UnderWay, HandSlots
<1> QED
    BY <1>2 DEF Reported, PlacedInv, AllPlaced

\* The slot a check waits for is later than any of the check dealt with.
LEMMA WaitedForIsLast ==
    ASSUME TInv, SlotsFresh, NEW c \in DOMAIN active, NEW e \in issued, e[1] = c
    PROVE  e[2] < nextDue[c]
BY DEF SlotsFresh

\* A step that takes nothing under way and reports nothing keeps both in order.
LEMMA FewerInOrder ==
    ASSUME OneUnderWay, UnderWay' \subseteq UnderWay, Reported' \subseteq Reported
    PROVE  OneUnderWay'
BY DEF OneUnderWay

\* A result that is later than all reported goes to the end of the channel.
LEMMA LastInOrder ==
    ASSUME TInv, ResultsInOrder, NEW q \in RoundResult,
           results' = Append(results, q), UNCHANGED rounds,
           \A e \in Reported : e[1] = q.check => e[2] < q.slot
    PROVE  ResultsInOrder'
<1>1. results \in Seq(RoundResult)
    BY DEF TInv, TypeOK, ChannelsTypeOK
<1>2. /\ DOMAIN results' = DOMAIN results \cup {Len(results) + 1}
      /\ results'[Len(results) + 1] = q
      /\ \A i \in DOMAIN results : results'[i] = results[i] /\ i \in Int /\ i < Len(results) + 1
      /\ Len(results) \in Nat
    BY <1>1
<1>3. \A i \in DOMAIN results : results[i].check = q.check => results[i].slot < q.slot
  <2>1. \A i \in DOMAIN results : SlotOf(results[i]) \in Reported
    BY DEF Reported, SlotsIn
  <2> QED
    BY <2>1 DEF SlotOf
<1>4. \A r \in rounds : r.check = q.check => r.slot < q.slot
  <2>1. \A r \in rounds : SlotOf(r) \in Reported
    BY DEF Reported, SlotsOf
  <2> QED
    BY <2>1 DEF SlotOf
<1>5. ASSUME NEW i \in DOMAIN results', NEW j \in DOMAIN results',
             i < j, results'[i].check = results'[j].check
      PROVE  results'[i].slot < results'[j].slot
  <2>1. CASE j \in DOMAIN results
    <3>1. i \in DOMAIN results
      BY <1>2, <1>5, <2>1
    <3> QED
      BY <1>2, <1>5, <2>1, <3>1 DEF ResultsInOrder
  <2>2. CASE j = Len(results) + 1
    <3>1. i \in DOMAIN results
      BY <1>2, <1>5, <2>2
    <3> QED
      BY <1>2, <1>3, <1>5, <2>2, <3>1
  <2> QED
    BY <1>2, <2>1, <2>2
<1>6. ASSUME NEW r \in rounds, NEW i \in DOMAIN results', r.check = results'[i].check
      PROVE  r.slot < results'[i].slot
    BY <1>2, <1>4, <1>6 DEF ResultsInOrder
<1> QED
    BY <1>5, <1>6 DEF ResultsInOrder

\* The result at the head of the channel is later than every round of its check, and
\* once it has gone to the rounds so are the others.
LEMMA HeadInOrder ==
    ASSUME TInv, ResultsInOrder, WriteRound
    PROVE  /\ \A r \in rounds : r.check = Head(results).check => r.slot < Head(results).slot
           /\ ResultsInOrder'
<1> DEFINE q == Head(results)
<1>1. /\ results \in Seq(RoundResult) /\ results # <<>> /\ results' = Tail(results)
      /\ rounds' \subseteq rounds \cup {q}
    BY FileMoves
<1>2. /\ 1 \in DOMAIN results /\ results[1] = q
      /\ \A i \in DOMAIN results' : /\ i \in Int /\ 1 < i + 1
                                    /\ i + 1 \in DOMAIN results /\ results'[i] = results[i + 1]
    BY <1>1
<1> HIDE DEF q
<1>3. \A r \in rounds : r.check = q.check => r.slot < q.slot
    BY <1>2 DEF ResultsInOrder
<1>4. ASSUME NEW i \in DOMAIN results', NEW j \in DOMAIN results',
             i < j, results'[i].check = results'[j].check
      PROVE  results'[i].slot < results'[j].slot
  <2>1. i + 1 < j + 1
    BY <1>2, <1>4
  <2> QED
    BY <1>2, <1>4, <2>1 DEF ResultsInOrder
<1>5. ASSUME NEW r \in rounds', NEW i \in DOMAIN results', r.check = results'[i].check
      PROVE  r.slot < results'[i].slot
    BY <1>1, <1>2, <1>5 DEF ResultsInOrder
<1> QED
    BY <1>3, <1>4, <1>5 DEF ResultsInOrder, q

LEMMA OrderStep ==
    ASSUME SlotInv, OrderInv, [Next]_vars, [InTurn]_vars
    PROVE  OrderInv'
<1> USE DEF SlotInv
<1>1. InTurn
  <2>1. UNCHANGED vars => issued' = issued
    BY DEF vars, schedulerVars
  <2> QED
    BY <2>1 DEF InTurn
<1>2. ASSUME UNCHANGED jobs, \A w \in Workers : ~TakeJob(w)
      PROVE  UnderWay' \subseteq UnderWay
  <2>1. \A w \in Workers : Probes(w)' => Probes(w) /\ worker'[w].job = worker[w].job
    BY <1>2, ProbesStay
  <2> QED
    BY <1>2, <2>1 DEF UnderWay
<1>3. ASSUME NEW w \in Workers, TakeJob(w) PROVE jobs' # jobs /\ UNCHANGED results
  <2>1. jobs \in Seq(RoundJob) /\ jobs # <<>> /\ jobs' = Tail(jobs) /\ UNCHANGED results
    BY <1>3 DEF TakeJob, TInv, TypeOK, ChannelsTypeOK
  <2> QED
    BY <2>1
<1>4. CASE Still
  <2>1. UnderWay' \subseteq UnderWay
    BY <1>2, <1>3, <1>4 DEF Still
  <2>2. Reported' = Reported /\ ResultsInOrder'
    BY <1>4 DEF Still, Reported, OrderInv, ResultsInOrder
  <2> QED
    BY <2>1, <2>2, FewerInOrder DEF OrderInv
<1>5. ASSUME NEW c \in scan, Dispatch(c), UNCHANGED <<rounds, dropped>> PROVE OrderInv'
  <2> DEFINE s == <<c, nextDue[c]>>
  <2>1. c \in DOMAIN active
    BY DEF TInv, TypeOK, SchedulerTypeOK
  <2>2. /\ SlotsIn(jobs)' = SlotsIn(jobs) \cup {s} /\ issued' = issued \cup {s}
        /\ UNCHANGED <<results, worker>>
    BY <1>5, DispatchMoves
  <2>3. UnderWay' = UnderWay \cup {s} /\ Reported' = Reported
    BY <1>5, <2>2 DEF UnderWay, Reported, Probes
  <2>4. s \notin issued
    BY <2>1, WaitedForIsNew
  <2>5. \A e \in UnderWay : e[1] # c
    BY <1>1, <2>2, <2>4 DEF InTurn
  <2>6. \A e \in Reported : e[1] = c => e[2] < nextDue[c]
    BY <2>1, UnderWayIssued, WaitedForIsLast
  <2>7. OneUnderWay'
    BY <2>3, <2>5, <2>6 DEF OrderInv, OneUnderWay
  <2>8. ResultsInOrder'
    BY <1>5, <2>2 DEF OrderInv, ResultsInOrder
  <2> QED
    BY <2>7, <2>8 DEF OrderInv
<1>6. CASE Recording
  <2> DEFINE c == blocked.check
  <2>1. /\ blocked \in RoundResult /\ c \in DOMAIN active /\ blocked.slot = nextDue[c]
        /\ results' = Append(results, blocked) /\ UNCHANGED <<jobs, rounds>>
    BY <1>6 DEF Recording, RecordSkippedRound, TInv, TypeOK, SchedulerTypeOK, BetweenTicks,
                SlotsFresh
  <2>2. SlotsIn(results)' = SlotsIn(results) \cup {<<c, nextDue[c]>>}
        /\ issued' = issued \cup {<<c, nextDue[c]>>}
    BY <1>6, <2>1, RecordMoves DEF Recording, SlotOf
  <2>3. <<c, nextDue[c]>> \notin issued
    BY <2>1, WaitedForIsNew
  <2>4. UnderWay' \subseteq UnderWay
    BY <1>2, <1>3, <2>1
  <2>5. Reported' = Reported \cup {<<c, nextDue[c]>>}
    BY <2>1, <2>2 DEF Reported
  <2>6. \A e \in UnderWay : e[1] # c
    BY <1>1, <2>2, <2>3 DEF InTurn
  <2>7. \A e \in Reported : e[1] = c => e[2] < blocked.slot
    BY <2>1, UnderWayIssued, WaitedForIsLast
  <2>8. OneUnderWay'
    BY <2>4, <2>5, <2>6 DEF OrderInv, OneUnderWay
  <2>9. ResultsInOrder'
    BY <2>1, <2>7, LastInOrder DEF OrderInv
  <2> QED
    BY <2>8, <2>9 DEF OrderInv
<1>7. ASSUME NEW w \in Workers, Taking(w) PROVE OrderInv'
  <2>1. /\ jobs \in Seq(RoundJob) /\ jobs # <<>> /\ jobs' = Tail(jobs)
        /\ worker \in [Workers -> [state : WorkerStates, job : RoundJob \cup {NoRound}]]
        /\ worker' = [worker EXCEPT ![w] = [state |-> "probing", job |-> Head(jobs)]]
        /\ UNCHANGED <<results, rounds>>
    BY <1>7 DEF Taking, TakeJob, TInv, TypeOK, ChannelsTypeOK
  <2>2. SlotsIn(jobs) = SlotsIn(jobs)' \cup {SlotOf(Head(jobs))}
    BY <2>1, HeadLeaves
  <2>3. ASSUME NEW v \in Workers, Probes(v)' PROVE SlotOf(worker'[v].job) \in UnderWay
    <3>1. CASE v = w
      BY <2>1, <2>2, <3>1 DEF UnderWay
    <3>2. CASE v # w
      BY <2>1, <2>3, <3>2 DEF UnderWay, Probes
    <3> QED
      BY <3>1, <3>2
  <2>4. UnderWay' \subseteq UnderWay
    BY <2>2, <2>3 DEF UnderWay
  <2>5. Reported' = Reported /\ ResultsInOrder'
    BY <2>1 DEF Reported, OrderInv, ResultsInOrder
  <2> QED
    BY <2>4, <2>5, FewerInOrder DEF OrderInv
<1>8. ASSUME NEW w \in Workers, Sending(w) PROVE OrderInv'
  <2> DEFINE job == worker[w].job
  <2>1. /\ job \in RoundJob /\ Probes(w)
        /\ results' = Append(results, Executed(job)) /\ UNCHANGED <<jobs, rounds>>
    BY <1>8 DEF Sending, SendResult, Probes, TInv, HandsFull
  <2>2. Executed(job) \in RoundResult /\ SlotOf(Executed(job)) = SlotOf(job)
        /\ SlotOf(job)[1] = job.check /\ SlotOf(job)[2] = job.slot
        /\ Executed(job).check = job.check /\ Executed(job).slot = job.slot
    BY <2>1 DEF Executed, RoundJob, RoundResult, Statuses, SlotOf
  <2>3. /\ HandSlots = HandSlots' \cup {SlotOf(job)} /\ SlotOf(job) \notin HandSlots'
        /\ SlotsIn(results)' = SlotsIn(results) \cup {SlotOf(job)}
    BY <1>8, SendMoves DEF Sending, PlacesApart
  <2>4. SlotOf(job) \in UnderWay
    BY <2>1 DEF UnderWay
  <2>5. UnderWay' \subseteq UnderWay
  <3>1. \A v \in Workers : ~TakeJob(v)
      BY <1>3, <2>1
  <3> QED
      BY <1>2, <2>1, <3>1
  <2>6. SlotOf(job) \notin UnderWay'
    <3>1. TInv' /\ PlacedInv'
      BY TypeStep, PlacedStep
    <3>2. UnderWay' \subseteq SlotsIn(jobs)' \cup HandSlots'
      <4>1. \A v \in Workers : Probes(v)' => v \in InHand'
        BY <3>1, NoRoundIsNoJob DEF Probes, InHand, TInv, HandsFull
      <4> QED
        BY <4>1 DEF UnderWay, HandSlots
    <3>3. SlotOf(job) \notin SlotsIn(jobs)'
      <4>1. SlotsIn(jobs)' = SlotsIn(jobs)
        BY <2>1
      <4> QED
        BY <2>3, <4>1 DEF PlacesApart
    <3> QED
      BY <2>3, <3>2, <3>3
  <2>7. Reported' = Reported \cup {SlotOf(job)}
    BY <2>1, <2>3 DEF Reported
  <2>8. \A e \in Reported : e[1] = job.check => e[2] < job.slot
    BY <2>2, <2>4 DEF OrderInv, OneUnderWay
  <2>9. \A d \in UnderWay' : d[1] # SlotOf(job)[1]
    BY <2>4, <2>5, <2>6 DEF OrderInv, OneUnderWay
  <2>10. ResultsInOrder'
    BY <2>1, <2>2, <2>8, LastInOrder DEF OrderInv
  <2> HIDE DEF job
  <2>11. OneUnderWay'
    BY <2>5, <2>7, <2>9 DEF OrderInv, OneUnderWay
  <2> QED
    BY <2>10, <2>11 DEF OrderInv
<1>9. CASE Filing
  <2>1. /\ results \in Seq(RoundResult) /\ results # <<>> /\ results' = Tail(results)
        /\ rounds' \subseteq rounds \cup {Head(results)}
        /\ UNCHANGED <<jobs, worker>>
    BY <1>9, FileMoves DEF Filing
  <2>2. SlotsIn(results) = SlotsIn(results)' \cup {SlotOf(Head(results))}
    BY <2>1, HeadLeaves
  <2>3. Reported' \subseteq Reported
    BY <2>1, <2>2 DEF Reported, SlotsOf
  <2>4. UnderWay' = UnderWay
    BY <2>1 DEF UnderWay, Probes
  <2> QED
    BY <1>9, <2>3, <2>4, FewerInOrder, HeadInOrder DEF Filing, OrderInv
<1> QED
    BY <1>4, <1>5, <1>6, <1>7, <1>8, <1>9, StepMovesOne DEF Dispatching

LEMMA OrderInit == Init => OrderInv
<1> SUFFICES ASSUME Init PROVE OrderInv
    OBVIOUS
<1>1. /\ jobs = <<>> /\ results = <<>> /\ rounds = {}
      /\ \A w \in Workers : ~Probes(w)
    BY DEF Init, ChannelsInit, WriterInit, Probes
<1>2. UnderWay = {} /\ DOMAIN results = {}
    BY <1>1, EmptyChannel DEF UnderWay
<1> QED
    BY <1>1, <1>2 DEF OrderInv, OneUnderWay, ResultsInOrder

\* A result stored is the last of its check, and the state is upserted from it.
LEMMA LastStep ==
    ASSUME TInv, OrderInv, LastRoundIsLast, [Next]_vars
    PROVE  LastRoundIsLast'
<1> SUFFICES ASSUME ~StorageFails PROVE LastRoundIsLast'
    BY DEF LastRoundIsLast
<1>1. CASE UNCHANGED <<rounds, currentState>>
    BY <1>1 DEF LastRoundIsLast
<1>2. CASE Writing /\ ~UNCHANGED <<rounds, currentState>>
  <2> DEFINE q == Head(results)
  <2>1. WriteRound /\ rounds' = rounds \cup {q} /\ q \in RoundResult
        /\ currentState' = [currentState EXCEPT ![q.check] = q]
        /\ currentState \in [Checks -> RoundResult \cup {NoResult}]
        /\ rounds \in SUBSET RoundResult
    BY <1>2
    DEF Writing, WriterStep, WriteRound, WriterExits, EvaluateAlert, DiscardInactive,
        RejectDuplicate, InsertFails, UpsertFails, StoreRound, DropResult,
        TInv, TypeOK, ChannelsTypeOK, WriterTypeOK
  <2>2. \A r \in rounds : r.check = q.check => r.slot < q.slot
    BY <2>1, HeadInOrder DEF OrderInv
  <2> HIDE DEF q
  <2>3. q.check \in Checks /\ q.slot \in Nat /\ \A r \in rounds : r.slot \in Nat
    BY <2>1 DEF RoundResult, Slots
  <2>4. ASSUME NEW r \in rounds' PROVE currentState'[r.check].slot >= r.slot
    <3>1. CASE r.check = q.check
      BY <2>1, <2>2, <2>3, <2>4, <3>1
    <3>2. CASE r.check # q.check
      <4>1. r \in rounds /\ currentState'[r.check] = currentState[r.check]
        BY <2>1, <2>4, <3>2
      <4> QED
        BY <4>1 DEF LastRoundIsLast
    <3> QED
      BY <3>1, <3>2
  <2> QED
    BY <2>4 DEF LastRoundIsLast
<1> QED
    BY <1>1, <1>2, OnlyTheWriterWrites

\* The check page shows the last round of the check, as long as the wall clock does not step
\* back, no statement of the writer fails, and a slot is dealt with only when the round before
\* it is no longer under way (worker.rs:73-83, scheduler.rs:184-217, writer.rs:192): the two
\* ways past the last condition are a worker that waits for room in the result channel after
\* it released its check, and an overlap, which is recorded ahead of the round it met.
THEOREM LastRounds ==
    Spec /\ MaxBackSteps = 0 /\ [][InTurn]_vars => []LastRoundIsLast
<1>1. Init => LastRoundIsLast
    BY DEF Init, WriterInit, LastRoundIsLast
<1>2. SlotInv => TInv
    BY DEF SlotInv
<1> QED
    BY <1>1, <1>2, SlotInit, SlotStep, OrderInit, OrderStep, LastStep, PTL DEF Spec

=============================================================================
