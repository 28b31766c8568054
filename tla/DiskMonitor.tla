---------------------------- MODULE DiskMonitor ----------------------------
(***************************************************************************)
(* The disk monitor: every five seconds it compares the free space of the  *)
(* database's file system with two limits, remembers whether scheduling is *)
(* paused, tells the readiness endpoint through a flag and the scheduler   *)
(* through its command channel.                                            *)
(***************************************************************************)
EXTENDS Integers, Sequences

CONSTANTS
    MaxFree,        \* bound of the model: free space, in steps
    Limits,         \* the pairs <<warning_free, critical_free>> of configurations
    CmdCapacity     \* capacity of the scheduler's command channel

ASSUME DiskSizesAssumption == MaxFree \in Nat /\ CmdCapacity \in Nat \ {0}
\* StorageConfig::validate
ASSUME LimitsAssumption ==
    /\ Limits # {} /\ Limits \subseteq (0..MaxFree) \X (0..MaxFree)
    /\ \A l \in Limits : l[2] < l[1]

VARIABLES
    free,           \* free space of the file system
    readable,       \* whether the file system answers
    limits,         \* the limits of the live configuration
    paused,         \* what the monitor decided last
    disk_ready,     \* what readyz reads
    sending,        \* the monitor waits for room in the channel
    cmds,           \* the command channel
    scheduling      \* FALSE while the scheduler is paused

vars == <<free, readable, limits, paused, disk_ready, sending, cmds, scheduling>>

warning == limits[1]
critical == limits[2]

Init ==
    /\ free \in 0..MaxFree /\ readable = TRUE /\ limits \in Limits
    /\ paused = FALSE /\ disk_ready = TRUE
    /\ sending = FALSE /\ cmds = <<>> /\ scheduling = TRUE

\* Space is used and freed, and the file system may stop answering.
Disk ==
    /\ free' \in 0..MaxFree /\ readable' \in BOOLEAN
    /\ <<free', readable'>> # <<free, readable>>
    /\ UNCHANGED <<limits, paused, disk_ready, sending, cmds, scheduling>>

\* A reload replaces the configuration that the monitor reads.
Reload ==
    /\ limits' \in Limits \ {limits}
    /\ UNCHANGED <<free, readable, paused, disk_ready, sending, cmds, scheduling>>

\* Mutant: below the critical limit instead of at or below it.
PausesTooLate == IF paused THEN free <= warning ELSE free < critical

ShouldPause == IF paused THEN free <= warning ELSE free <= critical

Decide ==
    /\ ~sending /\ readable /\ ShouldPause # paused
    /\ paused' = ShouldPause
    /\ disk_ready' = ~paused'
    /\ sending' = TRUE
    /\ UNCHANGED <<free, readable, limits, cmds, scheduling>>

\* The free space cannot be read: nothing is decided, but readiness is gone.
CannotRead ==
    /\ ~sending /\ ~readable
    /\ disk_ready' = FALSE
    /\ UNCHANGED <<free, readable, limits, paused, sending, cmds, scheduling>>

\* Mutant: the decision is dropped when the channel is full.
TrySend ==
    /\ sending /\ sending' = FALSE
    /\ cmds' = IF Len(cmds) < CmdCapacity THEN Append(cmds, paused) ELSE cmds
    /\ UNCHANGED <<free, readable, limits, paused, disk_ready, scheduling>>

\* The monitor waits until the channel has room.
Send ==
    /\ sending /\ Len(cmds) < CmdCapacity
    /\ cmds' = Append(cmds, paused)
    /\ sending' = FALSE
    /\ UNCHANGED <<free, readable, limits, paused, disk_ready, scheduling>>

\* The scheduler takes the next command.
Obey ==
    /\ cmds # <<>>
    /\ scheduling' = ~Head(cmds)
    /\ cmds' = Tail(cmds)
    /\ UNCHANGED <<free, readable, limits, paused, disk_ready, sending>>

Monitor == Decide \/ CannotRead \/ Send

Next == Disk \/ Reload \/ Monitor \/ Obey

Spec == Init /\ [][Next]_vars

\* The monitor's interval ticks for ever and the scheduler's loop goes on.
FairSpec == Spec /\ WF_vars(Monitor) /\ WF_vars(Obey)

-----------------------------------------------------------------------------
(***************************************************************************)
(* Properties.                                                             *)
(***************************************************************************)

TypeOK ==
    /\ free \in 0..MaxFree /\ readable \in BOOLEAN /\ limits \in Limits
    /\ paused \in BOOLEAN /\ disk_ready \in BOOLEAN
    /\ sending \in BOOLEAN /\ scheduling \in BOOLEAN
    /\ cmds \in Seq(BOOLEAN) /\ Len(cmds) <= CmdCapacity

\* What the scheduler will do once it obeyed the commands under way.
Intended ==
    IF sending THEN paused
    ELSE IF cmds # <<>> THEN cmds[Len(cmds)] ELSE ~scheduling

\* No decision is lost on the way to the scheduler, in whatever order the
\* monitor decides, waits for room and the scheduler obeys: commands alternate,
\* and the last one is the decision.  A pause is never reported as ready.
DecisionsArrive ==
    /\ Intended = paused
    /\ paused => ~disk_ready
    /\ \A i \in 1..(Len(cmds) - 1) : cmds[i] # cmds[i + 1]

\* Documented: scheduling pauses at or below the critical limit and resumes
\* only above the warning limit.  When the free space stays on one side of
\* both limits, the scheduler follows for good.
LimitsFollowed ==
    /\ <>[](readable /\ free <= critical) => <>[]~scheduling
    /\ <>[](readable /\ free > warning) => <>[]scheduling

\* Documented: readiness reports the disk state, so with free space above the
\* warning limit for good the disk is ready in the end.
ReadyAgain == <>[](readable /\ free > warning) => <>[]disk_ready
=============================================================================
