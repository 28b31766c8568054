------------------------- MODULE DiskMonitorProofs -------------------------
(***************************************************************************)
(* No decision of the disk monitor is lost, for any limits, any free space *)
(* and any capacity of the command channel.                                *)
(***************************************************************************)
EXTENDS DiskMonitor, TLAPS

\* While the monitor waits for room, the last command is the opposite of what
\* it is about to send.
Alternates == sending /\ cmds # <<>> => cmds[Len(cmds)] # paused

Inv == TypeOK /\ DecisionsArrive /\ Alternates

LEMMA InitInv == Init => Inv
<1> SUFFICES ASSUME Init PROVE Inv
  OBVIOUS
<1>1. TypeOK
  <2>1. cmds \in Seq(BOOLEAN) /\ Len(cmds) <= CmdCapacity
    BY DiskSizesAssumption DEF Init
  <2>2. free \in 0..MaxFree /\ readable \in BOOLEAN /\ limits \in Limits
    BY DEF Init
  <2>3. /\ paused \in BOOLEAN /\ disk_ready \in BOOLEAN
        /\ sending \in BOOLEAN /\ scheduling \in BOOLEAN
    BY DEF Init
  <2> QED BY <2>1, <2>2, <2>3 DEF TypeOK
<1>2. Intended = paused
  BY DEF Init, Intended
<1>3. \A i \in 1..(Len(cmds) - 1) : cmds[i] # cmds[i + 1]
  BY DEF Init
<1> QED BY <1>1, <1>2, <1>3 DEF Inv, DecisionsArrive, Alternates, Init

\* The free space and the limits do not take part, nor does a step that
\* changes nothing but the readiness.
LEMMA UnchangedKeepsInv ==
  ASSUME Inv, UNCHANGED <<paused, sending, cmds, scheduling>>,
         free' \in 0..MaxFree, readable' \in BOOLEAN, limits' \in Limits,
         disk_ready' \in BOOLEAN, disk_ready' => disk_ready
  PROVE  Inv'
<1>1. TypeOK'
  BY DEF Inv, TypeOK
<1>2. Intended' = paused'
  BY DEF Inv, DecisionsArrive, Intended
<1>3. \A i \in 1..(Len(cmds') - 1) : cmds'[i] # cmds'[i + 1]
  BY DEF Inv, DecisionsArrive
<1>4. Alternates'
  BY DEF Inv, Alternates
<1>5. paused' => ~disk_ready'
  BY DEF Inv, DecisionsArrive
<1> QED BY <1>1, <1>2, <1>3, <1>4, <1>5 DEF Inv, DecisionsArrive

LEMMA EnvironmentKeepsInv == Inv /\ (Disk \/ Reload) => Inv'
<1> SUFFICES ASSUME Inv, Disk \/ Reload PROVE Inv'
  OBVIOUS
<1>1. /\ UNCHANGED <<paused, sending, cmds, scheduling>>
      /\ disk_ready' = disk_ready
      /\ free' \in 0..MaxFree /\ readable' \in BOOLEAN /\ limits' \in Limits
      /\ disk_ready' \in BOOLEAN
  BY DEF Disk, Reload, Inv, TypeOK
<1> QED BY <1>1, UnchangedKeepsInv

LEMMA DecideKeepsInv == Inv /\ Decide => Inv'
<1> SUFFICES ASSUME Inv, Decide PROVE Inv'
  OBVIOUS
<1>0. paused' # paused
  BY DEF Decide
<1>1. /\ paused' \in BOOLEAN /\ disk_ready' \in BOOLEAN /\ sending' \in BOOLEAN
      /\ paused' => ~disk_ready'
  <2>1. ShouldPause \in BOOLEAN
    <3>1. limits[1] \in Nat /\ limits[2] \in Nat /\ free \in Nat
      BY LimitsAssumption, DiskSizesAssumption DEF Inv, TypeOK
    <3>2. (free <= limits[1]) \in BOOLEAN /\ (free <= limits[2]) \in BOOLEAN
      BY <3>1
    <3> QED BY <3>2 DEF ShouldPause, warning, critical
  <2> QED BY <2>1 DEF Decide
<1>2. ~sending /\ sending' /\ UNCHANGED <<free, readable, limits, cmds, scheduling>>
  BY DEF Decide
<1>3. TypeOK'
  BY <1>1, <1>2 DEF Inv, TypeOK
<1>4. Intended' = paused'
  BY <1>2 DEF Intended
<1>5. \A i \in 1..(Len(cmds') - 1) : cmds'[i] # cmds'[i + 1]
  BY <1>2 DEF Inv, DecisionsArrive
<1>6. Alternates'
  <2>1. cmds # <<>> => cmds[Len(cmds)] = paused
    BY <1>2 DEF Inv, DecisionsArrive, Intended
  <2>2. cmds' # <<>> => cmds'[Len(cmds')] = paused
    BY <1>2, <2>1
  <2>3. cmds' # <<>> => cmds'[Len(cmds')] # paused'
    BY <1>0, <2>2
  <2> QED BY <2>3 DEF Alternates
<1>7. DecisionsArrive'
  <2>1. paused' => ~disk_ready'
    BY <1>1
  <2> QED BY <1>4, <1>5, <2>1, Zenon DEF DecisionsArrive
<1> QED BY <1>3, <1>6, <1>7 DEF Inv

LEMMA CannotReadKeepsInv == Inv /\ CannotRead => Inv'
<1> SUFFICES ASSUME Inv, CannotRead PROVE Inv'
  OBVIOUS
<1>1. /\ UNCHANGED <<paused, sending, cmds, scheduling>>
      /\ disk_ready' = FALSE
      /\ free' \in 0..MaxFree /\ readable' \in BOOLEAN /\ limits' \in Limits
  BY DEF CannotRead, Inv, TypeOK
<1> QED BY <1>1, UnchangedKeepsInv

LEMMA SendKeepsInv == Inv /\ Send => Inv'
<1> SUFFICES ASSUME Inv, Send PROVE Inv'
  OBVIOUS
<1>1. /\ sending /\ ~sending' /\ sending' \in BOOLEAN
      /\ UNCHANGED <<free, readable, limits, paused, disk_ready, scheduling>>
  BY DEF Send
<1>2. cmds \in Seq(BOOLEAN) /\ paused \in BOOLEAN /\ CmdCapacity \in Nat
      /\ cmds' = Append(cmds, paused) /\ Len(cmds) < CmdCapacity
  BY DiskSizesAssumption DEF Inv, TypeOK, Send
<1>3. /\ cmds' \in Seq(BOOLEAN) /\ Len(cmds') = Len(cmds) + 1 /\ cmds' # <<>>
      /\ Len(cmds') <= CmdCapacity
      /\ cmds'[Len(cmds) + 1] = paused
      /\ \A i \in 1..Len(cmds) : cmds'[i] = cmds[i]
  BY <1>2
<1>4. TypeOK'
  BY <1>1, <1>3 DEF Inv, TypeOK
<1>5. Intended' = paused'
  BY <1>1, <1>3 DEF Intended
<1>6. \A i \in 1..(Len(cmds') - 1) : cmds'[i] # cmds'[i + 1]
  <2> SUFFICES ASSUME NEW i \in 1..(Len(cmds') - 1) PROVE cmds'[i] # cmds'[i + 1]
    OBVIOUS
  <2>1. Len(cmds) \in Nat /\ i \in 1..Len(cmds) /\ cmds # <<>>
    BY <1>2, <1>3
  <2>2. CASE i = Len(cmds)
    BY <1>1, <1>3, <2>1, <2>2 DEF Inv, Alternates
  <2>3. CASE i # Len(cmds)
    <3>1. i \in 1..(Len(cmds) - 1) /\ i + 1 \in 1..Len(cmds)
      BY <2>1, <2>3
    <3>2. cmds[i] # cmds[i + 1]
      BY <3>1 DEF Inv, DecisionsArrive
    <3> QED BY <3>1, <3>2, <2>1, <1>3
  <2> QED BY <2>2, <2>3
<1> QED BY <1>1, <1>4, <1>5, <1>6 DEF Inv, DecisionsArrive, Alternates

LEMMA ObeyKeepsInv == Inv /\ Obey => Inv'
<1> SUFFICES ASSUME Inv, Obey PROVE Inv'
  OBVIOUS
<1>1. UNCHANGED <<free, readable, limits, paused, disk_ready, sending>>
  BY DEF Obey
<1>2. cmds \in Seq(BOOLEAN) /\ cmds # <<>> /\ cmds' = Tail(cmds)
      /\ Len(cmds) <= CmdCapacity /\ CmdCapacity \in Nat
  BY DiskSizesAssumption DEF Inv, TypeOK, Obey
<1>3. /\ Len(cmds) \in Nat \ {0} /\ Head(cmds) = cmds[1] /\ Head(cmds) \in BOOLEAN
      /\ cmds' \in Seq(BOOLEAN) /\ Len(cmds') = Len(cmds) - 1
      /\ \A i \in 1..Len(cmds') : cmds'[i] = cmds[i + 1]
  BY <1>2
<1>4. scheduling' = ~cmds[1] /\ scheduling' \in BOOLEAN
  BY <1>3 DEF Obey
<1>5. TypeOK'
  BY <1>1, <1>2, <1>3, <1>4 DEF Inv, TypeOK
<1>6. Intended' = paused'
  <2>1. CASE sending
    BY <1>1, <2>1 DEF Intended
  <2>2. CASE ~sending /\ Len(cmds) = 1
    <3>1. cmds' = <<>> /\ cmds[1] = paused
      BY <1>2, <1>3, <2>2 DEF Inv, DecisionsArrive, Intended
    <3>2. paused \in BOOLEAN
      BY DEF Inv, TypeOK
    <3>3. Intended' = ~scheduling'
      BY <1>1, <2>2, <3>1 DEF Intended
    <3> QED BY <1>1, <1>4, <3>1, <3>2, <3>3
  <2>3. CASE ~sending /\ Len(cmds) # 1
    <3>1. cmds' # <<>> /\ cmds'[Len(cmds')] = cmds[Len(cmds)]
      BY <1>2, <1>3, <2>3
    <3>2. cmds[Len(cmds)] = paused
      BY <1>2, <2>3 DEF Inv, DecisionsArrive, Intended
    <3>3. Intended' = cmds'[Len(cmds')]
      BY <1>1, <2>3, <3>1 DEF Intended
    <3> QED BY <1>1, <3>1, <3>2, <3>3
  <2> QED BY <2>1, <2>2, <2>3
<1>7. \A i \in 1..(Len(cmds') - 1) : cmds'[i] # cmds'[i + 1]
  <2> SUFFICES ASSUME NEW i \in 1..(Len(cmds') - 1) PROVE cmds'[i] # cmds'[i + 1]
    OBVIOUS
  <2>1. /\ i \in 1..Len(cmds') /\ i + 1 \in 1..Len(cmds')
        /\ i + 1 \in 1..(Len(cmds) - 1)
    BY <1>3
  <2>2. cmds[i + 1] # cmds[(i + 1) + 1]
    BY <2>1 DEF Inv, DecisionsArrive
  <2> QED BY <1>3, <2>1, <2>2
<1>8. Alternates'
  <2> SUFFICES ASSUME sending, cmds' # <<>> PROVE cmds'[Len(cmds')] # paused
    BY <1>1 DEF Alternates
  <2>1. cmds'[Len(cmds')] = cmds[Len(cmds)]
    BY <1>2, <1>3
  <2> QED BY <1>2, <2>1 DEF Inv, Alternates
<1> QED BY <1>1, <1>5, <1>6, <1>7, <1>8 DEF Inv, DecisionsArrive

LEMMA StepKeepsInv == Inv /\ [Next]_vars => Inv'
<1>1. ASSUME Inv, UNCHANGED vars PROVE Inv'
  BY <1>1, UnchangedKeepsInv DEF Inv, TypeOK, vars
<1> QED
  BY <1>1, EnvironmentKeepsInv, DecideKeepsInv, CannotReadKeepsInv, SendKeepsInv, ObeyKeepsInv
  DEF Next, Monitor

\* The variables keep their types, and the channel its capacity.
THEOREM MonitorTypeCorrect == Spec => []TypeOK
<1>1. Inv => TypeOK
  BY DEF Inv
<1> QED BY InitInv, StepKeepsInv, <1>1, PTL DEF Spec

\* What the scheduler will have obeyed in the end is what the monitor decided
\* last; pauses and resumptions alternate, and a pause is never reported as
\* ready.
THEOREM NoDecisionLost == Spec => []DecisionsArrive
<1>1. Inv => DecisionsArrive
  BY DEF Inv
<1> QED BY InitInv, StepKeepsInv, <1>1, PTL DEF Spec
=============================================================================
