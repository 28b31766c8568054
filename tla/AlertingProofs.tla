--------------------------- MODULE AlertingProofs ---------------------------
(***************************************************************************)
(* What a notified person can rely on, for any alerts, rules, readings and *)
(* rounds: transitions reach the outbox, events tell the state of their    *)
(* alert, a duration is waited for, repeated notifications are apart, and  *)
(* a rule that is gone is not evaluated and its alert is off.              *)
(***************************************************************************)
EXTENDS Alerting, SequenceTheorems, FiniteSetTheorems, TLAPS

Times == Nat \cup {Never}
On == {"firing", "pending_clear"}
RowStates == {"normal", "pending_fire"} \cup On
Rows == [state : RowStates, entered : Times, first : Times, notified : Times]
Verdicts == [row : Rows, tell : {"nothing", "firing", "resolved"}]

Evaluations ==
    [step : {"idle", "begun", "decided", "stored", "reported"}, todo : SUBSET Alerts,
     alert : Alerts \cup {Idle.alert}, at : Nat, seen : Rows, verdict : Verdicts, event : Nat]

Reports ==
    [alert : Alerts, kind : {"nothing", "firing", "resolved"}, from : RowStates, to : RowStates,
     at : Nat, reason : {"condition", "config_removed"}]

AlertTypes ==
    /\ now \in Nat
    /\ row \in [Alerts -> Rows]
    /\ events \in Seq(Reports)
    /\ holding \in [Alerts -> Times]
    /\ evaluator \in [Tasks -> Evaluations]
    /\ \A t \in Tasks : ~AtStep(t, "idle") => evaluator[t].alert \in Alerts
    /\ reloads \in Nat /\ crashes \in Nat /\ failures \in Nat

-----------------------------------------------------------------------------
(***************************************************************************)
(* Types.                                                                  *)
(***************************************************************************)

LEMMA NoRowIsRow == NoRow \in Rows
BY DEF NoRow, Rows, RowStates, Times, Never

LEMMA IdleIsEvaluation == Idle \in Evaluations /\ Idle.step = "idle" /\ Idle.todo = {}
BY NoRowIsRow DEF Idle, Evaluations, Verdicts

LEMMA RoundDecisionTyped ==
    ASSUME NEW r \in Rows, NEW fire \in BOOLEAN, NEW clear \in BOOLEAN, NEW at \in Nat
    PROVE  RoundDecision(r, fire, clear, at) \in Verdicts
<1> USE DEF Rows, RowStates, On, Times, Verdicts, Decide, OrNow
<1>1. CASE r.state = "normal"
    BY <1>1 DEF RoundDecision, FromNormal, Never
<1>2. CASE r.state = "pending_fire"
    BY <1>2 DEF RoundDecision, FromPendingFire, Never
<1>3. CASE r.state = "firing"
    BY <1>3 DEF RoundDecision, FromFiring, StillFiring, Never
<1>4. CASE r.state = "pending_clear"
    BY <1>4 DEF RoundDecision, FromPendingClear, Never
<1> QED
    BY <1>1, <1>2, <1>3, <1>4

LEMMA SilenceDecisionTyped ==
    ASSUME NEW r \in Rows, NEW at \in Nat
    PROVE  SilenceDecision(r, at) \in Verdicts
BY DEF Rows, RowStates, On, Times, Verdicts, Decide, OrNow, SilenceDecision, StillFiring, Never

\* A task that is done with an alert takes up none.
LEMMA FinishTyped ==
    ASSUME AlertTypes, NEW t \in Tasks, Finish(t)
    PROVE  /\ evaluator' \in [Tasks -> Evaluations]
           /\ evaluator'[t].step = "idle" /\ evaluator'[t].todo = evaluator[t].todo
           /\ \A u \in Tasks \ {t} : evaluator'[u] = evaluator[u]
<1>1. Idle \in Evaluations /\ Idle.step = "idle" /\ Idle.todo = {}
    BY IdleIsEvaluation
<1>2. evaluator[t] \in Evaluations
    BY DEF AlertTypes
<1>3. [Idle EXCEPT !.todo = evaluator[t].todo, !.at = evaluator[t].at] \in Evaluations
    BY <1>1, <1>2 DEF Evaluations
<1>4. [Idle EXCEPT !.todo = evaluator[t].todo, !.at = evaluator[t].at].step = "idle"
    BY <1>1, <1>3 DEF Evaluations
<1>5. [Idle EXCEPT !.todo = evaluator[t].todo, !.at = evaluator[t].at].todo = evaluator[t].todo
    BY <1>1, <1>3 DEF Evaluations
<1>6. evaluator' = [evaluator EXCEPT ![t] = evaluator'[t]]
    BY DEF Finish, AlertTypes
<1>7. \/ evaluator'[t] = Idle /\ evaluator[t].todo = {}
      \/ evaluator'[t] = [Idle EXCEPT !.todo = evaluator[t].todo, !.at = evaluator[t].at]
    BY DEF Finish, AlertTypes
<1> QED
    BY <1>1, <1>3, <1>4, <1>5, <1>6, <1>7 DEF AlertTypes

\* An evaluation that changes a record in place.
LEMMA MoveTyped ==
    ASSUME AlertTypes, NEW t \in Tasks, NEW e \in Evaluations,
           evaluator' = [evaluator EXCEPT ![t] = e], e.step # "idle" => e.alert \in Alerts
    PROVE  /\ evaluator' \in [Tasks -> Evaluations]
           /\ \A u \in Tasks : evaluator'[u].step # "idle" => evaluator'[u].alert \in Alerts
BY DEF AlertTypes, AtStep

\* The reconciliation turns off the orphans and no other alert, and adds an event that no
\* notifier is told of for each of them.
LEMMA ResolveOrphansIs ==
    ASSUME AlertTypes, NEW standing, ResolveOrphans(standing)
    PROVE  /\ row' \in [Alerts -> Rows] /\ holding' \in [Alerts -> Times]
           /\ events' \in Seq(Reports) /\ Len(events') >= Len(events)
           /\ \A i \in 1..Len(events) : events'[i] = events[i]
           /\ \A i \in 1..Len(events') : i > Len(events) =>
                /\ events'[i].reason = "config_removed" /\ events'[i].kind = "resolved"
                /\ events'[i].alert \in Orphans(standing)
                /\ events'[i].from = row[events'[i].alert].state /\ events'[i].to = "normal"
           /\ \A a \in Orphans(standing) :
                \E i \in 1..Len(events') : i > Len(events) /\ events'[i].alert = a
           /\ \A i, j \in 1..Len(events') :
                i > Len(events) /\ j > Len(events) /\ events'[i].alert = events'[j].alert => i = j
           /\ \A a \in Alerts \ Orphans(standing) : row'[a] = row[a] /\ holding'[a] = holding[a]
           /\ \A a \in Orphans(standing) :
                row'[a].state = "normal" /\ row'[a].first = Never /\ holding'[a] = Never
<1> DEFINE orphans == Orphans(standing)
           n == Cardinality(orphans)
           Order(s) == \A i, j \in DOMAIN s : s[i] = s[j] => i = j
           order == CHOOSE s \in [1..n -> orphans] : Order(s)
           added == [i \in 1..n |->
                [alert |-> order[i], kind |-> "resolved", from |-> row[order[i]].state,
                 to |-> "normal", at |-> now, reason |-> "config_removed"]]
<1>1. orphans \subseteq Alerts
    BY DEF Orphans
<1>2. IsFiniteSet(orphans) /\ n \in Nat /\ ExistsBijection(1..n, orphans)
  <2>1. IsFiniteSet(orphans)
    BY <1>1, AlertsAssumption, FS_Subset
  <2> QED
    BY <2>1, FS_CardinalityType
<1>3. \E s \in [1..n -> orphans] : Order(s)
  <2>1. PICK s : s \in Bijection(1..n, orphans)
    BY <1>2 DEF ExistsBijection
  <2>2. s \in [1..n -> orphans] /\ Order(s)
    BY <2>1 DEF Bijection, Injection, IsInjective
  <2> QED
    BY <2>2
<1>4. order \in [1..n -> orphans] /\ Order(order)
    BY <1>3
<1>5. added \in Seq(Reports) /\ Len(added) = n
  <2>1. ASSUME NEW i \in 1..n PROVE added[i] \in Reports
    <3>1. order[i] \in Alerts
      BY <1>1, <1>4
    <3>2. row[order[i]].state \in RowStates /\ now \in Nat
      BY <3>1 DEF AlertTypes, Rows
    <3> QED
      BY <3>1, <3>2 DEF Reports, RowStates
  <2>2. added \in [1..n -> Reports]
    BY <2>1
  <2> HIDE DEF added, n
  <2>3. added \in Seq(Reports)
    BY <1>2, <2>2, SeqDef
  <2> QED
    BY <1>2, <2>2, <2>3, LenProperties
<1>6. events' = events \o added
    BY DEF ResolveOrphans
<1>7. row' \in [Alerts -> Rows]
  <2>1. ASSUME NEW a \in Alerts
        PROVE  [row[a] EXCEPT !.state = "normal", !.entered = now, !.first = Never] \in Rows
    BY DEF AlertTypes, Rows, RowStates, Times
  <2> QED
    BY <2>1 DEF ResolveOrphans, AlertTypes
<1>8. holding' \in [Alerts -> Times]
    BY DEF ResolveOrphans, AlertTypes, Times
<1>9. \A a \in orphans : \E i \in 1..n : order[i] = a
  <2> HIDE DEF order, orphans
  <2>1. order \in Injection(1..n, orphans)
    BY <1>4 DEF Injection, IsInjective
  <2>2. Cardinality(1..n) = Cardinality(orphans)
    BY <1>2, FS_Interval
  <2>3. order \in Surjection(1..n, orphans)
    BY <1>2, <2>1, <2>2, FS_Injection
  <2> QED
    BY <2>3 DEF Surjection
<1>10. \A i \in 1..n : added[i].alert = order[i]
    OBVIOUS
<1>11. \A i, j \in 1..n : added[i].alert = added[j].alert => i = j
  <2> HIDE DEF order, added, n
  <2>1. \A i, j \in 1..n : order[i] = order[j] => i = j
    BY <1>4
  <2> QED
    BY <1>10, <2>1
<1>12. \A a \in Alerts \ orphans : row'[a] = row[a] /\ holding'[a] = holding[a]
    BY DEF ResolveOrphans
<1>13. ASSUME NEW a \in orphans
       PROVE  row'[a].state = "normal" /\ row'[a].first = Never /\ holding'[a] = Never
  <2>1. /\ row'[a] = [row[a] EXCEPT !.state = "normal", !.entered = now, !.first = Never]
        /\ holding'[a] = Never /\ row[a] \in Rows
    BY <1>1 DEF ResolveOrphans, AlertTypes
  <2> QED
    BY <2>1 DEF Rows
<1>14. \A i \in 1..n :
        /\ added[i].reason = "config_removed" /\ added[i].kind = "resolved"
        /\ added[i].alert \in orphans
        /\ added[i].from = row[added[i].alert].state /\ added[i].to = "normal"
    BY <1>4
<1> HIDE DEF added, n
<1>15. events \in Seq(Reports)
    BY DEF AlertTypes
<1>16. /\ events' \in Seq(Reports) /\ Len(events') = Len(events) + n
       /\ \A i \in 1..Len(events) : events'[i] = events[i]
       /\ \A i \in 1..n : events'[Len(events) + i] = added[i]
  <2>1. Len(events) \in Nat /\ Len(added) = n /\ n \in Nat
    BY <1>2, <1>5, <1>15, LenProperties
  <2>2. /\ events \o added \in Seq(Reports) /\ Len(events \o added) = Len(events) + n
        /\ \A i \in 1..(Len(events) + n) : (events \o added)[i] =
                IF i <= Len(events) THEN events[i] ELSE added[i - Len(events)]
    BY <1>5, <1>15, <2>1, ConcatProperties
  <2>3. events' \in Seq(Reports) /\ Len(events') = Len(events) + n
    BY <1>6, <2>2
  <2>4. ASSUME NEW i \in 1..Len(events) PROVE events'[i] = events[i]
    BY <1>6, <2>1, <2>2
  <2>5. ASSUME NEW i \in 1..n PROVE events'[Len(events) + i] = added[i]
    <3>1. Len(events) + i \in 1..(Len(events) + n) /\ ~(Len(events) + i <= Len(events))
      BY <2>1
    <3>2. (Len(events) + i) - Len(events) = i
      BY <2>1
    <3> QED
      BY <1>6, <2>2, <3>1, <3>2
  <2> QED
    BY <2>3, <2>4, <2>5
<1>17. ASSUME NEW i \in 1..Len(events'), i > Len(events)
       PROVE  /\ events'[i].reason = "config_removed" /\ events'[i].kind = "resolved"
              /\ events'[i].alert \in orphans
              /\ events'[i].from = row[events'[i].alert].state /\ events'[i].to = "normal"
  <2>1. i - Len(events) \in 1..n /\ Len(events) + (i - Len(events)) = i
    BY <1>2, <1>15, <1>16, <1>17
  <2> QED
    BY <1>14, <1>16, <2>1
<1>18. Len(events') >= Len(events)
    BY <1>2, <1>15, <1>16
<1>19. ASSUME NEW a \in orphans
       PROVE  \E i \in 1..Len(events') : i > Len(events) /\ events'[i].alert = a
  <2>1. PICK i \in 1..n : added[i].alert = a
    BY <1>9, <1>10
  <2>2. Len(events) + i \in 1..Len(events') /\ Len(events) + i > Len(events)
    BY <1>2, <1>15, <1>16
  <2> QED
    BY <1>16, <2>1, <2>2
<1>20. ASSUME NEW i \in 1..Len(events'), NEW j \in 1..Len(events'),
              i > Len(events), j > Len(events), events'[i].alert = events'[j].alert
       PROVE  i = j
  <2>1. /\ i - Len(events) \in 1..n /\ Len(events) + (i - Len(events)) = i
        /\ j - Len(events) \in 1..n /\ Len(events) + (j - Len(events)) = j
    BY <1>2, <1>15, <1>16, <1>20
  <2>2. events'[i] = added[i - Len(events)] /\ events'[j] = added[j - Len(events)]
    BY <1>16, <2>1
  <2>3. i - Len(events) = j - Len(events)
    BY <1>11, <1>20, <2>1, <2>2
  <2> QED
    BY <2>1, <2>3
<1> HIDE DEF order, orphans, Order
<1> QED
    BY <1>7, <1>8, <1>16, <1>17, <1>18, <1>12, <1>13, <1>19, <1>20 DEF orphans

LEMMA InitTypes == Init => AlertTypes
<1> SUFFICES ASSUME Init PROVE AlertTypes
    OBVIOUS
<1> QED
    BY NoRowIsRow, IdleIsEvaluation, EmptySeq DEF Init, AlertTypes, AtStep, Times

\* What an evaluation begins with.
LEMMA BeginTyped ==
    ASSUME AlertTypes, NEW t \in Tasks, AtStep(t, "idle"), NEW alerts \in SUBSET Alerts,
           BeginCycle(t, alerts)
    PROVE  /\ evaluator' \in [Tasks -> Evaluations]
           /\ evaluator'[t].step = "idle"
           /\ \A a \in evaluator'[t].todo : a \in alerts \/ a \in evaluator[t].todo
           /\ \A u \in Tasks \ {t} : evaluator'[u] = evaluator[u]
<1>1. evaluator[t] \in Evaluations /\ evaluator[t].step = "idle" /\ now \in Nat
    BY DEF AlertTypes, AtStep
<1>2. LET e == [evaluator[t] EXCEPT !.todo = alerts, !.at = now] IN
      e \in Evaluations /\ e.step = "idle" /\ e.todo = alerts
    BY <1>1 DEF Evaluations
<1>3. CASE alerts = {}
    BY <1>1, <1>3 DEF BeginCycle, AlertTypes
<1>4. CASE alerts # {}
  <2>1. evaluator' = [evaluator EXCEPT ![t] = [evaluator[t] EXCEPT !.todo = alerts, !.at = now]]
    BY <1>4 DEF BeginCycle, AlertTypes
  <2> QED
    BY <1>2, <2>1 DEF AlertTypes
<1> QED
    BY <1>3, <1>4

LEMMA TakeUpTyped ==
    ASSUME AlertTypes, NEW t \in Tasks, TakeUp(t)
    PROVE  /\ evaluator' \in [Tasks -> Evaluations]
           /\ evaluator'[t].step \in {"idle", "begun"}
           /\ evaluator'[t].step = "begun" =>
                evaluator'[t].alert \in Alerts /\ evaluator'[t].alert \in evaluator[t].todo
           /\ evaluator'[t].step = "begun" /\ t = "round" => evaluator'[t].at = now
           /\ evaluator'[t].todo \subseteq evaluator[t].todo
           /\ \A u \in Tasks \ {t} : evaluator'[u] = evaluator[u]
           /\ evaluator[t].todo # {}
<1>1. evaluator[t] \in Evaluations /\ evaluator[t].step = "idle" /\ now \in Nat
    BY DEF AlertTypes, TakeUp, AtStep
<1>2. PICK a \in evaluator[t].todo :
        LET left == evaluator[t].todo \ {a} IN
        evaluator' = [evaluator EXCEPT ![t] =
            IF t = "round" \/ StaysSilent(a)
            THEN [@ EXCEPT !.step = "begun", !.todo = left, !.alert = a,
                           !.at = IF t = "round" THEN now ELSE evaluator[t].at]
            ELSE IF left = {} THEN Idle ELSE [@ EXCEPT !.todo = left]]
    BY DEF TakeUp
<1>3. a \in Alerts
    BY <1>1 DEF Evaluations
<1> DEFINE left == evaluator[t].todo \ {a}
           time == IF t = "round" THEN now ELSE evaluator[t].at
           begun == [evaluator[t] EXCEPT !.step = "begun", !.todo = left, !.alert = a, !.at = time]
           passed == [evaluator[t] EXCEPT !.todo = left]
<1>4. /\ begun \in Evaluations /\ begun.step = "begun" /\ begun.alert = a
      /\ begun.todo \subseteq evaluator[t].todo
      /\ t = "round" => begun.at = now
    BY <1>1, <1>3 DEF Evaluations
<1>5. passed \in Evaluations /\ passed.step = "idle" /\ passed.todo \subseteq evaluator[t].todo
    BY <1>1, <1>3 DEF Evaluations
<1>6. \E e \in {begun, Idle, passed} : evaluator' = [evaluator EXCEPT ![t] = e]
  <2>1. CASE t = "round" \/ StaysSilent(a)
    BY <1>1, <1>2, <2>1 DEF AlertTypes
  <2>2. CASE ~(t = "round" \/ StaysSilent(a)) /\ left = {}
    BY <1>1, <1>2, <2>2 DEF AlertTypes
  <2>3. CASE ~(t = "round" \/ StaysSilent(a)) /\ left # {}
    BY <1>1, <1>2, <2>3 DEF AlertTypes
  <2> QED
    BY <2>1, <2>2, <2>3
<1> HIDE DEF begun, passed
<1>7. PICK e \in {begun, Idle, passed} : evaluator' = [evaluator EXCEPT ![t] = e]
    BY <1>6
<1>8. /\ e \in Evaluations /\ e.step \in {"idle", "begun"} /\ e.todo \subseteq evaluator[t].todo
      /\ e.step = "begun" => e.alert = a /\ (t = "round" => e.at = now)
    BY <1>4, <1>5, <1>7, IdleIsEvaluation
<1>9. evaluator'[t] = e /\ \A u \in Tasks \ {t} : evaluator'[u] = evaluator[u]
    BY <1>7 DEF AlertTypes
<1> QED
    BY <1>2, <1>3, <1>7, <1>8, <1>9 DEF AlertTypes

\* A decision, of either task.
LEMMA DecidedTyped ==
    ASSUME AlertTypes, NEW t \in Tasks, NEW verdict \in Verdicts, Decided(t, verdict),
           evaluator[t].alert \in Alerts
    PROVE  /\ evaluator' \in [Tasks -> Evaluations]
           /\ evaluator'[t].step = "decided" /\ evaluator'[t].verdict = verdict
           /\ evaluator'[t].seen = row[evaluator[t].alert]
           /\ evaluator'[t].alert = evaluator[t].alert /\ evaluator'[t].at = evaluator[t].at
           /\ evaluator'[t].todo = evaluator[t].todo
           /\ \A u \in Tasks \ {t} : evaluator'[u] = evaluator[u]
<1>1. evaluator[t] \in Evaluations /\ row[evaluator[t].alert] \in Rows
    BY DEF AlertTypes
<1> QED
    BY <1>1 DEF Decided, AlertTypes, Evaluations

\* A window of a round has some outcome of the two conditions.
LEMMA ReadingTyped ==
    ASSUME NEW a \in Alerts, NEW reading \in ReadingsOf(a)
    PROVE  reading.fire \in BOOLEAN /\ reading.clear \in BOOLEAN
<1>1. CASE a \in SilenceAlerts
  <2>1. reading = [fire |-> FALSE, clear |-> TRUE]
    BY <1>1 DEF ReadingsOf
  <2> QED
    BY <2>1
<1>2. CASE a \notin SilenceAlerts
    BY <1>2, ReadingsAssumption DEF ReadingsOf
<1> QED
    BY <1>1, <1>2

LEMMA StoreTyped ==
    ASSUME AlertTypes, NEW t \in Tasks, StoreRow(t)
    PROVE  /\ evaluator' \in [Tasks -> Evaluations] /\ row' \in [Alerts -> Rows]
           /\ row' = [row EXCEPT ![evaluator[t].alert] = evaluator[t].verdict.row]
           /\ \A u \in Tasks \ {t} : evaluator'[u] = evaluator[u]
           /\ evaluator'[t].todo = evaluator[t].todo
           /\ IF evaluator[t].verdict.tell = "nothing" THEN evaluator'[t].step = "idle"
              ELSE evaluator'[t] = [evaluator[t] EXCEPT !.step = "stored"]
<1>1. evaluator[t] \in Evaluations /\ evaluator[t].alert \in Alerts
    BY DEF AlertTypes, StoreRow, AtStep
<1>2. evaluator[t].verdict.row \in Rows
    BY <1>1 DEF Evaluations, Verdicts
<1>3. row' = [row EXCEPT ![evaluator[t].alert] = evaluator[t].verdict.row]
    BY DEF StoreRow
<1>4. CASE evaluator[t].verdict.tell = "nothing"
    BY <1>1, <1>2, <1>3, <1>4, FinishTyped DEF StoreRow, AlertTypes
<1>5. CASE evaluator[t].verdict.tell # "nothing"
  <2>1. evaluator' = [evaluator EXCEPT ![t] = [evaluator[t] EXCEPT !.step = "stored"]]
    BY <1>5 DEF StoreRow, AlertTypes
  <2>2. [evaluator[t] EXCEPT !.step = "stored"] \in Evaluations
    BY <1>1 DEF Evaluations
  <2>3. [evaluator[t] EXCEPT !.step = "stored"].todo = evaluator[t].todo
    BY <1>1 DEF Evaluations
  <2> HIDE DEF Evaluations
  <2> QED
    BY <1>2, <1>3, <1>5, <2>1, <2>2, <2>3 DEF AlertTypes
<1> QED
    BY <1>4, <1>5

LEMMA InsertTyped ==
    ASSUME AlertTypes, NEW t \in Tasks, InsertEvent(t)
    PROVE  /\ evaluator' \in [Tasks -> Evaluations] /\ events' \in Seq(Reports)
           /\ Len(events') = Len(events) + 1
           /\ \A i \in 1..Len(events) : events'[i] = events[i]
           /\ events'[Len(events) + 1] = EventOf(evaluator[t])
           /\ evaluator'[t].step = "reported" /\ evaluator'[t].event = Len(events) + 1
           /\ evaluator'[t].alert = evaluator[t].alert /\ evaluator[t].alert \in Alerts
           /\ evaluator'[t].todo = evaluator[t].todo
           /\ \A u \in Tasks \ {t} : evaluator'[u] = evaluator[u]
<1>1. evaluator[t] \in Evaluations /\ evaluator[t].alert \in Alerts
    BY DEF AlertTypes, InsertEvent, AtStep
<1>2. EventOf(evaluator[t]) \in Reports
    BY <1>1 DEF EventOf, Reports, Evaluations, Verdicts, Rows
<1>3. /\ events' \in Seq(Reports) /\ Len(events') = Len(events) + 1 /\ Len(events) \in Nat
      /\ \A i \in 1..Len(events) : events'[i] = events[i]
      /\ events'[Len(events) + 1] = EventOf(evaluator[t])
  <2>1. events \in Seq(Reports) /\ events' = Append(events, EventOf(evaluator[t]))
    BY DEF InsertEvent, AlertTypes
  <2> QED
    BY <1>2, <2>1, AppendProperties, LenProperties
<1>4. evaluator' = [evaluator EXCEPT ![t] =
            [evaluator[t] EXCEPT !.step = "reported", !.event = Len(events')]]
    BY DEF InsertEvent, AlertTypes
<1>5. ASSUME NEW n \in Nat
      PROVE  LET e == [evaluator[t] EXCEPT !.step = "reported", !.event = n] IN
             /\ e \in Evaluations /\ e.step = "reported" /\ e.event = n
             /\ e.alert = evaluator[t].alert /\ e.todo = evaluator[t].todo
    BY <1>1 DEF Evaluations
<1>6. Len(events') \in Nat
    BY <1>3
<1>7. LET e == [evaluator[t] EXCEPT !.step = "reported", !.event = Len(events')] IN
      /\ e \in Evaluations /\ e.step = "reported" /\ e.event = Len(events')
      /\ e.alert = evaluator[t].alert /\ e.todo = evaluator[t].todo
    BY <1>5, <1>6
<1> QED
    BY <1>1, <1>3, <1>4, <1>7 DEF AlertTypes

LEMMA TypesStep == AlertTypes /\ [Next]_vars => AlertTypes'
<1> SUFFICES ASSUME AlertTypes, [Next]_vars PROVE AlertTypes'
    OBVIOUS
<1> USE DEF tables, configuration, history
<1> DEFINE Named(e) == e.step # "idle" => e.alert \in Alerts
<1>0. /\ now \in Nat /\ row \in [Alerts -> Rows] /\ events \in Seq(Reports)
      /\ holding \in [Alerts -> Times] /\ evaluator \in [Tasks -> Evaluations]
      /\ \A t \in Tasks : Named(evaluator[t])
      /\ reloads \in Nat /\ crashes \in Nat /\ failures \in Nat
    BY DEF AlertTypes, AtStep
<1>1. ASSUME /\ now' \in Nat /\ row' \in [Alerts -> Rows] /\ events' \in Seq(Reports)
             /\ holding' \in [Alerts -> Times] /\ evaluator' \in [Tasks -> Evaluations]
             /\ \A t \in Tasks : Named(evaluator'[t])
             /\ reloads' \in Nat /\ crashes' \in Nat /\ failures' \in Nat
      PROVE  AlertTypes'
    BY <1>1 DEF AlertTypes, AtStep
<1>2. ASSUME NEW t \in Tasks, evaluator' \in [Tasks -> Evaluations], Named(evaluator'[t]),
             \A u \in Tasks \ {t} : evaluator'[u] = evaluator[u]
      PROVE  \A u \in Tasks : Named(evaluator'[u])
    BY <1>0, <1>2
<1>3. CASE ClockTicks
    BY <1>0, <1>1, <1>3 DEF ClockTicks
<1>4. CASE RoundStored
    BY <1>0, <1>1, <1>4 DEF RoundStored
<1>5. CASE SilenceFalls
    BY <1>0, <1>1, <1>5 DEF SilenceFalls
<1>6. ASSUME NEW c \in Checks, BeginRound(c) PROVE AlertTypes'
    BY <1>0, <1>1, <1>2, <1>6, BeginTyped DEF BeginRound, BetweenCycles, Tasks
<1>7. CASE BeginSilence
    BY <1>0, <1>1, <1>2, <1>7, BeginTyped, AlertsAssumption
    DEF BeginSilence, BetweenCycles, Tasks
<1>8. CASE NotEnoughData
    BY <1>0, <1>1, <1>2, <1>8, FinishTyped DEF NotEnoughData, Tasks
<1>9. CASE DecideRound
  <2>1. evaluator["round"] \in Evaluations /\ evaluator["round"].alert \in Alerts
    BY <1>0, <1>9 DEF DecideRound, AtStep, Tasks
  <2>2. PICK reading \in ReadingsOf(evaluator["round"].alert) :
            /\ Decided("round", RoundDecision(row[evaluator["round"].alert],
                         reading.fire, reading.clear, evaluator["round"].at))
            /\ holding' = [holding EXCEPT ![evaluator["round"].alert] =
                            IF reading.fire THEN OrNow(@, evaluator["round"].at) ELSE Never]
    BY <1>9 DEF DecideRound
  <2>3. RoundDecision(row[evaluator["round"].alert], reading.fire, reading.clear,
                      evaluator["round"].at) \in Verdicts
    BY <1>0, <2>1, <2>2, RoundDecisionTyped, ReadingTyped DEF Evaluations
  <2>4. holding' \in [Alerts -> Times]
    BY <1>0, <2>1, <2>2 DEF Evaluations, OrNow, Times
  <2>5. evaluator' \in [Tasks -> Evaluations] /\ Named(evaluator'["round"])
        /\ \A u \in Tasks \ {"round"} : evaluator'[u] = evaluator[u]
    BY <2>1, <2>2, <2>3, DecidedTyped DEF Tasks
  <2> QED
    BY <1>0, <1>1, <1>2, <1>9, <2>4, <2>5 DEF DecideRound, Tasks
<1>10. CASE DecideSilence
  <2>1. evaluator["silence"] \in Evaluations /\ evaluator["silence"].alert \in Alerts
    BY <1>0, <1>10 DEF DecideSilence, AtStep, Tasks
  <2>2. holding' \in [Alerts -> Times]
    BY <1>0, <1>10, <2>1 DEF DecideSilence, Evaluations, OrNow, Times
  <2>3. SilenceDecision(row[evaluator["silence"].alert], evaluator["silence"].at) \in Verdicts
    BY <1>0, <2>1, SilenceDecisionTyped DEF Evaluations
  <2>4. evaluator' \in [Tasks -> Evaluations] /\ Named(evaluator'["silence"])
        /\ \A u \in Tasks \ {"silence"} : evaluator'[u] = evaluator[u]
    BY <1>10, <2>1, <2>3, DecidedTyped, FinishTyped DEF DecideSilence, Tasks
  <2> QED
    BY <1>0, <1>1, <1>2, <1>10, <2>2, <2>4 DEF DecideSilence, Tasks
<1>11. ASSUME NEW t \in Tasks, TakeUp(t) PROVE AlertTypes'
  <2>1. evaluator' \in [Tasks -> Evaluations] /\ Named(evaluator'[t])
        /\ \A u \in Tasks \ {t} : evaluator'[u] = evaluator[u]
    BY <1>11, TakeUpTyped
  <2> QED
    BY <1>0, <1>1, <1>2, <1>11, <2>1 DEF TakeUp
<1>12. ASSUME NEW t \in Tasks, StoreRow(t) PROVE AlertTypes'
  <2>1. evaluator[t] \in Evaluations /\ evaluator[t].alert \in Alerts
    BY <1>0, <1>12 DEF StoreRow, AtStep
  <2>2. [evaluator[t] EXCEPT !.step = "stored"].alert = evaluator[t].alert
    BY <2>1 DEF Evaluations
  <2>3. /\ evaluator' \in [Tasks -> Evaluations] /\ row' \in [Alerts -> Rows]
        /\ Named(evaluator'[t]) /\ \A u \in Tasks \ {t} : evaluator'[u] = evaluator[u]
    BY <1>12, <2>1, <2>2, StoreTyped
  <2> QED
    BY <1>0, <1>1, <1>2, <1>12, <2>3 DEF StoreRow
<1>13. ASSUME NEW t \in Tasks, InsertEvent(t) PROVE AlertTypes'
  <2>1. /\ evaluator' \in [Tasks -> Evaluations] /\ events' \in Seq(Reports)
        /\ Named(evaluator'[t]) /\ \A u \in Tasks \ {t} : evaluator'[u] = evaluator[u]
    BY <1>13, InsertTyped
  <2> QED
    BY <1>0, <1>1, <1>2, <1>13, <2>1 DEF InsertEvent
<1>14. ASSUME NEW t \in Tasks, InsertOutbox(t) PROVE AlertTypes'
  <2>1. /\ evaluator' \in [Tasks -> Evaluations]
        /\ Named(evaluator'[t]) /\ \A u \in Tasks \ {t} : evaluator'[u] = evaluator[u]
    BY <1>14, FinishTyped DEF InsertOutbox
  <2> QED
    BY <1>0, <1>1, <1>2, <1>14, <2>1 DEF InsertOutbox
<1>15. ASSUME NEW t \in Tasks, StatementFails(t) PROVE AlertTypes'
  <2>1. /\ evaluator' \in [Tasks -> Evaluations]
        /\ Named(evaluator'[t]) /\ \A u \in Tasks \ {t} : evaluator'[u] = evaluator[u]
    BY <1>0, <1>15, IdleIsEvaluation DEF StatementFails
  <2> QED
    BY <1>0, <1>1, <1>2, <1>15, <2>1 DEF StatementFails
<1>16. CASE CommitReload
  <2>1. \E standing : ResolveOrphans(standing)
    BY <1>16 DEF CommitReload
  <2>2. row' \in [Alerts -> Rows] /\ holding' \in [Alerts -> Times] /\ events' \in Seq(Reports)
    BY <2>1, ResolveOrphansIs
  <2> QED
    BY <1>0, <1>1, <1>16, <2>2 DEF CommitReload
<1>17. CASE SwapConfig
    BY <1>0, <1>1, <1>17 DEF SwapConfig
<1>18. CASE Restart
  <2>1. row' \in [Alerts -> Rows] /\ holding' \in [Alerts -> Times] /\ events' \in Seq(Reports)
    BY <1>18, ResolveOrphansIs DEF Restart
  <2>2. evaluator' \in [Tasks -> Evaluations] /\ \A t \in Tasks : Named(evaluator'[t])
    BY <1>18, IdleIsEvaluation DEF Restart
  <2> QED
    BY <1>0, <1>1, <1>18, <2>1, <2>2 DEF Restart
<1>19. CASE UNCHANGED vars
    BY <1>0, <1>1, <1>19 DEF vars
<1> QED
    BY <1>3, <1>4, <1>5, <1>6, <1>7, <1>8, <1>9, <1>10, <1>11, <1>12, <1>13, <1>14, <1>15,
       <1>16, <1>17, <1>18, <1>19 DEF Next, Evaluate

-----------------------------------------------------------------------------
(***************************************************************************)
(* Events and the outbox.                                                  *)
(***************************************************************************)

\* No statement fails and the process does not die.
Reliable == MaxFailures = 0 /\ MaxCrashes = 0

OfCondition(i) == i \in 1..Len(events) /\ events[i].reason = "condition"

\* What is in the outbox, and what a task is about to put there, is an event of
\* an evaluator.
EntriesFollow ==
    /\ \A i \in outbox : OfCondition(i)
    /\ \A t \in Tasks : AtStep(t, "reported") => OfCondition(evaluator[t].event)

\* What a task is about to put in the outbox is not there yet, and no other
\* task is about to put it there.
EntriesApart ==
    \A t \in Tasks : AtStep(t, "reported") =>
        /\ evaluator[t].event \notin outbox
        /\ \A u \in Tasks \ {t} :
                AtStep(u, "reported") => evaluator[u].event # evaluator[t].event

\* A failing statement loses one transition at most, a restart two.
Balanced ==
    /\ Cardinality(outbox) + Cardinality(Underway) <= transitions
    /\ transitions <= Cardinality(outbox) + Cardinality(Underway) + failures + 2 * crashes

Sent ==
    /\ IsFiniteSet(outbox) /\ transitions \in Nat
    /\ EntriesFollow /\ EntriesApart /\ Balanced

SentInv == AlertTypes /\ Sent

LEMMA EventsAreSequence == AlertTypes => Len(events) \in Nat /\ DOMAIN events = 1..Len(events)
BY LenProperties DEF AlertTypes

LEMMA TwoTasks == IsFiniteSet(Tasks) /\ Cardinality(Tasks) = 2
<1>1. IsFiniteSet({"round"}) /\ Cardinality({"round"}) = 1
    BY FS_Singleton
<1>2. Tasks = {"round"} \cup {"silence"}
    BY DEF Tasks
<1> QED
    BY <1>1, <1>2, FS_AddElement

LEMMA UnderwayFinite ==
    IsFiniteSet(Underway) /\ Cardinality(Underway) \in Nat /\ Cardinality(Underway) <= 2
BY TwoTasks, FS_Subset, FS_CardinalityType DEF Underway

\* A step of one task that has no transition in hand, before or after.
LEMMA StepAside ==
    ASSUME SentInv, UNCHANGED <<events, outbox, transitions, failures, crashes>>, NEW t \in Tasks,
           evaluator[t].step \notin {"stored", "reported"},
           evaluator'[t].step \notin {"stored", "reported"},
           \A u \in Tasks \ {t} : evaluator'[u] = evaluator[u]
    PROVE  Sent'
<1>1. \A u \in Tasks : AtStep(u, "reported")' <=> AtStep(u, "reported")
    BY DEF AtStep
<1>2. \A u \in Tasks : AtStep(u, "reported") => evaluator'[u] = evaluator[u]
    BY DEF AtStep
<1>3. EntriesFollow' /\ EntriesApart'
    BY <1>1, <1>2 DEF SentInv, Sent, EntriesFollow, EntriesApart, OfCondition
<1>4. Underway' = Underway
    BY DEF Underway, AtStep
<1> QED
    BY <1>3, <1>4 DEF SentInv, Sent, Balanced

\* An event is added, under an id that no entry and no task has.
LEMMA SentInsert ==
    ASSUME SentInv, AlertTypes', NEW t \in Tasks, InsertEvent(t)
    PROVE  Sent'
<1>1. AlertTypes
    BY DEF SentInv
<1>2. /\ Len(events') = Len(events) + 1
      /\ \A i \in 1..Len(events) : events'[i] = events[i]
      /\ events'[Len(events) + 1].reason = "condition"
      /\ evaluator'[t].step = "reported" /\ evaluator'[t].event = Len(events) + 1
      /\ \A u \in Tasks \ {t} : evaluator'[u] = evaluator[u]
      /\ UNCHANGED <<outbox, transitions, failures, crashes>> /\ evaluator[t].step = "stored"
  <2>1. EventOf(evaluator[t]).reason = "condition"
    BY DEF EventOf
  <2> QED
    BY <1>1, <2>1, InsertTyped DEF InsertEvent, AtStep, history
<1>3. Len(events) \in Nat /\ Len(events) + 1 \notin 1..Len(events)
    BY <1>1, EventsAreSequence
<1>4. \A i : OfCondition(i) => OfCondition(i)' /\ i # Len(events) + 1
    BY <1>2, <1>3 DEF OfCondition
<1>5. \A i : i = Len(events) + 1 => OfCondition(i)'
    BY <1>2, <1>3 DEF OfCondition
<1>6. \A u \in Tasks \ {t} : AtStep(u, "reported")' => AtStep(u, "reported")
    BY <1>2 DEF AtStep
<1>7. EntriesFollow'
    BY <1>2, <1>4, <1>5, <1>6 DEF SentInv, Sent, EntriesFollow, OfCondition
<1>8. EntriesApart'
    BY <1>2, <1>4, <1>6 DEF SentInv, Sent, EntriesFollow, EntriesApart
<1>9. Underway' = Underway
    BY <1>2 DEF Underway, AtStep
<1> QED
    BY <1>2, <1>7, <1>8, <1>9 DEF SentInv, Sent, Balanced

\* The entry is added: the transition that was in hand is sent.
LEMMA SentEntry ==
    ASSUME SentInv, NEW t \in Tasks, InsertOutbox(t)
    PROVE  Sent'
<1>1. PICK i : i = evaluator[t].event
    OBVIOUS
<1>2. /\ evaluator'[t].step = "idle" /\ evaluator[t].step = "reported"
      /\ \A u \in Tasks \ {t} : evaluator'[u] = evaluator[u]
      /\ UNCHANGED <<events, transitions, failures, crashes>> /\ outbox' = outbox \cup {i}
    BY <1>1, FinishTyped DEF SentInv, InsertOutbox, OutboxEntry, AtStep, history
<1>3. OfCondition(i) /\ i \notin outbox
      /\ \A u \in Tasks \ {t} : AtStep(u, "reported") => evaluator[u].event # i
    BY <1>1, <1>2 DEF SentInv, Sent, EntriesFollow, EntriesApart, AtStep
<1>4. EntriesFollow' /\ EntriesApart'
    BY <1>2, <1>3 DEF SentInv, Sent, EntriesFollow, EntriesApart, AtStep, OfCondition
<1>5. Underway' = Underway \ {t} /\ t \in Underway
    BY <1>2 DEF Underway, AtStep
<1>6. IsFiniteSet(outbox') /\ Cardinality(outbox') = Cardinality(outbox) + 1
    BY <1>2, <1>3, FS_AddElement DEF SentInv, Sent
<1>7. Cardinality(Underway') = Cardinality(Underway) - 1
    BY <1>5, UnderwayFinite, FS_RemoveElement
<1>8. Cardinality(outbox) \in Nat /\ Cardinality(Underway) \in Nat
    BY UnderwayFinite, FS_CardinalityType DEF SentInv, Sent
<1> QED
    BY <1>2, <1>4, <1>6, <1>7, <1>8 DEF SentInv, Sent, Balanced

\* The row is stored: a transition is in hand when there is one to tell.
LEMMA SentStore ==
    ASSUME SentInv, NEW t \in Tasks, StoreRow(t)
    PROVE  Sent'
<1>1. /\ UNCHANGED <<events, outbox, failures, crashes>> /\ evaluator[t].step = "decided"
      /\ evaluator[t] \in Evaluations /\ \A u \in Tasks \ {t} : evaluator'[u] = evaluator[u]
    BY StoreTyped DEF SentInv, AlertTypes, StoreRow, AtStep
<1>2. CASE evaluator[t].verdict.tell = "nothing"
  <2>1. evaluator'[t].step = "idle" /\ transitions' = transitions
    BY <1>2, StoreTyped DEF SentInv, StoreRow
  <2> QED
    BY <1>1, <2>1, StepAside
<1>3. CASE evaluator[t].verdict.tell # "nothing"
  <2>1. evaluator'[t].step = "stored" /\ transitions' = transitions + 1
    BY <1>1, <1>3, StoreTyped DEF SentInv, StoreRow, Evaluations
  <2>2. EntriesFollow' /\ EntriesApart'
    BY <1>1, <2>1 DEF SentInv, Sent, EntriesFollow, EntriesApart, AtStep, OfCondition
  <2>3. Underway' = Underway \cup {t} /\ t \notin Underway
    BY <1>1, <2>1 DEF Underway, AtStep
  <2>4. Cardinality(Underway') = Cardinality(Underway) + 1
    BY <2>3, UnderwayFinite, FS_AddElement
  <2>5. Cardinality(outbox) \in Nat /\ Cardinality(Underway) \in Nat
    BY UnderwayFinite, FS_CardinalityType DEF SentInv, Sent
  <2> QED
    BY <1>1, <2>1, <2>2, <2>4, <2>5 DEF SentInv, AlertTypes, Sent, Balanced
<1> QED
    BY <1>2, <1>3

\* The transition that the failing statement was to store, report or send is lost.
LEMMA SentFails ==
    ASSUME SentInv, NEW t \in Tasks, StatementFails(t)
    PROVE  Sent'
<1>1. /\ UNCHANGED <<events, outbox, transitions, crashes>> /\ failures' = failures + 1
      /\ evaluator'[t].step = "idle" /\ \A u \in Tasks \ {t} : evaluator'[u] = evaluator[u]
    BY IdleIsEvaluation DEF SentInv, AlertTypes, StatementFails, tables, history
<1>2. EntriesFollow' /\ EntriesApart'
    BY <1>1 DEF SentInv, Sent, EntriesFollow, EntriesApart, AtStep, OfCondition
<1>3. Underway' = Underway \ {t}
    BY <1>1 DEF Underway, AtStep
<1>4. Cardinality(Underway') \in {Cardinality(Underway) - 1, Cardinality(Underway)}
    BY <1>3, UnderwayFinite, FS_RemoveElement
<1>5. /\ Cardinality(outbox) \in Nat /\ Cardinality(Underway) \in Nat
      /\ failures \in Nat /\ crashes \in Nat /\ transitions \in Nat
    BY UnderwayFinite, FS_CardinalityType DEF SentInv, AlertTypes, Sent
<1>6. Balanced'
    BY <1>1, <1>4, <1>5 DEF SentInv, Sent, Balanced
<1> QED
    BY <1>1, <1>2, <1>6 DEF SentInv, Sent

\* The reconciliation adds events and no entry.
LEMMA SentResolve ==
    ASSUME SentInv, NEW standing, ResolveOrphans(standing)
    PROVE  \A i : OfCondition(i) => OfCondition(i)'
<1>1. /\ Len(events') >= Len(events) /\ events' \in Seq(Reports) /\ events \in Seq(Reports)
      /\ \A i \in 1..Len(events) : events'[i] = events[i]
    BY ResolveOrphansIs DEF SentInv, AlertTypes
<1>2. Len(events) \in Nat /\ Len(events') \in Nat
    BY <1>1, LenProperties
<1> QED
    BY <1>1, <1>2 DEF OfCondition

LEMMA SentReload ==
    ASSUME SentInv, CommitReload
    PROVE  Sent'
<1>1. \A i : OfCondition(i) => OfCondition(i)'
    BY SentResolve DEF CommitReload
<1>2. UNCHANGED <<evaluator, outbox, transitions, failures, crashes>>
    BY DEF CommitReload
<1>3. EntriesFollow' /\ EntriesApart'
    BY <1>1, <1>2 DEF SentInv, Sent, EntriesFollow, EntriesApart, AtStep
<1>4. Underway' = Underway
    BY <1>2 DEF Underway, AtStep
<1> QED
    BY <1>2, <1>3, <1>4 DEF SentInv, Sent, Balanced

\* What the two tasks had in hand is lost.
LEMMA SentRestart ==
    ASSUME SentInv, Restart
    PROVE  Sent'
<1>1. \A i : OfCondition(i) => OfCondition(i)'
    BY SentResolve DEF Restart
<1>2. /\ UNCHANGED <<outbox, transitions, failures>> /\ crashes' = crashes + 1
      /\ \A t \in Tasks : evaluator'[t].step = "idle"
    BY IdleIsEvaluation DEF Restart
<1>3. EntriesFollow' /\ EntriesApart'
    BY <1>1, <1>2 DEF SentInv, Sent, EntriesFollow, EntriesApart, AtStep
<1>4. Underway' = {}
    BY <1>2 DEF Underway, AtStep
<1>5. Cardinality(Underway') = 0
    BY <1>4, FS_EmptySet
<1>6. /\ Cardinality(outbox) \in Nat
      /\ failures \in Nat /\ crashes \in Nat /\ transitions \in Nat
    BY FS_CardinalityType DEF SentInv, AlertTypes, Sent
<1>7. Balanced'
    BY <1>2, <1>5, <1>6, UnderwayFinite DEF SentInv, Sent, Balanced
<1> QED
    BY <1>2, <1>3, <1>7 DEF SentInv, Sent

LEMMA SentStep == SentInv /\ [Next]_vars => SentInv'
<1> SUFFICES ASSUME SentInv, [Next]_vars PROVE SentInv'
    OBVIOUS
<1>1. AlertTypes /\ AlertTypes'
    BY TypesStep DEF SentInv
<1> SUFFICES Sent'
    BY <1>1 DEF SentInv
<1> USE DEF tables, configuration, history
<1>2. ASSUME UNCHANGED <<events, outbox, evaluator, transitions, failures, crashes>>
      PROVE  Sent'
    BY <1>2 DEF SentInv, Sent, EntriesFollow, EntriesApart, OfCondition, AtStep, Balanced, Underway
<1>3. CASE ClockTicks \/ RoundStored \/ SilenceFalls \/ SwapConfig \/ UNCHANGED vars
    BY <1>2, <1>3 DEF ClockTicks, RoundStored, SilenceFalls, SwapConfig, vars
<1>4. ASSUME NEW c \in Checks, BeginRound(c) PROVE Sent'
    BY <1>1, <1>4, BeginTyped, StepAside DEF BeginRound, BetweenCycles, AtStep, Tasks
<1>5. CASE BeginSilence
    BY <1>1, <1>5, BeginTyped, AlertsAssumption, StepAside
    DEF BeginSilence, BetweenCycles, AtStep, Tasks
<1>6. CASE NotEnoughData
    BY <1>1, <1>6, FinishTyped, StepAside DEF NotEnoughData, AtStep, Tasks
<1>7. CASE DecideRound
  <2>1. evaluator["round"] \in Evaluations /\ evaluator["round"].alert \in Alerts
    BY <1>1, <1>7 DEF AlertTypes, DecideRound, AtStep, Tasks
  <2>2. PICK reading \in ReadingsOf(evaluator["round"].alert) :
            Decided("round", RoundDecision(row[evaluator["round"].alert],
                         reading.fire, reading.clear, evaluator["round"].at))
    BY <1>7 DEF DecideRound
  <2>3. RoundDecision(row[evaluator["round"].alert], reading.fire, reading.clear,
                      evaluator["round"].at) \in Verdicts
    BY <1>1, <2>1, <2>2, RoundDecisionTyped, ReadingTyped DEF AlertTypes, Evaluations
  <2> QED
    BY <1>1, <1>7, <2>1, <2>2, <2>3, DecidedTyped, StepAside DEF DecideRound, AtStep, Tasks
<1>8. CASE DecideSilence
  <2>1. evaluator["silence"] \in Evaluations /\ evaluator["silence"].alert \in Alerts
    BY <1>1, <1>8 DEF AlertTypes, DecideSilence, AtStep, Tasks
  <2>2. SilenceDecision(row[evaluator["silence"].alert], evaluator["silence"].at) \in Verdicts
    BY <1>1, <2>1, SilenceDecisionTyped DEF AlertTypes, Evaluations
  <2>3. /\ evaluator'["silence"].step \notin {"stored", "reported"}
        /\ \A u \in Tasks \ {"silence"} : evaluator'[u] = evaluator[u]
    BY <1>1, <1>8, <2>1, <2>2, DecidedTyped, FinishTyped DEF DecideSilence, Tasks
  <2> QED
    BY <1>8, <2>3, StepAside DEF DecideSilence, AtStep, Tasks
<1>9. ASSUME NEW t \in Tasks, TakeUp(t) PROVE Sent'
    BY <1>1, <1>9, TakeUpTyped, StepAside DEF TakeUp, AtStep
<1>10. ASSUME NEW t \in Tasks, Evaluate(t) PROVE Sent'
    BY <1>1, <1>9, <1>10, SentStore, SentInsert, SentEntry, SentFails DEF Evaluate
<1> QED
    BY <1>3, <1>4, <1>5, <1>6, <1>7, <1>8, <1>10, SentReload, SentRestart DEF Next

\* Each transition that a row records is sent under an entry of its own, but for one for
\* each statement that failed and one of each evaluator for each restart; what a
\* reconciliation resolves is never sent (alerts.rs:381-664 and 794-809,
\* reconciliation.rs:228-256).  For any number of alerts, reloads, failures and restarts,
\* and however the two evaluators interleave.
THEOREM TransitionsReachOutbox == Spec => []TransitionsSent
<1>1. Init => SentInv
  <2> SUFFICES ASSUME Init PROVE SentInv
    OBVIOUS
  <2>1. \A t \in Tasks : evaluator[t].step = "idle"
    BY IdleIsEvaluation DEF Init
  <2>2. EntriesFollow /\ EntriesApart /\ Underway = {}
    BY <2>1 DEF Init, EntriesFollow, EntriesApart, Underway, AtStep
  <2>3. Cardinality(outbox) = 0 /\ IsFiniteSet(outbox) /\ Cardinality(Underway) = 0
    BY <2>2, FS_EmptySet DEF Init
  <2>4. Balanced /\ transitions \in Nat
    BY <2>3 DEF Init, Balanced
  <2> QED
    BY <2>2, <2>3, <2>4, InitTypes DEF SentInv, Sent
<1>2. SentInv => TransitionsSent
  <2> SUFFICES ASSUME SentInv PROVE TransitionsSent
    OBVIOUS
  <2>1. \A i \in outbox : i \in DOMAIN events /\ events[i].reason = "condition"
    BY EventsAreSequence DEF SentInv, Sent, EntriesFollow, OfCondition
  <2> QED
    BY <2>1, TwoTasks DEF SentInv, Sent, Balanced, TransitionsSent
<1> QED
    BY <1>1, <1>2, SentStep, PTL DEF Spec

-----------------------------------------------------------------------------
(***************************************************************************)
(* What is evaluated.                                                      *)
(***************************************************************************)

\* The task is at the alert, or will come to it in its cycle.
EngagedIn(t, a) ==
    (~AtStep(t, "idle") /\ evaluator[t].alert = a) \/ a \in evaluator[t].todo

\* A task whose evaluation goes on or ends has no alert it had not before.
LEMMA StaysEngaged ==
    ASSUME NEW t \in Tasks, NEW a, \A u \in Tasks \ {t} : evaluator'[u] = evaluator[u],
           evaluator'[t].todo \subseteq evaluator[t].todo,
           \/ AtStep(t, "idle")'
           \/ evaluator'[t].alert = evaluator[t].alert /\ ~AtStep(t, "idle")
           \/ evaluator'[t].alert \in evaluator[t].todo,
           Engaged(a)'
    PROVE  Engaged(a)
<1>1. PICK u \in Tasks : EngagedIn(u, a)'
    BY DEF Engaged, Busy, EngagedIn
<1>2. EngagedIn(u, a)
  <2>1. CASE u = t
    BY <1>1, <2>1 DEF EngagedIn, AtStep
  <2>2. CASE u # t
    BY <1>1, <2>2 DEF EngagedIn, AtStep
  <2> QED
    BY <2>1, <2>2
<1> QED
    BY <1>2 DEF Engaged, Busy, EngagedIn

\* An alert is taken into a cycle where one begins, and nowhere else.
LEMMA EngagedAnew ==
    ASSUME AlertTypes, [Next]_vars, NEW a, Engaged(a)', ~Engaged(a)
    PROVE  live[a] = "kept" \/ LooksAt(a)
<1> USE DEF tables, configuration, history
<1>1. ASSUME UNCHANGED evaluator PROVE FALSE
    BY <1>1 DEF Engaged, Busy, AtStep
<1>2. CASE ClockTicks \/ RoundStored \/ SilenceFalls \/ CommitReload \/ SwapConfig \/ UNCHANGED vars
    BY <1>1, <1>2 DEF ClockTicks, RoundStored, SilenceFalls, CommitReload, SwapConfig, vars
\* Between its cycles a task has no alert, and after it began one those it listed.
<1>3. ASSUME NEW t \in Tasks, BetweenCycles(t), NEW alerts \in SUBSET Alerts,
             BeginCycle(t, alerts)
      PROVE  a \in alerts
  <2>1. /\ AtStep(t, "idle")' /\ evaluator[t].todo = {}
        /\ \A b \in evaluator'[t].todo : b \in alerts
        /\ \A u \in Tasks \ {t} : evaluator'[u] = evaluator[u]
    BY <1>3, BeginTyped DEF BetweenCycles, AtStep
  <2>2. PICK u \in Tasks : EngagedIn(u, a)'
    BY DEF Engaged, Busy, EngagedIn
  <2>3. u = t
    BY <2>1, <2>2 DEF Engaged, Busy, EngagedIn, AtStep
  <2> QED
    BY <2>1, <2>2, <2>3 DEF EngagedIn
<1>4. ASSUME NEW c \in Checks, BeginRound(c) PROVE live[a] = "kept"
    BY <1>3, <1>4 DEF BeginRound, Tasks
<1>5. CASE BeginSilence
  <2>1. {b \in SilenceAlerts : LooksAt(b)} \in SUBSET Alerts
    BY AlertsAssumption
  <2> QED
    BY <1>3, <1>5, <2>1 DEF BeginSilence, Tasks
<1>6. CASE NotEnoughData
    BY <1>6, FinishTyped, StaysEngaged DEF NotEnoughData, AtStep, Tasks
<1>7. ASSUME NEW t \in Tasks, ~AtStep(t, "idle"), NEW verdict, Decided(t, verdict) PROVE FALSE
  <2>1. evaluator[t] \in Evaluations
    BY DEF AlertTypes
  <2>2. /\ evaluator'[t].todo = evaluator[t].todo /\ evaluator'[t].alert = evaluator[t].alert
        /\ \A u \in Tasks \ {t} : evaluator'[u] = evaluator[u]
    BY <1>7, <2>1 DEF Decided, AlertTypes, Evaluations
  <2> QED
    BY <1>7, <2>2, StaysEngaged
<1>8. CASE DecideRound
    BY <1>7, <1>8 DEF DecideRound, AtStep, Tasks
<1>9. CASE DecideSilence
    BY <1>7, <1>9, FinishTyped, StaysEngaged DEF DecideSilence, AtStep, Tasks
<1>10. ASSUME NEW t \in Tasks, TakeUp(t) PROVE FALSE
    BY <1>10, TakeUpTyped, StaysEngaged DEF AtStep
<1>11. ASSUME NEW t \in Tasks, StoreRow(t) PROVE FALSE
  <2>1. evaluator[t] \in Evaluations
    BY DEF AlertTypes
  <2>2. [evaluator[t] EXCEPT !.step = "stored"].alert = evaluator[t].alert
    BY <2>1 DEF Evaluations
  <2> QED
    BY <1>11, <2>2, StoreTyped, StaysEngaged DEF StoreRow, AtStep
<1>12. ASSUME NEW t \in Tasks, InsertEvent(t) PROVE FALSE
    BY <1>12, InsertTyped, StaysEngaged DEF InsertEvent, AtStep
<1>13. ASSUME NEW t \in Tasks, InsertOutbox(t) PROVE FALSE
    BY <1>13, FinishTyped, StaysEngaged DEF InsertOutbox, AtStep
<1>14. ASSUME NEW t \in Tasks, StatementFails(t) PROVE FALSE
  <2>1. /\ AtStep(t, "idle")' /\ evaluator'[t].todo = {}
        /\ \A u \in Tasks \ {t} : evaluator'[u] = evaluator[u]
    BY <1>14, IdleIsEvaluation DEF StatementFails, AtStep, AlertTypes
  <2> QED
    BY <2>1, StaysEngaged
<1>15. CASE Restart
    BY <1>15, IdleIsEvaluation DEF Restart, Engaged, Busy, AtStep
<1> QED
    BY <1>2, <1>4, <1>5, <1>6, <1>8, <1>9, <1>10, <1>11, <1>12, <1>13, <1>14, <1>15
    DEF Next, Evaluate

\* Between the commit and the swap of a reload the database is ahead of the
\* configuration in memory, and at no other time.
ConfigInv == AlertTypes /\ (stage = "running" => live = stored)

LEMMA ConfigStep == ConfigInv /\ [Next]_vars => ConfigInv'
<1> SUFFICES ASSUME ConfigInv, [Next]_vars PROVE ConfigInv'
    OBVIOUS
<1>1. AlertTypes'
    BY TypesStep DEF ConfigInv
<1>2. CASE UNCHANGED configuration
    BY <1>1, <1>2 DEF ConfigInv, configuration
<1>3. CASE CommitReload \/ SwapConfig \/ Restart
    BY <1>1, <1>3 DEF ConfigInv, CommitReload, SwapConfig, Restart
<1> QED
    BY <1>2, <1>3 DEF Next, Evaluate, vars, ClockTicks, RoundStored, SilenceFalls, BeginRound,
       BeginSilence, NotEnoughData, DecideRound, DecideSilence, TakeUp, StoreRow, InsertEvent,
       InsertOutbox, StatementFails

\* An alert whose rule or check a reload removed is in no cycle that begins afterwards
\* (alerts.rs:162-211), whatever the evaluators do, and through restarts, failing statements
\* and further reloads.
THEOREM RemovedStaysOut == Spec => RemovedNotEvaluated
<1>1. Init => ConfigInv
    BY InitTypes DEF Init, ConfigInv
<1>2. ASSUME ConfigInv, [Next]_vars
      PROVE  [\A a \in Alerts :
                stage = "running" /\ live[a] \in {"rule_removed", "check_removed"} /\ ~Engaged(a)
                    => ~Engaged(a)']_vars
    BY <1>2, EngagedAnew DEF ConfigInv, LooksAt
<1> QED
    BY <1>1, <1>2, ConfigStep, PTL DEF Spec, RemovedNotEvaluated

-----------------------------------------------------------------------------
(***************************************************************************)
(* What becomes of an alert that is removed.                               *)
(***************************************************************************)

Gone == {"rule_removed", "check_removed"}

\* While the database has an alert removed that the running configuration still has, no task is
\* in an evaluation of it, nor has it left in its cycle.
NoneInHand == \A a \in Alerts : stored[a] \in Gone /\ live[a] # stored[a] => ~Engaged(a)

\* No reload removes a target.
TargetsStay == "target_removed" \notin ReloadOutcomes

ResolvedInv ==
    /\ ConfigInv
    /\ \A a \in Alerts : stored[a] \in Gone => ~Engaged(a) /\ row[a].state = "normal"

\* The reconciliation leaves no alert on that it removes.
LEMMA OrphansResolved ==
    ASSUME AlertTypes, NEW standing, ResolveOrphans(standing),
           NEW a \in Alerts, standing[a] \in Gone
    PROVE  row'[a].state = "normal"
<1>1. CASE a \in Orphans(standing)
    BY <1>1, ResolveOrphansIs
<1>2. CASE a \notin Orphans(standing)
  <2>1. row'[a] = row[a]
    BY <1>2, ResolveOrphansIs
  <2> QED
    BY <1>2, <2>1 DEF Orphans, Gone, Active
<1> QED
    BY <1>1, <1>2

\* Only the evaluation of an alert writes its row, a reconciliation apart.
LEMMA RowOfOthers ==
    ASSUME AlertTypes, [Next]_vars, NEW a \in Alerts, ~Engaged(a),
           ~CommitReload, ~Restart
    PROVE  row'[a] = row[a]
<1> USE DEF tables
<1>1. CASE UNCHANGED row
    BY <1>1
<1>2. ASSUME NEW t \in Tasks, StoreRow(t) PROVE row'[a] = row[a]
  <2>1. evaluator[t].alert # a
    BY <1>2 DEF StoreRow, Engaged, Busy, AtStep
  <2> QED
    BY <1>2, <2>1, StoreTyped DEF AlertTypes
<1> QED
    BY <1>1, <1>2
    DEF Next, Evaluate, vars, ClockTicks, RoundStored, SilenceFalls, BeginRound, BeginSilence,
        NotEnoughData, DecideRound, DecideSilence, TakeUp, InsertEvent, InsertOutbox,
        StatementFails, SwapConfig

LEMMA ResolvedInit == Init => ResolvedInv
BY InitTypes DEF Init, ResolvedInv, ConfigInv, Gone

LEMMA ResolvedStep == ResolvedInv /\ NoneInHand' /\ [Next]_vars => ResolvedInv'
<1> SUFFICES ASSUME ResolvedInv, NoneInHand', [Next]_vars PROVE ResolvedInv'
    OBVIOUS
<1>1. ConfigInv' /\ AlertTypes
    BY ConfigStep DEF ResolvedInv, ConfigInv
<1> SUFFICES ASSUME NEW a \in Alerts, stored'[a] \in Gone
             PROVE  ~Engaged(a)' /\ row'[a].state = "normal"
    BY <1>1 DEF ResolvedInv
<1>2. CASE CommitReload
  <2>1. UNCHANGED <<evaluator, live>>
    BY <1>2 DEF CommitReload
  <2>2. ResolveOrphans(stored')
    BY <1>2 DEF CommitReload
  <2>3. row'[a].state = "normal"
    BY <1>1, <2>2, OrphansResolved
  <2>4. CASE live[a] = stored'[a]
    <3>1. stored[a] \in Gone
      BY <1>2, <2>4 DEF CommitReload, ResolvedInv, ConfigInv
    <3> QED
      BY <2>1, <2>3, <3>1 DEF ResolvedInv, Engaged, Busy, AtStep
  <2>5. CASE live[a] # stored'[a]
    BY <2>1, <2>3, <2>5 DEF NoneInHand
  <2> QED
    BY <2>4, <2>5
<1>3. CASE Restart
  <2>1. ResolveOrphans(stored) /\ stored' = stored
    BY <1>3 DEF Restart
  <2>2. row'[a].state = "normal"
    BY <1>1, <2>1, OrphansResolved
  <2> QED
    BY <1>3, <2>2, IdleIsEvaluation DEF Restart, Engaged, Busy, AtStep
<1>4. CASE SwapConfig
  <2>1. UNCHANGED <<evaluator, row, stored>>
    BY <1>4 DEF SwapConfig, tables
  <2> QED
    BY <2>1 DEF ResolvedInv, Engaged, Busy, AtStep
<1>5. CASE UNCHANGED configuration /\ ~CommitReload /\ ~Restart
  <2>1. stored' = stored /\ live' = live
    BY <1>5 DEF configuration
  <2>2. ~Engaged(a) /\ row[a].state = "normal"
    BY <2>1 DEF ResolvedInv
  <2>3. row'[a] = row[a]
    BY <1>1, <1>5, <2>2, RowOfOthers
\* What begins a cycle with the alert finds it in the configuration in memory only.
  <2>4. ASSUME Engaged(a)' PROVE FALSE
    <3>1. live[a] = "kept" \/ LooksAt(a)
      BY <1>1, <2>2, <2>4, EngagedAnew
    <3>2. live'[a] # stored'[a]
      BY <2>1, <3>1 DEF LooksAt, Gone
    <3> QED
      BY <2>4, <3>2 DEF NoneInHand
  <2> QED
    BY <2>2, <2>3, <2>4
<1> QED
    BY <1>2, <1>3, <1>4, <1>5
    DEF Next, Evaluate, vars, configuration, ClockTicks, RoundStored, SilenceFalls, BeginRound,
        BeginSilence, NotEnoughData, DecideRound, DecideSilence, TakeUp, StoreRow, InsertEvent,
        InsertOutbox, StatementFails

\* "When a rule or check is removed, Kemuri resolves its active alert" and it stays resolved
\* (reconciliation.rs:229), through restarts, failing statements and further reloads: as long as
\* no evaluator is at such an alert between the commit of the reconciliation and the swap of the
\* configuration (alerts.rs:456), the one step of the code nothing guards, and no target is
\* removed, whose checks stay active.
THEOREM RemovedIsResolved == Spec /\ TargetsStay /\ []NoneInHand => []RemovedResolved
<1> DEFINE Outcome == TargetsStay /\ \A a \in Alerts : stored[a] # "target_removed"
<1>1. Init => ResolvedInv
    BY ResolvedInit
<1>2. Init /\ TargetsStay => Outcome
    BY DEF Init
<1>3. Outcome /\ [Next]_vars => Outcome'
  <2> SUFFICES ASSUME Outcome, [Next]_vars PROVE Outcome'
    OBVIOUS
  <2>1. CASE CommitReload
    BY <2>1 DEF CommitReload, TargetsStay
  <2>2. CASE UNCHANGED stored
    BY <2>2
  <2> QED
    BY <2>1, <2>2
    DEF Next, Evaluate, vars, configuration, ClockTicks, RoundStored, SilenceFalls, BeginRound,
        BeginSilence, NotEnoughData, DecideRound, DecideSilence, TakeUp, StoreRow, InsertEvent,
        InsertOutbox, StatementFails, SwapConfig, Restart
<1>4. ResolvedInv /\ Outcome => RemovedResolved
    BY DEF ResolvedInv, ConfigInv, RemovedResolved, Gone
<1> HIDE DEF Outcome
<1> QED
    BY <1>1, <1>2, <1>3, <1>4, ResolvedStep, PTL DEF Spec

-----------------------------------------------------------------------------
(***************************************************************************)
(* One evaluator.                                                          *)
(***************************************************************************)

\* No alert is evaluated by both tasks, and no evaluation is cut off.
Undisturbed == SilenceAlerts = {} /\ Reliable

Alone ==
    /\ Undisturbed /\ AlertTypes
    /\ AtStep("silence", "idle") /\ evaluator["silence"].todo = {}

\* The steps that are left.
LEMMA AloneSteps ==
    ASSUME Alone, [Next]_vars
    PROVE  \/ UNCHANGED <<now, row, events, evaluator, holding>>
           \/ ClockTicks
           \/ \E c \in Checks : BeginRound(c)
           \/ NotEnoughData \/ DecideRound
           \/ TakeUp("round") \/ StoreRow("round") \/ InsertEvent("round") \/ InsertOutbox("round")
           \/ CommitReload
<1> USE DEF tables, configuration, history
<1>1. CASE UNCHANGED vars
    BY <1>1 DEF vars
<1>2. CASE RoundStored \/ SilenceFalls \/ SwapConfig
    BY <1>2 DEF RoundStored, SilenceFalls, SwapConfig
<1>3. CASE BeginSilence
  <2>1. {a \in SilenceAlerts : LooksAt(a)} = {}
    BY DEF Alone, Undisturbed
  <2> QED
    BY <1>3, <2>1 DEF BeginSilence, BeginCycle
<1>4. CASE DecideSilence
    BY <1>4 DEF DecideSilence, Alone, AtStep
<1>5. CASE Restart
    BY <1>5 DEF Restart, Alone, Undisturbed, Reliable, AlertTypes
<1>6. ASSUME NEW t \in Tasks, StatementFails(t) PROVE FALSE
    BY <1>6 DEF StatementFails, Alone, Undisturbed, Reliable, AlertTypes
<1>7. ~TakeUp("silence") /\ ~StoreRow("silence")
      /\ ~InsertEvent("silence") /\ ~InsertOutbox("silence")
    BY DEF TakeUp, StoreRow, InsertEvent, InsertOutbox, Alone, AtStep
<1> QED
    BY <1>1, <1>2, <1>3, <1>4, <1>5, <1>6, <1>7 DEF Next, Evaluate, Tasks

LEMMA AloneInit == Init /\ Undisturbed => Alone
BY InitTypes, IdleIsEvaluation DEF Init, Alone, AtStep, Tasks

LEMMA AloneStep == Alone /\ [Next]_vars => Alone'
<1> SUFFICES ASSUME Alone, [Next]_vars PROVE Alone'
    OBVIOUS
<1>1. AlertTypes /\ AlertTypes' /\ Undisturbed
    BY TypesStep DEF Alone
<1>2. ASSUME evaluator'["silence"] = evaluator["silence"] PROVE Alone'
    BY <1>1, <1>2 DEF Alone, AtStep, Undisturbed, Reliable
<1>3. "round" \in Tasks /\ "silence" \in Tasks \ {"round"}
    BY DEF Tasks
<1>4. CASE UNCHANGED <<now, row, events, evaluator, holding>> \/ ClockTicks \/ CommitReload
    BY <1>2, <1>4 DEF ClockTicks, CommitReload
<1>5. ASSUME NEW c \in Checks, BeginRound(c) PROVE Alone'
    BY <1>1, <1>2, <1>3, <1>5, BeginTyped DEF BeginRound, BetweenCycles
<1>6. CASE NotEnoughData
    BY <1>1, <1>2, <1>3, <1>6, FinishTyped DEF NotEnoughData
<1>7. CASE DecideRound
  <2>1. \E verdict : Decided("round", verdict)
    BY <1>7 DEF DecideRound
  <2> QED
    BY <1>1, <1>2, <1>3, <2>1 DEF Decided, AlertTypes
<1>8. CASE TakeUp("round")
    BY <1>1, <1>2, <1>3, <1>8, TakeUpTyped
<1>9. CASE StoreRow("round")
    BY <1>1, <1>2, <1>3, <1>9, StoreTyped
<1>10. CASE InsertEvent("round")
    BY <1>1, <1>2, <1>3, <1>10, InsertTyped
<1>11. CASE InsertOutbox("round")
    BY <1>1, <1>2, <1>3, <1>11, FinishTyped DEF InsertOutbox
<1> QED
    BY <1>4, <1>5, <1>6, <1>7, <1>8, <1>9, <1>10, <1>11, AloneSteps

\* A reload turns off alerts that no task is at.
LEMMA ReloadIs ==
    ASSUME AlertTypes, ResolvedInv', CommitReload, NEW standing, standing = stored'
    PROVE  /\ ResolveOrphans(standing) /\ UNCHANGED <<now, evaluator>>
           /\ \A a \in Orphans(standing) : a \in Alerts /\ ~Engaged(a)
<1>1. ResolveOrphans(standing) /\ UNCHANGED <<now, evaluator>>
    BY DEF CommitReload
<1>2. ASSUME NEW a \in Orphans(standing) PROVE a \in Alerts /\ ~Engaged(a)
  <2>1. a \in Alerts /\ stored'[a] \in Gone
    BY DEF Orphans, Gone
  <2>2. ~Engaged(a)'
    BY <2>1 DEF ResolvedInv
  <2> QED
    BY <1>1, <2>1, <2>2 DEF Engaged, Busy, AtStep
<1> QED
    BY <1>1, <1>2

\* What an evaluation decides, and from what.
LEMMA DecideRoundIs ==
    ASSUME AlertTypes, DecideRound
    PROVE  LET e == evaluator["round"]
               d == evaluator'["round"] IN
           /\ e.step = "begun" /\ e.alert \in Alerts /\ e.at \in Nat
           /\ d.step = "decided" /\ d.alert = e.alert /\ d.at = e.at /\ d.seen = row[e.alert]
           /\ UNCHANGED <<now, row, events>>
           /\ \E fire, clear \in BOOLEAN :
                /\ d.verdict = RoundDecision(row[e.alert], fire, clear, e.at)
                /\ holding' = [holding EXCEPT ![e.alert] =
                                IF fire THEN OrNow(holding[e.alert], e.at) ELSE Never]
<1> DEFINE e == evaluator["round"]
<1>1. e \in Evaluations /\ e.alert \in Alerts /\ e.step = "begun"
    BY DEF AlertTypes, DecideRound, AtStep, Tasks
<1>2. PICK reading \in ReadingsOf(e.alert) :
        /\ Decided("round", RoundDecision(row[e.alert], reading.fire, reading.clear, e.at))
        /\ holding' = [holding EXCEPT ![e.alert] =
                        IF reading.fire THEN OrNow(holding[e.alert], e.at) ELSE Never]
    BY <1>1 DEF DecideRound, AlertTypes
<1>3. reading.fire \in BOOLEAN /\ reading.clear \in BOOLEAN
    BY <1>1, <1>2, ReadingTyped
<1>4. RoundDecision(row[e.alert], reading.fire, reading.clear, e.at) \in Verdicts
    BY <1>1, <1>3, RoundDecisionTyped DEF AlertTypes, Evaluations
<1>5. e.at \in Nat
    BY <1>1 DEF Evaluations
<1> QED
    BY <1>1, <1>2, <1>3, <1>4, <1>5, DecidedTyped DEF DecideRound, Tasks, tables

-----------------------------------------------------------------------------
(***************************************************************************)
(* Durations.                                                              *)
(***************************************************************************)

\* The instant the row gives for the condition is not before the one since
\* which every evaluation found it true.
Began(r, since) ==
    r.state \in {"normal", "pending_fire"} /\ r.first # Never => since # Never /\ since <= r.first

Deciding(a) == AtStep("round", "decided") /\ evaluator["round"].alert = a

DurationInv ==
    /\ Alone
    /\ \A a \in Alerts : holding[a] <= now
    /\ AtStep("round", "begun") =>
        evaluator["round"].at <= now /\ \A a \in Alerts : holding[a] <= evaluator["round"].at
    /\ \A a \in Alerts : ~Deciding(a) => Began(row[a], holding[a])
    /\ AtStep("round", "decided") =>
        Began(evaluator["round"].verdict.row, holding[evaluator["round"].alert])
    /\ DurationHolds

LEMMA DurationDecision ==
    ASSUME NEW r \in Rows, NEW fire \in BOOLEAN, NEW clear \in BOOLEAN, NEW at \in Nat,
           NEW since \in Times, since <= at, Began(r, since)
    PROVE  LET v == RoundDecision(r, fire, clear, at)
               held == IF fire THEN OrNow(since, at) ELSE Never IN
           /\ Began(v.row, held) /\ held <= at
           /\ v.tell = "firing" /\ r.state \in {"normal", "pending_fire"} =>
                held # Never /\ at - held >= Duration
<1> USE RuleAssumption
    DEF Rows, RowStates, On, Times, Decide, OrNow, Began, Lasted, NotSet, Never
<1>1. CASE r.state = "normal"
    BY <1>1 DEF RoundDecision, FromNormal
<1>2. CASE r.state = "pending_fire"
    BY <1>2 DEF RoundDecision, FromPendingFire
<1>3. CASE r.state = "firing"
    BY <1>3 DEF RoundDecision, FromFiring, StillFiring
<1>4. CASE r.state = "pending_clear"
    BY <1>4 DEF RoundDecision, FromPendingClear
<1> QED
    BY <1>1, <1>2, <1>3, <1>4

\* A step that neither decides nor stores leaves what is known of durations.
LEMMA DurationAside ==
    ASSUME DurationInv, Alone', UNCHANGED <<row, holding>>, now <= now',
           \/ UNCHANGED evaluator
           \/ /\ ~AtStep("round", "decided") /\ ~AtStep("round", "decided")'
              /\ AtStep("round", "begun")' => evaluator'["round"].at = now'
    PROVE  DurationInv'
<1>1. /\ now \in Nat /\ now' \in Nat /\ holding \in [Alerts -> Times]
      /\ evaluator \in [Tasks -> Evaluations]
    BY DEF DurationInv, Alone, AlertTypes
<1>2. \A a \in Alerts : holding'[a] <= now' /\ holding[a] \in Times
    BY <1>1 DEF DurationInv, Times, Never
<1>3. evaluator["round"].at \in Nat
    BY <1>1 DEF Tasks, Evaluations
<1>4. CASE UNCHANGED evaluator
    BY <1>1, <1>2, <1>3, <1>4 DEF DurationInv, Deciding, DurationHolds, AtStep, Never, Times
<1>5. CASE /\ ~AtStep("round", "decided") /\ ~AtStep("round", "decided")'
           /\ AtStep("round", "begun")' => evaluator'["round"].at = now'
  <2>1. \A a \in Alerts : Began(row'[a], holding'[a])
    BY <1>5 DEF DurationInv, Deciding
  <2>2. DurationHolds'
    BY <1>5 DEF DurationHolds, Alone, Tasks, AtStep
  <2> QED
    BY <1>1, <1>2, <1>5, <2>1, <2>2 DEF DurationInv, Deciding
<1> QED
    BY <1>4, <1>5

\* A reload forgets since when the condition of an alert it turns off was true.
LEMMA DurationReload ==
    ASSUME DurationInv, Alone', ResolvedInv', CommitReload
    PROVE  DurationInv'
<1>1. /\ AlertTypes /\ now \in Nat /\ holding \in [Alerts -> Times] /\ "round" \in Tasks
      /\ AtStep("round", "begun") => evaluator["round"].at \in Nat
    BY DEF DurationInv, Alone, AlertTypes, Evaluations, Tasks
<1>2. PICK standing : standing = stored'
    OBVIOUS
<1>3. /\ UNCHANGED <<now, evaluator>>
      /\ \A a \in Orphans(standing) : a \in Alerts /\ ~Engaged(a)
    BY <1>1, <1>2, ReloadIs
<1>4. ResolveOrphans(standing)
    BY <1>1, <1>2, ReloadIs
<1>5. /\ \A a \in Alerts \ Orphans(standing) : row'[a] = row[a] /\ holding'[a] = holding[a]
      /\ \A a \in Orphans(standing) : row'[a].first = Never /\ holding'[a] = Never
    BY <1>1, <1>4, ResolveOrphansIs
<1>6. ASSUME NEW a \in Alerts, NEW t \in Nat, holding[a] <= t PROVE holding'[a] <= t
    BY <1>5, <1>6 DEF Never
<1>7. ASSUME NEW a \in Alerts, ~Deciding(a) PROVE Began(row'[a], holding'[a])
  <2>1. CASE a \in Orphans(standing)
    BY <1>5, <2>1 DEF Began
  <2>2. CASE a \notin Orphans(standing)
    BY <1>5, <1>7, <2>2 DEF DurationInv
  <2> QED
    BY <2>1, <2>2
<1>8. AtStep("round", "decided") =>
        holding'[evaluator["round"].alert] = holding[evaluator["round"].alert]
  <2> SUFFICES ASSUME AtStep("round", "decided")
               PROVE  holding'[evaluator["round"].alert] = holding[evaluator["round"].alert]
    OBVIOUS
  <2>1. evaluator["round"].alert \in Alerts /\ Engaged(evaluator["round"].alert)
    BY <1>1 DEF AlertTypes, Engaged, Busy, AtStep
  <2> QED
    BY <1>3, <1>5, <2>1
<1>9. DurationHolds'
    BY <1>3, <1>8 DEF DurationInv, DurationHolds, Alone, Tasks, AtStep
<1> QED
    BY <1>1, <1>3, <1>6, <1>7, <1>8, <1>9 DEF DurationInv, Deciding, AtStep

LEMMA DurationStep == DurationInv /\ ResolvedInv' /\ [Next]_vars => DurationInv'
<1> SUFFICES ASSUME DurationInv, ResolvedInv', [Next]_vars PROVE DurationInv'
    OBVIOUS
<1>1. Alone /\ Alone' /\ AlertTypes
    BY AloneStep DEF DurationInv, Alone
<1>2. now \in Nat /\ now <= now + 1 /\ now <= now /\ "round" \in Tasks
    BY <1>1 DEF AlertTypes, Tasks
<1>3. CASE UNCHANGED <<now, row, events, evaluator, holding>>
    BY <1>1, <1>2, <1>3, DurationAside
<1>4. CASE ClockTicks
    BY <1>1, <1>2, <1>4, DurationAside DEF ClockTicks, tables, history
<1>5. ASSUME NEW c \in Checks, BeginRound(c) PROVE DurationInv'
    BY <1>1, <1>2, <1>5, BeginTyped, DurationAside
    DEF BeginRound, BetweenCycles, AtStep, tables, history
<1>6. CASE NotEnoughData
    BY <1>1, <1>2, <1>6, FinishTyped, DurationAside DEF NotEnoughData, AtStep, tables, history
<1>7. CASE TakeUp("round")
    BY <1>1, <1>2, <1>7, TakeUpTyped, DurationAside DEF TakeUp, AtStep, tables, history
<1>8. CASE InsertEvent("round")
    BY <1>1, <1>2, <1>8, InsertTyped, DurationAside DEF InsertEvent, AtStep, history
<1>9. CASE InsertOutbox("round")
    BY <1>1, <1>2, <1>9, FinishTyped, DurationAside DEF InsertOutbox, AtStep, history
<1>10. CASE StoreRow("round")
  <2> DEFINE e == evaluator["round"]
  <2>1. /\ e.step = "decided" /\ e.alert \in Alerts
        /\ evaluator'["round"].step \in {"idle", "stored"}
        /\ row' = [row EXCEPT ![e.alert] = e.verdict.row] /\ UNCHANGED <<now, holding>>
    <3>1. evaluator["round"] \in Evaluations
      BY <1>1, <1>2 DEF AlertTypes
    <3>2. [evaluator["round"] EXCEPT !.step = "stored"].step = "stored"
      BY <3>1 DEF Evaluations
    <3> QED
      BY <1>1, <1>2, <1>10, <3>2, StoreTyped DEF StoreRow, AlertTypes, AtStep
  <2>2. ASSUME NEW a \in Alerts PROVE Began(row'[a], holding'[a])
    <3>1. CASE a = e.alert
      BY <1>1, <2>1, <3>1 DEF DurationInv, AtStep, AlertTypes
    <3>2. CASE a # e.alert
      BY <1>1, <2>1, <3>2 DEF DurationInv, Deciding, AtStep, AlertTypes
    <3> QED
      BY <3>1, <3>2
  <2>3. DurationHolds'
    BY <1>1, <2>1 DEF DurationHolds, Alone, Tasks, AtStep
  <2> QED
    BY <1>1, <2>1, <2>2, <2>3 DEF DurationInv, Deciding, AtStep
<1>11. CASE DecideRound
  <2> DEFINE e == evaluator["round"]
             d == evaluator'["round"]
  <2>1. /\ e.step = "begun" /\ e.alert \in Alerts /\ e.at \in Nat
        /\ d.step = "decided" /\ d.alert = e.alert /\ d.at = e.at /\ d.seen = row[e.alert]
        /\ UNCHANGED <<now, row>>
    BY <1>1, <1>11, DecideRoundIs
  <2>2. PICK fire, clear \in BOOLEAN :
            /\ d.verdict = RoundDecision(row[e.alert], fire, clear, e.at)
            /\ holding' = [holding EXCEPT ![e.alert] =
                            IF fire THEN OrNow(holding[e.alert], e.at) ELSE Never]
    BY <1>1, <1>11, DecideRoundIs
  <2>3. /\ row[e.alert] \in Rows /\ holding[e.alert] \in Times /\ holding[e.alert] <= e.at
        /\ Began(row[e.alert], holding[e.alert]) /\ e.at <= now
        /\ \A a \in Alerts : holding[a] <= now
    BY <1>1, <2>1 DEF AlertTypes, DurationInv, Deciding, AtStep
  <2>4. holding'[e.alert] = IF fire THEN OrNow(holding[e.alert], e.at) ELSE Never
    BY <1>1, <2>1, <2>2 DEF AlertTypes
  <2>5. /\ Began(d.verdict.row, holding'[e.alert]) /\ holding'[e.alert] <= e.at
        /\ d.verdict.tell = "firing" /\ row[e.alert].state \in {"normal", "pending_fire"} =>
            holding'[e.alert] # Never /\ e.at - holding'[e.alert] >= Duration
    BY <2>1, <2>2, <2>3, <2>4, DurationDecision
  <2>6. ASSUME NEW a \in Alerts PROVE holding'[a] <= now'
    <3>1. CASE a = e.alert
      <4>1. holding'[a] \in Times
        BY <1>1 DEF Alone, AlertTypes
      <4> QED
        BY <1>2, <2>1, <2>3, <2>5, <3>1, <4>1 DEF Times, Never
    <3>2. CASE a # e.alert
      BY <1>1, <2>1, <2>2, <2>3, <3>2 DEF AlertTypes
    <3> QED
      BY <3>1, <3>2
  <2>7. ASSUME NEW a \in Alerts, a # e.alert PROVE Began(row'[a], holding'[a])
    BY <1>1, <2>1, <2>2, <2>7 DEF DurationInv, Deciding, AlertTypes, AtStep
  <2>8. DurationHolds'
    BY <1>1, <2>1, <2>5 DEF DurationHolds, Alone, Tasks, AtStep
  <2> QED
    BY <1>1, <2>1, <2>5, <2>6, <2>7, <2>8 DEF DurationInv, Deciding, AtStep
<1> QED
    BY <1>1, <1>3, <1>4, <1>5, <1>6, <1>7, <1>8, <1>9, <1>10, <1>11, AloneSteps, DurationReload

\* An alert fires only after every evaluation of at least its duration found the condition
\* true (alerts.rs:405-564), for any duration, readings, number of alerts and of rounds, and
\* however late the evaluations are, and whatever is reloaded; as long as no evaluation is at
\* an alert while a reload removes it, and no failing statement, crash or second evaluator
\* intervenes, after which the row of the last evaluation may be missing.
THEOREM DurationWaited == Spec /\ Undisturbed /\ []NoneInHand => []DurationHolds
<1>1. Init /\ Undisturbed => DurationInv
  <2> SUFFICES ASSUME Init, Undisturbed PROVE DurationInv
    OBVIOUS
  <2>1. evaluator["round"].step = "idle" /\ evaluator["silence"].step = "idle"
    BY IdleIsEvaluation DEF Init, Tasks
  <2>2. \A a \in Alerts : row[a] = NoRow /\ holding[a] = Never
    BY DEF Init
  <2>3. DurationHolds
    BY <2>1 DEF DurationHolds, Tasks
  <2> QED
    BY <2>1, <2>2, <2>3, AloneInit DEF DurationInv, Init, AtStep, Began, NoRow, Never
<1>2. DurationInv => DurationHolds
    BY DEF DurationInv
<1> QED
    BY <1>1, <1>2, DurationStep, ResolvedInit, ResolvedStep, PTL DEF Spec

-----------------------------------------------------------------------------
(***************************************************************************)
(* Repeated notifications.                                                 *)
(***************************************************************************)

\* The event is of the alert, and since it nothing but that the alert fires was
\* reported of it.
Unresolved(a, i) ==
    /\ events[i].alert = a
    /\ \A k \in i..Len(events) : events[k].alert = a => events[k].kind = "firing"

\* What a row tells of the events of its alert.
Told(a, r) ==
    /\ r.state = "normal" => r.first = Never
    /\ IF r.state \in On
       THEN /\ r.notified \in Nat
            /\ \A i \in 1..Len(events) : Unresolved(a, i) => events[i].at <= r.notified
       ELSE \A i \in 1..Len(events) : ~Unresolved(a, i)

InHand(a) ==
    (AtStep("round", "decided") \/ AtStep("round", "stored")) /\ evaluator["round"].alert = a

\* What the verdict in hand will tell keeps the distance.
Due(e) ==
    LET r == e.verdict.row IN
    /\ e.verdict.tell = "nothing" => Told(e.alert, r)
    /\ e.verdict.tell = "firing" =>
        /\ r.state = "firing" /\ r.notified = e.at
        /\ \A i \in 1..Len(events) :
            Unresolved(e.alert, i) => e.at - events[i].at >= RepeatEvery
    /\ e.verdict.tell = "resolved" => r.state = "normal" /\ r.first = Never

RepeatInv ==
    /\ Duration # NotSet /\ Alone
    /\ \A a \in Alerts : ~InHand(a) => Told(a, row[a])
    /\ AtStep("round", "decided") \/ AtStep("round", "stored") => Due(evaluator["round"])
    /\ AtStep("round", "stored") =>
        /\ row[evaluator["round"].alert] = evaluator["round"].verdict.row
        /\ evaluator["round"].verdict.tell # "nothing"
    /\ RepeatSpacing

\* A decision tells of a firing alert again only when it is time to, and none
\* fires at once from normal, since the rule has a duration.
LEMMA RepeatDecision ==
    ASSUME NEW r \in Rows, NEW fire \in BOOLEAN, NEW clear \in BOOLEAN, NEW at \in Nat,
           Duration # NotSet, r.state = "normal" => r.first = Never,
           r.state \in On => r.notified \in Nat
    PROVE  LET v == RoundDecision(r, fire, clear, at) IN
           /\ v.row.state = "normal" => v.row.first = Never
           /\ v.tell = "nothing" =>
                /\ v.row.state \in On <=> r.state \in On
                /\ r.state \in On => v.row.notified = r.notified
           /\ v.tell = "firing" =>
                /\ v.row.state = "firing" /\ v.row.notified = at
                /\ r.state \in On => at - r.notified >= RepeatEvery
           /\ v.tell = "resolved" => v.row.state = "normal" /\ v.row.first = Never
<1> USE RuleAssumption
    DEF Rows, RowStates, On, Times, Decide, OrNow, Lasted, NotSet, Never
<1>1. CASE r.state = "normal"
    BY <1>1 DEF RoundDecision, FromNormal
<1>2. CASE r.state = "pending_fire"
    BY <1>2 DEF RoundDecision, FromPendingFire
<1>3. CASE r.state = "firing"
    BY <1>3 DEF RoundDecision, FromFiring, StillFiring, Repeats
<1>4. CASE r.state = "pending_clear"
    BY <1>4 DEF RoundDecision, FromPendingClear
<1> QED
    BY <1>1, <1>2, <1>3, <1>4

\* A step that neither decides, stores nor reports leaves what is known.
LEMMA RepeatAside ==
    ASSUME RepeatInv, Alone', UNCHANGED <<row, events>>,
           \/ UNCHANGED evaluator
           \/ /\ ~AtStep("round", "decided") /\ ~AtStep("round", "decided")'
              /\ ~AtStep("round", "stored") /\ ~AtStep("round", "stored")'
    PROVE  RepeatInv'
<1>1. \A a, r : Told(a, r)' <=> Told(a, r)
    BY DEF Told, Unresolved
<1>2. \A e : Due(e)' <=> Due(e)
    BY <1>1 DEF Due, Unresolved
<1>3. RepeatSpacing'
    BY DEF RepeatInv, RepeatSpacing
<1>4. CASE UNCHANGED evaluator
    BY <1>1, <1>2, <1>3, <1>4 DEF RepeatInv, InHand, AtStep
<1>5. CASE /\ ~AtStep("round", "decided") /\ ~AtStep("round", "decided")'
           /\ ~AtStep("round", "stored") /\ ~AtStep("round", "stored")'
    BY <1>1, <1>3, <1>5 DEF RepeatInv, InHand
<1> QED
    BY <1>4, <1>5

LEMMA RepeatDecides == RepeatInv /\ Alone' /\ DecideRound => RepeatInv'
<1> SUFFICES ASSUME RepeatInv, Alone', DecideRound PROVE RepeatInv'
    OBVIOUS
<1> DEFINE e == evaluator["round"]
           d == evaluator'["round"]
<1>1. AlertTypes
    BY DEF RepeatInv, Alone
<1>2. /\ e.step = "begun" /\ e.alert \in Alerts /\ e.at \in Nat
      /\ d.step = "decided" /\ d.alert = e.alert /\ d.at = e.at /\ d.seen = row[e.alert]
      /\ UNCHANGED <<row, events>>
    BY <1>1, DecideRoundIs
<1>3. PICK fire, clear \in BOOLEAN : d.verdict = RoundDecision(row[e.alert], fire, clear, e.at)
    BY <1>1, DecideRoundIs
<1>4. row[e.alert] \in Rows /\ Told(e.alert, row[e.alert])
    BY <1>1, <1>2 DEF AlertTypes, RepeatInv, InHand, AtStep
<1>5. d.verdict \in Verdicts
    BY <1>2, <1>3, <1>4, RoundDecisionTyped
<1> DEFINE v == RoundDecision(row[e.alert], fire, clear, e.at)
<1>6. /\ v.row.state = "normal" => v.row.first = Never
      /\ v.tell = "nothing" =>
            /\ v.row.state \in On <=> row[e.alert].state \in On
            /\ row[e.alert].state \in On => v.row.notified = row[e.alert].notified
      /\ v.tell = "firing" =>
            /\ v.row.state = "firing" /\ v.row.notified = e.at
            /\ row[e.alert].state \in On => e.at - row[e.alert].notified >= RepeatEvery
      /\ v.tell = "resolved" => v.row.state = "normal" /\ v.row.first = Never
    BY <1>2, <1>4, RepeatDecision DEF RepeatInv, Told
<1> HIDE DEF v
<1>7. d.verdict = v
    BY <1>3 DEF v
<1>8. \A i \in 1..Len(events) : events[i].at \in Nat
  <2>1. events \in Seq(Reports)
    BY <1>1 DEF AlertTypes
  <2>2. \A i \in 1..Len(events) : events[i] \in Reports
    BY <2>1, LenProperties
  <2> QED
    BY <2>2 DEF Reports
<1>9. Due(d)
  <2>1. CASE v.tell = "nothing"
    <3>1. Told(e.alert, v.row)
      BY <1>4, <1>6, <2>1 DEF Told
    <3> QED
      BY <1>2, <1>7, <2>1, <3>1 DEF Due
  <2>2. CASE v.tell = "firing"
    <3>1. ASSUME NEW i \in 1..Len(events), Unresolved(e.alert, i)
          PROVE  e.at - events[i].at >= RepeatEvery
      <4>1. /\ row[e.alert].state \in On /\ row[e.alert].notified \in Nat
            /\ events[i].at <= row[e.alert].notified
        BY <1>4, <3>1 DEF Told
      <4> QED
        BY <1>2, <1>6, <1>8, <2>2, <4>1, RuleAssumption
    <3> QED
      BY <1>2, <1>6, <1>7, <2>2, <3>1 DEF Due
  <2>3. CASE v.tell = "resolved"
    BY <1>2, <1>6, <1>7, <2>3 DEF Due
  <2> QED
    BY <1>5, <1>7, <2>1, <2>2, <2>3 DEF Verdicts
<1>10. \A a, r : Told(a, r)' <=> Told(a, r)
    BY <1>2 DEF Told, Unresolved
<1>11. Due(evaluator["round"])'
    BY <1>2, <1>9, <1>10 DEF Due, Unresolved
<1>12. ASSUME NEW a \in Alerts, ~InHand(a)' PROVE Told(a, row[a])'
  <2>1. ~InHand(a)
    BY <1>2 DEF InHand, AtStep
  <2>2. Told(a, row[a])
    BY <2>1 DEF RepeatInv
  <2> QED
    BY <1>2, <1>10, <2>2
<1>13. RepeatSpacing'
    BY <1>2 DEF RepeatInv, RepeatSpacing
<1> QED
    BY <1>2, <1>11, <1>12, <1>13 DEF RepeatInv, AtStep

LEMMA RepeatStores == RepeatInv /\ Alone' /\ StoreRow("round") => RepeatInv'
<1> SUFFICES ASSUME RepeatInv, Alone', StoreRow("round") PROVE RepeatInv'
    OBVIOUS
<1> DEFINE e == evaluator["round"]
           d == evaluator'["round"]
<1>1. AlertTypes /\ "round" \in Tasks
    BY DEF RepeatInv, Alone, Tasks
<1>2. /\ e \in Evaluations /\ e.step = "decided" /\ e.alert \in Alerts
      /\ row' = [row EXCEPT ![e.alert] = e.verdict.row] /\ events' = events
      /\ IF e.verdict.tell = "nothing" THEN d.step = "idle"
         ELSE d = [e EXCEPT !.step = "stored"]
    BY <1>1, StoreTyped DEF StoreRow, AlertTypes, AtStep
<1>3. Due(e)
    BY <1>2 DEF RepeatInv, AtStep
<1>4. /\ e.verdict.tell # "nothing" =>
            /\ d.step = "stored" /\ d.alert = e.alert /\ d.verdict = e.verdict /\ d.at = e.at
      /\ e.verdict.tell = "nothing" => d.step = "idle"
    BY <1>2 DEF Evaluations
<1>5. \A a, r : Told(a, r)' <=> Told(a, r)
    BY <1>2 DEF Told, Unresolved
<1>6. row'[e.alert] = e.verdict.row /\ \A a \in Alerts : a # e.alert => row'[a] = row[a]
    BY <1>1, <1>2 DEF AlertTypes
<1>7. ASSUME NEW a \in Alerts, ~InHand(a)' PROVE Told(a, row[a])'
  <2>1. CASE a = e.alert
    <3>1. e.verdict.tell = "nothing"
      BY <1>4, <1>7, <2>1 DEF InHand, AtStep
    <3> QED
      BY <1>3, <1>5, <1>6, <2>1, <3>1 DEF Due
  <2>2. CASE a # e.alert
    <3>1. Told(a, row[a])
      BY <2>2 DEF RepeatInv, InHand
    <3> QED
      BY <1>5, <1>6, <2>2, <3>1
  <2> QED
    BY <2>1, <2>2
<1>8. AtStep("round", "decided")' \/ AtStep("round", "stored")' => Due(evaluator["round"])'
    BY <1>2, <1>3, <1>4, <1>5 DEF Due, Unresolved, AtStep
<1>9. RepeatSpacing'
    BY <1>2 DEF RepeatInv, RepeatSpacing
<1> QED
    BY <1>4, <1>6, <1>7, <1>8, <1>9 DEF RepeatInv, AtStep

LEMMA RepeatReports == RepeatInv /\ Alone' /\ InsertEvent("round") => RepeatInv'
<1> SUFFICES ASSUME RepeatInv, Alone', InsertEvent("round") PROVE RepeatInv'
    OBVIOUS
<1> DEFINE e == evaluator["round"]
           n == Len(events) + 1
<1>1. AlertTypes /\ AlertTypes' /\ "round" \in Tasks
    BY DEF RepeatInv, Alone, Tasks
<1>2. /\ e.step = "stored" /\ e.alert \in Alerts /\ row' = row
      /\ evaluator'["round"].step = "reported"
      /\ Len(events') = n /\ \A i \in 1..Len(events) : events'[i] = events[i]
      /\ events'[n] = EventOf(e)
    BY <1>1, InsertTyped DEF InsertEvent, AtStep
<1>3. /\ Len(events) \in Nat /\ DOMAIN events = 1..Len(events) /\ DOMAIN events' = 1..n
      /\ \A i \in 1..Len(events) : events[i].at \in Nat
  <2>1. events \in Seq(Reports)
    BY <1>1 DEF AlertTypes
  <2>2. \A i \in 1..Len(events) : events[i] \in Reports
    BY <2>1, LenProperties
  <2> QED
    BY <1>1, <1>2, <2>2, EventsAreSequence DEF Reports
<1>4. events'[n].alert = e.alert /\ events'[n].kind = e.verdict.tell /\ events'[n].at = e.at
    BY <1>2 DEF EventOf
<1>5. e \in Evaluations
    BY <1>1 DEF AlertTypes
<1>6. e.at \in Nat /\ e.verdict.tell \in {"firing", "resolved"} /\ Due(e)
      /\ row[e.alert] = e.verdict.row
    BY <1>2, <1>5 DEF RepeatInv, AtStep, Evaluations, Verdicts
\* An event that stands after the report stood before it, or is the report.
<1>7. ASSUME NEW a, NEW i \in 1..Len(events), Unresolved(a, i)'
      PROVE  Unresolved(a, i) /\ (a = e.alert => e.verdict.tell = "firing")
  <2>1. \A k \in i..Len(events) : k \in i..n /\ events'[k] = events[k]
    BY <1>2, <1>3
  <2>2. n \in i..n /\ events'[i] = events[i]
    BY <1>2, <1>3
  <2> QED
    BY <1>2, <1>4, <1>7, <2>1, <2>2 DEF Unresolved
<1>8. ASSUME NEW a, NEW i, i = n, Unresolved(a, i)'
      PROVE  a = e.alert /\ e.verdict.tell = "firing"
  <2>1. n \in n..n /\ Len(events') = n
    BY <1>2, <1>3
  <2> QED
    BY <1>4, <1>8, <2>1 DEF Unresolved
<1>9. ASSUME NEW a \in Alerts PROVE Told(a, row[a])'
  <2>1. CASE a # e.alert
    <3>1. Told(a, row[a])
      BY <2>1 DEF RepeatInv, InHand
    <3>2. ASSUME NEW i \in 1..n, Unresolved(a, i)'
          PROVE  i \in 1..Len(events) /\ Unresolved(a, i) /\ events'[i] = events[i]
      <4>1. i # n
        BY <1>8, <2>1, <3>2
      <4>2. i \in 1..Len(events)
        BY <1>3, <4>1
      <4> QED
        BY <1>2, <1>7, <3>2, <4>2
    <3> QED
      BY <1>2, <3>1, <3>2 DEF Told
  <2>2. CASE a = e.alert /\ e.verdict.tell = "firing"
    <3>1. /\ row[a].state = "firing" /\ row[a].notified = e.at
          /\ \A i \in 1..Len(events) : Unresolved(a, i) => e.at - events[i].at >= RepeatEvery
      BY <1>6, <2>2 DEF Due
    <3>2. ASSUME NEW i \in 1..n, Unresolved(a, i)' PROVE events'[i].at <= row[a].notified
      <4>1. CASE i = n
        BY <1>4, <1>6, <3>1, <4>1
      <4>2. CASE i # n
        <5>1. i \in 1..Len(events)
          BY <1>3, <4>2
        <5>2. e.at - events[i].at >= RepeatEvery /\ events'[i] = events[i]
          BY <1>2, <1>7, <3>1, <3>2, <5>1
        <5> QED
          BY <1>3, <1>6, <3>1, <5>1, <5>2, RuleAssumption
      <4> QED
        BY <4>1, <4>2
    <3> QED
      BY <1>2, <1>6, <3>1, <3>2 DEF Told, On
  <2>3. CASE a = e.alert /\ e.verdict.tell = "resolved"
    <3>1. row[a].state = "normal" /\ row[a].first = Never
      BY <1>6, <2>3 DEF Due
    <3>2. ASSUME NEW i \in 1..n, Unresolved(a, i)' PROVE FALSE
      <4>1. CASE i = n
        BY <1>8, <2>3, <3>2, <4>1
      <4>2. CASE i # n
        <5>1. i \in 1..Len(events)
          BY <1>3, <4>2
        <5> QED
          BY <1>7, <2>3, <3>2, <5>1
      <4> QED
        BY <4>1, <4>2
    <3> QED
      BY <1>2, <3>1, <3>2 DEF Told, On
  <2> QED
    BY <1>6, <2>1, <2>2, <2>3
<1>10. ASSUME NEW i \in DOMAIN events', NEW j \in DOMAIN events', i < j,
              events'[i].alert = events'[j].alert,
              events'[i].kind = "firing", events'[j].kind = "firing",
              \A k \in i..j : events'[k].alert = events'[i].alert => events'[k].kind = "firing"
       PROVE  events'[j].at - events'[i].at >= RepeatEvery
  <2>1. i \in 1..Len(events) /\ events'[i] = events[i]
    BY <1>2, <1>3, <1>10
  <2>2. CASE j = n
    <3>1. \A a : a = e.alert => Unresolved(a, i)'
      BY <1>2, <1>4, <1>10, <2>2 DEF Unresolved
    <3>2. Unresolved(e.alert, i) /\ e.verdict.tell = "firing"
      BY <1>7, <2>1, <3>1
    <3> QED
      BY <1>4, <1>6, <2>1, <2>2, <3>2 DEF Due
  <2>3. CASE j # n
    <3>1. j \in 1..Len(events) /\ events'[j] = events[j]
      BY <1>2, <1>3, <2>3
    <3>2. \A k \in i..j : events'[k] = events[k]
      BY <1>2, <1>3, <2>1, <3>1
    <3> QED
      BY <1>3, <1>10, <2>1, <3>1, <3>2 DEF RepeatInv, RepeatSpacing
  <2> QED
    BY <2>2, <2>3
<1>11. RepeatSpacing'
    BY <1>10 DEF RepeatSpacing
<1> QED
    BY <1>2, <1>9, <1>11 DEF RepeatInv, AtStep

\* A reload tells of no alert that fires, and what it tells of is off.
LEMMA RepeatReload ==
    ASSUME RepeatInv, Alone', ResolvedInv', CommitReload
    PROVE  RepeatInv'
<1>1. AlertTypes /\ AlertTypes' /\ "round" \in Tasks
    BY DEF RepeatInv, Alone, Tasks
<1>2. PICK standing : standing = stored'
    OBVIOUS
<1>3. /\ UNCHANGED <<now, evaluator>>
      /\ \A a \in Orphans(standing) : a \in Alerts /\ ~Engaged(a)
    BY <1>1, <1>2, ReloadIs
<1>4. ResolveOrphans(standing)
    BY <1>1, <1>2, ReloadIs
<1>5. /\ \A a \in Alerts \ Orphans(standing) : row'[a] = row[a]
      /\ \A a \in Orphans(standing) : row'[a].state = "normal" /\ row'[a].first = Never
      /\ \A i \in 1..Len(events) : events'[i] = events[i]
      /\ \A i \in 1..Len(events') : i > Len(events) =>
            events'[i].kind = "resolved" /\ events'[i].alert \in Orphans(standing)
      /\ \A a \in Orphans(standing) :
            \E i \in 1..Len(events') : i > Len(events) /\ events'[i].alert = a
      /\ Len(events') >= Len(events)
    BY <1>1, <1>4, ResolveOrphansIs
<1>6. /\ Len(events) \in Nat /\ DOMAIN events = 1..Len(events)
      /\ Len(events') \in Nat /\ DOMAIN events' = 1..Len(events')
    BY <1>1, EventsAreSequence
\* No notification stands that the reload added, nor one of an alert it turned off.
<1>7. ASSUME NEW a, NEW i \in 1..Len(events'), Unresolved(a, i)'
      PROVE  /\ i \in 1..Len(events) /\ events'[i] = events[i] /\ Unresolved(a, i)
             /\ a \notin Orphans(standing)
  <2>1. i \in i..Len(events') /\ events'[i].alert = a /\ events'[i].kind = "firing"
    BY <1>6, <1>7 DEF Unresolved
  <2>2. i \in 1..Len(events) /\ events'[i] = events[i]
    BY <1>5, <1>6, <2>1
  <2>3. \A k \in i..Len(events) : k \in i..Len(events') /\ events'[k] = events[k]
    BY <1>5, <1>6, <2>2
  <2>4. Unresolved(a, i)
    BY <1>7, <2>2, <2>3 DEF Unresolved
  <2>5. ASSUME a \in Orphans(standing) PROVE FALSE
    <3>1. PICK k \in 1..Len(events') : k > Len(events) /\ events'[k].alert = a
      BY <1>5, <2>5
    <3>2. k \in i..Len(events') /\ events'[k].kind = "resolved"
      BY <1>5, <1>6, <2>2, <3>1
    <3> QED
      BY <1>7, <3>1, <3>2 DEF Unresolved
  <2> QED
    BY <2>2, <2>4, <2>5
<1>8. \A a, r : Told(a, r) => Told(a, r)'
    BY <1>7 DEF Told
<1>9. ASSUME NEW a \in Alerts, ~InHand(a)' PROVE Told(a, row[a])'
  <2>1. CASE a \in Orphans(standing)
    BY <1>5, <1>7, <2>1 DEF Told, On
  <2>2. CASE a \notin Orphans(standing)
    <3>1. Told(a, row[a]) /\ row'[a] = row[a]
      BY <1>3, <1>5, <1>9, <2>2 DEF RepeatInv, InHand, AtStep
    <3> QED
      BY <1>8, <3>1
  <2> QED
    BY <2>1, <2>2
<1>10. ASSUME NEW e, Due(e) PROVE Due(e)'
    BY <1>7, <1>8, <1>10 DEF Due
<1>11. AtStep("round", "decided")' \/ AtStep("round", "stored")' => Due(evaluator["round"])'
    BY <1>3, <1>10 DEF RepeatInv, AtStep
<1>12. AtStep("round", "stored") =>
        row'[evaluator["round"].alert] = row[evaluator["round"].alert]
  <2> SUFFICES ASSUME AtStep("round", "stored")
               PROVE  row'[evaluator["round"].alert] = row[evaluator["round"].alert]
    OBVIOUS
  <2>1. evaluator["round"].alert \in Alerts /\ Engaged(evaluator["round"].alert)
    BY <1>1 DEF AlertTypes, Engaged, Busy, AtStep
  <2> QED
    BY <1>3, <1>5, <2>1
<1>13. ASSUME NEW i \in DOMAIN events', NEW j \in DOMAIN events', i < j,
              events'[i].alert = events'[j].alert,
              events'[i].kind = "firing", events'[j].kind = "firing",
              \A k \in i..j : events'[k].alert = events'[i].alert => events'[k].kind = "firing"
       PROVE  events'[j].at - events'[i].at >= RepeatEvery
  <2>1. i \in 1..Len(events) /\ j \in 1..Len(events)
    BY <1>5, <1>6, <1>13
  <2>2. events'[i] = events[i] /\ events'[j] = events[j]
        /\ \A k \in i..j : events'[k] = events[k]
    BY <1>5, <1>6, <2>1
  <2> QED
    BY <1>6, <1>13, <2>1, <2>2 DEF RepeatInv, RepeatSpacing
<1>14. RepeatSpacing'
    BY <1>13 DEF RepeatSpacing
<1> QED
    BY <1>3, <1>9, <1>11, <1>12, <1>14 DEF RepeatInv, AtStep

LEMMA RepeatStep == RepeatInv /\ ResolvedInv' /\ [Next]_vars => RepeatInv'
<1> SUFFICES ASSUME RepeatInv, ResolvedInv', [Next]_vars PROVE RepeatInv'
    OBVIOUS
<1>1. Alone /\ Alone' /\ AlertTypes /\ "round" \in Tasks
    BY AloneStep DEF RepeatInv, Alone, Tasks
<1>2. CASE UNCHANGED <<now, row, events, evaluator, holding>>
    BY <1>1, <1>2, RepeatAside
<1>3. CASE ClockTicks
    BY <1>1, <1>3, RepeatAside DEF ClockTicks, tables
<1>4. ASSUME NEW c \in Checks, BeginRound(c) PROVE RepeatInv'
    BY <1>1, <1>4, BeginTyped, RepeatAside DEF BeginRound, BetweenCycles, AtStep, tables
<1>5. CASE NotEnoughData
    BY <1>1, <1>5, FinishTyped, RepeatAside DEF NotEnoughData, AtStep, tables
<1>6. CASE TakeUp("round")
    BY <1>1, <1>6, TakeUpTyped, RepeatAside DEF TakeUp, AtStep, tables
<1>7. CASE InsertOutbox("round")
    BY <1>1, <1>7, FinishTyped, RepeatAside DEF InsertOutbox, AtStep
<1> QED
    BY <1>1, <1>2, <1>3, <1>4, <1>5, <1>6, <1>7, AloneSteps,
       RepeatDecides, RepeatStores, RepeatReports, RepeatReload

\* Two notifications that one alert still fires are at least repeat_every apart
\* (alerts.rs:615-664 and 994-1023), for any rule that has a duration, any readings, alerts
\* and rounds, however late the evaluations are, and whatever is reloaded; as long as no
\* evaluation is at an alert while a reload removes it, and no failing statement, crash or
\* second evaluator intervenes.  Without a duration the first repetition comes too soon.
THEOREM RepeatsSpaced ==
    Spec /\ Undisturbed /\ Duration # NotSet /\ []NoneInHand => []RepeatSpacing
<1>1. Init /\ Undisturbed /\ Duration # NotSet => RepeatInv
  <2> SUFFICES ASSUME Init, Undisturbed, Duration # NotSet PROVE RepeatInv
    OBVIOUS
  <2>1. evaluator["round"].step = "idle"
    BY IdleIsEvaluation DEF Init, Tasks
  <2>2. Len(events) = 0 /\ DOMAIN events = {}
    BY EmptySeq DEF Init
  <2>3. \A a \in Alerts : Told(a, row[a])
    BY <2>2 DEF Init, Told, NoRow, On
  <2>4. RepeatSpacing
    BY <2>2 DEF RepeatSpacing
  <2> QED
    BY <2>1, <2>3, <2>4, AloneInit DEF RepeatInv, AtStep
<1>2. RepeatInv => RepeatSpacing
    BY DEF RepeatInv
<1> QED
    BY <1>1, <1>2, RepeatStep, ResolvedInit, ResolvedStep, PTL DEF Spec

-----------------------------------------------------------------------------
(***************************************************************************)
(* What the events tell.                                                   *)
(***************************************************************************)

\* The verdict tells that the alert turns on or off, or that it is still on.
Tells(e) ==
    LET before == e.seen.state
        after == e.verdict.row.state IN
    /\ e.verdict.tell = "nothing" => (after \in On <=> before \in On)
    /\ e.verdict.tell = "firing" => after = "firing" /\ before # "pending_clear"
    /\ e.verdict.tell = "resolved" => after = "normal" /\ before \in On

ToldNow(a) == ToldOn(a, Len(events) + 1)

TurnsAlternate ==
    \A a \in Alerts : \A i \in Turns(a) :
        events[i].kind = IF ToldOn(a, i) THEN "resolved" ELSE "firing"

TurnInv ==
    /\ Alone
    /\ TurnsAlternate
    /\ \A a \in Alerts : ~InHand(a) => (Raised(a) <=> ToldNow(a))
    /\ AtStep("round", "decided") \/ AtStep("round", "stored") =>
        LET e == evaluator["round"] IN
        /\ e.seen.state \in On <=> ToldNow(e.alert)
        /\ Tells(e)
    /\ AtStep("round", "stored") =>
        /\ row[evaluator["round"].alert] = evaluator["round"].verdict.row
        /\ evaluator["round"].verdict.tell # "nothing"

\* What an alert is told of is that it turns on, that it turns off, or that a
\* firing alert still fires; a verdict that tells nothing leaves it on or off.
LEMMA DecisionTells ==
    ASSUME NEW r \in Rows, NEW fire \in BOOLEAN, NEW clear \in BOOLEAN, NEW at \in Nat
    PROVE  LET v == RoundDecision(r, fire, clear, at) IN
           /\ v.tell = "nothing" => (v.row.state \in On <=> r.state \in On)
           /\ v.tell = "firing" => v.row.state = "firing" /\ r.state # "pending_clear"
           /\ v.tell = "resolved" => v.row.state = "normal" /\ r.state \in On
<1> USE DEF Rows, RowStates, On, Decide, OrNow
<1>1. CASE r.state = "normal"
    BY <1>1 DEF RoundDecision, FromNormal
<1>2. CASE r.state = "pending_fire"
    BY <1>2 DEF RoundDecision, FromPendingFire
<1>3. CASE r.state = "firing"
    BY <1>3 DEF RoundDecision, FromFiring, StillFiring
<1>4. CASE r.state = "pending_clear"
    BY <1>4 DEF RoundDecision, FromPendingClear
<1> QED
    BY <1>1, <1>2, <1>3, <1>4

\* A step that neither decides, stores nor reports leaves what is known.
LEMMA TurnAside ==
    ASSUME TurnInv, Alone', UNCHANGED <<row, events>>,
           \/ UNCHANGED evaluator
           \/ /\ ~AtStep("round", "decided") /\ ~AtStep("round", "decided")'
              /\ ~AtStep("round", "stored") /\ ~AtStep("round", "stored")'
    PROVE  TurnInv'
<1>1. /\ \A a : Turns(a)' = Turns(a)
      /\ \A a : ToldNow(a)' <=> ToldNow(a)
      /\ \A a, i : ToldOn(a, i)' <=> ToldOn(a, i)
      /\ \A a : Raised(a)' <=> Raised(a)
    BY DEF Turns, ToldOn, ToldNow, Raised
<1>2. TurnsAlternate'
    BY <1>1 DEF TurnInv, TurnsAlternate
<1>3. CASE UNCHANGED evaluator
    BY <1>1, <1>2, <1>3 DEF TurnInv, InHand, AtStep, Tells
<1>4. CASE /\ ~AtStep("round", "decided") /\ ~AtStep("round", "decided")'
           /\ ~AtStep("round", "stored") /\ ~AtStep("round", "stored")'
    BY <1>1, <1>2, <1>4 DEF TurnInv, InHand
<1> QED
    BY <1>3, <1>4

LEMMA TurnDecides == TurnInv /\ Alone' /\ DecideRound => TurnInv'
<1> SUFFICES ASSUME TurnInv, Alone', DecideRound PROVE TurnInv'
    OBVIOUS
<1> DEFINE e == evaluator["round"]
           d == evaluator'["round"]
<1>1. AlertTypes
    BY DEF TurnInv, Alone
<1>2. /\ e.step = "begun" /\ e.alert \in Alerts /\ e.at \in Nat
      /\ d.step = "decided" /\ d.alert = e.alert /\ d.seen = row[e.alert]
      /\ UNCHANGED <<row, events>>
    BY <1>1, DecideRoundIs
<1>3. PICK fire \in BOOLEAN, clear \in BOOLEAN :
        d.verdict = RoundDecision(row[e.alert], fire, clear, e.at)
    BY <1>1, DecideRoundIs
<1>4. row[e.alert] \in Rows
    BY <1>1, <1>2 DEF AlertTypes
<1>5. Tells(d)
    BY <1>2, <1>3, <1>4, DecisionTells DEF Tells
<1>6. /\ \A a : Turns(a)' = Turns(a)
      /\ \A a : ToldNow(a)' <=> ToldNow(a)
      /\ \A a, i : ToldOn(a, i)' <=> ToldOn(a, i)
      /\ \A a : Raised(a)' <=> Raised(a)
    BY <1>2 DEF Turns, ToldOn, ToldNow, Raised
<1>7. TurnsAlternate'
    BY <1>2, <1>6 DEF TurnInv, TurnsAlternate
<1>8. \A a \in Alerts : Raised(a) <=> ToldNow(a)
    BY <1>2 DEF TurnInv, InHand, AtStep
<1>9. (evaluator["round"].seen.state \in On <=> ToldNow(evaluator["round"].alert))'
    BY <1>2, <1>6, <1>8 DEF Raised, On
<1>10. Tells(evaluator["round"])'
    BY <1>5 DEF Tells
<1> QED
    BY <1>2, <1>6, <1>7, <1>8, <1>9, <1>10 DEF TurnInv, AtStep

LEMMA TurnStores == TurnInv /\ Alone' /\ StoreRow("round") => TurnInv'
<1> SUFFICES ASSUME TurnInv, Alone', StoreRow("round") PROVE TurnInv'
    OBVIOUS
<1> DEFINE e == evaluator["round"]
           d == evaluator'["round"]
<1>1. AlertTypes /\ "round" \in Tasks
    BY DEF TurnInv, Alone, Tasks
<1>2. /\ e \in Evaluations /\ e.step = "decided" /\ e.alert \in Alerts
      /\ row' = [row EXCEPT ![e.alert] = e.verdict.row] /\ events' = events
      /\ IF e.verdict.tell = "nothing" THEN d.step = "idle"
         ELSE d = [e EXCEPT !.step = "stored"]
    BY <1>1, StoreTyped DEF StoreRow, AlertTypes, AtStep
<1>3. Tells(e) /\ (e.seen.state \in On <=> ToldNow(e.alert))
    BY <1>2 DEF TurnInv, AtStep
<1>4. /\ e.verdict.tell # "nothing" =>
            /\ d.step = "stored" /\ d.alert = e.alert /\ d.verdict = e.verdict /\ d.seen = e.seen
      /\ e.verdict.tell = "nothing" => d.step = "idle"
    BY <1>2 DEF Evaluations
<1>5. /\ \A a : Turns(a)' = Turns(a)
      /\ \A a : ToldNow(a)' <=> ToldNow(a)
      /\ \A a, i : ToldOn(a, i)' <=> ToldOn(a, i)
    BY <1>2 DEF Turns, ToldOn, ToldNow
<1>6. row'[e.alert] = e.verdict.row /\ \A a \in Alerts : a # e.alert => row'[a] = row[a]
    BY <1>1, <1>2 DEF AlertTypes
<1>7. ASSUME NEW a \in Alerts, ~InHand(a)' PROVE Raised(a)' <=> ToldNow(a)'
  <2>1. CASE a = e.alert
    <3>1. e.verdict.tell = "nothing"
      BY <1>4, <1>7, <2>1 DEF InHand, AtStep
    <3> QED
      BY <1>3, <1>5, <1>6, <2>1, <3>1 DEF Tells, Raised, On
  <2>2. CASE a # e.alert
    <3>1. Raised(a) <=> ToldNow(a)
      BY <2>2 DEF TurnInv, InHand
    <3> QED
      BY <1>5, <1>6, <2>2, <3>1 DEF Raised
  <2> QED
    BY <2>1, <2>2
<1>8. TurnsAlternate'
    BY <1>2, <1>5 DEF TurnInv, TurnsAlternate
<1>9. d.step = "stored" =>
        /\ Tells(evaluator["round"])'
        /\ (evaluator["round"].seen.state \in On <=> ToldNow(evaluator["round"].alert))'
    BY <1>2, <1>3, <1>4, <1>5 DEF Tells
<1> QED
    BY <1>2, <1>4, <1>6, <1>7, <1>8, <1>9 DEF TurnInv, AtStep

\* An event added at the end is a turn or none; what was told before it stays.
LEMMA TurnAdded ==
    ASSUME Len(events) \in Nat, DOMAIN events = 1..Len(events),
           DOMAIN events' = 1..(Len(events) + 1),
           \A i \in 1..Len(events) : events'[i] = events[i], NEW a, NEW n, n = Len(events) + 1
    PROVE  /\ Turns(a)' = Turns(a) \cup
                IF events'[n].alert = a /\ ~(events'[n].from = "firing" /\ events'[n].to = "firing")
                THEN {n} ELSE {}
           /\ \A i \in 1..n : ToldOn(a, i)' <=> ToldOn(a, i)
           /\ ToldOn(a, n + 1)' <=>
                IF n \in Turns(a)' THEN events'[n].kind = "firing" ELSE ToldOn(a, n)
<1>1. Turns(a) \subseteq 1..Len(events) /\ n \notin Turns(a)
    BY DEF Turns
<1>2. Turns(a)' = Turns(a) \cup
                IF events'[n].alert = a /\ ~(events'[n].from = "firing" /\ events'[n].to = "firing")
                THEN {n} ELSE {}
    BY DEF Turns
<1>3. \A i \in Turns(a) : events'[i] = events[i] /\ i < n /\ i \in Nat
    BY <1>1
<1>4. Turns(a)' \subseteq Turns(a) \cup {n}
    BY <1>2
<1>5. \A i \in 1..n : ToldOn(a, i)' <=> ToldOn(a, i)
  <2> SUFFICES ASSUME NEW i \in 1..n PROVE ToldOn(a, i)' <=> ToldOn(a, i)
    OBVIOUS
  <2>1. ~(n < i)
    OBVIOUS
  <2> QED
    BY <1>2, <1>3, <1>4, <2>1 DEF ToldOn
<1>6. CASE n \in Turns(a)'
  <2>1. \A j \in Turns(a)' : j <= n /\ j < n + 1
    BY <1>3, <1>4
  <2>2. \A i \in Turns(a)' : n <= i => i = n
    BY <1>3, <1>4
  <2>3. n < n + 1
    OBVIOUS
  <2> QED
    BY <1>2, <1>5, <1>6, <2>1, <2>2, <2>3 DEF ToldOn
<1>7. CASE n \notin Turns(a)'
  <2>1. Turns(a)' = Turns(a) /\ \A i \in Turns(a) : i < n /\ i < n + 1
    BY <1>2, <1>3, <1>7
  <2> QED
    BY <1>2, <1>3, <1>5, <1>7, <2>1 DEF ToldOn
<1> QED
    BY <1>2, <1>5, <1>6, <1>7

LEMMA TurnReports == TurnInv /\ Alone' /\ InsertEvent("round") => TurnInv'
<1> SUFFICES ASSUME TurnInv, Alone', InsertEvent("round") PROVE TurnInv'
    OBVIOUS
<1> DEFINE e == evaluator["round"]
<1>1. AlertTypes /\ AlertTypes' /\ "round" \in Tasks
    BY DEF TurnInv, Alone, Tasks
<1>0. PICK n, b : n = Len(events) + 1 /\ b = e.alert
    OBVIOUS
<1>2. /\ e.step = "stored" /\ b = e.alert /\ b \in Alerts /\ row' = row
      /\ evaluator'["round"].step = "reported"
      /\ Len(events') = n /\ n = Len(events) + 1 /\ \A i \in 1..Len(events) : events'[i] = events[i]
      /\ events'[n] = EventOf(e)
    BY <1>0, <1>1, InsertTyped DEF InsertEvent, AtStep
<1>3. /\ Len(events) \in Nat /\ DOMAIN events = 1..Len(events) /\ DOMAIN events' = 1..n
    BY <1>1, <1>2, EventsAreSequence
<1>4. /\ events'[n].alert = b /\ events'[n].kind = e.verdict.tell
      /\ events'[n].from = e.seen.state /\ events'[n].to = e.verdict.row.state
    BY <1>2 DEF EventOf
<1>5. e \in Evaluations
    BY <1>1 DEF AlertTypes
<1>6. /\ e.verdict.tell \in {"firing", "resolved"} /\ Tells(e)
      /\ e.seen.state \in On <=> ToldOn(b, n)
      /\ row[b] = e.verdict.row
    BY <1>2, <1>5 DEF TurnInv, AtStep, Evaluations, Verdicts, ToldNow
<1>7. ASSUME NEW a PROVE
           /\ Turns(a)' = Turns(a) \cup
                IF events'[n].alert = a /\ ~(events'[n].from = "firing" /\ events'[n].to = "firing")
                THEN {n} ELSE {}
           /\ \A i \in 1..n : ToldOn(a, i)' <=> ToldOn(a, i)
           /\ ToldOn(a, n + 1)' <=>
                IF n \in Turns(a)' THEN events'[n].kind = "firing" ELSE ToldOn(a, n)
    BY <1>2, <1>3, TurnAdded
<1>8. \A a : Turns(a) \subseteq 1..Len(events) /\ n \notin Turns(a)
    BY <1>2, <1>3 DEF Turns
<1>9. n \in 1..n /\ 1..Len(events) \subseteq 1..n
    BY <1>2, <1>3
\* The report is a turn unless the alert fired and still fires.
<1>10. n \in Turns(b)' => events'[n].kind = IF ToldOn(b, n) THEN "resolved" ELSE "firing"
  <2>1. CASE e.verdict.tell = "firing"
    <3>1. n \in Turns(b)' => e.seen.state \notin On
      BY <1>4, <1>6, <1>7, <1>8, <2>1 DEF Tells, On
    <3> QED
      BY <1>4, <1>6, <2>1, <3>1
  <2>2. CASE e.verdict.tell = "resolved"
    BY <1>4, <1>6, <2>2 DEF Tells
  <2> QED
    BY <1>6, <2>1, <2>2
<1>11. ASSUME NEW a \in Alerts, NEW i \in Turns(a)'
       PROVE  events'[i].kind = IF ToldOn(a, i)' THEN "resolved" ELSE "firing"
  <2>1. CASE i \in Turns(a)
    <3>1. i \in 1..n /\ events'[i] = events[i] /\ (ToldOn(a, i)' <=> ToldOn(a, i))
      BY <1>2, <1>7, <1>8, <1>9, <2>1
    <3>2. events[i].kind = IF ToldOn(a, i) THEN "resolved" ELSE "firing"
      BY <2>1 DEF TurnInv, TurnsAlternate
    <3> QED
      BY <3>1, <3>2
  <2>2. CASE i \notin Turns(a)
    <3>1. i = n /\ a = b
      BY <1>4, <1>7, <1>11, <2>2
    <3> QED
      BY <1>7, <1>9, <1>10, <1>11, <3>1
  <2> QED
    BY <2>1, <2>2
<1>12. TurnsAlternate'
    BY <1>11 DEF TurnsAlternate
<1>13. ASSUME NEW a \in Alerts PROVE Raised(a)' <=> ToldNow(a)'
  <2>1. ToldNow(a)' <=> ToldOn(a, n + 1)'
    BY <1>2 DEF ToldNow
  <2>2. CASE a # b
    <3>1. Raised(a) <=> ToldOn(a, n)
      BY <1>2, <2>2 DEF TurnInv, InHand, ToldNow
    <3>2. n \notin Turns(a)'
      BY <1>4, <1>7, <1>8, <2>2
    <3> QED
      BY <1>2, <1>7, <2>1, <3>1, <3>2 DEF Raised
  <2>3. CASE a = b /\ e.verdict.tell = "resolved"
    <3>1. n \in Turns(a)' /\ ~Raised(a)'
      BY <1>2, <1>4, <1>6, <1>7, <2>3 DEF Tells, Raised
    <3> QED
      BY <1>4, <1>7, <2>1, <2>3, <3>1
  <2>4. CASE a = b /\ e.verdict.tell = "firing"
    <3>1. Raised(a)'
      BY <1>2, <1>6, <2>4 DEF Tells, Raised
    <3>2. n \notin Turns(a)' => ToldOn(a, n)
      BY <1>4, <1>6, <1>7, <2>4 DEF Tells, On
    <3> QED
      BY <1>4, <1>7, <2>1, <2>4, <3>1, <3>2
  <2> QED
    BY <1>6, <2>2, <2>3, <2>4
<1> QED
    BY <1>2, <1>12, <1>13 DEF TurnInv, AtStep

\* No reload removes the rule or the check of an alert that is about to fire.
NonePending ==
    \A a \in Alerts :
        stored'[a] \in Gone /\ stored[a] \notin Gone => row[a].state # "pending_fire"

\* Whether an alert is told of as on depends on the turns before the place.
LEMMA ToldAlike ==
    ASSUME NEW a, NEW i, NEW j,
           \A x : x \in Turns(a)' /\ x < i <=> x \in Turns(a) /\ x < j,
           \A x \in Turns(a) : events'[x] = events[x]
    PROVE  ToldOn(a, i)' <=> ToldOn(a, j)
BY DEF ToldOn

\* A reload tells once of each alert it turns off, after all that was told before.
LEMMA TurnReload ==
    ASSUME TurnInv, Alone', ResolvedInv, ResolvedInv', NonePending, CommitReload
    PROVE  TurnInv'
<1>1. AlertTypes /\ AlertTypes' /\ "round" \in Tasks
    BY DEF TurnInv, Alone, Tasks
<1>2. PICK standing : standing = stored'
    OBVIOUS
<1>3. /\ UNCHANGED <<now, evaluator>>
      /\ \A a \in Orphans(standing) : a \in Alerts /\ ~Engaged(a)
    BY <1>1, <1>2, ReloadIs
<1>4. ResolveOrphans(standing)
    BY <1>1, <1>2, ReloadIs
<1>5. PICK n : n = Len(events)
    OBVIOUS
<1>6. /\ \A a \in Alerts \ Orphans(standing) : row'[a] = row[a]
      /\ \A a \in Orphans(standing) : row'[a].state = "normal"
      /\ \A i \in 1..n : events'[i] = events[i]
      /\ \A i \in 1..Len(events') : i > n =>
            /\ events'[i].kind = "resolved" /\ events'[i].alert \in Orphans(standing)
            /\ events'[i].to = "normal"
      /\ \A a \in Orphans(standing) : \E i \in 1..Len(events') : i > n /\ events'[i].alert = a
      /\ \A i, j \in 1..Len(events') :
            i > n /\ j > n /\ events'[i].alert = events'[j].alert => i = j
      /\ Len(events') >= n
    BY <1>1, <1>4, <1>5, ResolveOrphansIs
<1>7. /\ n \in Nat /\ DOMAIN events = 1..n
      /\ Len(events') \in Nat /\ DOMAIN events' = 1..Len(events')
    BY <1>1, <1>5, EventsAreSequence
\* The turns of before stay, and one is added of each alert that is turned off.
<1>8. \A a, i : i \in Turns(a)' <=>
        i \in Turns(a) \/ (i \in 1..Len(events') /\ i > n /\ events'[i].alert = a)
  <2> SUFFICES ASSUME NEW a, NEW i PROVE i \in Turns(a)' <=>
        i \in Turns(a) \/ (i \in 1..Len(events') /\ i > n /\ events'[i].alert = a)
    OBVIOUS
  <2>1. CASE i \in 1..n
    <3>1. i \in 1..Len(events') /\ ~(i > n) /\ events'[i] = events[i]
      BY <1>6, <1>7, <2>1
    <3> QED
      BY <1>7, <2>1, <3>1 DEF Turns
  <2>2. CASE i \in 1..Len(events') /\ i > n
    <3>1. i \notin 1..n /\ events'[i].to = "normal"
      BY <1>6, <1>7, <2>2
    <3> QED
      BY <1>7, <2>2, <3>1 DEF Turns
  <2>3. CASE i \notin 1..n /\ i \notin 1..Len(events')
    BY <1>7, <2>3 DEF Turns
  <2> QED
    BY <1>7, <2>1, <2>2, <2>3
<1>9. \A a, i : i \in Turns(a) =>
        i \in 1..n /\ i <= n /\ i < n + 1 /\ i < Len(events') + 1 /\ events'[i] = events[i]
    BY <1>6, <1>7 DEF Turns
<1>10. \A a, i : i \in 1..n => (ToldOn(a, i)' <=> ToldOn(a, i))
  <2> SUFFICES ASSUME NEW a, NEW i \in 1..n PROVE ToldOn(a, i)' <=> ToldOn(a, i)
    OBVIOUS
  <2>1. \A x \in 1..Len(events') : x > n => ~(x < i)
    BY <1>7
  <2> QED
    BY <1>8, <1>9, <2>1, ToldAlike
<1>11. \A a : ToldNow(a) <=> ToldOn(a, n + 1)
    BY <1>5 DEF ToldNow
<1>12. ASSUME NEW a \in Alerts, a \notin Orphans(standing) PROVE ToldNow(a)' <=> ToldNow(a)
  <2>1. \A i : i \in Turns(a)' <=> i \in Turns(a)
    BY <1>6, <1>8, <1>12
  <2>2. PICK m : m = Len(events') + 1
    OBVIOUS
  <2>3. \A x : x \in Turns(a)' /\ x < m <=> x \in Turns(a) /\ x < n + 1
    BY <1>9, <2>1, <2>2
  <2>4. ToldOn(a, m)' <=> ToldOn(a, n + 1)
    BY <1>9, <2>3, ToldAlike
  <2>5. ToldNow(a)' <=> ToldOn(a, m)'
    BY <2>2 DEF ToldNow
  <2> QED
    BY <1>11, <2>4, <2>5
\* What is turned off was on, and was told of as on.
<1>13. ASSUME NEW a \in Orphans(standing) PROVE ToldOn(a, n + 1)
  <2>1. a \in Alerts /\ ~InHand(a)
    BY <1>1, <1>3 DEF InHand, Engaged, Busy, AtStep
  <2>2. row[a].state # "normal" /\ stored'[a] \in Gone /\ row[a].state \in RowStates
    BY <1>1, <1>2, <2>1 DEF Orphans, Active, Gone, AlertTypes, Rows
  <2>3. stored[a] \notin Gone
    BY <2>1, <2>2 DEF ResolvedInv
  <2>4. Raised(a)
    BY <2>1, <2>2, <2>3 DEF NonePending, RowStates, On, Raised
  <2> QED
    BY <1>11, <2>1, <2>4 DEF TurnInv
<1>14. ASSUME NEW a, NEW i \in 1..Len(events'), i > n, events'[i].alert = a
       PROVE  ToldOn(a, i)' /\ a \in Orphans(standing) /\ events'[i].kind = "resolved"
  <2>1. a \in Orphans(standing) /\ events'[i].kind = "resolved"
    BY <1>6, <1>14
  <2>2. \A x \in 1..Len(events') : x > n /\ events'[x].alert = a => ~(x < i)
    BY <1>6, <1>7, <1>14
  <2>3. \A x \in 1..n : x < i /\ x < n + 1
    BY <1>7, <1>14
  <2>4. \A x : x \in Turns(a)' /\ x < i <=> x \in Turns(a) /\ x < n + 1
    BY <1>8, <1>9, <2>2, <2>3
  <2>5. ToldOn(a, i)' <=> ToldOn(a, n + 1)
    BY <1>9, <2>4, ToldAlike
  <2> QED
    BY <1>13, <2>1, <2>5
<1>15. ASSUME NEW a \in Alerts, NEW i \in Turns(a)'
       PROVE  events'[i].kind = IF ToldOn(a, i)' THEN "resolved" ELSE "firing"
  <2>1. CASE i \in Turns(a)
    <3>1. i \in 1..n /\ events'[i] = events[i] /\ (ToldOn(a, i)' <=> ToldOn(a, i))
      BY <1>9, <1>10, <2>1
    <3>2. events[i].kind = IF ToldOn(a, i) THEN "resolved" ELSE "firing"
      BY <2>1 DEF TurnInv, TurnsAlternate
    <3> QED
      BY <3>1, <3>2
  <2>2. CASE i \notin Turns(a)
    <3>1. i \in 1..Len(events') /\ i > n /\ events'[i].alert = a
      BY <1>8, <1>15, <2>2
    <3> QED
      BY <1>14, <3>1
  <2> QED
    BY <2>1, <2>2
<1>16. TurnsAlternate'
    BY <1>15 DEF TurnsAlternate
<1>17. ASSUME NEW a \in Orphans(standing) PROVE ~Raised(a)' /\ ~ToldNow(a)'
  <2>1. PICK i \in 1..Len(events') : i > n /\ events'[i].alert = a
    BY <1>6
  <2>2. i \in Turns(a)' /\ i < Len(events') + 1 /\ events'[i].kind = "resolved"
    BY <1>6, <1>7, <1>8, <2>1
  <2>3. \A x \in Turns(a)' : i <= x => x = i
    BY <1>6, <1>7, <1>8, <1>9, <2>1
  <2>4. PICK m : m = Len(events') + 1
    OBVIOUS
  <2>5. \A x \in Turns(a)' : x # i => ~(i <= x)
    BY <2>3
  <2>6. ~ToldOn(a, m)'
    BY <2>2, <2>4, <2>5 DEF ToldOn
  <2>7. ~Raised(a)'
    BY <1>6 DEF Raised
  <2>8. ToldNow(a)' <=> ToldOn(a, m)'
    BY <2>4 DEF ToldNow
  <2> QED
    BY <2>6, <2>7, <2>8
<1>18. ASSUME NEW a \in Alerts, ~InHand(a)' PROVE Raised(a)' <=> ToldNow(a)'
  <2>1. CASE a \in Orphans(standing)
    BY <1>17, <2>1
  <2>2. CASE a \notin Orphans(standing)
    <3>1. (Raised(a) <=> ToldNow(a)) /\ row'[a] = row[a]
      BY <1>3, <1>6, <1>18, <2>2 DEF TurnInv, InHand, AtStep
    <3> QED
      BY <1>12, <2>2, <3>1 DEF Raised
  <2> QED
    BY <2>1, <2>2
<1>19. PICK b : b = evaluator["round"].alert
    OBVIOUS
<1>20. AtStep("round", "decided") \/ AtStep("round", "stored") =>
        row'[b] = row[b] /\ (ToldNow(b)' <=> ToldNow(b))
  <2> SUFFICES ASSUME AtStep("round", "decided") \/ AtStep("round", "stored")
               PROVE  row'[b] = row[b] /\ (ToldNow(b)' <=> ToldNow(b))
    OBVIOUS
  <2>1. b \in Alerts /\ Engaged(b)
    BY <1>1, <1>19 DEF AlertTypes, Engaged, Busy, AtStep
  <2> QED
    BY <1>3, <1>6, <1>12, <2>1
<1>21. evaluator'["round"].alert = b /\ evaluator'["round"] = evaluator["round"]
    BY <1>3, <1>19
<1>22. \A e : Tells(e)' <=> Tells(e)
    BY DEF Tells
<1>23. AtStep("round", "decided")' \/ AtStep("round", "stored")' =>
        /\ evaluator'["round"].seen.state \in On <=> ToldNow(b)'
        /\ Tells(evaluator["round"])'
    BY <1>3, <1>19, <1>20, <1>22 DEF TurnInv, AtStep
<1> QED
    BY <1>3, <1>16, <1>18, <1>19, <1>20, <1>21, <1>23 DEF TurnInv, AtStep

LEMMA TurnStep ==
    TurnInv /\ ResolvedInv /\ ResolvedInv' /\ [Next]_vars /\ [NonePending]_vars => TurnInv'
<1> SUFFICES ASSUME TurnInv, ResolvedInv, ResolvedInv', [Next]_vars, [NonePending]_vars
             PROVE  TurnInv'
    OBVIOUS
<1>1. Alone /\ Alone' /\ AlertTypes /\ "round" \in Tasks
    BY AloneStep DEF TurnInv, Alone, Tasks
<1>2. CASE UNCHANGED <<now, row, events, evaluator, holding>>
    BY <1>1, <1>2, TurnAside
<1>3. CASE ClockTicks
    BY <1>1, <1>3, TurnAside DEF ClockTicks, tables
<1>4. ASSUME NEW c \in Checks, BeginRound(c) PROVE TurnInv'
    BY <1>1, <1>4, BeginTyped, TurnAside DEF BeginRound, BetweenCycles, AtStep, tables
<1>5. CASE NotEnoughData
    BY <1>1, <1>5, FinishTyped, TurnAside DEF NotEnoughData, AtStep, tables
<1>6. CASE TakeUp("round")
    BY <1>1, <1>6, TakeUpTyped, TurnAside DEF TakeUp, AtStep, tables
<1>7. CASE InsertOutbox("round")
    BY <1>1, <1>7, FinishTyped, TurnAside DEF InsertOutbox, AtStep
<1>8. CASE CommitReload
  <2>1. reloads' # reloads
    BY <1>1, <1>8 DEF CommitReload, AlertTypes
  <2>2. NonePending
    BY <2>1 DEF vars, configuration
  <2> QED
    BY <1>1, <1>8, <2>2, TurnReload
<1> QED
    BY <1>1, <1>2, <1>3, <1>4, <1>5, <1>6, <1>7, <1>8, AloneSteps,
       TurnDecides, TurnStores, TurnReports

\* For each alert firing and resolved are told in turn, and an alert that no evaluation is
\* at is on in alert_states exactly when the last of them was firing (alerts.rs:381-664),
\* for any rule, alerts, readings and rounds, and whatever is reloaded; as long as no
\* evaluation is at an alert while a reload removes it, what a reload removes is not pending
\* (reconciliation.rs:222 resolves it all the same, though it never fired), and no failing
\* statement, crash or second evaluator intervenes.
THEOREM EventsTellState ==
    Spec /\ Undisturbed /\ []NoneInHand /\ [][NonePending]_vars => []StateTold
<1>1. Init /\ Undisturbed => TurnInv
  <2> SUFFICES ASSUME Init, Undisturbed PROVE TurnInv
    OBVIOUS
  <2>1. evaluator["round"].step = "idle"
    BY IdleIsEvaluation DEF Init, Tasks
  <2>2. \A a : Turns(a) = {}
    BY EmptySeq DEF Init, Turns
  <2>3. \A a \in Alerts : ~Raised(a) /\ ~ToldNow(a)
    BY <2>2 DEF Init, Raised, ToldNow, ToldOn, NoRow
  <2>4. TurnsAlternate
    BY <2>2 DEF TurnsAlternate
  <2> QED
    BY <2>1, <2>3, <2>4, AloneInit DEF TurnInv, AtStep
<1>2. TurnInv => StateTold
    BY DEF TurnInv, TurnsAlternate, StateTold, ToldNow, Busy, InHand, AtStep, Tasks
<1> QED
    BY <1>1, <1>2, TurnStep, ResolvedInit, ResolvedStep, PTL DEF Spec

=============================================================================
