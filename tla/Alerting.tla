------------------------------ MODULE Alerting ------------------------------
(***************************************************************************)
(* The two alert evaluators, the reconciliation of a reload, and the three *)
(* tables they share: alert_states, alert_events and notification_outbox.  *)
(*                                                                         *)
(* An alert is a rule together with a check.  A cycle of an evaluator      *)
(* takes the configuration once and evaluates one alert after another.  An *)
(* evaluation reads the row, then upserts it, inserts an event and inserts *)
(* an outbox entry, in statements of their own with no transaction around. *)
(***************************************************************************)
EXTENDS AlertRule, Sequences, FiniteSets

CONSTANTS
    Alerts,             \* the pairs of a rule and a check
    SilenceAlerts,      \* those whose metric is no_data
    CheckOf,            \* the check of an alert
    Readings,           \* outcomes of the two conditions on a window, [fire, clear]
    ReloadOutcomes,     \* what a reload may make of an alert, see Standing
    AlertChannelFull,   \* a round may find the alert channel full
    MaxNow,             \* bound of the model: the last instant
    MaxRounds,          \* bound of the model: rounds stored
    MaxReloads,         \* bound of the model: reloads
    MaxCrashes,         \* bound of the model: restarts of the process
    MaxFailures         \* bound of the model: statements that fail

\* What became of an alert in the configuration.
Standing == {"kept", "rule_removed", "check_removed", "target_removed", "profile_changed"}

ASSUME AlertsAssumption == IsFiniteSet(Alerts) /\ SilenceAlerts \subseteq Alerts
ASSUME CheckOfAssumption == DOMAIN CheckOf = Alerts
ASSUME ReadingsAssumption == Readings \subseteq [fire : BOOLEAN, clear : BOOLEAN]
ASSUME OutcomesAssumption == ReloadOutcomes \subseteq Standing
ASSUME AlertChannelAssumption == AlertChannelFull \in BOOLEAN
ASSUME AlertBoundsAssumption ==
    /\ MaxNow \in Nat /\ MaxRounds \in Nat /\ MaxReloads \in Nat
    /\ MaxCrashes \in Nat /\ MaxFailures \in Nat

VARIABLES
    now,          \* the wall clock
    row,          \* alert_states
    events,       \* alert_events, in order of insertion
    outbox,       \* notification_outbox: the events that have an entry
    evaluator,    \* the two evaluator tasks: the alerts left in the cycle and
                  \* the evaluation the task is in
    owed,         \* the checks of the rounds in the alert channel
    silent,       \* alerts whose check has had no round for no_data_period
    stored,       \* what the database knows of the configuration
    live,         \* what shared_config holds
    stage,        \* "running", or "reloading" between commit and swap
    rounds,       \* how many rounds were stored
    reloads,      \* how many reloads
    crashes,      \* how many restarts
    failures,     \* how many statements failed
    holding,      \* history: since when each evaluation found the fire condition
    transitions   \* history: how many rows were stored of which an event is to tell

tables == <<row, events, outbox>>
configuration == <<stored, live, stage, reloads>>
history == <<holding, transitions>>
vars == <<now, tables, evaluator, owed, silent, configuration, rounds, crashes, failures, history>>

Tasks == {"round", "silence"}

Checks == {CheckOf[a] : a \in Alerts}

\* A task is idle, or its evaluation has begun, decided, stored the row or
\* reported the event.
Idle == [step |-> "idle", todo |-> {}, alert |-> CHOOSE a \in Alerts : TRUE, at |-> 0,
         seen |-> NoRow, verdict |-> [row |-> NoRow, tell |-> "nothing"], event |-> 0]

Init ==
    /\ now = 0
    /\ row = [a \in Alerts |-> NoRow]
    /\ events = <<>>
    /\ outbox = {}
    /\ evaluator = [t \in Tasks |-> Idle]
    /\ owed = {}
    /\ silent = [a \in Alerts |-> FALSE]
    /\ stored = [a \in Alerts |-> "kept"]
    /\ live = [a \in Alerts |-> "kept"]
    /\ stage = "running"
    /\ rounds = 0 /\ reloads = 0 /\ crashes = 0 /\ failures = 0
    /\ holding = [a \in Alerts |-> Never]
    /\ transitions = 0

-----------------------------------------------------------------------------
(***************************************************************************)
(* The environment.                                                        *)
(***************************************************************************)
ClockTicks ==
    /\ now < MaxNow
    /\ now' = now + 1
    /\ UNCHANGED <<tables, evaluator, owed, silent, configuration, rounds, crashes, failures, history>>

\* The writer has stored a round of a check and tells the evaluator, unless
\* the channel is full.
RoundStored ==
    /\ rounds < MaxRounds
    /\ \E c \in {CheckOf[a] : a \in {b \in Alerts : stored[b] # "check_removed"}} :
        /\ silent' = [a \in Alerts |-> silent[a] /\ CheckOf[a] # c]
        /\ \/ owed' = owed \cup {c}
           \/ AlertChannelFull /\ owed' = owed
    /\ rounds' = rounds + 1
    /\ UNCHANGED <<now, tables, evaluator, configuration, crashes, failures, history>>

\* No round of a check for no_data_period.
SilenceFalls ==
    /\ \E a \in SilenceAlerts :
        /\ ~silent[a]
        /\ silent' = [silent EXCEPT ![a] = TRUE]
    /\ UNCHANGED <<now, tables, evaluator, owed, configuration, rounds, crashes, failures, history>>

-----------------------------------------------------------------------------
(***************************************************************************)
(* An evaluation.                                                          *)
(***************************************************************************)
AtStep(t, step) == evaluator[t].step = step

BetweenCycles(t) == AtStep(t, "idle") /\ evaluator[t].todo = {}

\* The task is done with the alert it was at, and keeps what is left of the cycle.
Finish(t) ==
    evaluator' = [evaluator EXCEPT ![t] =
        IF @.todo = {} THEN Idle ELSE [Idle EXCEPT !.todo = evaluator[t].todo, !.at = evaluator[t].at]]

BeginCycle(t, alerts) ==
    IF alerts = {} THEN UNCHANGED evaluator
    ELSE evaluator' = [evaluator EXCEPT ![t].todo = alerts, ![t].at = now]

\* evaluate_round: the rules that the live configuration applies to the check,
\* if its row says it is active.
BeginRound(c) ==
    /\ c \in owed /\ BetweenCycles("round")
    /\ BeginCycle("round", {a \in Alerts : /\ CheckOf[a] = c /\ live[a] = "kept"
                                          /\ stored[a] # "check_removed"})
    /\ owed' = owed \ {c}
    /\ UNCHANGED <<now, tables, silent, configuration, rounds, crashes, failures, history>>

\* Mutant: the inactive checks are listed too.
LooksAtInactive(a) == live[a] # "rule_removed"

\* evaluate_no_data: the live configuration has the rule, and the row of the
\* check is active.  The target of the check is not looked at.
LooksAt(a) == live[a] # "rule_removed" /\ stored[a] # "check_removed"

BeginSilence ==
    /\ BetweenCycles("silence")
    /\ BeginCycle("silence", {a \in SilenceAlerts : LooksAt(a)})
    /\ UNCHANGED <<now, tables, owed, silent, configuration, rounds, crashes, failures, history>>

\* The check of the row still has the profile of the rule, and is silent.
StaysSilent(a) == stored[a] # "profile_changed" /\ silent[a]

\* The next alert of the cycle.  A round takes the time anew for each rule.
TakeUp(t) ==
    /\ AtStep(t, "idle")
    /\ \E a \in evaluator[t].todo :
        LET left == evaluator[t].todo \ {a} IN
        evaluator' = [evaluator EXCEPT ![t] =
            IF t = "round" \/ StaysSilent(a)
            THEN [@ EXCEPT !.step = "begun", !.todo = left, !.alert = a,
                           !.at = IF t = "round" THEN now ELSE evaluator[t].at]
            ELSE IF left = {} THEN Idle ELSE [@ EXCEPT !.todo = left]]
    /\ UNCHANGED <<now, tables, owed, silent, configuration, rounds, crashes, failures, history>>

\* Too few rounds or samples in the window, or no sample at all: no verdict.
NotEnoughData ==
    /\ AtStep("round", "begun")
    /\ Finish("round")
    /\ UNCHANGED <<now, tables, owed, silent, configuration, rounds, crashes, failures, history>>

Decided(t, verdict) ==
    evaluator' = [evaluator EXCEPT ![t].step = "decided",
                                   ![t].seen = row[evaluator[t].alert],
                                   ![t].verdict = verdict]

\* The metric of a no_data rule is 0 for any window that has a round and 1 for
\* silence; the rule is taken to have the threshold that tells them apart.
ReadingsOf(a) == IF a \in SilenceAlerts THEN {[fire |-> FALSE, clear |-> TRUE]} ELSE Readings

DecideRound ==
    /\ AtStep("round", "begun")
    /\ LET e == evaluator["round"] IN
       \E reading \in ReadingsOf(e.alert) :
        /\ Decided("round", RoundDecision(row[e.alert], reading.fire, reading.clear, e.at))
        /\ holding' = [holding EXCEPT ![e.alert] =
                        IF reading.fire THEN OrNow(@, e.at) ELSE Never]
    /\ UNCHANGED <<now, tables, owed, silent, configuration, rounds, crashes, failures,
                   transitions>>

DecideSilence ==
    /\ AtStep("silence", "begun")
    /\ LET e == evaluator["silence"] IN
        /\ IF SilenceDecides(row[e.alert])
           THEN Decided("silence", SilenceDecision(row[e.alert], e.at))
           ELSE Finish("silence")
        /\ holding' = [holding EXCEPT ![e.alert] = OrNow(@, e.at)]
    /\ UNCHANGED <<now, tables, owed, silent, configuration, rounds, crashes, failures,
                   transitions>>

\* AlertStateRepo::upsert: a SELECT and then an UPDATE, or an INSERT when the alert
\* has no row yet.  Of two first rows of an alert at once the second is refused by
\* the unique index: that evaluation ends as in StatementFails.
StoreRow(t) ==
    /\ AtStep(t, "decided")
    /\ LET e == evaluator[t] IN
        /\ row' = [row EXCEPT ![e.alert] = e.verdict.row]
        /\ IF e.verdict.tell = "nothing" THEN Finish(t)
           ELSE evaluator' = [evaluator EXCEPT ![t].step = "stored"]
        /\ transitions' = IF e.verdict.tell = "nothing" THEN transitions ELSE transitions + 1
    /\ UNCHANGED <<now, events, outbox, owed, silent, configuration, rounds, crashes, failures,
                   holding>>

EventOf(e) == [alert |-> e.alert, kind |-> e.verdict.tell, from |-> e.seen.state,
               to |-> e.verdict.row.state, at |-> e.at, reason |-> "condition"]

\* AlertEventRepo::insert.
InsertEvent(t) ==
    /\ AtStep(t, "stored")
    /\ events' = Append(events, EventOf(evaluator[t]))
    /\ evaluator' = [evaluator EXCEPT ![t].step = "reported", ![t].event = Len(events')]
    /\ UNCHANGED <<now, row, outbox, owed, silent, configuration, rounds, crashes, failures, history>>

\* Mutant: the entry is made for the event inserted last.
EntryOfLast(t) == outbox' = outbox \cup {Len(events)}

\* insert_outbox_entry, under the id the insert of the event returned.
OutboxEntry(t) == outbox' = outbox \cup {evaluator[t].event}

InsertOutbox(t) ==
    /\ AtStep(t, "reported")
    /\ OutboxEntry(t)
    /\ Finish(t)
    /\ UNCHANGED <<now, row, events, owed, silent, configuration, rounds, crashes, failures, history>>

\* A statement fails: the evaluation ends where it is, and the cycle with it.
StatementFails(t) ==
    /\ failures < MaxFailures /\ ~BetweenCycles(t)
    /\ evaluator' = [evaluator EXCEPT ![t] = Idle]
    /\ failures' = failures + 1
    /\ UNCHANGED <<now, tables, owed, silent, configuration, rounds, crashes, history>>

Evaluate(t) == TakeUp(t) \/ StoreRow(t) \/ InsertEvent(t) \/ InsertOutbox(t) \/ StatementFails(t)

-----------------------------------------------------------------------------
(***************************************************************************)
(* Reload and restart.                                                     *)
(***************************************************************************)
Active(r) == r.state # "normal"

\* The alerts the reconciliation resolves: the row of the check is inactive or
\* the rule is not configured.  The checks of a removed target stay active.
Orphans(standing) ==
    {a \in Alerts : Active(row[a]) /\ standing[a] \in {"rule_removed", "check_removed"}}

\* The transaction, as far as alerts are concerned: a resolved event with reason
\* config_removed and no outbox entry for each orphan.
ResolveOrphans(standing) ==
    LET orphans == Orphans(standing)
        order == CHOOSE s \in [1..Cardinality(orphans) -> orphans] :
                    \A i, j \in DOMAIN s : s[i] = s[j] => i = j
    IN  /\ row' = [a \in Alerts |-> IF a \in orphans
                    THEN [row[a] EXCEPT !.state = "normal", !.entered = now, !.first = Never]
                    ELSE row[a]]
        /\ events' = events \o
             [i \in 1..Cardinality(orphans) |->
                [alert |-> order[i], kind |-> "resolved", from |-> row[order[i]].state,
                 to |-> "normal", at |-> now, reason |-> "config_removed"]]
        /\ holding' = [a \in Alerts |-> IF a \in orphans THEN Never ELSE holding[a]]

\* A rule goes alone; a check goes with all of its alerts.
Affected(a, outcome) ==
    IF outcome = "rule_removed" THEN {a} ELSE {b \in Alerts : CheckOf[b] = CheckOf[a]}

\* perform_reload, up to the commit of the reconciliation.
CommitReload ==
    /\ stage = "running" /\ reloads < MaxReloads
    /\ \E a \in Alerts, outcome \in ReloadOutcomes :
        LET affected == Affected(a, outcome)
            standing == [b \in Alerts |-> IF b \in affected THEN outcome ELSE stored[b]]
        IN  /\ outcome # "kept" => \A b \in affected : stored[b] = "kept"
            /\ stored' = standing
            /\ ResolveOrphans(standing)
    /\ stage' = "reloading"
    /\ reloads' = reloads + 1
    /\ UNCHANGED <<now, outbox, evaluator, owed, silent, live, rounds, crashes, failures,
                   transitions>>

\* perform_reload, the swap of shared_config.
SwapConfig ==
    /\ stage = "reloading"
    /\ live' = stored
    /\ stage' = "running"
    /\ UNCHANGED <<now, tables, evaluator, owed, silent, stored, reloads, rounds, crashes,
                   failures, history>>

\* The process dies and starts again on the configuration it had: what is in
\* memory is gone, and serve reconciles before it starts the evaluators.
Restart ==
    /\ crashes < MaxCrashes
    /\ evaluator' = [t \in Tasks |-> Idle]
    /\ owed' = {}
    /\ live' = stored
    /\ stage' = "running"
    /\ crashes' = crashes + 1
    /\ ResolveOrphans(stored)
    /\ UNCHANGED <<now, outbox, silent, stored, reloads, rounds, failures, transitions>>

-----------------------------------------------------------------------------
Next ==
    \/ ClockTicks
    \/ RoundStored
    \/ SilenceFalls
    \/ \E c \in Checks : BeginRound(c)
    \/ BeginSilence
    \/ NotEnoughData
    \/ DecideRound
    \/ DecideSilence
    \/ \E t \in Tasks : Evaluate(t)
    \/ CommitReload
    \/ SwapConfig
    \/ Restart

Spec == Init /\ [][Next]_vars

-----------------------------------------------------------------------------
(***************************************************************************)
(* Fairness.  The runtime polls both evaluators; the silence evaluator     *)
(* starts a cycle every minute; time passes.  Rounds, reloads, restarts    *)
(* and failures are up to the environment.                                 *)
(***************************************************************************)
Fairness ==
    /\ WF_vars(ClockTicks)
    /\ \A c \in Checks : WF_vars(BeginRound(c))
    /\ WF_vars(BeginSilence)
    /\ WF_vars(DecideRound \/ NotEnoughData)
    /\ WF_vars(DecideSilence)
    /\ \A t \in Tasks : WF_vars(TakeUp(t) \/ StoreRow(t) \/ InsertEvent(t) \/ InsertOutbox(t))
    /\ WF_vars(SwapConfig)

FairSpec == Spec /\ Fairness

-----------------------------------------------------------------------------
(***************************************************************************)
(* Properties.                                                             *)
(***************************************************************************)

\* A task is in an evaluation of the alert, or has it left in its cycle.
Busy(a) == \E t \in Tasks : ~AtStep(t, "idle") /\ evaluator[t].alert = a
Engaged(a) == Busy(a) \/ \E t \in Tasks : a \in evaluator[t].todo

\* The events that turn an alert on or off; the others repeat that it is on.
Turns(a) ==
    {i \in DOMAIN events :
        events[i].alert = a /\ ~(events[i].from = "firing" /\ events[i].to = "firing")}

\* The last event before place n that turned the alert turned it on.
ToldOn(a, n) ==
    \E i \in Turns(a) :
        i < n /\ events[i].kind = "firing" /\ \A j \in Turns(a) : j < n => j <= i

Raised(a) == row[a].state \in {"firing", "pending_clear"}

\* Whoever follows the events knows the state.  For each alert firing and
\* resolved alternate and firing comes first: nobody is told twice because a
\* clear condition lapsed, nor of a resolution alone.  And the alert is on in
\* alert_states exactly when the last of them turned it on: the row and the
\* event are written by different statements, and by two tasks.
StateTold ==
    \A a \in Alerts :
        /\ \A i \in Turns(a) :
               events[i].kind = IF ToldOn(a, i) THEN "resolved" ELSE "firing"
        /\ ~Busy(a) => (Raised(a) <=> ToldOn(a, Len(events) + 1))

\* An alert fires only after every evaluation of at least rule.duration found
\* its condition true: no evaluation that found it false is forgotten.
DurationHolds ==
    \A t \in Tasks :
        LET e == evaluator[t] IN
        e.step = "decided" /\ e.verdict.tell = "firing" /\ e.seen.state \in {"normal", "pending_fire"} =>
            holding[e.alert] # Never /\ e.at - holding[e.alert] >= Duration

\* Two notifications of one firing alert are at least repeat_every apart.
RepeatSpacing ==
    \A i, j \in DOMAIN events :
        /\ i < j
        /\ events[i].alert = events[j].alert
        /\ events[i].kind = "firing" /\ events[j].kind = "firing"
        /\ \A k \in i..j : events[k].alert = events[i].alert => events[k].kind = "firing"
        => events[j].at - events[i].at >= RepeatEvery

\* The evaluations that have a transition in hand: the row is stored, the entry is
\* to come.
Underway == {t \in Tasks : AtStep(t, "stored") \/ AtStep(t, "reported")}

\* A row that records a transition (fired, repeated or cleared) is never looked at
\* again to see if the notifier was told: what sends it are the statements after.
\* Every transition is sent, each under an entry of its own, but one for a failing
\* statement and one of each evaluator for a restart between the row and the entry;
\* neither the other evaluator nor a reload in between loses one or sends another.
\* A resolution for config_removed is never sent: its notifier may be gone too.
TransitionsSent ==
    /\ \A i \in outbox : i \in DOMAIN events /\ events[i].reason = "condition"
    /\ LET accounted == Cardinality(outbox) + Cardinality(Underway) IN
          accounted <= transitions
          /\ transitions <= accounted + failures + Cardinality(Tasks) * crashes

\* A check that stays silent ends in an alert that stays on, whatever rounds
\* came before, whatever restarts and failing statements interrupted.
SilenceFires ==
    \A a \in SilenceAlerts :
        (<>[](silent[a] /\ live[a] = "kept" /\ stored[a] = "kept")) => <>[](row[a].state = "firing")

\* Once a reload has gone through and the cycles that began before it are over,
\* no cycle takes up an alert whose rule or check was removed.
RemovedNotEvaluated ==
    [][\A a \in Alerts :
        stage = "running" /\ live[a] \in {"rule_removed", "check_removed"} /\ ~Engaged(a)
            => ~Engaged(a)']_vars

\* "When a rule or check is removed, Kemuri resolves its active alert."
RemovedResolved ==
    \A a \in Alerts :
        stage = "running" /\ ~Engaged(a)
        /\ live[a] \in {"rule_removed", "check_removed", "target_removed"}
            => row[a].state = "normal"
=============================================================================
