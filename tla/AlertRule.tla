----------------------------- MODULE AlertRule ------------------------------
(***************************************************************************)
(* What one evaluation of an alert rule for a check decides: the row of    *)
(* alert_states to write and the event to tell, from the row that was      *)
(* read, the outcome of the conditions and the time of the evaluation.     *)
(***************************************************************************)
EXTENDS Integers

CONSTANTS
    Duration,       \* rule.duration, NotSet where the rule has none
    RepeatEvery     \* rule.repeat_every, NotSet where the rule has none

NotSet == 0

\* Validation refuses a duration or a repeat_every of zero.
ASSUME RuleAssumption == Duration \in Nat /\ RepeatEvery \in Nat

\* A NULL timestamp.
Never == -1

\* A row of alert_states: its state is normal, pending_fire, firing or
\* pending_clear; entered_at, condition_first_true_at, last_notified_at.  A rule
\* that has not been evaluated has no row, which is read like this one.
NoRow == [state |-> "normal", entered |-> Never, first |-> Never, notified |-> Never]

OrNow(t, now) == IF t = Never THEN now ELSE t

\* should_transition_to_firing, and should_transition_to_clear.
Lasted(t, now) == Duration = NotSet \/ now - t >= Duration

\* Mutant: every evaluation repeats.
RepeatsAlways(notified, now) == RepeatEvery # NotSet

\* should_repeat_notification: an alert nobody was notified of repeats at once.
Repeats(notified, now) ==
    RepeatEvery # NotSet /\ (notified = Never \/ now - notified >= RepeatEvery)

Decide(state, entered, first, notified, tell) ==
    [row |-> [state |-> state, entered |-> entered, first |-> first, notified |-> notified],
     tell |-> tell]

-----------------------------------------------------------------------------
(***************************************************************************)
(* update_state_machine, one operator for each state of the row.           *)
(***************************************************************************)

FromNormal(row, fire, now) ==
    LET first == OrNow(row.first, now) IN
    IF ~fire THEN Decide("normal", OrNow(row.entered, now), Never, Never, "nothing")
    ELSE IF Lasted(first, now) THEN Decide("firing", now, first, Never, "firing")
    ELSE Decide("pending_fire", now, first, Never, "nothing")

\* Mutant: the time the condition first held survives the condition.
FromPendingFireSticky(row, fire, now) ==
    LET first == OrNow(row.first, now) IN
    IF ~fire THEN Decide("normal", now, first, Never, "nothing")
    ELSE IF Lasted(first, now) THEN Decide("firing", now, first, now, "firing")
    ELSE Decide("pending_fire", OrNow(row.entered, now), first, Never, "nothing")

FromPendingFire(row, fire, now) ==
    LET first == OrNow(row.first, now) IN
    IF ~fire THEN Decide("normal", now, Never, Never, "nothing")
    ELSE IF Lasted(first, now) THEN Decide("firing", now, first, now, "firing")
    ELSE Decide("pending_fire", OrNow(row.entered, now), first, Never, "nothing")

\* A firing alert that is read again: told again when it is time to.
StillFiring(row, now) ==
    IF Repeats(row.notified, now)
    THEN Decide("firing", OrNow(row.entered, now), row.first, now, "firing")
    ELSE Decide("firing", OrNow(row.entered, now), row.first, row.notified, "nothing")

\* Mutant: an alert that clears is not told of.
FromFiringUntold(row, clear, now) ==
    IF ~clear THEN StillFiring(row, now)
    ELSE IF Lasted(row.entered, now) THEN Decide("normal", now, Never, now, "nothing")
    ELSE Decide("pending_clear", now, row.first, row.notified, "nothing")

FromFiring(row, clear, now) ==
    IF ~clear THEN StillFiring(row, now)
    ELSE IF Lasted(row.entered, now) THEN Decide("normal", now, Never, now, "resolved")
    ELSE Decide("pending_clear", now, row.first, row.notified, "nothing")

\* A lapse of the clear condition keeps the instant the row entered pending_clear.
FromPendingClear(row, clear, now) ==
    IF ~clear THEN Decide("firing", OrNow(row.entered, now), row.first, row.notified, "nothing")
    ELSE IF Lasted(row.entered, now) THEN Decide("normal", now, Never, now, "resolved")
    ELSE Decide("pending_clear", OrNow(row.entered, now), row.first, row.notified, "nothing")

RoundDecision(row, fire, clear, now) ==
    CASE row.state = "normal" -> FromNormal(row, fire, now)
      [] row.state = "pending_fire" -> FromPendingFire(row, fire, now)
      [] row.state = "firing" -> FromFiring(row, clear, now)
      [] row.state = "pending_clear" -> FromPendingClear(row, clear, now)

-----------------------------------------------------------------------------
(***************************************************************************)
(* evaluate_no_data_rule: the check has had no round for the period.  It   *)
(* looks at normal and pending_clear as one state, and at pending_fire not *)
(* at all.                                                                 *)
(***************************************************************************)

\* Mutant: only an alert without a row is decided.
SilenceDecidesOnce(row) == row = NoRow

SilenceDecides(row) == row.state # "pending_fire"

SilenceDecision(row, now) ==
    LET first == OrNow(row.first, now) IN
    IF row.state = "firing" THEN StillFiring(row, now)
    ELSE IF Lasted(first, now) THEN Decide("firing", now, first, row.notified, "firing")
    ELSE Decide("pending_fire", now, first, row.notified, "nothing")
=============================================================================
