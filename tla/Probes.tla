------------------------------- MODULE Probes -------------------------------
(***************************************************************************)
(* The rounds of every kind of check: those of IcmpProbe, and the rounds   *)
(* of one sample of a TCP, TLS, DNS or HTTP check.  A round of one sample  *)
(* is prepared, then waits for one answer, or two: the connection and the  *)
(* handshake, or the headers and the body.  Each kind sets its own timers  *)
(* within the time-out of the check, which covers all of it.               *)
(*                                                                         *)
(* Rounds of different kinds share nothing; a behaviour has rounds of one. *)
(***************************************************************************)
EXTENDS IcmpProbe

CONSTANTS
    Protocols,     \* the kinds of check: icmp, tcp, tls (tcp with a handshake), dns,
                   \* http (measured until the headers), body (until the body)
    NoLatency

ASSUME ProtocolsAssumption ==
    Protocols \subseteq {"icmp", "tcp", "tls", "dns", "http", "body"}
ASSUME NoLatencyAssumption == NoLatency \notin Nat

VARIABLES
    protocol,   \* the kind of the checks
    shot        \* the round of one sample of each worker, or the last one it reported

probesVars == <<vars, protocol, shot>>

Unmeasured == [outcome |-> "none", latency |-> NoLatency]

Unbegun ==
    [step |-> "idle", began |-> 0, start |-> 0, until |-> 0, ready |-> "nothing",
     status |-> "none", sample |-> Unmeasured, early |-> FALSE]

ProbesInit ==
    /\ Init
    /\ protocol \in Protocols
    /\ shot = [w \in Workers |-> Unbegun]

-----------------------------------------------------------------------------
(***************************************************************************)
(* A round of one sample.                                                  *)
(***************************************************************************)

BeginShot(w) ==
    /\ shot[w].step = "idle" /\ rounds < MaxRounds
    /\ rounds' = rounds + 1
    /\ shot' = [shot EXCEPT ![w] = [Unbegun EXCEPT !.step = "preparing", !.began = now]]
    /\ UNCHANGED <<now, answers, failures>>

\* The outcome is success, unexpected, timeout, or lost: DnsError,
\* ConnectionRefused, ConnectionReset, NetworkUnreachable, TlsError, ProtocolError,
\* PermissionDenied or InternalError.
EndShot(w, outcome, latency) ==
    /\ shot' = [shot EXCEPT ![w] =
           [Unbegun EXCEPT !.early = shot[w].early,
                           !.sample = [outcome |-> outcome, latency |-> latency]]]
    /\ UNCHANGED <<now, rounds, answers>>

Elapsed(w) == now - shot[w].start

\* The answer a round waits for first, and the one that completes it.
FirstStep == IF protocol \in {"tcp", "tls"} THEN "connecting" ELSE "asking"
LastStep ==
    CASE protocol = "tls" -> "handshake"
      [] protocol = "body" -> "reading"
      [] OTHER -> FirstStep

Awaits(w) == shot[w].step \in {FirstStep, LastStep}

\* The host is looked up, under the time-out of the check alone, or the client
\* is built: the measurement starts with what follows.
Prepared(w) ==
    /\ shot[w].step = "preparing"
    /\ shot' = [shot EXCEPT ![w].step = FirstStep, ![w].start = now, ![w].until = now + Timeout]
    /\ UNCHANGED <<now, rounds, answers, failures>>

\* No address, no socket, a source address that cannot be bound, a name or a
\* certificate that cannot be read.
PreparingFails(w) ==
    /\ shot[w].step = "preparing"
    /\ CallFails
    /\ EndShot(w, "lost", NoLatency)

\* Of the rounds of one sample those of DNS alone report how long they waited for what
\* they did not get.
LatencyOfError(w) == IF protocol = "dns" THEN Elapsed(w) ELSE NoLatency

\* The response code or the status that was asked for, or another one.
Answered(w) == Awaits(w) /\ shot[w].ready \in {"good", "unexpected"}

\* Connected: the handshake has the whole time-out again.  The headers came:
\* the body has what is left of it.
AwaitsMore(w) ==
    /\ Answered(w) /\ shot[w].step # LastStep
    /\ shot' = [shot EXCEPT
           ![w].step = LastStep, ![w].ready = "nothing", ![w].status = shot[w].ready,
           ![w].until = IF protocol = "tls" THEN now + Timeout ELSE @]
    /\ UNCHANGED <<now, rounds, answers, failures>>

AnswerEnds(w) ==
    /\ Answered(w) /\ shot[w].step = LastStep
    /\ EndShot(w, IF "unexpected" \in {shot[w].ready, shot[w].status}
                  THEN "unexpected" ELSE "success", Elapsed(w))
    /\ UNCHANGED failures

\* What the socket or the client may report instead of an answer: an error, a time-out of
\* the system, or a redirect too many.
Errors == {"error", "timed_out", "redirect"}

\* classify_connect_error, classify_request_error, the kinds of ResolveError.
OutcomeOfError(error) ==
    CASE error = "timed_out" -> "timeout"
      [] error = "redirect" -> "unexpected"
      [] OTHER -> "lost"

ErrorEnds(w) ==
    /\ Awaits(w) /\ shot[w].ready \in Errors
    /\ EndShot(w, OutcomeOfError(shot[w].ready), LatencyOfError(w))
    /\ UNCHANGED failures

\* Mutant: a handshake that times out is still measured.
TimerExpiresMeasured(w) ==
    /\ Awaits(w) /\ now >= shot[w].until
    /\ EndShot(w, "timeout", Elapsed(w))
    /\ UNCHANGED failures

\* A handshake that times out is a TLS error.
TimerExpires(w) ==
    /\ Awaits(w) /\ now >= shot[w].until
    /\ EndShot(w, IF shot[w].step = "handshake" THEN "lost" ELSE "timeout", LatencyOfError(w))
    /\ UNCHANGED failures

\* The time-out of the check, in the worker.
CutShotShort(w) ==
    /\ shot[w].step # "idle" /\ now >= shot[w].began + Timeout
    /\ EndShot(w, "timeout", NoLatency)
    /\ UNCHANGED failures

Shooting(w) ==
    \/ BeginShot(w) \/ CutShotShort(w)
    \/ Prepared(w) \/ PreparingFails(w)
    \/ AwaitsMore(w) \/ AnswerEnds(w) \/ ErrorEnds(w) \/ TimerExpires(w)

-----------------------------------------------------------------------------
(***************************************************************************)
(* The service that is probed, and the clock.                              *)
(***************************************************************************)

\* An answer or an error comes for the step that waits for one, in time or not.
\* A time-out of a handshake or of a resolver's socket is an error like others.
ServiceAnswers(w) == \E what \in {"good", "unexpected"} \cup Errors :
    /\ Awaits(w) /\ shot[w].ready = "nothing" /\ answers < MaxAnswers
    /\ what = "unexpected" => shot[w].step = "asking"
    /\ what = "timed_out" => shot[w].step # "handshake" /\ protocol # "dns"
    /\ what = "redirect" => shot[w].step = "asking" /\ protocol \in {"http", "body"}
    /\ answers' = answers + 1
    /\ shot' = [shot EXCEPT
           ![w].ready = what,
           ![w].early = /\ shot[w].step = LastStep /\ what \in {"good", "unexpected"}
                        /\ now < shot[w].until /\ now < shot[w].began + Timeout]
    /\ UNCHANGED <<now, rounds, failures>>

ShotReady(w) ==
    \/ shot[w].step = "preparing" /\ FirstStep = "asking"
    \/ shot[w].ready # "nothing"
    \/ Awaits(w) /\ now >= shot[w].until
    \/ shot[w].step # "idle" /\ now >= shot[w].began + Timeout

ShotTicks ==
    /\ now < MaxNow
    /\ \A w \in Workers : ~ShotReady(w)
    /\ now' = now + 1
    /\ UNCHANGED <<shot, rounds, answers, failures>>

ShotNext ==
    /\ protocol # "icmp"
    /\ (\E w \in Workers : Shooting(w) \/ ServiceAnswers(w)) \/ ShotTicks
    /\ UNCHANGED <<protocol, method, opened, probe, wire, heard>>

ProbesNext ==
    \/ protocol = "icmp" /\ Next /\ UNCHANGED <<protocol, shot>>
    \/ ShotNext

ProbesSpec == ProbesInit /\ [][ProbesNext]_probesVars

-----------------------------------------------------------------------------
(***************************************************************************)
(* What the writer makes of a round of one sample.                         *)
(***************************************************************************)

\* classify_outcome and compute_round_stats: the sample bears a latency when it
\* is a response, and enters the least, the greatest and the median one when it
\* has any.
Classification(outcome) ==
    CASE outcome = "success" -> "healthy"
      [] outcome = "unexpected" -> "unhealthy"
      [] OTHER -> "loss"

RoundStats(sample) ==
    [class |-> Classification(sample.outcome),
     bearing |-> /\ Classification(sample.outcome) # "loss"
                 /\ sample.latency # NoLatency,
     shown |-> sample.latency]

-----------------------------------------------------------------------------
(***************************************************************************)
(* Properties.                                                             *)
(***************************************************************************)

Reports(w) == shot[w].step = "idle" /\ shot[w].sample # Unmeasured

\* "Timeouts and network errors do not enter the latency histogram"
\* (checks-and-rounds.md): a round that succeeds always shows a latency, a response without
\* one is a redirect too many, a latency is that of a response, and never longer than the
\* time-out of the check, though timers start at different moments of it.  The DNS probe
\* measures what it lost too: of its rounds a latency says only that they waited.
LatencyOfAnswers ==
    \A w \in Workers : Reports(w) =>
        LET stats == RoundStats(shot[w].sample) IN
        /\ stats.class = "healthy" => stats.bearing
        /\ stats.class = "unhealthy" /\ protocol \notin {"http", "body"} => stats.bearing
        /\ stats.shown # NoLatency => stats.shown \in 0..Timeout
        /\ protocol # "dns" => (stats.bearing <=> stats.shown # NoLatency)

\* Every response is measured.  Not kept: see README, divergences.
ResponsesMeasured ==
    \A w \in Workers : Reports(w) =>
        LET stats == RoundStats(shot[w].sample) IN stats.class # "loss" => stats.bearing

\* Latencies are those of responses, for all kinds.  Not kept: see README, divergences.
LossesHaveNoLatency ==
    \A w \in Workers : Reports(w) =>
        RoundStats(shot[w].sample).bearing <=> shot[w].sample.latency # NoLatency

\* A sample is lost to a time-out, that of the check or one of its own, only when
\* what it waited for last did not come before the deadline.
LostMeansSilence ==
    /\ TimeoutMeansSilence
    /\ \A w \in Workers :
           Reports(w) /\ shot[w].sample.outcome = "timeout" => ~shot[w].early
=============================================================================
