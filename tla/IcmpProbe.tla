------------------------------ MODULE IcmpProbe ------------------------------
(***************************************************************************)
(* A round of an ICMP check as a worker runs it: look the host up, open a  *)
(* socket with an identifier of its own, send echo requests one after the  *)
(* other and wait a share of the timeout for the answer to each, all of it *)
(* under the timeout of the check.  Answers may come late, twice, for      *)
(* somebody else, or never.                                                *)
(*                                                                         *)
(* A tick of the clock is long against the time a task waits to be polled; *)
(* what happens within one tick happens in any order.                      *)
(***************************************************************************)
EXTENDS Integers, Sequences

CONSTANTS
    Workers,       \* the probe workers
    Methods,       \* the sockets the host may grant: dgram, raw
    Samples,       \* count of the check
    Timeout,       \* timeout of the check
    Spacing,       \* sample_spacing
    IdSpace,       \* the number of identifiers, 2^16
    FirstId,       \* the process id, as far as it fits an identifier
    MaxNow,        \* bound of the model: the clock
    MaxRounds,     \* bound of the model: rounds begun
    MaxAnswers,    \* bound of the model: packets the network delivers
    MaxFailures    \* bound of the model: look-ups and system calls that fail

ASSUME CheckAssumption ==
    /\ Samples \in Nat \ {0}
    /\ Timeout \in Nat \ {0}
    /\ Spacing \in Nat
ASSUME SocketAssumption ==
    /\ Methods \subseteq {"dgram", "raw"} /\ Methods # {}
    /\ IdSpace \in Nat \ {0, 1}
    /\ FirstId \in 0..(IdSpace - 1)
ASSUME BoundsAssumption ==
    /\ MaxNow \in Nat /\ MaxRounds \in Nat 
    /\ MaxAnswers \in Nat /\ MaxFailures \in Nat

VARIABLES
    now,        \* the monotonic clock
    method,     \* the socket this host grants
    opened,     \* sockets opened so far: NEXT_RAW_IDENTIFIER, or the port rover of the kernel
    probe,      \* the round of each worker, or the last one it reported
    wire,       \* requests sent so far, each of which the network may answer
    rounds,     \* rounds begun so far
    answers,    \* packets delivered so far
    failures,   \* failed calls so far
    heard       \* history: requests whose reply reached the sample that waited for it,
                \* and whether that was before its deadline

vars == <<now, method, opened, probe, wire, rounds, answers, failures, heard>>

\* timeout_per_sample.
Share == Timeout \div Samples

Untouched ==
    [step |-> "idle", round |-> 0, id |-> 0, seq |-> 0, began |-> 0, wake |-> 0,
     inbox |-> <<>>, results |-> <<>>, report |-> "none"]

Init ==
    /\ now = 0
    /\ method \in Methods
    /\ opened = 0
    /\ probe = [w \in Workers |-> Untouched]
    /\ wire = {}
    /\ rounds = 0
    /\ answers = 0
    /\ failures = 0
    /\ heard = {}

-----------------------------------------------------------------------------
(***************************************************************************)
(* The round as the worker sees it.                                        *)
(***************************************************************************)

\* The timeout of the check starts before the host is looked up.
BeginRound(w) ==
    /\ probe[w].step = "idle" /\ rounds < MaxRounds
    /\ rounds' = rounds + 1
    /\ probe' = [probe EXCEPT ![w] =
           [Untouched EXCEPT !.step = "resolving", !.round = rounds + 1, !.began = now]]
    /\ UNCHANGED <<now, method, opened, wire, answers, failures, heard>>

\* The result on its way to the writer; the socket is closed.
Reported(w, how, results) ==
    [Untouched EXCEPT !.round = probe[w].round, !.report = how, !.results = results]

CallFails == failures < MaxFailures /\ failures' = failures + 1

\* The probe returns an error: one sample with an internal error.
RoundFails(w) ==
    /\ probe[w].step = "resolving"
    /\ CallFails
    /\ probe' = [probe EXCEPT ![w] = Reported(w, "failed", <<"failed">>)]
    /\ UNCHANGED <<now, method, wire, rounds, answers, heard>>

\* The timeout of the check: what was gathered gives way to one lost sample.
CutShort(w) ==
    /\ probe[w].step # "idle" /\ now >= probe[w].began + Timeout
    /\ probe' = [probe EXCEPT ![w] = Reported(w, "cut", <<"timeout">>)]
    /\ UNCHANGED <<now, method, opened, wire, rounds, answers, failures, heard>>

-----------------------------------------------------------------------------
(***************************************************************************)
(* The round as IcmpProbe::execute_round runs it.                          *)
(***************************************************************************)

\* No address of the family asked for, or no socket.
LookUpFails(w) == RoundFails(w) /\ UNCHANGED opened

\* The socket cannot be bound to the source address; it has used its
\* identifier up.
BindFails(w) == RoundFails(w) /\ opened' = opened + 1

\* next_raw_identifier: the sum wraps, and zero becomes one.
RawIdentifier(n) ==
    LET sum == (FirstId + n) % IdSpace IN IF sum = 0 THEN 1 ELSE sum

\* The kernel numbers ping sockets upwards and leaves out zero.
DgramIdentifier(n) == 1 + ((FirstId + n) % (IdSpace - 1))

OpenSocket(w) ==
    /\ probe[w].step = "resolving"
    /\ opened' = opened + 1
    /\ probe' = [probe EXCEPT
           ![w].step = "sending",
           ![w].id = IF method = "raw" THEN RawIdentifier(opened + 1)
                                       ELSE DgramIdentifier(opened + 1)]
    /\ UNCHANGED <<now, method, wire, rounds, answers, failures, heard>>

LastSample(w) == probe[w].seq + 1 = Samples

\* The sample has an outcome: spacing comes next, or the round returns.
EndSample(w, outcome) ==
    LET results == Append(probe[w].results, outcome) IN
    /\ probe' = [probe EXCEPT ![w] =
           IF LastSample(w) THEN Reported(w, "whole", results)
           ELSE [@ EXCEPT !.step = "spacing", !.wake = now + Spacing, !.results = results]]
    /\ UNCHANGED <<now, method, opened, wire, rounds, answers, heard>>

\* build_echo_request, and the round it is sent for.
Request(w) == [round |-> probe[w].round, id |-> probe[w].id, seq |-> probe[w].seq]

SendRequest(w) ==
    /\ probe[w].step = "sending"
    /\ probe' = [probe EXCEPT ![w].step = "waiting", ![w].wake = now + Share]
    /\ wire' = wire \union {Request(w)}
    /\ UNCHANGED <<now, method, opened, rounds, answers, failures, heard>>

\* classify_send_error: "failed" stands for NetworkUnreachable, PermissionDenied
\* and InternalError.
SendFails(w) ==
    /\ probe[w].step = "sending"
    /\ CallFails
    /\ EndSample(w, "failed")

\* Mutant: the sequence number is not compared.
MatchesId(w, packet) == packet.id = probe[w].id

\* parse_icmp_reply and icmp_error_matches_request; where it came from does
\* not matter.
Matches(w, packet) == packet.id = probe[w].id /\ packet.seq = probe[w].seq

\* An error that matches is one of destination unreachable and time exceeded.
OutcomeOf(packet) == IF packet.kind = "reply" THEN "success" ELSE "failed"

ReceiveMatch(w) ==
    /\ probe[w].step = "waiting" /\ probe[w].inbox # <<>>
    /\ Matches(w, Head(probe[w].inbox))
    /\ EndSample(w, OutcomeOf(Head(probe[w].inbox)))
    /\ UNCHANGED failures

\* Mutant: whatever arrives ends the sample.
GivesUp(w) ==
    /\ probe[w].step = "waiting" /\ probe[w].inbox # <<>>
    /\ ~Matches(w, Head(probe[w].inbox))
    /\ EndSample(w, "timeout")
    /\ UNCHANGED failures

\* ParsedReply::Retry: on with the next packet, under the same deadline.
ReceiveOther(w) ==
    /\ probe[w].step = "waiting" /\ probe[w].inbox # <<>>
    /\ ~Matches(w, Head(probe[w].inbox))
    /\ probe' = [probe EXCEPT ![w].inbox = Tail(@)]
    /\ UNCHANGED <<now, method, opened, wire, rounds, answers, failures, heard>>

\* classify_recv_error.
ReceiveFails(w) ==
    /\ probe[w].step = "waiting"
    /\ CallFails
    /\ EndSample(w, "failed")

SampleTimesOut(w) ==
    /\ probe[w].step = "waiting" /\ now >= probe[w].wake
    /\ EndSample(w, "timeout")
    /\ UNCHANGED failures

SpacingEnds(w) ==
    /\ probe[w].step = "spacing" /\ now >= probe[w].wake
    /\ probe' = [probe EXCEPT ![w].step = "sending", ![w].seq = @ + 1]
    /\ UNCHANGED <<now, method, opened, wire, rounds, answers, failures, heard>>

-----------------------------------------------------------------------------
(***************************************************************************)
(* The network and the clock.                                              *)
(***************************************************************************)

Open(w) == probe[w].step \in {"sending", "waiting", "spacing"}

\* A raw socket receives the ICMP packets of everybody.
Hears(w, id) == Open(w) /\ (method = "raw" \/ probe[w].id = id)

\* The replies that reach the very sample whose request they answer.
HeardBy(w, request) ==
    IF probe[w].step = "waiting"
       /\ probe[w].round = request.round /\ probe[w].seq = request.seq
    THEN {[round |-> request.round, seq |-> request.seq, early |-> now < probe[w].wake]}
    ELSE {}

\* An echo reply, or an error that quotes the request; perhaps late, perhaps
\* not the only one.
NetworkAnswers == \E request \in wire, kind \in {"reply", "error"} :
    /\ answers < MaxAnswers
    /\ answers' = answers + 1
    /\ probe' = [w \in Workers |->
           IF Hears(w, request.id)
           THEN [probe[w] EXCEPT !.inbox = Append(@,
                    [kind |-> kind, id |-> request.id, seq |-> request.seq])]
           ELSE probe[w]]
    /\ heard' = heard \union
           (IF kind = "reply" THEN UNION {HeardBy(w, request) : w \in Workers} ELSE {})
    /\ UNCHANGED <<now, method, opened, wire, rounds, failures>>

\* The worker has something to do at once.
Ready(w) ==
    \/ probe[w].step = "sending"
    \/ probe[w].step = "waiting" /\ probe[w].inbox # <<>>
    \/ probe[w].step \in {"waiting", "spacing"} /\ now >= probe[w].wake
    \/ probe[w].step # "idle" /\ now >= probe[w].began + Timeout

ClockTicks ==
    /\ now < MaxNow
    /\ \A w \in Workers : ~Ready(w)
    /\ now' = now + 1
    /\ UNCHANGED <<method, opened, probe, wire, rounds, answers, failures, heard>>

Working(w) ==
    \/ BeginRound(w) \/ CutShort(w)
    \/ LookUpFails(w) \/ BindFails(w) \/ OpenSocket(w)
    \/ SendRequest(w) \/ SendFails(w)
    \/ ReceiveMatch(w) \/ ReceiveOther(w) \/ ReceiveFails(w) \/ SampleTimesOut(w)
    \/ SpacingEnds(w)

Next ==
    \/ \E w \in Workers : Working(w)
    \/ NetworkAnswers
    \/ ClockTicks

Spec == Init /\ [][Next]_vars

-----------------------------------------------------------------------------
(***************************************************************************)
(* Properties.                                                             *)
(***************************************************************************)

\* Concurrent rounds do not steal replies (tests/icmp_integration.rs): every
\* success is backed by a reply to the request of that very sample, which
\* reached the socket while the sample waited; late replies, duplicates and the
\* replies that a raw socket hears for other rounds never make one.
RepliesAreOwn ==
    \A w \in Workers : \A i \in DOMAIN probe[w].results :
        probe[w].results[i] = "success" =>
            \E early \in BOOLEAN :
                [round |-> probe[w].round, seq |-> i - 1, early |-> early] \in heard

\* A sample is lost to its time-out only when its reply did not come before the
\* deadline, however many other packets the socket received in between.
TimeoutMeansSilence ==
    \A w \in Workers : probe[w].report # "cut" =>
        \A i \in DOMAIN probe[w].results :
            probe[w].results[i] = "timeout" =>
                [round |-> probe[w].round, seq |-> i - 1, early |-> TRUE] \notin heard

\* "down: all attempted samples have measurement loss" (status-model.md): a round
\* that is reported as lost altogether had no success.  Not kept: see README,
\* divergences.
DownMeansAllLost ==
    [][\A w \in Workers :
         /\ probe[w].step # "idle" /\ probe'[w].step = "idle"
         /\ \A i \in DOMAIN probe'[w].results : probe'[w].results[i] # "success"
         => \A i \in DOMAIN probe[w].results : probe[w].results[i] # "success"]_vars
=============================================================================
