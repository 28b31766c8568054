--------------------------- MODULE ProbesProofs ----------------------------
(***************************************************************************)
(* What a lost sample says, and whose reply a success is, for any timeout, *)
(* count of samples, number of workers, identifiers and answers; and when  *)
(* a round is not cut short.                                               *)
(***************************************************************************)
EXTENDS Probes, TLAPS

OpenSteps == {"sending", "waiting", "spacing"}
Outcomes == {"success", "failed", "timeout"}
Packets == [kind : {"reply", "error"}, id : Nat, seq : Nat]

ProbeStates ==
    [step : {"idle", "resolving"} \cup OpenSteps, round : Nat, id : Nat, seq : Nat,
     began : Nat, wake : Nat, inbox : Seq(Packets), results : Seq(Outcomes),
     report : {"none", "whole", "failed", "cut"}]

IcmpType ==
    /\ now \in Nat /\ opened \in Nat /\ rounds \in Nat
    /\ probe \in [Workers -> ProbeStates]
    /\ wire \subseteq [round : Nat, id : Nat, seq : Nat]
    /\ heard \subseteq [round : Nat, seq : Nat, early : BOOLEAN]

\* Every round has a number of its own.
RoundsApart ==
    /\ \A w \in Workers : probe[w].round <= rounds
    /\ \A v, w \in Workers : v # w /\ probe[v].round # 0 => probe[v].round # probe[w].round
    /\ \A r \in wire \cup heard : r.round \in 1..rounds

HeardEarly(p, seq) == [round |-> p.round, seq |-> seq, early |-> TRUE] \in heard

MatchWaits(p) == \E i \in DOMAIN p.inbox : p.inbox[i].id = p.id /\ p.inbox[i].seq = p.seq

\* What is known of a round: it sent under one identifier, heard nothing of what
\* it has yet to send, has a result for each sample before the current one; and
\* an early answer to the current one is still in its inbox.
Sane(p) ==
    /\ p.step # "idle" => p.round # 0 /\ p.report = "none"
    /\ \A r \in wire : r.round = p.round =>
        p.step # "resolving" /\ (p.step \in OpenSteps => r.id = p.id)
    /\ \A e \in heard : e.round = p.round =>
        /\ p.step # "resolving"
        /\ p.step \in OpenSteps => e.seq <= p.seq
        /\ p.step = "sending" => e.seq < p.seq
    /\ p.step = "resolving" => p.seq = 0 /\ p.results = <<>>
    /\ p.step \in {"sending", "waiting"} => Len(p.results) = p.seq
    /\ p.step = "spacing" => Len(p.results) = p.seq + 1
    /\ p.step = "waiting" /\ HeardEarly(p, p.seq) => now < p.wake /\ MatchWaits(p)
    /\ p.report # "cut" =>
        \A i \in DOMAIN p.results : p.results[i] = "timeout" => ~HeardEarly(p, i - 1)

IcmpInv == IcmpType /\ RoundsApart /\ \A w \in Workers : Sane(probe[w])

-----------------------------------------------------------------------------
(***************************************************************************)
(* A step of one worker.                                                   *)
(***************************************************************************)

LEMMA LocalStep ==
    ASSUME IcmpInv, NEW w \in Workers, NEW p \in ProbeStates,
           probe' = [probe EXCEPT ![w] = p], p.round = probe[w].round, Sane(p),
           opened' \in Nat, UNCHANGED <<now, rounds, wire, heard>>
    PROVE  IcmpInv'
<1>1. probe \in [Workers -> ProbeStates]
    BY DEF IcmpInv, IcmpType
<1>2. probe'[w] = p /\ \A v \in Workers \ {w} : probe'[v] = probe[v]
    BY <1>1
<1>3. \A v \in Workers : probe'[v].round = probe[v].round
    BY <1>2
<1>4. IcmpType'
    BY <1>1 DEF IcmpInv, IcmpType
<1>5. RoundsApart'
    BY <1>3 DEF IcmpInv, RoundsApart
<1>6. \A v \in Workers : Sane(probe'[v])
    BY <1>2 DEF IcmpInv
<1>7. \A v \in Workers : Sane(probe[v])'
    BY <1>6 DEF Sane, HeardEarly, MatchWaits
<1> QED
    BY <1>4, <1>5, <1>7 DEF IcmpInv

\* Two fields that a step changes, seen as one change of the round.
LEMMA TwoFields ==
    ASSUME NEW S, NEW R, NEW f \in [S -> R], NEW w \in S, NEW step, NEW id, NEW wake, NEW seq
    PROVE  /\ [f EXCEPT ![w].step = step, ![w].id = id]
                = [f EXCEPT ![w] = [f[w] EXCEPT !.step = step, !.id = id]]
           /\ [f EXCEPT ![w].step = step, ![w].wake = wake]
                = [f EXCEPT ![w] = [f[w] EXCEPT !.step = step, !.wake = wake]]
           /\ [f EXCEPT ![w].step = step, ![w].seq = seq]
                = [f EXCEPT ![w] = [f[w] EXCEPT !.step = step, !.seq = seq]]
OBVIOUS

LEMMA ShareIsNat == Share \in Nat
BY CheckAssumption DEF Share

LEMMA UntouchedIsState ==
    /\ Untouched \in ProbeStates
    /\ Untouched.step = "idle" /\ Untouched.seq = 0 /\ Untouched.results = <<>>
    /\ Untouched.report = "none" /\ Untouched.round = 0
BY DEF Untouched, ProbeStates

\* A round that has been reported, with results that say no timeout but true ones.
LEMMA ReportedStep ==
    ASSUME IcmpInv, NEW w \in Workers, NEW how \in {"whole", "failed", "cut"},
           NEW results \in Seq(Outcomes),
           probe' = [probe EXCEPT ![w] = Reported(w, how, results)],
           how # "cut" => \A i \in DOMAIN results :
                results[i] = "timeout" => ~HeardEarly(probe[w], i - 1),
           opened' \in Nat, UNCHANGED <<now, rounds, wire, heard>>
    PROVE  IcmpInv'
<1> DEFINE p == Reported(w, how, results)
<1>1. probe[w].round \in Nat
    BY DEF IcmpInv, IcmpType, ProbeStates
<1>2. probe' = [probe EXCEPT ![w] = p]
    OBVIOUS
<1>3. p \in ProbeStates
    BY <1>1, UntouchedIsState DEF Reported, ProbeStates
<1>4. p.step = "idle" /\ p.round = probe[w].round /\ p.results = results /\ p.report = how
    BY UntouchedIsState DEF Reported, ProbeStates
<1> HIDE DEF p
<1>5. Sane(p)
    BY <1>4 DEF Sane, HeardEarly, OpenSteps
<1> QED
    BY <1>2, <1>3, <1>4, <1>5, LocalStep

LEMMA BeginRoundKeeps == ASSUME IcmpInv, NEW w \in Workers, BeginRound(w) PROVE IcmpInv'
<1> DEFINE p == [Untouched EXCEPT !.step = "resolving", !.round = rounds + 1, !.began = now]
<1>1. /\ probe \in [Workers -> ProbeStates] /\ rounds \in Nat /\ now \in Nat
      /\ \A r \in wire \cup heard : r.round \in 1..rounds
      /\ \A v \in Workers : probe[v].round \in Nat /\ probe[v].round <= rounds
    BY DEF IcmpInv, IcmpType, RoundsApart, ProbeStates
<1>2. /\ probe' = [probe EXCEPT ![w] = p] /\ rounds' = rounds + 1
      /\ UNCHANGED <<now, opened, wire, heard>>
    BY DEF BeginRound
<1>3. p \in ProbeStates
  <2>1. rounds + 1 \in Nat /\ now \in Nat
    BY <1>1
  <2> QED
    BY <2>1, UntouchedIsState DEF ProbeStates
<1>4. /\ p.step = "resolving" /\ p.round = rounds + 1 /\ p.seq = 0 /\ p.results = <<>>
      /\ p.report = "none"
    BY UntouchedIsState DEF ProbeStates
<1> HIDE DEF p
<1>5. probe'[w] = p /\ \A v \in Workers \ {w} : probe'[v] = probe[v]
    BY <1>1, <1>2
<1>6. IcmpType'
    BY <1>1, <1>2, <1>3 DEF IcmpInv, IcmpType
<1>7. RoundsApart'
  <2>1. \A r \in wire \cup heard : r.round \in 1..(rounds + 1)
    BY <1>1
  <2>2. \A v \in Workers : probe'[v].round <= rounds + 1
    BY <1>1, <1>4, <1>5
  <2>3. \A u, v \in Workers : u # v /\ probe'[u].round # 0 => probe'[u].round # probe'[v].round
    BY <1>1, <1>4, <1>5 DEF IcmpInv, RoundsApart
  <2> QED
    BY <1>2, <2>1, <2>2, <2>3 DEF RoundsApart
<1>8. Sane(p)
  <2>1. \A r \in wire \cup heard : r.round # p.round
    BY <1>1, <1>4
  <2> QED
    BY <1>1, <1>4, <2>1 DEF Sane, OpenSteps
<1>9. \A v \in Workers : Sane(probe'[v])
    BY <1>5, <1>8 DEF IcmpInv
<1>10. \A v \in Workers : Sane(probe[v])'
    BY <1>2, <1>9 DEF Sane, HeardEarly, MatchWaits
<1> QED
    BY <1>6, <1>7, <1>10 DEF IcmpInv

LEMMA EarlyEndKeeps ==
    ASSUME IcmpInv, NEW w \in Workers, CutShort(w) \/ LookUpFails(w) \/ BindFails(w)
    PROVE  IcmpInv'
<1>1. opened \in Nat
    BY DEF IcmpInv, IcmpType
<1>2. CASE CutShort(w)
  <2>1. <<"timeout">> \in Seq(Outcomes)
    BY DEF Outcomes
  <2> QED
    BY <1>1, <1>2, <2>1, ReportedStep DEF CutShort
<1>3. CASE LookUpFails(w) \/ BindFails(w)
  <2>1. <<"failed">> \in Seq(Outcomes) /\ \A i \in DOMAIN <<"failed">> : <<"failed">>[i] # "timeout"
    BY DEF Outcomes
  <2>2. probe' = [probe EXCEPT ![w] = Reported(w, "failed", <<"failed">>)]
        /\ UNCHANGED <<now, rounds, wire, heard>> /\ opened' \in Nat
    BY <1>1, <1>3 DEF LookUpFails, BindFails, RoundFails
  <2> QED
    BY <2>1, <2>2, ReportedStep
<1> QED
    BY <1>2, <1>3

LEMMA IdentifiersAreNat ==
    ASSUME NEW n \in Nat
    PROVE  RawIdentifier(n) \in Nat /\ DgramIdentifier(n) \in Nat
<1>1. IdSpace \in Nat /\ IdSpace > 1 /\ FirstId \in Nat
    BY SocketAssumption
<1>2. (FirstId + n) % IdSpace \in Nat /\ (FirstId + n) % (IdSpace - 1) \in Nat
    BY <1>1
<1> QED
    BY <1>2 DEF RawIdentifier, DgramIdentifier

LEMMA OpenSocketKeeps == ASSUME IcmpInv, NEW w \in Workers, OpenSocket(w) PROVE IcmpInv'
<1> DEFINE id == IF method = "raw" THEN RawIdentifier(opened + 1) ELSE DgramIdentifier(opened + 1)
           p == [probe[w] EXCEPT !.step = "sending", !.id = id]
<1>1. probe \in [Workers -> ProbeStates] /\ opened \in Nat /\ probe[w] \in ProbeStates
    BY DEF IcmpInv, IcmpType
<1>2. id \in Nat
    BY <1>1, IdentifiersAreNat
<1> HIDE DEF id
<1>3. /\ probe' = [probe EXCEPT ![w] = p] /\ opened' \in Nat
      /\ UNCHANGED <<now, rounds, wire, heard>>
  <2>1. probe' = [probe EXCEPT ![w].step = "sending", ![w].id = id]
        /\ opened' = opened + 1 /\ UNCHANGED <<now, rounds, wire, heard>>
    BY DEF OpenSocket, id
  <2> QED
    <3>1. [probe EXCEPT ![w].step = "sending", ![w].id = id] = [probe EXCEPT ![w] = p]
      BY <1>1, TwoFields
    <3> QED
      BY <1>1, <2>1, <3>1
<1>4. p \in ProbeStates
    BY <1>1, <1>2 DEF ProbeStates, OpenSteps
<1>5. /\ p.step = "sending" /\ p.round = probe[w].round /\ p.seq = probe[w].seq
      /\ p.results = probe[w].results /\ p.report = probe[w].report
    BY <1>1 DEF ProbeStates
<1>6. probe[w].step = "resolving"
    BY DEF OpenSocket
<1> HIDE DEF p
<1>7. Sane(p)
  <2>1. /\ probe[w].report = "none"
        /\ probe[w].round # 0 /\ probe[w].seq = 0 /\ probe[w].results = <<>>
        /\ \A r \in wire \cup heard : r.round # probe[w].round
    BY <1>6 DEF IcmpInv, Sane
  <2> QED
    BY <1>5, <2>1 DEF Sane
<1> QED
    BY <1>3, <1>4, <1>5, <1>7, LocalStep

-----------------------------------------------------------------------------
(***************************************************************************)
(* The samples of a round.                                                 *)
(***************************************************************************)

\* A sample ends; it ends as lost to its timeout only when nothing came early.
LEMMA EndSampleKeeps ==
    ASSUME IcmpInv, NEW w \in Workers, NEW outcome \in Outcomes, EndSample(w, outcome),
           probe[w].step \in {"sending", "waiting"},
           outcome = "timeout" => ~HeardEarly(probe[w], probe[w].seq)
    PROVE  IcmpInv'
<1> DEFINE results == Append(probe[w].results, outcome)
           p == [probe[w] EXCEPT !.step = "spacing", !.wake = now + Spacing, !.results = results]
<1>1. /\ probe \in [Workers -> ProbeStates] /\ probe[w] \in ProbeStates
      /\ now \in Nat /\ opened \in Nat
    BY DEF IcmpInv, IcmpType
<1>2. /\ probe[w].results \in Seq(Outcomes) /\ probe[w].seq \in Nat
      /\ Len(probe[w].results) = probe[w].seq
      /\ probe[w].report # "cut" => \A i \in DOMAIN probe[w].results :
            probe[w].results[i] = "timeout" => ~HeardEarly(probe[w], i - 1)
    BY <1>1 DEF IcmpInv, Sane, ProbeStates
<1>3. UNCHANGED <<now, opened, rounds, wire, heard>>
    BY DEF EndSample
<1>4. /\ results \in Seq(Outcomes) /\ Len(results) = probe[w].seq + 1
      /\ \A i \in DOMAIN results :
            \/ i \in DOMAIN probe[w].results /\ results[i] = probe[w].results[i]
            \/ i - 1 = probe[w].seq /\ results[i] = outcome
    BY <1>2
<1> HIDE DEF results
<1>5. ASSUME probe[w].report # "cut"
      PROVE  \A i \in DOMAIN results : results[i] = "timeout" => ~HeardEarly(probe[w], i - 1)
    BY <1>2, <1>4, <1>5
<1>6. probe[w].report # "cut"
    BY DEF IcmpInv, Sane
<1>7. CASE LastSample(w)
  <2>1. probe' = [probe EXCEPT ![w] = Reported(w, "whole", results)]
    BY <1>7 DEF EndSample, results
  <2> QED
    BY <1>1, <1>3, <1>4, <1>5, <1>6, <2>1, ReportedStep
<1>8. CASE ~LastSample(w)
  <2>1. probe' = [probe EXCEPT ![w] = p]
    BY <1>1, <1>8 DEF EndSample, results
  <2>2. now + Spacing \in Nat
    BY <1>1, CheckAssumption
  <2>3. p \in ProbeStates
    BY <1>1, <1>4, <2>2 DEF ProbeStates, OpenSteps
  <2>4. /\ p.step = "spacing" /\ p.round = probe[w].round /\ p.id = probe[w].id
        /\ p.seq = probe[w].seq /\ p.results = results /\ p.report = probe[w].report
    BY <1>1 DEF ProbeStates
  <2> HIDE DEF p
  <2>5. Sane(p)
    <3>1. /\ probe[w].round # 0 /\ probe[w].report = "none"
          /\ \A r \in wire : r.round = probe[w].round => r.id = probe[w].id
          /\ \A e \in heard : e.round = probe[w].round => e.seq <= probe[w].seq
      BY DEF IcmpInv, Sane, OpenSteps
    <3> QED
      BY <1>4, <1>5, <2>4, <3>1 DEF Sane, HeardEarly
  <2> QED
    BY <1>1, <1>3, <2>1, <2>3, <2>4, <2>5, LocalStep
<1> QED
    BY <1>7, <1>8

LEMMA SendRequestKeeps == ASSUME IcmpInv, NEW w \in Workers, SendRequest(w) PROVE IcmpInv'
<1> DEFINE p == [probe[w] EXCEPT !.step = "waiting", !.wake = now + Share]
<1>1. /\ probe \in [Workers -> ProbeStates] /\ probe[w] \in ProbeStates /\ now \in Nat
      /\ rounds \in Nat /\ now + Share \in Nat
    BY ShareIsNat DEF IcmpInv, IcmpType
<1>2. /\ probe' = [probe EXCEPT ![w] = p] /\ wire' = wire \cup {Request(w)}
      /\ UNCHANGED <<now, opened, rounds, heard>>
  <2>1. [probe EXCEPT ![w].step = "waiting", ![w].wake = now + Share] = [probe EXCEPT ![w] = p]
    BY <1>1, TwoFields
  <2> QED
    BY <2>1 DEF SendRequest
<1>3. p \in ProbeStates
    BY <1>1 DEF ProbeStates, OpenSteps
<1>4. /\ p.step = "waiting" /\ p.round = probe[w].round /\ p.id = probe[w].id
      /\ p.seq = probe[w].seq /\ p.results = probe[w].results /\ p.report = probe[w].report
    BY <1>1 DEF ProbeStates
<1> HIDE DEF p
<1>5. probe[w].step = "sending"
    BY DEF SendRequest
<1>6. /\ probe[w].report = "none" /\ probe[w].round # 0
      /\ \A r \in wire : r.round = probe[w].round => r.id = probe[w].id
      /\ \A e \in heard : e.round = probe[w].round => e.seq < probe[w].seq
      /\ Len(probe[w].results) = probe[w].seq
      /\ \A i \in DOMAIN probe[w].results :
            probe[w].results[i] = "timeout" => ~HeardEarly(probe[w], i - 1)
    BY <1>5 DEF IcmpInv, Sane, OpenSteps
<1>7. probe[w].seq \in Nat /\ probe[w].round \in Nat /\ probe[w].id \in Nat
      /\ \A e \in heard : e.seq \in Nat
    BY <1>1 DEF ProbeStates, IcmpInv, IcmpType
<1>8. Request(w).round = probe[w].round /\ Request(w).id = probe[w].id
      /\ Request(w) \in [round : Nat, id : Nat, seq : Nat]
    BY <1>7 DEF Request
<1>9. probe'[w] = p /\ \A v \in Workers \ {w} : probe'[v] = probe[v]
    BY <1>1, <1>2
<1>10. IcmpType'
    BY <1>1, <1>2, <1>3, <1>8 DEF IcmpInv, IcmpType
<1>11. RoundsApart'
  <2>1. \A v \in Workers : probe'[v].round = probe[v].round
    BY <1>4, <1>9
  <2>2. Request(w).round \in 1..rounds
    BY <1>1, <1>6, <1>7, <1>8 DEF IcmpInv, RoundsApart
  <2> QED
    BY <1>2, <2>1, <2>2 DEF IcmpInv, RoundsApart
<1>12. Sane(probe[w])'
  <2>1. ~HeardEarly(p, p.seq)
    <3> SUFFICES ASSUME HeardEarly(p, p.seq) PROVE FALSE
      OBVIOUS
    <3> DEFINE e == [round |-> p.round, seq |-> p.seq, early |-> TRUE]
    <3>1. e \in heard /\ e.round = p.round /\ e.seq = p.seq
      BY DEF HeardEarly
    <3> HIDE DEF e
    <3> QED
      BY <1>4, <1>6, <1>7, <3>1
  <2>2. \A r \in wire' : r.round = p.round => r.id = p.id
    BY <1>2, <1>4, <1>6, <1>8
  <2>3. \A e \in heard : e.round = p.round => e.seq <= p.seq
    BY <1>4, <1>6, <1>7
  <2>4. \A i \in DOMAIN p.results : p.results[i] = "timeout" => ~HeardEarly(p, i - 1)
    BY <1>4, <1>6 DEF HeardEarly
  <2> QED
    BY <1>2, <1>4, <1>6, <1>9, <2>1, <2>2, <2>3, <2>4 DEF Sane, HeardEarly
<1>13. ASSUME NEW v \in Workers \ {w} PROVE Sane(probe[v])'
  <2>1. Request(w).round # probe[v].round
    BY <1>6, <1>8 DEF IcmpInv, RoundsApart
  <2>2. Sane(probe[v])
    BY DEF IcmpInv
  <2> QED
    BY <1>2, <1>9, <2>1, <2>2 DEF Sane, HeardEarly, MatchWaits
<1> QED
    BY <1>10, <1>11, <1>12, <1>13 DEF IcmpInv

LEMMA ReceiveOtherKeeps == ASSUME IcmpInv, NEW w \in Workers, ReceiveOther(w) PROVE IcmpInv'
<1> DEFINE p == [probe[w] EXCEPT !.inbox = Tail(probe[w].inbox)]
<1>1. probe \in [Workers -> ProbeStates] /\ probe[w] \in ProbeStates /\ opened \in Nat
    BY DEF IcmpInv, IcmpType
<1>2. /\ probe[w].step = "waiting" /\ probe[w].inbox # <<>>
      /\ ~Matches(w, Head(probe[w].inbox))
      /\ probe' = [probe EXCEPT ![w] = p] /\ UNCHANGED <<now, opened, rounds, wire, heard>>
    BY DEF ReceiveOther
<1>3. probe[w].inbox \in Seq(Packets) /\ Tail(probe[w].inbox) \in Seq(Packets)
    BY <1>1, <1>2 DEF ProbeStates
<1>4. p \in ProbeStates
    BY <1>1, <1>3 DEF ProbeStates
<1>5. /\ p.step = "waiting" /\ p.round = probe[w].round /\ p.id = probe[w].id
      /\ p.seq = probe[w].seq /\ p.results = probe[w].results /\ p.report = probe[w].report
      /\ p.wake = probe[w].wake /\ p.inbox = Tail(probe[w].inbox)
    BY <1>1, <1>2 DEF ProbeStates
<1> HIDE DEF p
<1>6. MatchWaits(probe[w]) => MatchWaits(p)
  <2> SUFFICES ASSUME NEW i \in DOMAIN probe[w].inbox,
                      probe[w].inbox[i].id = probe[w].id, probe[w].inbox[i].seq = probe[w].seq
               PROVE  MatchWaits(p)
    BY DEF MatchWaits
  <2>1. i # 1
    BY <1>2, <1>3 DEF Matches
  <2>2. i - 1 \in DOMAIN p.inbox /\ p.inbox[i - 1] = probe[w].inbox[i]
    BY <1>2, <1>3, <1>5, <2>1
  <2> QED
    BY <1>5, <2>2 DEF MatchWaits
<1>7. Sane(p)
  <2>1. Sane(probe[w])
    BY DEF IcmpInv
  <2> QED
    BY <1>2, <1>5, <1>6, <2>1 DEF Sane, HeardEarly
<1> QED
    BY <1>1, <1>2, <1>4, <1>5, <1>7, LocalStep

LEMMA SpacingEndsKeeps == ASSUME IcmpInv, NEW w \in Workers, SpacingEnds(w) PROVE IcmpInv'
<1> DEFINE p == [probe[w] EXCEPT !.step = "sending", !.seq = probe[w].seq + 1]
<1>1. probe \in [Workers -> ProbeStates] /\ probe[w] \in ProbeStates /\ opened \in Nat
      /\ probe[w].seq \in Nat /\ \A e \in heard : e.seq \in Nat
    BY DEF IcmpInv, IcmpType, ProbeStates
<1>2. /\ probe[w].step = "spacing" /\ probe' = [probe EXCEPT ![w] = p]
      /\ UNCHANGED <<now, opened, rounds, wire, heard>>
  <2>1. [probe EXCEPT ![w].step = "sending", ![w].seq = probe[w].seq + 1]
            = [probe EXCEPT ![w] = p]
    BY <1>1, TwoFields
  <2>2. [probe EXCEPT ![w].step = "sending", ![w].seq = @ + 1]
            = [probe EXCEPT ![w].step = "sending", ![w].seq = probe[w].seq + 1]
    BY <1>1 DEF ProbeStates
  <2> QED
    BY <2>1, <2>2 DEF SpacingEnds
<1>3. p \in ProbeStates
  <2>1. probe[w] \in ProbeStates /\ probe[w].seq + 1 \in Nat
    BY <1>1
  <2> QED
    BY <2>1 DEF ProbeStates, OpenSteps
<1>4. /\ p.step = "sending" /\ p.round = probe[w].round /\ p.id = probe[w].id
      /\ p.seq = probe[w].seq + 1 /\ p.results = probe[w].results
      /\ p.report = probe[w].report
    BY <1>1 DEF ProbeStates
<1> HIDE DEF p
<1>5. Sane(p)
  <2>1. /\ probe[w].report = "none" /\ probe[w].round # 0
        /\ \A r \in wire : r.round = probe[w].round => r.id = probe[w].id
        /\ \A e \in heard : e.round = probe[w].round => e.seq <= probe[w].seq
        /\ Len(probe[w].results) = probe[w].seq + 1
        /\ \A i \in DOMAIN probe[w].results :
              probe[w].results[i] = "timeout" => ~HeardEarly(probe[w], i - 1)
    BY <1>2 DEF IcmpInv, Sane, OpenSteps
  <2>2. \A e \in heard : e.round = p.round => e.seq <= p.seq /\ e.seq < p.seq
    BY <1>1, <1>4, <2>1
  <2> QED
    BY <1>4, <2>1, <2>2 DEF Sane, HeardEarly
<1> QED
    BY <1>1, <1>2, <1>3, <1>4, <1>5, LocalStep

LEMMA WorkingKeeps == ASSUME IcmpInv, NEW w \in Workers, Working(w) PROVE IcmpInv'
<1>1. CASE SendFails(w) \/ ReceiveFails(w)
    BY <1>1, EndSampleKeeps DEF SendFails, ReceiveFails, Outcomes
<1>2. CASE ReceiveMatch(w)
    BY <1>2, EndSampleKeeps DEF ReceiveMatch, OutcomeOf, Outcomes
<1>3. CASE SampleTimesOut(w)
  <2>1. probe[w].step = "waiting" /\ now >= probe[w].wake /\ EndSample(w, "timeout")
    BY <1>3 DEF SampleTimesOut
  <2>2. now \in Nat /\ probe[w].wake \in Nat
    BY DEF IcmpInv, IcmpType, ProbeStates
  <2>3. ~HeardEarly(probe[w], probe[w].seq)
    BY <2>1, <2>2 DEF IcmpInv, Sane
  <2> QED
    BY <2>1, <2>3, EndSampleKeeps DEF Outcomes
<1> QED
    BY <1>1, <1>2, <1>3, BeginRoundKeeps, EarlyEndKeeps, OpenSocketKeeps, SendRequestKeeps,
       ReceiveOtherKeeps, SpacingEndsKeeps
    DEF Working

-----------------------------------------------------------------------------
(***************************************************************************)
(* The network and the clock.                                              *)
(***************************************************************************)

\* An answer enters inboxes; that it is heard early by a sample means that it is
\* in the inbox of that sample.
LEMMA NetworkAnswersKeeps == IcmpInv /\ NetworkAnswers => IcmpInv'
<1> SUFFICES ASSUME IcmpInv, NetworkAnswers PROVE IcmpInv'
    OBVIOUS
<1>1. PICK request \in wire, kind \in {"reply", "error"} :
        /\ probe' = [w \in Workers |->
               IF Hears(w, request.id)
               THEN [probe[w] EXCEPT !.inbox = Append(@,
                        [kind |-> kind, id |-> request.id, seq |-> request.seq])]
               ELSE probe[w]]
        /\ heard' = heard \union
               (IF kind = "reply" THEN UNION {HeardBy(w, request) : w \in Workers} ELSE {})
        /\ UNCHANGED <<now, opened, wire, rounds>>
    BY DEF NetworkAnswers
<1> DEFINE packet == [kind |-> kind, id |-> request.id, seq |-> request.seq]
<1>2. /\ probe \in [Workers -> ProbeStates] /\ now \in Nat
      /\ request.round \in Nat /\ request.id \in Nat /\ request.seq \in Nat
      /\ request.round \in 1..rounds
    BY DEF IcmpInv, IcmpType, RoundsApart
<1>3. packet \in Packets /\ packet.id = request.id /\ packet.seq = request.seq
    BY <1>2 DEF Packets
<1> HIDE DEF packet
<1>4. ASSUME NEW w \in Workers
      PROVE  \/ ~Hears(w, request.id) /\ probe'[w] = probe[w]
             \/ /\ Hears(w, request.id)
                /\ probe'[w] = [probe[w] EXCEPT !.inbox = Append(probe[w].inbox, packet)]
    BY <1>1, <1>2 DEF packet
<1>5. ASSUME NEW w \in Workers
      PROVE  /\ probe'[w] \in ProbeStates
             /\ probe'[w].step = probe[w].step /\ probe'[w].round = probe[w].round
             /\ probe'[w].id = probe[w].id /\ probe'[w].seq = probe[w].seq
             /\ probe'[w].wake = probe[w].wake /\ probe'[w].results = probe[w].results
             /\ probe'[w].report = probe[w].report
             /\ MatchWaits(probe[w]) => MatchWaits(probe'[w])
             /\ Hears(w, request.id) /\ request.id = probe[w].id /\ request.seq = probe[w].seq
                    => MatchWaits(probe'[w])
  <2>1. CASE ~Hears(w, request.id)
    BY <1>2, <1>4, <2>1
  <2>2. CASE Hears(w, request.id)
    <3> DEFINE inbox == Append(probe[w].inbox, packet)
    <3>1. probe[w] \in ProbeStates /\ probe[w].inbox \in Seq(Packets)
      BY <1>2 DEF ProbeStates
    <3>2. /\ inbox \in Seq(Packets)
          /\ \A i \in DOMAIN probe[w].inbox : i \in DOMAIN inbox /\ inbox[i] = probe[w].inbox[i]
          /\ \E i \in DOMAIN inbox : inbox[i] = packet
      <4>1. /\ inbox \in Seq(Packets) /\ DOMAIN inbox = 1..(Len(probe[w].inbox) + 1)
            /\ \A i \in 1..Len(probe[w].inbox) : inbox[i] = probe[w].inbox[i]
            /\ inbox[Len(probe[w].inbox) + 1] = packet
            /\ DOMAIN probe[w].inbox = 1..Len(probe[w].inbox)
            /\ Len(probe[w].inbox) \in Nat
        BY <1>3, <3>1
      <4> HIDE DEF inbox
      <4>2. \A i \in 1..Len(probe[w].inbox) : i \in 1..(Len(probe[w].inbox) + 1)
        BY <4>1
      <4>3. Len(probe[w].inbox) + 1 \in 1..(Len(probe[w].inbox) + 1)
        BY <4>1
      <4> QED
        BY <4>1, <4>2, <4>3
    <3> HIDE DEF inbox
    <3>3. probe'[w] = [probe[w] EXCEPT !.inbox = inbox]
      BY <1>4, <2>2 DEF inbox
    <3>4. /\ probe'[w] \in ProbeStates
          /\ probe'[w].step = probe[w].step /\ probe'[w].round = probe[w].round
          /\ probe'[w].id = probe[w].id /\ probe'[w].seq = probe[w].seq
          /\ probe'[w].wake = probe[w].wake /\ probe'[w].results = probe[w].results
          /\ probe'[w].report = probe[w].report
          /\ probe'[w].inbox = inbox
      BY <3>1, <3>2, <3>3 DEF ProbeStates
    <3>5. MatchWaits(probe[w]) => MatchWaits(probe'[w])
      BY <3>2, <3>4 DEF MatchWaits
    <3>6. request.id = probe[w].id /\ request.seq = probe[w].seq => MatchWaits(probe'[w])
      BY <1>3, <3>2, <3>4 DEF MatchWaits
    <3> QED
      BY <3>4, <3>5, <3>6
  <2> QED
    BY <2>1, <2>2
<1>6. ASSUME NEW e \in heard', e \notin heard
      PROVE  \E w \in Workers, early \in BOOLEAN :
                /\ probe[w].step = "waiting"
                /\ probe[w].round = request.round /\ probe[w].seq = request.seq
                /\ e = [round |-> request.round, seq |-> request.seq, early |-> early]
                /\ early => now < probe[w].wake
  <2>1. PICK w \in Workers : e \in HeardBy(w, request)
    BY <1>1, <1>6
  <2>2. /\ probe[w].step = "waiting"
        /\ probe[w].round = request.round /\ probe[w].seq = request.seq
        /\ e = [round |-> request.round, seq |-> request.seq, early |-> now < probe[w].wake]
    BY <2>1 DEF HeardBy
  <2>3. CASE now < probe[w].wake
    BY <2>2, <2>3
  <2>4. CASE ~(now < probe[w].wake)
    <3>1. (now < probe[w].wake) = FALSE
      BY <2>4
    <3>2. e = [round |-> request.round, seq |-> request.seq, early |-> FALSE]
      BY <2>2, <3>1
    <3> QED
      BY <2>2, <3>2
  <2> QED
    BY <2>3, <2>4
<1>7. IcmpType'
  <2>1. probe' \in [Workers -> ProbeStates]
    <3>1. probe' = [w \in Workers |-> probe'[w]]
      BY <1>1
    <3> QED
      BY <1>5, <3>1
  <2>2. \A e \in heard' : e \in [round : Nat, seq : Nat, early : BOOLEAN]
    <3>1. ASSUME NEW e \in heard' PROVE e \in [round : Nat, seq : Nat, early : BOOLEAN]
      <4>1. CASE e \in heard
        BY <4>1 DEF IcmpInv, IcmpType
      <4>2. CASE e \notin heard
        BY <1>2, <1>6, <3>1, <4>2
      <4> QED
        BY <4>1, <4>2
    <3> QED
      BY <3>1
  <2> QED
    BY <1>1, <2>1, <2>2 DEF IcmpInv, IcmpType
<1>8. RoundsApart'
  <2>1. \A e \in heard' : e.round \in 1..rounds
    BY <1>2, <1>6 DEF IcmpInv, RoundsApart
  <2> QED
    BY <1>1, <1>5, <2>1 DEF IcmpInv, RoundsApart
<1>9. ASSUME NEW w \in Workers PROVE Sane(probe[w])'
  <2> DEFINE p == probe[w]
             q == probe'[w]
  <2>1. Sane(p)
    BY DEF IcmpInv
  <2>2. /\ q.step = p.step /\ q.round = p.round /\ q.id = p.id /\ q.seq = p.seq
        /\ q.wake = p.wake /\ q.results = p.results /\ q.report = p.report
        /\ MatchWaits(p) => MatchWaits(q)
    BY <1>5
  <2>3. p.seq \in Nat /\ p.round \in Nat /\ p.wake \in Nat /\ p.results \in Seq(Outcomes)
    BY <1>2 DEF ProbeStates
  <2>4. ASSUME NEW e \in heard', e \notin heard, e.round = p.round
        PROVE  /\ p.step = "waiting" /\ e.seq = p.seq
               /\ request.round = p.round /\ request.seq = p.seq
               /\ e.early => now < p.wake
    <3>1. PICK v \in Workers, early \in BOOLEAN :
                /\ probe[v].step = "waiting"
                /\ probe[v].round = request.round /\ probe[v].seq = request.seq
                /\ e = [round |-> request.round, seq |-> request.seq, early |-> early]
                /\ early => now < probe[v].wake
      BY <1>6, <2>4
    <3>2. e.round = request.round /\ e.seq = request.seq /\ e.early = early
      BY <3>1
    <3>3. v = w
      BY <1>2, <2>4, <3>1, <3>2 DEF IcmpInv, RoundsApart
    <3> QED
      BY <3>1, <3>2, <3>3
  <2>5. \A e \in heard' : e.round = q.round =>
          /\ q.step # "resolving"
          /\ q.step \in OpenSteps => e.seq <= q.seq
          /\ q.step = "sending" => e.seq < q.seq
    BY <2>1, <2>2, <2>3, <2>4 DEF Sane
  <2>6. ASSUME q.step = "waiting", [round |-> q.round, seq |-> q.seq, early |-> TRUE] \in heard'
        PROVE  now < q.wake /\ MatchWaits(q)
    <3> DEFINE e == [round |-> p.round, seq |-> p.seq, early |-> TRUE]
    <3>1. e \in heard' /\ e.round = p.round /\ e.seq = p.seq /\ e.early = TRUE
      BY <2>2, <2>6
    <3>2. CASE e \in heard
      BY <2>1, <2>2, <2>6, <3>2 DEF Sane, HeardEarly
    <3>3. CASE e \notin heard
      <4>1. request.round = p.round /\ request.seq = p.seq /\ now < p.wake
        BY <2>4, <3>1, <3>3
      <4>2. request.id = p.id
        BY <2>1, <2>2, <2>6, <4>1 DEF Sane, OpenSteps
      <4>3. Hears(w, request.id)
        BY <2>2, <2>6, <4>2 DEF Hears, Open
      <4> QED
        BY <1>5, <2>2, <4>1, <4>2, <4>3
    <3> QED
      BY <3>2, <3>3
  <2>7. ASSUME q.report # "cut", NEW i \in DOMAIN q.results, q.results[i] = "timeout",
               [round |-> q.round, seq |-> i - 1, early |-> TRUE] \in heard'
        PROVE  FALSE
    <3> DEFINE e == [round |-> p.round, seq |-> i - 1, early |-> TRUE]
    <3>1. e \in heard' /\ e.round = p.round /\ e.seq = i - 1
      BY <2>2, <2>7
    <3>2. e \notin heard
      BY <2>1, <2>2, <2>7 DEF Sane, HeardEarly
    <3> HIDE DEF e
    <3>3. p.step = "waiting" /\ i - 1 = p.seq
      BY <2>4, <3>1, <3>2
    <3>4. Len(p.results) = p.seq /\ i \in 1..Len(p.results)
      BY <2>1, <2>2, <2>3, <2>7, <3>3 DEF Sane
    <3> QED
      BY <2>3, <3>3, <3>4
  <2>8. wire' = wire /\ now' = now
    BY <1>1
  <2> QED
    BY <2>1, <2>2, <2>5, <2>6, <2>7, <2>8 DEF Sane, HeardEarly
<1> QED
    BY <1>7, <1>8, <1>9 DEF IcmpInv

\* The clock waits until every inbox of a waiting sample is empty.
LEMMA ClockTicksKeeps == IcmpInv /\ ClockTicks => IcmpInv'
<1> SUFFICES ASSUME IcmpInv, ClockTicks PROVE IcmpInv'
    OBVIOUS
<1>1. now' = now + 1 /\ UNCHANGED <<opened, probe, wire, rounds, heard>>
      /\ \A w \in Workers : probe[w].step = "waiting" => probe[w].inbox = <<>>
    BY DEF ClockTicks, Ready
<1>2. IcmpType' /\ RoundsApart'
    BY <1>1 DEF IcmpInv, IcmpType, RoundsApart
<1>3. ASSUME NEW w \in Workers PROVE Sane(probe[w])'
  <2>1. probe[w].step = "waiting" => ~MatchWaits(probe[w])
    BY <1>1 DEF MatchWaits
  <2> QED
    BY <1>1, <2>1 DEF IcmpInv, Sane, HeardEarly, MatchWaits
<1> QED
    BY <1>2, <1>3 DEF IcmpInv

LEMMA IcmpStep == IcmpInv /\ Next => IcmpInv'
BY WorkingKeeps, NetworkAnswersKeeps, ClockTicksKeeps DEF Next

LEMMA IcmpInit == Init => IcmpInv
<1> SUFFICES ASSUME Init PROVE IcmpInv
    OBVIOUS
<1>1. IcmpType
    BY UntouchedIsState DEF Init, IcmpType
<1>2. RoundsApart
    BY UntouchedIsState DEF Init, RoundsApart
<1>3. ASSUME NEW w \in Workers PROVE Sane(probe[w])
  <2>1. probe[w] = Untouched /\ wire = {} /\ heard = {}
    BY DEF Init
  <2> QED
    BY <2>1, UntouchedIsState DEF Sane, OpenSteps, HeardEarly
<1> QED
    BY <1>1, <1>2, <1>3 DEF IcmpInv

-----------------------------------------------------------------------------
(***************************************************************************)
(* Rounds of one sample.                                                   *)
(***************************************************************************)
Latencies == Nat \cup {NoLatency}
Responses == {"success", "unexpected"}

ShotStates ==
    [step : {"idle", "preparing", "connecting", "handshake", "asking", "reading"},
     began : Nat, start : Nat, until : Nat,
     ready : {"nothing", "good", "unexpected"} \cup Errors,
     status : {"none", "good", "unexpected"},
     sample : [outcome : Responses \cup {"none", "timeout", "lost"}, latency : Latencies],
     early : BOOLEAN]

\* What is known of a round: it is under the time-out of its check; a complete
\* answer that came in time is taken before any timer expires; a latency is that of a
\* response, the losses of the DNS probe set aside; and a response without one is a
\* redirect too many.
ShotSane(s) ==
    /\ s.step # "idle" => s.sample = Unmeasured /\ s.began <= now /\ now <= s.began + Timeout
    /\ s.step \in {FirstStep, LastStep} => s.began <= s.start /\ s.start <= now
    /\ s.step # "idle" /\ s.early =>
        /\ s.step = LastStep /\ s.ready \in {"good", "unexpected"}
        /\ now < s.until /\ now < s.began + Timeout
    /\ s.sample.outcome = "timeout" => ~s.early
    /\ s.sample.latency # NoLatency => s.sample.latency \in 0..Timeout
    /\ s.ready = "redirect" => protocol \in {"http", "body"}
    /\ s.sample.outcome = "success" => s.sample.latency # NoLatency
    /\ s.sample.outcome = "unexpected" /\ protocol \notin {"http", "body"} =>
        s.sample.latency # NoLatency
    /\ s.sample.latency # NoLatency /\ protocol # "dns" => s.sample.outcome \in Responses

NoIcmp == wire = {} /\ heard = {} /\ \A w \in Workers : probe[w].step = "idle"

ProbesInv ==
    /\ IcmpInv
    /\ shot \in [Workers -> ShotStates]
    /\ \A w \in Workers : ShotSane(shot[w])
    /\ protocol = "icmp" => \A w \in Workers : shot[w].step = "idle"
    /\ protocol # "icmp" => NoIcmp

LEMMA StepNames ==
    /\ FirstStep \in {"connecting", "asking"}
    /\ LastStep \in {"connecting", "asking", "handshake", "reading"}
    /\ LastStep # FirstStep => LastStep \in {"handshake", "reading"}
BY DEF FirstStep, LastStep

LEMMA UnbegunIsState ==
    /\ Unbegun \in ShotStates
    /\ Unbegun.step = "idle" /\ Unbegun.sample = Unmeasured /\ Unbegun.early = FALSE
    /\ Unbegun.ready = "nothing"
    /\ Unmeasured.outcome = "none" /\ Unmeasured.latency = NoLatency
BY DEF Unbegun, Unmeasured, ShotStates, Latencies

\* Without an ICMP round in flight, nothing of what is known of them can change.
LEMMA NoIcmpKeeps ==
    ASSUME IcmpInv, NoIcmp, UNCHANGED <<opened, probe, wire, heard>>,
           now' \in Nat, rounds' \in Nat, rounds' >= rounds
    PROVE  IcmpInv' /\ NoIcmp'
<1>1. NoIcmp'
    BY DEF NoIcmp
<1>2. IcmpType'
    BY DEF IcmpInv, IcmpType
<1>3. RoundsApart'
  <2>1. \A w \in Workers : probe[w].round \in Nat /\ probe[w].round <= rounds'
    BY DEF IcmpInv, IcmpType, ProbeStates, RoundsApart
  <2> QED
    BY <2>1 DEF IcmpInv, RoundsApart, NoIcmp
<1>4. ASSUME NEW w \in Workers PROVE Sane(probe[w])'
    BY DEF IcmpInv, NoIcmp, Sane, HeardEarly, OpenSteps
<1> QED
    BY <1>1, <1>2, <1>3, <1>4 DEF IcmpInv

LEMMA ShotStep ==
    ASSUME ProbesInv, protocol # "icmp", NEW w \in Workers, NEW s \in ShotStates, ShotSane(s),
           shot' = [shot EXCEPT ![w] = s], rounds' \in {rounds, rounds + 1},
           UNCHANGED <<now, protocol, opened, probe, wire, heard>>
    PROVE  ProbesInv'
<1>1. now' \in Nat /\ rounds' \in Nat /\ rounds' >= rounds
    BY DEF ProbesInv, IcmpInv, IcmpType
<1>2. IcmpInv' /\ NoIcmp'
    BY <1>1, NoIcmpKeeps DEF ProbesInv
<1>3. shot \in [Workers -> ShotStates] /\ shot'[w] = s
      /\ \A v \in Workers \ {w} : shot'[v] = shot[v]
    BY DEF ProbesInv
<1>4. \A v \in Workers : ShotSane(shot'[v])
    BY <1>3 DEF ProbesInv
<1>5. \A v \in Workers : ShotSane(shot[v])'
    BY <1>4 DEF ShotSane, FirstStep, LastStep
<1> QED
    BY <1>2, <1>3, <1>5 DEF ProbesInv

LEMMA EndShotKeeps ==
    ASSUME ProbesInv, protocol # "icmp", NEW w \in Workers,
           NEW outcome \in Responses \cup {"timeout", "lost"}, NEW latency \in Latencies,
           EndShot(w, outcome, latency),
           outcome = "timeout" => ~shot[w].early,
           latency # NoLatency => latency \in 0..Timeout,
           outcome = "success" => latency # NoLatency,
           outcome = "unexpected" /\ protocol \notin {"http", "body"} => latency # NoLatency,
           latency # NoLatency /\ protocol # "dns" => outcome \in Responses,
           UNCHANGED <<protocol, opened, probe, wire, heard>>
    PROVE  ProbesInv'
<1> DEFINE sample == [outcome |-> outcome, latency |-> latency]
           s == [Unbegun EXCEPT !.early = shot[w].early, !.sample = sample]
<1>1. shot[w].early \in BOOLEAN
    BY DEF ProbesInv, ShotStates
<1>2. sample.outcome = outcome /\ sample.latency = latency
      /\ sample \in [outcome : Responses \cup {"none", "timeout", "lost"}, latency : Latencies]
    OBVIOUS
<1>3. shot' = [shot EXCEPT ![w] = s] /\ UNCHANGED <<now, rounds>>
    BY DEF EndShot
<1> HIDE DEF sample
<1>4. s \in ShotStates
    BY <1>1, <1>2, UnbegunIsState DEF ShotStates
<1>5. s.step = "idle" /\ s.sample = sample /\ s.early = shot[w].early /\ s.ready = "nothing"
    BY UnbegunIsState DEF ShotStates
<1> HIDE DEF s
<1>6. ShotSane(s)
    BY <1>1, <1>2, <1>5, StepNames DEF ShotSane
<1> QED
    BY <1>3, <1>4, <1>6, ShotStep

\* What is known of a round that runs, with the types the timers need.
LEMMA ShotFacts ==
    ASSUME ProbesInv, NEW w \in Workers
    PROVE  /\ shot \in [Workers -> ShotStates] /\ shot[w] \in ShotStates
           /\ now \in Nat /\ rounds \in Nat /\ Timeout \in Nat /\ now + Timeout \in Nat
           /\ shot[w].began \in Nat /\ shot[w].start \in Nat /\ shot[w].until \in Nat
           /\ ShotSane(shot[w])
BY CheckAssumption DEF ProbesInv, ShotStates, IcmpInv, IcmpType

LEMMA ElapsedBounded ==
    ASSUME ProbesInv, NEW w \in Workers, Awaits(w)
    PROVE  Elapsed(w) \in 0..Timeout /\ Elapsed(w) # NoLatency /\ Elapsed(w) \in Latencies
<1>1. /\ now \in Nat /\ Timeout \in Nat
      /\ shot[w].began \in Nat /\ shot[w].start \in Nat
      /\ now <= shot[w].began + Timeout /\ shot[w].began <= shot[w].start
      /\ shot[w].start <= now
    BY ShotFacts, StepNames DEF ShotSane, Awaits
<1>2. Elapsed(w) \in 0..Timeout
    BY <1>1 DEF Elapsed
<1> QED
    BY <1>1, <1>2, NoLatencyAssumption DEF Latencies

LEMMA BeginShotKeeps ==
    ASSUME ProbesInv, NEW w \in Workers, BeginShot(w), protocol # "icmp",
           UNCHANGED <<protocol, opened, probe, wire, heard>>
    PROVE  ProbesInv'
<1> DEFINE s == [Unbegun EXCEPT !.step = "preparing", !.began = now]
<1>1. now \in Nat /\ Timeout \in Nat
    BY ShotFacts
<1>2. shot' = [shot EXCEPT ![w] = s] /\ rounds' = rounds + 1 /\ now' = now
    BY DEF BeginShot
<1>3. s \in ShotStates
    BY <1>1, UnbegunIsState DEF ShotStates
<1>4. s.step = "preparing" /\ s.began = now /\ s.sample = Unmeasured /\ s.early = FALSE
      /\ s.ready = "nothing"
    BY UnbegunIsState DEF ShotStates
<1> HIDE DEF s
<1>5. ShotSane(s)
    BY <1>1, <1>4, StepNames, UnbegunIsState DEF ShotSane, Responses
<1> QED
    BY <1>2, <1>3, <1>5, ShotStep

\* Fields that a step changes, seen as one change of the round.
LEMMA ShotFields ==
    ASSUME NEW S, NEW R, NEW f \in [S -> R], NEW w \in S,
           NEW step, NEW start, NEW until, NEW ready, NEW status, NEW early
    PROVE  /\ [f EXCEPT ![w].step = step, ![w].start = start, ![w].until = until]
                = [f EXCEPT ![w] = [f[w] EXCEPT !.step = step, !.start = start, !.until = until]]
           /\ [f EXCEPT ![w].step = step, ![w].ready = ready, ![w].status = status,
                        ![w].until = until]
                = [f EXCEPT ![w] = [f[w] EXCEPT !.step = step, !.ready = ready,
                                                !.status = status, !.until = until]]
           /\ [f EXCEPT ![w].ready = ready, ![w].early = early]
                = [f EXCEPT ![w] = [f[w] EXCEPT !.ready = ready, !.early = early]]
OBVIOUS

LEMMA PreparedKeeps ==
    ASSUME ProbesInv, NEW w \in Workers, Prepared(w), protocol # "icmp",
           UNCHANGED <<protocol, opened, probe, wire, heard>>
    PROVE  ProbesInv'
<1> DEFINE s == [shot[w] EXCEPT !.step = FirstStep, !.start = now, !.until = now + Timeout]
<1>1. /\ shot \in [Workers -> ShotStates] /\ shot[w] \in ShotStates
      /\ now \in Nat /\ now + Timeout \in Nat /\ ShotSane(shot[w])
    BY ShotFacts
<1>2. shot' = [shot EXCEPT ![w] = s]
  <2>1. [shot EXCEPT ![w].step = FirstStep, ![w].start = now, ![w].until = now + Timeout]
            = [shot EXCEPT ![w] = s]
    BY <1>1, ShotFields
  <2> QED
    BY <2>1 DEF Prepared
<1>3. shot[w].step = "preparing" /\ UNCHANGED <<now, rounds>>
    BY DEF Prepared
<1>4. s \in ShotStates
    BY <1>1, StepNames DEF ShotStates
<1>5. /\ s.step = FirstStep /\ s.start = now /\ s.began = shot[w].began
      /\ s.sample = shot[w].sample /\ s.early = shot[w].early /\ s.ready = shot[w].ready
    BY <1>1 DEF ShotStates
<1> HIDE DEF s
<1>6. /\ ~shot[w].early /\ shot[w].sample = Unmeasured
      /\ shot[w].began <= now /\ now <= shot[w].began + Timeout
    BY <1>1, <1>3, StepNames DEF ShotSane
<1>7. ShotSane(s)
    BY <1>1, <1>5, <1>6, StepNames, UnbegunIsState DEF ShotSane, Responses
<1> QED
    BY <1>2, <1>3, <1>4, <1>7, ShotStep

LEMMA AwaitsMoreKeeps ==
    ASSUME ProbesInv, NEW w \in Workers, AwaitsMore(w), protocol # "icmp",
           UNCHANGED <<protocol, opened, probe, wire, heard>>
    PROVE  ProbesInv'
<1> DEFINE until == IF protocol = "tls" THEN now + Timeout ELSE shot[w].until
           s == [shot[w] EXCEPT !.step = LastStep, !.ready = "nothing",
                                !.status = shot[w].ready, !.until = until]
<1>1. /\ shot \in [Workers -> ShotStates] /\ shot[w] \in ShotStates
      /\ now \in Nat /\ now + Timeout \in Nat /\ ShotSane(shot[w])
      /\ until \in Nat
    BY ShotFacts
<1>2. shot' = [shot EXCEPT ![w] = s]
  <2>1. [shot EXCEPT ![w].step = LastStep, ![w].ready = "nothing",
                     ![w].status = shot[w].ready, ![w].until = until]
            = [shot EXCEPT ![w] = s]
    <3> HIDE DEF until
    <3> QED
      BY <1>1, ShotFields
  <2>2. shot' = [shot EXCEPT ![w].step = LastStep, ![w].ready = "nothing",
                             ![w].status = shot[w].ready, ![w].until = until]
    BY <1>1 DEF AwaitsMore, ShotStates
  <2> QED
    BY <2>1, <2>2
<1> HIDE DEF until
<1>3. /\ shot[w].step = FirstStep /\ LastStep # FirstStep
      /\ shot[w].ready \in {"good", "unexpected"}
      /\ UNCHANGED <<now, rounds>>
    BY DEF AwaitsMore, Answered, Awaits
<1>4. s \in ShotStates
    BY <1>1, <1>3, StepNames DEF ShotStates
<1>5. /\ s.step = LastStep /\ s.start = shot[w].start /\ s.began = shot[w].began
      /\ s.sample = shot[w].sample /\ s.early = shot[w].early /\ s.ready = "nothing"
    BY <1>1 DEF ShotStates
<1> HIDE DEF s
<1>6. /\ ~shot[w].early /\ shot[w].sample = Unmeasured
      /\ shot[w].began <= now /\ now <= shot[w].began + Timeout
      /\ shot[w].began <= shot[w].start /\ shot[w].start <= now
    BY <1>1, <1>3, StepNames DEF ShotSane
<1>7. ShotSane(s)
    BY <1>5, <1>6, StepNames, UnbegunIsState DEF ShotSane, Responses
<1> QED
    BY <1>2, <1>3, <1>4, <1>7, ShotStep

LEMMA ServiceAnswersKeeps ==
    ASSUME ProbesInv, NEW w \in Workers, ServiceAnswers(w), protocol # "icmp",
           UNCHANGED <<protocol, opened, probe, wire, heard>>
    PROVE  ProbesInv'
<1>1. PICK what \in {"good", "unexpected"} \cup Errors :
        /\ Awaits(w) /\ UNCHANGED <<now, rounds>>
        /\ what = "redirect" => protocol \in {"http", "body"}
        /\ shot' = [shot EXCEPT
                ![w].ready = what,
                ![w].early = /\ shot[w].step = LastStep /\ what \in {"good", "unexpected"}
                             /\ now < shot[w].until /\ now < shot[w].began + Timeout]
    BY DEF ServiceAnswers
<1> DEFINE early == /\ shot[w].step = LastStep /\ what \in {"good", "unexpected"}
                    /\ now < shot[w].until /\ now < shot[w].began + Timeout
           s == [shot[w] EXCEPT !.ready = what, !.early = early]
<1>2. /\ shot \in [Workers -> ShotStates] /\ shot[w] \in ShotStates /\ ShotSane(shot[w])
      /\ early \in BOOLEAN
    BY ShotFacts
<1>3. shot' = [shot EXCEPT ![w] = s]
  <2>1. shot' = [shot EXCEPT ![w].ready = what, ![w].early = early]
    BY <1>1
  <2> HIDE DEF early
  <2>2. [shot EXCEPT ![w].ready = what, ![w].early = early] = [shot EXCEPT ![w] = s]
    BY <1>2, ShotFields
  <2> QED
    BY <2>1, <2>2
<1>4. early => /\ shot[w].step = LastStep /\ what \in {"good", "unexpected"}
               /\ now < shot[w].until /\ now < shot[w].began + Timeout
    OBVIOUS
<1> HIDE DEF early
<1>5. s \in ShotStates
    BY <1>2 DEF ShotStates
<1>6. /\ s.step = shot[w].step /\ s.start = shot[w].start /\ s.began = shot[w].began
      /\ s.until = shot[w].until /\ s.sample = shot[w].sample /\ s.ready = what
      /\ s.early = early
    BY <1>2 DEF ShotStates
<1> HIDE DEF s
<1>7. shot[w].step # "idle"
    BY <1>1, StepNames DEF Awaits
<1>8. ShotSane(s)
    BY <1>1, <1>2, <1>4, <1>6, <1>7, UnbegunIsState DEF ShotSane, Responses
<1> QED
    BY <1>1, <1>3, <1>5, <1>8, ShotStep

LEMMA ShotEndsKeep ==
    ASSUME ProbesInv, NEW w \in Workers, protocol # "icmp",
           \/ PreparingFails(w) \/ AnswerEnds(w) \/ ErrorEnds(w) \/ TimerExpires(w)
           \/ CutShotShort(w),
           UNCHANGED <<protocol, opened, probe, wire, heard>>
    PROVE  ProbesInv'
<1>1. NoLatency \in Latencies
    BY DEF Latencies
<1>2. CASE PreparingFails(w)
    BY <1>1, <1>2, EndShotKeeps DEF PreparingFails, Responses
<1>3. CASE AnswerEnds(w)
  <2> DEFINE outcome == IF "unexpected" \in {shot[w].ready, shot[w].status}
                        THEN "unexpected" ELSE "success"
  <2>1. Awaits(w) /\ EndShot(w, outcome, Elapsed(w))
    BY <1>3 DEF AnswerEnds, Answered
  <2>2. outcome \in Responses /\ outcome # "timeout"
    BY DEF Responses
  <2> HIDE DEF outcome
  <2>3. Elapsed(w) \in 0..Timeout /\ Elapsed(w) # NoLatency /\ Elapsed(w) \in Latencies
    BY <2>1, ElapsedBounded
  <2> QED
    BY <2>1, <2>2, <2>3, EndShotKeeps
<1>4. ASSUME Awaits(w)
      PROVE  /\ LatencyOfError(w) \in Latencies
             /\ LatencyOfError(w) # NoLatency =>
                    LatencyOfError(w) \in 0..Timeout /\ protocol = "dns"
    BY <1>1, <1>4, ElapsedBounded DEF LatencyOfError
<1>5. CASE ErrorEnds(w)
  <2> DEFINE outcome == OutcomeOfError(shot[w].ready)
  <2>1. Awaits(w) /\ shot[w].ready \in Errors /\ EndShot(w, outcome, LatencyOfError(w))
    BY <1>5 DEF ErrorEnds
  <2>2. ~shot[w].early
    BY <2>1, ShotFacts, StepNames DEF ShotSane, Awaits, Errors
  <2>3. /\ outcome \in {"timeout", "lost", "unexpected"}
        /\ outcome = "unexpected" => shot[w].ready = "redirect"
    BY DEF OutcomeOfError
  <2>4. outcome = "unexpected" => protocol \in {"http", "body"}
    BY <2>3, ShotFacts DEF ShotSane
  <2> HIDE DEF outcome
  <2> QED
    BY <1>4, <2>1, <2>2, <2>3, <2>4, EndShotKeeps DEF Responses
<1>6. CASE TimerExpires(w)
  <2> DEFINE outcome == IF shot[w].step = "handshake" THEN "lost" ELSE "timeout"
  <2>1. Awaits(w) /\ now >= shot[w].until /\ EndShot(w, outcome, LatencyOfError(w))
    BY <1>6 DEF TimerExpires
  <2>2. ~shot[w].early
    BY <2>1, ShotFacts, StepNames DEF ShotSane, Awaits
  <2>3. outcome \in {"timeout", "lost"} /\ outcome \notin Responses
    BY DEF Responses
  <2> HIDE DEF outcome
  <2> QED
    BY <1>4, <2>1, <2>2, <2>3, EndShotKeeps
<1>7. CASE CutShotShort(w)
  <2>1. shot[w].step # "idle" /\ now >= shot[w].began + Timeout
        /\ EndShot(w, "timeout", NoLatency)
    BY <1>7 DEF CutShotShort
  <2>2. ~shot[w].early
    BY <2>1, ShotFacts DEF ShotSane
  <2> QED
    BY <1>1, <2>1, <2>2, EndShotKeeps DEF Responses
<1> QED
    BY <1>2, <1>3, <1>5, <1>6, <1>7

\* The clock waits for what is ready, an answer that is not yet taken included.
LEMMA ShotTicksKeeps ==
    ASSUME ProbesInv, ShotTicks, protocol # "icmp",
           UNCHANGED <<protocol, opened, probe, wire, heard>>
    PROVE  ProbesInv'
<1>1. now \in Nat /\ rounds \in Nat /\ now' = now + 1 /\ UNCHANGED <<shot, rounds>>
    BY DEF ShotTicks, ProbesInv, IcmpInv, IcmpType
<1>2. IcmpInv' /\ NoIcmp'
    BY <1>1, NoIcmpKeeps DEF ProbesInv
<1>3. ASSUME NEW w \in Workers PROVE ShotSane(shot[w])'
  <2>1. /\ ShotSane(shot[w]) /\ Timeout \in Nat /\ shot[w].began \in Nat
        /\ shot[w].start \in Nat
    BY ShotFacts
  <2>2. /\ shot[w].ready = "nothing"
        /\ shot[w].step # "idle" => now < shot[w].began + Timeout
    BY <1>1, <2>1 DEF ShotTicks, ShotReady
  <2>3. ~(shot[w].step # "idle" /\ shot[w].early)
    BY <2>1, <2>2 DEF ShotSane
  <2> QED
    BY <1>1, <2>1, <2>2, <2>3 DEF ShotSane, FirstStep, LastStep
<1> QED
    BY <1>1, <1>2, <1>3 DEF ProbesInv

LEMMA ProbesStep == ProbesInv /\ [ProbesNext]_probesVars => ProbesInv'
<1> SUFFICES ASSUME ProbesInv, [ProbesNext]_probesVars PROVE ProbesInv'
    OBVIOUS
<1>1. CASE protocol = "icmp" /\ Next /\ UNCHANGED <<protocol, shot>>
  <2>1. IcmpInv'
    BY <1>1, IcmpStep DEF ProbesInv
  <2>2. \A w \in Workers : ShotSane(shot[w])'
    BY <1>1, StepNames DEF ProbesInv, ShotSane, FirstStep, LastStep
  <2> QED
    BY <1>1, <2>1, <2>2 DEF ProbesInv
<1>2. CASE ShotNext
  <2>1. protocol # "icmp" /\ UNCHANGED <<protocol, opened, probe, wire, heard>>
    BY <1>2 DEF ShotNext
  <2>2. CASE ShotTicks
    BY <2>1, <2>2, ShotTicksKeeps
  <2>3. ASSUME NEW w \in Workers, Shooting(w) \/ ServiceAnswers(w) PROVE ProbesInv'
    BY <2>1, <2>3, BeginShotKeeps, PreparedKeeps, AwaitsMoreKeeps, ServiceAnswersKeeps,
       ShotEndsKeep
    DEF Shooting
  <2> QED
    BY <1>2, <2>2, <2>3 DEF ShotNext
<1>3. CASE UNCHANGED probesVars
  <2>1. UNCHANGED <<now, opened, rounds, probe, wire, heard, protocol, shot>>
    BY <1>3 DEF probesVars, vars
  <2> QED
    BY <2>1
    DEF ProbesInv, IcmpInv, IcmpType, RoundsApart, Sane, HeardEarly, MatchWaits, NoIcmp,
        ShotSane, FirstStep, LastStep
<1> QED
    BY <1>1, <1>2, <1>3 DEF ProbesNext

LEMMA ProbesInvInit == ProbesInit => ProbesInv
<1> SUFFICES ASSUME ProbesInit PROVE ProbesInv
    OBVIOUS
<1>1. IcmpInv
    BY IcmpInit DEF ProbesInit
<1>2. shot = [w \in Workers |-> Unbegun] /\ wire = {} /\ heard = {}
      /\ \A w \in Workers : probe[w] = Untouched
    BY DEF ProbesInit, Init
<1>3. NoIcmp
    BY <1>2, UntouchedIsState DEF NoIcmp
<1>4. ASSUME NEW w \in Workers PROVE ShotSane(shot[w])
    BY <1>2, UnbegunIsState, StepNames DEF ShotSane, Responses
<1> QED
    BY <1>1, <1>2, <1>3, <1>4, UnbegunIsState DEF ProbesInv

\* A sample is lost to a time-out only when what it waited for did not come before the
\* deadline (icmp.rs:200-330, tcp.rs, dns.rs, http.rs, worker.rs:95-150), for any timeout,
\* spacing, count of samples and number of workers, and whatever else their sockets hear.
THEOREM TimeoutsAreSilence == ProbesSpec => []LostMeansSilence
<1>1. ProbesInv => LostMeansSilence
    BY DEF ProbesInv, IcmpInv, Sane, HeardEarly, LostMeansSilence, TimeoutMeansSilence,
           Reports, ShotSane
<1> QED
    BY <1>1, ProbesInvInit, ProbesStep, PTL DEF ProbesSpec

\* A round of one sample that succeeds shows a latency, a response without one is a
\* redirect too many (http.rs:178), and no latency is longer than the time-out of the check
\* (tcp.rs, dns.rs, http.rs, writer.rs:239), for any time-out and whenever the timers of its
\* steps start.
THEOREM LatenciesAreOfAnswers == ProbesSpec => []LatencyOfAnswers
<1>1. ProbesInv => LatencyOfAnswers
  <2> SUFFICES ASSUME ProbesInv, NEW w \in Workers
               PROVE  LET stats == RoundStats(shot[w].sample) IN
                        /\ stats.class = "healthy" => stats.bearing
                        /\ stats.class = "unhealthy" /\ protocol \notin {"http", "body"}
                               => stats.bearing
                        /\ stats.shown # NoLatency => stats.shown \in 0..Timeout
                        /\ protocol # "dns" => (stats.bearing <=> stats.shown # NoLatency)
    BY DEF LatencyOfAnswers
  <2>1. ShotSane(shot[w])
    BY DEF ProbesInv
  <2>2. Classification(shot[w].sample.outcome) # "loss"
            <=> shot[w].sample.outcome \in Responses
    BY DEF Classification, Responses
  <2>3. /\ Classification(shot[w].sample.outcome) = "healthy"
                => shot[w].sample.outcome = "success"
        /\ Classification(shot[w].sample.outcome) = "unhealthy"
                => shot[w].sample.outcome = "unexpected"
    BY DEF Classification
  <2> QED
    BY <2>1, <2>2, <2>3 DEF ShotSane, RoundStats, Responses
<1> QED
    BY <1>1, ProbesInvInit, ProbesStep, PTL DEF ProbesSpec

-----------------------------------------------------------------------------
(***************************************************************************)
(* Whose replies they are.                                                 *)
(***************************************************************************)

\* An open socket has the identifier of no request but those of its own round.
IdentifiersApart ==
    \A w \in Workers, request \in wire :
        Open(w) /\ request.id = probe[w].id => request.round = probe[w].round

HeardOf(p, seq) ==
    \E early \in BOOLEAN : [round |-> p.round, seq |-> seq, early |-> early] \in heard

\* Of its own round a socket hears only what was sent before; and a reply in its inbox that
\* bears its identifier is to a sample that is over, or was heard by the one that waits.
Owns(p) ==
    /\ p.step \in OpenSteps =>
        /\ \A r \in wire : r.round = p.round =>
            r.seq <= p.seq /\ (p.step = "sending" => r.seq < p.seq)
        /\ \A i \in DOMAIN p.inbox : p.inbox[i].kind = "reply" /\ p.inbox[i].id = p.id =>
            p.inbox[i].seq < Len(p.results) \/ HeardOf(p, p.inbox[i].seq)
    /\ p.step \notin OpenSteps => p.inbox = <<>>
    /\ \A i \in DOMAIN p.results : p.results[i] = "success" => HeardOf(p, i - 1)

OwnInv == IcmpInv /\ \A w \in Workers : Owns(probe[w])

\* What one worker does to its round leaves the others theirs.
LEMMA OwnStep ==
    ASSUME OwnInv, NEW w \in Workers, IcmpInv', NEW p,
           probe' = [probe EXCEPT ![w] = p], Owns(p), UNCHANGED <<wire, heard>>
    PROVE  OwnInv'
<1>1. probe \in [Workers -> ProbeStates]
    BY DEF OwnInv, IcmpInv, IcmpType
<1>2. probe'[w] = p /\ \A v \in Workers \ {w} : probe'[v] = probe[v]
    BY <1>1
<1>3. \A v \in Workers : Owns(probe'[v])
    BY <1>2 DEF OwnInv
<1>4. \A v \in Workers : Owns(probe[v])'
    BY <1>3 DEF Owns, HeardOf
<1> QED
    BY <1>4 DEF OwnInv

LEMMA ReportedOwns ==
    ASSUME OwnInv, NEW w \in Workers, NEW how \in {"whole", "failed", "cut"},
           NEW results \in Seq(Outcomes),
           \A i \in DOMAIN results : results[i] = "success" => HeardOf(probe[w], i - 1)
    PROVE  Owns(Reported(w, how, results))
<1> DEFINE p == Reported(w, how, results)
<1>1. probe[w].round \in Nat
    BY DEF OwnInv, IcmpInv, IcmpType, ProbeStates
<1>2. p.step = "idle" /\ p.round = probe[w].round /\ p.results = results /\ p.inbox = <<>>
    BY <1>1 DEF Reported, Untouched
<1> HIDE DEF p
<1>3. Owns(p)
    BY <1>2 DEF Owns, OpenSteps, HeardOf
<1> QED
    BY <1>3 DEF p

LEMMA BeginRoundOwns == ASSUME OwnInv, NEW w \in Workers, BeginRound(w) PROVE OwnInv'
<1> DEFINE p == [Untouched EXCEPT !.step = "resolving", !.round = rounds + 1, !.began = now]
<1>1. IcmpInv'
    BY BeginRoundKeeps DEF OwnInv
<1>2. p.step = "resolving" /\ p.inbox = <<>> /\ p.results = <<>>
    BY DEF Untouched
<1>3. probe' = [probe EXCEPT ![w] = p] /\ UNCHANGED <<wire, heard>>
    BY DEF BeginRound
<1> HIDE DEF p
<1>4. Owns(p)
    BY <1>2 DEF Owns, OpenSteps
<1> QED
    BY <1>1, <1>3, <1>4, OwnStep

LEMMA EarlyEndOwns ==
    ASSUME OwnInv, NEW w \in Workers, CutShort(w) \/ LookUpFails(w) \/ BindFails(w)
    PROVE  OwnInv'
<1>1. IcmpInv'
    BY EarlyEndKeeps DEF OwnInv
<1>2. PICK how \in {"failed", "cut"}, outcome \in {"failed", "timeout"} :
        probe' = [probe EXCEPT ![w] = Reported(w, how, <<outcome>>)]
        /\ UNCHANGED <<wire, heard>>
    BY DEF CutShort, LookUpFails, BindFails, RoundFails
<1>3. <<outcome>> \in Seq(Outcomes) /\ \A i \in DOMAIN <<outcome>> : <<outcome>>[i] # "success"
    BY DEF Outcomes
<1>4. Owns(Reported(w, how, <<outcome>>))
    BY <1>3, ReportedOwns
<1> QED
    BY <1>1, <1>2, <1>4, OwnStep

LEMMA OpenSocketOwns == ASSUME OwnInv, NEW w \in Workers, OpenSocket(w) PROVE OwnInv'
<1> DEFINE id == IF method = "raw" THEN RawIdentifier(opened + 1) ELSE DgramIdentifier(opened + 1)
           p == [probe[w] EXCEPT !.step = "sending", !.id = id]
<1>1. IcmpInv' /\ probe \in [Workers -> ProbeStates] /\ probe[w] \in ProbeStates
    BY OpenSocketKeeps DEF OwnInv, IcmpInv, IcmpType
<1> HIDE DEF id
<1>2. probe' = [probe EXCEPT ![w] = p] /\ UNCHANGED <<wire, heard>>
  <2>1. probe' = [probe EXCEPT ![w].step = "sending", ![w].id = id] /\ UNCHANGED <<wire, heard>>
    BY DEF OpenSocket, id
  <2>2. [probe EXCEPT ![w].step = "sending", ![w].id = id] = [probe EXCEPT ![w] = p]
    BY <1>1, TwoFields
  <2> QED
    BY <2>1, <2>2
<1>3. /\ p.step = "sending" /\ p.round = probe[w].round /\ p.results = probe[w].results
      /\ p.inbox = probe[w].inbox
    BY <1>1 DEF ProbeStates
<1>4. probe[w].step = "resolving"
    BY DEF OpenSocket
<1> HIDE DEF p
<1>5. /\ probe[w].inbox = <<>> /\ probe[w].results = <<>>
      /\ \A r \in wire : r.round # probe[w].round
    BY <1>4 DEF OwnInv, IcmpInv, Sane, Owns, OpenSteps
<1>6. Owns(p)
    BY <1>3, <1>5 DEF Owns, OpenSteps
<1> QED
    BY <1>1, <1>2, <1>6, OwnStep

\* A sample ends; it ends as a success only when its reply was heard.
LEMMA EndSampleOwns ==
    ASSUME OwnInv, NEW w \in Workers, NEW outcome \in Outcomes, EndSample(w, outcome),
           probe[w].step \in {"sending", "waiting"}, IcmpInv',
           outcome = "success" => HeardOf(probe[w], probe[w].seq)
    PROVE  OwnInv'
<1> DEFINE results == Append(probe[w].results, outcome)
           p == [probe[w] EXCEPT !.step = "spacing", !.wake = now + Spacing, !.results = results]
<1>1. probe \in [Workers -> ProbeStates] /\ probe[w] \in ProbeStates
    BY DEF OwnInv, IcmpInv, IcmpType
<1>2. /\ probe[w].results \in Seq(Outcomes) /\ probe[w].seq \in Nat
      /\ Len(probe[w].results) = probe[w].seq
      /\ probe[w].inbox \in Seq(Packets)
    BY <1>1 DEF OwnInv, IcmpInv, Sane, ProbeStates
<1>3. /\ results \in Seq(Outcomes) /\ Len(results) = probe[w].seq + 1
      /\ \A i \in DOMAIN results :
            \/ i \in DOMAIN probe[w].results /\ results[i] = probe[w].results[i]
            \/ i - 1 = probe[w].seq /\ results[i] = outcome
    BY <1>2
<1> HIDE DEF results
<1>4. \A i \in DOMAIN results : results[i] = "success" => HeardOf(probe[w], i - 1)
    BY <1>3 DEF OwnInv, Owns
<1>5. UNCHANGED <<wire, heard>>
    BY DEF EndSample
<1>6. CASE LastSample(w)
  <2>1. probe' = [probe EXCEPT ![w] = Reported(w, "whole", results)]
    BY <1>6 DEF EndSample, results
  <2>2. Owns(Reported(w, "whole", results))
    BY <1>3, <1>4, ReportedOwns
  <2> QED
    BY <1>5, <2>1, <2>2, OwnStep
<1>7. CASE ~LastSample(w)
  <2>1. probe' = [probe EXCEPT ![w] = p]
    BY <1>1, <1>7 DEF EndSample, results
  <2>2. /\ p.step = "spacing" /\ p.round = probe[w].round /\ p.id = probe[w].id
        /\ p.seq = probe[w].seq /\ p.results = results /\ p.inbox = probe[w].inbox
    BY <1>1 DEF ProbeStates
  <2> HIDE DEF p
  <2>3. /\ \A r \in wire : r.round = probe[w].round => r.seq <= probe[w].seq
        /\ \A i \in DOMAIN probe[w].inbox :
              probe[w].inbox[i].kind = "reply" /\ probe[w].inbox[i].id = probe[w].id =>
                  \/ probe[w].inbox[i].seq < probe[w].seq
                  \/ HeardOf(probe[w], probe[w].inbox[i].seq)
    BY <1>2 DEF OwnInv, Owns, OpenSteps
  <2>4. ASSUME NEW i \in DOMAIN probe[w].inbox PROVE probe[w].inbox[i].seq \in Nat
    <3>1. probe[w].inbox[i] \in Packets
      BY <1>2
    <3> QED
      BY <3>1 DEF Packets
  <2>5. \A i \in DOMAIN p.inbox : p.inbox[i].kind = "reply" /\ p.inbox[i].id = p.id =>
            p.inbox[i].seq < Len(p.results) \/ HeardOf(p, p.inbox[i].seq)
    <3>1. \A seq : HeardOf(probe[w], seq) => HeardOf(p, seq)
      BY <2>2 DEF HeardOf
    <3>2. \A n \in Nat : n < probe[w].seq => n < Len(p.results)
      BY <1>2, <1>3, <2>2
    <3> QED
      BY <2>2, <2>3, <2>4, <3>1, <3>2
  <2>6. \A i \in DOMAIN p.results : p.results[i] = "success" => HeardOf(p, i - 1)
    BY <1>4, <2>2 DEF HeardOf
  <2>7. Owns(p)
    BY <2>2, <2>3, <2>5, <2>6 DEF Owns, OpenSteps
  <2> QED
    BY <1>5, <2>1, <2>7, OwnStep
<1> QED
    BY <1>6, <1>7

\* A round keeps what it has while nothing is sent for it and more is heard.
LEMMA StillOwns ==
    ASSUME NEW p, Owns(p), heard \subseteq heard', \A r \in wire' : r.round = p.round => r \in wire
    PROVE  Owns(p)'
<1>1. ASSUME NEW seq, HeardOf(p, seq) PROVE HeardOf(p, seq)'
    BY <1>1 DEF HeardOf
<1> QED
    BY <1>1 DEF Owns

LEMMA SendRequestOwns == ASSUME OwnInv, NEW w \in Workers, SendRequest(w) PROVE OwnInv'
<1>0. PICK p : p = [probe[w] EXCEPT !.step = "waiting", !.wake = now + Share]
    OBVIOUS
<1>1. /\ IcmpInv' /\ probe \in [Workers -> ProbeStates] /\ probe[w] \in ProbeStates
      /\ probe[w].seq \in Nat
    BY SendRequestKeeps DEF OwnInv, IcmpInv, IcmpType, ProbeStates
<1>2. probe' = [probe EXCEPT ![w] = p] /\ wire' = wire \cup {Request(w)} /\ heard' = heard
  <2>1. [probe EXCEPT ![w].step = "waiting", ![w].wake = now + Share] = [probe EXCEPT ![w] = p]
    BY <1>0, <1>1, TwoFields
  <2> QED
    BY <2>1 DEF SendRequest
<1>3. /\ p.step = "waiting" /\ p.round = probe[w].round /\ p.id = probe[w].id
      /\ p.seq = probe[w].seq /\ p.results = probe[w].results /\ p.inbox = probe[w].inbox
    BY <1>0, <1>1 DEF ProbeStates
<1>4. probe[w].step = "sending" /\ Owns(probe[w])
    BY DEF SendRequest, OwnInv
<1>5. probe[w].round # 0 /\ \A v \in Workers \ {w} : probe[v].round # probe[w].round
    BY <1>4 DEF OwnInv, IcmpInv, Sane, RoundsApart
<1>6. Request(w).round = probe[w].round /\ Request(w).seq = probe[w].seq
    BY DEF Request
<1>7. probe'[w] = p /\ \A v \in Workers \ {w} : probe'[v] = probe[v]
    BY <1>1, <1>2
<1>8. Owns(p)'
  <2>1. \A r \in wire' : r.round = p.round => r.seq <= p.seq
    BY <1>1, <1>2, <1>3, <1>4, <1>6 DEF Owns, OpenSteps
  <2>2. \A seq : HeardOf(probe[w], seq) => HeardOf(p, seq)'
    BY <1>2, <1>3 DEF HeardOf
  <2>3. \A i \in DOMAIN p.inbox : p.inbox[i].kind = "reply" /\ p.inbox[i].id = p.id =>
            p.inbox[i].seq < Len(p.results) \/ HeardOf(p, p.inbox[i].seq)'
    BY <1>3, <1>4, <2>2 DEF Owns, OpenSteps
  <2>4. \A i \in DOMAIN p.results : p.results[i] = "success" => HeardOf(p, i - 1)'
    BY <1>3, <1>4, <2>2 DEF Owns
  <2> QED
    BY <1>3, <2>1, <2>3, <2>4 DEF Owns, OpenSteps
<1>9. ASSUME NEW v \in Workers \ {w}, NEW q, q = probe[v] PROVE Owns(q)'
  <2>1. \A r \in wire' : r.round = q.round => r \in wire
    BY <1>2, <1>5, <1>6, <1>9
  <2>2. Owns(q)
    BY <1>9 DEF OwnInv
  <2> QED
    BY <1>2, <2>1, <2>2, StillOwns
<1>10. ASSUME NEW v \in Workers PROVE Owns(probe[v])'
  <2>1. PICK q : q = probe'[v]
    OBVIOUS
  <2>2. Owns(q)'
    BY <1>7, <1>8, <1>9, <2>1
  <2> QED
    BY <2>1, <2>2 DEF Owns, HeardOf
<1> QED
    BY <1>1, <1>10 DEF OwnInv

LEMMA ReceiveOtherOwns == ASSUME OwnInv, NEW w \in Workers, ReceiveOther(w) PROVE OwnInv'
<1> DEFINE p == [probe[w] EXCEPT !.inbox = Tail(probe[w].inbox)]
<1>1. IcmpInv' /\ probe \in [Workers -> ProbeStates] /\ probe[w] \in ProbeStates
    BY ReceiveOtherKeeps DEF OwnInv, IcmpInv, IcmpType
<1>2. /\ probe[w].step = "waiting" /\ probe[w].inbox # <<>>
      /\ probe' = [probe EXCEPT ![w] = p] /\ UNCHANGED <<wire, heard>>
    BY DEF ReceiveOther
<1>3. /\ p.step = "waiting" /\ p.round = probe[w].round /\ p.id = probe[w].id
      /\ p.seq = probe[w].seq /\ p.results = probe[w].results
      /\ p.inbox = Tail(probe[w].inbox)
    BY <1>1, <1>2 DEF ProbeStates
<1> HIDE DEF p
<1>4. \A i \in DOMAIN p.inbox :
        i + 1 \in DOMAIN probe[w].inbox /\ p.inbox[i] = probe[w].inbox[i + 1]
    BY <1>1, <1>2, <1>3 DEF ProbeStates
<1>5. Owns(p)
  <2>1. Owns(probe[w]) /\ p.step \in OpenSteps /\ probe[w].step \in OpenSteps
    BY <1>2, <1>3 DEF OwnInv, OpenSteps
  <2>2. \A i \in DOMAIN p.inbox : p.inbox[i].kind = "reply" /\ p.inbox[i].id = p.id =>
            p.inbox[i].seq < Len(p.results) \/ HeardOf(p, p.inbox[i].seq)
    BY <1>3, <1>4, <2>1 DEF Owns, HeardOf
  <2> QED
    BY <1>2, <1>3, <2>1, <2>2 DEF Owns, HeardOf
<1> QED
    BY <1>1, <1>2, <1>5, OwnStep

LEMMA SpacingEndsOwns == ASSUME OwnInv, NEW w \in Workers, SpacingEnds(w) PROVE OwnInv'
<1> DEFINE p == [probe[w] EXCEPT !.step = "sending", !.seq = probe[w].seq + 1]
<1>1. /\ IcmpInv' /\ probe \in [Workers -> ProbeStates] /\ probe[w] \in ProbeStates
      /\ probe[w].seq \in Nat /\ \A r \in wire : r.seq \in Nat
    BY SpacingEndsKeeps DEF OwnInv, IcmpInv, IcmpType, ProbeStates
<1>2. /\ probe[w].step = "spacing" /\ probe' = [probe EXCEPT ![w] = p]
      /\ UNCHANGED <<wire, heard>>
  <2>1. [probe EXCEPT ![w].step = "sending", ![w].seq = probe[w].seq + 1]
            = [probe EXCEPT ![w] = p]
    BY <1>1, TwoFields
  <2>2. [probe EXCEPT ![w].step = "sending", ![w].seq = @ + 1]
            = [probe EXCEPT ![w].step = "sending", ![w].seq = probe[w].seq + 1]
    BY <1>1 DEF ProbeStates
  <2> QED
    BY <2>1, <2>2 DEF SpacingEnds
<1>3. /\ p.step = "sending" /\ p.round = probe[w].round /\ p.id = probe[w].id
      /\ p.seq = probe[w].seq + 1 /\ p.results = probe[w].results
      /\ p.inbox = probe[w].inbox
    BY <1>1 DEF ProbeStates
<1> HIDE DEF p
<1>4. Owns(p)
  <2>1. Owns(probe[w]) /\ p.step \in OpenSteps /\ probe[w].step \in OpenSteps
    BY <1>2, <1>3 DEF OwnInv, OpenSteps
  <2>2. \A r \in wire : r.round = p.round => r.seq <= p.seq /\ r.seq < p.seq
    BY <1>1, <1>3, <2>1 DEF Owns
  <2> QED
    BY <1>3, <2>1, <2>2 DEF Owns, HeardOf
<1> QED
    BY <1>1, <1>2, <1>4, OwnStep

\* A reply that ends a sample was heard by it.
LEMMA WorkingOwns == ASSUME OwnInv, NEW w \in Workers, Working(w) PROVE OwnInv'
<1>0. IcmpInv'
    BY WorkingKeeps DEF OwnInv
<1>1. CASE SendFails(w) \/ ReceiveFails(w)
    BY <1>0, <1>1, EndSampleOwns DEF SendFails, ReceiveFails, Outcomes
<1>2. CASE ReceiveMatch(w)
  <2> DEFINE packet == Head(probe[w].inbox)
  <2>1. /\ probe[w].step = "waiting" /\ probe[w].inbox # <<>>
        /\ packet.id = probe[w].id /\ packet.seq = probe[w].seq
        /\ EndSample(w, OutcomeOf(packet))
    BY <1>2 DEF ReceiveMatch, Matches
  <2>2. /\ probe[w].inbox \in Seq(Packets) /\ probe[w].seq \in Nat
        /\ Len(probe[w].results) = probe[w].seq
    BY <2>1 DEF OwnInv, IcmpInv, IcmpType, ProbeStates, Sane
  <2>3. 1 \in DOMAIN probe[w].inbox /\ packet = probe[w].inbox[1]
    BY <2>1, <2>2
  <2> HIDE DEF packet
  <2>4. packet.kind = "reply" => HeardOf(probe[w], probe[w].seq)
    BY <2>1, <2>2, <2>3 DEF OwnInv, Owns, OpenSteps
  <2> QED
    BY <1>0, <2>1, <2>4, EndSampleOwns DEF OutcomeOf, Outcomes
<1>3. CASE SampleTimesOut(w)
    BY <1>0, <1>3, EndSampleOwns DEF SampleTimesOut, Outcomes
<1> QED
    BY <1>1, <1>2, <1>3, BeginRoundOwns, EarlyEndOwns, OpenSocketOwns, SendRequestOwns,
       ReceiveOtherOwns, SpacingEndsOwns
    DEF Working

\* The reply to a request of another round bears another identifier; one to a request of
\* the round is to a sample that is over, or is heard.
LEMMA NetworkOwns == ASSUME OwnInv, IdentifiersApart, NetworkAnswers PROVE OwnInv'
<1>1. IcmpInv' /\ probe \in [Workers -> ProbeStates]
    BY NetworkAnswersKeeps DEF OwnInv, IcmpInv, IcmpType
<1>2. PICK request \in wire, kind \in {"reply", "error"} :
        /\ probe' = [w \in Workers |->
               IF Hears(w, request.id)
               THEN [probe[w] EXCEPT !.inbox = Append(@,
                        [kind |-> kind, id |-> request.id, seq |-> request.seq])]
               ELSE probe[w]]
        /\ heard' = heard \union
               (IF kind = "reply" THEN UNION {HeardBy(w, request) : w \in Workers} ELSE {})
        /\ wire' = wire
    BY DEF NetworkAnswers
<1>3. heard \subseteq heard'
    BY <1>2
<1>4. ASSUME NEW w \in Workers, NEW p, p = probe[w], NEW q, q = probe'[w] PROVE Owns(q)'
  <2>1. Owns(p)' /\ p \in ProbeStates /\ Owns(p)
    BY <1>1, <1>2, <1>3, <1>4, StillOwns DEF OwnInv
  <2>2. CASE ~Hears(w, request.id)
    <3>1. q = p
      BY <1>2, <1>4, <2>2
    <3> QED
      BY <2>1, <3>1
  <2>3. CASE Hears(w, request.id)
    <3> DEFINE packet == [kind |-> kind, id |-> request.id, seq |-> request.seq]
    <3>1. /\ p.inbox \in Seq(Packets) /\ p.seq \in Nat /\ p.results \in Seq(Outcomes)
          /\ p.step \in OpenSteps /\ request.seq \in Nat /\ request.id \in Nat
      BY <1>4, <2>1, <2>3 DEF ProbeStates, Hears, Open, OpenSteps, OwnInv, IcmpInv, IcmpType
    <3>2. packet \in Packets
      BY <3>1 DEF Packets
    <3>3. q = [p EXCEPT !.inbox = Append(p.inbox, packet)]
      BY <1>2, <1>4, <2>3
    <3>4. packet.id = request.id /\ packet.seq = request.seq /\ packet.kind = kind
      OBVIOUS
    <3> HIDE DEF packet
    <3>5. /\ q.step = p.step /\ q.round = p.round /\ q.id = p.id /\ q.seq = p.seq
          /\ q.results = p.results /\ q.inbox = Append(p.inbox, packet)
      BY <2>1, <3>3 DEF ProbeStates
    <3>6. ASSUME NEW i \in DOMAIN q.inbox
          PROVE  (i \in DOMAIN p.inbox /\ q.inbox[i] = p.inbox[i]) \/ q.inbox[i] = packet
      BY <3>1, <3>2, <3>5
    <3>7. ASSUME kind = "reply", request.id = p.id
          PROVE  request.seq < Len(p.results) \/ HeardOf(p, request.seq)'
      <4>1. request.round = p.round
        BY <1>4, <2>3, <3>7 DEF IdentifiersApart, Hears
      <4>2. request.seq <= p.seq /\ (p.step = "sending" => request.seq < p.seq)
        BY <2>1, <3>1, <4>1 DEF Owns
      <4>3. /\ p.step \in {"sending", "waiting"} => Len(p.results) = p.seq
            /\ p.step = "spacing" => Len(p.results) = p.seq + 1
        BY <1>4 DEF OwnInv, IcmpInv, Sane
      <4>4. CASE p.step = "waiting" /\ request.seq = p.seq
        <5>1. HeardBy(w, request) \subseteq heard'
          BY <1>2, <3>7
        <5>2. [round |-> request.round, seq |-> request.seq, early |-> now < probe[w].wake]
                \in HeardBy(w, request)
          BY <1>4, <4>1, <4>4 DEF HeardBy
        <5>3. (now < probe[w].wake) \in BOOLEAN
          OBVIOUS
        <5> QED
          BY <4>1, <5>1, <5>2, <5>3 DEF HeardOf
      <4> QED
        BY <3>1, <4>2, <4>3, <4>4 DEF OpenSteps
    <3>8. \A i \in DOMAIN q.inbox : q.inbox[i].kind = "reply" /\ q.inbox[i].id = q.id =>
            q.inbox[i].seq < Len(q.results) \/ HeardOf(p, q.inbox[i].seq)'
      BY <2>1, <3>1, <3>4, <3>5, <3>6, <3>7 DEF Owns
    <3>9. \A seq : HeardOf(p, seq)' => HeardOf(q, seq)'
      BY <3>5 DEF HeardOf
    <3> QED
      BY <2>1, <3>1, <3>5, <3>8, <3>9 DEF Owns
  <2> QED
    BY <2>2, <2>3
<1>5. ASSUME NEW w \in Workers PROVE Owns(probe[w])'
  <2>1. PICK p, q : p = probe[w] /\ q = probe'[w]
    OBVIOUS
  <2>2. Owns(q)'
    BY <1>4, <2>1
  <2> QED
    BY <2>1, <2>2 DEF Owns, HeardOf
<1> QED
    BY <1>1, <1>5 DEF OwnInv

RepliesInv == ProbesInv /\ OwnInv

LEMMA RepliesStep ==
    RepliesInv /\ IdentifiersApart /\ [ProbesNext]_probesVars => RepliesInv'
<1> SUFFICES ASSUME RepliesInv, IdentifiersApart, [ProbesNext]_probesVars PROVE RepliesInv'
    OBVIOUS
<1>1. ProbesInv' /\ IcmpInv'
    BY ProbesStep DEF RepliesInv, ProbesInv
<1>2. CASE UNCHANGED <<probe, wire, heard>>
  <2>1. OwnInv'
    BY <1>1, <1>2 DEF RepliesInv, OwnInv, Owns, HeardOf
  <2> QED
    BY <1>1, <2>1 DEF RepliesInv
<1>3. CASE protocol = "icmp" /\ Next
  <2>1. CASE ClockTicks
    BY <1>2, <2>1 DEF ClockTicks
  <2>2. CASE NetworkAnswers
    BY <1>1, <2>2, NetworkOwns DEF RepliesInv
  <2>3. ASSUME NEW w \in Workers, Working(w) PROVE RepliesInv'
    BY <1>1, <2>3, WorkingOwns DEF RepliesInv
  <2> QED
    BY <1>3, <2>1, <2>2, <2>3 DEF Next
<1>4. CASE ShotNext
    BY <1>2, <1>4 DEF ShotNext
<1>5. CASE UNCHANGED probesVars
    BY <1>2, <1>5 DEF probesVars, vars
<1> QED
    BY <1>3, <1>4, <1>5 DEF ProbesNext

LEMMA RepliesInit == ProbesInit => RepliesInv
<1> SUFFICES ASSUME ProbesInit PROVE RepliesInv
    OBVIOUS
<1>1. ProbesInv /\ IcmpInv
    BY ProbesInvInit DEF ProbesInv
<1>2. ASSUME NEW w \in Workers PROVE Owns(probe[w])
  <2>1. probe[w] = Untouched
    BY DEF ProbesInit, Init
  <2> QED
    BY <2>1 DEF Owns, Untouched, OpenSteps
<1> QED
    BY <1>1, <1>2 DEF RepliesInv, OwnInv

\* Concurrent rounds do not steal replies (tests/icmp_integration.rs, icmp.rs:200-330), under
\* either kind of socket, for any number of workers and samples, late and double answers
\* included, as long as no two rounds share an identifier.
THEOREM RepliesNotStolen == ProbesSpec /\ []IdentifiersApart => []RepliesAreOwn
<1>1. RepliesInv => RepliesAreOwn
    BY DEF RepliesInv, OwnInv, Owns, HeardOf, RepliesAreOwn
<1> QED
    BY <1>1, RepliesInit, RepliesStep, PTL DEF ProbesSpec

\* The identifiers have not come round: there are fewer sockets than identifiers, and the
\* sum of next_raw_identifier has not wrapped.
FirstLap == opened < IdSpace /\ (method = "raw" => FirstId + opened < IdSpace)

Identifier(n) == IF method = "raw" THEN RawIdentifier(n) ELSE DgramIdentifier(n)

Used(id) == \E n \in 1..opened : id = Identifier(n)

IdentifiersInv ==
    /\ IdentifiersApart
    /\ \A w \in Workers : Open(w) => Used(probe[w].id)
    /\ \A request \in wire : Used(request.id)
    /\ \A v, w \in Workers : Open(v) /\ Open(w) /\ probe[v].id = probe[w].id => v = w

\* In the first lap no two sockets have one identifier.
LEMMA IdentifiersDiffer ==
    ASSUME NEW n \in Nat, n < IdSpace, method = "raw" => FirstId + n < IdSpace,
           NEW m \in 1..(n - 1)
    PROVE  Identifier(m) # Identifier(n)
<1>1. IdSpace \in Nat /\ IdSpace > 1 /\ FirstId \in Nat /\ FirstId < IdSpace
    BY SocketAssumption
<1>2. CASE method = "raw"
  <2>1. ASSUME NEW i \in 1..n PROVE RawIdentifier(i) = FirstId + i
    <3>1. FirstId + i \in 1..(IdSpace - 1)
      BY <1>1, <1>2
    <3>2. (FirstId + i) % IdSpace = FirstId + i
      BY <1>1, <3>1
    <3> QED
      BY <1>1, <3>1, <3>2 DEF RawIdentifier
  <2> QED
    BY <1>1, <1>2, <2>1 DEF Identifier
<1>3. CASE method # "raw"
  <2> DEFINE k == IdSpace - 1
  <2>1. k \in Nat /\ k > 0 /\ n <= k /\ FirstId <= k
    BY <1>1
  <2> HIDE DEF k
  <2>2. ASSUME NEW i \in 1..n
        PROVE  /\ (FirstId + i) % k \in
                      {FirstId + i, FirstId + i - k, FirstId + i - k - k}
               /\ (FirstId + i) % k \in 0..(k - 1)
    <3>1. FirstId + i \in Nat /\ FirstId + i <= k + k
      BY <1>1, <2>1
    <3>2. CASE FirstId + i < k
      BY <1>1, <2>1, <3>1, <3>2
    <3>3. CASE FirstId + i >= k /\ FirstId + i < k + k
      BY <1>1, <2>1, <3>1, <3>3
    <3>4. CASE FirstId + i = k + k
      BY <1>1, <2>1, <3>1, <3>4
    <3> QED
      BY <1>1, <2>1, <3>1, <3>2, <3>3, <3>4
  <2>3. (FirstId + m) % k # (FirstId + n) % k
    <3> DEFINE a == (FirstId + m) % k
               b == (FirstId + n) % k
    <3>1. /\ a \in {FirstId + m, FirstId + m - k, FirstId + m - k - k} /\ a \in 0..(k - 1)
          /\ b \in {FirstId + n, FirstId + n - k, FirstId + n - k - k} /\ b \in 0..(k - 1)
      BY <2>2
    <3> HIDE DEF a, b
    <3> QED
      BY <1>1, <2>1, <3>1 DEF a, b
  <2> QED
    BY <1>1, <1>3, <2>1, <2>3 DEF Identifier, DgramIdentifier, k
<1> QED
    BY <1>2, <1>3

\* Rounds that are open stay what they are, or close.
LEMMA NoSocketOpens ==
    ASSUME IdentifiersInv, UNCHANGED <<wire, method>>, opened \in Nat, opened' \in Nat,
           opened' >= opened,
           \A v \in Workers : Open(v)' =>
                /\ Open(v) /\ probe'[v].id = probe[v].id /\ probe'[v].round = probe[v].round
    PROVE  IdentifiersInv'
<1>1. \A id : Used(id) => Used(id)'
    BY DEF Used, Identifier
<1> QED
    BY <1>1 DEF IdentifiersInv, IdentifiersApart, Used, Identifier

LEMMA ClosesOwn ==
    ASSUME IdentifiersInv, IcmpInv, NEW w \in Workers, NEW p,
           probe' = [probe EXCEPT ![w] = p], UNCHANGED <<wire, method>>,
           opened' = opened \/ opened' = opened + 1,
           \/ p.step \notin OpenSteps
           \/ Open(w) /\ p.id = probe[w].id /\ p.round = probe[w].round
    PROVE  IdentifiersInv'
<1>1. probe \in [Workers -> ProbeStates] /\ opened \in Nat
    BY DEF IcmpInv, IcmpType
<1>2. probe'[w] = p /\ \A v \in Workers \ {w} : probe'[v] = probe[v]
    BY <1>1
<1>3. ASSUME NEW v \in Workers, Open(v)'
      PROVE  Open(v) /\ probe'[v].id = probe[v].id /\ probe'[v].round = probe[v].round
    BY <1>2, <1>3 DEF Open, OpenSteps
<1> QED
    BY <1>1, <1>3, NoSocketOpens

LEMMA OpenSocketApart ==
    ASSUME IdentifiersInv, IcmpInv, FirstLap', NEW w \in Workers, OpenSocket(w)
    PROVE  IdentifiersInv'
<1>0. PICK n : n = opened + 1
    OBVIOUS
<1>1. /\ probe \in [Workers -> ProbeStates] /\ probe[w] \in ProbeStates /\ opened \in Nat
      /\ n \in Nat
    BY <1>0 DEF IcmpInv, IcmpType
<1>2. /\ opened' = n /\ UNCHANGED <<wire, method>> /\ probe[w].step = "resolving"
      /\ probe' = [probe EXCEPT ![w].step = "sending", ![w].id = Identifier(n)]
    BY <1>0 DEF OpenSocket, Identifier
<1>3. n < IdSpace /\ (method = "raw" => FirstId + n < IdSpace)
    BY <1>2 DEF FirstLap
<1>4. probe'[w].id = Identifier(n) /\ probe'[w].round = probe[w].round
    BY <1>1, <1>2 DEF ProbeStates
<1>5. \A v \in Workers \ {w} : probe'[v] = probe[v]
    BY <1>1, <1>2
<1>6. ASSUME NEW id, Used(id) PROVE Used(id)' /\ id # Identifier(n)
  <2>1. PICK m \in 1..opened : id = Identifier(m)
    BY <1>6 DEF Used
  <2>2. m \in 1..(n - 1) /\ m \in 1..n
    BY <1>0, <1>1
  <2>3. id # Identifier(n)
    BY <1>1, <1>3, <2>1, <2>2, IdentifiersDiffer
  <2> QED
    BY <1>2, <2>1, <2>2, <2>3 DEF Used, Identifier
<1>7. n \in 1..opened' /\ method' = method
    BY <1>0, <1>1, <1>2
<1>8. ASSUME NEW v \in Workers, Open(v)' PROVE Used(probe[v].id)'
  <2>1. CASE v = w
    BY <1>4, <1>7, <2>1 DEF Used, Identifier, RawIdentifier, DgramIdentifier
  <2>2. CASE v # w
    BY <1>5, <1>6, <1>8, <2>2 DEF IdentifiersInv, Open, Used, Identifier
  <2> QED
    BY <2>1, <2>2
<1>9. ASSUME NEW r \in wire PROVE Used(r.id)' /\ r.id # Identifier(n)
    BY <1>6 DEF IdentifiersInv
<1>10. ASSUME NEW v \in Workers \ {w}, Open(v)'
       PROVE  Open(v) /\ probe'[v] = probe[v] /\ probe[v].id # Identifier(n)
    BY <1>5, <1>6, <1>10 DEF IdentifiersInv, Open
<1>11. IdentifiersApart'
  <2>1. ASSUME NEW v \in Workers, NEW r \in wire', Open(v)', r.id = probe'[v].id
        PROVE  r.round = probe'[v].round
    <3>1. r \in wire /\ r.id # Identifier(n)
      BY <1>2, <1>9
    <3>2. v # w
      BY <1>4, <2>1, <3>1
    <3> QED
      BY <1>10, <2>1, <3>1, <3>2 DEF IdentifiersInv, IdentifiersApart
  <2> QED
    BY <2>1 DEF IdentifiersApart
<1>12. \A u, v \in Workers :
         Open(u)' /\ Open(v)' /\ probe'[u].id = probe'[v].id => u = v
    BY <1>4, <1>10 DEF IdentifiersInv
<1> QED
    BY <1>2, <1>8, <1>9, <1>11, <1>12 DEF IdentifiersInv

LEMMA SendRequestApart ==
    ASSUME IdentifiersInv, IcmpInv, NEW w \in Workers, SendRequest(w)
    PROVE  IdentifiersInv'
<1>1. probe \in [Workers -> ProbeStates] /\ probe[w] \in ProbeStates
    BY DEF IcmpInv, IcmpType
<1>2. /\ UNCHANGED <<opened, method>> /\ wire' = wire \cup {Request(w)} /\ Open(w)
    BY DEF SendRequest, Open
<1>3. ASSUME NEW v \in Workers
      PROVE  /\ Open(v)' => Open(v)
             /\ probe'[v].id = probe[v].id /\ probe'[v].round = probe[v].round
    BY <1>1, <1>2 DEF SendRequest, Open, ProbeStates
<1>4. Request(w).id = probe[w].id /\ Request(w).round = probe[w].round
    BY DEF Request
<1>5. \A id : Used(id) => Used(id)'
    BY <1>2 DEF Used, Identifier
<1>6. IdentifiersApart'
    BY <1>2, <1>3, <1>4 DEF IdentifiersInv, IdentifiersApart
<1>7. (\A v \in Workers : Open(v) => Used(probe[v].id))'
  <2> SUFFICES ASSUME NEW v \in Workers, Open(v)' PROVE Used(probe[v].id)'
    OBVIOUS
  <2>1. PICK id : id = probe[v].id
    OBVIOUS
  <2>2. Used(id)' /\ probe'[v].id = id
    BY <1>3, <1>5, <2>1 DEF IdentifiersInv
  <2> QED
    BY <2>2 DEF Used, Identifier
<1>8. \A r \in wire' : Used(r.id)'
    BY <1>2, <1>4, <1>5 DEF IdentifiersInv
<1>9. \A u, v \in Workers :
        Open(u)' /\ Open(v)' /\ probe'[u].id = probe'[v].id => u = v
    BY <1>3 DEF IdentifiersInv
<1> QED
    BY <1>6, <1>7, <1>8, <1>9 DEF IdentifiersInv

LEMMA WorkingApart ==
    ASSUME IdentifiersInv, IcmpInv, FirstLap', NEW w \in Workers, Working(w)
    PROVE  IdentifiersInv'
<1>1. /\ probe \in [Workers -> ProbeStates] /\ probe[w] \in ProbeStates
      /\ method' = method
    BY DEF IcmpInv, IcmpType, Working, BeginRound, CutShort, LookUpFails, BindFails, RoundFails,
           OpenSocket, SendRequest, SendFails, ReceiveMatch, ReceiveOther, ReceiveFails,
           SampleTimesOut, SpacingEnds, EndSample
<1>2. \A how, results : Reported(w, how, results).step \notin OpenSteps
    BY DEF Reported, Untouched, OpenSteps
<1>3. CASE BeginRound(w)
  <2>1. PICK p : p = [Untouched EXCEPT !.step = "resolving", !.round = rounds + 1, !.began = now]
    OBVIOUS
  <2>2. p.step \notin OpenSteps
    BY <2>1 DEF Untouched, OpenSteps
  <2> QED
    BY <1>1, <1>3, <2>1, <2>2, ClosesOwn DEF BeginRound
<1>4. CASE CutShort(w) \/ LookUpFails(w) \/ BindFails(w)
    BY <1>1, <1>2, <1>4, ClosesOwn DEF CutShort, LookUpFails, BindFails, RoundFails
<1>5. ASSUME NEW outcome, EndSample(w, outcome), probe[w].step \in {"sending", "waiting"}
      PROVE  IdentifiersInv'
  <2>1. PICK results : results = Append(probe[w].results, outcome)
    OBVIOUS
  <2>2. CASE LastSample(w)
    BY <1>1, <1>2, <1>5, <2>1, <2>2, ClosesOwn DEF EndSample
  <2>3. CASE ~LastSample(w)
    <3>1. PICK p : p = [probe[w] EXCEPT !.step = "spacing", !.wake = now + Spacing,
                                        !.results = results]
      OBVIOUS
    <3>2. p.id = probe[w].id /\ p.round = probe[w].round
      BY <1>1, <3>1 DEF ProbeStates
    <3>3. probe' = [probe EXCEPT ![w] = p]
      BY <1>1, <1>5, <2>1, <2>3, <3>1 DEF EndSample
    <3> QED
      BY <1>1, <1>5, <3>2, <3>3, ClosesOwn DEF EndSample, Open
  <2> QED
    BY <2>2, <2>3
<1>6. CASE SendFails(w) \/ ReceiveMatch(w) \/ ReceiveFails(w) \/ SampleTimesOut(w)
    BY <1>5, <1>6 DEF SendFails, ReceiveMatch, ReceiveFails, SampleTimesOut
<1>7. CASE ReceiveOther(w)
  <2>1. PICK p : p = [probe[w] EXCEPT !.inbox = Tail(@)]
    OBVIOUS
  <2>2. p.id = probe[w].id /\ p.round = probe[w].round
    BY <1>1, <2>1 DEF ProbeStates
  <2>3. probe' = [probe EXCEPT ![w] = p] /\ Open(w) /\ UNCHANGED <<wire, opened>>
    BY <1>1, <1>7, <2>1 DEF ReceiveOther, Open
  <2> QED
    BY <1>1, <2>2, <2>3, ClosesOwn
<1>8. CASE SpacingEnds(w)
  <2>1. \A v \in Workers : Open(v)' =>
            Open(v) /\ probe'[v].id = probe[v].id /\ probe'[v].round = probe[v].round
    BY <1>1, <1>8 DEF SpacingEnds, Open, ProbeStates
  <2>2. UNCHANGED <<wire, opened>> /\ opened \in Nat
    BY <1>8 DEF SpacingEnds, IcmpInv, IcmpType
  <2> QED
    BY <1>1, <2>1, <2>2, NoSocketOpens
<1> QED
    BY <1>3, <1>4, <1>6, <1>7, <1>8, OpenSocketApart, SendRequestApart DEF Working

LEMMA IdentifiersStep ==
    ProbesInv /\ IdentifiersInv /\ FirstLap' /\ [ProbesNext]_probesVars => IdentifiersInv'
<1> SUFFICES ASSUME ProbesInv, IdentifiersInv, FirstLap', [ProbesNext]_probesVars
             PROVE  IdentifiersInv'
    OBVIOUS
<1>1. probe \in [Workers -> ProbeStates] /\ opened \in Nat /\ IcmpInv
    BY DEF ProbesInv, IcmpInv, IcmpType
<1>2. CASE UNCHANGED <<probe, wire, method, opened>>
    BY <1>2 DEF IdentifiersInv, IdentifiersApart, Used, Identifier, Open
<1>3. CASE protocol = "icmp" /\ Next
  <2>1. CASE ClockTicks
    BY <1>2, <2>1 DEF ClockTicks
  <2>2. CASE NetworkAnswers
    <3>1. PICK request \in wire, kind \in {"reply", "error"} :
            /\ probe' = [w \in Workers |->
                   IF Hears(w, request.id)
                   THEN [probe[w] EXCEPT !.inbox = Append(@,
                            [kind |-> kind, id |-> request.id, seq |-> request.seq])]
                   ELSE probe[w]]
            /\ UNCHANGED <<method, opened, wire>>
      BY <2>2 DEF NetworkAnswers
    <3>2. ASSUME NEW v \in Workers, Open(v)'
          PROVE  Open(v) /\ probe'[v].id = probe[v].id /\ probe'[v].round = probe[v].round
      BY <1>1, <3>1, <3>2 DEF Open, ProbeStates
    <3> QED
      BY <1>1, <3>1, <3>2, NoSocketOpens
  <2>3. ASSUME NEW w \in Workers, Working(w) PROVE IdentifiersInv'
    BY <1>1, <2>3, WorkingApart
  <2> QED
    BY <1>3, <2>1, <2>2, <2>3 DEF Next
<1>4. CASE ShotNext
    BY <1>2, <1>4 DEF ShotNext
<1>5. CASE UNCHANGED probesVars
    BY <1>2, <1>5 DEF probesVars, vars
<1> QED
    BY <1>3, <1>4, <1>5 DEF ProbesNext

\* The counter of next_raw_identifier and the port rover of the kernel keep identifiers
\* apart, and so replies their own, until they come round (icmp.rs:290-296).
THEOREM RepliesOwnInFirstLap == ProbesSpec /\ []FirstLap => []RepliesAreOwn
<1>1. ProbesInit => IdentifiersInv
    BY DEF ProbesInit, Init, IdentifiersInv, IdentifiersApart, Open, Untouched
<1>2. IdentifiersInv => IdentifiersApart
    BY DEF IdentifiersInv
<1>3. ProbesSpec /\ []FirstLap => []IdentifiersApart
    BY <1>1, <1>2, ProbesInvInit, ProbesStep, IdentifiersStep, PTL DEF ProbesSpec
<1> QED
    BY <1>3, RepliesNotStolen, PTL

-----------------------------------------------------------------------------
(***************************************************************************)
(* Rounds that end before the timeout of their check.                      *)
(***************************************************************************)

\* The host is looked up and the socket opened within the one bound, and no
\* sample waits for longer than the other.
Prompt(look, reply) ==
    \A w \in Workers :
        /\ probe[w].step = "resolving" => now <= probe[w].began + look
        /\ probe[w].step = "waiting" => now + Share <= probe[w].wake + reply

\* When the sample with this number is due at the latest, from the beginning of
\* its round.
Pace(look, reply, n) == look + n * (reply + Spacing)

\* So many samples, and the spacing between them, fit into the timeout.
Fits(look, reply) == Pace(look, reply, Samples - 1) + reply < Timeout

Paced(p, look, reply) ==
    /\ p.step # "idle" => p.seq < Samples
    /\ p.step = "sending" => now <= p.began + Pace(look, reply, p.seq)
    /\ p.step = "waiting" => p.wake <= p.began + Pace(look, reply, p.seq) + Share
    /\ p.step = "spacing" =>
        /\ p.seq + 1 < Samples
        /\ now <= p.wake /\ p.wake <= p.began + Pace(look, reply, p.seq + 1)

NeverCut == \A w \in Workers : probe[w].report # "cut"

TimeInv(look, reply) ==
    /\ Fits(look, reply)
    /\ ProbesInv
    /\ NeverCut
    /\ \A w \in Workers : Paced(probe[w], look, reply)

LEMMA PaceFacts ==
    ASSUME NEW look \in Nat, NEW reply \in Nat, NEW n \in Nat
    PROVE  /\ Pace(look, reply, 0) = look
           /\ Pace(look, reply, n) \in Nat
           /\ Pace(look, reply, n + 1) = Pace(look, reply, n) + reply + Spacing
           /\ Fits(look, reply) /\ n < Samples => Pace(look, reply, n) + reply < Timeout
<1> DEFINE turn == reply + Spacing
<1>1. turn \in Nat /\ Samples \in Nat /\ Samples # 0 /\ Timeout \in Nat /\ Spacing \in Nat
    BY CheckAssumption
<1> HIDE DEF turn
<1>2. 0 * turn = 0 /\ n * turn \in Nat /\ (n + 1) * turn = n * turn + turn
    BY <1>1
<1>3. ASSUME n < Samples PROVE n * turn <= (Samples - 1) * turn
  <2>1. PICK k \in Nat : Samples - 1 = n + k
    <3>1. Samples - 1 - n \in Nat /\ Samples - 1 = n + (Samples - 1 - n)
      BY <1>1, <1>3
    <3> QED
      BY <3>1
  <2>2. (n + k) * turn = n * turn + k * turn /\ k * turn \in Nat
    BY <1>1
  <2> QED
    BY <1>2, <2>1, <2>2
<1>4. \A m : Pace(look, reply, m) = look + m * turn
    BY DEF Pace, turn
<1>5. turn = reply + Spacing
    BY DEF turn
<1>6. (Samples - 1) * turn \in Nat
    BY <1>1
<1>7. Pace(look, reply, n + 1) = Pace(look, reply, n) + reply + Spacing
    BY <1>1, <1>2, <1>4, <1>5
<1>8. ASSUME Fits(look, reply), n < Samples PROVE Pace(look, reply, n) + reply < Timeout
  <2>1. look + (Samples - 1) * turn + reply < Timeout
    BY <1>4, <1>8 DEF Fits
  <2> QED
    BY <1>1, <1>2, <1>3, <1>4, <1>6, <1>8, <2>1
<1> QED
    BY <1>1, <1>2, <1>4, <1>7, <1>8

\* How a step of a worker moves its round.
EndsRound(w) ==
    /\ probe'[w].step = "idle"
    /\ \/ probe[w].step = "resolving" /\ probe'[w].report = "failed"
       \/ /\ probe[w].step \in {"sending", "waiting"} /\ probe'[w].report = "whole"
          /\ \E outcome \in Outcomes : probe'[w].results = Append(probe[w].results, outcome)

BeginsRound(w) ==
    /\ probe[w].step = "idle" /\ probe'[w].step = "resolving"
    /\ probe'[w].seq = 0 /\ probe'[w].report = "none"

GoesOn(w) ==
    /\ probe'[w].began = probe[w].began /\ probe'[w].report = probe[w].report
    /\ \/ /\ probe[w].step = "resolving" /\ probe'[w].step = "sending"
          /\ probe'[w].seq = probe[w].seq
       \/ /\ probe[w].step = "sending" /\ probe'[w].step = "waiting"
          /\ probe'[w].seq = probe[w].seq /\ probe'[w].wake = now + Share
       \/ /\ probe[w].step = "waiting" /\ probe'[w].step = "waiting"
          /\ probe'[w].seq = probe[w].seq /\ probe'[w].wake = probe[w].wake
       \/ /\ probe[w].step \in {"sending", "waiting"} /\ probe'[w].step = "spacing"
          /\ ~LastSample(w)
          /\ probe'[w].seq = probe[w].seq /\ probe'[w].wake = now + Spacing
       \/ /\ probe[w].step = "spacing" /\ probe'[w].step = "sending"
          /\ now >= probe[w].wake
          /\ probe'[w].seq = probe[w].seq + 1

LEMMA WorkerMoves ==
    ASSUME IcmpInv, NEW w \in Workers, Working(w)
    PROVE  /\ now' = now
           /\ \A v \in Workers \ {w} : probe'[v] = probe[v]
           /\ CutShort(w) \/ EndsRound(w) \/ BeginsRound(w) \/ GoesOn(w)
<1>1. probe \in [Workers -> ProbeStates] /\ probe[w] \in ProbeStates
    BY DEF IcmpInv, IcmpType
<1>2. now' = now /\ \A v \in Workers \ {w} : probe'[v] = probe[v]
  <2>1. CASE OpenSocket(w)
    BY <1>1, <2>1 DEF OpenSocket
  <2>2. CASE SendRequest(w)
    BY <1>1, <2>2 DEF SendRequest
  <2>3. CASE SpacingEnds(w)
    BY <1>1, <2>3 DEF SpacingEnds
  <2>4. CASE BeginRound(w) \/ CutShort(w) \/ LookUpFails(w) \/ BindFails(w)
    BY <1>1, <2>4 DEF BeginRound, CutShort, LookUpFails, BindFails, RoundFails
  <2>5. ASSUME NEW outcome, EndSample(w, outcome)
        PROVE  now' = now /\ \A v \in Workers \ {w} : probe'[v] = probe[v]
    BY <1>1, <2>5 DEF EndSample
  <2>6. CASE ReceiveOther(w)
    BY <1>1, <2>6 DEF ReceiveOther
  <2> QED
    BY <2>1, <2>2, <2>3, <2>4, <2>5, <2>6
    DEF Working, SendFails, ReceiveMatch, ReceiveFails, SampleTimesOut
<1>3. \A how, results :
        /\ Reported(w, how, results).step = "idle"
        /\ Reported(w, how, results).report = how
        /\ Reported(w, how, results).results = results
    BY DEF Reported, Untouched
<1>4. CASE BeginRound(w)
  <2>1. probe'[w] = [Untouched EXCEPT !.step = "resolving", !.round = rounds + 1, !.began = now]
    BY <1>1, <1>4 DEF BeginRound
  <2>2. probe'[w].step = "resolving" /\ probe'[w].seq = 0 /\ probe'[w].report = "none"
    BY <2>1, UntouchedIsState DEF ProbeStates
  <2>3. probe[w].step = "idle"
    BY <1>4 DEF BeginRound
  <2>4. BeginsRound(w)
    BY <2>2, <2>3 DEF BeginsRound
  <2> QED
    BY <1>2, <2>4
<1>5. CASE LookUpFails(w) \/ BindFails(w)
  <2>1. /\ probe[w].step = "resolving"
        /\ probe'[w] = Reported(w, "failed", <<"failed">>)
    BY <1>1, <1>5 DEF LookUpFails, BindFails, RoundFails
  <2>2. EndsRound(w)
    BY <1>3, <2>1 DEF EndsRound
  <2> QED
    BY <1>2, <2>2
<1>6. ASSUME NEW outcome \in Outcomes, EndSample(w, outcome),
             probe[w].step \in {"sending", "waiting"}
      PROVE  EndsRound(w) \/ GoesOn(w)
  <2>1. PICK results : results = Append(probe[w].results, outcome)
    OBVIOUS
  <2>2. CASE LastSample(w)
    <3>1. probe'[w] = Reported(w, "whole", results)
      BY <1>1, <1>6, <2>1, <2>2 DEF EndSample
    <3>2. /\ Reported(w, "whole", results).step = "idle"
          /\ Reported(w, "whole", results).report = "whole"
          /\ Reported(w, "whole", results).results = results
      BY <1>3
    <3> QED
      BY <1>6, <2>1, <3>1, <3>2 DEF EndsRound
  <2>3. CASE ~LastSample(w)
    <3>1. probe'[w] = [probe[w] EXCEPT !.step = "spacing", !.wake = now + Spacing,
                                       !.results = results]
      BY <1>1, <1>6, <2>1, <2>3 DEF EndSample
    <3>2. /\ probe'[w].step = "spacing" /\ probe'[w].wake = now + Spacing
          /\ probe'[w].began = probe[w].began /\ probe'[w].seq = probe[w].seq
          /\ probe'[w].report = probe[w].report
      BY <1>1, <3>1 DEF ProbeStates
    <3> QED
      BY <1>6, <2>3, <3>2 DEF GoesOn
  <2> QED
    BY <2>2, <2>3
<1>7. CASE SendFails(w) \/ ReceiveMatch(w) \/ ReceiveFails(w) \/ SampleTimesOut(w)
    BY <1>2, <1>6, <1>7
    DEF SendFails, ReceiveMatch, ReceiveFails, SampleTimesOut, OutcomeOf, Outcomes
<1>8. CASE OpenSocket(w)
  <2>1. /\ probe[w].step = "resolving" /\ probe'[w].step = "sending"
        /\ probe'[w].seq = probe[w].seq /\ probe'[w].began = probe[w].began
        /\ probe'[w].report = probe[w].report
    BY <1>1, <1>8 DEF OpenSocket, ProbeStates
  <2> QED
    BY <1>2, <2>1 DEF GoesOn
<1>9. CASE SendRequest(w)
  <2>1. /\ probe[w].step = "sending" /\ probe'[w].step = "waiting"
        /\ probe'[w].seq = probe[w].seq /\ probe'[w].began = probe[w].began
        /\ probe'[w].report = probe[w].report /\ probe'[w].wake = now + Share
    BY <1>1, <1>9 DEF SendRequest, ProbeStates
  <2> QED
    BY <1>2, <2>1 DEF GoesOn
<1>10. CASE ReceiveOther(w)
  <2>1. /\ probe[w].step = "waiting" /\ probe'[w].step = "waiting"
        /\ probe'[w].seq = probe[w].seq /\ probe'[w].began = probe[w].began
        /\ probe'[w].report = probe[w].report /\ probe'[w].wake = probe[w].wake
    BY <1>1, <1>10 DEF ReceiveOther, ProbeStates
  <2> QED
    BY <1>2, <2>1 DEF GoesOn
<1>11. CASE SpacingEnds(w)
  <2>1. /\ probe[w].step = "spacing" /\ probe'[w].step = "sending" /\ now >= probe[w].wake
        /\ probe'[w].seq = probe[w].seq + 1 /\ probe'[w].began = probe[w].began
        /\ probe'[w].report = probe[w].report
    BY <1>1, <1>11 DEF SpacingEnds, ProbeStates
  <2> QED
    BY <1>2, <2>1 DEF GoesOn
<1> QED
    BY <1>2, <1>4, <1>5, <1>7, <1>8, <1>9, <1>10, <1>11 DEF Working

\* Under these bounds the timeout of the check does not expire.
LEMMA InTime ==
    ASSUME NEW look \in Nat, NEW reply \in Nat, TimeInv(look, reply), Prompt(look, reply),
           NEW w \in Workers
    PROVE  ~CutShort(w)
<1>1. /\ now \in Nat /\ probe[w] \in ProbeStates /\ probe[w].seq \in Nat
      /\ probe[w].began \in Nat /\ probe[w].wake \in Nat /\ Share \in Nat
      /\ Timeout \in Nat /\ Samples \in Nat \ {0} /\ Spacing \in Nat
    BY CheckAssumption, ShareIsNat DEF TimeInv, ProbesInv, IcmpInv, IcmpType, ProbeStates
<1>2. Paced(probe[w], look, reply) /\ Fits(look, reply)
    BY DEF TimeInv
<1>3. PICK due : due = Pace(look, reply, probe[w].seq)
    OBVIOUS
<1>4. PICK next : next = Pace(look, reply, probe[w].seq + 1)
    OBVIOUS
<1>5. PICK n : n = probe[w].seq + 1
    OBVIOUS
<1>6. due \in Nat /\ (probe[w].seq < Samples => due + reply < Timeout)
    BY <1>1, <1>2, <1>3, PaceFacts
<1>7. next \in Nat /\ (n < Samples => next + reply < Timeout) /\ n \in Nat
  <2>1. n \in Nat
    BY <1>1, <1>5
  <2> QED
    BY <2>1, <1>2, <1>4, <1>5, PaceFacts
<1>8. look + reply < Timeout
  <2>1. 0 \in Nat /\ 0 < Samples
    BY <1>1
  <2>2. Pace(look, reply, 0) = look /\ Pace(look, reply, 0) + reply < Timeout
    BY <1>2, <2>1, PaceFacts
  <2> QED
    BY <2>2
<1>9. CASE probe[w].step = "resolving"
  <2>1. now <= probe[w].began + look
    BY <1>9 DEF Prompt
  <2> QED
    BY <1>1, <1>8, <2>1 DEF CutShort
<1>10. CASE probe[w].step = "sending"
  <2>1. now <= probe[w].began + due /\ probe[w].seq < Samples
    BY <1>2, <1>3, <1>10 DEF Paced
  <2> QED
    BY <1>1, <1>6, <2>1 DEF CutShort
<1>11. CASE probe[w].step = "waiting"
  <2>1. probe[w].wake <= probe[w].began + due + Share /\ probe[w].seq < Samples
    BY <1>2, <1>3, <1>11 DEF Paced
  <2>2. now + Share <= probe[w].wake + reply
    BY <1>11 DEF Prompt
  <2> QED
    BY <1>1, <1>6, <2>1, <2>2 DEF CutShort
<1>12. CASE probe[w].step = "spacing"
  <2>1. /\ probe[w].seq + 1 < Samples
        /\ now <= probe[w].wake /\ probe[w].wake <= probe[w].began + next
    BY <1>2, <1>4, <1>12 DEF Paced
  <2> QED
    BY <1>1, <1>5, <1>7, <2>1 DEF CutShort
<1>13. CASE probe[w].step = "idle"
    BY <1>13 DEF CutShort
<1> QED
    BY <1>1, <1>9, <1>10, <1>11, <1>12, <1>13 DEF ProbeStates, OpenSteps

LEMMA WorkingPaced ==
    ASSUME NEW look \in Nat, NEW reply \in Nat, TimeInv(look, reply), Prompt(look, reply),
           NEW w \in Workers, Working(w)
    PROVE  Paced(probe[w], look, reply)' /\ probe'[w].report # "cut"
<1>1. /\ now \in Nat /\ probe[w] \in ProbeStates /\ probe[w].seq \in Nat
      /\ probe[w].began \in Nat /\ probe[w].wake \in Nat /\ Share \in Nat
      /\ Timeout \in Nat /\ Samples \in Nat /\ Samples # 0 /\ Spacing \in Nat
      /\ IcmpInv
    BY CheckAssumption, ShareIsNat DEF TimeInv, ProbesInv, IcmpInv, IcmpType, ProbeStates
<1>2. Paced(probe[w], look, reply) /\ probe[w].report # "cut" /\ Sane(probe[w])
    BY <1>1 DEF TimeInv, NeverCut, IcmpInv
<1>3. now' = now /\ (EndsRound(w) \/ BeginsRound(w) \/ GoesOn(w))
    BY <1>1, WorkerMoves, InTime
<1>4. PICK q : q = probe'[w]
    OBVIOUS
<1>5. PICK due : due = Pace(look, reply, probe[w].seq)
    OBVIOUS
<1>6. PICK n : n = probe[w].seq + 1
    OBVIOUS
<1>7. PICK next : next = Pace(look, reply, n)
    OBVIOUS
<1>8. n \in Nat /\ due \in Nat /\ next \in Nat /\ next = due + reply + Spacing
  <2>1. n \in Nat
    BY <1>1, <1>6
  <2>2. due \in Nat /\ next \in Nat
    BY <1>1, <1>5, <1>7, <2>1, PaceFacts
  <2>3. Pace(look, reply, probe[w].seq + 1) = due + reply + Spacing
    <3>1. \A m \in Nat : Pace(look, reply, m + 1) = Pace(look, reply, m) + reply + Spacing
      BY PaceFacts
    <3> QED
      BY <1>1, <1>5, <3>1
  <2> QED
    BY <1>6, <1>7, <2>1, <2>2, <2>3
<1>9. SUFFICES
        /\ q.step # "idle" => q.seq < Samples
        /\ q.step = "sending" => now <= q.began + Pace(look, reply, q.seq)
        /\ q.step = "waiting" => q.wake <= q.began + Pace(look, reply, q.seq) + Share
        /\ q.step = "spacing" =>
            /\ q.seq + 1 < Samples
            /\ now <= q.wake /\ q.wake <= q.began + Pace(look, reply, q.seq + 1)
        /\ q.report # "cut"
    BY <1>3, <1>4 DEF Paced, Pace
<1>10. CASE EndsRound(w) \/ BeginsRound(w)
    BY <1>1, <1>4, <1>10 DEF EndsRound, BeginsRound
<1>11. CASE GoesOn(w)
  <2>1. q.began = probe[w].began /\ q.report = probe[w].report
    BY <1>4, <1>11 DEF GoesOn
  <2>2. CASE /\ probe[w].step = "resolving" /\ q.step = "sending" /\ q.seq = probe[w].seq
    <3>1. probe[w].seq = 0 /\ due = look
      BY <1>1, <1>2, <1>5, <2>2, PaceFacts DEF Sane
    <3>2. now <= probe[w].began + look
      BY <2>2 DEF Prompt
    <3> QED
      BY <1>1, <1>2, <1>5, <2>1, <2>2, <3>1, <3>2
  <2>3. CASE /\ probe[w].step = "sending" /\ q.step = "waiting"
             /\ q.seq = probe[w].seq /\ q.wake = now + Share
    <3>1. now <= probe[w].began + due /\ probe[w].seq < Samples
      BY <1>2, <1>5, <2>3 DEF Paced
    <3> QED
      BY <1>1, <1>2, <1>5, <1>8, <2>1, <2>3, <3>1
  <2>4. CASE /\ probe[w].step = "waiting" /\ q.step = "waiting"
             /\ q.seq = probe[w].seq /\ q.wake = probe[w].wake
    <3>1. probe[w].wake <= probe[w].began + due + Share /\ probe[w].seq < Samples
      BY <1>2, <1>5, <2>4 DEF Paced
    <3> QED
      BY <1>1, <1>2, <1>5, <2>1, <2>4, <3>1
  <2>5. CASE /\ probe[w].step \in {"sending", "waiting"} /\ q.step = "spacing"
             /\ ~LastSample(w) /\ q.seq = probe[w].seq /\ q.wake = now + Spacing
    <3>1. probe[w].seq < Samples
      BY <1>2, <2>5 DEF Paced
    <3>2. n < Samples /\ q.seq + 1 = n
      BY <1>1, <1>6, <2>5, <3>1 DEF LastSample
    <3>3. now <= probe[w].began + due + reply
      <4>1. CASE probe[w].step = "sending"
        <5>1. now <= probe[w].began + due
          BY <1>2, <1>5, <4>1 DEF Paced
        <5> QED
          BY <1>1, <1>8, <5>1
      <4>2. CASE probe[w].step = "waiting"
        <5>1. probe[w].wake <= probe[w].began + due + Share
          BY <1>2, <1>5, <4>2 DEF Paced
        <5>2. now + Share <= probe[w].wake + reply
          BY <4>2 DEF Prompt
        <5> QED
          BY <1>1, <1>8, <5>1, <5>2
      <4> QED
        BY <2>5, <4>1, <4>2
    <3>4. q.wake <= q.began + next /\ now <= q.wake
      BY <1>1, <1>8, <2>1, <2>5, <3>3
    <3>5. q.seq < Samples
      BY <2>5, <3>1
    <3> QED
      BY <1>2, <1>7, <2>1, <2>5, <3>2, <3>4, <3>5
  <2>6. CASE /\ probe[w].step = "spacing" /\ q.step = "sending" /\ now >= probe[w].wake
             /\ q.seq = probe[w].seq + 1
    <3>1. /\ n < Samples /\ now <= probe[w].wake
          /\ probe[w].wake <= probe[w].began + next
      BY <1>2, <1>6, <1>7, <2>6 DEF Paced
    <3>2. now <= q.began + next
      BY <1>1, <1>8, <2>1, <3>1
    <3> QED
      BY <1>2, <1>6, <1>7, <2>1, <2>6, <3>1, <3>2
  <2> QED
    BY <1>4, <1>11, <2>2, <2>3, <2>4, <2>5, <2>6 DEF GoesOn
<1> QED
    BY <1>3, <1>10, <1>11

LEMMA TimeStep ==
    ASSUME NEW CONSTANT look \in Nat, NEW CONSTANT reply \in Nat,
           TimeInv(look, reply), Prompt(look, reply), [ProbesNext]_probesVars
    PROVE  TimeInv(look, reply)'
<1>1. Fits(look, reply)'
    BY DEF TimeInv, Fits, Pace
<1>2. ProbesInv'
    BY ProbesStep DEF TimeInv
<1>3. probe \in [Workers -> ProbeStates] /\ now \in Nat /\ IcmpInv
    BY DEF TimeInv, ProbesInv, IcmpInv, IcmpType
<1>4. SUFFICES ASSUME NEW w \in Workers
               PROVE  Paced(probe[w], look, reply)' /\ probe'[w].report # "cut"
    BY <1>1, <1>2 DEF TimeInv, NeverCut
<1>5. Paced(probe[w], look, reply) /\ probe[w].report # "cut"
    BY DEF TimeInv, NeverCut
<1>6. ASSUME now' = now, probe'[w] = probe[w]
      PROVE  Paced(probe[w], look, reply)' /\ probe'[w].report # "cut"
    BY <1>5, <1>6 DEF Paced, Pace
<1>7. CASE protocol = "icmp" /\ Next
  <2>1. ASSUME NEW v \in Workers, Working(v)
        PROVE  Paced(probe[w], look, reply)' /\ probe'[w].report # "cut"
    <3>1. CASE v = w
      BY <2>1, <3>1, WorkingPaced
    <3>2. CASE v # w
      BY <1>3, <1>6, <2>1, <3>2, WorkerMoves
    <3> QED
      BY <3>1, <3>2
  <2>2. CASE NetworkAnswers
    <3>1. /\ probe'[w].step = probe[w].step /\ probe'[w].seq = probe[w].seq
          /\ probe'[w].began = probe[w].began /\ probe'[w].wake = probe[w].wake
          /\ probe'[w].report = probe[w].report /\ now' = now
      BY <1>3, <2>2 DEF NetworkAnswers, ProbeStates
    <3> QED
      BY <1>5, <3>1 DEF Paced, Pace
  <2>3. CASE ClockTicks
    <3>1. now' = now + 1 /\ probe' = probe /\ ~Ready(w)
      BY <2>3 DEF ClockTicks
    <3>2. /\ probe[w].step # "sending"
          /\ probe[w].step = "spacing" => ~(now >= probe[w].wake)
      BY <3>1 DEF Ready
    <3>3. probe[w].wake \in Nat
      BY <1>3 DEF ProbeStates
    <3> QED
      BY <1>3, <1>5, <3>1, <3>2, <3>3 DEF Paced, Pace
  <2> QED
    BY <1>7, <2>1, <2>2, <2>3 DEF Next
<1>8. CASE ShotNext
  <2>1. probe[w].step = "idle" /\ probe' = probe
    BY <1>8 DEF ShotNext, TimeInv, ProbesInv, NoIcmp
  <2> QED
    BY <1>5, <2>1 DEF Paced
<1>9. CASE UNCHANGED probesVars
    BY <1>6, <1>9 DEF probesVars, vars
<1> QED
    BY <1>7, <1>8, <1>9 DEF ProbesNext

LEMMA TimeInit ==
    ASSUME NEW CONSTANT look \in Nat, NEW CONSTANT reply \in Nat
    PROVE  ProbesInit /\ Fits(look, reply) => TimeInv(look, reply)
<1> SUFFICES ASSUME ProbesInit, Fits(look, reply) PROVE TimeInv(look, reply)
    OBVIOUS
<1>1. \A w \in Workers : probe[w] = Untouched
    BY DEF ProbesInit, Init
<1>2. \A w \in Workers : probe[w].step = "idle" /\ probe[w].report = "none"
    BY <1>1, UntouchedIsState
<1> QED
    BY <1>2, ProbesInvInit DEF TimeInv, NeverCut, Paced

\* What a round that ends without its timeout reports holds every sample it took.
LEMMA ReportsAll ==
    ASSUME NEW CONSTANT look \in Nat, NEW CONSTANT reply \in Nat,
           TimeInv(look, reply), Prompt(look, reply), [ProbesNext]_probesVars,
           NEW w \in Workers, probe[w].step # "idle", probe'[w].step = "idle",
           \A i \in DOMAIN probe'[w].results : probe'[w].results[i] # "success"
    PROVE  \A i \in DOMAIN probe[w].results : probe[w].results[i] # "success"
<1>1. probe[w] \in ProbeStates /\ Sane(probe[w]) /\ IcmpInv /\ probe[w].results \in Seq(Outcomes)
    BY DEF TimeInv, ProbesInv, IcmpInv, IcmpType, ProbeStates
<1>2. PICK v \in Workers : Working(v)
  <2>1. CASE NetworkAnswers
    <3>1. probe'[w].step = probe[w].step
      BY <1>1, <2>1 DEF NetworkAnswers, ProbeStates
    <3> QED
      BY <3>1
  <2>2. CASE ClockTicks \/ ShotNext \/ UNCHANGED probesVars
    BY <2>2 DEF ClockTicks, ShotNext, probesVars, vars
  <2> QED
    BY <2>1, <2>2 DEF ProbesNext, Next
<1>3. v = w
    BY <1>1, <1>2, WorkerMoves
<1>4. EndsRound(w)
    BY <1>1, <1>2, <1>3, WorkerMoves, InTime DEF BeginsRound, GoesOn
<1>5. CASE probe[w].step = "resolving"
    BY <1>1, <1>5 DEF Sane
<1>6. ASSUME NEW outcome \in Outcomes, probe'[w].results = Append(probe[w].results, outcome)
      PROVE  \A i \in DOMAIN probe[w].results : probe[w].results[i] # "success"
  <2>1. \A i \in DOMAIN probe[w].results :
          /\ i \in DOMAIN probe'[w].results
          /\ probe'[w].results[i] = probe[w].results[i]
    BY <1>1, <1>6
  <2> QED
    BY <2>1
<1> QED
    BY <1>4, <1>5, <1>6 DEF EndsRound

\* "down: all attempted samples have measurement loss" (status-model.md) is refuted of
\* worker.rs:191, where the timeout of the check throws away what was gathered.  It holds,
\* and no round is ever cut short, where the host is found and every sample is answered
\* soon enough that all of them and the spacing between them fit into the timeout, for any
\* timeout, spacing and number of samples.
THEOREM RoundsInTime ==
    ASSUME NEW CONSTANT look \in Nat, NEW CONSTANT reply \in Nat
    PROVE  ProbesSpec /\ Fits(look, reply) /\ []Prompt(look, reply)
               => []NeverCut /\ DownMeansAllLost
<1>1. ProbesInit /\ Fits(look, reply) => TimeInv(look, reply)
    BY TimeInit
<1>2. TimeInv(look, reply) /\ Prompt(look, reply) /\ [ProbesNext]_probesVars
        => TimeInv(look, reply)'
    BY TimeStep
<1>3. TimeInv(look, reply) => NeverCut
    BY DEF TimeInv
<1>4. TimeInv(look, reply) /\ Prompt(look, reply) /\ [ProbesNext]_probesVars
        => [\A w \in Workers :
             /\ probe[w].step # "idle" /\ probe'[w].step = "idle"
             /\ \A i \in DOMAIN probe'[w].results : probe'[w].results[i] # "success"
             => \A i \in DOMAIN probe[w].results : probe[w].results[i] # "success"]_vars
    BY ReportsAll
<1> QED
    BY <1>1, <1>2, <1>3, <1>4, PTL DEF ProbesSpec, DownMeansAllLost
=============================================================================
