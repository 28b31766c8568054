--------------------------- MODULE MCRoundPipeline ---------------------------
(***************************************************************************)
(* Instances of RoundPipeline for TLC.                                     *)
(***************************************************************************)
EXTENDS RoundPipeline, TLC

CONSTANTS c1, c2, c3, icmp, dns

JustC1 == {c1}
TwoChecks == {c1, c2}
ThreeChecks == {c1, c2, c3}

\* All checks of one kind.
AllIcmp2 == [c \in TwoChecks |-> icmp]

C1Icmp == [c \in JustC1 |-> icmp]
NoJitter == [c \in JustC1 |-> [i \in {2, 3} |-> 0]]

\* Two checks of one kind and one of another.
TwoKinds == [c \in ThreeChecks |-> IF c = c3 THEN dns ELSE icmp]

NoKindLimit == [k \in {icmp} |-> Unlimited]
OneIcmp == [k \in {icmp, dns} |-> IF k = icmp THEN 1 ELSE Unlimited]

\* Jitter: c2 runs one tick after the start of its interval when it can.
Jitter2 == [c \in TwoChecks |-> [i \in {2, 3} |-> IF c = c2 THEN 1 ELSE 0]]
JitterC1 == [c \in ThreeChecks |-> [i \in {2, 3} |-> IF c = c1 THEN 1 ELSE 0]]
Both == [c \in TwoChecks |-> 2]
AllThree == [c \in ThreeChecks |-> 2]
OnlyC1 == [c \in {c1} |-> 2]
SlowerC2 == [c \in TwoChecks |-> IF c = c1 THEN 2 ELSE 3]

C2AndC3 == [c \in {c2, c3} |-> 2]
SwapAndReturn == {C2AndC3, AllThree}
StopAndReturn == {<<>>, OnlyC1}
OnlyC2s == {[c \in {c2} |-> 2]}
ChangeInterval == {SlowerC2}
NoReload == {}

\* The workers are alike.
WorkerSymmetry == Permutations(Workers)
=============================================================================
