----------------------------- MODULE MCRollups -----------------------------
(***************************************************************************)
(* Instances of Rollups for TLC.                                           *)
(***************************************************************************)
EXTENDS Rollups

CONSTANTS p1, p2

OnePair == <<p1>>
TwoPairs == <<p1, p2>>
Nobody == {}
First == {p1}
Both == {p1, p2}

KeepAll == [level \in Levels |-> Forever]
KeepSome == [raw |-> 12, fine |-> 14, coarse |-> Forever]
KeepShort == [raw |-> 5, fine |-> Forever, coarse |-> Forever]
=============================================================================
