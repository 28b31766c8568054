---------------------------- MODULE RoundLedger -----------------------------
(***************************************************************************)
(* What the round pipeline promises, with nothing about how: a slot is     *)
(* opened once, and each open slot is closed at most once, either by a     *)
(* round stored under it or by being discarded.                            *)
(*                                                                         *)
(* The slots are whatever the steps add: an action names its slot among    *)
(* the elements of the set it enlarges, so the module needs no set of all  *)
(* slots, which is infinite.                                               *)
(***************************************************************************)
VARIABLES opened, stored, discarded

ledgerVars == <<opened, stored, discarded>>

Init == opened = {} /\ stored = {} /\ discarded = {}

Pending == opened \ (stored \cup discarded)

Open ==
    /\ \E s \in opened' \ opened : opened' = opened \cup {s}
    /\ UNCHANGED <<stored, discarded>>

Store ==
    /\ \E s \in Pending : stored' = stored \cup {s}
    /\ UNCHANGED <<opened, discarded>>

Discard ==
    /\ \E s \in Pending : discarded' = discarded \cup {s}
    /\ UNCHANGED <<opened, stored>>

Next == Open \/ Store \/ Discard

Spec == Init /\ [][Next]_ledgerVars
=============================================================================
