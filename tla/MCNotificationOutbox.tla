----------------------- MODULE MCNotificationOutbox -----------------------
(***************************************************************************)
(* Instances of NotificationOutbox for TLC.                                *)
(***************************************************************************)
EXTENDS NotificationOutbox, TLC

CONSTANTS mail, hook

Both == {mail, hook}
JustHook == {hook}

\* The entries take turns between the two notifiers, the hook first.
TakeTurns == [e \in Entries |-> IF e % 2 = 1 THEN hook ELSE mail]
=============================================================================
