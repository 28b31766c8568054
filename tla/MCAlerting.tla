------------------------------ MODULE MCAlerting ------------------------------
(***************************************************************************)
(* Instances of Alerting for TLC.                                          *)
(***************************************************************************)
EXTENDS Alerting, TLC

CONSTANTS loss, nodata

JustLoss == {loss}
JustNoData == {nodata}
Two == {loss, nodata}
None == {}

\* Both alerts belong to one check.
SameCheck == [a \in Alerts |-> 0]

\* Clear is the inverse of fire.
Inverse == {[fire |-> TRUE, clear |-> FALSE], [fire |-> FALSE, clear |-> TRUE]}

\* A clear threshold below the firing threshold: a band where neither holds.
Hysteresis == Inverse \cup {[fire |-> FALSE, clear |-> FALSE]}
=============================================================================
