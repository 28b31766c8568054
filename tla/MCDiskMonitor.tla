--------------------------- MODULE MCDiskMonitor ---------------------------
(***************************************************************************)
(* Instances of DiskMonitor for TLC.                                       *)
(***************************************************************************)
EXTENDS DiskMonitor

TwoConfigurations == {<<2, 1>>, <<3, 1>>}
=============================================================================
