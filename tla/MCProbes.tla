------------------------------ MODULE MCProbes ------------------------------
(* Two workers, whom nothing tells apart. *)
EXTENDS Probes, TLC

CONSTANTS w1, w2

TwoWorkers == {w1, w2}
BothMethods == {"dgram", "raw"}
EveryProtocol == {"icmp", "tcp", "tls", "dns", "http", "body"}

Alike == Permutations(Workers)
=============================================================================
