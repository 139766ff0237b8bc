------------------------ MODULE MCThroughputClient ------------------------
(* Threads of ThroughputClient for TLC. *)
EXTENDS ThroughputClient

CONSTANTS t1, t2, t3
=============================================================================
