------------------------------- MODULE MCPoller -------------------------------
(* A small instance of Poller for TLC. *)
EXTENDS Poller

CONSTANTS k1, k2, k3

SomeLists == {<<k1>>, <<k2>>, <<k1, k2>>, <<k2, None, k3>>}
Faults == [f \in Fault |-> IF f = "lost" THEN 2 ELSE 1]
NoFaults == [f \in Fault |-> 0]
=============================================================================
