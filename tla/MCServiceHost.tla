---------------------------- MODULE MCServiceHost ----------------------------
(* Small instances of ServiceHost for TLC. *)
EXTENDS ServiceHost

NoFaults == [f \in Fault |-> 0]
OneEach == [f \in Fault |-> IF f \in {"boot", "mute", "stuck"} THEN 0 ELSE 1]
=============================================================================
