----------------------------- MODULE MCMeshSync -----------------------------
(* Small instances of MeshSync for TLC. *)
EXTENDS MeshSync, TLC

CONSTANTS m1, m2, k1, k2, k3, k4, k5, k6, k7, k8

NoFaults == [f \in Fault |-> 0]
OneOf(F) == [f \in Fault |-> IF f \in F THEN 1 ELSE 0]

\* A client that has joined nothing, and one that has joined the mesh m1.
Fresh == [m \in {} |-> k1]
JoinedOne == m1 :> k1

\* Two goroutines at once; a single poll or refresh; what the two loops make good
\* on a client that runs; and a fresh install that joins a mesh with a key the
\* agent was handed.
OverlapLimit == OneOf({"lost", "disk"})
FaultLimit == OneOf({"error", "garbled", "denied", "lost", "stuck", "noup", "stop"})
ConvergeLimit == OneOf({"lost", "reboot", "stop", "noup"})
JoinLimit == OneOf({"lost", "handed"})
=============================================================================
