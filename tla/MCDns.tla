-------------------------------- MODULE MCDns --------------------------------
(* A small instance of Dns for TLC: two meshes that share a name. *)
EXTENDS Dns

CONSTANTS m1, m2, n1, n2, a1, a2

Both == [NoMesh EXCEPT ![m1] = {<<n1, a1>>, <<n2, a1>>}, ![m2] = {<<n1, a2>>}]
Moved == [NoMesh EXCEPT ![m1] = {<<n1, a2>>}]
Broken == [NoMesh EXCEPT ![m1] = {<<n1, a1>>}, ![m2] = NoHost]

SomeConfs == {Both, Moved, Broken}
OneEach == [f \in Fault |-> 1]
=============================================================================
