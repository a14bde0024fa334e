------------------------------ MODULE MCWfedd ------------------------------
(* Instances of Wfedd for TLC: ports on both sides of the tested bounds. *)
EXTENDS Wfedd

Ports == {-1, 0, 1, 65535, 65536}
=============================================================================
