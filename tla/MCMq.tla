-------------------------------- MODULE MCMq --------------------------------
(* A small instance of Mq for TLC. *)
EXTENDS Mq, TLC

Symmetry == Permutations(Msgs)
=============================================================================
