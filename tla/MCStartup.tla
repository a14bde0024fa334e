----------------------------- MODULE MCStartup -----------------------------
(* Small instances of Startup for TLC; daemons are interchangeable. *)
EXTENDS Startup, TLC

Symmetry == Permutations(Paths)
=============================================================================
