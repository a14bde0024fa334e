------------------------------ MODULE MCUthash ------------------------------
(* Small instances of Uthash for TLC: two items have one key, and ranks tie. *)
EXTENDS Uthash

MCKeyOf == <<1, 2, 3, 4, 1>>
MCRank == <<2, 1, 2, 1, 1>>

(* A third of the hash functions: hashf is chosen once and never changes. *)
FirstAtZero == hashf[1] = 0
=============================================================================
