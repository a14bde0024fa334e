------------------------------ MODULE MCBridge ------------------------------
(* Small instances of Bridge for TLC. *)
EXTENDS BridgeStreams

Symmetry == Permutations(Sessions)

(* The sessions share a budget of units: two in all, in either direction. *)
UnitsSent == FoldFunction(+, 0, websent) + FoldFunction(+, 0, dsent)
FewUnits == UnitsSent <= 2
=============================================================================
