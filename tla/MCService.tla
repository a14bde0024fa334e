----------------------------- MODULE MCService -----------------------------
(* A small instance of Service for TLC. *)
EXTENDS Service

(***************************************************************************)
(* The sessions share a budget of two units: one message that fills the    *)
(* socket and blocks with its rest, two of which the second blocks, or one *)
(* in each session.  No fairness asks a browser to send, so the bound cuts *)
(* no behaviour short.                                                     *)
(***************************************************************************)
FewUnits == FoldFunction(+, 0, websent) <= 2
=============================================================================
