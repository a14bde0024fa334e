------------------------------- MODULE NameMap -------------------------------
(***************************************************************************)
(* What socklist.c promises: names are bound to daemon sockets one by one, *)
(* a binding is never changed or lost, and a websocket is connected to     *)
(* what its name is bound to.                                              *)
(***************************************************************************)
CONSTANTS Names, Paths

VARIABLES bind, bridged

Init == bind = [n \in {} |-> n] /\ bridged = {}

Bind(n, p) ==
  /\ n \notin DOMAIN bind
  /\ bind' = [k \in DOMAIN bind \cup {n} |-> IF k = n THEN p ELSE bind[k]]
  /\ UNCHANGED bridged

Connect(n) ==
  /\ n \in DOMAIN bind
  /\ bridged' = bridged \cup {<<n, bind[n]>>}
  /\ UNCHANGED bind

Next == \E n \in Names : Connect(n) \/ \E p \in Paths : Bind(n, p)

Spec == Init /\ [][Next]_<<bind, bridged>>
=============================================================================
