-------------------------------- MODULE Fifo --------------------------------
(* A queue that returns each message it was given once, in order. *)
EXTENDS Sequences

CONSTANT Msgs

VARIABLE q

Init == q = <<>>

Put(m) == q' = Append(q, m)
Get == q # <<>> /\ q' = Tail(q)

Next == Get \/ \E m \in Msgs : Put(m)

Spec == Init /\ [][Next]_q
=============================================================================
