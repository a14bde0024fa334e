------------------------------- MODULE Duplex -------------------------------
(***************************************************************************)
(* What a bridge promises each session, and all a browser or a daemon can  *)
(* see of it: two independent streams, one per direction.  What comes out  *)
(* of a stream is a prefix of what was put into that same stream, in       *)
(* order, with no unit lost in between, repeated or taken from another     *)
(* session; a stream may end at any time.                                  *)
(***************************************************************************)
EXTENDS Integers, Sequences

CONSTANT Sessions

VARIABLES sent,  \* per direction and session: how many units were put in
          got    \* and which units have come out

Directions == {"up", "down"}
Streams == Directions \X Sessions

Init == /\ sent = [c \in Streams |-> 0]
        /\ got = [c \in Streams |-> <<>>]

Send(c) == /\ sent'[c] > sent[c]
           /\ sent' = [sent EXCEPT ![c] = sent'[c]]
           /\ UNCHANGED got

NextUnits(c, k) == [i \in 1..k |-> <<c[2], Len(got[c]) + i>>]

Deliver(c) ==
  /\ \E k \in 1..(sent[c] - Len(got[c])) :
       got' = [got EXCEPT ![c] = @ \o NextUnits(c, k)]
  /\ UNCHANGED sent

Next == \E c \in Streams : Send(c) \/ Deliver(c)

Spec == Init /\ [][Next]_<<sent, got>>
=============================================================================
