--------------------------------- MODULE Mq ---------------------------------
(***************************************************************************)
(* main/mq.c: a message queue as the STAILQ of <sys/queue.h> keeps it, in  *)
(* pointers.  `link` is every pointer cell there is: link[Head] is         *)
(* stqh_first and link[m] the entries.stqe_next of message block m.        *)
(* `last` is stqh_last, the address of the cell the next message goes to.  *)
(* Blocks come from malloc and go back to it, and keep their old contents. *)
(***************************************************************************)
EXTENDS Integers, Sequences, FiniteSets

CONSTANTS Msgs,   \* message blocks malloc may return
          Head0,  \* the head of the queue, inside a conn_t
          Null

ASSUME MqAssumption == /\ IsFiniteSet(Msgs)
                       /\ Head0 \notin Msgs /\ Null \notin Msgs /\ Null # Head0

VARIABLES link, last,
          block   \* of each message: "free", or held by a "caller" or "queue"

vars == <<link, last, block>>

Cells == Msgs \cup {Head0}

TypeOK ==
  /\ link \in [Cells -> Msgs \cup {Null}]
  /\ last \in Cells
  /\ block \in [Msgs -> {"free", "caller", "queue"}]

(* mq_init, in conn_new; the blocks hold whatever malloc left in them. *)
Init ==
  /\ link \in {l \in [Cells -> Msgs \cup {Null}] : l[Head0] = Null}
  /\ last = Head0
  /\ block = [m \in Msgs |-> "free"]

(* mq_isempty *)
IsEmpty == link[Head0] = Null

(* msg_new *)
MsgNew(m) ==
  /\ block[m] = "free"
  /\ block' = [block EXCEPT ![m] = "caller"]
  /\ UNCHANGED <<link, last>>

(* msg_free *)
MsgFree(m) ==
  /\ block[m] = "caller"
  /\ block' = [block EXCEPT ![m] = "free"]
  /\ UNCHANGED <<link, last>>

(* Mutation: the next pointer of the new message is not cleared. *)
InsertTailOpen(m) ==
  /\ link' = [link EXCEPT ![last] = m]
  /\ last' = m

(* STAILQ_INSERT_TAIL: m->next = NULL; *last = m; last = &m->next *)
InsertTail(m) ==
  /\ link' = [link EXCEPT ![m] = Null, ![last] = m]
  /\ last' = m

(* mq_putmsg *)
PutMsg(m) ==
  /\ block[m] = "caller"
  /\ InsertTail(m)
  /\ block' = [block EXCEPT ![m] = "queue"]

(* Mutation: the tail is not reset when the queue becomes empty. *)
RemoveHeadOnly ==
  /\ link' = [link EXCEPT ![Head0] = link[link[Head0]]]
  /\ UNCHANGED last

(* Mutation: the tail becomes the next pointer, not the address of its cell. *)
RemoveHeadNext ==
  /\ link' = [link EXCEPT ![Head0] = link[link[Head0]]]
  /\ last' = IF link[link[Head0]] = Null THEN Null ELSE last

(* STAILQ_REMOVE_HEAD: if ((first = first->next) == NULL) last = &first *)
RemoveHead ==
  /\ link' = [link EXCEPT ![Head0] = link[link[Head0]]]
  /\ last' = IF link[link[Head0]] = Null THEN Head0 ELSE last

(* mq_getmsg; of an empty queue it returns NULL and changes nothing. *)
GetMsg ==
  /\ ~IsEmpty
  /\ RemoveHead
  /\ block' = [block EXCEPT ![link[Head0]] = "caller"]

Next ==
  \/ \E m \in Msgs : MsgNew(m) \/ MsgFree(m) \/ PutMsg(m)
  \/ GetMsg

Spec == Init /\ [][Next]_vars

----------------------------------------------------------------------------
(* Properties *)

(* The k-th message from the head; Null beyond the end. *)
Nth[k \in Nat] ==
  IF k = 0 THEN Head0
  ELSE IF Nth[k - 1] = Null THEN Null ELSE link[Nth[k - 1]]

Length == Cardinality({k \in 1..Cardinality(Msgs) : Nth[k] # Null})

(***************************************************************************)
(* The chain of pointers is the queue, however blocks are freed, reused    *)
(* and put back: messages leave once each, in the order they were put, and *)
(* none is lost when the queue runs empty and fills again.                 *)
(***************************************************************************)
Queue == INSTANCE Fifo WITH q <- [k \in 1..Length |-> Nth[k]]
ImplementsFifo == Queue!Spec

(***************************************************************************)
(* The address the next mq_putmsg writes through, and every block that     *)
(* mq_getmsg can reach, lies in a message that is still in the queue, or   *)
(* in the head: never in one the caller has or has freed.                  *)
(***************************************************************************)
NoDangling ==
  /\ last \in Msgs => block[last] = "queue"
  /\ \A k \in 1..Length : block[Nth[k]] = "queue"
  /\ Cardinality({m \in Msgs : block[m] = "queue"}) = Length
=============================================================================
