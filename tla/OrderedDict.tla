---------------------------- MODULE OrderedDict ----------------------------
(***************************************************************************)
(* What uthash promises to the program that uses it: items with distinct   *)
(* keys in an order that the program controls, and loops over them whose   *)
(* body may delete the item at hand.                                       *)
(***************************************************************************)
EXTENDS SequencesExt

CONSTANTS Items, KeyOf, Rank

VARIABLES list,   \* the items, in application order
          todo    \* what a HASH_ITER loop has still to visit

Init == list = <<>> /\ todo = <<>>

In(e) == e \in ToSet(list)
Holding(k) == {i \in ToSet(list) : KeyOf[i] = k}

(* Where the first item of S is, and the order without it. *)
Place(S) == Min({k \in DOMAIN list : list[k] \in S})
Without(S) ==
  IF ToSet(list) \cap S = {} THEN list ELSE RemoveAt(list, Place(S))

(* At the end; or before the first item that e must precede. *)
AtEnd(l, e) == Append(l, e)
InOrder(l, e) ==
  LET higher == {k \in DOMAIN l : Rank[l[k]] > Rank[e]}
  IN  IF higher = {} THEN AtEnd(l, e) ELSE InsertAt(l, Min(higher), e)

Add(e) == /\ Holding(KeyOf[e]) = {}
          /\ list' \in {AtEnd(list, e), InOrder(list, e)}

Replace(e) ==
  LET rest == Without(Holding(KeyOf[e]))
  IN  ~In(e) /\ list' \in {AtEnd(rest, e), InOrder(rest, e)}

Delete(e) == In(e) /\ list' = Without({e})

(* Items of one rank keep their order. *)
Precedes(i, j) == \/ Rank[i] < Rank[j]
                  \/ Rank[i] = Rank[j] /\ Place({i}) < Place({j})
Sort == /\ list' \in [DOMAIN list -> ToSet(list)] /\ ToSet(list') = ToSet(list)
        /\ \A i, j \in DOMAIN list : i < j => Precedes(list'[i], list'[j])

Clear == list' = <<>>

Change == /\ todo = <<>> /\ UNCHANGED todo
          /\ Clear \/ (\E e \in Items : Add(e) \/ Replace(e) \/ Delete(e)) \/ Sort

IterStart == todo = <<>> /\ todo' = list /\ UNCHANGED list

IterStep ==
  /\ todo # <<>>
  /\ todo' = Tail(todo)
  /\ UNCHANGED list \/ list' = Without({Head(todo)})

Next == Change \/ IterStart \/ IterStep

Spec == Init /\ [][Next]_<<list, todo>>
=============================================================================
