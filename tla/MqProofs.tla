------------------------------ MODULE MqProofs ------------------------------
(***************************************************************************)
(* The pointers of Mq are a queue: at any moment there is one sequence of  *)
(* distinct messages that `link` runs through from the head to NULL, that  *)
(* ends at `last`, and that has just the blocks the queue holds.           *)
(***************************************************************************)
EXTENDS Mq, SeqFacts, FiniteSetTheorems, SequenceTheorems

(* The cell that points to the message after the i-th. *)
CellOf(q, i) == IF i = 0 THEN Head0 ELSE q[i]

Linked(q) ==
  /\ q \in Seq(Msgs)
  /\ \A i, j \in 1..Len(q) : q[i] = q[j] => i = j
  /\ \A i \in 0..Len(q) : link[CellOf(q, i)] = IF i = Len(q) THEN Null ELSE q[i + 1]
  /\ last = CellOf(q, Len(q))
  /\ \A m \in Msgs : block[m] = "queue" <=> \E i \in 1..Len(q) : q[i] = m

IInv == TypeOK /\ \E q \in Seq(Msgs) : Linked(q)

----------------------------------------------------------------------------
(* What Nth, Length and the queue of the refinement are *)

(* Nth is the function its recursive definition describes. *)
LEMMA NthUnfolds ==
  TypeOK => /\ Nth[0] = Head0
            /\ \A k \in Nat : Nth[k + 1] = IF Nth[k] = Null THEN Null ELSE link[Nth[k]]
<1> SUFFICES ASSUME TypeOK
             PROVE  /\ Nth[0] = Head0
                    /\ \A k \in Nat : Nth[k + 1] = IF Nth[k] = Null THEN Null
                                                   ELSE link[Nth[k]]
  OBVIOUS
<1> DEFINE X == Cells \cup {Null}
           step == [n \in Nat |-> [c \in X |-> IF c = Null THEN Null ELSE link[c]]]
           G(g) == [k \in Nat |-> IF k = 0 THEN Head0
                                  ELSE IF g[k - 1] = Null THEN Null ELSE link[g[k - 1]]]
<1>1. step \in [Nat -> [X -> X]] /\ Head0 \in X
  BY DEF TypeOK, Cells
<1>2. PICK h \in [Nat -> X] : Iterates(h, Head0, step)
  <2> HIDE DEF X, step
  <2> QED
    BY <1>1, Iteration
<1>3. h = G(h)
  <2>1. ASSUME NEW k \in Nat PROVE h[k] = G(h)[k]
    <3>1. CASE k = 0
      BY <1>2, <3>1 DEF Iterates
    <3>2. CASE k # 0
      <4>1. k - 1 \in Nat /\ (k - 1) + 1 = k
        BY <3>2
      <4>2. h[k] = step[k - 1][h[k - 1]] /\ h[k - 1] \in X
        BY <1>2, <4>1 DEF Iterates
      <4> QED
        BY <3>2, <4>1, <4>2
    <3> QED
      BY <3>1, <3>2
  <2> QED
    BY <1>2, <2>1
<1>4. Nth = G(Nth)
  <2>1. Nth = CHOOSE g : g = G(g)
    BY DEF Nth
  <2> HIDE DEF G
  <2> QED
    BY <1>3, <2>1
<1>5. Nth[0] = Head0
  BY <1>4
<1>6. ASSUME NEW k \in Nat
      PROVE  Nth[k + 1] = IF Nth[k] = Null THEN Null ELSE link[Nth[k]]
  <2>1. G(Nth)[k + 1] = IF Nth[(k + 1) - 1] = Null THEN Null ELSE link[Nth[(k + 1) - 1]]
    OBVIOUS
  <2>2. (k + 1) - 1 = k
    OBVIOUS
  <2> QED
    BY <1>4, <2>1, <2>2
<1> QED
  BY <1>5, <1>6
(* No queue is longer than there are blocks. *)
LEMMA QueueFits ==
  ASSUME NEW q \in Seq(Msgs), \A i, j \in 1..Len(q) : q[i] = q[j] => i = j
  PROVE  /\ Len(q) \in Nat /\ Cardinality(Msgs) \in Nat /\ Len(q) <= Cardinality(Msgs)
         /\ Cardinality({m \in Msgs : \E i \in 1..Len(q) : q[i] = m}) = Len(q)
<1>1. Len(q) \in Nat /\ q \in [1..Len(q) -> Msgs]
  BY LenProperties
<1> DEFINE R == {m \in Msgs : \E i \in 1..Len(q) : q[i] = m}
<1>2. q \in Bijection(1..Len(q), R)
  BY <1>1 DEF Bijection, Injection, Surjection, IsInjective
<1>3. IsFiniteSet(1..Len(q)) /\ Cardinality(1..Len(q)) = Len(q)
  BY <1>1, FS_Interval
<1>4. Cardinality(R) = Len(q)
  BY <1>2, <1>3, FS_Bijection DEF ExistsBijection
<1>5. Cardinality(R) <= Cardinality(Msgs) /\ Cardinality(Msgs) \in Nat
  BY FS_Subset, FS_CardinalityType, MqAssumption
<1> QED
  BY <1>1, <1>4, <1>5

(* Following the pointers from the head gives the queue, and then NULL. *)
LEMMA NthOfQueue ==
  \A q : TypeOK /\ Linked(q) =>
    \A k \in Nat : Nth[k] = IF k > Len(q) THEN Null ELSE CellOf(q, k)
<1> SUFFICES ASSUME NEW q, TypeOK, Linked(q)
             PROVE  \A k \in Nat : Nth[k] = IF k > Len(q) THEN Null ELSE CellOf(q, k)
  OBVIOUS
<1>1. Len(q) \in Nat /\ q \in [1..Len(q) -> Msgs]
  BY LenProperties DEF Linked
<1>0. Len(q) \in Nat
  BY <1>1
<1> DEFINE T == {k \in Nat : Nth[k] = IF k > Len(q) THEN Null ELSE CellOf(q, k)}
<1>2. 0 \in T
  BY <1>1, NthUnfolds DEF CellOf
<1>3. ASSUME NEW k \in Nat, k \in T PROVE k + 1 \in T
  <2>1. Nth[k + 1] = IF Nth[k] = Null THEN Null ELSE link[Nth[k]]
    BY NthUnfolds
  <2>2. CASE k > Len(q)
    BY <1>1, <1>3, <2>1, <2>2
  <2>3. CASE k <= Len(q)
    <3>1. Nth[k] = CellOf(q, k) /\ Nth[k] # Null
      <4>1. Nth[k] = CellOf(q, k)
        BY <1>1, <1>3, <2>3
      <4>2. CellOf(q, k) # Null
        BY <1>1, <2>3, MqAssumption DEF CellOf
      <4> QED
        BY <4>1, <4>2
    <3>2. k \in 0..Len(q)
      BY <1>1, <2>3
    <3>3. link[CellOf(q, k)] = IF k = Len(q) THEN Null ELSE q[k + 1]
      BY <3>2 DEF Linked
    <3>4. Nth[k + 1] = IF k = Len(q) THEN Null ELSE q[k + 1]
      BY <2>1, <3>1, <3>3
    <3>5. CellOf(q, k + 1) = q[k + 1]
      BY DEF CellOf
    <3>6. k + 1 > Len(q) <=> k = Len(q)
      BY <1>0, <2>3
    <3> QED
      BY <3>4, <3>5, <3>6
  <2> QED
    BY <1>1, <2>2, <2>3
<1> HIDE DEF T
<1>4. \A k \in Nat : k \in T
  BY <1>2, <1>3, Induction
<1> QED
  BY <1>4 DEF T

Chain == [k \in 1..Length |-> Nth[k]]

LEMMA ChainIsQueue ==
  \A q : TypeOK /\ Linked(q) => Length = Len(q) /\ Chain = q
<1> SUFFICES ASSUME NEW q, TypeOK, Linked(q) PROVE Length = Len(q) /\ Chain = q
  OBVIOUS
<1>1. /\ Len(q) \in Nat /\ q \in [1..Len(q) -> Msgs]
      /\ Cardinality(Msgs) \in Nat /\ Len(q) <= Cardinality(Msgs)
  BY LenProperties, QueueFits DEF Linked
<1>2. \A k \in Nat : Nth[k] = IF k > Len(q) THEN Null ELSE CellOf(q, k)
  BY NthOfQueue
<1>3. \A k \in 1..Len(q) : Nth[k] = q[k] /\ Nth[k] # Null
  BY <1>1, <1>2, MqAssumption DEF CellOf
<1>4. \A k \in 1..Cardinality(Msgs) : Nth[k] # Null <=> k <= Len(q)
  BY <1>1, <1>2, <1>3
<1>5. {k \in 1..Cardinality(Msgs) : Nth[k] # Null} = 1..Len(q)
  BY <1>1, <1>4
<1>6. Length = Len(q)
  <2>1. Len(q) \in Nat
    BY <1>1
  <2>2. Cardinality(1..Len(q)) = Len(q)
    BY <2>1, FS_Interval
  <2> QED
    BY <1>5, <2>2 DEF Length
<1> QED
  BY <1>1, <1>3, <1>6 DEF Chain

LEMMA ChainIsQueueNext ==
  \A q : TypeOK' /\ Linked(q)' => Length' = Len(q) /\ Chain' = q
<1>1. (\A q : TypeOK /\ Linked(q) => Length = Len(q) /\ Chain = q)'
  BY ChainIsQueue, PTL
<1> QED
  BY <1>1
----------------------------------------------------------------------------
(* The operations on the sequence *)

LEMMA TypeInit == Init => TypeOK
<1> SUFFICES ASSUME Init PROVE TypeOK
  OBVIOUS
<1>1. last \in Cells
  BY DEF Init, Cells
<1> QED
  BY <1>1 DEF Init, TypeOK

(* mq_init makes the empty queue. *)
LEMMA InitLinks == Init => Linked(<<>>)
<1> SUFFICES ASSUME Init PROVE Linked(<<>>)
  OBVIOUS
<1>1. <<>> \in Seq(Msgs) /\ Len(<<>>) = 0
  BY EmptySeq
<1>2. last = Head0 /\ link[Head0] = Null /\ \A m \in Msgs : block[m] # "queue"
  BY DEF Init
<1> QED
  BY <1>1, <1>2 DEF Linked, CellOf

LEMMA TypeStep == TypeOK /\ [Next]_vars => TypeOK'
<1> SUFFICES ASSUME TypeOK, [Next]_vars PROVE TypeOK'
  OBVIOUS
<1>1. ASSUME NEW m \in Msgs, MsgNew(m) \/ MsgFree(m) PROVE TypeOK'
  BY <1>1 DEF TypeOK, MsgNew, MsgFree
<1>2. ASSUME NEW m \in Msgs, PutMsg(m) PROVE TypeOK'
  BY <1>2 DEF TypeOK, PutMsg, InsertTail, Cells
<1>3. CASE GetMsg
  <2>1. link[Head0] \in Msgs /\ Head0 \in Cells
    BY <1>3 DEF TypeOK, GetMsg, IsEmpty, Cells
  <2>2. link[link[Head0]] \in Msgs \cup {Null}
    BY <2>1 DEF TypeOK, Cells
  <2> QED
    BY <1>3, <2>1, <2>2 DEF TypeOK, GetMsg, RemoveHead
<1>4. CASE UNCHANGED vars
  BY <1>4 DEF vars, TypeOK
<1> QED
  BY <1>1, <1>2, <1>3, <1>4 DEF Next

(* A step that leaves the pointers and the blocks in the queue alone. *)
LEMMA SameLinks ==
  ASSUME NEW q, Linked(q), UNCHANGED <<link, last>>,
         \A m \in Msgs : block'[m] = "queue" <=> block[m] = "queue"
  PROVE  Linked(q)'
BY DEF Linked

LEMMA BlockLinks ==
  ASSUME TypeOK, NEW q, Linked(q), NEW m \in Msgs, MsgNew(m) \/ MsgFree(m)
  PROVE  Linked(q)'
<1>1. /\ UNCHANGED <<link, last>>
      /\ \A n \in Msgs : block'[n] = "queue" <=> block[n] = "queue"
  BY DEF TypeOK, MsgNew, MsgFree
<1> QED
  BY <1>1, SameLinks

(* mq_putmsg appends. *)
LEMMA PutLinks ==
  ASSUME TypeOK, NEW q, Linked(q), NEW m \in Msgs, PutMsg(m)
  PROVE  Linked(Append(q, m))'
<1> DEFINE r == Append(q, m)
           n == Len(q)
<1>1. q \in Seq(Msgs) /\ n \in Nat /\ \A i \in 1..n : q[i] \in Msgs
  BY LenProperties DEF Linked
<1>2. /\ r \in Seq(Msgs) /\ Len(r) = n + 1 /\ r[n + 1] = m
      /\ \A i \in 1..n : r[i] = q[i]
  BY <1>1, AppendProperties
<1>3. \A i \in 1..n : q[i] # m
  <2>1. block[m] # "queue"
    BY DEF PutMsg
  <2> QED
    BY <2>1 DEF Linked
<1>4. \A i, j \in 1..(n + 1) : r[i] = r[j] => i = j
  <2> TAKE i, j \in 1..(n + 1)
  <2>1. \A k \in 1..(n + 1) : k # n + 1 => k \in 1..n
    BY <1>1
  <2> QED
    BY <1>2, <1>3, <2>1 DEF Linked
<1>5. \A i \in 0..n : CellOf(r, i) = CellOf(q, i) /\ CellOf(q, i) \in Cells
  BY <1>1, <1>2 DEF CellOf, Cells
<1>6. /\ link' = [link EXCEPT ![m] = Null, ![last] = m] /\ last' = m
      /\ last = CellOf(q, n)
  BY DEF PutMsg, InsertTail, Linked
<1>7. last # m
  BY <1>1, <1>3, <1>6, MqAssumption DEF CellOf
<1>8. \A c \in Cells : link'[c] = IF c = last THEN m ELSE IF c = m THEN Null ELSE link[c]
  BY <1>6, <1>7 DEF TypeOK
<1>9. \A i \in 0..(n + 1) :
        link'[CellOf(r, i)] = IF i = n + 1 THEN Null ELSE r[i + 1]
  <2> TAKE i \in 0..(n + 1)
  <2>1. CASE i = n + 1
    <3>1. CellOf(r, i) = m /\ m \in Cells
      BY <1>1, <1>2, <2>1 DEF CellOf, Cells
    <3> QED
      BY <1>7, <1>8, <2>1, <3>1
  <2>2. CASE i = n
    <3>1. CellOf(r, i) = last /\ last \in Cells
      BY <1>1, <1>5, <1>6, <2>2
    <3>2. i # n + 1 /\ r[i + 1] = m
      BY <1>1, <1>2, <2>2
    <3> QED
      BY <1>8, <3>1, <3>2
  <2>3. CASE i < n
    <3>1. i \in 0..n /\ i + 1 \in 1..n /\ i # n
      BY <1>1, <2>3
    <3>2. CellOf(q, i) # last
      BY <1>1, <1>6, <3>1, MqAssumption DEF CellOf, Linked
    <3>3. CellOf(q, i) # m
      BY <1>3, <3>1, MqAssumption DEF CellOf
    <3>4. link'[CellOf(r, i)] = link[CellOf(q, i)]
      BY <1>5, <1>8, <3>1, <3>2, <3>3
    <3>5. link[CellOf(q, i)] = q[i + 1]
      BY <3>1 DEF Linked
    <3> QED
      BY <1>1, <1>2, <2>3, <3>1, <3>4, <3>5
  <2> QED
    BY <1>1, <2>1, <2>2, <2>3
<1>10. last' = CellOf(r, Len(r))
  BY <1>1, <1>2, <1>6 DEF CellOf
<1>11. \A b \in Msgs : block'[b] = "queue" <=> \E i \in 1..(n + 1) : r[i] = b
  <2>1. \A b \in Msgs : block'[b] = "queue" <=> b = m \/ block[b] = "queue"
    BY DEF PutMsg, TypeOK
  <2>2. \A b \in Msgs : (\E i \in 1..(n + 1) : r[i] = b)
                         <=> b = m \/ (\E i \in 1..n : q[i] = b)
    <3>1. n + 1 \in 1..(n + 1) /\ \A k \in 1..n : k \in 1..(n + 1)
      BY <1>1
    <3>2. \A k \in 1..(n + 1) : k # n + 1 => k \in 1..n
      BY <1>1
    <3> QED
      BY <1>2, <3>1, <3>2
  <2> QED
    BY <2>1, <2>2 DEF Linked
<1> QED
  BY <1>2, <1>4, <1>9, <1>10, <1>11 DEF Linked
(* mq_getmsg takes the first one. *)
LEMMA GetLinks ==
  ASSUME TypeOK, NEW q, Linked(q), GetMsg
  PROVE  q # <<>> /\ Linked(Tail(q))'
<1> DEFINE r == Tail(q)
           n == Len(q)
<1>1. q \in Seq(Msgs) /\ n \in Nat /\ \A i \in 1..n : q[i] \in Msgs
  BY LenProperties DEF Linked
<1>2. n # 0
  <2>1. SUFFICES ASSUME n = 0 PROVE FALSE
    OBVIOUS
  <2>2. 0 \in 0..n /\ CellOf(q, 0) = Head0
    BY <2>1 DEF CellOf
  <2>3. link[Head0] = Null
    BY <2>1, <2>2 DEF Linked
  <2> QED
    BY <2>3 DEF GetMsg, IsEmpty
<1>3. q # <<>>
  BY <1>2, EmptySeq
<1>4. /\ r \in Seq(Msgs) /\ Len(r) = n - 1 /\ n - 1 \in Nat
      /\ \A i \in 1..(n - 1) : r[i] = q[i + 1]
  BY <1>1, <1>2, <1>3, HeadTailProperties
<1>5. link[Head0] = q[1]
  <2>1. 0 \in 0..n /\ CellOf(q, 0) = Head0
    BY <1>1 DEF CellOf
  <2> QED
    BY <1>2, <2>1 DEF Linked
<1>6. link[q[1]] = IF n = 1 THEN Null ELSE q[2]
  <2>1. 1 \in 0..n /\ CellOf(q, 1) = q[1]
    BY <1>1, <1>2 DEF CellOf
  <2>2. link[CellOf(q, 1)] = IF 1 = n THEN Null ELSE q[1 + 1]
    BY <2>1 DEF Linked
  <2>3. 1 + 1 = 2
    OBVIOUS
  <2> QED
    BY <2>1, <2>2, <2>3
<1>7. /\ link' = [link EXCEPT ![Head0] = IF n = 1 THEN Null ELSE q[2]]
      /\ last' = IF n = 1 THEN Head0 ELSE last
      /\ block' = [block EXCEPT ![q[1]] = "caller"]
  <2>1. n # 1 => q[2] # Null
    BY <1>1, <1>2, MqAssumption
  <2> QED
    BY <1>5, <1>6, <2>1 DEF GetMsg, RemoveHead
<1>8. \A i, j \in 1..(n - 1) : r[i] = r[j] => i = j
  <2> TAKE i, j \in 1..(n - 1)
  <2>1. i + 1 \in 1..n /\ j + 1 \in 1..n
    BY <1>1
  <2>2. r[i] = q[i + 1] /\ r[j] = q[j + 1]
    BY <1>4
  <2>3. r[i] = r[j] => i + 1 = j + 1
    BY <2>1, <2>2 DEF Linked
  <2> QED
    BY <2>3
<1>9. \A i \in 0..(n - 1) :
        link'[CellOf(r, i)] = IF i = n - 1 THEN Null ELSE r[i + 1]
  <2> TAKE i \in 0..(n - 1)
  <2>1. CASE i = 0
    <3>1. CellOf(r, i) = Head0 /\ Head0 \in Cells
      BY <2>1 DEF CellOf, Cells
    <3>2. link'[Head0] = IF n = 1 THEN Null ELSE q[2]
      BY <1>7, <3>1 DEF TypeOK
    <3>3. n # 1 => r[1] = q[2]
      BY <1>1, <1>2, <1>4
    <3>4. i + 1 = 1 /\ (i = n - 1 <=> n = 1)
      BY <1>1, <2>1
    <3> QED
      BY <3>1, <3>2, <3>3, <3>4
  <2>2. CASE i # 0
    <3>1. i \in 1..(n - 1) /\ i + 1 \in 1..n /\ i + 1 \in 0..n /\ i + 1 # 0
      BY <1>1, <2>2
    <3>2. CellOf(r, i) = q[i + 1] /\ CellOf(q, i + 1) = q[i + 1]
      BY <1>4, <2>2, <3>1 DEF CellOf
    <3>3. q[i + 1] \in Cells /\ q[i + 1] # Head0
      BY <1>1, <3>1, MqAssumption DEF Cells
    <3>4. link'[CellOf(r, i)] = link[q[i + 1]]
      BY <1>7, <3>2, <3>3 DEF TypeOK
    <3>5. link[q[i + 1]] = IF i + 1 = n THEN Null ELSE q[(i + 1) + 1]
      BY <3>1, <3>2 DEF Linked
    <3>6. i # n - 1 => i + 1 \in 1..(n - 1)
      BY <1>1, <3>1
    <3>7. i + 1 = n <=> i = n - 1
      BY <1>1, <3>1
    <3> QED
      BY <1>4, <3>4, <3>5, <3>6, <3>7
  <2> QED
    BY <2>1, <2>2
<1>10. last' = CellOf(r, n - 1)
  <2>1. last = q[n]
    BY <1>2 DEF Linked, CellOf
  <2>2. n # 1 => n - 1 \in 1..(n - 1) /\ r[n - 1] = q[n]
    BY <1>1, <1>2, <1>4
  <2> QED
    BY <1>1, <1>7, <2>1, <2>2 DEF CellOf
<1>11. \A b \in Msgs : block'[b] = "queue" <=> \E i \in 1..(n - 1) : r[i] = b
  <2> TAKE b \in Msgs
  <2>1. block'[b] = "queue" <=> b # q[1] /\ block[b] = "queue"
    BY <1>7 DEF TypeOK
  <2>2. ASSUME NEW i \in 1..n, q[i] = b, b # q[1]
        PROVE  \E j \in 1..(n - 1) : r[j] = b
    <3>1. i - 1 \in 1..(n - 1) /\ (i - 1) + 1 = i
      BY <1>1, <2>2
    <3>2. r[i - 1] = b
      BY <1>4, <2>2, <3>1
    <3> QED
      BY <3>1, <3>2
  <2>3. ASSUME NEW j \in 1..(n - 1), r[j] = b
        PROVE  b # q[1] /\ \E i \in 1..n : q[i] = b
    <3>1. j + 1 \in 1..n /\ 1 \in 1..n /\ j + 1 # 1 /\ q[j + 1] = b
      BY <1>1, <1>2, <1>4, <2>3
    <3> QED
      BY <3>1 DEF Linked
  <2>4. block[b] = "queue" <=> \E i \in 1..n : q[i] = b
    BY DEF Linked
  <2> QED
    BY <2>1, <2>2, <2>3, <2>4
<1> QED
  BY <1>3, <1>4, <1>8, <1>9, <1>10, <1>11 DEF Linked

----------------------------------------------------------------------------
(* The invariant and what follows from it *)

LEMMA StepInv == IInv /\ [Next]_vars => IInv'
<1> SUFFICES ASSUME IInv, [Next]_vars PROVE IInv'
  OBVIOUS
<1>1. TypeOK'
  BY TypeStep DEF IInv
<1>2. PICK q \in Seq(Msgs) : Linked(q)
  BY DEF IInv
<1>3. ASSUME NEW m \in Msgs, MsgNew(m) \/ MsgFree(m) PROVE IInv'
  BY <1>1, <1>2, <1>3, BlockLinks DEF IInv
<1>4. ASSUME NEW m \in Msgs, PutMsg(m) PROVE IInv'
  <2>1. Append(q, m) \in Seq(Msgs)
    BY AppendProperties
  <2> QED
    BY <1>1, <1>2, <1>4, <2>1, PutLinks DEF IInv
<1>5. CASE GetMsg
  <2>1. q # <<>> /\ Linked(Tail(q))'
    BY <1>2, <1>5, GetLinks DEF IInv
  <2>2. Tail(q) \in Seq(Msgs)
    BY <2>1, HeadTailProperties
  <2> QED
    BY <1>1, <2>1, <2>2 DEF IInv
<1>6. CASE UNCHANGED vars
  <2>1. Linked(q)'
    BY <1>2, <1>6, SameLinks DEF vars
  <2> QED
    BY <1>1, <2>1 DEF IInv
<1> QED
  BY <1>3, <1>4, <1>5, <1>6 DEF Next

LEMMA QueueInvariance == Spec => []IInv
<1>1. Init => IInv
  BY TypeInit, InitLinks, EmptySeq DEF IInv
<1> QED
  BY <1>1, StepInv, PTL DEF Spec

(***************************************************************************)
(* No pointer is followed into NULL: mq_getmsg reads the next pointer of a *)
(* block, and stqh_last is always the address of a cell.                   *)
(***************************************************************************)
THEOREM PointersTyped == Spec => []TypeOK
BY QueueInvariance, PTL DEF IInv

(***************************************************************************)
(* For any number of blocks, freed and used again in any order: what       *)
(* mq_putmsg writes through and mq_getmsg reads is in the queue.           *)
(***************************************************************************)
THEOREM NothingDangles == Spec => []NoDangling
<1>1. IInv => NoDangling
  <2> SUFFICES ASSUME TypeOK, NEW q, Linked(q) PROVE NoDangling
    BY DEF IInv
  <2>1. Length = Len(q) /\ Chain = q
    BY ChainIsQueue
  <2>2. q \in Seq(Msgs) /\ Len(q) \in Nat /\ \A i \in 1..Len(q) : q[i] \in Msgs
    BY LenProperties DEF Linked
  <2>3. \A k \in 1..Length : Nth[k] = q[k]
    BY <2>1 DEF Chain
  <2>4. \A k \in 1..Len(q) : block[q[k]] = "queue"
    BY <2>2 DEF Linked
  <2>5. last \in Msgs => block[last] = "queue"
    <3>1. CASE Len(q) = 0
      BY <3>1, MqAssumption DEF Linked, CellOf
    <3>2. CASE Len(q) # 0
      BY <2>2, <2>4, <3>2 DEF Linked, CellOf
    <3> QED
      BY <3>1, <3>2
  <2>6. Cardinality({m \in Msgs : block[m] = "queue"}) = Len(q)
    <3>1. {m \in Msgs : block[m] = "queue"} = {m \in Msgs : \E i \in 1..Len(q) : q[i] = m}
      BY DEF Linked
    <3> QED
      BY <2>2, <3>1, QueueFits DEF Linked
  <2> QED
    BY <2>1, <2>3, <2>4, <2>5, <2>6 DEF NoDangling
<1> QED
  BY <1>1, QueueInvariance, PTL
----------------------------------------------------------------------------
(* The refinement *)

LEMMA InitRefines == Init => Queue!Init
<1> SUFFICES ASSUME Init PROVE Chain = <<>>
  BY DEF Queue!Init, Chain
<1> QED
  BY TypeInit, InitLinks, ChainIsQueue

LEMMA StepRefines == IInv /\ IInv' /\ [Next]_vars => [Queue!Next]_Chain
<1> SUFFICES ASSUME IInv, IInv', [Next]_vars PROVE [Queue!Next]_Chain
  OBVIOUS
<1>1. TypeOK /\ TypeOK'
  BY DEF IInv
<1>2. PICK q \in Seq(Msgs) : Linked(q)
  BY DEF IInv
<1>3. Chain = q
  BY <1>1, <1>2, ChainIsQueue
<1>4. ASSUME Linked(q)' PROVE [Queue!Next]_Chain
  BY <1>1, <1>3, <1>4, ChainIsQueueNext
<1>5. ASSUME NEW m \in Msgs, MsgNew(m) \/ MsgFree(m) PROVE [Queue!Next]_Chain
  BY <1>1, <1>2, <1>4, <1>5, BlockLinks
<1>6. ASSUME NEW m \in Msgs, PutMsg(m) PROVE Queue!Next
  <2>1. Chain' = Append(q, m)
    BY <1>1, <1>2, <1>6, PutLinks, ChainIsQueueNext
  <2> QED
    BY <1>3, <2>1 DEF Queue!Next, Queue!Put, Chain
<1>7. CASE GetMsg
  <2>1. q # <<>> /\ Chain' = Tail(q)
    BY <1>1, <1>2, <1>7, GetLinks, ChainIsQueueNext
  <2> QED
    BY <1>3, <2>1 DEF Queue!Next, Queue!Get, Chain
<1>8. CASE UNCHANGED vars
  BY <1>2, <1>4, <1>8, SameLinks DEF vars
<1> QED
  BY <1>5, <1>6, <1>7, <1>8 DEF Next

(***************************************************************************)
(* Whatever is put on a message queue comes off it once and in order: the  *)
(* pointers of sys/queue.h implement Fifo.                                 *)
(***************************************************************************)
THEOREM QueueIsFifo == Spec => ImplementsFifo
<1>1. IInv /\ IInv' /\ [Next]_vars => [Queue!Next]_Chain
  BY StepRefines
<1> QED
  BY <1>1, InitRefines, QueueInvariance, PTL DEF Spec, ImplementsFifo, Queue!Spec, Chain
=============================================================================
