---------------------------- MODULE UthashLists ----------------------------
(*****************************************************************************)
(* Lists in pointers and the buckets made of them: when the prev and next of *)
(* some items string them into a list, what a walk along it returns, what    *)
(* insertion and removal at any place leave; and what the operations on      *)
(* buckets, the doubling of their number included, do to the chains.         *)
(*****************************************************************************)
EXTENDS Uthash, SeqFacts, FiniteSetTheorems

----------------------------------------------------------------------------
(* Lists *)

(* No item is on the list twice, and the items on it. *)
Distinct(q) == \A i, j \in 1..Len(q) : q[i] = q[j] => i = j
Members(q) == {q[i] : i \in 1..Len(q)}

(* Following fw from first visits q and ends at NULL. *)
Onward(fw, q, first) ==
  /\ first = IF q = <<>> THEN NULL ELSE q[1]
  /\ \A i \in 1..Len(q) : fw[q[i]] = IF i = Len(q) THEN NULL ELSE q[i + 1]

(* A doubly linked list: next and prev, or hh_next and hh_prev. *)
Strung(bk, fw, q, first) ==
  /\ q \in Seq(Items) /\ Distinct(q)
  /\ Onward(fw, q, first)
  /\ \A i \in 1..Len(q) : bk[q[i]] = IF i = 1 THEN NULL ELSE q[i - 1]

(* The recursive function in Walk; there is one. *)
WalkOf(fw, w) ==
  [n \in Nat |-> [p \in Ptr \cup {Wild} |->
     IF p \notin Items \/ n = 0 THEN <<>> ELSE <<p>> \o w[n - 1][fw[p]]]]

(* The function inside Walk, with what its recursion says. *)
LEMMA WalkUnfolds ==
  ASSUME NEW fw \in Field
  PROVE  \E w : /\ \A p \in Ptr \cup {Wild} : Walk(fw, p) = w[Cardinality(Items) + 1][p]
                /\ w = WalkOf(fw, w)
<1> DEFINE D == Ptr \cup {Wild}
           X == [D -> Seq(Items)]
           x0 == [p \in D |-> <<>>]
           step == [n \in Nat |-> [w \in X |-> [p \in D |->
                      IF p \notin Items THEN <<>> ELSE <<p>> \o w[fw[p]]]]]
<1>1. x0 \in X
  BY EmptySeq
<1>2. step \in [Nat -> [X -> X]]
  <2> SUFFICES ASSUME NEW w \in X, NEW p \in D, p \in Items
               PROVE  <<p>> \o w[fw[p]] \in Seq(Items)
    BY EmptySeq
  <2>1. fw[p] \in D
    BY DEF Field
  <2>2. w[fw[p]] \in Seq(Items) /\ <<p>> \in Seq(Items)
    BY <2>1
  <2> QED
    BY <2>2, ConcatProperties
<1>3. PICK h \in [Nat -> X] : Iterates(h, x0, step)
  <2> HIDE DEF X, x0, step
  <2> QED
    BY <1>1, <1>2, Iteration
<1>4. h = WalkOf(fw, h)
  <2>1. ASSUME NEW n \in Nat
        PROVE  h[n] = [p \in D |-> IF p \notin Items \/ n = 0 THEN <<>>
                                   ELSE <<p>> \o h[n - 1][fw[p]]]
    <3>1. CASE n = 0
      <4>1. h[0] = x0
        BY <1>3 DEF Iterates
      <4> QED
        BY <3>1, <4>1
    <3>2. CASE n # 0
      <4>1. n - 1 \in Nat /\ (n - 1) + 1 = n
        BY <3>2
      <4>2. h[(n - 1) + 1] = step[n - 1][h[n - 1]] /\ h[n - 1] \in X
        <5> HIDE DEF X, step, x0
        <5> QED
          BY <1>3, <4>1 DEF Iterates
      <4>3. step[n - 1][h[n - 1]] = [p \in D |-> IF p \notin Items THEN <<>>
                                                ELSE <<p>> \o h[n - 1][fw[p]]]
        <5> HIDE DEF X
        <5> QED
          BY <4>1, <4>2
      <4> HIDE DEF X, step, x0
      <4> QED
        BY <3>2, <4>1, <4>2, <4>3
    <3> QED
      BY <3>1, <3>2
  <2>2. h = [n \in Nat |-> h[n]]
    OBVIOUS
  <2> HIDE DEF X
  <2> QED
    BY <2>1, <2>2 DEF WalkOf
<1> DEFINE w0 == CHOOSE w : w = WalkOf(fw, w)
<1>5. w0 = WalkOf(fw, w0)
  BY <1>4
<1>6. ASSUME NEW p \in D PROVE Walk(fw, p) = w0[Cardinality(Items) + 1][p]
  <2>1. Walk(fw, p) = (CHOOSE w : w = WalkOf(fw, w))[Cardinality(Items) + 1][p]
    BY DEF Walk, WalkOf
  <2> QED
    BY <2>1
<1> HIDE DEF w0
<1> QED
  BY <1>5, <1>6

(* A list from its k-th item on. *)
From(q, k) == [i \in 1..(Len(q) - k + 1) |-> q[k + i - 1]]

(* The rest of a list from one of its places. *)
LEMMA FromFacts ==
  ASSUME NEW q \in Seq(Items), NEW k \in 1..Len(q)
  PROVE  /\ From(q, k) \in Seq(Items) /\ Len(From(q, k)) = Len(q) - k + 1
         /\ From(q, k) = <<q[k]>> \o (IF k = Len(q) THEN <<>> ELSE From(q, k + 1))
<1>1. Len(q) \in Nat /\ q \in [1..Len(q) -> Items] /\ k \in Nat /\ k >= 1 /\ k <= Len(q)
  BY LenProperties
<1> DEFINE n == Len(q) - k + 1
           rest == IF k = Len(q) THEN <<>> ELSE From(q, k + 1)
<1>2. n \in Nat /\ \A i \in 1..n : k + i - 1 \in 1..Len(q)
  BY <1>1
<1>3. From(q, k) \in [1..n -> Items]
  BY <1>1, <1>2 DEF From
<1>4. From(q, k) \in Seq(Items) /\ Len(From(q, k)) = n
  <2>1. From(q, k) \in Seq(Items)
    BY <1>2, <1>3, SeqDef
  <2> QED
    BY <1>2, <1>3, <2>1, LenProperties, SameRange
<1>5. rest \in Seq(Items) /\ Len(rest) = Len(q) - k
      /\ \A i \in 1..(Len(q) - k) : rest[i] = q[k + i]
  <2>1. CASE k = Len(q)
    BY <1>1, <2>1, EmptySeq
  <2>2. CASE k # Len(q)
    <3>0. Len(q) \in Nat
      BY <1>1
    <3>1. k + 1 \in 1..Len(q) /\ Len(q) - (k + 1) + 1 = Len(q) - k /\ Len(q) - k \in Nat
      BY <2>2, <3>0
    <3>2. \A i \in 1..(Len(q) - k) : (k + 1) + i - 1 = k + i /\ k + i \in 1..Len(q)
      BY <1>1
    <3>3. From(q, k + 1) = [i \in 1..(Len(q) - k) |-> q[k + i]]
      BY <3>1, <3>2 DEF From
    <3>4. From(q, k + 1) \in [1..(Len(q) - k) -> Items]
      BY <1>1, <3>2, <3>3
    <3>5. From(q, k + 1) \in Seq(Items)
      BY <3>1, <3>4, SeqDef
    <3>6. Len(From(q, k + 1)) = Len(q) - k
      BY <3>1, <3>4, <3>5, LenProperties, SameRange
    <3> QED
      BY <2>2, <3>3, <3>5, <3>6
  <2> QED
    BY <2>1, <2>2
<1>6. From(q, k) = <<q[k]>> \o rest
  <2> DEFINE c == <<q[k]>> \o rest
  <2>1. <<q[k]>> \in Seq(Items) /\ Len(<<q[k]>>) = 1 /\ <<q[k]>>[1] = q[k]
    BY <1>1
  <2> HIDE DEF rest
  <2>2. c \in Seq(Items) /\ Len(c) = 1 + (Len(q) - k)
    BY <1>5, <2>1, ConcatProperties
  <2>3. \A i \in 1..n : c[i] = From(q, k)[i]
    <3> TAKE i \in 1..n
    <3>1. From(q, k)[i] = q[k + i - 1]
      BY DEF From
    <3>2. CASE i = 1
      <4>1. c[1] = q[k]
        BY <1>5, <2>1, ConcatProperties
      <4> QED
        BY <1>1, <3>1, <3>2, <4>1
    <3>3. CASE i # 1
      <4>1. i - 1 \in 1..(Len(q) - k) /\ i = 1 + (i - 1) /\ k + (i - 1) = k + i - 1 /\ i > 1
            /\ i \in 1..(Len(<<q[k]>>) + Len(rest)) /\ i - Len(<<q[k]>>) = i - 1
        BY <1>1, <1>2, <1>5, <2>1, <3>3
      <4>2. c[i] = rest[i - 1]
        BY <1>5, <2>1, <4>1, ConcatProperties
      <4> QED
        BY <1>5, <3>1, <4>1, <4>2
    <3> QED
      BY <3>2, <3>3
  <2>4. 1 + (Len(q) - k) = n
    BY <1>1
  <2> HIDE DEF c
  <2>5. c = [i \in 1..n |-> c[i]] /\ From(q, k) = [i \in 1..n |-> From(q, k)[i]]
    BY <1>3, <2>2, <2>4, LenProperties
  <2> QED
    <3> HIDE DEF n
    <3> QED
      BY <2>3, <2>5 DEF c
<1> QED
  BY <1>4, <1>6

(* A list without repetitions is not longer than there are items. *)
LEMMA NoMoreThanItems ==
  ASSUME NEW q \in Seq(Items), Distinct(q)
  PROVE  /\ Len(q) \in Nat /\ Cardinality(Items) \in Nat /\ Len(q) <= Cardinality(Items)
         /\ IsFiniteSet(Members(q)) /\ Cardinality(Members(q)) = Len(q)
<1>1. Len(q) \in Nat /\ q \in [1..Len(q) -> Items]
  BY LenProperties
<1>2. q \in Bijection(1..Len(q), Members(q))
  BY <1>1 DEF Bijection, Injection, Surjection, IsInjective, Members, Distinct
<1>3. IsFiniteSet(1..Len(q)) /\ Cardinality(1..Len(q)) = Len(q)
  BY <1>1, FS_Interval
<1>4. IsFiniteSet(Members(q)) /\ Cardinality(Members(q)) = Len(q)
  BY <1>2, <1>3, FS_Bijection DEF ExistsBijection
<1>5. Members(q) \subseteq Items
  BY <1>1 DEF Members
<1>6. Cardinality(Members(q)) <= Cardinality(Items) /\ Cardinality(Items) \in Nat
  BY <1>5, FS_Subset, FS_CardinalityType, UthashAssumption
<1> QED
  BY <1>1, <1>4, <1>6

(* A walk along a list returns the list. *)
LEMMA WalkAlong ==
  ASSUME NEW fw \in Field, NEW q \in Seq(Items), Distinct(q), NEW first, Onward(fw, q, first)
  PROVE  Walk(fw, first) = q
<1>1. Len(q) \in Nat /\ q \in [1..Len(q) -> Items]
  BY LenProperties
<1>2. PICK w : /\ \A p \in Ptr \cup {Wild} : Walk(fw, p) = w[Cardinality(Items) + 1][p]
               /\ w = WalkOf(fw, w)
  BY WalkUnfolds
<1>3. \A n \in Nat : \A p \in Ptr \cup {Wild} :
        w[n][p] = IF p \notin Items \/ n = 0 THEN <<>> ELSE <<p>> \o w[n - 1][fw[p]]
  <2>1. \A n \in Nat : w[n] = [p \in Ptr \cup {Wild} |->
           IF p \notin Items \/ n = 0 THEN <<>> ELSE <<p>> \o w[n - 1][fw[p]]]
    BY <1>2 DEF WalkOf
  <2> QED
    BY <2>1
<1>4. \A n \in Nat : w[n][NULL] = <<>>
  BY <1>3, UthashAssumption DEF Ptr
<1> DEFINE T == {n \in Nat : \A k \in 1..Len(q) : Len(q) - k + 1 <= n => w[n][q[k]] = From(q, k)}
<1>5. 0 \in T
  BY <1>1
<1>6. ASSUME NEW n \in Nat, n \in T PROVE n + 1 \in T
  <2> SUFFICES ASSUME NEW k \in 1..Len(q), Len(q) - k + 1 <= n + 1
               PROVE  w[n + 1][q[k]] = From(q, k)
    OBVIOUS
  <2>1. q[k] \in Items /\ n + 1 \in Nat /\ n + 1 # 0 /\ (n + 1) - 1 = n
    BY <1>1
  <2>2. w[n + 1][q[k]] = <<q[k]>> \o w[n][fw[q[k]]]
    <3>1. w[n + 1][q[k]] = <<q[k]>> \o w[(n + 1) - 1][fw[q[k]]]
      <4> HIDE DEF T
      <4> QED
        BY <1>3, <2>1 DEF Ptr
    <3> QED
      BY <2>1, <3>1
  <2>3. w[n][fw[q[k]]] = IF k = Len(q) THEN <<>> ELSE From(q, k + 1)
    <3>1. CASE k = Len(q)
      <4>1. fw[q[k]] = NULL
        BY <3>1 DEF Onward
      <4> QED
        BY <1>4, <3>1, <4>1
    <3>2. CASE k # Len(q)
      <4>1. fw[q[k]] = q[k + 1]
        BY <3>2 DEF Onward
      <4>0. Len(q) \in Nat
        BY <1>1
      <4>2. k + 1 \in 1..Len(q) /\ Len(q) - (k + 1) + 1 <= n
        BY <3>2, <4>0
      <4>3. w[n][q[k + 1]] = From(q, k + 1)
        BY <1>6, <4>2
      <4> QED
        BY <3>2, <4>1, <4>3
    <3> QED
      BY <3>1, <3>2
  <2>4. From(q, k) = <<q[k]>> \o (IF k = Len(q) THEN <<>> ELSE From(q, k + 1))
    BY FromFacts
  <2> QED
    BY <2>2, <2>3, <2>4
<1> HIDE DEF T
<1>7. \A n \in Nat : n \in T
  BY <1>5, <1>6, Induction
<1>8. Cardinality(Items) \in Nat /\ Len(q) <= Cardinality(Items)
  BY NoMoreThanItems
<1>9. CASE q = <<>>
  <2>1. first = NULL
    BY <1>9 DEF Onward
  <2> QED
    BY <1>2, <1>4, <1>8, <1>9, <2>1 DEF Ptr
<1>10. CASE q # <<>>
  <2>1. first = q[1]
    BY <1>10 DEF Onward
  <2>2. Len(q) >= 1
    BY <1>1, <1>10, EmptySeq
  <2>3. 1 \in 1..Len(q) /\ q[1] \in Items /\ Len(q) - 1 + 1 <= Cardinality(Items) + 1
        /\ Cardinality(Items) + 1 \in Nat
    BY <1>1, <1>8, <2>2
  <2>4. w[Cardinality(Items) + 1][q[1]] = From(q, 1)
    BY <1>7, <2>3 DEF T
  <2>5. From(q, 1) = q
    <3>1. Len(q) - 1 + 1 = Len(q) /\ \A i \in 1..Len(q) : 1 + i - 1 = i
      BY <1>1
    <3>2. From(q, 1) = [i \in 1..Len(q) |-> q[i]]
      BY <3>1 DEF From
    <3> QED
      BY <1>1, <3>2
  <2> QED
    BY <1>2, <2>1, <2>3, <2>4, <2>5 DEF Ptr
<1> QED
  BY <1>9, <1>10
----------------------------------------------------------------------------
(* Insertion before the k-th item, or at the end; removal of the k-th. *)

(* e in the k-th place of q, and q without its k-th item. *)
Ins(q, k, e) ==
  [i \in 1..(Len(q) + 1) |-> IF i < k THEN q[i] ELSE IF i = k THEN e ELSE q[i - 1]]
Del(q, k) == [i \in 1..(Len(q) - 1) |-> IF i < k THEN q[i] ELSE q[i + 1]]

(* Insertion adds one item and repeats none. *)
LEMMA InsFacts ==
  ASSUME NEW q \in Seq(Items), NEW k \in 1..(Len(q) + 1), NEW e \in Items
  PROVE  /\ Ins(q, k, e) \in Seq(Items) /\ Len(Ins(q, k, e)) = Len(q) + 1
         /\ Members(Ins(q, k, e)) = Members(q) \cup {e}
         /\ Distinct(q) /\ e \notin Members(q) => Distinct(Ins(q, k, e))
<1> DEFINE r == Ins(q, k, e)
           n == Len(q)
<1>0. n \in Nat
  BY LenProperties
<1>1. q \in [1..n -> Items]
  BY LenProperties
<1>2. /\ n + 1 \in Nat /\ k \in 1..(n + 1)
      /\ \A i \in 1..(n + 1) : i < k => i \in 1..n
      /\ \A i \in 1..(n + 1) : i > k => i - 1 \in 1..n
      /\ \A i \in 1..n : i < k => i \in 1..(n + 1)
      /\ \A i \in 1..n : i >= k => i + 1 \in 1..(n + 1) /\ i + 1 > k /\ (i + 1) - 1 = i
      /\ \A i \in 1..(n + 1) : i < k \/ i = k \/ i > k
  BY <1>0
<1>3. \A i \in 1..(n + 1) : r[i] = IF i < k THEN q[i] ELSE IF i = k THEN e ELSE q[i - 1]
  BY DEF Ins
<1>4. \A i \in 1..(n + 1) : r[i] \in Items
  BY <1>1, <1>2, <1>3
<1>5. r \in [1..(n + 1) -> Items]
  BY <1>4 DEF Ins
<1>6. r \in Seq(Items)
  BY <1>2, <1>5, SeqDef
<1>7. Len(r) = n + 1
  BY <1>2, <1>5, <1>6, LenProperties, SameRange
<1> HIDE DEF r
<1>8. Members(r) = Members(q) \cup {e}
  <2>1. ASSUME NEW x \in Members(r) PROVE x \in Members(q) \cup {e}
    <3>1. PICK i \in 1..(n + 1) : x = r[i]
      BY <1>7 DEF Members
    <3> QED
      BY <1>2, <1>3, <3>1 DEF Members
  <2>2. ASSUME NEW x \in Members(q) PROVE x \in Members(r)
    <3>1. PICK i \in 1..n : x = q[i]
      BY DEF Members
    <3>2. CASE i < k
      <4>1. i \in 1..(n + 1) /\ r[i] = x
        BY <1>2, <1>3, <3>1, <3>2
      <4> QED
        BY <1>7, <4>1 DEF Members
    <3>3. CASE ~(i < k)
      <4>1. i >= k
        BY <1>0, <3>3
      <4>2. i + 1 \in 1..(n + 1) /\ i + 1 > k /\ (i + 1) - 1 = i
        BY <1>2, <4>1
      <4>3. r[i + 1] = x
        <5>1. ~(i + 1 < k) /\ i + 1 # k
          BY <4>2
        <5> QED
          BY <1>3, <3>1, <4>2, <5>1
      <4> QED
        BY <1>7, <4>2, <4>3 DEF Members
    <3> QED
      BY <3>2, <3>3
  <2>3. e \in Members(r)
    <3>1. r[k] = e
      BY <1>2, <1>3
    <3> QED
      BY <1>2, <1>7, <3>1 DEF Members
  <2> QED
    BY <2>1, <2>2, <2>3
<1>9. ASSUME Distinct(q), e \notin Members(q) PROVE Distinct(r)
  <2>1. \A i \in 1..n : q[i] # e
    BY <1>9 DEF Members
  <2> SUFFICES ASSUME NEW i \in 1..(n + 1), NEW j \in 1..(n + 1), r[i] = r[j] PROVE i = j
    BY <1>7 DEF Distinct
  <2>2. CASE i = k
    <3>1. r[j] = e
      BY <1>3, <2>2
    <3>2. ~(j < k) /\ ~(j > k)
      BY <1>2, <1>3, <2>1, <3>1
    <3> QED
      BY <2>2, <3>2, <1>2
  <2>3. CASE j = k
    <3>1. r[i] = e
      BY <1>3, <2>3
    <3>2. ~(i < k) /\ ~(i > k)
      BY <1>2, <1>3, <2>1, <3>1
    <3> QED
      BY <2>3, <3>2, <1>2
  <2>4. CASE i # k /\ j # k
    <3> DEFINE i0 == IF i < k THEN i ELSE i - 1
               j0 == IF j < k THEN j ELSE j - 1
    <3>1. i0 \in 1..n /\ r[i] = q[i0] /\ j0 \in 1..n /\ r[j] = q[j0]
      BY <1>2, <1>3, <2>4
    <3>2. i0 = j0
      BY <1>9, <3>1 DEF Distinct
    <3> QED
      BY <2>4, <3>2
  <2> QED
    BY <2>2, <2>3, <2>4
<1> QED
  BY <1>6, <1>7, <1>8, <1>9 DEF r

(* Removal takes out one item and repeats none. *)
LEMMA DelFacts ==
  ASSUME NEW q \in Seq(Items), NEW k \in 1..Len(q), Distinct(q)
  PROVE  /\ Del(q, k) \in Seq(Items) /\ Len(Del(q, k)) = Len(q) - 1
         /\ Members(Del(q, k)) = Members(q) \ {q[k]}
         /\ Distinct(Del(q, k))
<1> DEFINE r == Del(q, k)
           n == Len(q)
<1>0. n \in Nat
  BY LenProperties
<1>1. q \in [1..n -> Items]
  BY LenProperties
<1>2. /\ n - 1 \in Nat /\ k \in 1..n
      /\ \A i \in 1..(n - 1) : i \in 1..n /\ i + 1 \in 1..n
      /\ \A i \in 1..n : i < k => i \in 1..(n - 1)
      /\ \A i \in 1..n : i > k => i - 1 \in 1..(n - 1) /\ ~(i - 1 < k) /\ (i - 1) + 1 = i
      /\ \A i \in 1..n : i < k \/ i = k \/ i > k
  BY <1>0
<1>3. \A i \in 1..(n - 1) : r[i] = IF i < k THEN q[i] ELSE q[i + 1]
  BY DEF Del
<1>4. r \in [1..(n - 1) -> Items]
  <2>1. \A i \in 1..(n - 1) : r[i] \in Items
    BY <1>1, <1>2, <1>3
  <2> QED
    BY <2>1 DEF Del
<1>5. n - 1 \in Nat
  BY <1>2
<1>6. r \in Seq(Items) /\ Len(r) = n - 1
  <2>1. r \in Seq(Items)
    BY <1>4, <1>5, SeqDef
  <2> QED
    BY <1>4, <1>5, <2>1, LenProperties, SameRange
<1> HIDE DEF r
<1> DEFINE at(i) == IF i < k THEN i ELSE i + 1
<1>7. \A i \in 1..(n - 1) : at(i) \in 1..n /\ at(i) # k /\ r[i] = q[at(i)]
  BY <1>2, <1>3
<1>8. Members(r) = Members(q) \ {q[k]}
  <2>1. ASSUME NEW x \in Members(r) PROVE x \in Members(q) \ {q[k]}
    <3>1. PICK i \in 1..(n - 1) : x = r[i]
      BY <1>6 DEF Members
    <3>2. at(i) \in 1..n /\ at(i) # k /\ x = q[at(i)]
      BY <1>7, <3>1
    <3> HIDE DEF at
    <3> QED
      BY <1>2, <3>2 DEF Members, Distinct
  <2>2. ASSUME NEW x \in Members(q), x # q[k] PROVE x \in Members(r)
    <3>1. PICK i \in 1..n : x = q[i]
      BY DEF Members
    <3>2. CASE i < k
      <4>1. i \in 1..(n - 1) /\ r[i] = x
        BY <1>2, <1>3, <3>1, <3>2
      <4> QED
        BY <1>6, <4>1 DEF Members
    <3>3. CASE i > k
      <4>1. i - 1 \in 1..(n - 1) /\ r[i - 1] = x
        BY <1>2, <1>3, <3>1, <3>3
      <4> QED
        BY <1>6, <4>1 DEF Members
    <3> QED
      BY <1>2, <2>2, <3>1, <3>2, <3>3
  <2> QED
    BY <2>1, <2>2
<1>9. Distinct(r)
  <2> SUFFICES ASSUME NEW i \in 1..(n - 1), NEW j \in 1..(n - 1), r[i] = r[j] PROVE i = j
    BY <1>6 DEF Distinct
  <2>1. at(i) = at(j)
    <3> HIDE DEF at
    <3> QED
      BY <1>7 DEF Distinct
  <2> QED
    BY <2>1
<1> QED
  BY <1>6, <1>8, <1>9 DEF r

(* What bk2 and fw2 are once e is linked in, in the k-th place. *)
Inserts(bk, fw, q, k, e, bk2, fw2) ==
  /\ bk2[e] = IF k = 1 THEN NULL ELSE q[k - 1]
  /\ fw2[e] = IF k = Len(q) + 1 THEN NULL ELSE q[k]
  /\ \A i \in 1..Len(q) : bk2[q[i]] = IF i = k THEN e ELSE bk[q[i]]
  /\ \A i \in 1..Len(q) : fw2[q[i]] = IF i = k - 1 THEN e ELSE fw[q[i]]

(* Four pointers are enough: the list with e in it is strung again. *)
LEMMA InsStrung ==
  ASSUME NEW bk, NEW fw, NEW q, NEW first, Strung(bk, fw, q, first),
         NEW e \in Items, e \notin Members(q), NEW k \in 1..(Len(q) + 1),
         NEW bk2, NEW fw2, Inserts(bk, fw, q, k, e, bk2, fw2)
  PROVE  Strung(bk2, fw2, Ins(q, k, e), IF k = 1 THEN e ELSE first)
<1> DEFINE r == Ins(q, k, e)
           n == Len(q)
<1>1. /\ q \in Seq(Items) /\ Distinct(q)
      /\ \A i \in 1..n : fw[q[i]] = IF i = n THEN NULL ELSE q[i + 1]
      /\ \A i \in 1..n : bk[q[i]] = IF i = 1 THEN NULL ELSE q[i - 1]
      /\ first = IF q = <<>> THEN NULL ELSE q[1]
  BY DEF Strung, Onward
<1>2. r \in Seq(Items) /\ Len(r) = n + 1 /\ Distinct(r)
  BY <1>1, InsFacts
<1>3. n \in Nat
  BY <1>1, LenProperties
<1>4. \A i \in 1..(n + 1) : r[i] = IF i < k THEN q[i] ELSE IF i = k THEN e ELSE q[i - 1]
  BY DEF Ins
<1> HIDE DEF r
<1>5. Inserts(bk, fw, q, k, e, bk2, fw2)
  OBVIOUS
<1>6. ASSUME NEW i \in 1..(n + 1) PROVE bk2[r[i]] = IF i = 1 THEN NULL ELSE r[i - 1]
  <2>1. CASE i < k
    <3>1. i \in 1..n /\ i # k /\ (i # 1 => i - 1 \in 1..(n + 1) /\ i - 1 < k)
      BY <1>3, <2>1
    <3>2. bk2[q[i]] = bk[q[i]]
      BY <1>5, <3>1 DEF Inserts
    <3> QED
      BY <1>1, <1>4, <2>1, <3>1, <3>2
  <2>2. CASE i = k
    <3>1. i # 1 => i - 1 \in 1..(n + 1) /\ i - 1 < k
      BY <1>3, <2>2
    <3> QED
      BY <1>4, <1>5, <2>2, <3>1 DEF Inserts
  <2>3. CASE i > k
    <3>1. i - 1 \in 1..n /\ i # 1 /\ ~(i < k) /\ i # k
      BY <1>3, <2>3
    <3>2. r[i] = q[i - 1]
      BY <1>4, <3>1
    <3>3. CASE i - 1 = k
      <4>1. bk2[q[i - 1]] = e /\ r[i - 1] = e
        <5>1. ~(i - 1 < k) /\ i - 1 \in 1..(n + 1)
          BY <1>3, <3>3
        <5> QED
          BY <1>4, <1>5, <3>1, <3>3, <5>1 DEF Inserts
      <4> QED
        BY <3>1, <3>2, <4>1
    <3>4. CASE i - 1 # k
      <4>1. i - 1 \in 1..(n + 1) /\ ~(i - 1 < k) /\ i - 1 # 1 /\ (i - 1) - 1 = i - 2
        BY <1>3, <2>3, <3>4
      <4>2. r[i - 1] = q[i - 2]
        BY <1>4, <3>4, <4>1
      <4>3. bk2[q[i - 1]] = bk[q[i - 1]]
        BY <1>5, <3>1, <3>4 DEF Inserts
      <4>4. bk[q[i - 1]] = q[(i - 1) - 1]
        BY <1>1, <3>1, <4>1
      <4> QED
        BY <3>1, <3>2, <4>1, <4>2, <4>3, <4>4
    <3> QED
      BY <3>3, <3>4
  <2> QED
    BY <2>1, <2>2, <2>3
<1>7. ASSUME NEW i \in 1..(n + 1) PROVE fw2[r[i]] = IF i = n + 1 THEN NULL ELSE r[i + 1]
  <2>1. CASE i < k
    <3>1. i \in 1..n /\ i # n + 1 /\ i + 1 \in 1..(n + 1)
      BY <1>3, <2>1
    <3>2. r[i] = q[i]
      BY <1>4, <2>1
    <3>3. CASE i = k - 1
      <4>1. fw2[q[i]] = e /\ i + 1 = k /\ ~(i + 1 < k)
        BY <1>5, <3>1, <3>3 DEF Inserts
      <4>2. r[i + 1] = e
        BY <1>4, <3>1, <4>1
      <4> QED
        BY <3>1, <3>2, <4>1, <4>2
    <3>4. CASE i # k - 1
      <4>1. i + 1 < k /\ i # n
        BY <1>3, <2>1, <3>4
      <4>2. fw2[q[i]] = fw[q[i]] /\ fw[q[i]] = q[i + 1] /\ r[i + 1] = q[i + 1]
        BY <1>1, <1>4, <1>5, <3>1, <3>4, <4>1 DEF Inserts
      <4> QED
        BY <3>1, <3>2, <4>2
    <3> QED
      BY <3>3, <3>4
  <2>2. CASE i = k
    <3>1. i # n + 1 => i + 1 \in 1..(n + 1) /\ ~(i + 1 < k) /\ i + 1 # k /\ (i + 1) - 1 = i
      BY <1>3, <2>2
    <3>2. r[i] = e
      BY <1>4, <2>2
    <3>3. i # n + 1 => r[i + 1] = q[i]
      <4> SUFFICES ASSUME i # n + 1 PROVE r[i + 1] = q[i]
        OBVIOUS
      <4>1. r[i + 1] = q[(i + 1) - 1]
        BY <1>4, <3>1
      <4> QED
        BY <3>1, <4>1
    <3> QED
      BY <1>5, <2>2, <3>2, <3>3 DEF Inserts
  <2>3. CASE i > k
    <3>1. i - 1 \in 1..n /\ ~(i < k) /\ i # k /\ i - 1 # k - 1 /\ (i - 1) + 1 = i
      BY <1>3, <2>3
    <3>2. r[i] = q[i - 1] /\ fw2[q[i - 1]] = fw[q[i - 1]]
      BY <1>4, <1>5, <3>1 DEF Inserts
    <3>3. fw[q[i - 1]] = IF i - 1 = n THEN NULL ELSE q[i]
      BY <1>1, <3>1
    <3>4. i # n + 1 => r[i + 1] = q[i]
      <4> SUFFICES ASSUME i # n + 1 PROVE r[i + 1] = q[i]
        OBVIOUS
      <4>1. i + 1 \in 1..(n + 1) /\ ~(i + 1 < k) /\ i + 1 # k /\ (i + 1) - 1 = i
        BY <1>3, <2>3
      <4>2. r[i + 1] = q[(i + 1) - 1]
        BY <1>4, <4>1
      <4> QED
        BY <4>1, <4>2
    <3>5. i - 1 = n <=> i = n + 1
      BY <1>3
    <3> QED
      BY <3>2, <3>3, <3>4, <3>5
  <2> QED
    BY <2>1, <2>2, <2>3
<1>8. r # <<>> /\ r[1] = IF k = 1 THEN e ELSE first
  <2>1. r # <<>> /\ 1 \in 1..(n + 1)
    BY <1>2, <1>3, EmptySeq
  <2>2. k # 1 => 1 < k /\ q # <<>>
    BY <1>3, EmptySeq
  <2> QED
    BY <1>1, <1>4, <2>1, <2>2
<1> QED
  BY <1>2, <1>6, <1>7, <1>8 DEF Strung, Onward, r

(* What bk2 and fw2 are once the k-th item is unlinked: its neighbours take *)
(* its own pointers, as in HASH_DELETE_HH and HASH_DEL_IN_BKT.              *)
Removes(bk, fw, q, k, bk2, fw2) ==
  /\ \A i \in 1..Len(q) :
       i # k => bk2[q[i]] = IF i = k + 1 THEN bk[q[k]] ELSE bk[q[i]]
  /\ \A i \in 1..Len(q) :
       i # k => fw2[q[i]] = IF i = k - 1 THEN fw[q[k]] ELSE fw[q[i]]

(* Two pointers are enough: the list without the item is strung again. *)
LEMMA DelStrung ==
  ASSUME NEW bk, NEW fw, NEW q, NEW first, Strung(bk, fw, q, first),
         NEW k \in 1..Len(q), NEW bk2, NEW fw2, Removes(bk, fw, q, k, bk2, fw2)
  PROVE  Strung(bk2, fw2, Del(q, k), IF k = 1 THEN fw[q[1]] ELSE first)
<1> DEFINE r == Del(q, k)
           n == Len(q)
<1>1. /\ q \in Seq(Items) /\ Distinct(q)
      /\ \A i \in 1..n : fw[q[i]] = IF i = n THEN NULL ELSE q[i + 1]
      /\ \A i \in 1..n : bk[q[i]] = IF i = 1 THEN NULL ELSE q[i - 1]
      /\ first = IF q = <<>> THEN NULL ELSE q[1]
  BY DEF Strung, Onward
<1>2. r \in Seq(Items) /\ Len(r) = n - 1 /\ Distinct(r)
  BY <1>1, DelFacts
<1>3. n \in Nat
  BY <1>1, LenProperties
<1>4. \A i \in 1..(n - 1) : r[i] = IF i < k THEN q[i] ELSE q[i + 1]
  BY DEF Del
<1> HIDE DEF r
<1>5. Removes(bk, fw, q, k, bk2, fw2)
  OBVIOUS
<1>6. ASSUME NEW i \in 1..(n - 1) PROVE bk2[r[i]] = IF i = 1 THEN NULL ELSE r[i - 1]
  <2>1. CASE i < k
    <3>1. i \in 1..n /\ i # k /\ i # k + 1 /\ (i # 1 => i - 1 \in 1..(n - 1) /\ i - 1 < k)
      BY <1>3, <2>1
    <3>2. bk2[q[i]] = bk[q[i]]
      BY <1>5, <3>1 DEF Removes
    <3> QED
      BY <1>1, <1>4, <2>1, <3>1, <3>2
  <2>2. CASE i = k
    <3>1. i + 1 \in 1..n /\ i + 1 # k /\ i + 1 = k + 1 /\ ~(i < k)
          /\ (i # 1 => i - 1 \in 1..(n - 1) /\ i - 1 < k)
      BY <1>3, <2>2
    <3>2. r[i] = q[i + 1] /\ bk2[q[i + 1]] = bk[q[k]]
      BY <1>4, <1>5, <3>1 DEF Removes
    <3> QED
      BY <1>1, <1>4, <2>2, <3>1, <3>2
  <2>3. CASE i > k
    <3>1. i + 1 \in 1..n /\ i + 1 # k /\ i + 1 # k + 1 /\ ~(i < k) /\ i # 1 /\ i + 1 # 1
          /\ i - 1 \in 1..(n - 1) /\ ~(i - 1 < k) /\ (i - 1) + 1 = i /\ (i + 1) - 1 = i
      BY <1>3, <2>3
    <3>2. r[i] = q[i + 1] /\ bk2[q[i + 1]] = bk[q[i + 1]]
      BY <1>4, <1>5, <3>1 DEF Removes
    <3>3. r[i - 1] = q[(i - 1) + 1] /\ bk[q[i + 1]] = q[(i + 1) - 1]
      BY <1>1, <1>4, <3>1
    <3> QED
      BY <3>1, <3>2, <3>3
  <2> QED
    BY <2>1, <2>2, <2>3
<1>7. ASSUME NEW i \in 1..(n - 1) PROVE fw2[r[i]] = IF i = n - 1 THEN NULL ELSE r[i + 1]
  <2>1. CASE i < k
    <3>1. i \in 1..n /\ i # k /\ r[i] = q[i]
      BY <1>3, <1>4, <2>1
    <3>2. CASE i = k - 1
      <4>1. fw2[q[i]] = fw[q[k]] /\ (i = n - 1 <=> k = n)
            /\ (k # n => i + 1 \in 1..(n - 1) /\ ~(i + 1 < k) /\ i + 1 = k)
        <5>1. (i = n - 1 <=> k = n) /\ (k # n => i + 1 \in 1..(n - 1) /\ ~(i + 1 < k) /\ i + 1 = k)
          BY <1>3, <3>2
        <5> QED
          BY <1>5, <3>1, <3>2, <5>1 DEF Removes
      <4>2. fw[q[k]] = IF k = n THEN NULL ELSE q[k + 1]
        BY <1>1
      <4>3. k # n => r[k] = q[k + 1]
        BY <1>4, <4>1
      <4> QED
        BY <3>1, <4>1, <4>2, <4>3
    <3>3. CASE i # k - 1
      <4>1. i + 1 < k /\ i # n /\ i # n - 1 /\ i + 1 \in 1..(n - 1)
        BY <1>3, <2>1, <3>3
      <4>2. fw2[q[i]] = fw[q[i]] /\ fw[q[i]] = q[i + 1] /\ r[i + 1] = q[i + 1]
        BY <1>1, <1>4, <1>5, <3>1, <3>3, <4>1 DEF Removes
      <4> QED
        BY <3>1, <4>1, <4>2
    <3> QED
      BY <3>2, <3>3
  <2>2. CASE ~(i < k)
    <3>1. i + 1 \in 1..n /\ i + 1 # k /\ i + 1 # k - 1 /\ (i + 1 = n <=> i = n - 1)
          /\ (i # n - 1 => i + 1 \in 1..(n - 1) /\ ~(i + 1 < k))
      BY <1>3, <2>2
    <3>2. r[i] = q[i + 1] /\ fw2[q[i + 1]] = fw[q[i + 1]]
      BY <1>4, <1>5, <2>2, <3>1 DEF Removes
    <3>3. fw[q[i + 1]] = IF i + 1 = n THEN NULL ELSE q[(i + 1) + 1]
      BY <1>1, <3>1
    <3>4. i # n - 1 => r[i + 1] = q[(i + 1) + 1]
      BY <1>4, <3>1
    <3> QED
      BY <3>1, <3>2, <3>3, <3>4
  <2> QED
    BY <2>1, <2>2
<1>8. (IF k = 1 THEN fw[q[1]] ELSE first) = IF r = <<>> THEN NULL ELSE r[1]
  <2>1. CASE n = 1
    <3>1. r = <<>> /\ k = 1
      BY <1>2, <1>3, <2>1, EmptySeq
    <3>2. fw[q[1]] = NULL
      <4>1. 1 \in 1..n
        BY <2>1
      <4> QED
        BY <1>1, <2>1, <4>1
    <3> QED
      BY <3>1, <3>2
  <2>2. CASE n # 1
    <3>0. k \in Nat /\ k >= 1 /\ k <= n
      BY <1>3
    <3>1. 1 \in 1..n /\ 1 \in 1..(n - 1) /\ (k # 1 => 1 < k)
      <4> HIDE DEF n
      <4> QED
        BY <1>3, <2>2, <3>0
    <3>2. r # <<>> /\ q # <<>>
      BY <1>2, <1>3, <3>1, EmptySeq
    <3>3. fw[q[1]] = q[2] /\ r[1] = IF k = 1 THEN q[2] ELSE q[1]
      <4>1. fw[q[1]] = q[1 + 1]
        BY <1>1, <2>2, <3>1
      <4>2. r[1] = IF 1 < k THEN q[1] ELSE q[1 + 1]
        BY <1>4, <3>1
      <4> QED
        BY <3>1, <4>1, <4>2
    <3> QED
      BY <1>1, <3>2, <3>3
  <2> QED
    BY <2>1, <2>2
<1> QED
  BY <1>2, <1>6, <1>7, <1>8 DEF Strung, Onward, r

(* Links of other items do not matter. *)
LEMMA StrungSame ==
  ASSUME NEW bk, NEW fw, NEW q, NEW first, Strung(bk, fw, q, first), NEW bk2, NEW fw2,
         \A x \in Members(q) : bk2[x] = bk[x] /\ fw2[x] = fw[x]
  PROVE  Strung(bk2, fw2, q, first)
<1>1. \A i \in 1..Len(q) : bk2[q[i]] = bk[q[i]] /\ fw2[q[i]] = fw[q[i]]
  BY DEF Members
<1> QED
  BY <1>1 DEF Strung, Onward

(* The members of a list are items, and are what ToSet says. *)
LEMMA MembersItems ==
  ASSUME NEW q \in Seq(Items)
  PROVE  /\ Members(q) \subseteq Items
         /\ Members(q) = {} <=> q = <<>>
         /\ Members(q) = ToSet(q)
         /\ Len(q) \in Nat /\ DOMAIN q = 1..Len(q)
         /\ \A i \in 1..Len(q) : q[i] \in Members(q)
<1>1. Len(q) \in Nat /\ q \in [1..Len(q) -> Items]
  BY LenProperties
<1>2. Members(q) \subseteq Items
  BY <1>1 DEF Members
<1>3. ASSUME q # <<>> PROVE Members(q) # {}
  <2>1. Len(q) # 0
    BY <1>3, EmptySeq
  <2>2. 1 \in 1..Len(q)
    BY <1>1, <2>1
  <2> QED
    BY <2>2 DEF Members
<1>4. ASSUME q = <<>> PROVE Members(q) = {}
  <2>1. Len(q) = 0
    BY <1>4, EmptySeq
  <2>2. 1..Len(q) = {}
    BY <2>1
  <2> QED
    BY <2>2 DEF Members
<1>5. Members(q) = ToSet(q)
  BY <1>1 DEF Members, ToSet
<1> QED
  BY <1>1, <1>2, <1>3, <1>4, <1>5 DEF Members

(* The first that is in S: none, or the one if there is one. *)
LEMMA FirstInFacts ==
  ASSUME NEW q \in Seq(Items), NEW S
  PROVE  /\ Members(q) \cap S = {} => FirstIn(q, S) = NULL
         /\ Members(q) \cap S # {} =>
              \E k \in 1..Len(q) : q[k] \in S /\ FirstIn(q, S) = q[k]
<1> DEFINE hits == {i \in DOMAIN q : q[i] \in S}
<1>1. Len(q) \in Nat /\ DOMAIN q = 1..Len(q)
  BY LenProperties
<1>2. FirstIn(q, S) = IF hits = {} THEN NULL ELSE q[Min(hits)]
  BY DEF FirstIn
<1>3. ASSUME Members(q) \cap S = {} PROVE hits = {}
  BY <1>1, <1>3 DEF Members
<1>4. ASSUME Members(q) \cap S # {}
      PROVE  \E k \in 1..Len(q) : q[k] \in S /\ FirstIn(q, S) = q[k]
  <2>1. hits # {}
    BY <1>1, <1>4 DEF Members
  <2>2. hits \subseteq Nat
    BY <1>1
  <2> HIDE DEF hits
  <2>3. \E x \in hits : \A y \in hits : x <= y
    BY <2>1, <2>2, LeastElement
  <2>4. Min(hits) \in hits
    BY <2>3 DEF Min
  <2> USE DEF hits
  <2>5. Min(hits) \in 1..Len(q) /\ q[Min(hits)] \in S
    <3>1. Min(hits) \in {i \in DOMAIN q : q[i] \in S}
      BY <2>4
    <3> HIDE DEF hits
    <3> QED
      BY <1>1, <3>1
  <2> QED
    BY <1>2, <2>1, <2>5
<1> QED
  BY <1>2, <1>3, <1>4

----------------------------------------------------------------------------
(* Buckets *)

(* Bit counts in powers of two: it is what its recursion says. *)
LEMMA BitFacts ==
  /\ Bit[0] = 1
  /\ \A n \in Nat : Bit[n] \in Nat \ {0} /\ Bit[n + 1] = 2 * Bit[n]
<1> DEFINE X == Nat \ {0}
           step == [n \in Nat |-> [x \in X |-> 2 * x]]
           BitOf(f) == [n \in Nat |-> IF n = 0 THEN 1 ELSE 2 * f[n - 1]]
<1>1. step \in [Nat -> [X -> X]] /\ 1 \in X
  OBVIOUS
<1>2. PICK h \in [Nat -> X] : Iterates(h, 1, step)
  <2> HIDE DEF X, step
  <2> QED
    BY <1>1, Iteration
<1>3. \A n \in Nat : h[n + 1] = 2 * h[n]
  BY <1>2 DEF Iterates
<1>4. h[0] = 1
  BY <1>2 DEF Iterates
<1>5. \A n \in Nat : h[n] = IF n = 0 THEN 1 ELSE 2 * h[n - 1]
  <2> TAKE n \in Nat
  <2>1. CASE n = 0
    BY <1>4, <2>1
  <2>2. CASE n # 0
    <3>1. n - 1 \in Nat /\ (n - 1) + 1 = n
      BY <2>2
    <3>2. h[(n - 1) + 1] = 2 * h[n - 1]
      BY <1>3, <3>1
    <3> QED
      BY <2>2, <3>1, <3>2
  <2> QED
    BY <2>1, <2>2
<1>6. h = BitOf(h)
  BY <1>5
<1>7. Bit = CHOOSE f : f = BitOf(f)
  BY DEF Bit
<1>8. Bit = BitOf(Bit)
  BY <1>6, <1>7
<1>9. \A n \in Nat : Bit[n] = IF n = 0 THEN 1 ELSE 2 * Bit[n - 1]
  <2>1. \A f : f = BitOf(f) => \A n \in Nat : f[n] = IF n = 0 THEN 1 ELSE 2 * f[n - 1]
    OBVIOUS
  <2> HIDE DEF BitOf
  <2> QED
    BY <1>8, <2>1
<1> DEFINE T == {n \in Nat : Bit[n] \in Nat \ {0}}
<1>10. \A n \in Nat : Bit[n + 1] = 2 * Bit[n]
  <2> TAKE n \in Nat
  <2>1. n + 1 \in Nat /\ n + 1 # 0 /\ (n + 1) - 1 = n
    OBVIOUS
  <2>2. Bit[n + 1] = 2 * Bit[(n + 1) - 1]
    BY <1>9, <2>1
  <2> QED
    BY <2>1, <2>2
<1>11. Bit[0] = 1
  BY <1>9
<1>12. 0 \in T
  BY <1>11
<1>13. ASSUME NEW n \in Nat, n \in T PROVE n + 1 \in T
  BY <1>10, <1>13
<1> HIDE DEF T
<1>14. \A n \in Nat : n \in T
  BY <1>12, <1>13, Induction
<1> QED
  BY <1>10, <1>11, <1>14 DEF T

(* Taking an item out of a list. *)
LEMMA Unlink ==
  ASSUME NEW bk \in Field, NEW fw \in Field, NEW q, NEW first, Strung(bk, fw, q, first),
         NEW k \in 1..Len(q)
  PROVE  LET e == q[k]
             bk2 == Put(bk, fw[e], bk[e])
             fw2 == Put(fw, bk[e], fw[e])
         IN  /\ bk2 \in Field /\ fw2 \in Field
             /\ Strung(bk2, fw2, Del(q, k), IF k = 1 THEN fw[e] ELSE first)
             /\ \A x \in Items : x \notin Members(q) => bk2[x] = bk[x] /\ fw2[x] = fw[x]
<1> DEFINE e == q[k]
           n == Len(q)
           p == bk[e]
           s == fw[e]
           bk2 == Put(bk, s, p)
           fw2 == Put(fw, p, s)
<1>1. /\ q \in Seq(Items) /\ Distinct(q)
      /\ \A i \in 1..n : fw[q[i]] = IF i = n THEN NULL ELSE q[i + 1]
      /\ \A i \in 1..n : bk[q[i]] = IF i = 1 THEN NULL ELSE q[i - 1]
  BY DEF Strung, Onward
<1>2. n \in Nat /\ \A i \in 1..n : q[i] \in Items /\ q[i] \in Members(q)
  BY <1>1, LenProperties DEF Members
<1>3. (k # n => k + 1 \in 1..n) /\ (k # 1 => k - 1 \in 1..n)
  <2>1. n \in Nat
    BY <1>2
  <2> QED
    BY <2>1
<1>4. s = (IF k = n THEN NULL ELSE q[k + 1]) /\ p = (IF k = 1 THEN NULL ELSE q[k - 1])
  BY <1>1
<1>5. (s = NULL \/ s \in Members(q)) /\ (p = NULL \/ p \in Members(q)) /\ Members(q) \subseteq Items
  BY <1>2, <1>3, <1>4 DEF Members
<1> HIDE DEF s, p
<1>6. /\ bk2 \in Field /\ fw2 \in Field
      /\ \A x \in Items : bk2[x] = IF x = s THEN p ELSE bk[x]
      /\ \A x \in Items : fw2[x] = IF x = p THEN s ELSE fw[x]
  <2>1. NULL \notin Items
    BY UthashAssumption
  <2>2. s \in Ptr /\ p \in Ptr
    BY <1>5 DEF Ptr
  <2> QED
    BY <2>1, <2>2, <1>5 DEF Put, Field, Ptr
<1>7. \A i \in 1..n : (q[i] = s <=> i = k + 1) /\ (q[i] = p <=> i = k - 1)
  <2> TAKE i \in 1..n
  <2>1. NULL \notin Items /\ q[i] \in Items
    BY <1>2, UthashAssumption
  <2>2. (i = k + 1 => k # n) /\ (i = k - 1 => k # 1)
    BY <1>2
  <2> QED
    BY <1>1, <1>3, <1>4, <2>1, <2>2 DEF Distinct
<1>8. Removes(bk, fw, q, k, bk2, fw2)
  <2>1. ASSUME NEW i \in 1..n, i # k
        PROVE  /\ bk2[q[i]] = IF i = k + 1 THEN bk[q[k]] ELSE bk[q[i]]
               /\ fw2[q[i]] = IF i = k - 1 THEN fw[q[k]] ELSE fw[q[i]]
    <3> HIDE DEF bk2, fw2
    <3> QED
      BY <1>2, <1>6, <1>7 DEF p, s
  <2> QED
    BY <2>1 DEF Removes
<1> HIDE DEF bk2, fw2
<1>9. Strung(bk2, fw2, Del(q, k), IF k = 1 THEN fw[q[1]] ELSE first)
  BY <1>8, DelStrung
<1>10. (IF k = 1 THEN fw[q[1]] ELSE first) = IF k = 1 THEN s ELSE first
  BY DEF s
<1>11. \A x \in Items : x \notin Members(q) => bk2[x] = bk[x] /\ fw2[x] = fw[x]
  BY <1>5, <1>6, UthashAssumption
<1> QED
  BY <1>6, <1>9, <1>10, <1>11 DEF bk2, fw2, s, p
----------------------------------------------------------------------------
(* Buckets *)

(* The bucket of an item among n. *)
Slot(x, n) == ToBkt(hashf[KeyOf[x]], n)

(* n buckets hold the items in S: the chain of each is strung from its      *)
(* hh_head, its count is right, and an item is in the bucket of its hash.   *)
Held(B, hp, hn, n, c, S) ==
  /\ n \in Nat \ {0}
  /\ B \in [0..(n - 1) -> Bucket] /\ c \in [0..(n - 1) -> Seq(Items)]
  /\ \A b \in 0..(n - 1) : Strung(hp, hn, c[b], B[b].hh_head) /\ B[b].count = Len(c[b])
  /\ \A b \in 0..(n - 1), x \in Items : x \in Members(c[b]) <=> x \in S /\ Slot(x, n) = b

(* An item has a bucket, whatever the hash function. *)
LEMMA SlotType ==
  ASSUME hashf \in HASH_FCN, NEW x \in Items, NEW n \in Nat \ {0}
  PROVE  Slot(x, n) \in 0..(n - 1)
<1>1. hashf[KeyOf[x]] \in Nat
  BY UthashAssumption DEF HASH_FCN, Keys
<1> DEFINE v == hashf[KeyOf[x]]
<1> HIDE DEF v
<1>2. v \in Nat
  BY <1>1 DEF v
<1>3. v % n \in 0..(n - 1)
  BY <1>2
<1> QED
  BY <1>3 DEF Slot, ToBkt, v

(* What HASH_ADD_TO_BKT makes of the buckets: e heads the chain of b. *)
ChainsIn(B, e, b, B2) ==
  /\ B2[b].hh_head = e /\ B2[b].count = B[b].count + 1
  /\ \A a \in DOMAIN B : a # b => B2[a] = B[a]

(* An item that enters the front of its chain: the buckets hold it too. *)
LEMMA ChainIn ==
  ASSUME hashf \in HASH_FCN, NEW n, NEW c, NEW S, NEW B, NEW hp \in Field, NEW hn \in Field,
         Held(B, hp, hn, n, c, S), NEW e \in Items, e \notin S,
         NEW B2 \in [0..(n - 1) -> Bucket], ChainsIn(B, e, Slot(e, n), B2)
  PROVE  LET first == B[Slot(e, n)].hh_head
             hp2 == Put([hp EXCEPT ![e] = NULL], first, e)
             hn2 == [hn EXCEPT ![e] = first]
         IN  /\ hp2 \in Field /\ hn2 \in Field
             /\ \E c2 : Held(B2, hp2, hn2, n, c2, S \cup {e})
<1> DEFINE b == Slot(e, n)
           first == B[b].hh_head
           hp2 == Put([hp EXCEPT ![e] = NULL], first, e)
           hn2 == [hn EXCEPT ![e] = first]
           q == c[b]
           c2 == [c EXCEPT ![b] = Ins(q, 1, e)]
<1>1. /\ n \in Nat \ {0}
      /\ B \in [0..(n - 1) -> Bucket] /\ c \in [0..(n - 1) -> Seq(Items)]
      /\ \A a \in 0..(n - 1) : Strung(hp, hn, c[a], B[a].hh_head) /\ B[a].count = Len(c[a])
      /\ \A a \in 0..(n - 1), x \in Items : x \in Members(c[a]) <=> x \in S /\ Slot(x, n) = a
  BY DEF Held
<1>2. b \in 0..(n - 1)
  BY <1>1, SlotType
<1>3. q \in Seq(Items) /\ Strung(hp, hn, q, first) /\ Distinct(q) /\ e \notin Members(q)
  BY <1>1, <1>2 DEF Strung
<1>4. /\ Len(q) \in Nat /\ Members(q) \subseteq Items
      /\ \A i \in 1..Len(q) : q[i] \in Members(q)
  BY <1>3, MembersItems
<1> HIDE DEF b, q
<1>5. (first = IF Len(q) = 0 THEN NULL ELSE q[1]) /\ (q = <<>> <=> Len(q) = 0)
  BY <1>3, EmptySeq DEF Strung, Onward
<1>6. (Len(q) # 0 => 1 \in 1..Len(q)) /\ 1 \in 1..(Len(q) + 1)
  BY <1>4
<1>7. (first = NULL \/ first \in Members(q)) /\ first # e
  BY <1>3, <1>4, <1>5, <1>6, UthashAssumption
<1> HIDE DEF first
<1>8. /\ hp2 \in Field /\ hn2 \in Field
      /\ \A x \in Items : hp2[x] = IF x = first THEN e ELSE IF x = e THEN NULL ELSE hp[x]
      /\ \A x \in Items : hn2[x] = IF x = e THEN first ELSE hn[x]
  <2>1. NULL \notin Items /\ first \in Ptr /\ e \in Ptr /\ NULL \in Ptr
    BY <1>4, <1>7, UthashAssumption DEF Ptr
  <2> QED
    BY <2>1, <1>4, <1>7 DEF Put, Field, Ptr
<1> HIDE DEF hp2, hn2
<1>9. Inserts(hp, hn, q, 1, e, hp2, hn2)
  <2>1. hp2[e] = NULL /\ hn2[e] = IF 1 = Len(q) + 1 THEN NULL ELSE q[1]
    <3>1. 1 = Len(q) + 1 <=> Len(q) = 0
      BY <1>4
    <3> QED
      BY <1>5, <1>7, <1>8, <3>1
  <2>2. ASSUME NEW i \in 1..Len(q)
        PROVE  /\ hp2[q[i]] = IF i = 1 THEN e ELSE hp[q[i]]
               /\ hn2[q[i]] = IF i = 1 - 1 THEN e ELSE hn[q[i]]
    <3>1. Len(q) # 0 /\ i # 1 - 1
      BY <1>4
    <3>2. q[i] \in Items /\ q[i] # e
      BY <1>3, <1>4
    <3>3. q[i] = first <=> i = 1
      BY <1>3, <1>5, <1>6, <3>1 DEF Distinct
    <3> QED
      BY <1>8, <3>1, <3>2, <3>3
  <2> QED
    BY <2>1, <2>2 DEF Inserts
<1>10. Strung(hp2, hn2, Ins(q, 1, e), e)
  BY <1>3, <1>6, <1>9, InsStrung
<1>11. /\ Ins(q, 1, e) \in Seq(Items) /\ Len(Ins(q, 1, e)) = Len(q) + 1
       /\ Members(Ins(q, 1, e)) = Members(q) \cup {e}
  BY <1>3, <1>6, InsFacts
<1>12. c2 \in [0..(n - 1) -> Seq(Items)]
  BY <1>1, <1>2, <1>11
<1>13. ASSUME NEW a \in 0..(n - 1)
       PROVE  /\ Strung(hp2, hn2, c2[a], B2[a].hh_head) /\ B2[a].count = Len(c2[a])
              /\ \A x \in Items : x \in Members(c2[a]) <=> x \in S \cup {e} /\ Slot(x, n) = a
  <2>1. CASE a = b
    <3>1. c2[a] = Ins(q, 1, e) /\ B2[a].hh_head = e /\ B2[a].count = Len(q) + 1
      BY <1>1, <1>2, <2>1 DEF ChainsIn, b, q
    <3>2. \A x \in Items : x \in Members(q) <=> x \in S /\ Slot(x, n) = a
      BY <1>1, <1>2, <2>1 DEF q
    <3>3. Slot(e, n) = a
      BY <2>1 DEF b
    <3> QED
      BY <1>10, <1>11, <3>1, <3>2, <3>3
  <2>2. CASE a # b
    <3>1. c2[a] = c[a] /\ B2[a] = B[a]
      BY <1>1, <1>2, <2>2 DEF ChainsIn, b
    <3>2. \A x \in Items : x \in Members(c[a]) <=> x \in S /\ Slot(x, n) = a
      BY <1>1
    <3>3. \A x \in Items : x \in Members(q) => Slot(x, n) = b
      BY <1>1, <1>2 DEF q
    <3>4. Members(c[a]) \subseteq Items
      BY <1>1, MembersItems
    <3>5. \A x \in Members(c[a]) : x \in Items /\ x # first /\ x # e
      BY <1>7, <2>2, <3>2, <3>3, <3>4, UthashAssumption
    <3>6. \A x \in Members(c[a]) : hp2[x] = hp[x] /\ hn2[x] = hn[x]
      BY <1>8, <3>5
    <3>7. Strung(hp2, hn2, c[a], B[a].hh_head)
      BY <1>1, <3>6, StrungSame
    <3>8. Slot(e, n) # a
      BY <2>2 DEF b
    <3> QED
      BY <1>1, <3>1, <3>2, <3>7, <3>8
  <2> QED
    BY <2>1, <2>2
<1>14. Held(B2, hp2, hn2, n, c2, S \cup {e})
  BY <1>1, <1>12, <1>13 DEF Held
<1> QED
  BY <1>8, <1>14 DEF hp2, hn2, first, b

(* A bucket of which nothing is known. *)
AnyBucket == [hh_head : Ptr \cup {Wild}, count : Int, expand_mult : Nat]

(* What DelInBkt makes of the bucket. *)
ChainsOut(B, hn, e, b, B2) ==
  /\ B2 \in [DOMAIN B -> AnyBucket]
  /\ B2[b].hh_head = IF B[b].hh_head = e THEN hn[e] ELSE B[b].hh_head
  /\ B2[b].count = B[b].count - 1
  /\ \A a \in DOMAIN B : B2[a].expand_mult = B[a].expand_mult
  /\ \A a \in DOMAIN B : a # b => B2[a] = B[a]

(* No chain has grown and every limit is what it was. *)
NoLonger(B, B2) ==
  \A a \in DOMAIN B : B2[a].count <= B[a].count /\ B2[a].expand_mult = B[a].expand_mult

(* An item that leaves its chain, wherever it is: the buckets hold the rest. *)
LEMMA ChainOut ==
  ASSUME hashf \in HASH_FCN, NEW n, NEW c, NEW S \in SUBSET Items, NEW B,
         NEW hp \in Field, NEW hn \in Field, Held(B, hp, hn, n, c, S), NEW e \in S,
         NEW B2, ChainsOut(B, hn, e, Slot(e, n), B2)
  PROVE  LET hp2 == Put(hp, hn[e], hp[e])
             hn2 == Put(hn, hp[e], hn[e])
         IN  /\ hp2 \in Field /\ hn2 \in Field
             /\ \E c2 : Held(B2, hp2, hn2, n, c2, S \ {e})
             /\ NoLonger(B, B2)
<1> DEFINE b == Slot(e, n)
           q == c[b]
           hp2 == Put(hp, hn[e], hp[e])
           hn2 == Put(hn, hp[e], hn[e])
<1>1. /\ n \in Nat \ {0}
      /\ B \in [0..(n - 1) -> Bucket] /\ c \in [0..(n - 1) -> Seq(Items)]
      /\ \A a \in 0..(n - 1) : Strung(hp, hn, c[a], B[a].hh_head) /\ B[a].count = Len(c[a])
      /\ \A a \in 0..(n - 1), x \in Items : x \in Members(c[a]) <=> x \in S /\ Slot(x, n) = a
  BY DEF Held
<1>2. b \in 0..(n - 1)
  BY <1>1, SlotType
<1>3. q \in Seq(Items) /\ Strung(hp, hn, q, B[b].hh_head) /\ Distinct(q) /\ e \in Members(q)
  BY <1>1, <1>2 DEF Strung
<1>4. PICK k \in 1..Len(q) : e = q[k]
  BY <1>3 DEF Members
<1>5. Len(q) \in Nat /\ Members(q) \subseteq Items
  BY <1>3, MembersItems
<1> DEFINE h2 == IF k = 1 THEN hn[e] ELSE B[b].hh_head
           c2 == [c EXCEPT ![b] = Del(q, k)]
<1> HIDE DEF b, q
<1>6. /\ hp2 \in Field /\ hn2 \in Field
      /\ Strung(hp2, hn2, Del(q, k), h2)
      /\ \A x \in Items : x \notin Members(q) => hp2[x] = hp[x] /\ hn2[x] = hn[x]
  BY <1>3, <1>4, Unlink
<1> HIDE DEF hp2, hn2
<1>7. /\ Del(q, k) \in Seq(Items) /\ Len(Del(q, k)) = Len(q) - 1
      /\ Members(Del(q, k)) = Members(q) \ {e}
  BY <1>3, <1>4, DelFacts
<1>8. B[b].hh_head = e <=> k = 1
  <2>1. Len(q) # 0 /\ 1 \in 1..Len(q)
    BY <1>4, <1>5
  <2>2. q # <<>>
    BY <2>1, EmptySeq
  <2>3. B[b].hh_head = q[1]
    BY <1>3, <2>2 DEF Strung, Onward
  <2> QED
    BY <1>3, <1>4, <2>1, <2>3 DEF Distinct
<1>9. h2 \in Ptr
  <2>1. Del(q, k) = <<>> \/ Del(q, k)[1] \in Items
    <3>1. Del(q, k) # <<>> => Len(Del(q, k)) # 0
      BY <1>7, EmptySeq
    <3>2. Len(Del(q, k)) \in Nat
      BY <1>7, LenProperties
    <3>3. Del(q, k) # <<>> => 1 \in 1..Len(Del(q, k))
      BY <3>1, <3>2
    <3> QED
      BY <1>7, <3>3, LenProperties
  <2> HIDE DEF h2
  <2> QED
    BY <1>6, <2>1 DEF Strung, Onward, Ptr
<1>10. /\ B2[b].hh_head = h2 /\ B2[b].count = Len(q) - 1
       /\ \A a \in 0..(n - 1) : B2[a].expand_mult = B[a].expand_mult
       /\ \A a \in 0..(n - 1) : a # b => B2[a] = B[a]
  BY <1>1, <1>2, <1>8 DEF ChainsOut, b, q
<1> HIDE DEF h2
<1>11. Len(q) - 1 \in Nat /\ Len(q) - 1 <= Len(q)
  BY <1>4, <1>5
<1>12. B2 \in [0..(n - 1) -> Bucket]
  <2>0. B2 \in [0..(n - 1) -> AnyBucket]
    BY <1>1 DEF ChainsOut
  <2>1. ASSUME NEW a \in 0..(n - 1) PROVE B2[a] \in Bucket
    BY <1>1, <1>2, <1>9, <1>10, <1>11, <2>0 DEF Bucket, AnyBucket
  <2> QED
    BY <2>0, <2>1
<1>13. c2 \in [0..(n - 1) -> Seq(Items)]
  BY <1>1, <1>2, <1>7
<1>14. ASSUME NEW a \in 0..(n - 1)
       PROVE  /\ Strung(hp2, hn2, c2[a], B2[a].hh_head) /\ B2[a].count = Len(c2[a])
              /\ \A x \in Items : x \in Members(c2[a]) <=> x \in S \ {e} /\ Slot(x, n) = a
              /\ B2[a].count <= B[a].count /\ B2[a].expand_mult = B[a].expand_mult
  <2>0. B[a].count \in Nat
    BY <1>1 DEF Bucket
  <2>1. CASE a = b
    <3>1. c2[a] = Del(q, k) /\ B2[a].hh_head = h2 /\ B2[a].count = Len(q) - 1
          /\ B2[a].expand_mult = B[a].expand_mult /\ B[a].count = Len(q)
      BY <1>1, <1>2, <1>10, <2>1 DEF q
    <3>2. \A x \in Items : x \in Members(q) <=> x \in S /\ Slot(x, n) = a
      BY <1>1, <1>2, <2>1 DEF q
    <3> QED
      BY <1>6, <1>7, <1>11, <3>1, <3>2
  <2>2. CASE a # b
    <3>1. c2[a] = c[a] /\ B2[a] = B[a]
      BY <1>1, <1>2, <1>10, <2>2
    <3>2. \A x \in Items : x \in Members(c[a]) <=> x \in S /\ Slot(x, n) = a
      BY <1>1
    <3>3. \A x \in Items : x \in Members(q) => Slot(x, n) = b
      BY <1>1, <1>2 DEF q
    <3>4. Members(c[a]) \subseteq Items
      BY <1>1, MembersItems
    <3>5. \A x \in Members(c[a]) : hp2[x] = hp[x] /\ hn2[x] = hn[x]
      BY <1>6, <2>2, <3>2, <3>3, <3>4
    <3>6. Strung(hp2, hn2, c[a], B[a].hh_head)
      BY <1>1, <3>5, StrungSame
    <3>7. Slot(e, n) # a
      BY <2>2 DEF b
    <3> QED
      BY <1>1, <2>0, <3>1, <3>2, <3>6, <3>7
  <2> QED
    BY <2>1, <2>2
<1>15. Held(B2, hp2, hn2, n, c2, S \ {e})
  BY <1>1, <1>12, <1>13, <1>14 DEF Held
<1>16. NoLonger(B, B2)
  BY <1>1, <1>14 DEF NoLonger
<1> QED
  BY <1>15, <1>16, <1>6 DEF hp2, hn2, b

(* Two lists with nothing in common, one after the other. *)
LEMMA ConcatFacts ==
  ASSUME NEW s \in Seq(Items), NEW t \in Seq(Items), Distinct(s), Distinct(t),
         Members(s) \cap Members(t) = {}
  PROVE  /\ s \o t \in Seq(Items) /\ Distinct(s \o t)
         /\ Members(s \o t) = Members(s) \cup Members(t)
<1> DEFINE r == s \o t
           n == Len(s)
           m == Len(t)
<1>1. n \in Nat /\ m \in Nat
  BY LenProperties
<1>2. r \in Seq(Items) /\ Len(r) = n + m
      /\ \A i \in 1..(n + m) : r[i] = IF i <= n THEN s[i] ELSE t[i - n]
  BY ConcatProperties
<1> HIDE DEF r
<1>3. /\ \A i \in 1..n : i \in 1..(n + m) /\ i <= n
      /\ \A i \in 1..m : n + i \in 1..(n + m) /\ ~(n + i <= n) /\ (n + i) - n = i
      /\ \A i \in 1..(n + m) : i <= n => i \in 1..n
      /\ \A i \in 1..(n + m) : ~(i <= n) => i - n \in 1..m
  <2> HIDE DEF n, m
  <2> QED
    BY <1>1
<1>4. Members(r) = Members(s) \cup Members(t)
  <2>1. ASSUME NEW x \in Members(r) PROVE x \in Members(s) \cup Members(t)
    <3>1. PICK i \in 1..(n + m) : x = r[i]
      BY <1>2 DEF Members
    <3> QED
      BY <1>2, <1>3, <3>1 DEF Members
  <2>2. ASSUME NEW x \in Members(s) PROVE x \in Members(r)
    <3>1. PICK i \in 1..n : x = s[i]
      BY DEF Members
    <3>2. i \in 1..(n + m) /\ x = r[i]
      BY <1>2, <1>3, <3>1
    <3> QED
      BY <1>2, <3>2 DEF Members
  <2>3. ASSUME NEW x \in Members(t) PROVE x \in Members(r)
    <3>1. PICK i \in 1..m : x = t[i]
      BY DEF Members
    <3>2. n + i \in 1..(n + m) /\ r[n + i] = t[(n + i) - n] /\ (n + i) - n = i
      BY <1>2, <1>3
    <3> QED
      BY <1>2, <3>1, <3>2 DEF Members
  <2> QED
    BY <2>1, <2>2, <2>3
<1>5. Distinct(r)
  <2> SUFFICES ASSUME NEW i \in 1..(n + m), NEW j \in 1..(n + m), r[i] = r[j] PROVE i = j
    BY <1>2 DEF Distinct
  <2>1. /\ i <= n => i \in 1..n /\ r[i] = s[i]
        /\ ~(i <= n) => i - n \in 1..m /\ r[i] = t[i - n]
        /\ j <= n => j \in 1..n /\ r[j] = s[j]
        /\ ~(j <= n) => j - n \in 1..m /\ r[j] = t[j - n]
    BY <1>2, <1>3
  <2>2. CASE i <= n /\ j <= n
    BY <2>1, <2>2 DEF Distinct
  <2>3. CASE ~(i <= n) /\ ~(j <= n)
    <3>1. i - n = j - n
      BY <2>1, <2>3 DEF Distinct
    <3> QED
      BY <1>1, <3>1
  <2>4. CASE i <= n /\ ~(j <= n)
    BY <2>1, <2>4 DEF Members
  <2>5. CASE ~(i <= n) /\ j <= n
    BY <2>1, <2>5 DEF Members
  <2> QED
    BY <2>2, <2>3, <2>4, <2>5
<1> QED
  BY <1>2, <1>4, <1>5 DEF r

(* The chains in a row. *)
InARow(c, n) == [b \in 1..n |-> c[b - 1]]

(* The chains of all buckets in a row have each item once. *)
LEMMA Row ==
  ASSUME hashf \in HASH_FCN, NEW n, NEW c, NEW S \in SUBSET Items, NEW B, NEW hp, NEW hn,
         Held(B, hp, hn, n, c, S)
  PROVE  LET r == FlattenSeq(InARow(c, n))
         IN  r \in Seq(Items) /\ Distinct(r) /\ Members(r) = S
<1>1. /\ n \in Nat \ {0}
      /\ c \in [0..(n - 1) -> Seq(Items)]
      /\ \A a \in 0..(n - 1) : Distinct(c[a])
      /\ \A a \in 0..(n - 1), x \in Items : x \in Members(c[a]) <=> x \in S /\ Slot(x, n) = a
  BY DEF Held, Strung
<1> DEFINE row(m) == FlattenSeq(InARow(c, m))
           Upto(m) == {x \in S : Slot(x, n) < m}
           T == {m \in Nat : m <= n => /\ row(m) \in Seq(Items) /\ Distinct(row(m))
                                       /\ Members(row(m)) = Upto(m)}
<1>2. \A x \in S : Slot(x, n) \in 0..(n - 1)
  BY <1>1, SlotType
<1>3. 0 \in T
  <2>1. InARow(c, 0) = <<>>
    BY DEF InARow
  <2>2. row(0) = <<>>
    BY <2>1, FlattenEmpty
  <2>3. Upto(0) = {}
    BY <1>2
  <2>4. <<>> \in Seq(Items) /\ Len(<<>>) = 0
    BY EmptySeq
  <2>5. 1..0 = {}
    OBVIOUS
  <2>6. Members(<<>>) = {} /\ Distinct(<<>>)
    BY <2>4, <2>5 DEF Members, Distinct
  <2> HIDE DEF Upto, row
  <2> QED
    BY <2>2, <2>3, <2>4, <2>6
<1>4. ASSUME NEW m \in Nat, m \in T PROVE m + 1 \in T
  <2> SUFFICES ASSUME m + 1 <= n
               PROVE  /\ row(m + 1) \in Seq(Items) /\ Distinct(row(m + 1))
                      /\ Members(row(m + 1)) = Upto(m + 1)
    OBVIOUS
  <2>1. m \in 0..(n - 1) /\ m <= n
    BY <1>1
  <2>2. row(m) \in Seq(Items) /\ Distinct(row(m)) /\ Members(row(m)) = Upto(m)
    BY <1>4, <2>1
  <2>3. c[m] \in Seq(Items) /\ Distinct(c[m])
    BY <1>1, <2>1
  <2>4. InARow(c, m) \in Seq(Seq(Items)) /\ Len(InARow(c, m)) = m
    <3>1. \A b \in 1..m : b - 1 \in 0..(n - 1)
      BY <1>1, <2>1
    <3>2. InARow(c, m) \in [1..m -> Seq(Items)]
      BY <1>1, <3>1 DEF InARow
    <3>3. InARow(c, m) \in Seq(Seq(Items))
      BY <3>2, SeqDef
    <3> QED
      BY <3>2, <3>3, LenProperties, SameRange
  <2>5. InARow(c, m + 1) = Append(InARow(c, m), c[m])
    <3>1. Append(InARow(c, m), c[m]) =
            [b \in 1..(m + 1) |-> IF b = m + 1 THEN c[m] ELSE InARow(c, m)[b]]
      <4> DEFINE ss == InARow(c, m)
      <4> HIDE DEF ss
      <4>1. ss \in Seq(Seq(Items)) /\ Len(ss) = m
        BY <2>4 DEF ss
      <4>2. Append(ss, c[m]) \in Seq(Seq(Items)) /\ Len(Append(ss, c[m])) = m + 1
            /\ \A b \in 1..m : Append(ss, c[m])[b] = ss[b]
            /\ Append(ss, c[m])[m + 1] = c[m]
        BY <2>3, <4>1, AppendProperties
      <4>3. Append(ss, c[m]) = [b \in 1..(m + 1) |-> Append(ss, c[m])[b]]
        BY <4>2, LenProperties
      <4>4. \A b \in 1..(m + 1) : b # m + 1 => b \in 1..m
        OBVIOUS
      <4> QED
        BY <4>2, <4>3, <4>4 DEF ss
    <3>2. \A b \in 1..(m + 1) : (IF b = m + 1 THEN c[m] ELSE InARow(c, m)[b]) = c[b - 1]
      BY DEF InARow
    <3> QED
      BY <3>1, <3>2 DEF InARow
  <2>6. row(m + 1) = row(m) \o c[m]
    BY <2>3, <2>4, <2>5, FlattenAppend
  <2> DEFINE s == row(m)
             t == c[m]
  <2>7. \A x \in Items : x \in Members(t) <=> x \in S /\ Slot(x, n) = m
    BY <1>1, <2>1
  <2>8. Members(s) = Upto(m)
    BY <2>2
  <2>9. Members(t) \subseteq Items
    BY <2>3, MembersItems
  <2> HIDE DEF row, s, t, T
  <2>10. s \in Seq(Items) /\ Distinct(s) /\ t \in Seq(Items) /\ Distinct(t)
    BY <2>2, <2>3 DEF s, t
  <2>11. Members(s) \cap Members(t) = {}
    BY <2>7, <2>8, <2>9
  <2>12. Members(s) \cup Members(t) = Upto(m + 1)
    <3>1. \A x \in S : Slot(x, n) < m + 1 <=> Slot(x, n) < m \/ Slot(x, n) = m
      BY <1>2
    <3> QED
      BY <2>7, <2>8, <2>9, <3>1
  <2>13. /\ s \o t \in Seq(Items) /\ Distinct(s \o t)
         /\ Members(s \o t) = Members(s) \cup Members(t)
    BY <2>10, <2>11, ConcatFacts
  <2> HIDE DEF Upto
  <2> QED
    BY <2>6, <2>12, <2>13 DEF s, t
<1> HIDE DEF T
<1>5. \A m \in Nat : m \in T
  BY <1>3, <1>4, Induction
<1>6. Upto(n) = S
  BY <1>1, <1>2
<1> HIDE DEF Upto
<1>7. n \in Nat /\ n <= n
  BY <1>1
<1> QED
  BY <1>5, <1>6, <1>7 DEF T

(* Tables of any size, and hashes as UT_hash_table and the fields of the    *)
(* handles make them.                                                       *)
Tables == UNION {Table(k) : k \in Nat}
Handle == [head : Ptr, tbl : Tables \cup {NULL}, prev : Field, next : Field,
           hh_prev : Field, hh_next : Field]

(* The buckets of h hold the items in S. *)
Bucketed(h, c, S) ==
  /\ h \in Handle /\ h.tbl \in Tables
  /\ Held(h.tbl.buckets, h.hh_prev, h.hh_next, h.tbl.num_buckets, c, S)

(* The fields of a table: as many buckets as its log says. *)
LEMMA TableFacts ==
  ASSUME NEW t \in Tables
  PROVE  /\ t.log2_num_buckets \in Nat /\ t \in Table(t.log2_num_buckets)
         /\ t.num_buckets = Bit[t.log2_num_buckets] /\ t.num_buckets \in Nat \ {0}
         /\ t.buckets \in [0..(t.num_buckets - 1) -> Bucket]
         /\ t.num_items \in Nat /\ t.tail \in Ptr /\ t.ideal_chain_maxlen \in Nat
         /\ t.ineff_expands \in Nat /\ t.noexpand \in BOOLEAN
<1>1. PICK k \in Nat : t \in Table(k)
  BY DEF Tables
<1>2. t.log2_num_buckets = k /\ t.num_buckets = Bit[k]
  BY <1>1 DEF Table
<1>3. Bit[k] \in Nat \ {0}
  BY BitFacts
<1>4. t.buckets \in [0..(Bit[k] - 1) -> Bucket]
  BY <1>1 DEF Table
<1>5. /\ t.num_items \in Nat /\ t.tail \in Ptr /\ t.ideal_chain_maxlen \in Nat
      /\ t.ineff_expands \in Nat /\ t.noexpand \in BOOLEAN
  BY <1>1 DEF Table
<1> QED
  BY <1>1, <1>2, <1>3, <1>4, <1>5

(* Walking a bucket gives its chain. *)
LEMMA ChainIs ==
  ASSUME NEW h, NEW c, NEW S, Bucketed(h, c, S), NEW b \in 0..(h.tbl.num_buckets - 1)
  PROVE  Chain(h, b) = c[b]
<1>1. Strung(h.hh_prev, h.hh_next, c[b], h.tbl.buckets[b].hh_head) /\ h.hh_next \in Field
  BY DEF Bucketed, Held, Handle
<1> QED
  BY <1>1, WalkAlong DEF Chain, Strung

(* The double loop of HASH_EXPAND_BUCKETS meets each item once. *)
LEMMA OrderIs ==
  ASSUME hashf \in HASH_FCN, NEW h, NEW c, NEW S \in SUBSET Items, Bucketed(h, c, S)
  PROVE  BucketOrder(h) \in Seq(Items) /\ Distinct(BucketOrder(h)) /\ Members(BucketOrder(h)) = S
<1> DEFINE n == h.tbl.num_buckets
<1>1. n \in Nat \ {0}
  BY DEF Bucketed, Held
<1>2. \A b \in 1..n : Chain(h, b - 1) = c[b - 1]
  <2> TAKE b \in 1..n
  <2>1. b - 1 \in 0..(n - 1)
    BY <1>1
  <2> QED
    BY <2>1, ChainIs
<1>3. BucketOrder(h) = FlattenSeq([b \in 1..n |-> Chain(h, b - 1)])
  BY DEF BucketOrder
<1>4. [b \in 1..n |-> Chain(h, b - 1)] = InARow(c, n)
  BY <1>2 DEF InARow
<1> HIDE DEF n
<1>5. BucketOrder(h) = FlattenSeq(InARow(c, n))
  BY <1>3, <1>4
<1> QED
  BY <1>5, Row DEF Bucketed, n

(* HASH_FIND_IN_BKT finds an item of the key, if the hash has one. *)
LEMMA FindIs ==
  ASSUME hashf \in HASH_FCN, NEW h, NEW c, NEW S \in SUBSET Items, Bucketed(h, c, S),
         NEW i \in Items
  PROVE  LET r == FindInBkt(h, BktOf(h, KeyOf[i]), KeyOf[i])
         IN  \/ r = NULL /\ \A x \in S : KeyOf[x] # KeyOf[i]
             \/ r \in S /\ KeyOf[r] = KeyOf[i]
<1> DEFINE n == h.tbl.num_buckets
           b == Slot(i, n)
           K == {x \in Items : KeyOf[x] = KeyOf[i]}
<1>1. n \in Nat \ {0} /\ c \in [0..(n - 1) -> Seq(Items)]
      /\ \A a \in 0..(n - 1), x \in Items : x \in Members(c[a]) <=> x \in S /\ Slot(x, n) = a
  BY DEF Bucketed, Held
<1>2. b \in 0..(n - 1) /\ b = BktOf(h, KeyOf[i])
  BY <1>1, SlotType DEF Slot, BktOf
<1>3. \A x \in K : Slot(x, n) = b
  BY DEF Slot
<1> HIDE DEF b
<1>4. Chain(h, b) = c[b]
  BY <1>2, ChainIs
<1>5. FindInBkt(h, b, KeyOf[i]) = FirstIn(c[b], K)
  BY <1>4 DEF FindInBkt
<1>6. c[b] \in Seq(Items) /\ Members(c[b]) \subseteq Items
  BY <1>1, <1>2, MembersItems
<1>7. Members(c[b]) \cap K = S \cap K
  BY <1>1, <1>2, <1>3, <1>6
<1>8. CASE S \cap K = {}
  <2>1. FirstIn(c[b], K) = NULL
    BY <1>6, <1>7, <1>8, FirstInFacts
  <2> QED
    BY <1>2, <1>5, <1>8, <2>1
<1>9. CASE S \cap K # {}
  <2>1. PICK k \in 1..Len(c[b]) : c[b][k] \in K /\ FirstIn(c[b], K) = c[b][k]
    BY <1>6, <1>7, <1>9, FirstInFacts
  <2>2. FirstIn(c[b], K) \in S \cap K
    BY <1>7, <2>1 DEF Members
  <2> QED
    BY <1>2, <1>5, <2>2
<1> QED
  BY <1>8, <1>9
----------------------------------------------------------------------------
(* HASH_EXPAND_BUCKETS *)

(* Where the double loop of HASH_EXPAND_BUCKETS is. *)
Rehashing(n) == [buckets : [0..(n - 1) -> Bucket], nonideal : Nat, hh_prev : Field, hh_next : Field]

(* The limit that Rehash keeps the chains to. *)
WithinIdeal(B, ideal) ==
  ideal >= 1 => \A b \in DOMAIN B : B[b].count <= (B[b].expand_mult + 1) * ideal

(* A turn of it: one more item is in its new bucket.  No more is asked of   *)
(* the pointers of the items to come than that they are pointers.           *)
LEMMA RehashOne ==
  ASSUME hashf \in HASH_FCN, NEW n \in Nat \ {0}, NEW ideal \in Nat,
         NEW S \in SUBSET Items, NEW e \in Items, e \notin S,
         NEW new \in Rehashing(n), NEW c,
         Held(new.buckets, new.hh_prev, new.hh_next, n, c, S), WithinIdeal(new.buckets, ideal)
  PROVE  LET r == Rehash(new, e, ideal)
         IN  /\ r \in Rehashing(n) /\ WithinIdeal(r.buckets, ideal)
             /\ \E c2 : Held(r.buckets, r.hh_prev, r.hh_next, n, c2, S \cup {e})
<1> DEFINE B == new.buckets
           b == Slot(e, n)
           count == B[b].count + 1
           mult == B[b].expand_mult
           mult2 == IF count > ideal /\ count > mult * ideal THEN mult + 1 ELSE mult
           first == B[b].hh_head
           B2 == [B EXCEPT ![b] = [hh_head |-> e, count |-> count, expand_mult |-> mult2]]
           hp2 == Put([new.hh_prev EXCEPT ![e] = NULL], first, e)
           hn2 == [new.hh_next EXCEPT ![e] = first]
           no2 == IF count > ideal THEN new.nonideal + 1 ELSE new.nonideal
<1>1. B \in [0..(n - 1) -> Bucket] /\ new.nonideal \in Nat /\ new.hh_prev \in Field /\ new.hh_next \in Field
  BY DEF Rehashing
<1>2. Cardinality(DOMAIN B) = n
  <2>1. DOMAIN B = 0..(n - 1) /\ n \in Nat
    BY <1>1
  <2>2. Cardinality(0..(n - 1)) = n
    <3>1. 0 \in Int /\ n - 1 \in Int
      OBVIOUS
    <3>2. Cardinality(0..(n - 1)) = IF 0 > n - 1 THEN 0 ELSE (n - 1) - 0 + 1
      BY <3>1, FS_Interval
    <3> QED
      BY <3>2
  <2> QED
    BY <2>1, <2>2
<1>3. b \in 0..(n - 1)
  BY SlotType
<1>4. B[b] \in Bucket
  BY <1>1, <1>3
<1>5. count \in Nat /\ mult \in Nat /\ mult2 \in Nat /\ first \in Ptr /\ count = B[b].count + 1
  BY <1>4 DEF Bucket
<1>6. Rehash(new, e, ideal) = [buckets |-> B2, nonideal |-> no2, hh_prev |-> hp2, hh_next |-> hn2]
  BY <1>2 DEF Rehash, Slot
<1> HIDE DEF mult2
<1>7. B2 \in [0..(n - 1) -> Bucket]
  BY <1>1, <1>3, <1>5 DEF Bucket, Ptr
<1>8. B2[b] = [hh_head |-> e, count |-> count, expand_mult |-> mult2]
      /\ \A a \in 0..(n - 1) : a # b => B2[a] = B[a]
  BY <1>1, <1>3
<1> HIDE DEF B2, b, no2
<1>9. ChainsIn(B, e, b, B2)
  BY <1>1, <1>8 DEF ChainsIn
<1> HIDE DEF first, hp2, hn2
<1>10. hp2 \in Field /\ hn2 \in Field /\ \E c2 : Held(B2, hp2, hn2, n, c2, S \cup {e})
  <2> HIDE DEF B, count
  <2> QED
    BY <1>1, <1>7, <1>9, ChainIn DEF b, first, hp2, hn2, B
<1>11. WithinIdeal(B2, ideal)
  <2> SUFFICES ASSUME ideal >= 1, NEW a \in 0..(n - 1)
               PROVE  B2[a].count <= (B2[a].expand_mult + 1) * ideal
    BY <1>7 DEF WithinIdeal
  <2>1. B[a].count <= (B[a].expand_mult + 1) * ideal
    BY <1>1 DEF WithinIdeal
  <2>2. CASE a # b
    BY <1>8, <2>1, <2>2
  <2>3. CASE a = b
    <3>0. B[b].count <= (mult + 1) * ideal
      BY <2>1, <2>3
    <3>1. B2[a].count = count /\ B2[a].expand_mult = mult2 /\ count - 1 <= (mult + 1) * ideal
      <4>1. B2[a].count = count /\ B2[a].expand_mult = mult2
        BY <1>8, <2>3
      <4>2. count - 1 = B[b].count
        <5>1. B[b].count \in Nat
          BY <1>4 DEF Bucket
        <5> QED
          BY <5>1
      <4> QED
        BY <3>0, <4>1, <4>2
    <3>2. (mult + 1) * ideal = mult * ideal + ideal /\ mult * ideal \in Nat
          /\ ((mult + 1) + 1) * ideal = mult * ideal + ideal + ideal
      <4> HIDE DEF mult
      <4> QED
        BY <1>5
    <3> DEFINE z == mult * ideal
               cc == count
               m == mult
    <3>3. z \in Nat /\ cc \in Nat /\ cc - 1 <= z + ideal /\ (m + 1) * ideal = z + ideal
          /\ ((m + 1) + 1) * ideal = z + ideal + ideal
          /\ mult2 = IF cc > ideal /\ cc > z THEN m + 1 ELSE m
      BY <1>5, <3>1, <3>2 DEF mult2
    <3> HIDE DEF z, cc, m
    <3>4. cc <= (mult2 + 1) * ideal
      <4>1. CASE cc > ideal /\ cc > z
        <5>1. (mult2 + 1) * ideal = z + ideal + ideal
          BY <3>3, <4>1
        <5> QED
          BY <3>3, <5>1
      <4>2. CASE ~(cc > ideal /\ cc > z)
        <5>1. (mult2 + 1) * ideal = z + ideal
          BY <3>3, <4>2
        <5> QED
          BY <3>3, <4>2, <5>1
      <4> QED
        BY <4>1, <4>2
    <3> QED
      BY <3>1, <3>4 DEF cc
  <2> QED
    BY <2>2, <2>3
<1>12. no2 \in Nat
  BY <1>1 DEF no2
<1>13. Rehash(new, e, ideal) \in Rehashing(n)
  BY <1>6, <1>7, <1>10, <1>12 DEF Rehashing
<1> DEFINE r == Rehash(new, e, ideal)
<1>14. r.buckets = B2 /\ r.hh_prev = hp2 /\ r.hh_next = hn2
  BY <1>6
<1> HIDE DEF r
<1> QED
  BY <1>10, <1>11, <1>13, <1>14 DEF r

----------------------------------------------------------------------------
(* Expansion *)

(* New buckets, which hold nothing. *)
LEMMA NoChains ==
  ASSUME NEW n \in Nat \ {0}, NEW hp, NEW hn
  PROVE  /\ NoBuckets(n) \in [0..(n - 1) -> Bucket]
         /\ \E c : Held(NoBuckets(n), hp, hn, n, c, {})
         /\ \A b \in 0..(n - 1) : NoBuckets(n)[b].hh_head = NULL /\ NoBuckets(n)[b].count = 0
<1> DEFINE c == [b \in 0..(n - 1) |-> <<>>]
           B == NoBuckets(n)
<1>1. B \in [0..(n - 1) -> Bucket]
  BY DEF NoBuckets, Bucket, Ptr
<1>2. <<>> \in Seq(Items) /\ Len(<<>>) = 0
  BY EmptySeq
<1>3. 1..0 = {}
  OBVIOUS
<1>4. Members(<<>>) = {} /\ Distinct(<<>>) /\ Onward(hn, <<>>, NULL)
  BY <1>2, <1>3 DEF Members, Distinct, Onward
<1>5. Strung(hp, hn, <<>>, NULL)
  BY <1>2, <1>3, <1>4 DEF Strung
<1>6. \A b \in 0..(n - 1) : B[b].hh_head = NULL /\ B[b].count = 0
  BY DEF NoBuckets
<1>7. c \in [0..(n - 1) -> Seq(Items)] /\ \A b \in 0..(n - 1) : c[b] = <<>>
  BY <1>2
<1> HIDE DEF c, B
<1>8. Held(B, hp, hn, n, c, {})
  BY <1>1, <1>2, <1>4, <1>5, <1>6, <1>7 DEF Held
<1> QED
  BY <1>1, <1>6, <1>8 DEF B

(* The items met in k turns. *)
Done(q, k) == {q[i] : i \in 1..k}

(* Each turn meets one item more. *)
LEMMA DoneFacts ==
  ASSUME NEW q \in Seq(Items), Distinct(q)
  PROVE  /\ Done(q, 0) = {} /\ Done(q, Len(q)) = Members(q) /\ Len(q) \in Nat
         /\ \A k \in 1..Len(q) : /\ q[k] \in Items /\ q[k] \notin Done(q, k - 1)
                                 /\ Done(q, k - 1) \in SUBSET Items
                                 /\ Done(q, k) = Done(q, k - 1) \cup {q[k]}
<1>1. Len(q) \in Nat /\ q \in [1..Len(q) -> Items]
  BY LenProperties
<1>2. Done(q, 0) = {} /\ Done(q, Len(q)) = Members(q)
  <2>1. 1..0 = {}
    OBVIOUS
  <2> QED
    BY <2>1 DEF Done, Members
<1>3. ASSUME NEW k \in 1..Len(q)
      PROVE  /\ q[k] \in Items /\ q[k] \notin Done(q, k - 1)
             /\ Done(q, k - 1) \in SUBSET Items
             /\ Done(q, k) = Done(q, k - 1) \cup {q[k]}
  <2>1. \A i \in 1..(k - 1) : i \in 1..Len(q) /\ i # k
    BY <1>1
  <2>2. 1..k = (1..(k - 1)) \cup {k}
    BY <1>1
  <2> QED
    BY <1>1, <2>1, <2>2 DEF Done, Distinct
<1> QED
  BY <1>1, <1>2, <1>3

(* Items 1 to k are in their new buckets. *)
Rehashed(r, n, ideal, q, k) ==
  /\ WithinIdeal(r.buckets, ideal)
  /\ \E c : Held(r.buckets, r.hh_prev, r.hh_next, n, c, Done(q, k))

(* The whole loop: the new buckets hold what the old ones held. *)
LEMMA RehashAllFacts ==
  ASSUME hashf \in HASH_FCN, NEW h, NEW c, NEW S \in SUBSET Items, Bucketed(h, c, S),
         NEW n \in Nat \ {0}, NEW ideal \in Nat
  PROVE  LET r == RehashAll(h, n, ideal)
         IN  /\ r \in Rehashing(n) /\ WithinIdeal(r.buckets, ideal)
             /\ \E c2 : Held(r.buckets, r.hh_prev, r.hh_next, n, c2, S)
<1> DEFINE q == BucketOrder(h)
           N == Len(q)
           r0 == [buckets |-> NoBuckets(n), nonideal |-> 0,
                  hh_prev |-> h.hh_prev, hh_next |-> h.hh_next]
           X == [k \in 0..N |-> {r \in Rehashing(n) : Rehashed(r, n, ideal, q, k)}]
           step == [k \in 1..N |-> [r \in X[k - 1] |-> Rehash(r, q[k], ideal)]]
           LoopBody(f) == [k \in 0..N |-> IF k = 0 THEN r0 ELSE Rehash(f[k - 1], q[k], ideal)]
<1>1. q \in Seq(Items) /\ Distinct(q) /\ Members(q) = S
  BY OrderIs
<1>2. /\ Done(q, 0) = {} /\ Done(q, N) = S /\ N \in Nat
      /\ \A k \in 1..N : /\ q[k] \in Items /\ q[k] \notin Done(q, k - 1)
                         /\ Done(q, k - 1) \in SUBSET Items
                         /\ Done(q, k) = Done(q, k - 1) \cup {q[k]}
  BY <1>1, DoneFacts
<1>3. r0 \in Rehashing(n) /\ Rehashed(r0, n, ideal, q, 0)
  <2>1. h.hh_prev \in Field /\ h.hh_next \in Field
    BY DEF Bucketed, Handle
  <2>2. /\ NoBuckets(n) \in [0..(n - 1) -> Bucket]
        /\ \E c0 : Held(NoBuckets(n), h.hh_prev, h.hh_next, n, c0, {})
        /\ \A b \in 0..(n - 1) : NoBuckets(n)[b].count = 0
    BY NoChains
  <2>3. r0 \in Rehashing(n)
    BY <2>1, <2>2 DEF Rehashing
  <2>4. WithinIdeal(NoBuckets(n), ideal)
    <3> SUFFICES ASSUME NEW b \in 0..(n - 1), ideal >= 1
                 PROVE  NoBuckets(n)[b].count <= (NoBuckets(n)[b].expand_mult + 1) * ideal
      BY <2>2 DEF WithinIdeal
    <3>1. NoBuckets(n)[b].count = 0 /\ NoBuckets(n)[b].expand_mult = 0
      BY DEF NoBuckets
    <3> QED
      BY <3>1
  <2>5. r0.buckets = NoBuckets(n) /\ r0.hh_prev = h.hh_prev /\ r0.hh_next = h.hh_next
    OBVIOUS
  <2> HIDE DEF r0, q
  <2>6. \E c0 : Held(r0.buckets, r0.hh_prev, r0.hh_next, n, c0, Done(q, 0))
    <3>1. Done(q, 0) = {}
      BY <1>2
    <3>2. PICK c0 : Held(NoBuckets(n), h.hh_prev, h.hh_next, n, c0, {})
      BY <2>2
    <3>3. Held(r0.buckets, r0.hh_prev, r0.hh_next, n, c0, Done(q, 0))
      BY <2>5, <3>1, <3>2
    <3> QED
      BY <3>3
  <2> QED
    BY <2>3, <2>4, <2>5, <2>6 DEF Rehashed
<1> HIDE DEF q, r0
<1>4. ASSUME NEW k \in 1..N, NEW r \in Rehashing(n), Rehashed(r, n, ideal, q, k - 1)
      PROVE  Rehash(r, q[k], ideal) \in Rehashing(n) /\ Rehashed(Rehash(r, q[k], ideal), n, ideal, q, k)
  <2>1. PICK c1 : Held(r.buckets, r.hh_prev, r.hh_next, n, c1, Done(q, k - 1))
    BY <1>4 DEF Rehashed
  <2>2. WithinIdeal(r.buckets, ideal)
    BY <1>4 DEF Rehashed
  <2> DEFINE r2 == Rehash(r, q[k], ideal)
  <2>3. /\ r2 \in Rehashing(n) /\ WithinIdeal(r2.buckets, ideal)
        /\ \E c2 : Held(r2.buckets, r2.hh_prev, r2.hh_next, n, c2, Done(q, k - 1) \cup {q[k]})
    BY <1>2, <2>1, <2>2, RehashOne
  <2>4. Done(q, k) = Done(q, k - 1) \cup {q[k]}
    BY <1>2
  <2>5. \E c2 : Held(r2.buckets, r2.hh_prev, r2.hh_next, n, c2, Done(q, k))
    BY <2>3, <2>4
  <2> HIDE DEF r2
  <2>6. Rehashed(r2, n, ideal, q, k)
    BY <2>3, <2>5 DEF Rehashed
  <2> QED
    BY <2>3, <2>6 DEF r2
<1>5. \A k \in 1..N : k - 1 \in 0..N /\ k \in 0..N /\ k # 0
  BY <1>2
<1>6. \A k \in 1..N : step[k] \in [X[k - 1] -> X[k]]
  <2> TAKE k \in 1..N
  <2>1. X[k - 1] = {r \in Rehashing(n) : Rehashed(r, n, ideal, q, k - 1)}
        /\ X[k] = {r \in Rehashing(n) : Rehashed(r, n, ideal, q, k)}
    BY <1>5
  <2> HIDE DEF X
  <2>2. \A r \in X[k - 1] : Rehash(r, q[k], ideal) \in X[k]
    BY <1>4, <2>1
  <2> QED
    BY <2>2
<1>7. 0 \in 0..N /\ N \in 0..N
  BY <1>2
<1>8. r0 \in X[0]
  BY <1>3, <1>7
<1>9. \E f : f = LoopOf(f, r0, step, N) /\ \A k \in 0..N : f[k] \in X[k]
  <2> HIDE DEF X, step
  <2> QED
    BY <1>2, <1>6, <1>8, LoopRuns
<1>10. \E f : f = LoopBody(f)
  <2>1. PICK f : f = LoopOf(f, r0, step, N) /\ \A k \in 0..N : f[k] \in X[k]
    BY <1>9
  <2>2. \A k \in 1..N : step[k][f[k - 1]] = Rehash(f[k - 1], q[k], ideal)
    <3> TAKE k \in 1..N
    <3>1. f[k - 1] \in X[k - 1]
      BY <1>5, <2>1
    <3> HIDE DEF X
    <3> QED
      BY <3>1
  <2>3. LoopOf(f, r0, step, N) = LoopBody(f)
    <3>1. \A k \in 0..N : k # 0 => k \in 1..N
      BY <1>2
    <3> HIDE DEF step, X
    <3> QED
      BY <2>2, <3>1 DEF LoopOf
  <2> HIDE DEF LoopBody, step
  <2> QED
    BY <2>1, <2>3
<1> DEFINE w == CHOOSE f : f = LoopBody(f)
<1>11. w = LoopBody(w)
  <2> HIDE DEF LoopBody
  <2> QED
    BY <1>10
<1>12. RehashAll(h, n, ideal) = w[N]
  BY DEF RehashAll, q, r0
<1> HIDE DEF w
<1>13. w[0] = r0 /\ \A k \in 1..N : w[k] = Rehash(w[k - 1], q[k], ideal)
  <2>1. \A f : f = LoopBody(f) => f[0] = r0 /\ \A k \in 1..N : f[k] = Rehash(f[k - 1], q[k], ideal)
    BY <1>5, <1>7
  <2> HIDE DEF LoopBody
  <2> QED
    BY <1>11, <2>1
<1>14. \A k \in 0..N : w[k] \in X[k]
  <2>1. \A k \in 1..N : w[k - 1] \in X[k - 1] => w[k] \in X[k]
    <3> TAKE k \in 1..N
    <3>1. X[k - 1] = {r \in Rehashing(n) : Rehashed(r, n, ideal, q, k - 1)}
          /\ X[k] = {r \in Rehashing(n) : Rehashed(r, n, ideal, q, k)}
      BY <1>5
    <3> HIDE DEF X
    <3> QED
      BY <1>4, <1>13, <3>1
  <2> HIDE DEF X
  <2> QED
    BY <1>2, <1>8, <1>13, <2>1, LoopKeeps
<1>15. w[N] \in Rehashing(n) /\ Rehashed(w[N], n, ideal, q, N)
  BY <1>7, <1>14
<1> HIDE DEF N
<1> QED
  BY <1>2, <1>12, <1>15 DEF Rehashed

(* What work on the buckets leaves alone. *)
SameOrder(h, r) ==
  /\ r.head = h.head /\ r.prev = h.prev /\ r.next = h.next
  /\ r.tbl.num_items = h.tbl.num_items /\ r.tbl.tail = h.tbl.tail

(* noexpand is set by the second ineffective expansion in a row. *)
GivenUp(t) == t.noexpand = (t.ineff_expands > 1)

(* No chain is longer than its limit, unless expansion has been given up. *)
Bounded(t) ==
  ~t.noexpand => \A b \in DOMAIN t.buckets :
    \E len \in {HASH_BKT_CAPACITY_THRESH, t.ideal_chain_maxlen} :
      t.buckets[b].count <= (t.buckets[b].expand_mult + 1) * len

(* A hash that has an item has an ideal length of at least one. *)
LEMMA IdealFacts ==
  ASSUME NEW t \in Tables
  PROVE  IdealMaxlen(t) \in Nat /\ (t.num_items >= 1 => IdealMaxlen(t) >= 1)
<1> DEFINE m == t.num_items
           n == t.num_buckets * 2
<1>1. m \in Nat /\ n \in Nat \ {0} /\ Bit[t.log2_num_buckets + 1] = n
  <2>1. t.log2_num_buckets \in Nat /\ t.num_items \in Nat
        /\ t.num_buckets = Bit[t.log2_num_buckets] /\ t.num_buckets \in Nat \ {0}
    BY TableFacts
  <2>2. Bit[t.log2_num_buckets + 1] = 2 * Bit[t.log2_num_buckets]
    BY <2>1, BitFacts
  <2> QED
    BY <2>1, <2>2
<1>2. IdealMaxlen(t) = (m \div n) + IF m % n # 0 THEN 1 ELSE 0
  BY <1>1 DEF IdealMaxlen
<1> HIDE DEF m, n
<1>3. m \div n \in Nat /\ (m >= 1 /\ m % n = 0 => m \div n >= 1)
  BY <1>1
<1> QED
  BY <1>2, <1>3 DEF m

(* HASH_EXPAND_BUCKETS: the same items, and every chain is within its limit. *)
LEMMA ExpandIs ==
  ASSUME hashf \in HASH_FCN, NEW h, NEW c, NEW S \in SUBSET Items, Bucketed(h, c, S)
  PROVE  LET r == ExpandBuckets(h)
         IN  /\ \E c2 : Bucketed(r, c2, S)
             /\ SameOrder(h, r)
             /\ ~h.tbl.noexpand => GivenUp(r.tbl)
             /\ h.tbl.num_items >= 1 => Bounded(r.tbl)
<1> DEFINE t == h.tbl
           k == t.log2_num_buckets
           ideal == IdealMaxlen(t)
           n == 2 * t.num_buckets
           new == RehashAll(h, n, ideal)
           ineff == IF new.nonideal > t.num_items \div 2 THEN t.ineff_expands + 1 ELSE 0
           t2 == [t EXCEPT !.buckets = new.buckets,
                           !.num_buckets = @ * 2,
                           !.log2_num_buckets = @ + 1,
                           !.ideal_chain_maxlen = ideal,
                           !.ineff_expands = ineff,
                           !.noexpand = @ \/ ineff > 1]
           r == [h EXCEPT !.hh_prev = new.hh_prev, !.hh_next = new.hh_next, !.tbl = t2]
<1>1. ExpandBuckets(h) = r
  BY DEF ExpandBuckets
<1>2. t \in Tables /\ h \in Handle
  BY DEF Bucketed
<1>3. /\ k \in Nat /\ t \in Table(k)
      /\ t.num_buckets = Bit[k] /\ t.num_buckets \in Nat \ {0}
      /\ t.num_items \in Nat /\ t.tail \in Ptr
      /\ t.ineff_expands \in Nat /\ t.noexpand \in BOOLEAN
  BY <1>2, TableFacts
<1>4. ideal \in Nat /\ (t.num_items >= 1 => ideal >= 1)
  BY <1>2, IdealFacts
<1>5. n \in Nat \ {0} /\ n = Bit[k + 1] /\ t.num_buckets * 2 = n
  <2>1. Bit[k + 1] = 2 * Bit[k]
    BY <1>3, BitFacts
  <2> QED
    BY <1>3, <2>1
<1> HIDE DEF t, k, ideal, n
<1>6. /\ new \in Rehashing(n) /\ WithinIdeal(new.buckets, ideal)
      /\ \E c2 : Held(new.buckets, new.hh_prev, new.hh_next, n, c2, S)
  BY <1>4, <1>5, RehashAllFacts
<1> HIDE DEF new
<1>7. /\ new.buckets \in [0..(n - 1) -> Bucket] /\ new.nonideal \in Nat
      /\ new.hh_prev \in Field /\ new.hh_next \in Field
  BY <1>6 DEF Rehashing
<1>8. ineff \in Nat
  BY <1>3, <1>7
<1> HIDE DEF ineff
<1>9. /\ t2.num_items = t.num_items /\ t2.tail = t.tail /\ t2.buckets = new.buckets
      /\ t2.num_buckets = n /\ t2.ideal_chain_maxlen = ideal
      /\ t2.ineff_expands = ineff /\ t2.noexpand = (t.noexpand \/ ineff > 1)
  BY <1>3, <1>5 DEF Table
<1>10. t2 \in Table(k + 1)
  <2>1. k + 1 \in {k + 1} /\ Bit[k + 1] \in {Bit[k + 1]} /\ (t.noexpand \/ ineff > 1) \in BOOLEAN
    OBVIOUS
  <2> DEFINE B == new.buckets
             m == Bit[k + 1]
             bs == [0..(m - 1) -> Bucket]
  <2>2. B \in bs /\ t.num_buckets * 2 = m
    BY <1>5, <1>7
  <2>3. k = t.log2_num_buckets
    BY DEF k
  <2>4. t \in Table(k)
    BY <1>3
  <2> HIDE DEF B, bs
  <2>5. t2 = [t EXCEPT !.buckets = B, !.num_buckets = @ * 2, !.log2_num_buckets = @ + 1,
                       !.ideal_chain_maxlen = ideal, !.ineff_expands = ineff,
                       !.noexpand = @ \/ ineff > 1]
    BY DEF B
  <2> HIDE DEF t2
  <2>6. t2 \in [num_buckets : {m}, log2_num_buckets : {k + 1},
                buckets : bs, num_items : Nat, tail : Ptr,
                ideal_chain_maxlen : Nat, ineff_expands : Nat, noexpand : BOOLEAN]
    BY <1>4, <1>8, <2>2, <2>3, <2>4, <2>5 DEF Table
  <2> QED
    BY <2>6 DEF Table, bs
<1> HIDE DEF t2
<1>11. r \in Handle /\ r.tbl = t2 /\ r.hh_prev = new.hh_prev /\ r.hh_next = new.hh_next
       /\ r.head = h.head /\ r.prev = h.prev /\ r.next = h.next
  <2>1. t2 \in Tables
    BY <1>3, <1>10 DEF Tables
  <2> QED
    BY <1>2, <1>7, <2>1 DEF Handle
<1> HIDE DEF r
<1>12. \E c2 : Bucketed(r, c2, S)
  <2>1. r.tbl \in Tables
    BY <1>3, <1>10, <1>11 DEF Tables
  <2>2. PICK c2 : Held(new.buckets, new.hh_prev, new.hh_next, n, c2, S)
    BY <1>6
  <2>3. Held(r.tbl.buckets, r.hh_prev, r.hh_next, r.tbl.num_buckets, c2, S)
    BY <1>9, <1>11, <2>2
  <2> QED
    BY <1>11, <2>1, <2>3 DEF Bucketed
<1>13. SameOrder(h, r)
  BY <1>9, <1>11 DEF SameOrder, t
<1>14. ~t.noexpand => GivenUp(r.tbl)
  BY <1>9, <1>11 DEF GivenUp
<1>15. t.num_items >= 1 => Bounded(r.tbl)
  <2> SUFFICES ASSUME t.num_items >= 1, NEW b \in DOMAIN t2.buckets
               PROVE  t2.buckets[b].count <= (t2.buckets[b].expand_mult + 1) * ideal
    BY <1>9, <1>11 DEF Bounded
  <2>1. ideal >= 1
    BY <1>4
  <2> QED
    BY <1>6, <1>9, <2>1 DEF WithinIdeal
<1> QED
  BY <1>1, <1>12, <1>13, <1>14, <1>15 DEF t

(* Entering a chain changes one bucket and nothing of the order. *)
LEMMA ChainedIs ==
  ASSUME hashf \in HASH_FCN, NEW h, NEW c, NEW S \in SUBSET Items, Bucketed(h, c, S),
         NEW e \in Items, e \notin S
  PROVE  LET b == Slot(e, h.tbl.num_buckets)
             r == Chained(h, e, b)
         IN  /\ \E c2 : Bucketed(r, c2, S \cup {e})
             /\ SameOrder(h, r)
             /\ r.tbl.num_buckets = h.tbl.num_buckets
             /\ r.tbl.ideal_chain_maxlen = h.tbl.ideal_chain_maxlen
             /\ r.tbl.ineff_expands = h.tbl.ineff_expands
             /\ r.tbl.noexpand = h.tbl.noexpand
             /\ b \in DOMAIN h.tbl.buckets /\ DOMAIN r.tbl.buckets = DOMAIN h.tbl.buckets
             /\ \A a \in DOMAIN h.tbl.buckets : a # b => r.tbl.buckets[a] = h.tbl.buckets[a]
<1> DEFINE t == h.tbl
           n == t.num_buckets
           k == t.log2_num_buckets
           B == t.buckets
           b == Slot(e, n)
           bkt == B[b]
           first == bkt.hh_head
           bkt2 == [bkt EXCEPT !.count = @ + 1, !.hh_head = e]
           hp2 == Put([h.hh_prev EXCEPT ![e] = NULL], first, e)
           hn2 == [h.hh_next EXCEPT ![e] = first]
           r == Chained(h, e, b)
<1>1. r = [h EXCEPT !.tbl.buckets[b] = bkt2, !.hh_next[e] = first, !.hh_prev = hp2]
  BY DEF Chained
<1>2. t \in Tables /\ h \in Handle /\ Held(B, h.hh_prev, h.hh_next, n, c, S)
  BY DEF Bucketed
<1>3. k \in Nat /\ t \in Table(k) /\ n = Bit[k] /\ n \in Nat \ {0} /\ B \in [0..(n - 1) -> Bucket]
  BY <1>2, TableFacts
<1>4. b \in 0..(n - 1)
  BY <1>3, SlotType
<1>5. h.hh_prev \in Field /\ h.hh_next \in Field
  BY <1>2 DEF Handle
<1> HIDE DEF t, n, k, B, b
<1>6. bkt \in Bucket
  BY <1>3, <1>4
<1>7. bkt2 \in Bucket /\ bkt2.hh_head = e /\ bkt2.count = bkt.count + 1
  <2> HIDE DEF bkt
  <2>1. e \in Ptr
    BY DEF Ptr
  <2>2. bkt2.hh_head = e /\ bkt2.count = bkt.count + 1
    BY <1>6 DEF Bucket
  <2>3. bkt.count + 1 \in Nat
    BY <1>6 DEF Bucket
  <2>4. bkt2 \in Bucket
    BY <1>6, <2>1, <2>3 DEF Bucket
  <2> QED
    BY <2>2, <2>4
<1> HIDE DEF bkt2
<1> DEFINE B2 == [B EXCEPT ![b] = bkt2]
<1>8. B2 \in [0..(n - 1) -> Bucket] /\ ChainsIn(B, e, b, B2)
  BY <1>3, <1>4, <1>7 DEF ChainsIn
<1>9. /\ hp2 \in Field /\ hn2 \in Field
      /\ \E c2 : Held(B2, hp2, hn2, n, c2, S \cup {e})
  <2> HIDE DEF B2
  <2> QED
    BY <1>2, <1>5, <1>8, ChainIn DEF b
<1> HIDE DEF hp2
<1>10. /\ r.head = h.head /\ r.prev = h.prev /\ r.next = h.next
       /\ r.hh_prev = hp2 /\ r.hh_next = hn2
       /\ r.tbl = [t EXCEPT !.buckets = B2]
  <2>1. r.tbl = [h.tbl EXCEPT !.buckets[b] = bkt2]
    <3> HIDE DEF bkt, first
    <3> QED
      BY <1>1, <1>2 DEF Handle
  <2>2. [h.tbl EXCEPT !.buckets[b] = bkt2] = [t EXCEPT !.buckets = B2]
    BY DEF t, B
  <2> HIDE DEF bkt, first
  <2>3. r.head = h.head /\ r.prev = h.prev /\ r.next = h.next /\ r.hh_prev = hp2
    BY <1>1, <1>2 DEF Handle
  <2>4. r.hh_next = [h.hh_next EXCEPT ![e] = first]
    BY <1>1, <1>2 DEF Handle
  <2> QED
    BY <2>1, <2>2, <2>3, <2>4
<1> DEFINE t2 == [t EXCEPT !.buckets = B2]
<1> HIDE DEF B2
<1>11. t2 \in Table(k) /\ t2.buckets = B2 /\ t2.num_buckets = n /\ t2.num_items = t.num_items
       /\ t2.tail = t.tail /\ t2.ideal_chain_maxlen = t.ideal_chain_maxlen
       /\ t2.ineff_expands = t.ineff_expands /\ t2.noexpand = t.noexpand
  <2>1. t2.buckets = B2 /\ t2.num_buckets = n /\ t2.num_items = t.num_items
        /\ t2.tail = t.tail /\ t2.ideal_chain_maxlen = t.ideal_chain_maxlen
        /\ t2.ineff_expands = t.ineff_expands /\ t2.noexpand = t.noexpand
    BY <1>3 DEF Table, n
  <2> DEFINE bs == [0..(Bit[k] - 1) -> Bucket]
  <2>2. B2 \in bs
    BY <1>3, <1>8
  <2> HIDE DEF bs
  <2>3. t \in [num_buckets : {Bit[k]}, log2_num_buckets : {k},
               buckets : bs, num_items : Nat, tail : Ptr,
               ideal_chain_maxlen : Nat, ineff_expands : Nat, noexpand : BOOLEAN]
    BY <1>3 DEF Table, bs
  <2>4. t2 \in [num_buckets : {Bit[k]}, log2_num_buckets : {k},
               buckets : bs, num_items : Nat, tail : Ptr,
               ideal_chain_maxlen : Nat, ineff_expands : Nat, noexpand : BOOLEAN]
    BY <2>2, <2>3
  <2>5. t2 \in Table(k)
    BY <2>4 DEF Table, bs
  <2> QED
    BY <2>1, <2>5
<1> HIDE DEF t2
<1>12. r.tbl = t2
  BY <1>10 DEF t2
<1>13. r \in Handle
  <2>1. t2 \in Tables
    BY <1>3, <1>11 DEF Tables
  <2>2. r = [h EXCEPT !.tbl = t2, !.hh_next = hn2, !.hh_prev = hp2]
    <3> HIDE DEF bkt, first, r
    <3>1. h.tbl = t /\ t2 = [h.tbl EXCEPT !.buckets[b] = bkt2]
      BY DEF t, t2, B2, B
    <3> QED
      BY <1>1, <1>2, <3>1 DEF Handle
  <2> HIDE DEF r, hn2
  <2> QED
    BY <1>2, <1>9, <2>1, <2>2 DEF Handle
<1> HIDE DEF r, hn2
<1>14. \E c2 : Bucketed(r, c2, S \cup {e})
  <2>1. PICK c2 : Held(B2, hp2, hn2, n, c2, S \cup {e})
    BY <1>9
  <2>2. Held(r.tbl.buckets, r.hh_prev, r.hh_next, r.tbl.num_buckets, c2, S \cup {e})
    BY <1>10, <1>11, <1>12, <2>1 DEF hn2
  <2>3. r.tbl \in Tables
    BY <1>3, <1>11, <1>12 DEF Tables
  <2> QED
    BY <1>13, <2>2, <2>3 DEF Bucketed
<1>15. SameOrder(h, r)
  BY <1>10, <1>11, <1>12 DEF SameOrder, t
<1>16. b \in DOMAIN B /\ DOMAIN B2 = DOMAIN B /\ \A a \in DOMAIN B : a # b => B2[a] = B[a]
  BY <1>3, <1>4 DEF B2
<1> QED
  BY <1>11, <1>12, <1>14, <1>15, <1>16 DEF t, n, b, B, r

(* HASH_ADD_TO_BKT: the item is held, and a chain at its limit is cut by    *)
(* an expansion unless that has been given up.                              *)
LEMMA AddToBktIs ==
  ASSUME hashf \in HASH_FCN, NEW h, NEW c, NEW S \in SUBSET Items, Bucketed(h, c, S),
         NEW e \in Items, e \notin S
  PROVE  LET r == AddToBkt(h, e)
         IN  /\ \E c2 : Bucketed(r, c2, S \cup {e})
             /\ SameOrder(h, r)
             /\ GivenUp(h.tbl) => GivenUp(r.tbl)
             /\ h.tbl.num_items >= 1 /\ Bounded(h.tbl) => Bounded(r.tbl)
<1> DEFINE b == Slot(e, h.tbl.num_buckets)
           added == Chained(h, e, b)
           bkt == added.tbl.buckets[b]
           full == bkt.count >= (bkt.expand_mult + 1) * HASH_BKT_CAPACITY_THRESH
           r == AddToBkt(h, e)
<1>1. BktOf(h, KeyOf[e]) = b
  BY DEF BktOf, Slot
<1>2. r = IF full /\ ~h.tbl.noexpand THEN ExpandBuckets(added) ELSE added
  BY <1>1 DEF AddToBkt
<1>3. /\ \E c2 : Bucketed(added, c2, S \cup {e})
      /\ SameOrder(h, added)
      /\ added.tbl.ideal_chain_maxlen = h.tbl.ideal_chain_maxlen
      /\ added.tbl.ineff_expands = h.tbl.ineff_expands
      /\ added.tbl.noexpand = h.tbl.noexpand
      /\ b \in DOMAIN h.tbl.buckets /\ DOMAIN added.tbl.buckets = DOMAIN h.tbl.buckets
      /\ \A a \in DOMAIN h.tbl.buckets : a # b => added.tbl.buckets[a] = h.tbl.buckets[a]
  BY ChainedIs
<1>4. h.tbl \in Tables /\ added.tbl \in Tables
  BY <1>3 DEF Bucketed
<1>5. bkt.count \in Nat /\ bkt.expand_mult \in Nat
  <2>1. added.tbl.buckets \in [0..(added.tbl.num_buckets - 1) -> Bucket]
    BY <1>4, TableFacts
  <2>2. bkt \in Bucket
    BY <1>3, <2>1
  <2> QED
    BY <2>2 DEF Bucket
<1>6. S \cup {e} \in SUBSET Items
  OBVIOUS
<1> HIDE DEF added, b, r
<1>7. CASE full /\ ~h.tbl.noexpand
  <2>1. r = ExpandBuckets(added)
    BY <1>2, <1>7
  <2>2. PICK c2 : Bucketed(added, c2, S \cup {e})
    BY <1>3
  <2>3. /\ \E c3 : Bucketed(r, c3, S \cup {e})
        /\ SameOrder(added, r)
        /\ ~added.tbl.noexpand => GivenUp(r.tbl)
        /\ added.tbl.num_items >= 1 => Bounded(r.tbl)
    BY <1>6, <2>1, <2>2, ExpandIs
  <2>4. ~added.tbl.noexpand /\ added.tbl.num_items = h.tbl.num_items
    BY <1>3, <1>7 DEF SameOrder
  <2>5. SameOrder(h, r)
    BY <1>3, <2>3 DEF SameOrder
  <2> QED
    BY <2>3, <2>4, <2>5 DEF r
<1>8. CASE ~(full /\ ~h.tbl.noexpand)
  <2>1. r = added
    BY <1>2, <1>8
  <2>2. ASSUME Bounded(h.tbl) PROVE Bounded(added.tbl)
    <3> SUFFICES ASSUME ~added.tbl.noexpand, NEW a \in DOMAIN added.tbl.buckets
                 PROVE  \E len \in {HASH_BKT_CAPACITY_THRESH, added.tbl.ideal_chain_maxlen} :
                          added.tbl.buckets[a].count <= (added.tbl.buckets[a].expand_mult + 1) * len
      BY DEF Bounded
    <3>1. ~h.tbl.noexpand
      BY <1>3
    <3>2. CASE a = b
      <4> DEFINE limit == (bkt.expand_mult + 1) * HASH_BKT_CAPACITY_THRESH
      <4>1. ~(bkt.count >= limit) /\ limit \in Int
        BY <1>5, <1>8, <3>1, UthashAssumption
      <4> HIDE DEF limit, bkt
      <4>2. bkt.count <= limit
        BY <1>5, <4>1
      <4> QED
        BY <3>2, <4>2 DEF limit, bkt
    <3>3. CASE a # b
      BY <1>3, <2>2, <3>1, <3>3 DEF Bounded
    <3> QED
      BY <3>2, <3>3
  <2>3. GivenUp(h.tbl) => GivenUp(added.tbl)
    BY <1>3 DEF GivenUp
  <2> QED
    BY <1>3, <2>1, <2>2, <2>3 DEF r
<1> QED
  BY <1>7, <1>8
=============================================================================
