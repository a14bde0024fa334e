------------------------------ MODULE SeqFacts ------------------------------
(***************************************************************************)
(* Induction and recursion on the natural numbers, with sets and functions *)
(* for the predicate and the definition; and what FlattenSeq computes.     *)
(***************************************************************************)
EXTENDS SequencesExt, Integers, SequenceTheorems, WellFoundedInduction, TLAPS

(* A set of numbers that is not empty has a least element. *)
LEMMA LeastElement ==
  ASSUME NEW T, T \subseteq Nat, T # {}
  PROVE  \E x \in T : \A y \in T : x <= y
<1>1. PICK x \in T : \A y \in T : ~(<<y, x>> \in OpToRel(<, Nat))
  BY WFMin, NatLessThanWellFounded
<1>2. ASSUME NEW y \in T PROVE x <= y
  <2>1. ~(y < x)
    BY <1>1 DEF OpToRel
  <2> QED
    BY <2>1
<1> QED
  BY <1>2

(* Induction: the set of numbers that have a property. *)
LEMMA Induction ==
  ASSUME NEW T, 0 \in T, \A n \in Nat : n \in T => n + 1 \in T
  PROVE  \A n \in Nat : n \in T
<1> DEFINE C == {n \in Nat : n \notin T}
<1> SUFFICES ASSUME C # {} PROVE FALSE
  OBVIOUS
<1>1. PICK x \in C : \A y \in C : x <= y
  BY LeastElement
<1>2. x # 0 /\ x - 1 \in Nat /\ x - 1 \notin C
  BY <1>1
<1>3. (x - 1) + 1 = x
  BY <1>2
<1> QED
  BY <1>2, <1>3

(* Recursion: applying one function after the other, from x0, is a         *)
(* function on the numbers.                                                *)
Iterates(h, x0, step) ==
  h[0] = x0 /\ \A n \in Nat : h[n + 1] = step[n][h[n]]

LEMMA Iteration ==
  ASSUME NEW X, NEW x0 \in X, NEW step \in [Nat -> [X -> X]]
  PROVE  \E h \in [Nat -> X] : Iterates(h, x0, step)
<1> DEFINE Runs(n) == {f \in [0..n -> X] : /\ f[0] = x0
                                          /\ \A i \in 0..(n - 1) : f[i + 1] = step[i][f[i]]}
           T == {n \in Nat : Runs(n) # {}}
<1>1. \A n \in Nat : Runs(n) # {}
  <2>1. 0 \in T
    <3>1. [i \in 0..0 |-> x0] \in Runs(0)
      OBVIOUS
    <3> QED
      BY <3>1
  <2>2. ASSUME NEW n \in Nat, n \in T PROVE n + 1 \in T
    <3>1. PICK f \in Runs(n) : TRUE
      BY <2>2
    <3>2. f[n] \in X
      BY <3>1
    <3> DEFINE g == [i \in 0..(n + 1) |-> IF i <= n THEN f[i] ELSE step[n][f[n]]]
    <3>3. g \in [0..(n + 1) -> X] /\ g[0] = x0
      BY <3>1, <3>2
    <3>4. \A i \in 0..n : g[i + 1] = step[i][g[i]]
      <4> TAKE i \in 0..n
      <4>1. CASE i = n
        BY <3>1, <4>1
      <4>2. CASE i < n
        BY <3>1, <4>2
      <4> QED
        BY <4>1, <4>2
    <3>5. 0..((n + 1) - 1) = 0..n
      OBVIOUS
    <3>6. g \in Runs(n + 1)
      BY <3>3, <3>4, <3>5
    <3>7. Runs(n + 1) # {}
      <4> HIDE DEF Runs, g
      <4> QED
        BY <3>6
    <3> HIDE DEF Runs
    <3> QED
      BY <3>7
  <2> HIDE DEF T, Runs
  <2>3. \A n \in Nat : n \in T
    BY <2>1, <2>2, Induction
  <2> QED
    BY <2>3 DEF T
<1>2. ASSUME NEW n \in Nat, NEW f \in Runs(n), NEW g \in Runs(n + 1)
      PROVE  \A i \in 0..n : f[i] = g[i]
  <2> DEFINE S == {i \in Nat : i <= n => f[i] = g[i]}
  <2>1. 0 \in S
    OBVIOUS
  <2>2. ASSUME NEW i \in Nat, i \in S PROVE i + 1 \in S
    <3>1. CASE i + 1 <= n
      <4>1. f[i + 1] = step[i][f[i]] /\ g[i + 1] = step[i][g[i]] /\ f[i] = g[i]
        BY <2>2, <3>1
      <4> QED
        BY <4>1
    <3>2. CASE ~(i + 1 <= n)
      BY <3>2
    <3> QED
      BY <3>1, <3>2
  <2> HIDE DEF S
  <2>3. \A i \in Nat : i \in S
    BY <2>1, <2>2, Induction
  <2> QED
    BY <2>3 DEF S
<1> DEFINE run(n) == CHOOSE f \in Runs(n) : TRUE
           h == [n \in Nat |-> run(n)[n]]
<1>3. \A n \in Nat : run(n) \in Runs(n)
  BY <1>1
<1>4. ASSUME NEW n \in Nat PROVE h[n] \in X
  <2> HIDE DEF run
  <2>1. run(n) \in Runs(n)
    BY <1>3
  <2> QED
    BY <2>1
<1>5. h[0] = x0
  <2> HIDE DEF run
  <2>1. run(0) \in Runs(0)
    BY <1>3
  <2> QED
    BY <2>1
<1>6. ASSUME NEW n \in Nat PROVE h[n + 1] = step[n][h[n]]
  <2>1. run(n + 1) \in Runs(n + 1) /\ run(n) \in Runs(n)
    <3> HIDE DEF run, Runs
    <3> QED
      BY <1>3
  <2>2. run(n + 1)[n + 1] = step[n][run(n + 1)[n]]
    <3>1. n \in 0..((n + 1) - 1)
      OBVIOUS
    <3> QED
      BY <2>1, <3>1
  <2>3. run(n)[n] = run(n + 1)[n]
    <3> HIDE DEF run, Runs
    <3>1. n \in 0..n
      OBVIOUS
    <3> QED
      BY <1>2, <2>1, <3>1
  <2> QED
    BY <2>2, <2>3
<1> QED
  <2> HIDE DEF run, Runs
  <2>1. h \in [Nat -> X]
    BY <1>4
  <2> QED
    BY <1>5, <1>6, <2>1 DEF Iterates

(* A loop of n turns: a function that says so, through whatever sets the   *)
(* turns lead.                                                             *)
LoopOf(f, s, step, n) == [k \in 0..n |-> IF k = 0 THEN s ELSE step[k][f[k - 1]]]

LEMMA LoopRuns ==
  ASSUME NEW n \in Nat, NEW X, NEW s \in X[0], NEW step,
         \A k \in 1..n : step[k] \in [X[k - 1] -> X[k]]
  PROVE  \E f : f = LoopOf(f, s, step, n) /\ \A k \in 0..n : f[k] \in X[k]
<1> DEFINE U == UNION {X[k] : k \in 0..n}
           next == [k \in Nat |-> [x \in U |-> IF k + 1 \in 1..n /\ x \in X[k]
                                               THEN step[k + 1][x] ELSE x]]
<1>1. s \in U
  BY 0 \in 0..n
<1>2. next \in [Nat -> [U -> U]]
  <2> SUFFICES ASSUME NEW k \in Nat, k + 1 \in 1..n, NEW x \in X[k]
               PROVE  step[k + 1][x] \in U
    OBVIOUS
  <2>1. (k + 1) - 1 = k /\ k + 1 \in 0..n
    OBVIOUS
  <2>2. step[k + 1] \in [X[(k + 1) - 1] -> X[k + 1]]
    OBVIOUS
  <2>3. step[k + 1][x] \in X[k + 1]
    BY <2>1, <2>2
  <2> QED
    BY <2>1, <2>3
<1>3. PICK h \in [Nat -> U] : Iterates(h, s, next)
  <2> HIDE DEF U, next
  <2> QED
    BY <1>1, <1>2, Iteration
<1> DEFINE T == {k \in Nat : k <= n => h[k] \in X[k]}
<1>4. h[0] = s /\ \A k \in Nat : h[k + 1] = next[k][h[k]] /\ h[k] \in U
  <2> HIDE DEF U, next
  <2> QED
    BY <1>3 DEF Iterates
<1>5. ASSUME NEW k \in Nat, k + 1 <= n, h[k] \in X[k]
      PROVE  h[k + 1] = step[k + 1][h[k]] /\ h[k + 1] \in X[k + 1]
  <2>1. k + 1 \in 1..n /\ (k + 1) - 1 = k
    BY <1>5
  <2>2. h[k + 1] = step[k + 1][h[k]]
    <3> HIDE DEF U
    <3> QED
      BY <1>4, <1>5, <2>1
  <2>3. step[k + 1] \in [X[(k + 1) - 1] -> X[k + 1]]
    BY <2>1
  <2> HIDE DEF next
  <2> QED
    BY <1>5, <2>1, <2>2, <2>3
<1> HIDE DEF U, next
<1>6. \A k \in Nat : k \in T
  <2>1. 0 \in T
    BY <1>4
  <2>2. ASSUME NEW k \in Nat, k \in T PROVE k + 1 \in T
    <3>1. k + 1 <= n => k <= n
      OBVIOUS
    <3> QED
      BY <1>5, <2>2, <3>1
  <2> HIDE DEF T
  <2> QED
    BY <2>1, <2>2, Induction
<1> DEFINE f == [k \in 0..n |-> h[k]]
<1>7. \A k \in 0..n : f[k] \in X[k]
  <2>1. \A k \in 0..n : k \in Nat /\ k <= n
    OBVIOUS
  <2> QED
    BY <1>6, <2>1
<1>8. ASSUME NEW k \in 0..n PROVE f[k] = IF k = 0 THEN s ELSE step[k][f[k - 1]]
  <2>1. CASE k = 0
    BY <1>4, <2>1
  <2>2. CASE k # 0
    <3>1. k - 1 \in Nat /\ k - 1 \in 0..n /\ (k - 1) + 1 = k /\ k - 1 <= n /\ k <= n
      BY <2>2
    <3>2. h[k - 1] \in X[k - 1]
      BY <1>6, <3>1
    <3>3. h[(k - 1) + 1] = step[(k - 1) + 1][h[k - 1]]
      <4> HIDE DEF T, f
      <4> QED
        BY <1>5, <3>1, <3>2
    <3> HIDE DEF T
    <3> QED
      BY <2>2, <3>1, <3>3
  <2> QED
    BY <2>1, <2>2
<1>9. f = LoopOf(f, s, step, n)
  BY <1>8 DEF LoopOf
<1> QED
  <2> HIDE DEF f
  <2> QED
    BY <1>7, <1>9

(* What holds before the first turn and is kept by each, holds after it.   *)
LEMMA LoopKeeps ==
  ASSUME NEW n \in Nat, NEW X, NEW f, f[0] \in X[0],
         \A k \in 1..n : f[k - 1] \in X[k - 1] => f[k] \in X[k]
  PROVE  \A k \in 0..n : f[k] \in X[k]
<1> DEFINE T == {k \in Nat : k <= n => f[k] \in X[k]}
<1>1. 0 \in T
  OBVIOUS
<1>2. ASSUME NEW k \in Nat, k \in T PROVE k + 1 \in T
  <2> SUFFICES ASSUME k + 1 <= n PROVE f[k + 1] \in X[k + 1]
    OBVIOUS
  <2>1. k + 1 \in 1..n /\ (k + 1) - 1 = k /\ k <= n
    OBVIOUS
  <2>2. f[(k + 1) - 1] \in X[(k + 1) - 1] => f[k + 1] \in X[k + 1]
    BY <2>1
  <2> QED
    BY <1>2, <2>1, <2>2
<1> HIDE DEF T
<1>3. \A k \in Nat : k \in T
  BY <1>1, <1>2, Induction
<1>4. \A k \in 0..n : k \in Nat /\ k <= n
  OBVIOUS
<1> QED
  BY <1>3, <1>4 DEF T
----------------------------------------------------------------------------
(* FlattenSeq *)

Associates(x, y, z) == (x \o y) \o z = x \o (y \o z)

LEMMA ConcatThree ==
  ASSUME NEW S, NEW x \in Seq(S), NEW y \in Seq(S), NEW z \in Seq(S)
  PROVE  Associates(x, y, z)
BY ConcatAssociative DEF Associates

(* F[i] is the first i sequences of ss, one after the other. *)
Flattens(F, ss, S) ==
  /\ F \in [0..Len(ss) -> Seq(S)]
  /\ F[0] = <<>>
  /\ \A i \in 0..(Len(ss) - 1) : F[i + 1] = F[i] \o ss[i + 1]

LEMMA FlattensExists ==
  ASSUME NEW S, NEW ss \in Seq(Seq(S))
  PROVE  \E F : Flattens(F, ss, S)
<1> DEFINE n == Len(ss)
           X == Seq(S)
           step == [i \in Nat |-> [t \in X |-> IF i < n THEN t \o ss[i + 1] ELSE t]]
<1>1. n \in Nat /\ <<>> \in X
  BY LenProperties, EmptySeq
<1>2. step \in [Nat -> [X -> X]]
  <2> SUFFICES ASSUME NEW i \in Nat, NEW t \in X, i < n PROVE t \o ss[i + 1] \in X
    OBVIOUS
  <2>1. i + 1 \in 1..n
    BY <1>1
  <2> QED
    BY <2>1, ElementOfSeq, ConcatProperties
<1>3. PICK h \in [Nat -> X] : Iterates(h, <<>>, step)
  <2> HIDE DEF X, step
  <2> QED
    BY <1>1, <1>2, Iteration
<1> DEFINE F == [i \in 0..n |-> h[i]]
<1>4. F \in [0..n -> X] /\ F[0] = <<>>
  BY <1>1, <1>3 DEF Iterates
<1>5. ASSUME NEW i \in 0..(n - 1) PROVE F[i + 1] = F[i] \o ss[i + 1]
  <2>1. i \in Nat /\ i < n /\ i \in 0..n /\ i + 1 \in 0..n
    <3> HIDE DEF X, F
    <3> QED
      BY <1>1
  <2> QED
    BY <1>3, <2>1 DEF Iterates
<1> QED
  BY <1>4, <1>5 DEF Flattens

(* The recursive function in FlattenSeq; there is one. *)
Recurs(g, ss) == g = [i \in 1..Len(ss) |-> IF i = 1 THEN ss[i] ELSE g[i - 1] \o ss[i]]

LEMMA FlattensSame ==
  ASSUME NEW S, NEW ss \in Seq(Seq(S)), NEW F, Flattens(F, ss, S), NEW g, Recurs(g, ss)
  PROVE  \A i \in 1..Len(ss) : g[i] = F[i]
<1> DEFINE T == {i \in Nat : i + 1 <= Len(ss) => g[i + 1] = F[i + 1]}
<1>0. Len(ss) \in Nat
  BY LenProperties
<1>1. 0 \in T
  <2> SUFFICES ASSUME 1 <= Len(ss) PROVE g[1] = F[1]
    OBVIOUS
  <2>1. 0 \in 0..(Len(ss) - 1) /\ 1 \in 1..Len(ss)
    BY <1>0
  <2>2. F[0 + 1] = <<>> \o ss[0 + 1]
    BY <2>1 DEF Flattens
  <2>3. F[1] = <<>> \o ss[1]
    BY <2>2
  <2>4. ss[1] \in Seq(S)
    BY <2>1, ElementOfSeq
  <2>5. F[1] = ss[1]
    BY <2>3, <2>4, ConcatEmptySeq
  <2> QED
    BY <2>1, <2>5 DEF Recurs
<1>2. ASSUME NEW i \in Nat, i \in T PROVE i + 1 \in T
  <2> SUFFICES ASSUME (i + 1) + 1 <= Len(ss) PROVE g[(i + 1) + 1] = F[(i + 1) + 1]
    OBVIOUS
  <2>1. i + 1 \in 0..(Len(ss) - 1) /\ (i + 1) + 1 \in 1..Len(ss) /\ (i + 1) + 1 # 1
        /\ ((i + 1) + 1) - 1 = i + 1
    BY <1>0
  <2>2. F[(i + 1) + 1] = F[i + 1] \o ss[(i + 1) + 1]
    BY <2>1 DEF Flattens
  <2>3. g[(i + 1) + 1] = g[i + 1] \o ss[(i + 1) + 1]
    BY <2>1 DEF Recurs
  <2>4. g[i + 1] = F[i + 1]
    BY <1>0, <1>2, <2>1
  <2> QED
    BY <2>2, <2>3, <2>4
<1> HIDE DEF T
<1>3. \A i \in Nat : i \in T
  BY <1>1, <1>2, Induction
<1>4. ASSUME NEW i \in 1..Len(ss) PROVE g[i] = F[i]
  <2>1. i - 1 \in Nat /\ (i - 1) + 1 = i /\ i <= Len(ss)
    BY <1>0
  <2> QED
    BY <1>3, <2>1 DEF T
<1> QED
  BY <1>4
(* FlattenSeq is the last of the partial results. *)
LEMMA FlattenIs ==
  ASSUME NEW S, NEW ss \in Seq(Seq(S)), NEW F, Flattens(F, ss, S)
  PROVE  FlattenSeq(ss) = F[Len(ss)]
<1>0. Len(ss) \in Nat
  BY LenProperties
<1>1. CASE Len(ss) = 0
  <2>1. ss = <<>>
    BY <1>1, EmptySeq
  <2>2. FlattenSeq(ss) = ss
    BY <1>1 DEF FlattenSeq
  <2> QED
    BY <1>1, <2>1, <2>2 DEF Flattens
<1>2. CASE Len(ss) # 0
  <2> DEFINE G(g) == [i \in 1..Len(ss) |-> IF i = 1 THEN ss[i] ELSE g[i - 1] \o ss[i]]
             f == [i \in 1..Len(ss) |-> F[i]]
  <2>1. ASSUME NEW i \in 1..Len(ss) PROVE f[i] = G(f)[i]
    <3>1. CASE i = 1
      <4>1. 0 \in 0..(Len(ss) - 1) /\ 0 + 1 = 1
        BY <1>0, <1>2
      <4>2. F[1] = <<>> \o ss[1]
        BY <4>1 DEF Flattens
      <4>3. ss[1] \in Seq(S)
        BY <3>1, ElementOfSeq
      <4>4. F[1] = ss[1]
        BY <4>2, <4>3, ConcatEmptySeq
      <4> QED
        BY <3>1, <4>4
    <3>2. CASE i # 1
      <4>1. i - 1 \in 0..(Len(ss) - 1) /\ (i - 1) + 1 = i /\ i - 1 \in 1..Len(ss)
        BY <1>0, <3>2
      <4>2. F[i] = F[i - 1] \o ss[i]
        BY <4>1 DEF Flattens
      <4> QED
        BY <3>2, <4>1, <4>2
    <3> QED
      BY <3>1, <3>2
  <2>2. f = G(f)
    BY <2>1
  <2> DEFINE g == CHOOSE g : g = G(g)
  <2>3. g = G(g)
    <3> HIDE DEF G, f
    <3> QED
      BY <2>2
  <2>4. FlattenSeq(ss) = g[Len(ss)]
    BY <1>2 DEF FlattenSeq
  <2>5. Len(ss) \in 1..Len(ss)
    BY <1>0, <1>2
  <2>6. Recurs(g, ss)
    BY <2>3 DEF Recurs
  <2> HIDE DEF g
  <2> QED
    BY <2>4, <2>5, <2>6, FlattensSame
<1> QED
  BY <1>1, <1>2

LEMMA FlattenType ==
  ASSUME NEW S, NEW ss \in Seq(Seq(S))
  PROVE  FlattenSeq(ss) \in Seq(S)
<1>1. PICK F : Flattens(F, ss, S)
  BY FlattensExists
<1>2. Len(ss) \in 0..Len(ss)
  BY LenProperties
<1>3. F[Len(ss)] \in Seq(S)
  BY <1>1, <1>2 DEF Flattens
<1> QED
  BY <1>1, <1>3, FlattenIs

LEMMA FlattenEmpty == FlattenSeq(<<>>) = <<>>
BY DEF FlattenSeq

(* One sequence more at the end. *)
LEMMA FlattenAppend ==
  ASSUME NEW S, NEW ss \in Seq(Seq(S)), NEW t \in Seq(S)
  PROVE  FlattenSeq(Append(ss, t)) = FlattenSeq(ss) \o t
<1> DEFINE n == Len(ss)
           r == Append(ss, t)
<1>1. PICK F : Flattens(F, ss, S)
  BY FlattensExists
<1>2. n \in Nat
  BY LenProperties
<1>3. /\ r \in Seq(Seq(S)) /\ Len(r) = n + 1 /\ r[n + 1] = t
      /\ \A i \in 1..n : r[i] = ss[i]
  BY AppendProperties
<1>4. /\ F \in [0..n -> Seq(S)] /\ F[0] = <<>>
      /\ \A i \in 0..(n - 1) : F[i + 1] = F[i] \o ss[i + 1]
  BY <1>1 DEF Flattens
<1>5. F[n] \in Seq(S)
  BY <1>2, <1>4
<1>6. F[n] \o t \in Seq(S)
  BY <1>5, ConcatProperties
<1> DEFINE H == [i \in 0..(n + 1) |-> IF i = n + 1 THEN F[n] \o t ELSE F[i]]
<1>7. H \in [0..(n + 1) -> Seq(S)] /\ H[0] = <<>>
  <2> HIDE DEF n, r
  <2> QED
    BY <1>2, <1>4, <1>6
<1>8. ASSUME NEW i \in 0..n PROVE H[i + 1] = H[i] \o r[i + 1]
  <2>1. CASE i = n
    <3>1. H[n + 1] = F[n] \o t /\ H[n] = F[n]
      <4> HIDE DEF n
      <4> QED
        BY <1>2
    <3> HIDE DEF n, r, H
    <3> QED
      BY <1>3, <2>1, <3>1
  <2>2. CASE i # n
    <3>1. i \in 0..(n - 1) /\ i + 1 \in 1..n /\ i + 1 # n + 1 /\ i # n + 1 /\ i + 1 \in 0..(n + 1)
      BY <1>2, <2>2
    <3>2. F[i + 1] = F[i] \o ss[i + 1] /\ r[i + 1] = ss[i + 1]
      BY <1>3, <1>4, <3>1
    <3>3. H[i + 1] = F[i + 1] /\ H[i] = F[i]
      <4> HIDE DEF n
      <4> QED
        BY <1>2, <3>1
    <3> HIDE DEF n, r, H
    <3> QED
      BY <3>2, <3>3
  <2> QED
    BY <2>1, <2>2
<1>9. Flattens(H, r, S)
  <2>1. Len(r) - 1 = n
    BY <1>2, <1>3
  <2> HIDE DEF n, r, H
  <2> QED
    BY <1>3, <1>7, <1>8, <2>1 DEF Flattens
<1>10. FlattenSeq(r) = H[n + 1] /\ FlattenSeq(ss) = F[n]
  <2> HIDE DEF H
  <2> QED
    BY <1>1, <1>3, <1>9, FlattenIs
<1>11. H[n + 1] = F[n] \o t
  BY <1>2
<1> QED
  BY <1>10, <1>11
(* The first sequence, and the others. *)
LEMMA FlattenTail ==
  ASSUME NEW S, NEW ss \in Seq(Seq(S)), ss # <<>>
  PROVE  FlattenSeq(ss) = Head(ss) \o FlattenSeq(Tail(ss))
<1> DEFINE n == Len(ss)
           r == Tail(ss)
           t == Head(ss)
<1>1. /\ t \in Seq(S) /\ r \in Seq(Seq(S)) /\ Len(r) = n - 1
      /\ \A i \in 1..(n - 1) : r[i] = ss[i + 1]
  BY HeadTailProperties
<1>2. n \in Nat \ {0} /\ ss[1] = t
  BY EmptySeq
<1>3. PICK F : Flattens(F, r, S)
  BY <1>1, FlattensExists
<1>4. /\ F \in [0..(n - 1) -> Seq(S)] /\ F[0] = <<>>
      /\ \A i \in 0..((n - 1) - 1) : F[i + 1] = F[i] \o r[i + 1]
  BY <1>1, <1>3 DEF Flattens
<1> DEFINE H == [i \in 0..n |-> IF i = 0 THEN <<>> ELSE t \o F[i - 1]]
<1>5. H \in [0..n -> Seq(S)] /\ H[0] = <<>>
  <2>1. ASSUME NEW i \in 0..n PROVE H[i] \in Seq(S)
    <3>1. CASE i = 0
      BY <3>1, EmptySeq
    <3>2. CASE i # 0
      <4>1. i - 1 \in 0..(n - 1)
        BY <1>2, <3>2
      <4>2. F[i - 1] \in Seq(S)
        BY <1>4, <4>1
      <4>3. H[i] = t \o F[i - 1]
        BY <3>2
      <4> HIDE DEF t, H
      <4> QED
        BY <1>1, <4>2, <4>3, ConcatProperties
    <3> QED
      BY <3>1, <3>2
  <2>2. H[0] = <<>>
    BY <1>2
  <2> QED
    BY <2>1, <2>2
<1>6. ASSUME NEW i \in 0..(n - 1) PROVE H[i + 1] = H[i] \o ss[i + 1]
  <2>1. i + 1 \in 0..n /\ i + 1 # 0 /\ (i + 1) - 1 = i /\ i \in 0..n
    BY <1>2
  <2>2. H[i + 1] = t \o F[i]
    BY <2>1
  <2>3. CASE i = 0
    <3>1. H[1] = t \o <<>> /\ H[0] = <<>>
      BY <1>2, <1>4, <2>2, <2>3
    <3>2. t \o <<>> = <<>> \o ss[1]
      <4> HIDE DEF t
      <4> QED
        BY <1>1, <1>2, ConcatEmptySeq
    <3> HIDE DEF H, t
    <3> QED
      BY <2>3, <3>1, <3>2
  <2>4. CASE i # 0
    <3>1. i - 1 \in 0..((n - 1) - 1) /\ (i - 1) + 1 = i /\ i \in 1..(n - 1) /\ i - 1 \in 0..(n - 1)
          /\ i + 1 \in 1..n
      BY <1>2, <2>4
    <3>2. F[i] = F[i - 1] \o r[i]
      BY <1>4, <3>1
    <3>3. r[i] = ss[i + 1] /\ ss[i + 1] \in Seq(S)
      BY <1>1, <3>1, ElementOfSeq
    <3>4. F[i - 1] \in Seq(S)
      BY <1>4, <3>1
    <3>5. H[i] = t \o F[i - 1]
      BY <2>1, <2>4
    <3> HIDE DEF H, t, r
    <3>6. (t \o F[i - 1]) \o ss[i + 1] = t \o (F[i - 1] \o ss[i + 1])
      <4>1. t \in Seq(S) /\ F[i - 1] \in Seq(S) /\ ss[i + 1] \in Seq(S)
        BY <1>1, <3>3, <3>4
      <4>2. Associates(t, F[i - 1], ss[i + 1])
        BY <4>1, ConcatThree
      <4> QED
        BY <4>2 DEF Associates
    <3> QED
      BY <2>2, <3>2, <3>3, <3>5, <3>6
  <2> QED
    BY <2>3, <2>4
<1> HIDE DEF H, t, r
<1>7. Flattens(H, ss, S)
  BY <1>5, <1>6 DEF Flattens
<1>8. FlattenSeq(ss) = H[n] /\ FlattenSeq(r) = F[n - 1]
  BY <1>1, <1>3, <1>7, FlattenIs
<1>9. H[n] = t \o F[n - 1]
  BY <1>2 DEF H
<1> QED
  BY <1>8, <1>9 DEF t, r


----------------------------------------------------------------------------
(* Flattening what a function makes of each element of a sequence. *)

Maps(g, f, q) == \A i \in 1..Len(q) : g[i] = f[q[i]]
Mapped(f, q) == [i \in 1..Len(q) |-> f[q[i]]]
Gather(f, q) == FlattenSeq(Mapped(f, q))

LEMMA SameRange ==
  ASSUME NEW n \in Nat, NEW m \in Nat, 1..n = 1..m
  PROVE  n = m
<1>1. CASE n = 0
  <2>1. 1 \notin 1..n
    BY <1>1
  <2>2. 1 \notin 1..m
    BY <2>1
  <2> QED
    BY <1>1, <2>2
<1>2. CASE n # 0 /\ m = 0
  <2>1. 1 \in 1..n
    BY <1>2
  <2>2. 1 \in 1..m
    BY <2>1
  <2> QED
    BY <1>2, <2>2
<1>3. CASE n # 0 /\ m # 0
  <2>1. n \in 1..n /\ m \in 1..m
    BY <1>3
  <2>2. n \in 1..m /\ m \in 1..n
    BY <2>1
  <2> QED
    BY <2>2
<1> QED
  BY <1>1, <1>2, <1>3

LEMMA MappedType ==
  ASSUME NEW X, NEW Y, NEW f \in [X -> Y], NEW q \in Seq(X)
  PROVE  /\ Mapped(f, q) \in Seq(Y) /\ Len(Mapped(f, q)) = Len(q)
         /\ Maps(Mapped(f, q), f, q)
<1>1. Len(q) \in Nat
  BY LenProperties
<1>2. \A i \in 1..Len(q) : f[q[i]] \in Y
  BY ElementOfSeq
<1>3. Mapped(f, q) \in [1..Len(q) -> Y]
  BY <1>2 DEF Mapped
<1>4. Mapped(f, q) \in Seq(Y)
  BY <1>1, <1>3, SeqDef
<1>5. DOMAIN Mapped(f, q) = 1..Len(Mapped(f, q)) /\ Len(Mapped(f, q)) \in Nat
  BY <1>4, LenProperties
<1>6. DOMAIN Mapped(f, q) = 1..Len(q)
  BY DEF Mapped
<1>7. 1..Len(q) = 1..Len(Mapped(f, q))
  BY <1>5, <1>6
<1>8. Len(Mapped(f, q)) = Len(q)
  BY <1>1, <1>5, <1>7, SameRange
<1> QED
  BY <1>4, <1>8 DEF Mapped, Maps

LEMMA GatherType ==
  ASSUME NEW X, NEW S, NEW f \in [X -> Seq(S)], NEW q \in Seq(X)
  PROVE  Gather(f, q) \in Seq(S)
<1>1. Mapped(f, q) \in Seq(Seq(S))
  BY MappedType
<1> QED
  BY <1>1, FlattenType DEF Gather

LEMMA GatherEmpty ==
  ASSUME NEW f
  PROVE  Gather(f, <<>>) = <<>>
<1>1. Mapped(f, <<>>) = <<>>
  BY EmptySeq DEF Mapped
<1> QED
  BY <1>1, FlattenEmpty DEF Gather

LEMMA GatherAppend ==
  ASSUME NEW X, NEW S, NEW f \in [X -> Seq(S)], NEW q \in Seq(X), NEW x \in X
  PROVE  Gather(f, Append(q, x)) = Gather(f, q) \o f[x]
<1> DEFINE n == Len(q)
           a == Append(q, x)
           b == Mapped(f, a)
           c == Append(Mapped(f, q), f[x])
<1>1. /\ n \in Nat /\ a \in Seq(X) /\ Len(a) = n + 1 /\ a[n + 1] = x
      /\ \A i \in 1..n : a[i] = q[i]
  BY LenProperties, AppendProperties
<1>2. b \in Seq(Seq(S)) /\ Len(b) = n + 1 /\ Maps(b, f, a)
  <2>1. a \in Seq(X)
    BY <1>1
  <2>2. b \in Seq(Seq(S)) /\ Len(b) = Len(a) /\ Maps(b, f, a)
    <3> HIDE DEF a
    <3> QED
      BY <2>1, MappedType
  <2> QED
    BY <1>1, <2>2
<1>3. /\ Mapped(f, q) \in Seq(Seq(S)) /\ Len(Mapped(f, q)) = n
      /\ Maps(Mapped(f, q), f, q)
  BY MappedType
<1>4. f[x] \in Seq(S)
  OBVIOUS
<1>5. /\ c \in Seq(Seq(S)) /\ Len(c) = n + 1 /\ c[n + 1] = f[x]
      /\ \A i \in 1..n : c[i] = Mapped(f, q)[i]
  <2> HIDE DEF n
  <2> QED
    BY <1>3, <1>4, AppendProperties
<1>6. ASSUME NEW i \in 1..(n + 1) PROVE b[i] = c[i]
  <2>1. b[i] = f[a[i]]
    <3> HIDE DEF n, a, b, c
    <3> QED
      BY <1>1, <1>2 DEF Maps
  <2>2. CASE i = n + 1
    <3> HIDE DEF n, a, b, c
    <3> QED
      BY <1>1, <1>5, <2>1, <2>2
  <2>3. CASE i # n + 1
    <3>1. i \in 1..n
      BY <1>1, <2>3
    <3>2. Mapped(f, q)[i] = f[q[i]]
      BY <1>3, <3>1 DEF Maps
    <3> HIDE DEF n, a, b, c
    <3> QED
      BY <1>1, <1>5, <2>1, <3>1, <3>2
  <2> QED
    BY <2>2, <2>3
<1>7. b = c
  <2> HIDE DEF n, a, b, c
  <2> QED
    BY <1>2, <1>5, <1>6, SeqEqual
<1>8. FlattenSeq(c) = FlattenSeq(Mapped(f, q)) \o f[x]
  BY <1>3, <1>4, FlattenAppend
<1> QED
  BY <1>7, <1>8 DEF Gather

LEMMA GatherTail ==
  ASSUME NEW X, NEW S, NEW f \in [X -> Seq(S)], NEW q \in Seq(X), q # <<>>
  PROVE  Gather(f, q) = f[Head(q)] \o Gather(f, Tail(q))
<1> DEFINE n == Len(q)
           t == Tail(q)
           b == Mapped(f, q)
           c == Mapped(f, t)
<1>1. /\ n \in Nat \ {0} /\ t \in Seq(X) /\ Len(t) = n - 1
      /\ \A i \in 1..(n - 1) : t[i] = q[i + 1]
  BY EmptySeq, HeadTailProperties
<1>2. b \in Seq(Seq(S)) /\ Len(b) = n /\ Maps(b, f, q)
  BY MappedType
<1>3. c \in Seq(Seq(S)) /\ Len(c) = n - 1 /\ Maps(c, f, t)
  <2>1. t \in Seq(X)
    BY <1>1
  <2>2. c \in Seq(Seq(S)) /\ Len(c) = Len(t) /\ Maps(c, f, t)
    <3> HIDE DEF t
    <3> QED
      BY <2>1, MappedType
  <2> QED
    BY <1>1, <2>2
<1>4. b # <<>>
  <2> HIDE DEF b, n
  <2> QED
    BY <1>1, <1>2, EmptySeq
<1>5. /\ Tail(b) \in Seq(Seq(S)) /\ Len(Tail(b)) = n - 1
      /\ \A i \in 1..(n - 1) : Tail(b)[i] = b[i + 1]
  <2> HIDE DEF b, n
  <2> QED
    BY <1>2, <1>4, HeadTailProperties
<1>6. \A i \in 1..Len(c) : c[i] = Tail(b)[i]
  <2> SUFFICES ASSUME NEW i \in 1..(n - 1) PROVE c[i] = Tail(b)[i]
    BY <1>3
  <2>1. i + 1 \in 1..n
    BY <1>1
  <2>2. i \in 1..Len(t)
    BY <1>1
  <2>3. c[i] = f[t[i]]
    <3> HIDE DEF t, c
    <3> QED
      BY <1>3, <2>2 DEF Maps
  <2>4. b[i + 1] = f[q[i + 1]]
    BY <1>2, <2>1 DEF Maps
  <2> HIDE DEF n, t, b, c
  <2> QED
    BY <1>1, <1>5, <2>3, <2>4
<1>7. c = Tail(b)
  <2> HIDE DEF n, t, b, c
  <2> QED
    BY <1>3, <1>5, <1>6, SeqEqual
<1>8. Head(b) = f[Head(q)]
  <2>1. 1 \in 1..n
    BY <1>1
  <2>2. b[1] = f[q[1]]
    BY <1>2, <2>1 DEF Maps
  <2> HIDE DEF b
  <2> QED
    BY <2>2
<1>9. FlattenSeq(b) = Head(b) \o FlattenSeq(Tail(b))
  <2> HIDE DEF b
  <2> QED
    BY <1>2, <1>4, FlattenTail
<1> QED
  BY <1>7, <1>8, <1>9 DEF Gather
=============================================================================
