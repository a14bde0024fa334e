---------------------------- MODULE UthashProofs ----------------------------
(*****************************************************************************)
(* For any items, keys, ranks and hash function, any threshold and any bound: *)
(* through any series of additions, replacements, deletions, sorts,          *)
(* selections and loops the hash stays what its application order says, from *)
(* which the invariants of Uthash follow; and what is done to that order is   *)
(* what OrderedDict promises.                                                *)
(*****************************************************************************)
EXTENDS UthashLists

----------------------------------------------------------------------------
(* Additions *)

(* The two ends of a list. *)
LEMMA EndFacts ==
  ASSUME NEW q \in Seq(Items)
  PROVE  /\ Len(q) \in Nat /\ (q = <<>> <=> Len(q) = 0)
         /\ q # <<>> => 1 \in 1..Len(q) /\ Len(q) \in 1..Len(q)
         /\ \A i \in 1..Len(q) : q[i] \in Items /\ q[i] \in Members(q)
         /\ 1 \in 1..(Len(q) + 1) /\ Len(q) + 1 \in 1..(Len(q) + 1)
<1>1. Len(q) \in Nat /\ (q = <<>> <=> Len(q) = 0) /\ \A i \in 1..Len(q) : q[i] \in Items
  BY EmptySeq
<1> QED
  BY <1>1 DEF Members

(* Linking an item at the end, whose last item is known. *)
LEMMA LinkLast ==
  ASSUME NEW bk \in Field, NEW fw \in Field, NEW l, NEW first, Strung(bk, fw, l, first),
         NEW e \in Items, e \notin Members(l),
         NEW last, last = IF l = <<>> THEN NULL ELSE l[Len(l)]
  PROVE  LET bk2 == [bk EXCEPT ![e] = last]
             fw2 == Put([fw EXCEPT ![e] = NULL], last, e)
         IN  /\ bk2 \in Field /\ fw2 \in Field
             /\ Strung(bk2, fw2, Ins(l, Len(l) + 1, e), IF l = <<>> THEN e ELSE first)
<1> DEFINE bk2 == [bk EXCEPT ![e] = last]
           fw2 == Put([fw EXCEPT ![e] = NULL], last, e)
           n == Len(l)
<1>1. l \in Seq(Items) /\ Distinct(l)
  BY DEF Strung
<1>2. /\ n \in Nat /\ (l = <<>> <=> n = 0)
      /\ l # <<>> => 1 \in 1..n /\ n \in 1..n
      /\ \A i \in 1..n : l[i] \in Items /\ l[i] \in Members(l) /\ l[i] # e
      /\ n + 1 \in 1..(n + 1)
  BY <1>1, EndFacts
<1>3. last \in Ptr /\ (last = NULL <=> l = <<>>) /\ last # e /\ e # NULL /\ e \in Ptr
  BY <1>2, UthashAssumption DEF Ptr
<1>4. bk2 \in Field /\ fw2 \in Field
  BY <1>3 DEF Field, Put, Ptr
<1>5. \A x \in Items : bk2[x] = IF x = e THEN last ELSE bk[x]
  BY DEF Field
<1>6. \A x \in Items : fw2[x] = IF x = e THEN NULL ELSE IF x = last THEN e ELSE fw[x]
  <2>1. CASE last = NULL
    BY <2>1, UthashAssumption DEF Put, Field
  <2>2. CASE last # NULL
    BY <1>3, <2>2 DEF Put, Field, Ptr
  <2> QED
    BY <2>1, <2>2
<1> HIDE DEF bk2, fw2, n
<1>7. Inserts(bk, fw, l, n + 1, e, bk2, fw2)
  <2>1. bk2[e] = IF n + 1 = 1 THEN NULL ELSE l[n + 1 - 1]
    <3>1. bk2[e] = last
      BY <1>5
    <3>2. n + 1 - 1 = n /\ (n + 1 = 1 <=> n = 0)
      BY <1>2
    <3> QED
      BY <1>2, <3>1, <3>2 DEF n
  <2>2. fw2[e] = NULL
    BY <1>6
  <2>3. \A i \in 1..n : bk2[l[i]] = IF i = n + 1 THEN e ELSE bk[l[i]]
    <3>1. \A i \in 1..n : i # n + 1
      BY <1>2
    <3> QED
      BY <1>2, <1>5, <3>1
  <2>4. ASSUME NEW i \in 1..n PROVE fw2[l[i]] = IF i = n + 1 - 1 THEN e ELSE fw[l[i]]
    <3>1. n + 1 - 1 = n /\ n # 0
      BY <1>2
    <3>2. l # <<>> /\ last = l[n] /\ n \in 1..n
      BY <1>2, <3>1 DEF n
    <3>3. l[i] = last <=> i = n
      BY <1>1, <3>2 DEF Distinct, n
    <3> QED
      BY <1>2, <1>6, <3>1, <3>3
  <2> QED
    BY <2>1, <2>2, <2>3, <2>4 DEF Inserts, n
<1>8. n + 1 \in 1..(Len(l) + 1) /\ (n + 1 = 1 <=> l = <<>>)
  BY <1>2 DEF n
<1>9. Strung(bk2, fw2, Ins(l, n + 1, e), IF n + 1 = 1 THEN e ELSE first)
  BY <1>7, <1>8, InsStrung
<1> QED
  BY <1>4, <1>8, <1>9 DEF n, bk2, fw2

(* HASH_PREPEND_ELEM: linking an item before another. *)
LEMMA LinkBefore ==
  ASSUME NEW bk \in Field, NEW fw \in Field, NEW l, NEW first, Strung(bk, fw, l, first),
         NEW e \in Items, e \notin Members(l), NEW k \in 1..Len(l)
  PROVE  LET p == bk[l[k]]
             bk2 == [bk EXCEPT ![e] = p, ![l[k]] = e]
             fw2 == Put([fw EXCEPT ![e] = l[k]], p, e)
         IN  /\ bk2 \in Field /\ fw2 \in Field /\ (p = NULL <=> k = 1)
             /\ Strung(bk2, fw2, Ins(l, k, e), IF k = 1 THEN e ELSE first)
<1> DEFINE y == l[k]
           p == bk[y]
           bk2 == [bk EXCEPT ![e] = p, ![y] = e]
           fw2 == Put([fw EXCEPT ![e] = y], p, e)
           n == Len(l)
<1>1. l \in Seq(Items) /\ Distinct(l) /\ p = IF k = 1 THEN NULL ELSE l[k - 1]
  BY DEF Strung
<1>2. /\ n \in Nat /\ \A i \in 1..n : l[i] \in Items /\ l[i] # e
  BY <1>1, EndFacts
<1>3. k \in 1..n /\ k \in Int /\ y \in Items /\ y # e /\ (k # 1 => k - 1 \in 1..n)
  BY <1>2
<1>4. p \in Ptr /\ (p = NULL <=> k = 1) /\ p # e /\ e \in Ptr /\ y \in Ptr
  BY <1>1, <1>2, <1>3, UthashAssumption DEF Ptr
<1>5. bk2 \in Field /\ fw2 \in Field
  <2> HIDE DEF p, y
  <2> QED
    BY <1>3, <1>4 DEF Field, Put, Ptr
<1>6. \A x \in Items : bk2[x] = IF x = y THEN e ELSE IF x = e THEN p ELSE bk[x]
  <2> HIDE DEF p, y
  <2> QED
    BY <1>3 DEF Field
<1>7. \A x \in Items : fw2[x] = IF x = p THEN e ELSE IF x = e THEN y ELSE fw[x]
  <2> HIDE DEF p, y
  <2>1. CASE p = NULL
    BY <2>1, UthashAssumption DEF Put, Field
  <2>2. CASE p # NULL
    BY <1>4, <2>2 DEF Put, Field, Ptr
  <2> QED
    BY <2>1, <2>2
<1> HIDE DEF bk2, fw2, n, p, y
<1>8. Inserts(bk, fw, l, k, e, bk2, fw2)
  <2>1. bk2[e] = IF k = 1 THEN NULL ELSE l[k - 1]
    BY <1>1, <1>3, <1>6
  <2>2. fw2[e] = IF k = n + 1 THEN NULL ELSE l[k]
    <3>1. k # n + 1
      BY <1>2, <1>3
    <3> QED
      BY <1>4, <1>7, <3>1 DEF y
  <2>3. ASSUME NEW i \in 1..n PROVE bk2[l[i]] = IF i = k THEN e ELSE bk[l[i]]
    <3>1. l[i] = y <=> i = k
      BY <1>1, <1>3 DEF Distinct, n, y
    <3> QED
      BY <1>2, <1>6, <3>1
  <2>4. ASSUME NEW i \in 1..n PROVE fw2[l[i]] = IF i = k - 1 THEN e ELSE fw[l[i]]
    <3>1. CASE k = 1
      <4>1. i # k - 1 /\ p = NULL
        BY <1>4, <3>1
      <4>2. l[i] # p
        BY <1>2, <4>1, UthashAssumption
      <4> QED
        BY <1>2, <1>7, <4>1, <4>2
    <3>2. CASE k # 1
      <4>1. p = l[k - 1] /\ k - 1 \in 1..n
        BY <1>1, <1>3, <3>2
      <4>2. l[i] = p <=> i = k - 1
        BY <1>1, <4>1 DEF Distinct, n
      <4> QED
        BY <1>2, <1>7, <4>2
    <3> QED
      BY <3>1, <3>2
  <2> QED
    BY <2>1, <2>2, <2>3, <2>4 DEF Inserts, n
<1>9. k \in 1..(Len(l) + 1)
  BY <1>2, <1>3 DEF n
<1>10. Strung(bk2, fw2, Ins(l, k, e), IF k = 1 THEN e ELSE first)
  BY <1>8, <1>9, InsStrung
<1> QED
  BY <1>4, <1>5, <1>10 DEF bk2, fw2, p, y

(* The head is NULL just when the list is empty. *)
LEMMA StrungHead ==
  ASSUME NEW bk, NEW fw, NEW l, NEW first, Strung(bk, fw, l, first)
  PROVE  /\ first \in Ptr /\ (first = NULL <=> l = <<>>)
         /\ l # <<>> => first = l[1]
<1>1. l \in Seq(Items) /\ first = IF l = <<>> THEN NULL ELSE l[1]
  BY DEF Strung, Onward
<1>2. l # <<>> => l[1] \in Items
  BY <1>1, EndFacts
<1> QED
  BY <1>1, <1>2, UthashAssumption DEF Ptr

----------------------------------------------------------------------------
(* A hash whose application order is l; of the source hash, the end too. *)

(* A hash is what its application order l says: the list is strung, the     *)
(* buckets hold its items, and they are counted.  So HASH_SELECT leaves its *)
(* second hash, whose tail is its first item.                               *)
Good(h, l) ==
  /\ h \in Handle
  /\ Strung(h.prev, h.next, l, h.head)
  /\ h.head = NULL => h.tbl = NULL
  /\ h.head # NULL => /\ \E c : Bucketed(h, c, Members(l))
                      /\ h.tbl.num_items = Len(l) /\ h.tbl.tail \in Items
                      /\ GivenUp(h.tbl)

(* No two items have one key. *)
Unique(S) == \A x, y \in S : KeyOf[x] = KeyOf[y] => x = y

(* A hash that is only added to and deleted from: keys are unique, tail is  *)
(* the last item, and its chains are bounded.                               *)
Source(h, l) ==
  /\ Good(h, l) /\ Unique(Members(l))
  /\ h.head # NULL => h.tbl.tail = l[Len(l)] /\ Bounded(h.tbl)

(* A NULL head is an empty hash. *)
LEMMA EmptyIs == Source(Empty, <<>>)
<1>1. Unlinked \in Field /\ NULL \in Ptr
  BY DEF Unlinked, Field, Ptr
<1>2. Empty \in Handle /\ Empty.head = NULL /\ Empty.tbl = NULL
      /\ Empty.prev = Unlinked /\ Empty.next = Unlinked
  BY <1>1 DEF Empty, Handle
<1>3. <<>> \in Seq(Items) /\ Len(<<>>) = 0 /\ 1..0 = {}
  OBVIOUS
<1>4. Strung(Unlinked, Unlinked, <<>>, NULL)
  BY <1>3 DEF Strung, Onward, Distinct
<1>5. Members(<<>>) = {}
  BY <1>3 DEF Members
<1> QED
  BY <1>2, <1>4, <1>5 DEF Source, Good, Unique

(* A list of one item. *)
LEMMA OneItem ==
  ASSUME NEW e \in Items
  PROVE  /\ <<e>> \in Seq(Items) /\ Len(<<e>>) = 1 /\ Members(<<e>>) = {e}
         /\ Distinct(<<e>>) /\ Unique({e}) /\ <<e>>[1] = e /\ <<e>> # <<>>
<1>1. <<e>> \in Seq(Items) /\ Len(<<e>>) = 1 /\ 1..1 = {1} /\ <<e>>[1] = e
  OBVIOUS
<1> QED
  BY <1>1 DEF Members, Distinct, Unique

(* The first item, which the bucket does not have yet. *)
LEMMA FirstIs ==
  ASSUME NEW h \in Handle, NEW e \in Items
  PROVE  LET r == First(h, e)
         IN  /\ r.head = e /\ Strung(r.prev, r.next, <<e>>, e)
             /\ \E c : Bucketed(r, c, {})
             /\ r.tbl.num_items = 0 /\ r.tbl.tail = e
             /\ GivenUp(r.tbl) /\ Bounded(r.tbl)
             /\ r.prev = [h.prev EXCEPT ![e] = NULL]
             /\ r.next = [h.next EXCEPT ![e] = NULL]
<1> DEFINE k == HASH_INITIAL_NUM_BUCKETS_LOG2
           n == Bit[k]
           t == MakeTable(e)
           bk == [h.prev EXCEPT ![e] = NULL]
           fw == [h.next EXCEPT ![e] = NULL]
           r == First(h, e)
<1>1. k \in Nat /\ n \in Nat \ {0}
  BY UthashAssumption, BitFacts
<1>2. e \in Ptr /\ NULL \in Ptr
  BY DEF Ptr
<1>3. /\ NoBuckets(n) \in [0..(n - 1) -> Bucket]
      /\ \E c : Held(NoBuckets(n), h.hh_prev, h.hh_next, n, c, {})
      /\ \A b \in 0..(n - 1) : NoBuckets(n)[b].hh_head = NULL /\ NoBuckets(n)[b].count = 0
  BY <1>1, NoChains
<1>4. /\ t.num_buckets = n /\ t.buckets = NoBuckets(n) /\ t.num_items = 0 /\ t.tail = e
      /\ t.ineff_expands = 0 /\ t.noexpand = FALSE /\ t.ideal_chain_maxlen = 0
  BY DEF MakeTable
<1>5. t \in Table(k)
  BY <1>1, <1>2, <1>3 DEF MakeTable, Table
<1>6. t \in Tables
  BY <1>1, <1>5 DEF Tables
<1> HIDE DEF t, k, n
<1>7. bk \in Field /\ fw \in Field /\ h.hh_prev \in Field /\ h.hh_next \in Field
      /\ h.prev \in Field /\ h.next \in Field
  BY <1>2 DEF Field, Handle
<1>8. /\ r.head = e /\ r.tbl = t /\ r.prev = bk /\ r.next = fw
      /\ r.hh_prev = h.hh_prev /\ r.hh_next = h.hh_next
  BY DEF First, t, Handle
<1>9. r \in Handle
  <2>1. r = [h EXCEPT !.head = e, !.tbl = t, !.prev = bk, !.next = fw]
    BY DEF First, t, Handle
  <2> HIDE DEF r, bk, fw
  <2> QED
    BY <1>2, <1>6, <1>7, <2>1 DEF Handle
<1> HIDE DEF r
<1>10. Strung(bk, fw, <<e>>, e)
  <2>1. bk[e] = NULL /\ fw[e] = NULL
    BY <1>7 DEF Field
  <2> HIDE DEF bk, fw
  <2>2. 1..Len(<<e>>) = {1}
    BY OneItem
  <2> QED
    BY <2>1, <2>2, OneItem DEF Strung, Onward
<1>11. \E c : Bucketed(r, c, {})
  BY <1>3, <1>4, <1>6, <1>8, <1>9 DEF Bucketed
<1>12. GivenUp(r.tbl)
  <2>1. ~(t.ineff_expands > 1) /\ ~t.noexpand
    BY <1>4
  <2>2. t.noexpand \in BOOLEAN /\ (t.ineff_expands > 1) \in BOOLEAN
    <3>1. t.noexpand \in BOOLEAN
      BY <1>4
    <3>2. (t.ineff_expands > 1) \in BOOLEAN
      OBVIOUS
    <3> QED
      BY <3>1, <3>2
  <2>3. t.noexpand = (t.ineff_expands > 1)
    BY <2>1, <2>2
  <2> QED
    BY <1>8, <2>3 DEF GivenUp
<1>13. Bounded(r.tbl)
  <2> SUFFICES ASSUME NEW b \in DOMAIN t.buckets
               PROVE  t.buckets[b].count <= (t.buckets[b].expand_mult + 1) * HASH_BKT_CAPACITY_THRESH
    BY <1>8 DEF Bounded
  <2>1. b \in 0..(n - 1)
    BY <1>3, <1>4
  <2>2. t.buckets[b] \in Bucket
    BY <1>3, <1>4, <2>1
  <2>3. t.buckets[b].expand_mult \in Nat /\ t.buckets[b].count = 0
    BY <1>3, <1>4, <2>1, <2>2 DEF Bucket
  <2> QED
    BY <2>3, UthashAssumption
<1> QED
  BY <1>4, <1>8, <1>10, <1>11, <1>12, <1>13 DEF r

(* Counted and put in its bucket: the last step of every addition. *)
LEMMA AddToTableIs ==
  ASSUME hashf \in HASH_FCN, NEW h, NEW c, NEW S \in SUBSET Items, Bucketed(h, c, S),
         NEW e \in Items, e \notin S,
         NEW l, Strung(h.prev, h.next, l, h.head),
         Members(l) = S \cup {e}, Unique(Members(l)),
         Len(l) = h.tbl.num_items + 1, h.tbl.tail = l[Len(l)],
         GivenUp(h.tbl), Bounded(h.tbl)
  PROVE  Source(AddToTable(h, e), l)
<1> DEFINE t == h.tbl
           k == t.log2_num_buckets
           t2 == [t EXCEPT !.num_items = @ + 1]
           h2 == [h EXCEPT !.tbl = t2]
           r == AddToTable(h, e)
<1>1. h \in Handle /\ t \in Tables /\ Held(t.buckets, h.hh_prev, h.hh_next, t.num_buckets, c, S)
  BY DEF Bucketed
<1>2. k \in Nat /\ t \in Table(k) /\ t.num_items \in Nat
  BY <1>1, TableFacts
<1> HIDE DEF t, k
<1>3. /\ t2.num_items = t.num_items + 1 /\ t2.tail = t.tail /\ t2.buckets = t.buckets
      /\ t2.num_buckets = t.num_buckets /\ t2.ideal_chain_maxlen = t.ideal_chain_maxlen
      /\ t2.ineff_expands = t.ineff_expands /\ t2.noexpand = t.noexpand
  BY <1>2 DEF Table
<1>4. t2 \in Tables
  <2> DEFINE m == Bit[k]
             bs == [0..(m - 1) -> Bucket]
  <2> HIDE DEF m, bs
  <2>1. t \in [num_buckets : {m}, log2_num_buckets : {k}, buckets : bs, num_items : Nat,
               tail : Ptr, ideal_chain_maxlen : Nat, ineff_expands : Nat, noexpand : BOOLEAN]
    BY <1>2 DEF Table, m, bs
  <2>2. t2 \in [num_buckets : {m}, log2_num_buckets : {k}, buckets : bs, num_items : Nat,
               tail : Ptr, ideal_chain_maxlen : Nat, ineff_expands : Nat, noexpand : BOOLEAN]
    BY <1>2, <2>1
  <2>3. t2 \in Table(k)
    BY <2>2 DEF Table, m, bs
  <2> QED
    BY <1>2, <2>3 DEF Tables
<1> HIDE DEF t2
<1>5. h2 \in Handle /\ h2.tbl = t2 /\ h2.head = h.head /\ h2.prev = h.prev /\ h2.next = h.next
      /\ h2.hh_prev = h.hh_prev /\ h2.hh_next = h.hh_next
  BY <1>1, <1>4 DEF Handle
<1>6. r = AddToBkt(h2, e)
  <2>1. h2 = [h EXCEPT !.tbl.num_items = @ + 1]
    BY DEF t, t2
  <2> QED
    BY <2>1 DEF AddToTable
<1> HIDE DEF h2, r
<1>7. Bucketed(h2, c, S)
  BY <1>1, <1>3, <1>4, <1>5 DEF Bucketed
<1>8. GivenUp(h2.tbl) /\ Bounded(h2.tbl) /\ h2.tbl.num_items = Len(l) /\ h2.tbl.num_items >= 1
  <2>1. GivenUp(t) /\ Bounded(t) /\ Len(l) = t.num_items + 1
    BY DEF t
  <2>2. GivenUp(t2) /\ Bounded(t2)
    BY <1>3, <2>1 DEF GivenUp, Bounded
  <2>3. t2.num_items = Len(l) /\ t2.num_items >= 1
    BY <1>2, <1>3, <2>1
  <2> QED
    BY <1>5, <2>2, <2>3
<1>9. /\ \E c2 : Bucketed(r, c2, S \cup {e})
      /\ SameOrder(h2, r) /\ GivenUp(r.tbl) /\ Bounded(r.tbl)
  BY <1>6, <1>7, <1>8, AddToBktIs
<1>10. r.head = h.head /\ r.prev = h.prev /\ r.next = h.next
       /\ r.tbl.num_items = Len(l) /\ r.tbl.tail = l[Len(l)]
  BY <1>3, <1>5, <1>8, <1>9 DEF SameOrder, t
<1>11. l \in Seq(Items) /\ l # <<>>
  <2>1. l \in Seq(Items) /\ e \in Members(l)
    BY DEF Strung
  <2> QED
    BY <2>1, MembersItems
<1>12. h.head # NULL /\ l[Len(l)] \in Items
  BY <1>11, StrungHead, EndFacts
<1>13. r \in Handle /\ Strung(r.prev, r.next, l, r.head)
  BY <1>9, <1>10 DEF Bucketed
<1> QED
  BY <1>9, <1>10, <1>12, <1>13 DEF Source, Good, r

(* New links in application order; the buckets stay. *)
Relinked(h, head, bk, fw, tail) ==
  [h EXCEPT !.head = head, !.prev = bk, !.next = fw,
            !.tbl = [h.tbl EXCEPT !.tail = tail]]

(* Relinking the order leaves the buckets as they are. *)
LEMMA RelinkedIs ==
  ASSUME NEW h, NEW c, NEW S, Bucketed(h, c, S), NEW head \in Ptr, NEW bk \in Field,
         NEW fw \in Field, NEW tail \in Ptr
  PROVE  LET r == Relinked(h, head, bk, fw, tail)
         IN  /\ Bucketed(r, c, S) /\ r \in Handle
             /\ r.head = head /\ r.prev = bk /\ r.next = fw /\ r.tbl.tail = tail
             /\ r.tbl.num_items = h.tbl.num_items
             /\ GivenUp(h.tbl) => GivenUp(r.tbl)
             /\ Bounded(h.tbl) => Bounded(r.tbl)
             /\ r.tbl.num_buckets = h.tbl.num_buckets
<1> DEFINE t == h.tbl
           k == t.log2_num_buckets
           t2 == [t EXCEPT !.tail = tail]
           r == Relinked(h, head, bk, fw, tail)
<1>1. h \in Handle /\ t \in Tables /\ Held(t.buckets, h.hh_prev, h.hh_next, t.num_buckets, c, S)
  BY DEF Bucketed
<1>2. k \in Nat /\ t \in Table(k)
  BY <1>1, TableFacts
<1> HIDE DEF t, k
<1>3. /\ t2.num_items = t.num_items /\ t2.tail = tail /\ t2.buckets = t.buckets
      /\ t2.num_buckets = t.num_buckets /\ t2.ideal_chain_maxlen = t.ideal_chain_maxlen
      /\ t2.ineff_expands = t.ineff_expands /\ t2.noexpand = t.noexpand
  BY <1>2 DEF Table
<1>4. t2 \in Tables
  <2> DEFINE m == Bit[k]
             bs == [0..(m - 1) -> Bucket]
  <2> HIDE DEF m, bs
  <2>1. t \in [num_buckets : {m}, log2_num_buckets : {k}, buckets : bs, num_items : Nat,
               tail : Ptr, ideal_chain_maxlen : Nat, ineff_expands : Nat, noexpand : BOOLEAN]
    BY <1>2 DEF Table, m, bs
  <2>2. t2 \in [num_buckets : {m}, log2_num_buckets : {k}, buckets : bs, num_items : Nat,
               tail : Ptr, ideal_chain_maxlen : Nat, ineff_expands : Nat, noexpand : BOOLEAN]
    BY <1>2, <2>1
  <2>3. t2 \in Table(k)
    BY <2>2 DEF Table, m, bs
  <2> QED
    BY <1>2, <2>3 DEF Tables
<1> HIDE DEF t2
<1>5. r = [h EXCEPT !.head = head, !.prev = bk, !.next = fw, !.tbl = t2]
  BY DEF Relinked, t, t2
<1> HIDE DEF r
<1>6. r \in Handle /\ r.tbl = t2 /\ r.head = head /\ r.prev = bk /\ r.next = fw
      /\ r.hh_prev = h.hh_prev /\ r.hh_next = h.hh_next
  BY <1>1, <1>4, <1>5 DEF Handle
<1>7. Bucketed(r, c, S)
  BY <1>1, <1>3, <1>4, <1>6 DEF Bucketed
<1>8. (GivenUp(t) => GivenUp(t2)) /\ (Bounded(t) => Bounded(t2))
  BY <1>3 DEF GivenUp, Bounded
<1> QED
  BY <1>3, <1>6, <1>7, <1>8 DEF r, t

(* No item in S has the key of e. *)
AbsentKey(e, S) == \A x \in S : KeyOf[x] # KeyOf[e]

(* An item whose key is not there is not there, and keys stay unique. *)
LEMMA OneMore ==
  ASSUME NEW e, NEW S, Unique(S), AbsentKey(e, S)
  PROVE  Unique(S \cup {e}) /\ e \notin S
BY DEF Unique, AbsentKey

(* What there is to know of a hash that has an item. *)
LEMMA NotEmpty ==
  ASSUME NEW h, NEW l, Source(h, l), h.head # NULL
  PROVE  /\ h \in Handle /\ h.prev \in Field /\ h.next \in Field /\ h.head \in Items
         /\ l \in Seq(Items) /\ Distinct(l) /\ l # <<>> /\ Members(l) \in SUBSET Items
         /\ Len(l) \in 1..Len(l) /\ Len(l) \in Nat
         /\ \E c : Bucketed(h, c, Members(l))
         /\ h.tbl \in Tables /\ h.tbl.num_items = Len(l)
         /\ h.tbl.tail = l[Len(l)] /\ h.tbl.tail \in Items
         /\ GivenUp(h.tbl) /\ Bounded(h.tbl)
         /\ Strung(h.prev, h.next, l, h.head) /\ Unique(Members(l))
<1>1. /\ h \in Handle /\ \E c : Bucketed(h, c, Members(l))
      /\ h.tbl.num_items = Len(l) /\ h.tbl.tail \in Items /\ h.tbl.tail = l[Len(l)]
      /\ GivenUp(h.tbl) /\ Bounded(h.tbl)
      /\ Strung(h.prev, h.next, l, h.head) /\ Unique(Members(l))
  BY DEF Source, Good
<1>2. l \in Seq(Items) /\ Distinct(l) /\ l # <<>>
  <2>1. l # <<>>
    BY <1>1, StrungHead
  <2> QED
    BY <1>1, <2>1 DEF Strung
<1>3. h.prev \in Field /\ h.next \in Field /\ h.head \in Items /\ h.tbl \in Tables
  BY <1>1 DEF Handle, Bucketed, Ptr
<1>4. Members(l) \in SUBSET Items /\ Len(l) \in 1..Len(l) /\ Len(l) \in Nat
  BY <1>2, MembersItems, EndFacts
<1> QED
  BY <1>1, <1>2, <1>3, <1>4

(* An addition to an empty hash. *)
LEMMA FirstAdded ==
  ASSUME hashf \in HASH_FCN, NEW h \in Handle, NEW e \in Items
  PROVE  Source(AddToTable(First(h, e), e), <<e>>)
<1> DEFINE r == First(h, e)
           l == <<e>>
<1>1. /\ r.head = e /\ Strung(r.prev, r.next, l, e)
      /\ \E c : Bucketed(r, c, {})
      /\ r.tbl.num_items = 0 /\ r.tbl.tail = e
      /\ GivenUp(r.tbl) /\ Bounded(r.tbl)
  BY FirstIs
<1>2. l \in Seq(Items) /\ Len(l) = 1 /\ Members(l) = {e} /\ Unique({e}) /\ l[1] = e
  BY OneItem
<1> HIDE DEF r, l
<1>3. PICK c : Bucketed(r, c, {})
  BY <1>1
<1>4. Strung(r.prev, r.next, l, r.head) /\ Members(l) = {} \cup {e} /\ Unique(Members(l))
      /\ Len(l) = r.tbl.num_items + 1 /\ r.tbl.tail = l[Len(l)] /\ {} \in SUBSET Items /\ e \notin {}
  BY <1>1, <1>2
<1>5. Source(AddToTable(r, e), l)
  BY <1>1, <1>3, <1>4, AddToTableIs
<1> QED
  BY <1>5 DEF r, l

(* An addition at the end. *)
LEMMA AppendAdded ==
  ASSUME hashf \in HASH_FCN, NEW h, NEW l, Source(h, l), h.head # NULL,
         NEW e \in Items, AbsentKey(e, Members(l))
  PROVE  Source(AddToTable(AppendList(h, e), e), Ins(l, Len(l) + 1, e))
<1> DEFINE last == h.tbl.tail
           bk == [h.prev EXCEPT ![e] = last]
           fw == Put([h.next EXCEPT ![e] = NULL], last, e)
           r == AppendList(h, e)
           r2 == Relinked(h, h.head, bk, fw, e)
           l2 == Ins(l, Len(l) + 1, e)
<1>1. /\ h \in Handle /\ h.prev \in Field /\ h.next \in Field /\ h.head \in Ptr
      /\ l \in Seq(Items) /\ Distinct(l) /\ l # <<>> /\ Members(l) \in SUBSET Items
      /\ \E c : Bucketed(h, c, Members(l))
      /\ h.tbl.num_items = Len(l) /\ last = l[Len(l)] /\ last \in Items
      /\ GivenUp(h.tbl) /\ Bounded(h.tbl) /\ h.tbl \in Tables
      /\ Strung(h.prev, h.next, l, h.head) /\ Unique(Members(l)) /\ Len(l) \in Nat
  BY NotEmpty DEF Ptr
<1>2. e \notin Members(l) /\ Unique(Members(l) \cup {e})
  BY <1>1, OneMore
<1>3. bk \in Field /\ fw \in Field /\ Strung(bk, fw, l2, h.head)
  <2>1. last = IF l = <<>> THEN NULL ELSE l[Len(l)]
    BY <1>1
  <2> HIDE DEF last
  <2>2. bk \in Field /\ fw \in Field /\ Strung(bk, fw, l2, IF l = <<>> THEN e ELSE h.head)
    BY <1>1, <1>2, <2>1, LinkLast
  <2> QED
    BY <1>1, <2>2
<1>4. last # NULL
  BY <1>1, UthashAssumption
<1>5. r = r2
  <2>1. fw = [h.next EXCEPT ![e] = NULL, ![h.tbl.tail] = e]
    BY <1>4 DEF Put
  <2> HIDE DEF fw
  <2>2. r = [h EXCEPT !.next = fw, !.prev = bk, !.tbl = [h.tbl EXCEPT !.tail = e]]
    BY <1>1, <2>1 DEF AppendList, Handle
  <2> HIDE DEF bk, r
  <2> DEFINE t2 == [h.tbl EXCEPT !.tail = e]
  <2>3. r = [h EXCEPT !.next = fw, !.prev = bk, !.tbl = t2] /\ r2 = [h EXCEPT !.head = h.head, !.prev = bk, !.next = fw, !.tbl = t2]
    BY <2>2 DEF Relinked
  <2> HIDE DEF r2, t2
  <2> QED
    BY <1>1, <2>3 DEF Handle
<1> HIDE DEF bk, fw
<1>6. PICK c : Bucketed(h, c, Members(l))
  BY <1>1
<1>7. /\ Bucketed(r2, c, Members(l)) /\ r2 \in Handle
      /\ r2.head = h.head /\ r2.prev = bk /\ r2.next = fw /\ r2.tbl.tail = e
      /\ r2.tbl.num_items = h.tbl.num_items
      /\ GivenUp(r2.tbl) /\ Bounded(r2.tbl)
  <2>1. e \in Ptr
    BY DEF Ptr
  <2> QED
    <3> HIDE DEF r, l2, last
    <3>1. h.head \in Ptr /\ bk \in Field /\ fw \in Field
      BY <1>1, <1>3
    <3>2. GivenUp(h.tbl) /\ Bounded(h.tbl)
      BY <1>1
    <3> QED
      BY <1>6, <2>1, <3>1, <3>2, RelinkedIs
<1> HIDE DEF r2, r
<1>8. /\ l2 \in Seq(Items) /\ Len(l2) = Len(l) + 1 /\ Members(l2) = Members(l) \cup {e}
      /\ e = l2[Len(l2)]
  <2>1. Len(l) + 1 \in 1..(Len(l) + 1)
    BY <1>1
  <2>2. l2 \in Seq(Items) /\ Len(l2) = Len(l) + 1 /\ Members(l2) = Members(l) \cup {e}
    BY <1>1, <2>1, InsFacts
  <2>3. l2[Len(l) + 1] = e
    <3> DEFINE n == Len(l) + 1
    <3>1. ~(n < n) /\ n \in 1..n
      BY <1>1
    <3> QED
      BY <1>1, <3>1 DEF Ins
  <2> QED
    BY <2>2, <2>3
<1> HIDE DEF l2
<1>9. Source(AddToTable(r2, e), l2)
  <2>1. Strung(r2.prev, r2.next, l2, r2.head) /\ Unique(Members(l2))
        /\ Len(l2) = r2.tbl.num_items + 1 /\ r2.tbl.tail = l2[Len(l2)]
    BY <1>1, <1>2, <1>3, <1>7, <1>8
  <2> QED
    BY <1>1, <1>2, <1>7, <1>8, <2>1, AddToTableIs
<1> QED
  BY <1>5, <1>9 DEF r, l2

(* An addition before the k-th. *)
LEMMA InsertAdded ==
  ASSUME hashf \in HASH_FCN, NEW h, NEW l, Source(h, l), h.head # NULL,
         NEW e \in Items, AbsentKey(e, Members(l)), NEW k \in 1..Len(l)
  PROVE  Source(AddToTable(InsertBefore(h, e, l[k]), e), Ins(l, k, e))
<1> DEFINE B == h.prev
           F == h.next
           H == h.head
           p == B[l[k]]
           bk == [B EXCEPT ![e] = p, ![l[k]] = e]
           fw == Put([F EXCEPT ![e] = l[k]], p, e)
           first == IF k = 1 THEN e ELSE H
           last == h.tbl.tail
           r == InsertBefore(h, e, l[k])
           r2 == Relinked(h, first, bk, fw, last)
           l2 == Ins(l, k, e)
<1>1. /\ h \in Handle /\ h.prev \in Field /\ h.next \in Field /\ h.head \in Ptr
      /\ l \in Seq(Items) /\ Distinct(l) /\ l # <<>> /\ Members(l) \in SUBSET Items
      /\ \E c : Bucketed(h, c, Members(l))
      /\ h.tbl.num_items = Len(l) /\ last = l[Len(l)] /\ last \in Items
      /\ GivenUp(h.tbl) /\ Bounded(h.tbl) /\ h.tbl \in Tables
      /\ Strung(h.prev, h.next, l, h.head) /\ Unique(Members(l)) /\ Len(l) \in Nat
  BY NotEmpty DEF Ptr
<1>2. e \notin Members(l) /\ Unique(Members(l) \cup {e})
  BY <1>1, OneMore
<1>3. bk \in Field /\ fw \in Field /\ Strung(bk, fw, l2, first) /\ (p = NULL <=> k = 1)
  <2>1. B \in Field /\ F \in Field /\ Strung(B, F, l, H)
    BY <1>1
  <2> HIDE DEF r, r2, last, B, F, H
  <2> QED
    BY <1>2, <2>1, LinkBefore
<1>4. first \in Ptr /\ last \in Ptr
  BY <1>1 DEF Ptr
<1>5. r = r2
  <2>1. first = IF p = NULL THEN e ELSE h.head
    BY <1>3
  <2> HIDE DEF first
  <2>2. r = [h EXCEPT !.next = fw, !.prev = bk, !.head = first]
    <3>1. r = [h EXCEPT !.next = fw, !.prev = bk, !.head = IF p = NULL THEN e ELSE @]
      BY DEF InsertBefore
    <3> HIDE DEF r, fw, bk, p
    <3> QED
      BY <1>1, <2>1, <3>1 DEF Handle
  <2>3. h.tbl = [h.tbl EXCEPT !.tail = last]
    <3> DEFINE t == h.tbl
    <3>1. t \in Table(t.log2_num_buckets)
      BY <1>1, TableFacts
    <3> HIDE DEF t
    <3>2. t = [t EXCEPT !.tail = t.tail]
      BY <3>1 DEF Table
    <3> QED
      BY <3>2 DEF t
  <2>4. r2 = [h EXCEPT !.head = first, !.prev = bk, !.next = fw, !.tbl = h.tbl]
    <3> HIDE DEF fw, bk, last
    <3> QED
      BY <2>3 DEF Relinked
  <2> HIDE DEF r2, r, bk, fw, last
  <2> QED
    BY <1>1, <2>2, <2>4 DEF Handle
<1> HIDE DEF bk, fw, first, p
<1>6. PICK c : Bucketed(h, c, Members(l))
  BY <1>1
<1>7. /\ Bucketed(r2, c, Members(l)) /\ r2 \in Handle
      /\ r2.head = first /\ r2.prev = bk /\ r2.next = fw /\ r2.tbl.tail = last
      /\ r2.tbl.num_items = h.tbl.num_items
      /\ GivenUp(r2.tbl) /\ Bounded(r2.tbl)
  <2> HIDE DEF last, r, l2
  <2>1. first \in Ptr /\ last \in Ptr /\ bk \in Field /\ fw \in Field
    BY <1>3, <1>4
  <2>2. GivenUp(h.tbl) /\ Bounded(h.tbl)
    BY <1>1
  <2> QED
    BY <1>6, <2>1, <2>2, RelinkedIs
<1> HIDE DEF r2, r
<1>8. /\ l2 \in Seq(Items) /\ Len(l2) = Len(l) + 1 /\ Members(l2) = Members(l) \cup {e}
      /\ last = l2[Len(l2)]
  <2>1. k \in 1..(Len(l) + 1) /\ k < Len(l) + 1 /\ k \in Int
    BY <1>1
  <2>2. l2 \in Seq(Items) /\ Len(l2) = Len(l) + 1 /\ Members(l2) = Members(l) \cup {e}
    BY <1>1, <2>1, InsFacts
  <2>3. l2[Len(l) + 1] = l[Len(l)]
    <3> DEFINE n == Len(l) + 1
    <3>1. ~(n < k) /\ n # k /\ n \in 1..n /\ n - 1 = Len(l)
      BY <1>1, <2>1
    <3> QED
      BY <1>1, <3>1 DEF Ins
  <2> QED
    BY <1>1, <2>2, <2>3
<1> HIDE DEF l2
<1>9. Source(AddToTable(r2, e), l2)
  <2>1. Strung(r2.prev, r2.next, l2, r2.head) /\ Unique(Members(l2))
        /\ Len(l2) = r2.tbl.num_items + 1 /\ r2.tbl.tail = l2[Len(l2)]
    BY <1>1, <1>2, <1>3, <1>7, <1>8
  <2> QED
    BY <1>1, <1>2, <1>7, <1>8, <2>1, AddToTableIs
<1> QED
  BY <1>5, <1>9 DEF r, l2

----------------------------------------------------------------------------
(* What a hash finds *)

(* The application order of a hash is what a walk returns. *)
LEMMA AppListIs ==
  ASSUME NEW h, NEW l, Good(h, l)
  PROVE  AppList(h) = l
<1>1. h.next \in Field /\ l \in Seq(Items) /\ Distinct(l) /\ Onward(h.next, l, h.head)
  BY DEF Good, Handle, Strung
<1>2. Walk(h.next, h.head) = l
  BY <1>1, WalkAlong
<1> QED
  BY <1>2 DEF AppList

(* HASH_FIND *)
LEMMA FindKey ==
  ASSUME hashf \in HASH_FCN, NEW h, NEW l, Good(h, l), NEW i \in Items
  PROVE  LET r == Find(h, KeyOf[i])
         IN  \/ r = NULL /\ AbsentKey(i, Members(l))
             \/ r \in Members(l) /\ KeyOf[r] = KeyOf[i]
<1>1. l \in Seq(Items) /\ Members(l) \in SUBSET Items /\ (h.head = NULL => Members(l) = {})
  <2>1. l \in Seq(Items) /\ Strung(h.prev, h.next, l, h.head)
    BY DEF Good, Strung
  <2>2. h.head = NULL => l = <<>>
    BY <2>1, StrungHead
  <2> QED
    BY <2>1, <2>2, MembersItems
<1>2. CASE h.head = NULL
  BY <1>1, <1>2 DEF Find, AbsentKey
<1>3. CASE h.head # NULL
  <2>1. PICK c : Bucketed(h, c, Members(l))
    BY <1>3 DEF Good
  <2> DEFINE r == FindInBkt(h, BktOf(h, KeyOf[i]), KeyOf[i])
  <2>2. \/ r = NULL /\ \A x \in Members(l) : KeyOf[x] # KeyOf[i]
        \/ r \in Members(l) /\ KeyOf[r] = KeyOf[i]
    BY <1>1, <2>1, FindIs
  <2>3. Find(h, KeyOf[i]) = r
    BY <1>3 DEF Find
  <2> QED
    BY <2>2, <2>3 DEF AbsentKey
<1> QED
  BY <1>2, <1>3

----------------------------------------------------------------------------
(* The library's insertion and removal, and the abstract ones *)

(* The least of a set of numbers. *)
LEMMA MinFacts ==
  ASSUME NEW T, T \subseteq Nat, T # {}
  PROVE  Min(T) \in T /\ \A y \in T : Min(T) <= y
<1>1. \E x \in T : \A y \in T : x <= y
  BY LeastElement
<1> QED
  BY <1>1 DEF Min

(* InsertAt, Append and RemoveAt are Ins and Del. *)
LEMMA InsIs ==
  ASSUME NEW q \in Seq(Items), NEW e \in Items
  PROVE  /\ \A k \in 1..(Len(q) + 1) : InsertAt(q, k, e) = Ins(q, k, e)
         /\ Append(q, e) = Ins(q, Len(q) + 1, e)
<1> DEFINE n == Len(q)
<1>1. n \in Nat /\ q \in [1..n -> Items]
  BY LenProperties
<1>2. ASSUME NEW k \in 1..(n + 1) PROVE InsertAt(q, k, e) = Ins(q, k, e)
  <2> DEFINE a == SubSeq(q, 1, k - 1)
             b == SubSeq(q, k, n)
             d == a \o <<e>>
             r == d \o b
             t == Ins(q, k, e)
  <2>1. /\ a \in Seq(Items) /\ Len(a) = k - 1
        /\ \A i \in 1..(k - 1) : a[i] = q[i]
    BY <1>1
  <2>2. /\ b \in Seq(Items) /\ Len(b) = n - k + 1
        /\ \A i \in 1..(n - k + 1) : b[i] = q[k + i - 1]
    BY <1>1
  <2>3. <<e>> \in Seq(Items) /\ Len(<<e>>) = 1 /\ <<e>>[1] = e
    OBVIOUS
  <2> HIDE DEF a, b
  <2>4. /\ d \in Seq(Items) /\ Len(d) = k
        /\ \A i \in 1..k : d[i] = IF i < k THEN q[i] ELSE e
    <3>1. d \in Seq(Items) /\ Len(d) = Len(a) + Len(<<e>>)
          /\ \A i \in 1..(Len(a) + Len(<<e>>)) : d[i] = IF i <= Len(a) THEN a[i] ELSE <<e>>[i - Len(a)]
      BY <2>1, <2>3, ConcatProperties
    <3> HIDE DEF d
    <3> QED
      BY <1>1, <2>1, <2>3, <3>1
  <2> HIDE DEF d
  <2>5. /\ r \in Seq(Items) /\ Len(r) = n + 1
        /\ \A i \in 1..(n + 1) : r[i] = IF i <= k THEN d[i] ELSE b[i - k]
    <3>1. r \in Seq(Items) /\ Len(r) = Len(d) + Len(b)
          /\ \A i \in 1..(Len(d) + Len(b)) : r[i] = IF i <= Len(d) THEN d[i] ELSE b[i - Len(d)]
      BY <2>2, <2>4, ConcatProperties
    <3> HIDE DEF r
    <3> QED
      BY <1>1, <2>2, <2>4, <3>1
  <2>6. t \in Seq(Items) /\ Len(t) = n + 1
    BY <1>2, InsFacts
  <2>7. \A i \in 1..(n + 1) : t[i] = IF i < k THEN q[i] ELSE IF i = k THEN e ELSE q[i - 1]
    BY DEF Ins
  <2>8. InsertAt(q, k, e) = r
    BY DEF InsertAt, r, d, a, b
  <2> HIDE DEF r, t, n
  <2>9. \A i \in 1..(n + 1) : r[i] = t[i]
    <3> SUFFICES ASSUME NEW i \in 1..(n + 1) PROVE r[i] = t[i]
      OBVIOUS
    <3>1. CASE i <= k
      BY <1>1, <1>2, <2>4, <2>5, <2>7, <3>1
    <3>2. CASE i > k
      <4>1. i - k \in 1..(n - k + 1) /\ k + (i - k) - 1 = i - 1 /\ ~(i <= k) /\ ~(i < k) /\ i # k
        BY <1>1, <1>2, <3>2
      <4> QED
        BY <2>2, <2>5, <2>7, <4>1
    <3> QED
      BY <1>1, <1>2, <3>1, <3>2
  <2>10. r = t
    BY <2>5, <2>6, <2>9, SeqEqual
  <2> QED
    BY <2>8, <2>10 DEF t
<1>3. Append(q, e) = Ins(q, n + 1, e)
  <2> DEFINE r == Append(q, e)
             t == Ins(q, n + 1, e)
  <2>1. r \in Seq(Items) /\ Len(r) = n + 1 /\ \A i \in 1..(n + 1) : r[i] = IF i <= n THEN q[i] ELSE e
    BY <1>1, AppendProperties
  <2>2. n + 1 \in 1..(n + 1)
    BY <1>1
  <2>3. t \in Seq(Items) /\ Len(t) = n + 1
    BY <2>2, InsFacts
  <2>4. \A i \in 1..(n + 1) : t[i] = IF i < n + 1 THEN q[i] ELSE IF i = n + 1 THEN e ELSE q[i - 1]
    BY DEF Ins
  <2> HIDE DEF r, t, n
  <2>5. \A i \in 1..(n + 1) : r[i] = t[i]
    BY <1>1, <2>1, <2>4
  <2>6. r = t
    BY <2>1, <2>3, <2>5, SeqEqual
  <2> QED
    BY <2>6 DEF r, t
<1> QED
  BY <1>2, <1>3

(* RemoveAt is Del. *)
LEMMA DelIs ==
  ASSUME NEW q \in Seq(Items), NEW k \in 1..Len(q), Distinct(q)
  PROVE  RemoveAt(q, k) = Del(q, k)
<1> DEFINE n == Len(q)
           a == SubSeq(q, 1, k - 1)
           b == SubSeq(q, k + 1, n)
           r == a \o b
           t == Del(q, k)
<1>1. n \in Nat /\ q \in [1..n -> Items]
  BY LenProperties
<1>2. /\ a \in Seq(Items) /\ Len(a) = k - 1
      /\ \A i \in 1..(k - 1) : a[i] = q[i]
  BY <1>1
<1>3. /\ b \in Seq(Items) /\ Len(b) = n - k
      /\ \A i \in 1..(n - k) : b[i] = q[k + i]
  <2> DEFINE m == k + 1
             z == SubSeq(q, m, n)
  <2>1. /\ m \in Int /\ n \in Int /\ \A i \in m..n : q[i] \in Items
        /\ n - m + 1 = n - k /\ \A i \in 1..(n - k) : m + i - 1 = k + i
        /\ (IF m <= n THEN n - m + 1 ELSE 0) = n - k
    BY <1>1
  <2> HIDE DEF m, n
  <2>2. /\ z \in Seq(Items) /\ Len(z) = IF m <= n THEN n - m + 1 ELSE 0
        /\ \A i \in 1..(n - m + 1) : z[i] = q[m + i - 1]
    BY <2>1, SubSeqProperties
  <2>3. z = b
    BY DEF m, z, b
  <2> HIDE DEF b, z
  <2> QED
    BY <2>1, <2>2, <2>3
<1>4. RemoveAt(q, k) = r
  BY DEF RemoveAt
<1> HIDE DEF a, b
<1>5. /\ r \in Seq(Items) /\ Len(r) = n - 1
      /\ \A i \in 1..(n - 1) : r[i] = IF i <= k - 1 THEN a[i] ELSE b[i - (k - 1)]
  <2>1. r \in Seq(Items) /\ Len(r) = Len(a) + Len(b)
        /\ \A i \in 1..(Len(a) + Len(b)) : r[i] = IF i <= Len(a) THEN a[i] ELSE b[i - Len(a)]
    BY <1>2, <1>3, ConcatProperties
  <2> HIDE DEF r
  <2> QED
    BY <1>1, <1>2, <1>3, <2>1
<1>6. t \in Seq(Items) /\ Len(t) = n - 1
  BY DelFacts
<1>7. \A i \in 1..(n - 1) : t[i] = IF i < k THEN q[i] ELSE q[i + 1]
  BY DEF Del
<1>8. k \in 1..n
  OBVIOUS
<1> HIDE DEF r, t, n
<1>9. ASSUME NEW i \in 1..(n - 1) PROVE r[i] = t[i]
  <2>1. CASE i < k
    <3>1. i \in 1..(k - 1) /\ i <= k - 1
      BY <1>1, <1>8, <2>1
    <3> QED
      BY <1>2, <1>5, <1>7, <2>1, <3>1
  <2>2. CASE ~(i < k)
    <3>1. i - (k - 1) \in 1..(n - k) /\ k + (i - (k - 1)) = i + 1 /\ ~(i <= k - 1)
      BY <1>1, <1>8, <2>2
    <3> QED
      BY <1>3, <1>5, <1>7, <2>2, <3>1
  <2> QED
    BY <2>1, <2>2
<1>10. r = t
  BY <1>5, <1>6, <1>9, SeqEqual
<1> QED
  BY <1>4, <1>10 DEF t

(* The abstract insertions, in those terms. *)
LEMMA DictAdds ==
  ASSUME NEW q \in Seq(Items), NEW e \in Items
  PROVE  LET S == {i \in Items : Rank[i] > Rank[e]}
         IN  /\ Dict!AtEnd(q, e) = Ins(q, Len(q) + 1, e)
             /\ \/ FirstIn(q, S) = NULL /\ Dict!InOrder(q, e) = Ins(q, Len(q) + 1, e)
                \/ \E k \in 1..Len(q) : FirstIn(q, S) = q[k] /\ Dict!InOrder(q, e) = Ins(q, k, e)
<1> DEFINE S == {i \in Items : Rank[i] > Rank[e]}
           hits == {k \in DOMAIN q : q[k] \in S}
           higher == {k \in DOMAIN q : Rank[q[k]] > Rank[e]}
<1>1. Len(q) \in Nat /\ DOMAIN q = 1..Len(q) /\ \A i \in 1..Len(q) : q[i] \in Items
  BY LenProperties, EndFacts
<1>2. hits = higher
  BY <1>1
<1>3. Dict!AtEnd(q, e) = Ins(q, Len(q) + 1, e)
  BY InsIs DEF Dict!AtEnd
<1>4. Dict!InOrder(q, e) = IF higher = {} THEN Ins(q, Len(q) + 1, e) ELSE InsertAt(q, Min(higher), e)
  <2>1. Dict!Min(higher) = Min(higher)
    BY DEF Dict!Min, Min
  <2>2. \A k : Dict!InsertAt(q, k, e) = InsertAt(q, k, e)
    BY DEF Dict!InsertAt, InsertAt
  <2> QED
    BY <1>3, <2>1, <2>2 DEF Dict!InOrder
<1>5. FirstIn(q, S) = IF hits = {} THEN NULL ELSE q[Min(hits)]
  BY DEF FirstIn
<1>6. hits \subseteq 1..Len(q) /\ hits \subseteq Nat
  BY <1>1
<1> HIDE DEF hits, higher, S
<1>7. CASE hits = {}
  BY <1>2, <1>3, <1>4, <1>5, <1>7 DEF S
<1>8. CASE hits # {}
  <2>1. Min(hits) \in hits
    BY <1>6, <1>8, MinFacts
  <2>2. Min(hits) \in 1..Len(q)
    BY <1>6, <2>1
  <2>3. Min(hits) \in 1..(Len(q) + 1)
    BY <1>1, <2>2
  <2>4. Dict!InOrder(q, e) = Ins(q, Min(hits), e)
    BY <1>2, <1>4, <1>8, <2>3, InsIs
  <2> QED
    BY <1>3, <1>5, <1>8, <2>2, <2>4 DEF S
<1> QED
  BY <1>7, <1>8

----------------------------------------------------------------------------
(* HASH_ADD and HASH_REPLACE *)

(* HASH_ADD and HASH_ADD_INORDER, which is before the first that ranks higher. *)
LEMMA AddIs ==
  ASSUME hashf \in HASH_FCN, NEW h, NEW l, Source(h, l),
         NEW e \in Items, AbsentKey(e, Members(l))
  PROVE  Source(Add(h, e), Dict!AtEnd(l, e)) /\ Source(AddInorder(h, e), Dict!InOrder(l, e))
<1> DEFINE end == AddToTable(AppendList(h, e), e)
           atEnd == Ins(l, Len(l) + 1, e)
           S == {i \in Items : Rank[i] > Rank[e]}
           it == FirstIn(l, S)
<1>1. h \in Handle /\ l \in Seq(Items) /\ Strung(h.prev, h.next, l, h.head) /\ Good(h, l)
  BY DEF Source, Good, Strung
<1>2. /\ Dict!AtEnd(l, e) = atEnd
      /\ \/ it = NULL /\ Dict!InOrder(l, e) = atEnd
         \/ \E k \in 1..Len(l) : it = l[k] /\ Dict!InOrder(l, e) = Ins(l, k, e)
  BY <1>1, DictAdds
<1>3. CASE h.head = NULL
  <2>1. Add(h, e) = AddToTable(First(h, e), e) /\ AddInorder(h, e) = AddToTable(First(h, e), e)
    BY <1>3 DEF Add, AddInorder
  <2>2. Source(AddToTable(First(h, e), e), <<e>>)
    BY <1>1, FirstAdded
  <2>3. l = <<>>
    BY <1>1, <1>3, StrungHead
  <2>4. \A k \in 1..Len(l) : FALSE
    BY <2>3
  <2>5. atEnd = <<e>>
    <3>1. atEnd = Append(l, e)
      BY <1>1, InsIs
    <3> QED
      BY <2>3, <3>1
  <2> HIDE DEF it, atEnd
  <2> QED
    BY <1>2, <2>1, <2>2, <2>4, <2>5
<1>4. CASE h.head # NULL
  <2>1. Source(end, atEnd)
    BY <1>4, AppendAdded
  <2>2. Add(h, e) = end
    BY <1>4 DEF Add
  <2>3. InnerLoop(h, e) = it
    BY <1>1, AppListIs DEF InnerLoop
  <2>4. CASE it = NULL
    <3>1. AddInorder(h, e) = end
      BY <1>4, <2>3, <2>4 DEF AddInorder
    <3>2. Dict!InOrder(l, e) = atEnd
      <4>1. \A k \in 1..Len(l) : l[k] # NULL
        BY <1>1, EndFacts, UthashAssumption
      <4> HIDE DEF it, atEnd
      <4> QED
        BY <1>2, <2>4, <4>1
    <3> HIDE DEF end, atEnd
    <3> QED
      BY <1>2, <2>1, <2>2, <3>1, <3>2
  <2>5. ASSUME NEW k \in 1..Len(l), it = l[k], Dict!InOrder(l, e) = Ins(l, k, e)
        PROVE  Source(AddInorder(h, e), Dict!InOrder(l, e))
    <3>1. l[k] # NULL
      BY <1>1, EndFacts, UthashAssumption
    <3>2. AddInorder(h, e) = AddToTable(InsertBefore(h, e, l[k]), e)
      BY <1>4, <2>3, <2>5, <3>1 DEF AddInorder
    <3>3. Source(AddToTable(InsertBefore(h, e, l[k]), e), Ins(l, k, e))
      BY <1>4, InsertAdded
    <3> QED
      BY <2>5, <3>2, <3>3
  <2> HIDE DEF it, end, atEnd
  <2> QED
    BY <1>2, <2>1, <2>2, <2>4, <2>5
<1> QED
  BY <1>3, <1>4

----------------------------------------------------------------------------
(* HASH_DELETE_HH, and free *)

(* HASH_DEL_IN_BKT: the buckets hold what is left, and no chain grows. *)
LEMMA UnchainedIs ==
  ASSUME hashf \in HASH_FCN, NEW h, NEW c, NEW S \in SUBSET Items, Bucketed(h, c, S),
         NEW e \in S
  PROVE  LET r == DelInBkt(h, Slot(e, h.tbl.num_buckets), e)
         IN  /\ \E c2 : Bucketed(r, c2, S \ {e})
             /\ SameOrder(h, r)
             /\ GivenUp(h.tbl) => GivenUp(r.tbl)
             /\ Bounded(h.tbl) => Bounded(r.tbl)
<1> DEFINE t == h.tbl
           n == t.num_buckets
           k == t.log2_num_buckets
           B == t.buckets
           b == Slot(e, n)
           bkt == B[b]
           p == h.hh_prev[e]
           x == h.hh_next[e]
           bkt2 == [bkt EXCEPT !.count = @ - 1, !.hh_head = IF @ = e THEN x ELSE @]
           hp2 == Put(h.hh_prev, x, p)
           hn2 == Put(h.hh_next, p, x)
           r == DelInBkt(h, b, e)
<1>1. r = [h EXCEPT !.tbl.buckets[b] = bkt2, !.hh_next = hn2, !.hh_prev = hp2]
  <2> HIDE DEF b
  <2> QED
    BY DEF DelInBkt
<1>2. t \in Tables /\ h \in Handle /\ Held(B, h.hh_prev, h.hh_next, n, c, S)
  BY DEF Bucketed
<1>3. k \in Nat /\ t \in Table(k) /\ n = Bit[k] /\ n \in Nat \ {0} /\ B \in [0..(n - 1) -> Bucket]
  BY <1>2, TableFacts
<1>4. b \in 0..(n - 1) /\ e \in Items
  BY <1>3, SlotType
<1>5. h.hh_prev \in Field /\ h.hh_next \in Field /\ x \in Ptr \cup {Wild}
  BY <1>2, <1>4 DEF Handle, Field
<1> HIDE DEF t, n, k, B, b
<1>6. bkt \in Bucket
  BY <1>3, <1>4
<1>7. /\ bkt2 \in [hh_head : Ptr \cup {Wild}, count : Int, expand_mult : Nat]
      /\ bkt2.hh_head = (IF bkt.hh_head = e THEN x ELSE bkt.hh_head)
      /\ bkt2.count = bkt.count - 1 /\ bkt2.expand_mult = bkt.expand_mult
  <2> HIDE DEF bkt, x
  <2>1. bkt \in [hh_head : Ptr \cup {Wild}, count : Int, expand_mult : Nat]
    BY <1>6 DEF Bucket
  <2>2. bkt2.hh_head = (IF bkt.hh_head = e THEN x ELSE bkt.hh_head)
        /\ bkt2.count = bkt.count - 1 /\ bkt2.expand_mult = bkt.expand_mult
    BY <2>1
  <2>3. (IF bkt.hh_head = e THEN x ELSE bkt.hh_head) \in Ptr \cup {Wild} /\ bkt.count - 1 \in Int
    BY <1>5, <2>1
  <2>4. bkt2 \in [hh_head : Ptr \cup {Wild}, count : Int, expand_mult : Nat]
    BY <2>1, <2>3
  <2> QED
    BY <2>2, <2>4
<1> HIDE DEF bkt2
<1> DEFINE B2 == [B EXCEPT ![b] = bkt2]
<1>8. B2 \in [0..(n - 1) -> AnyBucket]
  <2>1. Bucket \subseteq AnyBucket
    BY DEF Bucket, AnyBucket
  <2>2. bkt2 \in AnyBucket
    BY <1>7 DEF AnyBucket
  <2> QED
    BY <1>3, <2>1, <2>2
<1>9. ChainsOut(B, h.hh_next, e, b, B2)
  <2>1. B2[b] = bkt2 /\ DOMAIN B = 0..(n - 1) /\ \A a \in DOMAIN B : a # b => B2[a] = B[a]
    BY <1>3, <1>4
  <2> HIDE DEF B2
  <2> QED
    BY <1>3, <1>7, <1>8, <2>1 DEF ChainsOut
<1> HIDE DEF B2
<1>10. /\ hp2 \in Field /\ hn2 \in Field
       /\ \E c2 : Held(B2, hp2, hn2, n, c2, S \ {e})
       /\ NoLonger(B, B2)
  <2>1. ChainsOut(B, h.hh_next, e, Slot(e, n), B2)
    BY <1>9 DEF b
  <2> DEFINE hp == h.hh_prev
             hn == h.hh_next
  <2>3. hp \in Field /\ hn \in Field /\ Held(B, hp, hn, n, c, S) /\ ChainsOut(B, hn, e, Slot(e, n), B2)
    BY <1>2, <1>5, <2>1
  <2> HIDE DEF r, bkt, hp, hn
  <2>4. LET hp3 == Put(hp, hn[e], hp[e])
            hn3 == Put(hn, hp[e], hn[e])
        IN  /\ hp3 \in Field /\ hn3 \in Field
            /\ \E c2 : Held(B2, hp3, hn3, n, c2, S \ {e})
            /\ NoLonger(B, B2)
    BY <2>3, ChainOut
  <2> QED
    BY <2>4 DEF hp, hn
<1> HIDE DEF hp2, hn2
<1> DEFINE t2 == [t EXCEPT !.buckets = B2]
<1>11. /\ r.head = h.head /\ r.prev = h.prev /\ r.next = h.next
       /\ r.hh_prev = hp2 /\ r.hh_next = hn2 /\ r.tbl = t2
  <2>1. [h.tbl EXCEPT !.buckets[b] = bkt2] = t2
    BY DEF t, B, B2
  <2> HIDE DEF bkt, t2, r
  <2> QED
    BY <1>1, <1>2, <2>1 DEF Handle
<1>12. t2 \in Table(k) /\ t2.buckets = B2 /\ t2.num_buckets = n /\ t2.num_items = t.num_items
       /\ t2.tail = t.tail /\ t2.ideal_chain_maxlen = t.ideal_chain_maxlen
       /\ t2.ineff_expands = t.ineff_expands /\ t2.noexpand = t.noexpand
  <2>1. t2.buckets = B2 /\ t2.num_buckets = n /\ t2.num_items = t.num_items
        /\ t2.tail = t.tail /\ t2.ideal_chain_maxlen = t.ideal_chain_maxlen
        /\ t2.ineff_expands = t.ineff_expands /\ t2.noexpand = t.noexpand
    BY <1>3 DEF Table, n
  <2> DEFINE bs == [0..(Bit[k] - 1) -> Bucket]
  <2>2. B2 \in bs
    BY <1>3, <1>10 DEF Held
  <2> HIDE DEF bs
  <2>3. t \in [num_buckets : {Bit[k]}, log2_num_buckets : {k},
               buckets : bs, num_items : Nat, tail : Ptr,
               ideal_chain_maxlen : Nat, ineff_expands : Nat, noexpand : BOOLEAN]
    BY <1>3 DEF Table, bs
  <2>4. t2 \in [num_buckets : {Bit[k]}, log2_num_buckets : {k},
               buckets : bs, num_items : Nat, tail : Ptr,
               ideal_chain_maxlen : Nat, ineff_expands : Nat, noexpand : BOOLEAN]
    BY <2>2, <2>3
  <2>5. t2 \in Table(k)
    BY <2>4 DEF Table, bs
  <2> QED
    BY <2>1, <2>5
<1> HIDE DEF t2
<1>13. r \in Handle /\ t2 \in Tables
  <2>1. t2 \in Tables
    BY <1>3, <1>12 DEF Tables
  <2>2. r = [h EXCEPT !.tbl = t2, !.hh_next = hn2, !.hh_prev = hp2]
    <3>1. t2 = [h.tbl EXCEPT !.buckets[b] = bkt2]
      BY DEF t, t2, B2, B
    <3> HIDE DEF bkt, r
    <3> QED
      BY <1>1, <1>2, <3>1 DEF Handle
  <2> HIDE DEF r
  <2> QED
    BY <1>2, <1>10, <2>1, <2>2 DEF Handle
<1> HIDE DEF r
<1>14. \E c2 : Bucketed(r, c2, S \ {e})
  <2>1. PICK c2 : Held(B2, hp2, hn2, n, c2, S \ {e})
    BY <1>10
  <2>2. Held(r.tbl.buckets, r.hh_prev, r.hh_next, r.tbl.num_buckets, c2, S \ {e})
    BY <1>11, <1>12, <2>1
  <2> QED
    BY <1>11, <1>13, <2>2 DEF Bucketed
<1>15. SameOrder(h, r) /\ (GivenUp(t) => GivenUp(r.tbl))
  BY <1>11, <1>12 DEF SameOrder, GivenUp, t
<1>16. ASSUME Bounded(t) PROVE Bounded(r.tbl)
  <2>1. B2 \in [0..(n - 1) -> Bucket]
    BY <1>10 DEF Held
  <2> SUFFICES ASSUME ~t.noexpand, NEW a \in 0..(n - 1)
               PROVE  \E len \in {HASH_BKT_CAPACITY_THRESH, t.ideal_chain_maxlen} :
                        B2[a].count <= (B2[a].expand_mult + 1) * len
    BY <1>11, <1>12, <2>1 DEF Bounded
  <2>2. PICK len \in {HASH_BKT_CAPACITY_THRESH, t.ideal_chain_maxlen} :
             B[a].count <= (B[a].expand_mult + 1) * len
    BY <1>3, <1>16 DEF Bounded, B
  <2>3. len \in Nat
    BY <1>2, TableFacts, UthashAssumption
  <2> DEFINE limit == (B[a].expand_mult + 1) * len
  <2>4. B[a].count \in Nat /\ B2[a].count \in Nat /\ limit \in Nat
    <3>1. B[a] \in Bucket /\ B2[a] \in Bucket
      BY <1>3, <2>1
    <3>2. B[a].expand_mult \in Nat /\ B[a].count \in Nat /\ B2[a].count \in Nat
      BY <3>1 DEF Bucket
    <3> QED
      BY <2>3, <3>2
  <2>5. B2[a].count <= B[a].count /\ B2[a].expand_mult = B[a].expand_mult
    BY <1>3, <1>10 DEF NoLonger
  <2>6. B[a].count <= limit
    BY <2>2
  <2> HIDE DEF limit
  <2>7. B2[a].count <= limit
    BY <2>4, <2>5, <2>6
  <2> QED
    BY <2>5, <2>7 DEF limit
<1> QED
  BY <1>14, <1>15, <1>16 DEF r, t, n, b

----------------------------------------------------------------------------
(* Removals *)

(* Pointers in items that are not in the hash do not matter. *)
Wiped(f, e) == [f EXCEPT ![e] = Wild]

(* Only the pointer of the freed item is lost. *)
LEMMA WipedIs ==
  ASSUME NEW f \in Field, NEW e \in Items
  PROVE  Wiped(f, e) \in Field /\ \A x \in Items : x # e => Wiped(f, e)[x] = f[x]
BY DEF Field, Wiped

(* What items that are not in the buckets point to does not matter. *)
LEMMA HeldSame ==
  ASSUME NEW B, NEW hp, NEW hn, NEW n, NEW c, NEW S, Held(B, hp, hn, n, c, S), NEW hp2, NEW hn2,
         \A x \in S : hp2[x] = hp[x] /\ hn2[x] = hn[x]
  PROVE  Held(B, hp2, hn2, n, c, S)
<1>1. /\ \A b \in 0..(n - 1) : Strung(hp, hn, c[b], B[b].hh_head) /\ c[b] \in Seq(Items)
      /\ \A b \in 0..(n - 1), x \in Items : x \in Members(c[b]) <=> x \in S /\ Slot(x, n) = b
  BY DEF Held
<1>2. ASSUME NEW b \in 0..(n - 1) PROVE Strung(hp2, hn2, c[b], B[b].hh_head)
  <2> DEFINE q == c[b]
             first == B[b].hh_head
  <2>1. q \in Seq(Items) /\ Strung(hp, hn, q, first)
    BY <1>1
  <2>2. Members(q) \subseteq Items
    BY <2>1, MembersItems
  <2>3. \A x \in Members(q) : x \in S
    BY <1>1, <2>2
  <2> HIDE DEF q, first
  <2>4. Strung(hp2, hn2, q, first)
    BY <2>1, <2>3, StrungSame
  <2> QED
    BY <2>4 DEF q, first
<1> QED
  BY <1>2 DEF Held

(* One less, and its own pointers are gone. *)
Uncounted(h, e) ==
  [h EXCEPT !.tbl.num_items = @ - 1, !.prev[e] = Wild, !.next[e] = Wild,
            !.hh_prev[e] = Wild, !.hh_next[e] = Wild]

(* num_items goes down and the item is freed: the rest is still held. *)
LEMMA CountedIs ==
  ASSUME NEW h, NEW c, NEW S \in SUBSET Items, Bucketed(h, c, S), h.tbl.num_items >= 1,
         NEW e \in Items, e \notin S
  PROVE  LET r == Uncounted(h, e)
         IN  /\ Bucketed(r, c, S)
             /\ r.head = h.head /\ r.tbl.tail = h.tbl.tail
             /\ r.tbl.num_items = h.tbl.num_items - 1
             /\ r.prev = Wiped(h.prev, e) /\ r.next = Wiped(h.next, e)
             /\ GivenUp(h.tbl) => GivenUp(r.tbl)
             /\ Bounded(h.tbl) => Bounded(r.tbl)
<1> DEFINE t == h.tbl
           k == t.log2_num_buckets
           t2 == [t EXCEPT !.num_items = @ - 1]
           hp == h.hh_prev
           hn == h.hh_next
           bk2 == Wiped(h.prev, e)
           fw2 == Wiped(h.next, e)
           hp2 == Wiped(hp, e)
           hn2 == Wiped(hn, e)
           r == Uncounted(h, e)
<1>1. h \in Handle /\ t \in Tables /\ Held(t.buckets, hp, hn, t.num_buckets, c, S)
  BY DEF Bucketed
<1>2. k \in Nat /\ t \in Table(k) /\ t.num_items \in Nat /\ t.num_items >= 1
  BY <1>1, TableFacts
<1>3. /\ h.prev \in Field /\ h.next \in Field /\ hp \in Field /\ hn \in Field
      /\ bk2 \in Field /\ fw2 \in Field /\ hp2 \in Field /\ hn2 \in Field
  <2>1. h.prev \in Field /\ h.next \in Field /\ hp \in Field /\ hn \in Field
    BY <1>1 DEF Handle
  <2> QED
    BY <2>1, WipedIs
<1>4. r = [h EXCEPT !.tbl = t2, !.prev = bk2, !.next = fw2, !.hh_prev = hp2, !.hh_next = hn2]
  BY DEF Wiped, Uncounted
<1>5. Held(t.buckets, hp2, hn2, t.num_buckets, c, S)
  <2>1. \A x \in S : x \in Items /\ x # e
    OBVIOUS
  <2>2. \A x \in S : hp2[x] = hp[x] /\ hn2[x] = hn[x]
    BY <1>3, <2>1, WipedIs
  <2> HIDE DEF hp2, hn2, hp, hn, t
  <2> QED
    BY <1>1, <2>2, HeldSame
<1> HIDE DEF t, k, hp2, hn2, bk2, fw2, r
<1>6. /\ t2.num_items = t.num_items - 1 /\ t2.tail = t.tail /\ t2.buckets = t.buckets
      /\ t2.num_buckets = t.num_buckets /\ t2.ideal_chain_maxlen = t.ideal_chain_maxlen
      /\ t2.ineff_expands = t.ineff_expands /\ t2.noexpand = t.noexpand
  BY <1>2 DEF Table
<1>7. t2 \in Tables
  <2> DEFINE m == Bit[k]
             bs == [0..(m - 1) -> Bucket]
  <2> HIDE DEF m, bs
  <2>1. t \in [num_buckets : {m}, log2_num_buckets : {k}, buckets : bs, num_items : Nat,
               tail : Ptr, ideal_chain_maxlen : Nat, ineff_expands : Nat, noexpand : BOOLEAN]
    BY <1>2 DEF Table, m, bs
  <2>2. t.num_items - 1 \in Nat
    BY <1>2
  <2>3. t2 \in [num_buckets : {m}, log2_num_buckets : {k}, buckets : bs, num_items : Nat,
               tail : Ptr, ideal_chain_maxlen : Nat, ineff_expands : Nat, noexpand : BOOLEAN]
    BY <2>1, <2>2
  <2>4. t2 \in Table(k)
    BY <2>3 DEF Table, m, bs
  <2> QED
    BY <1>2, <2>4 DEF Tables
<1> HIDE DEF t2
<1>8. r \in Handle /\ r.tbl = t2 /\ r.head = h.head /\ r.prev = bk2 /\ r.next = fw2
      /\ r.hh_prev = hp2 /\ r.hh_next = hn2
  BY <1>1, <1>3, <1>4, <1>7 DEF Handle
<1>9. Bucketed(r, c, S)
  BY <1>5, <1>6, <1>7, <1>8 DEF Bucketed
<1>10. (GivenUp(t) => GivenUp(r.tbl)) /\ (Bounded(t) => Bounded(r.tbl))
  BY <1>6, <1>8 DEF GivenUp, Bounded
<1> QED
  BY <1>6, <1>8, <1>9, <1>10 DEF r, t, bk2, fw2

(* HASH_DELETE of any item, the head, the tail and the last one included. *)
LEMMA DeleteIs ==
  ASSUME hashf \in HASH_FCN, NEW h, NEW l, Source(h, l), h.head # NULL, NEW k \in 1..Len(l)
  PROVE  Source(Delete(h, l[k]), Del(l, k))
<1> DEFINE e == l[k]
           B == h.prev
           F == h.next
           H == h.head
           p == B[e]
           x == F[e]
           l2 == Del(l, k)
           S == Members(l)
           r == Delete(h, e)
<1>1. /\ h \in Handle /\ B \in Field /\ F \in Field /\ H \in Ptr
      /\ l \in Seq(Items) /\ Distinct(l) /\ l # <<>> /\ S \in SUBSET Items
      /\ \E c : Bucketed(h, c, S)
      /\ h.tbl.num_items = Len(l) /\ h.tbl.tail = l[Len(l)] /\ h.tbl.tail \in Items
      /\ GivenUp(h.tbl) /\ Bounded(h.tbl) /\ h.tbl \in Tables
      /\ Strung(B, F, l, H) /\ Unique(S) /\ Len(l) \in Nat
  BY NotEmpty DEF Ptr
<1>2. e \in Items /\ e \in S /\ k \in Int /\ 1 <= k /\ k <= Len(l)
  BY <1>1, EndFacts
<1>3. /\ p = (IF k = 1 THEN NULL ELSE l[k - 1])
      /\ x = (IF k = Len(l) THEN NULL ELSE l[k + 1])
      /\ (k = 1 \/ l[k - 1] \in Items) /\ (k = Len(l) \/ l[k + 1] \in Items)
  <2>1. (k = 1 \/ k - 1 \in 1..Len(l)) /\ (k = Len(l) \/ k + 1 \in 1..Len(l))
    BY <1>1, <1>2
  <2> HIDE DEF B, F, H
  <2>2. (k = 1 \/ l[k - 1] \in Items) /\ (k = Len(l) \/ l[k + 1] \in Items)
    BY <1>1, <2>1, EndFacts
  <2> QED
    BY <1>1, <2>2 DEF Strung, Onward
<1>4. /\ (p = NULL <=> k = 1) /\ (x = NULL <=> k = Len(l)) /\ p \in Ptr /\ x \in Ptr
  <2> HIDE DEF p, x
  <2> QED
    BY <1>3, UthashAssumption DEF Ptr
<1>5. /\ l2 \in Seq(Items) /\ Len(l2) = Len(l) - 1 /\ Members(l2) = S \ {e} /\ Distinct(l2)
      /\ Unique(S \ {e}) /\ S \ {e} \in SUBSET Items
  BY <1>1, DelFacts DEF Unique
<1> DEFINE bk == Put(B, x, p)
           fw == Put(F, p, x)
<1>6. bk \in Field /\ fw \in Field /\ Strung(bk, fw, l2, IF k = 1 THEN x ELSE H)
  <2> HIDE DEF B, F, H, r
  <2> QED
    BY <1>1, Unlink
<1>7. CASE Len(l) = 1
  <2>1. k = 1 /\ l2 = <<>> /\ Len(l2) = 0
    BY <1>2, <1>5, <1>7, EmptySeq
  <2>2. p = NULL /\ x = NULL
    BY <1>4, <1>7, <2>1
  <2>3. r = [[h EXCEPT !.tbl = NULL, !.head = NULL] EXCEPT !.prev[e] = Wild, !.next[e] = Wild,
                         !.hh_prev[e] = Wild, !.hh_next[e] = Wild]
    BY <2>2 DEF Delete, DeleteHH
  <2> DEFINE bk2 == Wiped(h.prev, e)
             fw2 == Wiped(h.next, e)
             hp2 == Wiped(h.hh_prev, e)
             hn2 == Wiped(h.hh_next, e)
  <2>4. bk2 \in Field /\ fw2 \in Field /\ hp2 \in Field /\ hn2 \in Field
    <3>1. h.prev \in Field /\ h.next \in Field /\ h.hh_prev \in Field /\ h.hh_next \in Field
      BY <1>1 DEF Handle
    <3> QED
      BY <1>2, <3>1, WipedIs
  <2>5. r = [h EXCEPT !.tbl = NULL, !.head = NULL, !.prev = bk2, !.next = fw2,
                      !.hh_prev = hp2, !.hh_next = hn2]
    <3> HIDE DEF r, e
    <3> QED
      BY <1>1, <2>3 DEF Handle, Wiped
  <2> HIDE DEF r, bk2, fw2, hp2, hn2, l2
  <2>6. r \in Handle /\ r.tbl = NULL /\ r.head = NULL /\ r.prev = bk2 /\ r.next = fw2
    <3>1. NULL \in Ptr
      BY DEF Ptr
    <3> QED
      BY <1>1, <2>4, <2>5, <3>1 DEF Handle
  <2>7. Strung(bk2, fw2, l2, NULL)
    <3>1. \A i \in 1..Len(l2) : FALSE
      BY <2>1
    <3> QED
      BY <1>5, <2>1, <3>1 DEF Strung, Onward
  <2>8. Source(r, l2)
    BY <1>5, <2>6, <2>7 DEF Source, Good
  <2> QED
    BY <2>8 DEF r, l2
<1>8. CASE Len(l) # 1
  <2> DEFINE last == IF h.tbl.tail = e THEN p ELSE h.tbl.tail
             first == IF p = NULL THEN x ELSE H
             patched == Relinked(h, first, bk, fw, last)
             b == Slot(e, h.tbl.num_buckets)
             unhashed == DelInBkt(patched, b, e)
             done == Uncounted(unhashed, e)
  <2>1. Len(l) > 1 /\ ~(p = NULL /\ x = NULL)
    <3>1. Len(l) > 1 /\ ~(k = 1 /\ k = Len(l))
      <4> DEFINE n == Len(l)
      <4>1. n \in Nat /\ n # 1 /\ k \in Int /\ 1 <= k /\ k <= n
        BY <1>1, <1>2, <1>8
      <4> HIDE DEF n
      <4>2. n > 1 /\ ~(k = 1 /\ k = n)
        BY <4>1
      <4> QED
        BY <4>2 DEF n
    <3> QED
      BY <1>4, <3>1
  <2>2. h.tbl.tail = e <=> k = Len(l)
    <3>1. Len(l) \in 1..Len(l)
      BY <1>1, <2>1
    <3> QED
      BY <1>1, <3>1 DEF Distinct
  <2>3. last = l2[Len(l2)] /\ last \in Items
    <3> DEFINE m == Len(l)
    <3>1. m - 1 \in 1..(m - 1) /\ (k = m => m - 1 < k) /\ (k # m => ~(m - 1 < k)) /\ m - 1 + 1 = m
      BY <1>1, <1>2, <2>1
    <3>2. l2[m - 1] = IF m - 1 < k THEN l[m - 1] ELSE l[m - 1 + 1]
      BY <3>1 DEF Del
    <3>3. k = m => p = l[m - 1] /\ p \in Items
      <4>1. k = m => k # 1
        BY <2>1
      <4> QED
        BY <1>3, <4>1
    <3> QED
      BY <1>1, <1>5, <2>2, <3>1, <3>2, <3>3
  <2>4. first = (IF k = 1 THEN x ELSE H) /\ first \in Ptr /\ last \in Ptr
    BY <1>1, <1>4, <2>3 DEF Ptr
  <2> HIDE DEF last, first, bk, fw
  <2>5. PICK c : Bucketed(h, c, S)
    BY <1>1
  <2>6. /\ Bucketed(patched, c, S) /\ patched.head = first /\ patched.prev = bk /\ patched.next = fw
        /\ patched.tbl.tail = last /\ patched.tbl.num_items = Len(l)
        /\ GivenUp(patched.tbl) /\ Bounded(patched.tbl)
        /\ patched.tbl.num_buckets = h.tbl.num_buckets
    <3> HIDE DEF r, S, l2
    <3>1. GivenUp(h.tbl) /\ Bounded(h.tbl) /\ h.tbl.num_items = Len(l)
      BY <1>1
    <3>2. first \in Ptr /\ last \in Ptr /\ bk \in Field /\ fw \in Field
      BY <1>6, <2>4
    <3> QED
      BY <2>5, <3>1, <3>2, RelinkedIs
  <2>7. r = done
    <3>1. DeleteHH(h, e) = [unhashed EXCEPT !.tbl.num_items = @ - 1]
      <4> DEFINE patch(f, to, from) ==
                   [f EXCEPT !.tbl.tail = IF @ = e THEN from ELSE @,
                             !.head = IF from = NULL THEN to ELSE @,
                             !.next = Put(@, from, to), !.prev = Put(@, to, from)]
                 pat == patch(h, x, p)
      <4>1. DeleteHH(h, e)
              = [DelInBkt(pat, BktOf(h, KeyOf[e]), e) EXCEPT !.tbl.num_items = @ - 1]
        <5> HIDE DEF e
        <5>1. ~(h.prev[e] = NULL /\ h.next[e] = NULL)
          BY <2>1
        <5> QED
          BY <5>1 DEF DeleteHH
      <4>2. BktOf(h, KeyOf[e]) = b
        BY DEF BktOf, Slot
      <4>3. pat = patched
        <5>1. pat = [h EXCEPT !.head = first, !.prev = bk, !.next = fw, !.tbl = [h.tbl EXCEPT !.tail = last]]
          <6> HIDE DEF e, p, x
          <6> QED
            BY <1>1 DEF Handle, first, last, bk, fw
        <5> QED
          BY <5>1 DEF Relinked
      <4> HIDE DEF patch, pat, e, patched, b
      <4> QED
        BY <4>1, <4>2, <4>3
    <3> HIDE DEF unhashed
    <3>2. r = [[unhashed EXCEPT !.tbl.num_items = @ - 1] EXCEPT !.prev[e] = Wild, !.next[e] = Wild,
                         !.hh_prev[e] = Wild, !.hh_next[e] = Wild]
      BY <3>1 DEF Delete
    <3> QED
      BY <3>2 DEF Uncounted
  <2>8. b = Slot(e, patched.tbl.num_buckets)
    BY <2>6
  <2> HIDE DEF patched, b
  <2>9. /\ \E c2 : Bucketed(unhashed, c2, S \ {e})
        /\ SameOrder(patched, unhashed) /\ GivenUp(unhashed.tbl) /\ Bounded(unhashed.tbl)
    <3> HIDE DEF e, S
    <3> QED
      BY <1>1, <1>2, <2>6, <2>8, UnchainedIs
  <2>10. /\ unhashed.head = first /\ unhashed.prev = bk /\ unhashed.next = fw
         /\ unhashed.tbl.tail = last /\ unhashed.tbl.num_items = Len(l) /\ unhashed.tbl.num_items >= 1
    BY <1>1, <2>1, <2>6, <2>9 DEF SameOrder
  <2> HIDE DEF unhashed
  <2>11. PICK c2 : Bucketed(unhashed, c2, S \ {e})
    BY <2>9
  <2>12. /\ Bucketed(done, c2, S \ {e})
         /\ done.head = first /\ done.tbl.tail = last /\ done.tbl.num_items = Len(l) - 1
         /\ done.prev = Wiped(bk, e) /\ done.next = Wiped(fw, e)
         /\ GivenUp(done.tbl) /\ Bounded(done.tbl)
    <3> DEFINE T == S \ {e}
    <3>1. T \in SUBSET Items /\ e \in Items /\ e \notin T /\ Bucketed(unhashed, c2, T)
      BY <1>2, <1>5, <2>11
    <3> HIDE DEF T, e, S, r, l2
    <3>2. Bucketed(done, c2, T) /\ done.head = unhashed.head /\ done.tbl.tail = unhashed.tbl.tail
          /\ done.tbl.num_items = unhashed.tbl.num_items - 1
          /\ done.prev = Wiped(unhashed.prev, e) /\ done.next = Wiped(unhashed.next, e)
          /\ (GivenUp(unhashed.tbl) => GivenUp(done.tbl)) /\ (Bounded(unhashed.tbl) => Bounded(done.tbl))
      BY <2>10, <3>1, CountedIs
    <3> QED
      BY <2>9, <2>10, <3>2 DEF T
  <2> HIDE DEF done, r
  <2>13. Strung(Wiped(bk, e), Wiped(fw, e), l2, first)
    <3> HIDE DEF l2, e, S
    <3>1. Strung(bk, fw, l2, first)
      BY <1>6, <2>4
    <3>2. \A y \in Members(l2) : y \in Items /\ y # e
      BY <1>5
    <3>3. \A y \in Members(l2) : Wiped(bk, e)[y] = bk[y] /\ Wiped(fw, e)[y] = fw[y]
      BY <1>2, <1>6, <3>2, WipedIs
    <3> QED
      BY <3>1, <3>3, StrungSame
  <2>14. Source(done, l2)
    <3> HIDE DEF l2, e, S
    <3>1. l2 # <<>>
      <4>1. Len(l2) # 0
        BY <1>1, <1>5, <2>1
      <4> QED
        BY <1>5, <4>1, EmptySeq
    <3>2. first # NULL
      BY <2>13, <3>1, StrungHead
    <3>3. done \in Handle
      BY <2>12 DEF Bucketed
    <3> QED
      BY <1>5, <2>3, <2>12, <2>13, <3>2, <3>3 DEF Source, Good
  <2> QED
    BY <2>7, <2>14 DEF r, l2
<1> QED
  BY <1>7, <1>8

(* The order without the item, if there is one, that has the key of e. *)
Rid(l, e, l2) ==
  \/ AbsentKey(e, Members(l)) /\ l2 = l
  \/ \E k \in 1..Len(l) : KeyOf[l[k]] = KeyOf[e] /\ l2 = Del(l, k)

(* HASH_REPLACE deletes what has the key, if anything does. *)
LEMMA WithoutIs ==
  ASSUME hashf \in HASH_FCN, NEW h, NEW l, Source(h, l), NEW e \in Items
  PROVE  \E l2 : Source(Without(h, e), l2) /\ AbsentKey(e, Members(l2)) /\ Rid(l, e, l2)
<1> DEFINE y == Find(h, KeyOf[e])
<1>1. Good(h, l) /\ l \in Seq(Items) /\ Strung(h.prev, h.next, l, h.head)
  BY DEF Source, Good, Strung
<1>2. \/ y = NULL /\ AbsentKey(e, Members(l))
      \/ y \in Members(l) /\ KeyOf[y] = KeyOf[e]
  BY <1>1, FindKey
<1>3. Members(l) \subseteq Items
  BY <1>1, MembersItems
<1>4. CASE y = NULL
  <2>1. AbsentKey(e, Members(l))
    BY <1>2, <1>3, <1>4, UthashAssumption
  <2>2. Without(h, e) = h
    BY <1>4 DEF Without
  <2> QED
    BY <2>1, <2>2 DEF Rid
<1>5. CASE y # NULL
  <2>1. y \in Members(l) /\ KeyOf[y] = KeyOf[e]
    BY <1>2, <1>5
  <2>2. Without(h, e) = Delete(h, y)
    BY <1>5 DEF Without
  <2> HIDE DEF y
  <2>3. PICK k \in 1..Len(l) : y = l[k]
    BY <2>1 DEF Members
  <2>4. h.head # NULL
    BY <1>1, <2>1, StrungHead, MembersItems
  <2>5. Source(Delete(h, l[k]), Del(l, k))
    BY <2>4, DeleteIs
  <2>6. Members(Del(l, k)) = Members(l) \ {y}
    <3>1. Distinct(l)
      BY <1>1 DEF Strung
    <3> QED
      BY <1>1, <2>3, <3>1, DelFacts
  <2>7. Unique(Members(l))
    BY DEF Source
  <2>8. AbsentKey(e, Members(Del(l, k)))
    BY <2>1, <2>6, <2>7 DEF AbsentKey, Unique
  <2>9. Rid(l, e, Del(l, k))
    BY <2>1, <2>3 DEF Rid
  <2> QED
    BY <2>2, <2>3, <2>5, <2>8, <2>9
<1> QED
  BY <1>4, <1>5

(* HASH_REPLACE and HASH_REPLACE_INORDER, with an item to replace or not. *)
LEMMA ReplaceIs ==
  ASSUME hashf \in HASH_FCN, NEW h, NEW l, Source(h, l), NEW e \in Items
  PROVE  \E l2 : /\ Rid(l, e, l2)
                 /\ Source(Replace(h, e), Dict!AtEnd(l2, e))
                 /\ Source(ReplaceInorder(h, e), Dict!InOrder(l2, e))
<1> DEFINE w == Without(h, e)
<1>1. PICK l2 : Source(w, l2) /\ AbsentKey(e, Members(l2)) /\ Rid(l, e, l2)
  BY WithoutIs
<1>2. Source(Add(w, e), Dict!AtEnd(l2, e)) /\ Source(AddInorder(w, e), Dict!InOrder(l2, e))
  <2> HIDE DEF w
  <2> QED
    BY <1>1, AddIs
<1> QED
  BY <1>1, <1>2 DEF Replace, ReplaceInorder

----------------------------------------------------------------------------
(* HASH_SELECT *)

(* New pointers, with the head and the tail that are there. *)
LEMMA SameTail ==
  ASSUME NEW h, NEW c, NEW S, Bucketed(h, c, S), NEW bk, NEW fw
  PROVE  [h EXCEPT !.prev = bk, !.next = fw] = Relinked(h, h.head, bk, fw, h.tbl.tail)
<1> DEFINE t == h.tbl
<1>1. h \in Handle /\ t \in Tables
  BY DEF Bucketed
<1>2. t \in Table(t.log2_num_buckets)
  BY <1>1, TableFacts
<1>3. [t EXCEPT !.tail = t.tail] = t
  <2> HIDE DEF t
  <2> QED
    BY <1>2 DEF Table
<1>4. Relinked(h, h.head, bk, fw, h.tbl.tail) = [h EXCEPT !.head = h.head, !.prev = bk, !.next = fw, !.tbl = h.tbl]
  BY <1>3 DEF Relinked
<1> QED
  BY <1>1, <1>4 DEF Handle

(* num_items goes up after the item is in its bucket: HASH_SELECT. *)
CountUp(h) == [h EXCEPT !.tbl.num_items = @ + 1]

(* Nothing but num_items changes. *)
LEMMA CountUpIs ==
  ASSUME NEW h, NEW c, NEW S, Bucketed(h, c, S)
  PROVE  LET r == CountUp(h)
         IN  /\ Bucketed(r, c, S) /\ r \in Handle
             /\ r.head = h.head /\ r.prev = h.prev /\ r.next = h.next
             /\ r.tbl.tail = h.tbl.tail /\ r.tbl.num_items = h.tbl.num_items + 1
             /\ GivenUp(h.tbl) => GivenUp(r.tbl)
<1> DEFINE t == h.tbl
           k == t.log2_num_buckets
           t2 == [t EXCEPT !.num_items = @ + 1]
           r == CountUp(h)
<1>1. h \in Handle /\ t \in Tables /\ Held(t.buckets, h.hh_prev, h.hh_next, t.num_buckets, c, S)
  BY DEF Bucketed
<1>2. k \in Nat /\ t \in Table(k) /\ t.num_items \in Nat
  BY <1>1, TableFacts
<1>3. r = [h EXCEPT !.tbl = t2]
  BY DEF CountUp
<1> HIDE DEF t, k, r
<1>4. /\ t2.num_items = t.num_items + 1 /\ t2.tail = t.tail /\ t2.buckets = t.buckets
      /\ t2.num_buckets = t.num_buckets
      /\ t2.ineff_expands = t.ineff_expands /\ t2.noexpand = t.noexpand
  BY <1>2 DEF Table
<1>5. t2 \in Tables
  <2> DEFINE m == Bit[k]
             bs == [0..(m - 1) -> Bucket]
  <2> HIDE DEF m, bs
  <2>1. t \in [num_buckets : {m}, log2_num_buckets : {k}, buckets : bs, num_items : Nat,
               tail : Ptr, ideal_chain_maxlen : Nat, ineff_expands : Nat, noexpand : BOOLEAN]
    BY <1>2 DEF Table, m, bs
  <2>2. t2 \in [num_buckets : {m}, log2_num_buckets : {k}, buckets : bs, num_items : Nat,
               tail : Ptr, ideal_chain_maxlen : Nat, ineff_expands : Nat, noexpand : BOOLEAN]
    BY <1>2, <2>1
  <2>3. t2 \in Table(k)
    BY <2>2 DEF Table, m, bs
  <2> QED
    BY <1>2, <2>3 DEF Tables
<1> HIDE DEF t2
<1>6. r \in Handle /\ r.tbl = t2 /\ r.head = h.head /\ r.prev = h.prev /\ r.next = h.next
      /\ r.hh_prev = h.hh_prev /\ r.hh_next = h.hh_next
  BY <1>1, <1>3, <1>5 DEF Handle
<1>7. Bucketed(r, c, S)
  BY <1>1, <1>4, <1>5, <1>6 DEF Bucketed
<1> QED
  BY <1>4, <1>6, <1>7 DEF r, t, GivenUp

(* _last_elt of HASH_SELECT: the end of the list so far, as tail is not. *)
LastOf(l) == IF l = <<>> THEN NULL ELSE l[Len(l)]

(* HASH_SELECT of one item: it is the last of the second hash. *)
LEMMA SelectOneIs ==
  ASSUME hashf \in HASH_FCN, NEW d, NEW l, Good(d, l), NEW e \in Items, e \notin Members(l)
  PROVE  LET r == SelectOne([d |-> d, last |-> LastOf(l)], e)
             l2 == Ins(l, Len(l) + 1, e)
         IN  /\ r = [d |-> r.d, last |-> LastOf(l2)]
             /\ Good(r.d, l2) /\ r.d.head # NULL
             /\ Members(l2) = Members(l) \cup {e}
<1> DEFINE B == d.prev
           F == d.next
           H == d.head
           last == LastOf(l)
           bk == [B EXCEPT ![e] = last]
           fw == Put([F EXCEPT ![e] = NULL], last, e)
           linked == [d EXCEPT !.prev = bk, !.next = fw]
           in == IF d.head = NULL THEN First(linked, e) ELSE linked
           add == AddToBkt(in, e)
           r == SelectOne([d |-> d, last |-> last], e)
           l2 == Ins(l, Len(l) + 1, e)
<1>1. r = [d |-> CountUp(add), last |-> e]
  <2>1. linked = [d EXCEPT !.prev[e] = last, !.next = Put([@ EXCEPT ![e] = NULL], last, e)]
    BY DEF Good, Handle
  <2> HIDE DEF linked, last
  <2> QED
    BY <2>1 DEF SelectOne, CountUp
<1>2. d \in Handle /\ B \in Field /\ F \in Field /\ Strung(B, F, l, H) /\ l \in Seq(Items)
      /\ Members(l) \in SUBSET Items /\ Len(l) \in Nat
  <2>1. d \in Handle /\ Strung(d.prev, d.next, l, d.head)
    BY DEF Good
  <2> QED
    BY <2>1, MembersItems DEF Handle, Strung
<1>3. bk \in Field /\ fw \in Field /\ Strung(bk, fw, l2, IF l = <<>> THEN e ELSE H)
  <2>1. last = IF l = <<>> THEN NULL ELSE l[Len(l)]
    BY DEF LastOf
  <2> HIDE DEF B, F, H, last, r, linked
  <2> QED
    BY <1>2, <2>1, LinkLast
<1>4. H = NULL <=> l = <<>>
  BY <1>2, StrungHead
<1>5. l2 \in Seq(Items) /\ Len(l2) = Len(l) + 1 /\ Members(l2) = Members(l) \cup {e}
      /\ l2[Len(l2)] = e /\ l2 # <<>> /\ LastOf(l2) = e
  <2> DEFINE n == Len(l) + 1
  <2>1. ~(n < n) /\ n \in 1..n /\ n # 0 /\ Len(l) + 1 \in 1..(Len(l) + 1)
    BY <1>2
  <2>2. l2 \in Seq(Items) /\ Len(l2) = n /\ Members(l2) = Members(l) \cup {e}
    BY <1>2, <2>1, InsFacts
  <2>3. l2[n] = e
    BY <2>1 DEF Ins
  <2>4. l2 # <<>>
    <3>1. Len(l2) # 0
      BY <2>1, <2>2
    <3> HIDE DEF l2
    <3> QED
      BY <2>2, <3>1, EmptySeq
  <2> QED
    BY <2>2, <2>3, <2>4 DEF LastOf
<1> HIDE DEF bk, fw, last
<1>6. linked \in Handle /\ linked.head = H /\ linked.prev = bk /\ linked.next = fw /\ linked.tbl = d.tbl
  BY <1>2, <1>3 DEF Handle
<1>7. /\ \E c : Bucketed(in, c, Members(l))
      /\ GivenUp(in.tbl) /\ in.tbl.num_items = Len(l) /\ in.tbl.tail \in Items
      /\ Strung(in.prev, in.next, l2, in.head) /\ in.head # NULL
  <2>1. CASE d.head = NULL
    <3>1. l = <<>> /\ Members(l) = {} /\ Len(l) = 0
      BY <1>2, <1>4, <2>1, MembersItems, EmptySeq
    <3>2. in = First(linked, e)
      BY <2>1
    <3> HIDE DEF linked, l2, in, r
    <3>3. /\ in.head = e /\ Strung(in.prev, in.next, <<e>>, e)
          /\ \E c : Bucketed(in, c, {}) /\ in.tbl.num_items = 0 /\ in.tbl.tail = e
          /\ GivenUp(in.tbl)
      BY <1>6, <3>2, FirstIs
    <3>4. l2 = <<e>>
      <4>1. Len(l2) = 1 /\ l2[1] = e
        BY <1>5, <3>1
      <4>2. l2 \in Seq(Items) /\ <<e>> \in Seq(Items) /\ Len(<<e>>) = 1 /\ <<e>>[1] = e
        BY <1>5, OneItem
      <4> HIDE DEF l2
      <4> QED
        BY <4>1, <4>2, SeqEqual
    <3> QED
      BY <3>1, <3>3, <3>4, UthashAssumption
  <2>2. CASE d.head # NULL
    <3>1. l # <<>> /\ in = linked
      BY <1>4, <2>2
    <3>2. PICK c : Bucketed(d, c, Members(l)) /\ d.tbl.num_items = Len(l) /\ d.tbl.tail \in Items /\ GivenUp(d.tbl)
      BY <2>2 DEF Good
    <3>3. linked = Relinked(d, d.head, bk, fw, d.tbl.tail)
      <4> HIDE DEF linked
      <4> SUFFICES [d EXCEPT !.prev = bk, !.next = fw] = Relinked(d, d.head, bk, fw, d.tbl.tail)
        BY DEF linked
      <4> QED
        BY <3>2, SameTail
    <3> DEFINE S == Members(l)
               t == d.tbl.tail
    <3>4. t \in Ptr /\ d.head \in Ptr /\ Bucketed(d, c, S) /\ GivenUp(d.tbl)
      BY <1>2, <3>2 DEF Ptr, Handle
    <3> HIDE DEF S, t, linked, in, r, l2
    <3>5. /\ Bucketed(Relinked(d, d.head, bk, fw, t), c, S)
          /\ Relinked(d, d.head, bk, fw, t).tbl.tail = t
          /\ Relinked(d, d.head, bk, fw, t).tbl.num_items = d.tbl.num_items
          /\ GivenUp(Relinked(d, d.head, bk, fw, t).tbl)
      BY <1>3, <3>4, RelinkedIs
    <3>6. Bucketed(linked, c, S) /\ linked.tbl.tail = t /\ linked.tbl.num_items = d.tbl.num_items /\ GivenUp(linked.tbl)
      BY <3>3, <3>5 DEF t
    <3>7. Strung(linked.prev, linked.next, l2, linked.head) /\ linked.head # NULL
      BY <1>3, <1>6, <2>2, <3>1
    <3> QED
      BY <3>1, <3>2, <3>6, <3>7 DEF S, t
  <2> QED
    BY <2>1, <2>2
<1> HIDE DEF in, l2
<1>8. /\ \E c : Bucketed(add, c, Members(l) \cup {e})
      /\ SameOrder(in, add) /\ GivenUp(add.tbl)
  BY <1>2, <1>7, AddToBktIs
<1>9. PICK c : Bucketed(add, c, Members(l2))
  BY <1>5, <1>8
<1> HIDE DEF add
<1> DEFINE d2 == CountUp(add)
<1>10. /\ Bucketed(d2, c, Members(l2)) /\ d2 \in Handle
       /\ d2.head = add.head /\ d2.prev = add.prev /\ d2.next = add.next
       /\ d2.tbl.tail = add.tbl.tail /\ d2.tbl.num_items = add.tbl.num_items + 1
       /\ GivenUp(d2.tbl)
  <2> HIDE DEF r
  <2> QED
    BY <1>8, <1>9, CountUpIs
<1> HIDE DEF d2
<1>11. /\ Strung(d2.prev, d2.next, l2, d2.head) /\ d2.head # NULL
       /\ d2.tbl.tail \in Items /\ d2.tbl.num_items = Len(l2)
  BY <1>5, <1>7, <1>8, <1>10 DEF SameOrder
<1>12. Good(d2, l2)
  BY <1>10, <1>11 DEF Good
<1>13. r = [d |-> d2, last |-> e]
  BY <1>1 DEF d2
<1> HIDE DEF r
<1>14. r = [d |-> r.d, last |-> LastOf(l2)] /\ Good(r.d, l2) /\ r.d.head # NULL
  BY <1>5, <1>11, <1>12, <1>13
<1> QED
  BY <1>5, <1>14 DEF r, l2, last

----------------------------------------------------------------------------
(* Selection *)

(* The items that a selection is to take. *)
UpTo(S, r) == {i \in S : Rank[i] <= r}

(* Of the items done, those up to the rank are selected. *)
Chosen(s, q, k, r) ==
  \E l : /\ s = [d |-> s.d, last |-> LastOf(l)] /\ Good(s.d, l)
         /\ Members(l) = UpTo(Done(q, k), r)

(* A turn of the double loop of HASH_SELECT. *)
SelectTurn(s, e, r) == IF Rank[e] <= r THEN SelectOne(s, e) ELSE s

(* It keeps to the items met so far. *)
LEMMA ChosenOne ==
  ASSUME hashf \in HASH_FCN, NEW q \in Seq(Items), Distinct(q), NEW r, NEW k \in 1..Len(q),
         NEW s \in [d : Handle, last : Ptr], Chosen(s, q, k - 1, r)
  PROVE  /\ SelectTurn(s, q[k], r) \in [d : Handle, last : Ptr]
         /\ Chosen(SelectTurn(s, q[k], r), q, k, r)
<1> DEFINE e == q[k]
           D == Done(q, k - 1)
<1>1. e \in Items /\ e \notin D /\ D \in SUBSET Items /\ Done(q, k) = D \cup {e}
  BY DoneFacts
<1>2. PICK l : s = [d |-> s.d, last |-> LastOf(l)] /\ Good(s.d, l) /\ Members(l) = UpTo(D, r)
  BY DEF Chosen
<1> HIDE DEF e, D
<1>3. CASE Rank[e] <= r
  <2> DEFINE t == SelectOne([d |-> s.d, last |-> LastOf(l)], e)
             l2 == Ins(l, Len(l) + 1, e)
  <2>1. e \notin Members(l)
    BY <1>1, <1>2 DEF UpTo
  <2>2. /\ t = [d |-> t.d, last |-> LastOf(l2)]
        /\ Good(t.d, l2) /\ Members(l2) = Members(l) \cup {e}
    BY <1>1, <1>2, <2>1, SelectOneIs
  <2>3. SelectTurn(s, e, r) = t
    BY <1>2, <1>3 DEF SelectTurn
  <2> HIDE DEF t, l2
  <2>4. Members(l2) = UpTo(Done(q, k), r)
    BY <1>1, <1>2, <1>3, <2>2 DEF UpTo
  <2>5. LastOf(l2) \in Ptr /\ t.d \in Handle
    <3>1. l2 \in Seq(Items)
      BY <2>2 DEF Good, Strung
    <3> QED
      BY <2>2, <3>1, EndFacts DEF LastOf, Ptr, Good
  <2>6. t \in [d : Handle, last : Ptr]
    BY <2>2, <2>5
  <2> QED
    BY <2>2, <2>3, <2>4, <2>6 DEF Chosen, e
<1>4. CASE ~(Rank[e] <= r)
  <2>1. SelectTurn(s, e, r) = s
    BY <1>4 DEF SelectTurn
  <2>2. UpTo(Done(q, k), r) = UpTo(D, r)
    BY <1>1, <1>4 DEF UpTo
  <2>3. Chosen(s, q, k, r)
    BY <1>2, <2>2 DEF Chosen
  <2> QED
    BY <2>1, <2>3 DEF e
<1> QED
  BY <1>3, <1>4

(* The whole loop: the second hash has just the items up to the rank. *)
LEMMA SelectIs ==
  ASSUME hashf \in HASH_FCN, NEW h, NEW l, Good(h, l), NEW r
  PROVE  \E ld : Good(Select(Empty, h, r), ld) /\ Members(ld) = UpTo(Members(l), r)
<1>0. Good(Empty, <<>>) /\ Members(<<>>) = {}
  <2>1. <<>> \in Seq(Items)
    OBVIOUS
  <2> QED
    BY <2>1, EmptyIs, MembersItems DEF Source
<1>A. l \in Seq(Items) /\ Strung(h.prev, h.next, l, h.head) /\ Members(l) \in SUBSET Items
  <2>1. l \in Seq(Items) /\ Strung(h.prev, h.next, l, h.head)
    BY DEF Good, Strung
  <2> QED
    BY <2>1, MembersItems
<1>B. CASE h.head = NULL
  <2>1. Members(l) = {}
    BY <1>A, <1>B, StrungHead, MembersItems
  <2>2. Select(Empty, h, r) = Empty
    BY <1>B DEF Select
  <2> QED
    BY <1>0, <2>1, <2>2 DEF UpTo
<1>C. CASE h.head # NULL
  <2> DEFINE q == BucketOrder(h)
             N == Len(q)
             T == [d : Handle, last : Ptr]
             s0 == [d |-> Empty, last |-> NULL]
             X == [k \in 0..N |-> {s \in T : Chosen(s, q, k, r)}]
             step == [k \in 1..N |-> [s \in X[k - 1] |-> SelectTurn(s, q[k], r)]]
             LoopBody(f) == [k \in 0..N |->
                               IF k = 0 THEN s0
                               ELSE IF Rank[q[k]] <= r THEN SelectOne(f[k - 1], q[k])
                               ELSE f[k - 1]]
  <2>1. q \in Seq(Items) /\ Distinct(q) /\ Members(q) = Members(l)
    <3>1. PICK c : Bucketed(h, c, Members(l))
      BY <1>C DEF Good
    <3> QED
      BY <1>A, <3>1, OrderIs
  <2>2. Done(q, 0) = {} /\ Done(q, N) = Members(l) /\ N \in Nat
    BY <2>1, DoneFacts
  <2> HIDE DEF q
  <2>3. s0 \in T /\ Chosen(s0, q, 0, r)
    <3>1. LastOf(<<>>) = NULL /\ NULL \in Ptr
      BY DEF LastOf, Ptr
    <3>2. Empty \in Handle
      BY <1>0 DEF Good
    <3>3. Members(<<>>) = UpTo(Done(q, 0), r)
      BY <1>0, <2>2 DEF UpTo
    <3>4. s0 = [d |-> s0.d, last |-> LastOf(<<>>)] /\ Good(s0.d, <<>>)
      BY <1>0, <3>1
    <3> QED
      BY <3>1, <3>2, <3>3, <3>4 DEF Chosen
  <2> HIDE DEF s0
  <2>4. \A k \in 1..N : \A s \in T :
          Chosen(s, q, k - 1, r) => SelectTurn(s, q[k], r) \in T /\ Chosen(SelectTurn(s, q[k], r), q, k, r)
    BY <2>1, ChosenOne
  <2> HIDE DEF T
  <2>5. /\ \A k \in 1..N : k - 1 \in 0..N /\ k \in 0..N /\ k # 0
        /\ 0 \in 0..N /\ N \in 0..N
    BY <2>2
  <2>6. \A k \in 0..N : X[k] = {s \in T : Chosen(s, q, k, r)}
    OBVIOUS
  <2>7. s0 \in X[0]
    BY <2>3, <2>5
  <2>8. \A k \in 1..N : step[k] \in [X[k - 1] -> X[k]]
    <3> TAKE k \in 1..N
    <3> HIDE DEF X
    <3>1. \A s \in X[k - 1] : SelectTurn(s, q[k], r) \in X[k]
      BY <2>4, <2>5, <2>6
    <3> QED
      BY <3>1
  <2>9. \E f : f = LoopOf(f, s0, step, N) /\ \A k \in 0..N : f[k] \in X[k]
    <3> HIDE DEF X, step
    <3> QED
      BY <2>2, <2>7, <2>8, LoopRuns
  <2>10. \E f : f = LoopBody(f)
    <3>1. PICK f : f = LoopOf(f, s0, step, N) /\ \A k \in 0..N : f[k] \in X[k]
      BY <2>9
    <3>2. \A k \in 1..N : step[k][f[k - 1]] = SelectTurn(f[k - 1], q[k], r)
      <4> TAKE k \in 1..N
      <4>1. f[k - 1] \in X[k - 1]
        BY <2>5, <3>1
      <4> HIDE DEF X
      <4> QED
        BY <4>1
    <3>3. LoopOf(f, s0, step, N) = LoopBody(f)
      <4>1. \A k \in 0..N : k # 0 => k \in 1..N
        BY <2>2
      <4> HIDE DEF step, X
      <4> QED
        BY <3>2, <4>1 DEF LoopOf, SelectTurn
    <3> HIDE DEF LoopBody, step
    <3> QED
      BY <3>1, <3>3
  <2> DEFINE w == CHOOSE f : f = LoopBody(f)
  <2>11. w = LoopBody(w)
    <3> HIDE DEF LoopBody
    <3> QED
      BY <2>10
  <2>12. Select(Empty, h, r) = w[N].d
    BY <1>C DEF Select, q, s0
  <2> HIDE DEF w
  <2>13. w[0] = s0 /\ \A k \in 1..N : w[k] = SelectTurn(w[k - 1], q[k], r)
    <3>1. \A f : f = LoopBody(f) => f[0] = s0 /\ \A k \in 1..N : f[k] = SelectTurn(f[k - 1], q[k], r)
      BY <2>5 DEF SelectTurn
    <3> HIDE DEF LoopBody
    <3> QED
      BY <2>11, <3>1
  <2>14. \A k \in 0..N : w[k] \in X[k]
    <3>1. \A k \in 1..N : w[k - 1] \in X[k - 1] => w[k] \in X[k]
      <4> HIDE DEF X
      <4> QED
        BY <2>4, <2>5, <2>6, <2>13
    <3> HIDE DEF X
    <3> QED
      BY <2>2, <2>7, <2>13, <3>1, LoopKeeps
  <2>15. Chosen(w[N], q, N, r)
    BY <2>5, <2>14
  <2> QED
    BY <2>2, <2>12, <2>15 DEF Chosen
<1> QED
  BY <1>B, <1>C

----------------------------------------------------------------------------
(* The order of a stable sort *)

(* The order of a stable sort: by rank, and within a rank by the place pos  *)
(* that an item had at first.                                               *)
Prior(pos, x, y) == Rank[x] < Rank[y] \/ (Rank[x] = Rank[y] /\ pos[x] < pos[y])

(* It is transitive, and sends the first of two runs ahead where ranks tie. *)
LEMMA PriorFacts ==
  ASSUME NEW pos \in [Items -> Nat], NEW x \in Items, NEW y \in Items
  PROVE  /\ Rank[x] <= Rank[y] /\ pos[x] < pos[y] => Prior(pos, x, y)
         /\ ~(Rank[x] <= Rank[y]) => Prior(pos, y, x)
         /\ ~Prior(pos, x, x)
         /\ \A z \in Items : Prior(pos, x, y) /\ Prior(pos, y, z) => Prior(pos, x, z)
<1>1. \A z \in Items : Rank[z] \in Int /\ pos[z] \in Nat
  BY UthashAssumption
<1> QED
  BY <1>1 DEF Prior

(* Where runs of w end. *)
Cuts(w) == {k * w : k \in Nat}

(* Multiples of a width. *)
LEMMA TimesMore ==
  ASSUME NEW a \in Nat, NEW b \in Nat, a <= b, NEW v \in Nat
  PROVE  a * v \in Nat /\ a * v <= b * v
<1>1. PICK d \in Nat : b = a + d
  <2>1. b - a \in Nat /\ b = a + (b - a)
    OBVIOUS
  <2> QED
    BY <2>1
<1>2. a * v \in Nat /\ d * v \in Nat /\ (a + d) * v = a * v + d * v
  OBVIOUS
<1> QED
  BY <1>1, <1>2

(* What is and what is not such a place. *)
LEMMA CutFacts ==
  ASSUME NEW v \in Nat \ {0}
  PROVE  /\ 0 \in Cuts(v) /\ Cuts(v) \in SUBSET Nat
         /\ \A c \in Cuts(v) : c + v \in Cuts(v)
         /\ \A c, d \in Cuts(v) : c <= d \/ c >= d + v
<1>1. 0 \in Cuts(v)
  BY 0 * v = 0 DEF Cuts
<1>2. ASSUME NEW k \in Nat PROVE k * v \in Nat /\ (k + 1) * v = k * v + v /\ k + 1 \in Nat
  OBVIOUS
<1>3. ASSUME NEW c \in Cuts(v) PROVE c \in Nat /\ c + v \in Cuts(v)
  BY <1>2 DEF Cuts
<1>4. ASSUME NEW a \in Nat, NEW b \in Nat PROVE a * v <= b * v \/ a * v >= b * v + v
  <2>1. CASE a <= b
    BY <2>1, TimesMore
  <2>2. CASE ~(a <= b)
    <3>1. b + 1 \in Nat /\ b + 1 <= a /\ v \in Nat
      BY <2>2
    <3>2. (b + 1) * v <= a * v
      BY <3>1, TimesMore
    <3> QED
      BY <1>2, <3>2
  <2> QED
    BY <2>1, <2>2
<1> QED
  BY <1>1, <1>3, <1>4 DEF Cuts

(* Of l after place o and up to place n: it is made of runs of w, each in   *)
(* order, and all of a run was ahead of the next one at first.              *)
Runs(pos, l, o, n, w) ==
  \A i, j \in 1..Len(l), c \in Cuts(w) :
    o < i /\ i < j /\ j <= n =>
      /\ i <= o + c /\ o + c < j => pos[l[i]] < pos[l[j]]
      /\ o + c < i /\ j <= o + c + w => Prior(pos, l[i], l[j])

(* A merge into E from place m on: what is there is in runs of v, what has  *)
(* come since is in order, the items of U are to follow, and those of R     *)
(* are for later merges.                                                    *)
Kept(pos, m, v, E, U, R) ==
  /\ Runs(pos, E, 0, m, v)
  /\ \A i, j \in 1..Len(E) :
       i < j => /\ i <= m /\ m < j => pos[E[i]] < pos[E[j]]
                /\ m < i => Prior(pos, E[i], E[j])
  /\ \A i \in 1..Len(E) :
       /\ \A x \in U : IF i <= m THEN pos[E[i]] < pos[x] ELSE Prior(pos, E[i], x)
       /\ \A y \in R : pos[E[i]] < pos[y]
  /\ \A x \in U, y \in R : pos[x] < pos[y]

(* The first of the items that are to follow is emitted. *)
LEMMA KeptOn ==
  ASSUME NEW pos, NEW m \in Nat, NEW v, NEW E \in Seq(Items), m <= Len(E),
         NEW U, NEW R, Kept(pos, m, v, E, U, R), NEW e \in U, e \in Items,
         \A x \in U : x # e => Prior(pos, e, x)
  PROVE  Kept(pos, m, v, Ins(E, Len(E) + 1, e), U \ {e}, R)
<1> DEFINE n == Len(E)
           E2 == Ins(E, n + 1, e)
<1>1. n \in Nat /\ n + 1 \in 1..(n + 1) /\ Len(E2) = n + 1
  BY EndFacts, InsFacts
<1>2. /\ \A i \in 1..(n + 1) : i \in 1..n \/ i = n + 1
      /\ \A i \in 1..n : i \in 1..(n + 1) /\ i < n + 1 /\ i # n + 1 /\ E2[i] = E[i]
      /\ E2[n + 1] = e /\ ~(n + 1 <= m) /\ m < n + 1
  BY <1>1 DEF Ins
<1> HIDE DEF n, E2
<1>3. Runs(pos, E2, 0, m, v)
  <2>1. \A j \in 1..(n + 1) : j <= m => j \in 1..n
    BY <1>1, <1>2
  <2>2. \A i, j \in 1..(n + 1) : i < j /\ j <= m => i \in 1..n
    BY <1>1, <1>2
  <2>3. Runs(pos, E, 0, m, v)
    BY DEF Kept
  <2> QED
    BY <1>1, <1>2, <2>1, <2>2, <2>3 DEF Runs, n
<1>4. ASSUME NEW i \in 1..(n + 1), NEW j \in 1..(n + 1), i < j
      PROVE  /\ i <= m /\ m < j => pos[E2[i]] < pos[E2[j]]
             /\ m < i => Prior(pos, E2[i], E2[j])
  <2>1. i \in 1..n
    BY <1>1, <1>4
  <2>2. i <= m \/ m < i
    BY <1>1
  <2>3. CASE j \in 1..n
    BY <1>2, <1>4, <2>1, <2>3 DEF Kept, n
  <2>4. CASE j = n + 1
    <3>1. IF i <= m THEN pos[E[i]] < pos[e] ELSE Prior(pos, E[i], e)
      BY <2>1 DEF Kept, n
    <3>2. m < i => ~(i <= m)
      BY <1>1
    <3> QED
      BY <1>2, <2>1, <2>4, <3>1, <3>2
  <2> QED
    BY <1>2, <2>3, <2>4
<1>5. ASSUME NEW i \in 1..(n + 1)
      PROVE  /\ \A x \in U \ {e} : IF i <= m THEN pos[E2[i]] < pos[x]
                                   ELSE Prior(pos, E2[i], x)
             /\ \A y \in R : pos[E2[i]] < pos[y]
  <2>1. CASE i \in 1..n
    BY <1>2, <2>1 DEF Kept, n
  <2>2. CASE i = n + 1
    BY <1>2, <2>2 DEF Kept
  <2> QED
    BY <1>2, <2>1, <2>2
<1> QED
  BY <1>1, <1>3, <1>4, <1>5 DEF Kept, E2, n

(* What a merge with qs left to take from B is still to emit of it, and     *)
(* what it leaves.                                                          *)
Early(B, qs) == {B[i] : i \in {j \in 1..Len(B) : j <= qs}}
Late(B, qs) == {B[i] : i \in {j \in 1..Len(B) : j > qs}}

(* Taking the first of B and counting qs down. *)
LEMMA EarlyOff ==
  ASSUME NEW B \in Seq(Items), Distinct(B), B # <<>>, NEW qs \in Nat, qs # 0
  PROVE  /\ B[1] \in Early(B, qs) /\ Early(Del(B, 1), qs - 1) = Early(B, qs) \ {B[1]}
         /\ Late(Del(B, 1), qs - 1) = Late(B, qs)
<1> DEFINE D == Del(B, 1)
           n == Len(B)
<1>1. n \in Nat /\ 1 \in 1..n /\ 1 <= qs /\ Len(D) = n - 1
  <2>1. n \in Nat /\ 1 \in 1..n /\ 1 <= qs
    BY EndFacts
  <2> QED
    BY <2>1, DelFacts
<1>2. \A i \in 1..(n - 1) : D[i] = B[i + 1]
  BY DEF Del
<1>3. \A i, j \in 1..n : B[i] = B[j] => i = j
  BY DEF Distinct
<1> HIDE DEF D, n
<1>4. /\ \A i \in 1..(n - 1) : i + 1 \in 1..n /\ i + 1 # 1 /\ (i <= qs - 1 <=> i + 1 <= qs)
                                /\ (i > qs - 1 <=> i + 1 > qs)
      /\ \A i \in 1..n : i # 1 => i - 1 \in 1..(n - 1) /\ (i - 1) + 1 = i
      /\ \A i \in 1..n : i > qs => i # 1
  BY <1>1
<1>5. Early(D, qs - 1) = {B[i] : i \in {j \in 1..n : j <= qs /\ j # 1}}
  <2>1. Early(D, qs - 1) = {D[i] : i \in {j \in 1..(n - 1) : j <= qs - 1}}
    BY <1>1 DEF Early
  <2>2. ASSUME NEW i \in 1..(n - 1), i <= qs - 1
        PROVE  D[i] \in {B[k] : k \in {j \in 1..n : j <= qs /\ j # 1}}
    BY <1>2, <1>4, <2>2
  <2>3. ASSUME NEW i \in 1..n, i <= qs, i # 1
        PROVE  B[i] \in {D[k] : k \in {j \in 1..(n - 1) : j <= qs - 1}}
    <3>1. i - 1 \in 1..(n - 1) /\ i - 1 <= qs - 1 /\ D[i - 1] = B[i]
      BY <1>2, <1>4, <2>3
    <3> QED
      BY <3>1
  <2> QED
    BY <2>1, <2>2, <2>3
<1>6. Late(D, qs - 1) = Late(B, qs)
  <2>1. Late(D, qs - 1) = {D[i] : i \in {j \in 1..(n - 1) : j > qs - 1}}
        /\ Late(B, qs) = {B[i] : i \in {j \in 1..n : j > qs}}
    BY <1>1 DEF Late, n
  <2>2. ASSUME NEW i \in 1..(n - 1), i > qs - 1
        PROVE  D[i] \in {B[k] : k \in {j \in 1..n : j > qs}}
    BY <1>2, <1>4, <2>2
  <2>3. ASSUME NEW i \in 1..n, i > qs
        PROVE  B[i] \in {D[k] : k \in {j \in 1..(n - 1) : j > qs - 1}}
    <3>1. i - 1 \in 1..(n - 1) /\ i - 1 > qs - 1 /\ D[i - 1] = B[i]
      BY <1>2, <1>4, <2>3
    <3> QED
      BY <3>1
  <2> QED
    BY <2>1, <2>2, <2>3
<1>7. Early(B, qs) \ {B[1]} = {B[i] : i \in {j \in 1..n : j <= qs /\ j # 1}}
  BY <1>1, <1>3 DEF Early, n
<1>8. B[1] \in Early(B, qs)
  BY <1>1 DEF Early, n
<1> QED
  BY <1>5, <1>6, <1>7, <1>8 DEF D

(* The run at p and the one at q are in order, p's was ahead of q's, and    *)
(* after q's there are runs of w.                                           *)
Ready(pos, w, A, B, qs) ==
  /\ \A i, j \in 1..Len(A) : i < j => Prior(pos, A[i], A[j])
  /\ \A i, j \in 1..Len(B) : i < j /\ j <= qs => Prior(pos, B[i], B[j])
  /\ \A i \in 1..Len(A), j \in 1..Len(B) : j <= qs => pos[A[i]] < pos[B[j]]
  /\ Runs(pos, B, qs, Len(B), w)

(* The merge began at a cut m, and ends at the next if the list goes on.    *)
Tally(m, v, E, A, B, qs, n) ==
  /\ m \in Cuts(v) /\ m <= Len(E)
  /\ Len(E) + Len(A) + Len(B) = n
  /\ Len(E) + Len(A) + qs <= m + v
  /\ B # <<>> => Len(E) + Len(A) + qs = m + v

(* A merge that does what a stable sort needs. *)
Stable(pos, m, w, E, A, B, qs, n) ==
  /\ Kept(pos, m, 2 * w, E, Members(A) \cup Early(B, qs), Late(B, qs))
  /\ Ready(pos, w, A, B, qs)
  /\ Tally(m, 2 * w, E, A, B, qs, n)

(* Of two runs the first item of p's is the next, unless q's ranks lower.   *)
LEMMA ReadyP ==
  ASSUME NEW pos \in [Items -> Nat], NEW w, NEW A \in Seq(Items), NEW B \in Seq(Items),
         NEW qs \in Nat, Ready(pos, w, A, B, qs), Distinct(A), A # <<>>,
         qs # 0 /\ B # <<>> => ~(Rank[A[1]] > Rank[B[1]])
  PROVE  /\ \A x \in Members(A) \cup Early(B, qs) : x # A[1] => Prior(pos, A[1], x)
         /\ Ready(pos, w, Del(A, 1), B, qs)
<1> DEFINE e == A[1]
           n == Len(A)
           N == Len(B)
           D == Del(A, 1)
<1>1. /\ n \in Nat /\ 1 \in 1..n /\ e \in Items /\ \A i \in 1..n : A[i] \in Items
      /\ N \in Nat /\ \A i \in 1..N : B[i] \in Items /\ (B # <<>> <=> N # 0)
      /\ Len(D) = n - 1
  BY EndFacts, DelFacts
<1>2. \A i \in 1..(n - 1) : D[i] = A[i + 1]
  BY DEF Del
<1>3. /\ \A i, j \in 1..n : i < j => Prior(pos, A[i], A[j])
      /\ \A i, j \in 1..N : i < j /\ j <= qs => Prior(pos, B[i], B[j])
      /\ \A i \in 1..n, j \in 1..N : j <= qs => pos[A[i]] < pos[B[j]]
      /\ Runs(pos, B, qs, N, w)
  BY DEF Ready
<1> HIDE DEF n, N, D, e
<1>4. \A i \in 1..n : A[i] # e => Prior(pos, e, A[i])
  <2>1. \A i \in 1..n : i = 1 \/ 1 < i
    BY <1>1
  <2> QED
    BY <1>1, <1>3, <2>1 DEF e
<1>5. ASSUME NEW j \in 1..N, j <= qs PROVE Prior(pos, e, B[j])
  <2>1. 1 \in 1..N /\ 1 <= qs /\ qs # 0 /\ B # <<>> /\ B[1] \in Items /\ (j = 1 \/ 1 < j)
    BY <1>1, <1>5
  <2>2. pos[e] < pos[B[1]] /\ Rank[e] \in Int /\ Rank[B[1]] \in Int /\ ~(Rank[e] > Rank[B[1]])
    BY <1>1, <1>3, <2>1, UthashAssumption DEF e
  <2>3. Prior(pos, e, B[1])
    <3>1. Rank[e] <= Rank[B[1]]
      BY <2>2
    <3> QED
      BY <1>1, <2>1, <2>2, <3>1, PriorFacts
  <2>4. CASE 1 < j
    <3>1. Prior(pos, B[1], B[j]) /\ B[j] \in Items
      BY <1>1, <1>3, <1>5, <2>1, <2>4
    <3> QED
      BY <1>1, <2>1, <2>3, <3>1, PriorFacts
  <2> QED
    BY <2>1, <2>3, <2>4
<1>6. \A x \in Members(A) \cup Early(B, qs) : x # e => Prior(pos, e, x)
  BY <1>4, <1>5 DEF Members, Early, n, N
<1>7. Ready(pos, w, D, B, qs)
  <2>1. \A i \in 1..(n - 1) : i + 1 \in 1..n
    BY <1>1
  <2>2. \A i, j \in 1..(n - 1) : i < j => i + 1 < j + 1
    BY <1>1
  <2>3. \A i, j \in 1..(n - 1) : i < j => Prior(pos, D[i], D[j])
    BY <1>2, <1>3, <2>1, <2>2
  <2>4. \A i \in 1..(n - 1), j \in 1..N : j <= qs => pos[D[i]] < pos[B[j]]
    BY <1>2, <1>3, <2>1
  <2> QED
    BY <1>1, <1>3, <2>3, <2>4 DEF Ready, N
<1> QED
  BY <1>6, <1>7 DEF D, e

(* The first item of q's is the next, if it ranks lower.                    *)
LEMMA ReadyQ ==
  ASSUME NEW pos \in [Items -> Nat], NEW w \in Nat \ {0}, NEW A \in Seq(Items), NEW B \in Seq(Items),
         NEW qs \in Nat, Ready(pos, w, A, B, qs), Distinct(B), B # <<>>, qs # 0,
         A # <<>> => Rank[A[1]] > Rank[B[1]]
  PROVE  /\ \A x \in Members(A) \cup Early(B, qs) : x # B[1] => Prior(pos, B[1], x)
         /\ Ready(pos, w, A, Del(B, 1), qs - 1)
<1> DEFINE e == B[1]
           n == Len(A)
           N == Len(B)
           D == Del(B, 1)
<1>1. /\ N \in Nat /\ 1 \in 1..N /\ e \in Items /\ \A i \in 1..N : B[i] \in Items
      /\ n \in Nat /\ \A i \in 1..n : A[i] \in Items /\ (A # <<>> <=> n # 0)
      /\ Len(D) = N - 1 /\ 1 <= qs
  <2>1. 1 <= qs
    OBVIOUS
  <2> QED
    BY <2>1, EndFacts, DelFacts
<1>2. \A i \in 1..(N - 1) : D[i] = B[i + 1]
  BY DEF Del
<1>3. /\ \A i, j \in 1..n : i < j => Prior(pos, A[i], A[j])
      /\ \A i, j \in 1..N : i < j /\ j <= qs => Prior(pos, B[i], B[j])
      /\ \A i \in 1..n, j \in 1..N : j <= qs => pos[A[i]] < pos[B[j]]
      /\ Runs(pos, B, qs, N, w)
  BY DEF Ready
<1> HIDE DEF n, N, D, e
<1>4. ASSUME NEW i \in 1..n PROVE Prior(pos, e, A[i])
  <2>1. 1 \in 1..n /\ A # <<>> /\ A[1] \in Items /\ (i = 1 \/ 1 < i)
    BY <1>1
  <2>2. Rank[e] \in Int /\ Rank[A[1]] \in Int /\ Rank[A[1]] > Rank[e]
    BY <1>1, <2>1, UthashAssumption DEF e
  <2>3. Prior(pos, e, A[1])
    <3>1. ~(Rank[A[1]] <= Rank[e])
      BY <2>2
    <3> QED
      BY <1>1, <2>1, <3>1, PriorFacts
  <2>4. CASE 1 < i
    <3>1. Prior(pos, A[1], A[i]) /\ A[i] \in Items
      BY <1>1, <1>3, <2>1, <2>4
    <3> QED
      BY <1>1, <2>1, <2>3, <3>1, PriorFacts
  <2> QED
    BY <2>1, <2>3, <2>4
<1>5. \A j \in 1..N : j <= qs /\ B[j] # e => Prior(pos, e, B[j])
  <2>1. \A i \in 1..N : i = 1 \/ 1 < i
    BY <1>1
  <2> QED
    BY <1>1, <1>3, <2>1 DEF e
<1>6. \A x \in Members(A) \cup Early(B, qs) : x # e => Prior(pos, e, x)
  BY <1>4, <1>5 DEF Members, Early, n, N
<1>7. Ready(pos, w, A, D, qs - 1)
  <2>1. \A i \in 1..(N - 1) : i + 1 \in 1..N /\ (i <= qs - 1 <=> i + 1 <= qs)
                              /\ (qs - 1 < i <=> qs < i + 1)
    BY <1>1
  <2>2. \A i, j \in 1..(N - 1) : i < j => i + 1 < j + 1
    BY <1>1
  <2>3. Runs(pos, D, qs - 1, N - 1, w)
    <3> SUFFICES ASSUME NEW i \in 1..(N - 1), NEW j \in 1..(N - 1), NEW c \in Cuts(w),
                        qs - 1 < i, i < j
                 PROVE  /\ i <= (qs - 1) + c /\ (qs - 1) + c < j => pos[D[i]] < pos[D[j]]
                        /\ (qs - 1) + c < i /\ j <= (qs - 1) + c + w => Prior(pos, D[i], D[j])
      BY <1>1 DEF Runs
    <3>1. c \in Nat /\ w \in Nat
      BY CutFacts
    <3>2. /\ i + 1 \in 1..N /\ j + 1 \in 1..N /\ qs < i + 1 /\ i + 1 < j + 1 /\ j + 1 <= N
          /\ i <= (qs - 1) + c => i + 1 <= qs + c
          /\ (qs - 1) + c < j => qs + c < j + 1
          /\ (qs - 1) + c < i => qs + c < i + 1
          /\ j <= (qs - 1) + c + w => j + 1 <= qs + c + w
      BY <1>1, <3>1
    <3>3. /\ i + 1 <= qs + c /\ qs + c < j + 1 => pos[B[i + 1]] < pos[B[j + 1]]
          /\ qs + c < i + 1 /\ j + 1 <= qs + c + w => Prior(pos, B[i + 1], B[j + 1])
      BY <1>3, <3>2 DEF Runs, N
    <3> QED
      BY <1>2, <3>2, <3>3
  <2>4. \A i, j \in 1..(N - 1) : i < j /\ j <= qs - 1 => Prior(pos, D[i], D[j])
    BY <1>2, <1>3, <2>1, <2>2
  <2>5. \A i \in 1..n, j \in 1..(N - 1) : j <= qs - 1 => pos[A[i]] < pos[D[j]]
    BY <1>2, <1>3, <2>1
  <2> QED
    BY <1>1, <1>3, <2>3, <2>4, <2>5 DEF Ready, n
<1> QED
  BY <1>6, <1>7 DEF D, e

(* Taking the first item of the run at p leaves a stable merge, *)
LEMMA StableP ==
  ASSUME NEW pos \in [Items -> Nat], NEW w \in Nat \ {0}, NEW m, NEW n, NEW qs \in Nat,
         NEW E \in Seq(Items), NEW A \in Seq(Items), NEW B \in Seq(Items),
         Stable(pos, m, w, E, A, B, qs, n), Distinct(A), A # <<>>,
         Members(A) \cap Members(B) = {},
         qs # 0 /\ B # <<>> => ~(Rank[A[1]] > Rank[B[1]])
  PROVE  Stable(pos, m, w, Ins(E, Len(E) + 1, A[1]), Del(A, 1), B, qs, n)
<1> DEFINE e == A[1]
           D == Del(A, 1)
           U == Members(A) \cup Early(B, qs)
           R == Late(B, qs)
           E2 == Ins(E, Len(E) + 1, e)
           v == 2 * w
<1>1. Kept(pos, m, v, E, U, R) /\ Ready(pos, w, A, B, qs) /\ Tally(m, v, E, A, B, qs, n)
  BY DEF Stable
<1>2. v \in Nat \ {0}
  OBVIOUS
<1> HIDE DEF v
<1>3. m \in Nat /\ m <= Len(E)
  BY <1>1, <1>2, CutFacts DEF Tally
<1>4. e \in Items /\ e \in Members(A) /\ e \in U /\ 1 \in 1..Len(A)
  BY EndFacts
<1>5. Len(D) = Len(A) - 1 /\ Members(D) = Members(A) \ {e} /\ D \in Seq(Items)
  BY <1>4, DelFacts
<1>6. Early(B, qs) \subseteq Members(B)
  BY DEF Early, Members
<1>7. U \ {e} = Members(D) \cup Early(B, qs)
  BY <1>4, <1>5, <1>6
<1>8. (\A x \in U : x # e => Prior(pos, e, x)) /\ Ready(pos, w, D, B, qs)
  BY <1>1, ReadyP
<1>9. Kept(pos, m, v, E2, U \ {e}, R)
  <2> HIDE DEF U, R, e
  <2> QED
    BY <1>1, <1>3, <1>4, <1>8, KeptOn DEF e
<1>10. Tally(m, v, E2, D, B, qs, n)
  <2>1. Len(E2) = Len(E) + 1
    BY <1>4, EndFacts, InsFacts
  <2>2. Len(E) \in Nat /\ Len(A) \in Nat /\ Len(B) \in Nat
    BY EndFacts
  <2> DEFINE x == Len(E)
             y == Len(A)
  <2>3. m <= x + 1 /\ (x + 1) + (y - 1) = x + y
    BY <1>3, <2>2
  <2> QED
    BY <1>1, <1>5, <2>1, <2>3 DEF Tally
<1> QED
  BY <1>7, <1>8, <1>9, <1>10 DEF Stable, v

(* and so does taking that of the run at q. *)
LEMMA StableQ ==
  ASSUME NEW pos \in [Items -> Nat], NEW w \in Nat \ {0}, NEW m, NEW n, NEW qs \in Nat,
         NEW E \in Seq(Items), NEW A \in Seq(Items), NEW B \in Seq(Items),
         Stable(pos, m, w, E, A, B, qs, n), Distinct(B), B # <<>>, qs # 0,
         Members(A) \cap Members(B) = {},
         A # <<>> => Rank[A[1]] > Rank[B[1]]
  PROVE  Stable(pos, m, w, Ins(E, Len(E) + 1, B[1]), A, Del(B, 1), qs - 1, n)
<1> DEFINE e == B[1]
           D == Del(B, 1)
           U == Members(A) \cup Early(B, qs)
           R == Late(B, qs)
           E2 == Ins(E, Len(E) + 1, e)
           v == 2 * w
<1>1. Kept(pos, m, v, E, U, R) /\ Ready(pos, w, A, B, qs) /\ Tally(m, v, E, A, B, qs, n)
  BY DEF Stable
<1>2. v \in Nat \ {0}
  OBVIOUS
<1> HIDE DEF v
<1>3. m \in Nat /\ m <= Len(E)
  BY <1>1, <1>2, CutFacts DEF Tally
<1>4. e \in Items /\ e \in Members(B) /\ 1 \in 1..Len(B)
  BY EndFacts
<1>5. Len(D) = Len(B) - 1 /\ D \in Seq(Items)
  BY <1>4, DelFacts
<1>6. e \in Early(B, qs) /\ Early(D, qs - 1) = Early(B, qs) \ {e} /\ Late(D, qs - 1) = R
  BY EarlyOff
<1>7. e \in U /\ U \ {e} = Members(A) \cup Early(D, qs - 1)
  BY <1>4, <1>6
<1>8. (\A x \in U : x # e => Prior(pos, e, x)) /\ Ready(pos, w, A, D, qs - 1)
  BY <1>1, ReadyQ
<1>9. Kept(pos, m, v, E2, U \ {e}, R)
  <2> HIDE DEF U, R, e
  <2> QED
    BY <1>1, <1>3, <1>4, <1>7, <1>8, KeptOn DEF e
<1>10. Tally(m, v, E2, A, D, qs - 1, n)
  <2>1. Len(E2) = Len(E) + 1
    BY <1>4, EndFacts, InsFacts
  <2>2. Len(E) \in Nat /\ Len(A) \in Nat /\ Len(B) \in Nat
    BY EndFacts
  <2> DEFINE x == Len(E)
             y == Len(A)
             z == Len(B)
  <2>3. m <= x + 1 /\ (x + 1) + y + (z - 1) = x + y + z /\ (x + 1) + y + (qs - 1) = x + y + qs
    BY <1>3, <2>2
  <2> QED
    BY <1>1, <1>5, <2>1, <2>3 DEF Tally
<1> QED
  BY <1>6, <1>7, <1>8, <1>9, <1>10 DEF Stable, v

(* A merge that has ended has made one run of two, and B goes on in runs of *)
(* w.                                                                       *)
LEMMA StableEnd ==
  ASSUME NEW pos, NEW w \in Nat \ {0}, NEW m, NEW n, NEW qs \in Nat,
         NEW E \in Seq(Items), NEW B \in Seq(Items),
         Stable(pos, m, w, E, <<>>, B, qs, n), qs = 0 \/ B = <<>>
  PROVE  /\ Runs(pos, E, 0, Len(E), 2 * w)
         /\ \A x \in Members(E), y \in Members(B) : pos[x] < pos[y]
         /\ Runs(pos, B, 0, Len(B), w)
         /\ m \in Cuts(2 * w) /\ Len(E) + Len(B) = n /\ Len(E) <= m + 2 * w
         /\ B # <<>> => Len(E) = m + 2 * w
<1> DEFINE U == Members(<<>>) \cup Early(B, qs)
           R == Late(B, qs)
           v == 2 * w
           N == Len(E)
<1>1. Kept(pos, m, v, E, U, R) /\ Ready(pos, w, <<>>, B, qs) /\ Tally(m, v, E, <<>>, B, qs, n)
  BY DEF Stable
<1>2. v \in Nat \ {0}
  OBVIOUS
<1> HIDE DEF v
<1>3. N \in Nat /\ Len(B) \in Nat /\ Len(<<>>) = 0 /\ (B = <<>> => Len(B) = 0)
  BY EndFacts
<1>4. /\ m \in Cuts(v) /\ m \in Nat /\ m <= N /\ N + Len(B) = n /\ N + qs <= m + v
      /\ B # <<>> => N + qs = m + v
  <2>1. m \in Nat
    BY <1>1, <1>2, CutFacts DEF Tally
  <2>2. /\ m \in Cuts(v) /\ m <= N /\ N + 0 + Len(B) = n /\ N + 0 + qs <= m + v
        /\ B # <<>> => N + 0 + qs = m + v
    BY <1>1, <1>3 DEF Tally
  <2>3. N + 0 = N
    BY <1>3
  <2> QED
    BY <2>1, <2>2, <2>3
<1>5. N <= m + v /\ (B # <<>> => N = m + v)
  BY <1>2, <1>3, <1>4
<1>6. Runs(pos, E, 0, N, v)
  <2> SUFFICES ASSUME NEW i \in 1..N, NEW j \in 1..N, NEW c \in Cuts(v), i < j
               PROVE  /\ i <= c /\ c < j => pos[E[i]] < pos[E[j]]
                      /\ c < i /\ j <= c + v => Prior(pos, E[i], E[j])
    <3>1. \A c \in Cuts(v) : c \in Nat /\ 0 + c = c
      BY <1>2, CutFacts
    <3> QED
      BY <3>1 DEF Runs
  <2>1. c \in Nat /\ (m <= c \/ m >= c + v) /\ (c <= m \/ c >= m + v)
    BY <1>2, <1>4, CutFacts
  <2>2. /\ Runs(pos, E, 0, m, v)
        /\ i <= m /\ m < j => pos[E[i]] < pos[E[j]]
        /\ m < i => Prior(pos, E[i], E[j])
    BY <1>1 DEF Kept
  <2>3. CASE j <= m
    <3>1. 0 < i /\ 0 + c = c
      BY <2>1
    <3> QED
      BY <2>2, <2>3, <3>1 DEF Runs
  <2>4. CASE i <= m /\ m < j
    <3>1. ~(c < i /\ j <= c + v)
      BY <1>2, <1>4, <2>1, <2>4
    <3> QED
      BY <2>2, <2>4, <3>1
  <2>5. CASE m < i
    <3>1. ~(i <= c /\ c < j)
      BY <1>2, <1>3, <1>4, <1>5, <2>1, <2>5
    <3> QED
      BY <2>2, <2>5, <3>1
  <2> QED
    BY <1>3, <1>4, <2>3, <2>4, <2>5
<1>7. \A x \in Members(E), y \in Members(B) : pos[x] < pos[y]
  <2> SUFFICES ASSUME NEW i \in 1..N, NEW j \in 1..Len(B) PROVE pos[E[i]] < pos[B[j]]
    BY DEF Members
  <2>1. qs = 0 /\ j > qs
    BY <1>3
  <2>2. B[j] \in R
    BY <2>1 DEF Late
  <2> QED
    BY <1>1, <2>2 DEF Kept
<1>8. Runs(pos, B, 0, Len(B), w)
  <2>1. CASE qs = 0
    BY <1>1, <2>1 DEF Ready
  <2>2. CASE B = <<>>
    <3>1. \A i \in 1..Len(B) : FALSE
      BY <1>3, <2>2
    <3> QED
      BY <3>1 DEF Runs
  <2> QED
    BY <2>1, <2>2
<1> QED
  BY <1>4, <1>5, <1>6, <1>7, <1>8 DEF v

(* The next merge: of the k items at the front of what is ahead and of the  *)
(* w that come next.                                                        *)
LEMMA StableStart ==
  ASSUME NEW pos, NEW w \in Nat \ {0}, NEW n,
         NEW E \in Seq(Items), NEW L \in Seq(Items), NEW A \in Seq(Items), NEW B \in Seq(Items),
         Runs(pos, E, 0, Len(E), 2 * w), Runs(pos, L, 0, Len(L), w),
         \A x \in Members(E), y \in Members(L) : pos[x] < pos[y],
         Len(E) \in Cuts(2 * w), Len(E) + Len(L) = n,
         NEW k \in Nat, IF Len(L) > w THEN k = w ELSE k = Len(L),
         Len(A) = k, \A i \in 1..k : A[i] = L[i],
         Len(B) = Len(L) - k, \A i \in 1..(Len(L) - k) : B[i] = L[i + k]
  PROVE  Stable(pos, Len(E), w, E, A, B, w, n)
<1> DEFINE N == Len(L)
           m == Len(E)
           v == 2 * w
           U == Members(A) \cup Early(B, w)
           R == Late(B, w)
<1>1. /\ N \in Nat /\ m \in Nat /\ w \in Nat /\ v \in Nat /\ k <= w /\ k <= N /\ (N > k => k = w)
      /\ \A i \in 1..N : L[i] \in Members(L)
      /\ \A i \in 1..m : E[i] \in Members(E)
  <2>1. N \in Nat /\ m \in Nat
    BY EndFacts
  <2> QED
    BY <2>1, EndFacts
<1>2. w \in Cuts(w) /\ 0 \in Cuts(w) /\ \A c \in Cuts(w) : c \in Nat /\ c + w \in Cuts(w)
  <2>1. 0 \in Cuts(w) /\ \A c \in Cuts(w) : c \in Nat /\ c + w \in Cuts(w)
    BY CutFacts
  <2>2. 0 + w = w
    OBVIOUS
  <2> QED
    BY <2>1, <2>2
<1> HIDE DEF N, m, v
<1>3. \A i, j \in 1..N : i < j =>
        /\ \A c \in Cuts(w) : i <= c /\ c < j => pos[L[i]] < pos[L[j]]
        /\ \A c \in Cuts(w) : c < i /\ j <= c + w => Prior(pos, L[i], L[j])
  <2>1. \A i, j \in 1..N : 0 < i /\ (i < j => j <= N)
    BY <1>1
  <2>2. ASSUME NEW c \in Cuts(w) PROVE 0 + c = c
    <3>1. c \in Nat
      BY <1>2
    <3> QED
      BY <3>1
  <2> QED
    BY <2>1, <2>2 DEF Runs, N
<1>4. /\ \A i \in 1..k : i \in 1..N /\ A[i] = L[i] /\ i <= w
      /\ \A i \in 1..(N - k) : k = w /\ i + w \in 1..N /\ B[i] = L[i + w] /\ w < i + w
      /\ Len(A) = k /\ Len(B) = N - k
  <2>1. \A i \in 1..k : i \in 1..N /\ i <= w
    BY <1>1
  <2>2. \A i \in 1..(N - k) : k = w /\ i + w \in 1..N /\ w < i + w
    BY <1>1
  <2> QED
    BY <2>1, <2>2 DEF N
<1>5. Kept(pos, m, v, E, U, R)
  <2>1. Runs(pos, E, 0, m, v)
    BY DEF m, v
  <2>2. \A i \in 1..m : i <= m /\ ~(m < i)
    BY <1>1
  <2>3. U \subseteq Members(L) /\ R \subseteq Members(L)
    <3>1. \A i \in 1..k : A[i] \in Members(L)
      BY <1>1, <1>4
    <3>2. \A i \in 1..(N - k) : B[i] \in Members(L)
      BY <1>1, <1>4
    <3>3. Members(A) \subseteq Members(L)
      BY <1>4, <3>1 DEF Members
    <3>4. Early(B, w) \subseteq Members(L)
      BY <1>4, <3>2 DEF Early
    <3>5. Late(B, w) \subseteq Members(L)
      BY <1>4, <3>2 DEF Late
    <3> QED
      BY <3>3, <3>4, <3>5
  <2>4. ASSUME NEW i \in 1..m, NEW x \in Members(L) PROVE pos[E[i]] < pos[x]
    <3>1. E[i] \in Members(E)
      BY <1>1
    <3> QED
      BY <3>1
  <2>5. ASSUME NEW x \in U, NEW y \in R PROVE pos[x] < pos[y]
    <3>1. PICK j \in 1..(N - k) : j > w /\ y = B[j]
      BY <1>4 DEF Late
    <3>2. k = w /\ j + w \in 1..N /\ y = L[j + w]
      BY <1>4, <3>1
    <3>3. PICK i \in 1..N : i <= w + w /\ x = L[i]
      <4>1. CASE x \in Members(A)
        <5>1. PICK i \in 1..k : x = A[i]
          BY <1>4, <4>1 DEF Members
        <5>2. i \in 1..N /\ i <= w + w /\ x = L[i]
          BY <1>1, <1>4, <5>1
        <5> QED
          BY <5>2
      <4>2. CASE x \in Early(B, w)
        <5>1. PICK i \in 1..(N - k) : i <= w /\ x = B[i]
          BY <1>4, <4>2 DEF Early
        <5>2. i + w \in 1..N /\ i + w <= w + w /\ x = L[i + w]
          BY <1>1, <1>4, <5>1
        <5> QED
          BY <5>2
      <4> QED
        BY <4>1, <4>2
    <3>4. w + w \in Cuts(w)
      BY <1>2
    <3>5. w + w < j + w /\ i < j + w
      BY <1>1, <3>1, <3>3
    <3> QED
      BY <1>3, <3>2, <3>3, <3>4, <3>5
  <2>6. /\ \A i, j \in 1..Len(E) :
             i < j => /\ i <= m /\ m < j => pos[E[i]] < pos[E[j]]
                      /\ m < i => Prior(pos, E[i], E[j])
        /\ \A i \in 1..Len(E) :
             /\ \A x \in U : IF i <= m THEN pos[E[i]] < pos[x] ELSE Prior(pos, E[i], x)
             /\ \A y \in R : pos[E[i]] < pos[y]
    <3> HIDE DEF U, R
    <3> QED
      BY <2>2, <2>3, <2>4 DEF m
  <2> HIDE DEF U, R
  <2> QED
    BY <2>1, <2>5, <2>6 DEF Kept
<1>6. Ready(pos, w, A, B, w)
  <2>1. ASSUME NEW i \in 1..k, NEW j \in 1..k, i < j PROVE Prior(pos, A[i], A[j])
    <3>1. 0 < i /\ j <= 0 + w
      BY <1>1
    <3> QED
      BY <1>2, <1>3, <1>4, <2>1, <3>1
  <2>2. ASSUME NEW i \in 1..(N - k), NEW j \in 1..(N - k), i < j, j <= w
        PROVE  Prior(pos, B[i], B[j])
    <3>1. w < i + w /\ j + w <= w + w /\ i + w < j + w
      BY <1>1, <2>2
    <3> QED
      BY <1>2, <1>3, <1>4, <3>1
  <2>3. ASSUME NEW i \in 1..k, NEW j \in 1..(N - k) PROVE pos[A[i]] < pos[B[j]]
    <3>1. i <= w /\ w < j + w /\ i < j + w
      BY <1>1
    <3> QED
      BY <1>2, <1>3, <1>4, <3>1
  <2>4. Runs(pos, B, w, N - k, w)
    <3> SUFFICES ASSUME NEW i \in 1..(N - k), NEW j \in 1..(N - k), NEW c \in Cuts(w), w < i, i < j
                 PROVE  /\ i <= w + c /\ w + c < j => pos[B[i]] < pos[B[j]]
                        /\ w + c < i /\ j <= w + c + w => Prior(pos, B[i], B[j])
      BY <1>4 DEF Runs
    <3> DEFINE d == c + w + w
    <3>1. d \in Cuts(w) /\ c \in Nat
      BY <1>2
    <3>2. /\ i + w < j + w
          /\ i <= w + c => i + w <= d
          /\ w + c < j => d < j + w
          /\ w + c < i => d < i + w
          /\ j <= w + c + w => j + w <= d + w
      BY <1>1, <3>1
    <3> HIDE DEF d
    <3> QED
      BY <1>3, <1>4, <3>1, <3>2
  <2> QED
    BY <1>4, <2>1, <2>2, <2>3, <2>4 DEF Ready
<1>7. Tally(m, v, E, A, B, w, n)
  <2>1. m \in Cuts(v) /\ m + N = n
    BY DEF m, v, N
  <2>2. B # <<>> => N > k
    <3>1. B # <<>> => N - k # 0
      BY <1>4, EndFacts
    <3> QED
      BY <1>1, <3>1
  <2>3. /\ m <= m /\ m + k + (N - k) = m + N
        /\ m + k + w <= m + v /\ (k = w => m + k + w = m + v)
    BY <1>1 DEF v
  <2> QED
    BY <1>1, <1>4, <2>1, <2>2, <2>3 DEF Tally, m
<1> QED
  BY <1>5, <1>6, <1>7 DEF Stable, m, v

(* Where an item is in a list. *)
PlaceIn(l) ==
  [x \in Items |-> IF x \in Members(l) THEN CHOOSE i \in 1..Len(l) : l[i] = x ELSE 0]

(* Each item of a list without repetitions is in its place. *)
LEMMA PlaceFacts ==
  ASSUME NEW l \in Seq(Items), Distinct(l)
  PROVE  PlaceIn(l) \in [Items -> Nat] /\ \A i \in 1..Len(l) : PlaceIn(l)[l[i]] = i
<1>1. Len(l) \in Nat /\ \A i \in 1..Len(l) : l[i] \in Items /\ l[i] \in Members(l)
  BY EndFacts
<1>2. ASSUME NEW i \in 1..Len(l) PROVE PlaceIn(l)[l[i]] = i
  <2>1. PlaceIn(l)[l[i]] = CHOOSE j \in 1..Len(l) : l[j] = l[i]
    BY <1>1 DEF PlaceIn
  <2>2. \A j \in 1..Len(l) : l[j] = l[i] => j = i
    BY DEF Distinct
  <2> QED
    BY <2>1, <2>2
<1>3. ASSUME NEW x \in Items PROVE PlaceIn(l)[x] \in Nat
  <2>1. CASE x \in Members(l)
    BY <1>1, <1>2, <2>1 DEF Members
  <2>2. CASE x \notin Members(l)
    BY <2>2 DEF PlaceIn
  <2> QED
    BY <2>1, <2>2
<1> QED
  BY <1>2, <1>3 DEF PlaceIn

(* A list is made of runs of 1, and one that is a run is in order. *)
LEMMA RunFacts ==
  ASSUME NEW l \in Seq(Items), Distinct(l)
  PROVE  /\ Runs(PlaceIn(l), l, 0, Len(l), 1)
         /\ \A q \in Seq(Items), w \in Nat \ {0} :
              Runs(PlaceIn(l), q, 0, Len(q), w) /\ Len(q) <= w =>
                \A i, j \in 1..Len(q) : i < j => Prior(PlaceIn(l), q[i], q[j])
<1> DEFINE pos == PlaceIn(l)
           n == Len(l)
<1>1. n \in Nat /\ \A i \in 1..n : pos[l[i]] = i
  BY PlaceFacts, EndFacts
<1> HIDE DEF pos, n
<1>2. Runs(pos, l, 0, n, 1)
  <2>1. ASSUME NEW i \in 1..n, NEW j \in 1..n, NEW c \in Nat, i < j
        PROVE  ~(0 + c < i /\ j <= 0 + c + 1)
    BY <1>1, <2>1
  <2>2. \A i, j \in 1..n : i < j => pos[l[i]] < pos[l[j]]
    BY <1>1
  <2>3. \A c \in Cuts(1) : c \in Nat
    BY CutFacts
  <2> QED
    BY <1>1, <2>1, <2>2, <2>3 DEF Runs, n
<1>3. ASSUME NEW q \in Seq(Items), NEW w \in Nat \ {0}, Runs(pos, q, 0, Len(q), w), Len(q) <= w,
             NEW i \in 1..Len(q), NEW j \in 1..Len(q), i < j
      PROVE  Prior(pos, q[i], q[j])
  <2>1. Len(q) \in Nat /\ 0 \in Cuts(w)
    BY EndFacts, CutFacts
  <2>2. 0 < i /\ j <= Len(q) /\ 0 + 0 < i /\ j <= 0 + 0 + w
    BY <1>3, <2>1
  <2> QED
    BY <1>3, <2>1, <2>2 DEF Runs
<1> QED
  BY <1>2, <1>3 DEF pos, n

----------------------------------------------------------------------------
(* The mergesort *)

(* HASH_SRT: where a merge is.  E has been emitted, its last item linked    *)
(* backwards only; A is what is left of the run at p, which may link on to  *)
(* anything; B is the list from q on.                                       *)
Sorting ==
  [p : Ptr \cup {Wild}, q : Ptr, list : Ptr, tail : Ptr, psize : Nat, qsize : Nat,
   insize : Nat \ {0}, nmerges : Nat, looping : BOOLEAN, prev : Field, next : Field]

(* What has been emitted is strung, once its end is made to be one. *)
Emitted(s, E) ==
  Strung(s.prev, Put(s.next, s.tail, NULL), E, s.list) /\ s.tail = LastOf(E)

(* A run from p on: where its last item leads does not matter. *)
Chunk(fw, A, p) ==
  /\ A \in Seq(Items) /\ Distinct(A)
  /\ A # <<>> => p = A[1]
  /\ \A i \in 1..Len(A) : i # Len(A) => fw[A[i]] = A[i + 1]

(* What is left of the list, from q to its end. *)
Ahead(fw, B, q) == B \in Seq(Items) /\ Distinct(B) /\ Onward(fw, B, q)

(* Each item is in one of the three, and all of M is. *)
Split(E, A, B, M) ==
  /\ Members(E) \cap Members(A) = {} /\ Members(E) \cap Members(B) = {}
  /\ Members(A) \cap Members(B) = {}
  /\ M = Members(E) \cup Members(A) \cup Members(B)

(* What a merge does not change. *)
SamePass(s, r) == r.insize = s.insize /\ r.nmerges = s.nmerges

(* The tail is NULL just before anything is emitted. *)
LEMMA LastOfFacts ==
  ASSUME NEW E \in Seq(Items)
  PROVE  /\ LastOf(E) \in Ptr /\ (LastOf(E) = NULL <=> E = <<>>)
         /\ LastOf(E) # NULL => LastOf(E) \in Members(E)
         /\ \A e \in Items : LastOf(Ins(E, Len(E) + 1, e)) = e
<1>1. /\ E # <<>> => E[Len(E)] \in Items /\ E[Len(E)] \in Members(E)
      /\ Len(E) \in Nat /\ Len(E) + 1 \in 1..(Len(E) + 1)
  BY EndFacts
<1>2. ASSUME NEW e \in Items PROVE LastOf(Ins(E, Len(E) + 1, e)) = e
  <2> DEFINE n == Len(E) + 1
             F == Ins(E, n, e)
  <2>1. F \in Seq(Items) /\ Len(F) = n /\ ~(n < n) /\ n \in 1..n /\ n # 0
    BY <1>1, InsFacts
  <2>2. F[n] = e
    BY <2>1 DEF Ins
  <2> HIDE DEF F
  <2>3. F # <<>>
    BY <2>1, EmptySeq
  <2> QED
    BY <2>1, <2>2, <2>3 DEF LastOf, F
<1> QED
  BY <1>1, <1>2, UthashAssumption DEF LastOf, Ptr

(* Emitting an item touches no pointer of what has not been emitted. *)
LEMMA EmitIs ==
  ASSUME NEW s \in Sorting, NEW E, Emitted(s, E), NEW e \in Items, e \notin Members(E)
  PROVE  LET r == Emit(s, e)
         IN  /\ r \in Sorting /\ Emitted(r, Ins(E, Len(E) + 1, e))
             /\ Members(Ins(E, Len(E) + 1, e)) = Members(E) \cup {e}
             /\ \A x \in Items : x \notin Members(E) => r.next[x] = s.next[x]
             /\ r.p = s.p /\ r.q = s.q /\ r.psize = s.psize /\ r.qsize = s.qsize
             /\ SamePass(s, r)
<1> DEFINE last == s.tail
           bk == s.prev
           fw == Put(s.next, last, NULL)
           H == s.list
           bk2 == [bk EXCEPT ![e] = last]
           fw2 == Put([fw EXCEPT ![e] = NULL], last, e)
           fw3 == Put(s.next, last, e)
           E2 == Ins(E, Len(E) + 1, e)
           first == IF last = NULL THEN e ELSE H
           r == Emit(s, e)
<1>1. E \in Seq(Items) /\ Strung(bk, fw, E, H) /\ last = LastOf(E)
  BY DEF Emitted, Strung
<1>2. last \in Ptr /\ H \in Ptr /\ s.next \in Field /\ bk \in Field /\ e \in Ptr /\ e # NULL
  BY UthashAssumption DEF Sorting, Ptr
<1>3. (last = NULL <=> E = <<>>) /\ (last # NULL => last \in Members(E)) /\ last # e
  BY <1>1, <1>2, LastOfFacts
<1> HIDE DEF last
<1>4. fw \in Field /\ fw3 \in Field
  BY <1>2 DEF Field, Put, Ptr
<1>5. bk2 \in Field /\ fw2 \in Field /\ Strung(bk2, fw2, E2, IF E = <<>> THEN e ELSE H)
  <2>1. last = IF E = <<>> THEN NULL ELSE E[Len(E)]
    BY <1>1 DEF LastOf
  <2> HIDE DEF fw, bk, H, r
  <2> QED
    BY <1>1, <1>2, <1>4, <2>1, LinkLast
<1>6. E2 \in Seq(Items) /\ Members(E2) = Members(E) \cup {e} /\ LastOf(E2) = e
  <2>1. Len(E) + 1 \in 1..(Len(E) + 1)
    BY <1>1, EndFacts
  <2> QED
    BY <1>1, <2>1, InsFacts, LastOfFacts
<1>7. Put(fw3, e, NULL) = fw2
  <2>1. CASE last = NULL
    BY <1>2, <2>1 DEF Put
  <2>2. CASE last # NULL
    <3>1. last \in Items
      BY <1>2, <2>2 DEF Ptr
    <3>2. fw2 = [[[s.next EXCEPT ![last] = NULL] EXCEPT ![e] = NULL] EXCEPT ![last] = e]
      BY <2>2 DEF Put
    <3>3. Put(fw3, e, NULL) = [[s.next EXCEPT ![last] = e] EXCEPT ![e] = NULL]
      BY <1>2, <2>2 DEF Put
    <3> HIDE DEF fw2, fw3
    <3> QED
      BY <1>2, <1>3, <3>1, <3>2, <3>3 DEF Field
  <2> QED
    BY <2>1, <2>2
<1>8. r = [s EXCEPT !.next = fw3, !.prev = bk2, !.list = first, !.tail = e]
  <2>1. Put(bk, e, last) = bk2
    BY <1>2 DEF Put
  <2> HIDE DEF bk2
  <2> QED
    BY <2>1 DEF Emit, last, Sorting
<1>9. first \in Ptr /\ first = IF E = <<>> THEN e ELSE H
  BY <1>2, <1>3
<1>10. \A x \in Items : x \notin Members(E) => fw3[x] = s.next[x]
  <2>1. CASE last = NULL
    BY <2>1 DEF Put
  <2>2. CASE last # NULL
    BY <1>2, <1>3, <2>2 DEF Put, Field
  <2> QED
    BY <2>1, <2>2
<1> HIDE DEF fw2, fw3, bk2, first, r, E2
<1>11. /\ r \in Sorting /\ r.next = fw3 /\ r.prev = bk2 /\ r.list = first /\ r.tail = e
       /\ r.p = s.p /\ r.q = s.q /\ r.psize = s.psize /\ r.qsize = s.qsize
       /\ SamePass(s, r)
  BY <1>2, <1>4, <1>5, <1>8, <1>9 DEF Sorting, SamePass
<1>12. Emitted(r, E2)
  BY <1>5, <1>6, <1>7, <1>9, <1>11 DEF Emitted
<1> QED
  BY <1>6, <1>10, <1>11, <1>12 DEF r, E2

(* A run depends on the pointers of its own items only, *)
LEMMA ChunkSame ==
  ASSUME NEW fw, NEW fw2, NEW A, NEW p, Chunk(fw, A, p), \A x \in Members(A) : fw2[x] = fw[x]
  PROVE  Chunk(fw2, A, p)
<1>1. \A i \in 1..Len(A) : A[i] \in Members(A)
  BY DEF Members
<1> QED
  BY <1>1 DEF Chunk

(* and so does the rest of the list. *)
LEMMA AheadSame ==
  ASSUME NEW fw, NEW fw2, NEW B, NEW q, Ahead(fw, B, q), \A x \in Members(B) : fw2[x] = fw[x]
  PROVE  Ahead(fw2, B, q)
<1>1. \A i \in 1..Len(B) : B[i] \in Members(B)
  BY DEF Members
<1> QED
  BY <1>1 DEF Ahead, Onward

(* The first item off a run, or off the list ahead. *)
LEMMA ChunkOff ==
  ASSUME NEW fw, NEW A, NEW p, Chunk(fw, A, p), Len(A) # 0
  PROVE  /\ p \in Members(A) /\ p \in Items /\ Chunk(fw, Del(A, 1), fw[p])
         /\ Len(Del(A, 1)) = Len(A) - 1 /\ Members(Del(A, 1)) = Members(A) \ {p}
<1> DEFINE D == Del(A, 1)
           n == Len(A)
<1>1. A \in Seq(Items) /\ Distinct(A) /\ n \in Nat /\ A # <<>> /\ n # 0
  BY EndFacts DEF Chunk
<1>2. 1 \in 1..n /\ p = A[1] /\ p \in Items /\ p \in Members(A)
  BY <1>1, EndFacts DEF Chunk
<1>3. D \in Seq(Items) /\ Len(D) = n - 1 /\ Members(D) = Members(A) \ {p} /\ Distinct(D)
  BY <1>1, <1>2, DelFacts
<1>4. \A i \in 1..(n - 1) : D[i] = A[i + 1]
  BY DEF Del
<1>5. \A i \in 1..n : i # n => fw[A[i]] = A[i + 1]
  BY DEF Chunk
<1> HIDE DEF n, D
<1>6. D # <<>> => fw[p] = D[1]
  <2>1. D # <<>> => 1 # n /\ 1 \in 1..(n - 1)
    <3>1. D # <<>> => Len(D) # 0
      BY <1>3, EndFacts
    <3> QED
      BY <1>1, <1>3, <3>1
  <2> QED
    BY <1>2, <1>4, <1>5, <2>1
<1>7. \A i \in 1..(n - 1) : i # n - 1 => fw[D[i]] = D[i + 1]
  <2> TAKE i \in 1..(n - 1)
  <2> HAVE i # n - 1
  <2>1. i + 1 \in 1..(n - 1) /\ i + 1 \in 1..n /\ i + 1 # n
    BY <1>1
  <2> QED
    BY <1>4, <1>5, <2>1
<1>8. Chunk(fw, D, fw[p])
  BY <1>3, <1>6, <1>7 DEF Chunk
<1> QED
  BY <1>2, <1>3, <1>8 DEF D, n

(* The first item of the rest is taken off. *)
LEMMA AheadOff ==
  ASSUME NEW fw, NEW B, NEW q, Ahead(fw, B, q), q # NULL
  PROVE  /\ q \in Members(B) /\ q \in Items /\ Ahead(fw, Del(B, 1), fw[q]) /\ fw[q] \in Ptr
         /\ Len(Del(B, 1)) = Len(B) - 1 /\ Members(Del(B, 1)) = Members(B) \ {q}
         /\ Len(B) \in Nat
<1> DEFINE D == Del(B, 1)
           n == Len(B)
<1>1. B \in Seq(Items) /\ Distinct(B) /\ n \in Nat /\ B # <<>> /\ n # 0
  BY EndFacts DEF Ahead, Onward
<1>2. 1 \in 1..n /\ q = B[1] /\ q \in Items /\ q \in Members(B)
  BY <1>1, EndFacts DEF Ahead, Onward
<1>3. D \in Seq(Items) /\ Len(D) = n - 1 /\ Members(D) = Members(B) \ {q} /\ Distinct(D)
  BY <1>1, <1>2, DelFacts
<1>4. \A i \in 1..(n - 1) : D[i] = B[i + 1]
  BY DEF Del
<1>5. \A i \in 1..n : fw[B[i]] = IF i = n THEN NULL ELSE B[i + 1]
  BY DEF Ahead, Onward
<1> HIDE DEF n, D
<1>6. fw[q] = IF D = <<>> THEN NULL ELSE D[1]
  <2>1. D = <<>> <=> n = 1
    <3>1. D = <<>> <=> Len(D) = 0
      BY <1>3, EndFacts
    <3> QED
      BY <1>1, <1>3, <3>1
  <2>2. n # 1 => 1 \in 1..(n - 1)
    BY <1>1
  <2> QED
    BY <1>2, <1>4, <1>5, <2>1, <2>2
<1>7. \A i \in 1..(n - 1) : fw[D[i]] = IF i = n - 1 THEN NULL ELSE D[i + 1]
  <2> TAKE i \in 1..(n - 1)
  <2>1. i + 1 \in 1..n /\ (i + 1 = n <=> i = n - 1) /\ (i # n - 1 => i + 1 \in 1..(n - 1))
    BY <1>1
  <2> QED
    BY <1>4, <1>5, <2>1
<1>8. Ahead(fw, D, fw[q])
  BY <1>3, <1>6, <1>7 DEF Ahead, Onward
<1>9. fw[q] \in Ptr
  BY <1>3, <1>6, EndFacts DEF Ptr
<1> QED
  BY <1>1, <1>2, <1>3, <1>8, <1>9 DEF D, n

(* A merge of a pass over what was l before the sort.  The pass has emitted *)
(* E, from place m on in this merge, and A and B are left of its two runs;  *)
(* B goes on to the end of the list.                                        *)
Merging(s, l, b, m) ==
  \E E, A, B : /\ Emitted(s, E)
               /\ Chunk(s.next, A, s.p) /\ Len(A) = s.psize
               /\ Ahead(s.next, B, s.q) /\ Len(B) <= b
               /\ Split(E, A, B, Members(l))
               /\ Stable(PlaceIn(l), m, s.insize, E, A, B, s.qsize, Len(l))

(* Both runs have been emitted: the condition of the inner while fails. *)
Merged(s) == s.psize = 0 /\ ~QLeft(s)

(* An item is taken from the run at p, *)
LEMMA TakePIs ==
  ASSUME NEW s \in Sorting, NEW l \in Seq(Items), Distinct(l), NEW b \in Nat, NEW m,
         Merging(s, l, b, m), s.psize # 0, QLeft(s) => ~(Rank[s.p] > Rank[s.q])
  PROVE  LET r == TakeP(s)
         IN  /\ r \in Sorting /\ Merging(r, l, b, m) /\ SamePass(s, r)
             /\ r.psize = s.psize - 1 /\ r.qsize = s.qsize
<1> DEFINE M == Members(l)
           pos == PlaceIn(l)
           n == Len(l)
           w == s.insize
<1>1. PICK E, A, B : /\ Emitted(s, E)
                     /\ Chunk(s.next, A, s.p) /\ Len(A) = s.psize
                     /\ Ahead(s.next, B, s.q) /\ Len(B) <= b
                     /\ Split(E, A, B, M)
                     /\ Stable(pos, m, w, E, A, B, s.qsize, n)
  BY DEF Merging
<1> DEFINE e == s.p
           s1 == [s EXCEPT !.p = s.next[e], !.psize = @ - 1]
           A2 == Del(A, 1)
           E2 == Ins(E, Len(E) + 1, e)
           r == Emit(s1, e)
<1>2. TakeP(s) = r
  BY DEF TakeP
<1>3. s.psize \in Nat /\ s.next \in Field /\ s.psize - 1 \in Nat
  <2>1. s.psize \in Nat /\ s.next \in Field
    BY DEF Sorting
  <2> QED
    BY <2>1
<1>4. /\ e \in Members(A) /\ e \in Items /\ Chunk(s.next, A2, s.next[e])
      /\ Len(A2) = s.psize - 1 /\ Members(A2) = Members(A) \ {e}
  BY <1>1, ChunkOff
<1>5. s.next[e] \in Ptr \cup {Wild}
  BY <1>3, <1>4 DEF Field
<1> HIDE DEF e, A2
<1>6. /\ s1 \in Sorting /\ s1.prev = s.prev /\ s1.next = s.next /\ s1.tail = s.tail
      /\ s1.list = s.list /\ s1.p = s.next[e] /\ s1.q = s.q
      /\ s1.psize = s.psize - 1 /\ s1.qsize = s.qsize /\ SamePass(s, s1)
  BY <1>3, <1>5 DEF Sorting, SamePass
<1> HIDE DEF s1, E2
<1>7. Emitted(s1, E) /\ e \notin Members(E)
  BY <1>1, <1>4, <1>6 DEF Emitted, Split
<1>8. /\ r \in Sorting /\ Emitted(r, E2) /\ Members(E2) = Members(E) \cup {e}
      /\ \A x \in Items : x \notin Members(E) => r.next[x] = s1.next[x]
      /\ r.p = s1.p /\ r.q = s1.q /\ r.psize = s1.psize /\ r.qsize = s1.qsize
      /\ SamePass(s1, r)
  BY <1>4, <1>6, <1>7, EmitIs DEF E2
<1> HIDE DEF r
<1>9. Members(A) \subseteq Items /\ Members(B) \subseteq Items
  BY <1>1, MembersItems DEF Chunk, Ahead
<1>10. Chunk(r.next, A2, r.p)
  <2>1. \A x \in Members(A2) : r.next[x] = s.next[x]
    BY <1>1, <1>4, <1>6, <1>8, <1>9 DEF Split
  <2> QED
    BY <1>4, <1>6, <1>8, <2>1, ChunkSame
<1>11. Ahead(r.next, B, r.q)
  <2>1. \A x \in Members(B) : r.next[x] = s.next[x]
    BY <1>1, <1>6, <1>8, <1>9 DEF Split
  <2> QED
    BY <1>1, <1>6, <1>8, <2>1, AheadSame
<1>12. Split(E2, A2, B, M)
  BY <1>1, <1>4, <1>8 DEF Split
<1>13. Stable(pos, m, w, E2, A2, B, s.qsize, n)
  <2>1. pos \in [Items -> Nat]
    BY PlaceFacts
  <2>2. w \in Nat \ {0} /\ s.qsize \in Nat
    BY DEF Sorting
  <2>3. E \in Seq(Items) /\ A \in Seq(Items) /\ B \in Seq(Items) /\ Distinct(A)
    BY <1>1 DEF Emitted, Strung, Chunk, Ahead
  <2>4. A # <<>> /\ e = A[1]
    <3>1. A # <<>>
      BY <1>1, <2>3, EndFacts
    <3> QED
      BY <1>1, <3>1 DEF Chunk, e
  <2>5. s.qsize # 0 /\ B # <<>> => ~(Rank[A[1]] > Rank[B[1]])
    <3>1. B # <<>> => s.q = B[1] /\ s.q # NULL
      BY <1>1, <2>3, EndFacts, UthashAssumption DEF Ahead, Onward
    <3> QED
      BY <2>4, <3>1 DEF QLeft, e
  <2>6. Members(A) \cap Members(B) = {}
    BY <1>1 DEF Split
  <2> HIDE DEF pos, w, n
  <2>7. Stable(pos, m, w, Ins(E, Len(E) + 1, A[1]), Del(A, 1), B, s.qsize, n)
    BY <1>1, <2>1, <2>2, <2>3, <2>4, <2>5, <2>6, StableP
  <2> QED
    BY <2>4, <2>7 DEF E2, A2
<1>14. SamePass(s, r) /\ r.insize = w /\ r.qsize = s.qsize
  BY <1>6, <1>8 DEF SamePass
<1>15. Merging(r, l, b, m)
  BY <1>1, <1>4, <1>6, <1>8, <1>10, <1>11, <1>12, <1>13, <1>14 DEF Merging
<1> QED
  BY <1>2, <1>6, <1>8, <1>14, <1>15

(* or from the one at q: no item is lost or met twice. *)
LEMMA TakeQIs ==
  ASSUME NEW s \in Sorting, NEW l \in Seq(Items), Distinct(l), NEW b \in Nat, NEW m,
         Merging(s, l, b, m), QLeft(s), s.psize # 0 => Rank[s.p] > Rank[s.q]
  PROVE  LET r == TakeQ(s)
         IN  /\ r \in Sorting /\ Merging(r, l, b, m) /\ SamePass(s, r)
             /\ r.psize = s.psize /\ r.qsize = s.qsize - 1
<1> DEFINE M == Members(l)
           pos == PlaceIn(l)
           n == Len(l)
           w == s.insize
<1>1. PICK E, A, B : /\ Emitted(s, E)
                     /\ Chunk(s.next, A, s.p) /\ Len(A) = s.psize
                     /\ Ahead(s.next, B, s.q) /\ Len(B) <= b
                     /\ Split(E, A, B, M)
                     /\ Stable(pos, m, w, E, A, B, s.qsize, n)
  BY DEF Merging
<1> DEFINE e == s.q
           s1 == [s EXCEPT !.q = s.next[e], !.qsize = @ - 1]
           B2 == Del(B, 1)
           E2 == Ins(E, Len(E) + 1, e)
           r == Emit(s1, e)
<1>2. TakeQ(s) = r
  BY DEF TakeQ
<1>3. s.qsize \in Nat /\ s.next \in Field /\ s.qsize - 1 \in Nat /\ e # NULL
  <2>1. s.qsize \in Nat /\ s.next \in Field /\ s.qsize # 0 /\ e # NULL
    BY DEF Sorting, QLeft
  <2> QED
    BY <2>1
<1>4. /\ e \in Members(B) /\ e \in Items /\ Ahead(s.next, B2, s.next[e]) /\ s.next[e] \in Ptr
      /\ Len(B2) = Len(B) - 1 /\ Members(B2) = Members(B) \ {e} /\ Len(B) \in Nat
  BY <1>1, <1>3, AheadOff
<1>5. Len(B2) <= b
  <2> DEFINE v == Len(B)
  <2>1. v \in Nat /\ v <= b /\ Len(B2) = v - 1
    BY <1>1, <1>4
  <2> HIDE DEF v
  <2> QED
    BY <2>1
<1> HIDE DEF e, B2
<1>6. /\ s1 \in Sorting /\ s1.prev = s.prev /\ s1.next = s.next /\ s1.tail = s.tail
      /\ s1.list = s.list /\ s1.q = s.next[e] /\ s1.p = s.p
      /\ s1.qsize = s.qsize - 1 /\ s1.psize = s.psize /\ SamePass(s, s1)
  BY <1>3, <1>4 DEF Sorting, SamePass
<1> HIDE DEF s1, E2
<1>7. Emitted(s1, E) /\ e \notin Members(E)
  BY <1>1, <1>4, <1>6 DEF Emitted, Split
<1>8. /\ r \in Sorting /\ Emitted(r, E2) /\ Members(E2) = Members(E) \cup {e}
      /\ \A x \in Items : x \notin Members(E) => r.next[x] = s1.next[x]
      /\ r.p = s1.p /\ r.q = s1.q /\ r.psize = s1.psize /\ r.qsize = s1.qsize
      /\ SamePass(s1, r)
  BY <1>4, <1>6, <1>7, EmitIs DEF E2
<1> HIDE DEF r
<1>9. Members(A) \subseteq Items /\ Members(B) \subseteq Items
  BY <1>1, MembersItems DEF Chunk, Ahead
<1>10. Chunk(r.next, A, r.p)
  <2>1. \A x \in Members(A) : r.next[x] = s.next[x]
    BY <1>1, <1>6, <1>8, <1>9 DEF Split
  <2> QED
    BY <1>1, <1>6, <1>8, <2>1, ChunkSame
<1>11. Ahead(r.next, B2, r.q)
  <2>1. \A x \in Members(B2) : r.next[x] = s.next[x]
    BY <1>1, <1>4, <1>6, <1>8, <1>9 DEF Split
  <2> QED
    BY <1>4, <1>6, <1>8, <2>1, AheadSame
<1>12. Split(E2, A, B2, M)
  BY <1>1, <1>4, <1>8 DEF Split
<1>13. Stable(pos, m, w, E2, A, B2, s.qsize - 1, n)
  <2>1. pos \in [Items -> Nat]
    BY PlaceFacts
  <2>2. w \in Nat \ {0} /\ s.qsize \in Nat /\ s.qsize # 0
    BY DEF Sorting, QLeft
  <2>3. E \in Seq(Items) /\ A \in Seq(Items) /\ B \in Seq(Items) /\ Distinct(B)
    BY <1>1 DEF Emitted, Strung, Chunk, Ahead
  <2>4. B # <<>> /\ e = B[1]
    BY <1>1, <1>3 DEF Ahead, Onward, e
  <2>5. A # <<>> => Rank[A[1]] > Rank[B[1]]
    <3>1. A # <<>> => s.p = A[1] /\ s.psize # 0
      BY <1>1, <2>3, EndFacts DEF Chunk
    <3> QED
      BY <2>4, <3>1 DEF e
  <2>6. Members(A) \cap Members(B) = {}
    BY <1>1 DEF Split
  <2> HIDE DEF pos, w, n
  <2>7. Stable(pos, m, w, Ins(E, Len(E) + 1, B[1]), A, Del(B, 1), s.qsize - 1, n)
    BY <1>1, <2>1, <2>2, <2>3, <2>4, <2>5, <2>6, StableQ
  <2> QED
    BY <2>4, <2>7 DEF E2, B2
<1>14. SamePass(s, r) /\ r.insize = w /\ r.qsize = s.qsize - 1
  BY <1>6, <1>8 DEF SamePass
<1>15. Merging(r, l, b, m)
  BY <1>1, <1>5, <1>6, <1>8, <1>10, <1>11, <1>12, <1>13, <1>14 DEF Merging
<1> QED
  BY <1>2, <1>6, <1>8, <1>14, <1>15

(* A turn of a merge that has n turns left at most. *)
InMerge(s, l, b, m, n) == Merging(s, l, b, m) /\ (Merged(s) \/ s.psize + s.qsize <= n)

(* Each turn of the inner while emits one item. *)
LEMMA MergeTurnIs ==
  ASSUME NEW s \in Sorting, NEW l \in Seq(Items), Distinct(l), NEW b \in Nat, NEW m,
         NEW n \in Nat, InMerge(s, l, b, m, n + 1)
  PROVE  /\ MergeTurn(s) \in Sorting /\ InMerge(MergeTurn(s), l, b, m, n)
         /\ SamePass(s, MergeTurn(s))
<1>1. s.psize \in Nat /\ s.qsize \in Nat /\ Merging(s, l, b, m)
  BY DEF Sorting, InMerge
<1>2. CASE Merged(s)
  <2>1. MergeTurn(s) = s
    BY <1>2 DEF MergeTurn, Merged
  <2> QED
    BY <1>1, <1>2, <2>1 DEF InMerge, SamePass
<1>3. CASE ~Merged(s)
  <2>1. s.psize + s.qsize <= n + 1 /\ ~(s.psize = 0 /\ ~QLeft(s))
    BY <1>3 DEF InMerge, Merged
  <2>2. CASE /\ QLeft(s) /\ (s.psize # 0 => Rank[s.p] > Rank[s.q])
             /\ MergeTurn(s) = TakeQ(s)
    <3> DEFINE r == TakeQ(s)
    <3>1. r \in Sorting /\ Merging(r, l, b, m) /\ SamePass(s, r) /\ r.psize = s.psize /\ r.qsize = s.qsize - 1
      BY <1>1, <2>2, TakeQIs
    <3> HIDE DEF r
    <3>2. r.psize + r.qsize <= n
      BY <1>1, <2>1, <3>1
    <3> QED
      BY <2>2, <3>1, <3>2 DEF InMerge, r
  <2>3. CASE /\ s.psize # 0 /\ (QLeft(s) => ~(Rank[s.p] > Rank[s.q]))
             /\ MergeTurn(s) = TakeP(s)
    <3> DEFINE r == TakeP(s)
    <3>1. r \in Sorting /\ Merging(r, l, b, m) /\ SamePass(s, r) /\ r.psize = s.psize - 1 /\ r.qsize = s.qsize
      BY <1>1, <2>3, TakePIs
    <3> HIDE DEF r
    <3>2. r.psize + r.qsize <= n
      BY <1>1, <2>1, <3>1
    <3> QED
      BY <2>3, <3>1, <3>2 DEF InMerge, r
  <2>4. \/ /\ QLeft(s) /\ (s.psize # 0 => Rank[s.p] > Rank[s.q])
           /\ MergeTurn(s) = TakeQ(s)
        \/ /\ s.psize # 0 /\ (QLeft(s) => ~(Rank[s.p] > Rank[s.q]))
           /\ MergeTurn(s) = TakeP(s)
    BY <2>1 DEF MergeTurn
  <2> QED
    BY <2>2, <2>3, <2>4
<1> QED
  BY <1>2, <1>3

(* So a merge ends, with both runs emitted. *)
LEMMA MergeIs ==
  ASSUME NEW s \in Sorting, NEW l \in Seq(Items), Distinct(l), NEW b \in Nat, NEW m,
         Merging(s, l, b, m)
  PROVE  /\ Merge(s) \in Sorting /\ Merging(Merge(s), l, b, m) /\ Merged(Merge(s))
         /\ SamePass(s, Merge(s))
<1> DEFINE N == s.psize + s.qsize
           X == [k \in 0..N |-> {t \in Sorting : InMerge(t, l, b, m, N - k) /\ SamePass(s, t)}]
           step == [k \in 1..N |-> [t \in X[k - 1] |-> MergeTurn(t)]]
           LoopBody(f) == [k \in 0..N |-> IF k = 0 THEN s ELSE MergeTurn(f[k - 1])]
<1>1. N \in Nat
  <2>1. s.psize \in Nat /\ s.qsize \in Nat
    BY DEF Sorting
  <2> QED
    BY <2>1
<1>2. /\ \A k \in 1..N : k - 1 \in 0..N /\ k \in 0..N /\ k # 0
                         /\ N - k \in Nat /\ N - (k - 1) = (N - k) + 1
      /\ 0 \in 0..N /\ N \in 0..N /\ N - 0 = N /\ N - N = 0
  BY <1>1
<1>3. InMerge(s, l, b, m, N) /\ SamePass(s, s)
  BY <1>1 DEF InMerge, SamePass
<1>4. \A k \in 0..N : X[k] = {t \in Sorting : InMerge(t, l, b, m, N - k) /\ SamePass(s, t)}
  OBVIOUS
<1> HIDE DEF N
<1>5. s \in X[0]
  BY <1>2, <1>3
<1>6. \A k \in 1..N : \A t \in X[k - 1] : MergeTurn(t) \in X[k]
  <2> TAKE k \in 1..N
  <2> TAKE t \in X[k - 1]
  <2> DEFINE n == N - k
  <2>1. t \in Sorting /\ InMerge(t, l, b, m, n + 1) /\ n \in Nat /\ SamePass(s, t)
    BY <1>2, <1>4
  <2>2. MergeTurn(t) \in Sorting /\ InMerge(MergeTurn(t), l, b, m, n) /\ SamePass(t, MergeTurn(t))
    <3> HIDE DEF n, X
    <3> QED
      BY <2>1, MergeTurnIs
  <2>3. SamePass(s, MergeTurn(t))
    BY <2>1, <2>2 DEF SamePass
  <2> QED
    BY <1>2, <1>4, <2>2, <2>3
<1>7. \A k \in 1..N : step[k] \in [X[k - 1] -> X[k]]
  <2> HIDE DEF X
  <2> QED
    BY <1>6
<1>8. \E f : f = LoopOf(f, s, step, N) /\ \A k \in 0..N : f[k] \in X[k]
  <2> HIDE DEF X, step
  <2> QED
    BY <1>1, <1>5, <1>7, LoopRuns
<1>9. \E f : f = LoopBody(f)
  <2>1. PICK f : f = LoopOf(f, s, step, N) /\ \A k \in 0..N : f[k] \in X[k]
    BY <1>8
  <2>2. \A k \in 1..N : step[k][f[k - 1]] = MergeTurn(f[k - 1])
    <3> TAKE k \in 1..N
    <3>1. f[k - 1] \in X[k - 1]
      BY <1>2, <2>1
    <3> HIDE DEF X
    <3> QED
      BY <3>1
  <2>3. LoopOf(f, s, step, N) = LoopBody(f)
    <3>1. \A k \in 0..N : k # 0 => k \in 1..N
      BY <1>1
    <3> HIDE DEF step, X
    <3> QED
      BY <2>2, <3>1 DEF LoopOf
  <2> HIDE DEF LoopBody, step
  <2> QED
    BY <2>1, <2>3
<1> DEFINE w == CHOOSE f : f = LoopBody(f)
<1>10. w = LoopBody(w)
  <2> HIDE DEF LoopBody
  <2> QED
    BY <1>9
<1>11. Merge(s) = w[N]
  BY DEF Merge, Turns, N
<1> HIDE DEF w
<1>12. w[0] = s /\ \A k \in 1..N : w[k] = MergeTurn(w[k - 1])
  <2>1. \A f : f = LoopBody(f) => f[0] = s /\ \A k \in 1..N : f[k] = MergeTurn(f[k - 1])
    BY <1>2
  <2> HIDE DEF LoopBody
  <2> QED
    BY <1>10, <2>1
<1>13. \A k \in 0..N : w[k] \in X[k]
  <2> HIDE DEF X
  <2> QED
    BY <1>1, <1>5, <1>6, <1>12, LoopKeeps
<1>14. w[N] \in Sorting /\ InMerge(w[N], l, b, m, 0) /\ SamePass(s, w[N])
  BY <1>2, <1>4, <1>13
<1>15. Merged(w[N])
  <2> DEFINE t == w[N]
  <2>1. t.psize \in Nat /\ t.qsize \in Nat /\ (Merged(t) \/ t.psize + t.qsize <= 0)
    BY <1>14 DEF Sorting, InMerge
  <2> HIDE DEF t
  <2>2. t.psize + t.qsize <= 0 => t.psize = 0 /\ t.qsize = 0
    BY <2>1
  <2>3. Merged(t)
    BY <2>1, <2>2 DEF Merged, QLeft
  <2> QED
    BY <2>3 DEF t
<1> QED
  BY <1>11, <1>14, <1>15 DEF InMerge

(* The first m items of a list, and the others. *)
UpToItem(B, m) == [i \in 1..m |-> B[i]]
(* What of B comes after its first m. *)
After2(B, m) == IF m = Len(B) THEN <<>> ELSE From(B, m + 1)

(* They are lists too. *)
LEMMA RunItems ==
  ASSUME NEW B \in Seq(Items), NEW m \in 1..Len(B)
  PROVE  /\ UpToItem(B, m) \in Seq(Items) /\ Len(UpToItem(B, m)) = m
         /\ \A i \in 1..m : UpToItem(B, m)[i] = B[i]
         /\ After2(B, m) \in Seq(Items) /\ Len(After2(B, m)) = Len(B) - m
         /\ \A i \in 1..(Len(B) - m) : After2(B, m)[i] = B[i + m]
<1> DEFINE A == UpToItem(B, m)
           B2 == After2(B, m)
           n == Len(B)
<1>1. /\ n \in Nat /\ m \in Nat /\ 1 <= m /\ m <= n
      /\ \A i \in 1..n : B[i] \in Items
  <2>1. n \in Nat
    BY EndFacts
  <2> QED
    BY <2>1, EndFacts
<1> HIDE DEF n
<1>2. /\ A \in Seq(Items) /\ Len(A) = m /\ \A i \in 1..m : A[i] = B[i]
  <2>1. \A i \in 1..m : i \in 1..n
    BY <1>1
  <2>2. A \in [1..m -> Items]
    BY <1>1, <2>1 DEF UpToItem
  <2> QED
    BY <1>1, <2>2 DEF UpToItem
<1>3. /\ B2 \in Seq(Items) /\ Len(B2) = n - m
      /\ \A i \in 1..(n - m) : B2[i] = B[i + m]
  <2>1. CASE m = n
    <3>1. B2 = <<>> /\ n - m = 0
      BY <1>1, <2>1 DEF After2, n
    <3> QED
      BY <3>1
  <2>2. CASE m # n
    <3>1. m + 1 \in 1..n /\ n - (m + 1) + 1 = n - m /\ B2 = From(B, m + 1)
          /\ \A i \in 1..(n - m) : i + (m + 1) - 1 = i + m
      BY <1>1, <2>2 DEF After2, n
    <3>2. From(B, m + 1) \in Seq(Items) /\ Len(From(B, m + 1)) = n - (m + 1) + 1
      BY <1>1, <3>1, FromFacts DEF n
    <3>3. \A i \in 1..(n - (m + 1) + 1) : From(B, m + 1)[i] = B[(m + 1) + i - 1]
      BY DEF From, n
    <3>4. \A i \in 1..(n - m) : (m + 1) + i - 1 = i + m
      BY <1>1
    <3> HIDE DEF B2
    <3> QED
      BY <3>1, <3>2, <3>3, <3>4
  <2> QED
    BY <2>1, <2>2
<1> QED
  BY <1>2, <1>3 DEF n

(* A list ahead: its first m items are a run, the others are ahead of it. *)
LEMMA RunAhead ==
  ASSUME NEW fw, NEW B, NEW p, Ahead(fw, B, p), NEW m \in 1..Len(B)
  PROVE  LET A == UpToItem(B, m)
             B2 == After2(B, m)
             q == IF Len(B) > m THEN B[m + 1] ELSE NULL
         IN  /\ Chunk(fw, A, p) /\ Len(A) = m
             /\ Ahead(fw, B2, q) /\ Len(B2) = Len(B) - m
             /\ Members(A) \cap Members(B2) = {}
             /\ Members(A) \cup Members(B2) = Members(B)
             /\ q \in Ptr
<1> DEFINE A == UpToItem(B, m)
           B2 == After2(B, m)
           n == Len(B)
           q == IF n > m THEN B[m + 1] ELSE NULL
<1>1. /\ B \in Seq(Items) /\ Distinct(B) /\ n \in Nat /\ m \in Nat /\ 1 <= m /\ m <= n
      /\ \A i \in 1..n : B[i] \in Items /\ B[i] \in Members(B)
      /\ \A i \in 1..n : fw[B[i]] = IF i = n THEN NULL ELSE B[i + 1]
      /\ p = IF B = <<>> THEN NULL ELSE B[1]
  <2>1. B \in Seq(Items) /\ Distinct(B) /\ Onward(fw, B, p)
    BY DEF Ahead
  <2>2. n \in Nat
    BY <2>1, EndFacts
  <2> QED
    BY <2>1, <2>2, EndFacts DEF Onward
<1>2. B # <<>> /\ p = B[1] /\ 1 \in 1..n
  <2>1. n # 0 /\ 1 \in 1..n
    BY <1>1
  <2> QED
    BY <1>1, <2>1, EndFacts
<1>3. \A i, j \in 1..n : B[i] = B[j] => i = j
  BY <1>1 DEF Distinct
<1> HIDE DEF n
<1>4. /\ A \in Seq(Items) /\ Len(A) = m /\ \A i \in 1..m : A[i] = B[i]
      /\ B2 \in Seq(Items) /\ Len(B2) = n - m
      /\ \A i \in 1..(n - m) : B2[i] = B[i + m]
  BY <1>1, RunItems DEF n
<1> HIDE DEF A, B2
<1>6. /\ \A i \in 1..m : i \in 1..n
      /\ \A i \in 1..(n - m) : i + m \in 1..n /\ i + m > m
      /\ \A i \in 1..n : i \in 1..m \/ \E j \in 1..(n - m) : i = j + m
  <2>1. \A i \in 1..m : i \in 1..n
    BY <1>1
  <2>2. \A i \in 1..(n - m) : i + m \in 1..n /\ i + m > m
    BY <1>1
  <2>3. ASSUME NEW i \in 1..n PROVE i \in 1..m \/ \E j \in 1..(n - m) : i = j + m
    <3>1. i \in 1..m \/ (i - m \in 1..(n - m) /\ i = (i - m) + m)
      BY <1>1
    <3> QED
      BY <3>1
  <2> QED
    BY <2>1, <2>2, <2>3
<1>7. Distinct(A) /\ Distinct(B2)
  <2>1. Distinct(A)
    BY <1>3, <1>4, <1>6 DEF Distinct
  <2>2. ASSUME NEW i \in 1..(n - m), NEW j \in 1..(n - m), B2[i] = B2[j] PROVE i = j
    <3>1. i + m = j + m
      BY <1>3, <1>4, <1>6, <2>2
    <3> QED
      BY <1>1, <3>1
  <2> QED
    BY <1>4, <2>1, <2>2 DEF Distinct
<1>8. Members(A) \cap Members(B2) = {}
  <2> SUFFICES ASSUME NEW i \in 1..m, NEW j \in 1..(n - m), A[i] = B2[j] PROVE FALSE
    BY <1>4, <1>4 DEF Members
  <2>1. i = j + m
    BY <1>3, <1>4, <1>6
  <2> QED
    BY <1>1, <2>1
<1>9. Members(A) \cup Members(B2) = Members(B)
  <2>1. Members(A) \subseteq Members(B) /\ Members(B2) \subseteq Members(B)
    BY <1>1, <1>4, <1>6 DEF Members, n
  <2>2. ASSUME NEW i \in 1..n PROVE B[i] \in Members(A) \cup Members(B2)
    BY <1>4, <1>6 DEF Members
  <2> QED
    BY <2>1, <2>2 DEF Members, n
<1>10. Chunk(fw, A, p)
  <2>1. p = A[1]
    <3>1. 1 \in 1..m
      BY <1>1
    <3> QED
      BY <1>2, <1>4, <3>1
  <2>2. \A i \in 1..m : i # m => fw[A[i]] = A[i + 1]
    <3> TAKE i \in 1..m
    <3> HAVE i # m
    <3>1. i \in 1..n /\ i # n /\ i + 1 \in 1..m
      BY <1>1
    <3> QED
      BY <1>1, <1>4, <3>1
  <2> QED
    BY <1>4, <1>7, <2>1, <2>2 DEF Chunk
<1>11. q = IF B2 = <<>> THEN NULL ELSE B2[1]
  <2>1. B2 = <<>> <=> n = m
    <3>1. B2 = <<>> <=> n - m = 0
      BY <1>4, EndFacts
    <3> QED
      BY <1>1, <3>1
  <2>2. n # m => n > m /\ 1 \in 1..(n - m) /\ 1 + m = m + 1
    BY <1>1
  <2>3. ~(m > m)
    BY <1>1
  <2> QED
    BY <1>4, <2>1, <2>2, <2>3
<1>12. \A i \in 1..(n - m) : fw[B2[i]] = IF i = n - m THEN NULL ELSE B2[i + 1]
  <2> TAKE i \in 1..(n - m)
  <2>1. i + m \in 1..n /\ (i + m = n <=> i = n - m) /\ (i # n - m => i + 1 \in 1..(n - m))
        /\ (i + m) + 1 = (i + 1) + m
    BY <1>1
  <2> QED
    BY <1>1, <1>4, <2>1
<1>13. Ahead(fw, B2, q)
  BY <1>4, <1>7, <1>11, <1>12 DEF Ahead, Onward
<1>14. q \in Ptr
  <2>1. n > m => m + 1 \in 1..n
    BY <1>1
  <2> QED
    BY <1>1, <2>1 DEF Ptr
<1> QED
  BY <1>4, <1>8, <1>9, <1>10, <1>13, <1>14 DEF A, B2, n

(* After nm merges of a pass E is made of runs twice as long as what is     *)
(* ahead, one for each merge and, if more is ahead, all of them whole.      *)
Paired(pos, w, E, B, n, nm) ==
  /\ Runs(pos, E, 0, Len(E), 2 * w) /\ Runs(pos, B, 0, Len(B), w)
  /\ \A x \in Members(E), y \in Members(B) : pos[x] < pos[y]
  /\ Len(E) + Len(B) = n
  /\ B # <<>> => Len(E) \in Cuts(2 * w)
  /\ nm = 0 => E = <<>>
  /\ nm = 1 => Len(E) <= 2 * w
  /\ nm >= 1 /\ B # <<>> => Len(E) >= 2 * w
  /\ nm >= 2 => n > 2 * w

(* One merge more. *)
LEMMA PairedOn ==
  ASSUME NEW pos, NEW w \in Nat \ {0}, NEW n, NEW nm \in Nat,
         NEW E \in Seq(Items), NEW B \in Seq(Items), Paired(pos, w, E, B, n, nm), B # <<>>,
         NEW E2 \in Seq(Items), NEW B2 \in Seq(Items), NEW qs \in Nat,
         Stable(pos, Len(E), w, E2, <<>>, B2, qs, n), qs = 0 \/ B2 = <<>>
  PROVE  Paired(pos, w, E2, B2, n, nm + 1)
<1> DEFINE m == Len(E)
           v == 2 * w
<1>1. /\ Runs(pos, E2, 0, Len(E2), v)
      /\ \A x \in Members(E2), y \in Members(B2) : pos[x] < pos[y]
      /\ Runs(pos, B2, 0, Len(B2), w)
      /\ m \in Cuts(v) /\ Len(E2) + Len(B2) = n /\ Len(E2) <= m + v
      /\ B2 # <<>> => Len(E2) = m + v
  BY StableEnd
<1>2. /\ m + Len(B) = n
      /\ nm = 0 => E = <<>>
      /\ nm >= 1 => m >= v
  BY DEF Paired
<1>3. v \in Nat \ {0} /\ m \in Nat /\ Len(B) \in Nat /\ Len(B) # 0 /\ (E = <<>> => m = 0)
      /\ Len(E2) \in Nat
  <2>1. v \in Nat \ {0}
    OBVIOUS
  <2>2. m \in Nat /\ Len(B) \in Nat /\ Len(B) # 0 /\ (E = <<>> => m = 0) /\ Len(E2) \in Nat
    BY EndFacts
  <2> QED
    BY <2>1, <2>2
<1>4. B2 # <<>> => Len(E2) \in Cuts(v)
  BY <1>1, <1>3, CutFacts
<1> HIDE DEF m, v
<1>5. /\ nm + 1 # 0
      /\ nm + 1 = 1 => Len(E2) <= v
      /\ B2 # <<>> => Len(E2) >= v
      /\ nm + 1 >= 2 => n > v
  <2>1. nm + 1 = 1 => nm = 0
    OBVIOUS
  <2>2. nm + 1 >= 2 => nm >= 1
    OBVIOUS
  <2>3. nm = 0 => Len(E2) <= v
    BY <1>1, <1>2, <1>3
  <2>4. B2 # <<>> => Len(E2) >= v
    BY <1>1, <1>3
  <2>5. nm >= 1 => n > v
    <3> DEFINE x == Len(B)
    <3>1. x \in Nat /\ x # 0 /\ m + x = n
      BY <1>2, <1>3
    <3> HIDE DEF x
    <3> QED
      BY <1>2, <1>3, <3>1
  <2> QED
    BY <2>1, <2>2, <2>3, <2>4, <2>5
<1> QED
  BY <1>1, <1>4, <1>5 DEF Paired, v

(* Between the merges of a pass: what is ahead starts at p. *)
Passing(s, l, k) ==
  \E E, B : /\ Emitted(s, E) /\ Ahead(s.next, B, s.p) /\ Len(B) <= k
            /\ Members(E) \cap Members(B) = {}
            /\ Members(l) = Members(E) \cup Members(B)
            /\ Paired(PlaceIn(l), s.insize, E, B, Len(l), s.nmerges)

(* Each turn of a pass emits a run of p at least, so that a pass ends. *)
LEMMA PassTurnIs ==
  ASSUME NEW s \in Sorting, NEW l \in Seq(Items), Distinct(l), NEW n \in Nat,
         Passing(s, l, n + 1)
  PROVE  /\ PassTurn(s) \in Sorting /\ Passing(PassTurn(s), l, n)
         /\ PassTurn(s).insize = s.insize
<1> DEFINE M == Members(l)
           pos == PlaceIn(l)
           all == Len(l)
<1>1. PICK E, B : /\ Emitted(s, E) /\ Ahead(s.next, B, s.p) /\ Len(B) <= n + 1
                  /\ Members(E) \cap Members(B) = {} /\ M = Members(E) \cup Members(B)
                  /\ Paired(pos, s.insize, E, B, all, s.nmerges)
  BY DEF Passing
<1>2. B \in Seq(Items) /\ Distinct(B) /\ Len(B) \in Nat /\ Onward(s.next, B, s.p) /\ E \in Seq(Items)
  <2>1. B \in Seq(Items) /\ Distinct(B) /\ Onward(s.next, B, s.p) /\ E \in Seq(Items)
    BY <1>1 DEF Ahead, Emitted, Strung
  <2> QED
    BY <2>1, EndFacts
<1>3. CASE s.p = NULL
  <2>1. B = <<>>
    <3>1. B # <<>> => B[1] \in Items
      BY <1>2, EndFacts
    <3> QED
      BY <1>2, <1>3, <3>1, UthashAssumption DEF Onward
  <2>2. Len(B) = 0 /\ 0 <= n
    BY <1>2, <2>1, EndFacts
  <2>3. PassTurn(s) = s
    BY <1>3 DEF PassTurn
  <2> QED
    BY <1>1, <2>2, <2>3 DEF Passing
<1>4. CASE s.p # NULL
  <2> DEFINE size == s.insize
             N == Len(B)
             m == IF N > size THEN size ELSE N
             q == IF N > m THEN B[m + 1] ELSE NULL
             s1 == [s EXCEPT !.nmerges = @ + 1, !.psize = m, !.q = q, !.qsize = size]
             A == UpToItem(B, m)
             B2 == After2(B, m)
             t == Merge(s1)
             r == [t EXCEPT !.p = t.q]
  <2>1. s.next \in Field /\ size \in Nat \ {0} /\ s.nmerges \in Nat
    BY DEF Sorting
  <2>2. Walk(s.next, s.p) = B
    BY <1>2, <2>1, WalkAlong
  <2>3. N \in Nat /\ N # 0
    BY <1>2, <1>4, EndFacts DEF Onward
  <2> HIDE DEF size, N
  <2>4. m \in 1..N /\ m \in Nat /\ m # 0 /\ 1 <= m /\ (N > m <=> N > size) /\ (N > size => m = size)
        /\ IF N > size THEN m = size ELSE m = N
    BY <2>1, <2>3
  <2>5. PassTurn(s) = r
    <3>1. s1 = [s EXCEPT !.nmerges = @ + 1, !.psize = IF N > size THEN size ELSE N,
                         !.q = IF N > size THEN B[size + 1] ELSE NULL, !.qsize = size]
      BY <2>4
    <3>2. PassTurn(s) = [Merge([s EXCEPT !.nmerges = @ + 1, !.psize = IF N > size THEN size ELSE N,
                         !.q = IF N > size THEN B[size + 1] ELSE NULL, !.qsize = size])
                         EXCEPT !.p = Merge([s EXCEPT !.nmerges = @ + 1, !.psize = IF N > size THEN size ELSE N,
                         !.q = IF N > size THEN B[size + 1] ELSE NULL, !.qsize = size]).q]
      BY <1>4, <2>2 DEF PassTurn, N, size
    <3> HIDE DEF s1
    <3> QED
      BY <3>1, <3>2
  <2>6. /\ Chunk(s.next, A, s.p) /\ Len(A) = m
        /\ Ahead(s.next, B2, q) /\ Len(B2) = N - m
        /\ Members(A) \cap Members(B2) = {} /\ Members(A) \cup Members(B2) = Members(B)
        /\ q \in Ptr
        /\ A \in Seq(Items) /\ B2 \in Seq(Items)
        /\ \A i \in 1..m : A[i] = B[i]
        /\ \A i \in 1..(N - m) : B2[i] = B[i + m]
    <3>1. m \in 1..Len(B) /\ Ahead(s.next, B, s.p) /\ q = IF Len(B) > m THEN B[m + 1] ELSE NULL
      BY <1>1, <2>4 DEF N
    <3> HIDE DEF m, q
    <3>2. /\ Chunk(s.next, A, s.p) /\ Len(A) = m
          /\ Ahead(s.next, B2, q) /\ Len(B2) = N - m
          /\ Members(A) \cap Members(B2) = {} /\ Members(A) \cup Members(B2) = Members(B)
          /\ q \in Ptr
      BY <3>1, RunAhead DEF N
    <3>3. /\ A \in Seq(Items) /\ B2 \in Seq(Items)
          /\ \A i \in 1..m : A[i] = B[i]
          /\ \A i \in 1..(N - m) : B2[i] = B[i + m]
      BY <1>2, <3>1, RunItems DEF N
    <3> QED
      BY <3>2, <3>3
  <2> HIDE DEF m, q, A, B2
  <2>7. /\ s1 \in Sorting /\ s1.prev = s.prev /\ s1.next = s.next /\ s1.tail = s.tail
        /\ s1.list = s.list /\ s1.p = s.p /\ s1.q = q /\ s1.psize = m
        /\ s1.insize = s.insize /\ s1.qsize = s.insize /\ s1.nmerges = s.nmerges + 1
    <3> DEFINE k == s.nmerges + 1
    <3>1. k \in Nat /\ m \in Nat /\ q \in Ptr /\ size \in Nat
      BY <2>1, <2>4, <2>6
    <3>2. s1 = [s EXCEPT !.nmerges = k, !.psize = m, !.q = q, !.qsize = size]
      OBVIOUS
    <3> HIDE DEF k, s1
    <3>3. /\ s1 \in Sorting /\ s1.prev = s.prev /\ s1.next = s.next /\ s1.tail = s.tail
          /\ s1.list = s.list /\ s1.p = s.p /\ s1.q = q /\ s1.psize = m
          /\ s1.insize = s.insize /\ s1.qsize = size /\ s1.nmerges = k
      BY <3>1, <3>2 DEF Sorting
    <3> QED
      BY <3>3 DEF k, size
  <2> HIDE DEF s1
  <2>8. Merging(s1, l, n, Len(E))
    <3>1. Emitted(s1, E)
      BY <1>1, <2>7 DEF Emitted
    <3>2. N - m <= n
      BY <1>1, <2>3, <2>4 DEF N
    <3>3. Split(E, A, B2, M)
      BY <1>1, <2>6 DEF Split
    <3>4. Stable(pos, Len(E), size, E, A, B2, size, all)
      <4>1. IF N > size THEN m = size ELSE m = N
        BY <2>4
      <4>2. /\ Runs(pos, E, 0, Len(E), 2 * size) /\ Runs(pos, B, 0, N, size)
            /\ \A x \in Members(E), y \in Members(B) : pos[x] < pos[y]
            /\ Len(E) \in Cuts(2 * size) /\ Len(E) + N = all
        BY <1>1, <2>3, EndFacts DEF Paired, N, size
      <4> HIDE DEF pos, all
      <4> QED
        BY <1>2, <2>1, <2>4, <2>6, <4>1, <4>2, StableStart DEF N
    <3>5. Stable(pos, Len(E), s1.insize, E, A, B2, s1.qsize, all)
      BY <2>7, <3>4 DEF size
    <3> QED
      BY <2>6, <2>7, <3>1, <3>2, <3>3, <3>5 DEF Merging
  <2>9. t \in Sorting /\ Merging(t, l, n, Len(E)) /\ Merged(t) /\ SamePass(s1, t)
    BY <2>7, <2>8, MergeIs
  <2> HIDE DEF t
  <2>10. PICK E3, A3, B3 : /\ Emitted(t, E3)
                           /\ Chunk(t.next, A3, t.p) /\ Len(A3) = t.psize
                           /\ Ahead(t.next, B3, t.q) /\ Len(B3) <= n
                           /\ Split(E3, A3, B3, M)
                           /\ Stable(pos, Len(E), t.insize, E3, A3, B3, t.qsize, all)
    BY <2>9 DEF Merging
  <2>11. Members(A3) = {} /\ A3 = <<>>
    <3>1. Len(A3) = 0 /\ A3 \in Seq(Items)
      BY <2>9, <2>10 DEF Merged, Chunk
    <3>2. A3 = <<>>
      BY <3>1, EndFacts
    <3> QED
      BY <3>1, <3>2, MembersItems
  <2>12. /\ r \in Sorting /\ r.prev = t.prev /\ r.next = t.next /\ r.tail = t.tail
         /\ r.list = t.list /\ r.p = t.q /\ r.insize = s.insize /\ r.nmerges = s.nmerges + 1
    <3>1. t.q \in Ptr /\ t.insize = s.insize /\ t.nmerges = s.nmerges + 1
      BY <2>7, <2>9 DEF Sorting, SamePass
    <3>2. /\ r \in Sorting /\ r.prev = t.prev /\ r.next = t.next /\ r.tail = t.tail
          /\ r.list = t.list /\ r.p = t.q /\ r.insize = t.insize /\ r.nmerges = t.nmerges
      BY <2>9, <3>1 DEF Sorting
    <3> QED
      BY <3>1, <3>2
  <2> HIDE DEF r
  <2>13. Emitted(r, E3)
    BY <2>10, <2>12 DEF Emitted
  <2>14. Members(E3) \cap Members(B3) = {} /\ M = Members(E3) \cup Members(B3)
    BY <2>10, <2>11 DEF Split
  <2>15. Paired(pos, s.insize, E3, B3, all, s.nmerges + 1)
    <3>1. E3 \in Seq(Items) /\ B3 \in Seq(Items) /\ t.qsize \in Nat /\ t.insize = s.insize
      BY <2>7, <2>9, <2>10 DEF Emitted, Strung, Ahead, Sorting, SamePass
    <3>2. t.qsize = 0 \/ B3 = <<>>
      <4>1. B3 # <<>> => t.q # NULL
        BY <2>10, <3>1, EndFacts, UthashAssumption DEF Ahead, Onward
      <4> QED
        BY <2>9, <4>1 DEF Merged, QLeft
    <3>3. Stable(pos, Len(E), s.insize, E3, <<>>, B3, t.qsize, all)
      BY <2>10, <2>11, <3>1
    <3>4. B # <<>> /\ s.insize \in Nat \ {0}
      BY <1>2, <2>1, <2>3, EndFacts DEF N, size
    <3> HIDE DEF pos, all
    <3> QED
      BY <1>1, <1>2, <2>1, <3>1, <3>2, <3>3, <3>4, PairedOn
  <2>16. Passing(r, l, n)
    BY <2>10, <2>12, <2>13, <2>14, <2>15 DEF Passing
  <2> QED
    BY <2>5, <2>12, <2>16
<1> QED
  BY <1>3, <1>4

(* A pass over l2, which is in runs, leaves a list, but for its end, in     *)
(* runs twice as long.  If these are more than one, it has done more than   *)
(* one merge.                                                               *)
LEMMA PassIs ==
  ASSUME NEW s \in Sorting, NEW l \in Seq(Items), Distinct(l),
         NEW l2, Strung(s.prev, s.next, l2, s.list), Members(l2) = Members(l),
         Runs(PlaceIn(l), l2, 0, Len(l2), s.insize)
  PROVE  /\ Pass(s) \in Sorting /\ Pass(s).insize = s.insize
         /\ \E E : /\ Emitted(Pass(s), E) /\ Members(E) = Members(l)
                   /\ Runs(PlaceIn(l), E, 0, Len(E), 2 * s.insize)
                   /\ Pass(s).nmerges > 1 <=> Len(l) > 2 * s.insize
<1> DEFINE N == Cardinality(Items)
           M == Members(l)
           pos == PlaceIn(l)
           all == Len(l)
           size == s.insize
           s0 == [s EXCEPT !.p = s.list, !.list = NULL, !.tail = NULL, !.nmerges = 0]
           X == [k \in 0..N |-> {t \in Sorting : Passing(t, l, N - k) /\ t.insize = size}]
           step == [k \in 1..N |-> [t \in X[k - 1] |-> PassTurn(t)]]
           LoopBody(f) == [k \in 0..N |-> IF k = 0 THEN s0 ELSE PassTurn(f[k - 1])]
<1>1. /\ N \in Nat /\ l2 \in Seq(Items) /\ Distinct(l2) /\ Onward(s.next, l2, s.list)
      /\ Len(l2) <= N /\ Len(l2) = all /\ all \in Nat /\ size \in Nat \ {0}
  <2>1. l2 \in Seq(Items) /\ Distinct(l2) /\ Onward(s.next, l2, s.list)
    BY DEF Strung
  <2>2. Len(l2) = Cardinality(Members(l2)) /\ Len(l) = Cardinality(Members(l))
    BY <2>1, NoMoreThanItems
  <2> QED
    BY <2>1, <2>2, NoMoreThanItems DEF Sorting
<1> HIDE DEF N
<1>2. /\ \A k \in 1..N : k - 1 \in 0..N /\ k \in 0..N /\ k # 0
                         /\ N - k \in Nat /\ N - (k - 1) = (N - k) + 1
      /\ 0 \in 0..N /\ N \in 0..N /\ N - 0 = N /\ N - N = 0
  BY <1>1
<1>3. s0 \in Sorting /\ Passing(s0, l, N) /\ s0.insize = size
  <2>1. s.list \in Ptr /\ NULL \in Ptr /\ s.prev \in Field /\ s.next \in Field
    BY DEF Sorting, Ptr
  <2>2. /\ s0 \in Sorting /\ s0.prev = s.prev /\ s0.next = s.next /\ s0.tail = NULL
        /\ s0.list = NULL /\ s0.p = s.list /\ s0.insize = s.insize /\ s0.nmerges = 0
    BY <2>1 DEF Sorting
  <2> HIDE DEF s0
  <2>3. Strung(s0.prev, Put(s0.next, NULL, NULL), <<>>, NULL)
    <3>1. <<>> \in Seq(Items) /\ Len(<<>>) = 0 /\ 1..0 = {}
      OBVIOUS
    <3> QED
      BY <3>1 DEF Strung, Onward, Distinct
  <2>4. Emitted(s0, <<>>)
    BY <2>2, <2>3 DEF Emitted, LastOf
  <2>5. Members(<<>>) = {}
    BY MembersItems, EmptySeq
  <2>6. Ahead(s0.next, l2, s0.p)
    BY <1>1, <2>2 DEF Ahead
  <2>7. Paired(pos, size, <<>>, l2, all, 0)
    <3>1. Len(<<>>) = 0 /\ 0 + Len(l2) = all /\ 1..0 = {} /\ ~(0 >= 1) /\ ~(0 >= 2) /\ 0 # 1
      BY <1>1
    <3>2. 2 * size \in Nat \ {0}
      BY <1>1
    <3>3. 0 \in Cuts(2 * size)
      BY <3>2, CutFacts
    <3>4. Runs(pos, l2, 0, Len(l2), size) /\ Runs(pos, <<>>, 0, 0, 2 * size)
      BY <3>1 DEF Runs
    <3> HIDE DEF pos, size, all
    <3> QED
      BY <2>5, <3>1, <3>3, <3>4 DEF Paired
  <2>8. /\ Members(<<>>) \cap Members(l2) = {}
        /\ Members(l) = Members(<<>>) \cup Members(l2)
    BY <2>5
  <2>9. Passing(s0, l, N)
    BY <1>1, <2>2, <2>4, <2>6, <2>7, <2>8 DEF Passing
  <2> QED
    BY <2>2, <2>9
<1> HIDE DEF s0, size
<1>4. \A k \in 0..N : X[k] = {t \in Sorting : Passing(t, l, N - k) /\ t.insize = size}
  OBVIOUS
<1> HIDE DEF M, all
<1>5. s0 \in X[0]
  BY <1>2, <1>3
<1>6. \A k \in 1..N : \A t \in X[k - 1] : PassTurn(t) \in X[k]
  <2> TAKE k \in 1..N
  <2> TAKE t \in X[k - 1]
  <2> DEFINE m == N - k
  <2>1. t \in Sorting /\ Passing(t, l, m + 1) /\ m \in Nat /\ t.insize = size
    BY <1>2, <1>4
  <2>2. PassTurn(t) \in Sorting /\ Passing(PassTurn(t), l, m) /\ PassTurn(t).insize = size
    <3> HIDE DEF m, X
    <3> QED
      BY <2>1, PassTurnIs
  <2> QED
    BY <1>2, <1>4, <2>2
<1>7. \A k \in 1..N : step[k] \in [X[k - 1] -> X[k]]
  <2> HIDE DEF X
  <2> QED
    BY <1>6
<1>8. \E f : f = LoopOf(f, s0, step, N) /\ \A k \in 0..N : f[k] \in X[k]
  <2> HIDE DEF X, step
  <2> QED
    BY <1>1, <1>5, <1>7, LoopRuns
<1>9. \E f : f = LoopBody(f)
  <2>1. PICK f : f = LoopOf(f, s0, step, N) /\ \A k \in 0..N : f[k] \in X[k]
    BY <1>8
  <2>2. \A k \in 1..N : step[k][f[k - 1]] = PassTurn(f[k - 1])
    <3> TAKE k \in 1..N
    <3>1. f[k - 1] \in X[k - 1]
      BY <1>2, <2>1
    <3> HIDE DEF X
    <3> QED
      BY <3>1
  <2>3. LoopOf(f, s0, step, N) = LoopBody(f)
    <3>1. \A k \in 0..N : k # 0 => k \in 1..N
      BY <1>1
    <3> HIDE DEF step, X
    <3> QED
      BY <2>2, <3>1 DEF LoopOf
  <2> HIDE DEF LoopBody, step
  <2> QED
    BY <2>1, <2>3
<1> DEFINE w == CHOOSE f : f = LoopBody(f)
<1>10. w = LoopBody(w)
  <2> HIDE DEF LoopBody
  <2> QED
    BY <1>9
<1>11. Pass(s) = w[N]
  BY DEF Pass, Turns, N, s0
<1> HIDE DEF w
<1>12. w[0] = s0 /\ \A k \in 1..N : w[k] = PassTurn(w[k - 1])
  <2>1. \A f : f = LoopBody(f) => f[0] = s0 /\ \A k \in 1..N : f[k] = PassTurn(f[k - 1])
    BY <1>2
  <2> HIDE DEF LoopBody
  <2> QED
    BY <1>10, <2>1
<1>13. \A k \in 0..N : w[k] \in X[k]
  <2> HIDE DEF X
  <2> QED
    BY <1>1, <1>5, <1>6, <1>12, LoopKeeps
<1>14. w[N] \in Sorting /\ Passing(w[N], l, 0) /\ w[N].insize = size
  BY <1>2, <1>4, <1>13
<1>15. PICK E, B : /\ Emitted(w[N], E) /\ Ahead(w[N].next, B, w[N].p) /\ Len(B) <= 0
                   /\ M = Members(E) \cup Members(B)
                   /\ Paired(pos, size, E, B, all, w[N].nmerges)
  BY <1>14 DEF Passing, M, all
<1>16. Members(B) = {} /\ Len(B) = 0
  <2>1. B \in Seq(Items)
    BY <1>15 DEF Ahead
  <2>2. Len(B) \in Nat
    BY <2>1, EndFacts
  <2>3. Len(B) = 0
    BY <1>15, <2>2
  <2>4. B = <<>>
    BY <2>1, <2>3, EndFacts
  <2> QED
    BY <2>1, <2>3, <2>4, MembersItems
<1>17. w[N].nmerges > 1 <=> all > 2 * size
  <2> DEFINE nm == w[N].nmerges
             v == 2 * size
             n == Len(E)
  <2>1. nm \in Nat /\ v \in Nat /\ n \in Nat /\ (E = <<>> => n = 0)
    <3>1. nm \in Nat
      BY <1>14 DEF Sorting
    <3>2. E \in Seq(Items)
      BY <1>15 DEF Emitted, Strung
    <3>3. v \in Nat
      BY <1>1
    <3> QED
      BY <3>1, <3>2, <3>3, EndFacts
  <2>2. n + 0 = all /\ (nm = 0 => E = <<>>) /\ (nm = 1 => n <= v) /\ (nm >= 2 => all > v)
    BY <1>15, <1>16 DEF Paired
  <2> HIDE DEF nm, v, n, all
  <2>3. nm > 1 <=> all > v
    BY <2>1, <2>2
  <2> QED
    BY <2>3 DEF nm, v
<1>18. Runs(pos, E, 0, Len(E), 2 * size)
  BY <1>15 DEF Paired
<1>19. Pass(s) \in Sorting /\ Pass(s).insize = s.insize /\ Emitted(Pass(s), E)
  BY <1>11, <1>14, <1>15 DEF size
<1>20. Members(E) = Members(l)
  BY <1>15, <1>16 DEF M
<1>21. Pass(s).nmerges > 1 <=> Len(l) > 2 * s.insize
  BY <1>11, <1>17 DEF size, all
<1> QED
  BY <1>18, <1>19, <1>20, <1>21 DEF size

(* Between passes the list is in runs of insize, and a pass that was not    *)
(* the last has left more than one.  Before the first the tail is not set.  *)
Between(s, l, k) ==
  /\ \E l2 : /\ Strung(s.prev, s.next, l2, s.list) /\ Members(l2) = Members(l)
             /\ Runs(PlaceIn(l), l2, 0, Len(l2), s.insize)
             /\ k # 0 => s.tail = LastOf(l2)
  /\ IF k = 0 THEN s.looping ELSE s.looping <=> Len(l) > s.insize
  /\ s.looping => s.insize > k

(* Each pass keeps the items and leaves a list, whose tail it closes, in    *)
(* runs that are twice as long.                                             *)
LEMMA SortTurnIs ==
  ASSUME NEW s \in Sorting, NEW l \in Seq(Items), Distinct(l), NEW k \in Nat, Between(s, l, k)
  PROVE  SortTurn(s) \in Sorting /\ Between(SortTurn(s), l, k + 1)
<1> DEFINE t == Pass(s)
           fw == Put(t.next, t.tail, NULL)
           r == SortTurn(s)
           pos == PlaceIn(l)
           size == s.insize
<1>0. k + 1 # 0 /\ size \in Nat \ {0} /\ Len(l) \in Nat
  BY EndFacts DEF Sorting
<1>1. PICK l2 : /\ Strung(s.prev, s.next, l2, s.list) /\ Members(l2) = Members(l)
                /\ Runs(pos, l2, 0, Len(l2), size) /\ (k # 0 => s.tail = LastOf(l2))
  BY DEF Between
<1>2. CASE ~s.looping
  <2>1. k # 0 /\ r = s /\ ~(Len(l) > size)
    BY <1>2 DEF Between, SortTurn
  <2> QED
    BY <1>0, <1>1, <1>2, <2>1 DEF Between
<1>3. CASE s.looping
  <2>1. /\ t \in Sorting /\ t.insize = size
        /\ \E E : /\ Emitted(t, E) /\ Members(E) = Members(l)
                  /\ Runs(pos, E, 0, Len(E), 2 * size)
                  /\ t.nmerges > 1 <=> Len(l) > 2 * size
    BY <1>1, PassIs
  <2>2. PICK E : /\ Emitted(t, E) /\ Members(E) = Members(l)
                 /\ Runs(pos, E, 0, Len(E), 2 * size)
                 /\ t.nmerges > 1 <=> Len(l) > 2 * size
    BY <2>1
  <2>3. r = [t EXCEPT !.next = fw, !.insize = @ * 2, !.looping = t.nmerges > 1]
    <3>1. r = [t EXCEPT !.next = Put(@, t.tail, NULL), !.insize = @ * 2, !.looping = t.nmerges > 1]
      BY <1>3 DEF SortTurn
    <3> HIDE DEF t, r
    <3> QED
      BY <2>1, <3>1 DEF Sorting
  <2> HIDE DEF t, r
  <2>4. t.next \in Field /\ t.tail \in Ptr /\ t.insize * 2 \in Nat \ {0} /\ (t.nmerges > 1) \in BOOLEAN
    <3>1. t.next \in Field /\ t.tail \in Ptr /\ t.insize \in Nat \ {0}
      BY <2>1 DEF Sorting
    <3>2. (t.nmerges > 1) \in BOOLEAN
      OBVIOUS
    <3>3. t.insize * 2 \in Nat \ {0}
      BY <3>1
    <3> QED
      BY <3>1, <3>2, <3>3
  <2>5. fw \in Field
    BY <2>4 DEF Put, Field, Ptr
  <2> HIDE DEF fw
  <2>6. /\ r \in Sorting /\ r.next = fw /\ r.prev = t.prev /\ r.list = t.list /\ r.tail = t.tail
        /\ r.insize = 2 * size /\ (r.looping <=> Len(l) > 2 * size)
    <3> DEFINE i2 == t.insize * 2
               b == t.nmerges > 1
    <3>1. r = [t EXCEPT !.next = fw, !.insize = i2, !.looping = b] /\ i2 \in Nat \ {0} /\ b \in BOOLEAN
      BY <2>1, <2>3, <2>4 DEF Sorting
    <3>2. i2 = 2 * size /\ (b <=> Len(l) > 2 * size)
      BY <1>0, <2>1, <2>2
    <3> HIDE DEF i2, b
    <3>3. /\ r \in Sorting /\ r.next = fw /\ r.prev = t.prev /\ r.list = t.list
          /\ r.tail = t.tail /\ r.insize = i2 /\ r.looping = b
      BY <2>1, <2>5, <3>1 DEF Sorting
    <3> QED
      BY <3>2, <3>3
  <2>7. Strung(r.prev, r.next, E, r.list) /\ r.tail = LastOf(E)
    BY <2>2, <2>6 DEF Emitted, fw
  <2>8. 2 * size > k + 1
    <3>1. size > k
      BY <1>3 DEF Between
    <3> QED
      BY <1>0, <3>1
  <2>9. Between(r, l, k + 1)
    <3> HIDE DEF size
    <3> QED
      BY <1>0, <2>2, <2>6, <2>7, <2>8 DEF Between
  <2> QED
    BY <2>6, <2>9 DEF r
<1> QED
  BY <1>2, <1>3

(* HASH_SRT keeps the items and leaves them in the order of a stable sort:  *)
(* its runs double until there is one, or as often as there are items.      *)
LEMMA SrtIs ==
  ASSUME NEW h, NEW l, Source(h, l)
  PROVE  \E l2 : /\ Source(Srt(h), l2) /\ Members(l2) = Members(l)
                 /\ \A i, j \in 1..Len(l2) : i < j => Prior(PlaceIn(l), l2[i], l2[j])
<1> DEFINE N == Cardinality(Items)
           M == Members(l)
           s0 == [p |-> NULL, q |-> NULL, list |-> h.head, tail |-> NULL,
                  psize |-> 0, qsize |-> 0, insize |-> 1, nmerges |-> 0,
                  looping |-> TRUE, prev |-> h.prev, next |-> h.next]
           s == Turns(SortTurn, s0, N)
           X == [k \in 0..N |-> {t \in Sorting : Between(t, l, k)}]
           step == [k \in 1..N |-> [t \in X[k - 1] |-> SortTurn(t)]]
           LoopBody(f) == [k \in 0..N |-> IF k = 0 THEN s0 ELSE SortTurn(f[k - 1])]
<1>1. CASE h.head = NULL
  <2>1. Srt(h) = h
    BY <1>1 DEF Srt
  <2>2. l = <<>>
    BY <1>1, StrungHead DEF Source, Good
  <2>3. \A i \in 1..Len(l) : FALSE
    BY <2>2
  <2> QED
    BY <2>1, <2>3
<1>2. CASE h.head # NULL
  <2>1. /\ h \in Handle /\ h.prev \in Field /\ h.next \in Field /\ h.head \in Ptr
        /\ l \in Seq(Items) /\ Distinct(l) /\ l # <<>> /\ M \in SUBSET Items
        /\ \E c : Bucketed(h, c, M)
        /\ h.tbl \in Tables /\ h.tbl.num_items = Len(l)
        /\ GivenUp(h.tbl) /\ Bounded(h.tbl)
        /\ Strung(h.prev, h.next, l, h.head) /\ Unique(M) /\ Len(l) \in Nat
    BY <1>2, NotEmpty DEF Ptr
  <2>2. N \in Nat /\ N # 0
    <3>1. Len(l) \in Nat /\ N \in Nat /\ Len(l) <= N
      BY <2>1, NoMoreThanItems
    <3>2. Len(l) # 0
      BY <2>1, EndFacts
    <3> QED
      BY <3>1, <3>2
  <2>3. Srt(h) = [h EXCEPT !.prev = s.prev, !.next = s.next, !.tbl.tail = s.tail, !.head = s.list]
    BY <1>2 DEF Srt
  <2> HIDE DEF N
  <2>4. /\ \A k \in 1..N : k - 1 \in 0..N /\ k \in 0..N /\ k # 0 /\ k - 1 \in Nat /\ (k - 1) + 1 = k
        /\ 0 \in 0..N /\ N \in 0..N
    BY <2>2
  <2>5. s0 \in Sorting /\ Between(s0, l, 0)
    <3>1. NULL \in Ptr
      BY DEF Ptr
    <3>2. s0 \in Sorting
      BY <2>1, <3>1 DEF Sorting
    <3>3. Strung(s0.prev, s0.next, l, s0.list) /\ s0.looping /\ s0.insize = 1 /\ 1 > 0
      BY <2>1
    <3>4. Runs(PlaceIn(l), l, 0, Len(l), 1)
      BY <2>1, RunFacts
    <3> HIDE DEF s0
    <3> QED
      BY <3>2, <3>3, <3>4 DEF Between
  <2> HIDE DEF s0
  <2>6. \A k \in 0..N : X[k] = {t \in Sorting : Between(t, l, k)}
    OBVIOUS
  <2> HIDE DEF M
  <2>7. s0 \in X[0]
    BY <2>4, <2>5
  <2>8. \A k \in 1..N : \A t \in X[k - 1] : SortTurn(t) \in X[k]
    <3> TAKE k \in 1..N
    <3> TAKE t \in X[k - 1]
    <3> DEFINE m == k - 1
    <3>1. t \in Sorting /\ Between(t, l, m) /\ m \in Nat /\ m + 1 = k
      BY <2>4, <2>6
    <3>2. SortTurn(t) \in Sorting /\ Between(SortTurn(t), l, m + 1)
      <4> HIDE DEF m, X
      <4> QED
        BY <2>1, <3>1, SortTurnIs
    <3> QED
      BY <2>4, <2>6, <3>1, <3>2
  <2>9. \A k \in 1..N : step[k] \in [X[k - 1] -> X[k]]
    <3> HIDE DEF X
    <3> QED
      BY <2>8
  <2>10. \E f : f = LoopOf(f, s0, step, N) /\ \A k \in 0..N : f[k] \in X[k]
    <3> HIDE DEF X, step
    <3> QED
      BY <2>2, <2>7, <2>9, LoopRuns
  <2>11. \E f : f = LoopBody(f)
    <3>1. PICK f : f = LoopOf(f, s0, step, N) /\ \A k \in 0..N : f[k] \in X[k]
      BY <2>10
    <3>2. \A k \in 1..N : step[k][f[k - 1]] = SortTurn(f[k - 1])
      <4> TAKE k \in 1..N
      <4>1. f[k - 1] \in X[k - 1]
        BY <2>4, <3>1
      <4> HIDE DEF X
      <4> QED
        BY <4>1
    <3>3. LoopOf(f, s0, step, N) = LoopBody(f)
      <4>1. \A k \in 0..N : k # 0 => k \in 1..N
        BY <2>2
      <4> HIDE DEF step, X
      <4> QED
        BY <3>2, <4>1 DEF LoopOf
    <3> HIDE DEF LoopBody, step
    <3> QED
      BY <3>1, <3>3
  <2> DEFINE w == CHOOSE f : f = LoopBody(f)
  <2>12. w = LoopBody(w)
    <3> HIDE DEF LoopBody
    <3> QED
      BY <2>11
  <2>13. s = w[N]
    BY DEF Turns
  <2> HIDE DEF w, s
  <2>14. w[0] = s0 /\ \A k \in 1..N : w[k] = SortTurn(w[k - 1])
    <3>1. \A f : f = LoopBody(f) => f[0] = s0 /\ \A k \in 1..N : f[k] = SortTurn(f[k - 1])
      BY <2>4
    <3> HIDE DEF LoopBody
    <3> QED
      BY <2>12, <3>1
  <2>15. \A k \in 0..N : w[k] \in X[k]
    <3> HIDE DEF X
    <3> QED
      BY <2>2, <2>7, <2>8, <2>14, LoopKeeps
  <2>16. s \in Sorting /\ Between(s, l, N)
    BY <2>4, <2>6, <2>13, <2>15
  <2>17. PICK l2 : /\ Strung(s.prev, s.next, l2, s.list) /\ Members(l2) = M /\ s.tail = LastOf(l2)
                   /\ Runs(PlaceIn(l), l2, 0, Len(l2), s.insize)
    BY <2>2, <2>16 DEF Between, M
  <2> DEFINE r == Relinked(h, s.list, s.prev, s.next, s.tail)
  <2>18. Srt(h) = r
    <3> DEFINE t2 == [h.tbl EXCEPT !.tail = s.tail]
    <3>1. Srt(h) = [h EXCEPT !.prev = s.prev, !.next = s.next, !.tbl = t2, !.head = s.list]
      BY <2>3
    <3>2. r = [h EXCEPT !.head = s.list, !.prev = s.prev, !.next = s.next, !.tbl = t2]
      BY DEF Relinked
    <3> HIDE DEF t2, r
    <3> QED
      BY <2>1, <3>1, <3>2 DEF Handle
  <2>19. l2 \in Seq(Items) /\ Distinct(l2) /\ l2 # <<>> /\ Len(l2) = Len(l)
    <3>1. l2 \in Seq(Items) /\ Distinct(l2)
      BY <2>17 DEF Strung
    <3>2. Cardinality(Members(l2)) = Len(l2) /\ Cardinality(Members(l)) = Len(l)
      BY <2>1, <3>1, NoMoreThanItems
    <3>3. Len(l2) = Len(l)
      BY <2>17, <3>2 DEF M
    <3>4. l2 # <<>>
      BY <2>1, <3>1, <3>3, EndFacts
    <3> QED
      BY <3>1, <3>3, <3>4
  <2>20. s.tail = l2[Len(l2)] /\ s.tail \in Items /\ s.tail \in Ptr /\ s.list \in Ptr
         /\ s.list # NULL /\ s.prev \in Field /\ s.next \in Field
    <3>1. s.tail = l2[Len(l2)] /\ s.tail \in Items
      BY <2>17, <2>19, EndFacts DEF LastOf
    <3>2. s.list # NULL
      BY <2>17, <2>19, StrungHead
    <3> QED
      BY <2>16, <3>1, <3>2 DEF Sorting
  <2>21. PICK c : Bucketed(h, c, M)
    BY <2>1 DEF M
  <2>22. /\ Bucketed(r, c, M) /\ r \in Handle
         /\ r.head = s.list /\ r.prev = s.prev /\ r.next = s.next /\ r.tbl.tail = s.tail
         /\ r.tbl.num_items = h.tbl.num_items
         /\ GivenUp(r.tbl) /\ Bounded(r.tbl)
    <3> DEFINE a == s.list
               b == s.prev
               d == s.next
               f == s.tail
    <3>1. a \in Ptr /\ b \in Field /\ d \in Field /\ f \in Ptr /\ GivenUp(h.tbl) /\ Bounded(h.tbl)
      BY <2>1, <2>20
    <3> HIDE DEF a, b, d, f, step, X, LoopBody
    <3>2. LET z == Relinked(h, a, b, d, f)
          IN  /\ Bucketed(z, c, M) /\ z \in Handle
              /\ z.head = a /\ z.prev = b /\ z.next = d /\ z.tbl.tail = f
              /\ z.tbl.num_items = h.tbl.num_items
              /\ GivenUp(z.tbl) /\ Bounded(z.tbl)
      BY <2>21, <3>1, RelinkedIs
    <3> QED
      BY <3>2 DEF a, b, d, f
  <2> HIDE DEF r
  <2>23. Good(r, l2)
    <3>1. Strung(r.prev, r.next, l2, r.head) /\ r.head # NULL
      BY <2>17, <2>20, <2>22
    <3>2. r.tbl.num_items = Len(l2) /\ r.tbl.tail \in Items /\ Bucketed(r, c, Members(l2))
      BY <2>1, <2>17, <2>19, <2>20, <2>22
    <3> QED
      BY <2>22, <3>1, <3>2 DEF Good
  <2>24. Source(r, l2)
    BY <2>1, <2>17, <2>20, <2>22, <2>23 DEF Source, M
  <2>25. \A i, j \in 1..Len(l2) : i < j => Prior(PlaceIn(l), l2[i], l2[j])
    <3> DEFINE n == Len(l)
               z == s.insize
    <3>1. n \in Nat /\ n <= N
      BY <2>1, NoMoreThanItems DEF N
    <3>2. z \in Nat \ {0}
      BY <2>16 DEF Sorting
    <3>3. (s.looping => z > N) /\ (s.looping <=> n > z)
      BY <2>2, <2>16 DEF Between
    <3> HIDE DEF n, z
    <3>4. n <= z
      BY <2>2, <3>1, <3>2, <3>3
    <3> QED
      BY <2>1, <2>17, <2>19, <3>2, <3>4, RunFacts DEF n, z
  <2> QED
    BY <2>17, <2>18, <2>24, <2>25 DEF M
<1> QED
  BY <1>1, <1>2

----------------------------------------------------------------------------
(* The invariant *)

(* What comes after the k-th item. *)
NextIn(l, k) == IF k = Len(l) THEN NULL ELSE l[k + 1]

(* A loop is at an item of the hash and knows the one that comes after it. *)
Looping(l) ==
  el # NULL => /\ dst = Empty
               /\ \E k \in 1..Len(l) : el = l[k] /\ tmp = NextIn(l, k)

(* The second hash has the items up to some rank, or none. *)
Selected(l) ==
  \E ld : /\ Good(dst, ld)
          /\ dst.head # NULL =>
               \E i \in Items : Members(ld) = UpTo(Members(l), Rank[i])

(* TypeOK and the four invariants do not suffice for a step: what an          *)
(* operation does to pointers has to be known for whole lists.  The inductive *)
(* invariant says what the application order is, and that each of src and dst *)
(* is what the order says; a loop that is running is at an item of src, and   *)
(* its tmp, read before the body may delete el, is the item after it.         *)
IInv ==
  /\ hashf \in HASH_FCN /\ el \in Ptr /\ tmp \in Ptr
  /\ \E l : Source(src, l) /\ Looping(l) /\ Selected(l)

(* Two empty hashes and no loop. *)
LEMMA IInvInit == Init => IInv
<1> SUFFICES ASSUME Init PROVE IInv
  OBVIOUS
<1>1. src = Empty /\ dst = Empty /\ hashf \in HASH_FCN /\ el = NULL /\ tmp = NULL
  BY DEF Init
<1>2. Source(Empty, <<>>) /\ Empty.head = NULL /\ NULL \in Ptr
  BY EmptyIs DEF Empty, Ptr
<1>3. Good(Empty, <<>>)
  BY <1>2 DEF Source
<1>4. Selected(<<>>)
  BY <1>1, <1>2, <1>3 DEF Selected
<1>5. Looping(<<>>)
  BY <1>1 DEF Looping
<1> QED
  BY <1>1, <1>2, <1>4, <1>5 DEF IInv

(* The next item of a list. *)
LEMMA AfterIs ==
  ASSUME NEW h, NEW l, Source(h, l)
  PROVE  /\ After(h, NULL) = NULL
         /\ \A k \in 1..Len(l) : After(h, l[k]) = NextIn(l, k) /\ NextIn(l, k) \in Ptr
<1>1. l \in Seq(Items) /\ Onward(h.next, l, h.head)
  BY DEF Source, Good, Strung
<1>2. ASSUME NEW k \in 1..Len(l) PROVE After(h, l[k]) = NextIn(l, k) /\ NextIn(l, k) \in Ptr
  <2>1. Len(l) \in Nat /\ l[k] \in Items /\ l[k] # NULL
    BY <1>1, EndFacts, UthashAssumption
  <2>2. k # Len(l) => k + 1 \in 1..Len(l)
    BY <2>1
  <2>3. k # Len(l) => l[k + 1] \in Items
    BY <1>1, <2>2, EndFacts
  <2> QED
    BY <1>1, <2>1, <2>3 DEF After, Onward, NextIn, Ptr
<1> QED
  BY <1>2 DEF After

(* The item that comes after is one of the list, or NULL, and still is if the *)
(* k-th is deleted; from there on the list is the same.                       *)
LEMMA NextKept ==
  ASSUME NEW l \in Seq(Items), Distinct(l), NEW k \in 1..Len(l), NEW l2, l2 = l \/ l2 = Del(l, k)
  PROVE  \/ k = Len(l) /\ NextIn(l, k) = NULL
         \/ /\ k # Len(l)
            /\ \E j \in 1..Len(l2) : NextIn(l, k) = l2[j] /\ From(l2, j) = From(l, k + 1)
<1> DEFINE n == Len(l)
<1>1. n \in Nat /\ k \in 1..n
  BY EndFacts
<1>2. CASE k = Len(l)
  BY <1>2 DEF NextIn
<1>3. CASE k # Len(l)
  <2>1. k + 1 \in 1..n /\ NextIn(l, k) = l[k + 1]
    BY <1>1, <1>3 DEF NextIn
  <2>2. CASE l2 = l
    BY <1>3, <2>1, <2>2
  <2>3. CASE l2 = Del(l, k)
    <3>1. Len(l2) = n - 1
      BY <2>3, DelFacts
    <3>2. \A i \in 1..(n - 1) : l2[i] = IF i < k THEN l[i] ELSE l[i + 1]
      BY <2>3 DEF Del
    <3> HIDE DEF n
    <3>3. k \in 1..Len(l2) /\ l2[k] = l[k + 1]
      <4>1. k \in 1..(n - 1) /\ ~(k < k)
        BY <1>1, <2>1
      <4> QED
        BY <3>1, <3>2, <4>1
    <3>4. From(l2, k) = From(l, k + 1)
      <4>1. From(l2, k) = [i \in 1..((n - 1) - k + 1) |-> l2[k + i - 1]]
        BY <3>1 DEF From
      <4>2. From(l, k + 1) = [i \in 1..(n - (k + 1) + 1) |-> l[(k + 1) + i - 1]]
        BY DEF From, n
      <4>3. /\ (n - 1) - k + 1 = n - k /\ n - (k + 1) + 1 = n - k
            /\ \A i \in 1..(n - k) : /\ k + i - 1 \in 1..(n - 1) /\ ~(k + i - 1 < k)
                                    /\ (k + i - 1) + 1 = (k + 1) + i - 1
        BY <1>1
      <4>4. \A i \in 1..(n - k) : l2[k + i - 1] = l[(k + 1) + i - 1]
        BY <3>2, <4>3
      <4> QED
        BY <4>1, <4>2, <4>3, <4>4
    <3> QED
      BY <1>3, <2>1, <3>3, <3>4
  <2> QED
    BY <2>2, <2>3
<1> QED
  BY <1>2, <1>3

(* An item of the hash has a place in its order. *)
LEMMA SourceNext ==
  ASSUME NEW l, Source(src, l), NEW e \in Items
  PROVE  e \in Members(l) => src.head # NULL /\ \E k \in 1..Len(l) : e = l[k]
<1>1. l \in Seq(Items) /\ Strung(src.prev, src.next, l, src.head)
  BY DEF Source, Good, Strung
<1>2. e \in Members(l) => l # <<>>
  BY <1>1, MembersItems
<1>3. l # <<>> => src.head # NULL
  BY <1>1, StrungHead
<1> QED
  BY <1>2, <1>3 DEF Members

(* Changes of the source hash, of the selected one, or of neither. *)
LEMMA SourceStays ==
  ASSUME NEW h, NEW l, Source(h, l), src' = h, hashf' = hashf
  PROVE  Source(src, l)'
BY DEF Source, Good, Bucketed, Held, Slot

(* A hash that nothing touches. *)
LEMMA GoodStays ==
  ASSUME NEW d, NEW l, Good(d, l), dst' = d, hashf' = hashf
  PROVE  Good(dst, l)'
BY DEF Good, Bucketed, Held, Slot

(* A change of src by anything that leaves a hash. *)
LEMMA ChangeStep ==
  ASSUME IInv, NEW h, NEW l, Source(h, l), Change(h)
  PROVE  IInv'
<1>1. src' = h /\ el = NULL /\ dst = Empty /\ el' = el /\ tmp' = tmp /\ dst' = dst /\ hashf' = hashf
  BY DEF Change
<1>2. (hashf \in HASH_FCN /\ el \in Ptr /\ tmp \in Ptr)'
  BY <1>1 DEF IInv
<1>3. Source(src, l)'
  BY <1>1, SourceStays
<1>4. Looping(l)'
  BY <1>1 DEF Looping
<1>5. Selected(l)'
  <2>1. Good(Empty, <<>>) /\ Empty.head = NULL
    BY EmptyIs DEF Source, Empty
  <2>2. Good(dst, <<>>)' /\ dst'.head = NULL
    BY <1>1, <2>1, GoodStays
  <2> QED
    BY <2>2 DEF Selected
<1> QED
  BY <1>2, <1>3, <1>4, <1>5 DEF IInv

(* The body of a loop deletes the item at hand, or leaves it. *)
LEMMA BodyIs ==
  ASSUME hashf \in HASH_FCN, NEW l, Source(src, l), NEW k \in 1..Len(l),
         src' = src \/ src' = Delete(src, l[k])
  PROVE  \E l2 : /\ Source(src', l2)
                 /\ \/ src' = src /\ l2 = l
                    \/ l2 = Del(l, k)
<1>1. CASE src' = src
  BY <1>1
<1>2. CASE src' = Delete(src, l[k])
  <2>1. l \in Seq(Items)
    BY DEF Source, Good, Strung
  <2>2. l[k] \in Items /\ l[k] \in Members(l)
    BY <2>1, EndFacts
  <2>3. src.head # NULL
    BY <2>2, SourceNext
  <2>4. Source(Delete(src, l[k]), Del(l, k))
    BY <2>3, DeleteIs
  <2> QED
    BY <1>2, <2>4
<1> QED
  BY <1>1, <1>2

(* No step of the application breaks it: one case per operation. *)
LEMMA IInvNext == IInv /\ [Next]_vars => IInv'
<1> SUFFICES ASSUME IInv, [Next]_vars PROVE IInv'
  OBVIOUS
<1>1. PICK l : Source(src, l) /\ Looping(l) /\ Selected(l)
  BY DEF IInv
<1>2. /\ hashf \in HASH_FCN /\ el \in Ptr /\ tmp \in Ptr
      /\ Good(src, l) /\ l \in Seq(Items) /\ Members(l) \subseteq Items /\ Distinct(l)
  <2>1. Good(src, l) /\ l \in Seq(Items) /\ Distinct(l)
    BY <1>1 DEF Source, Good, Strung
  <2> QED
    BY <2>1, MembersItems DEF IInv
<1>3. ASSUME NEW e \in Items, HashAdd(e) PROVE IInv'
  <2>1. AbsentKey(e, Members(l))
    <3>1. Find(src, KeyOf[e]) = NULL
      BY <1>3 DEF HashAdd
    <3> QED
      BY <1>2, <3>1, FindKey, UthashAssumption
  <2>2. \A r \in {Add(src, e), AddInorder(src, e)} : \E l2 : Source(r, l2)
    BY <1>1, <1>2, <2>1, AddIs
  <2>3. PICK h \in {Add(src, e), AddInorder(src, e)} : Change(h)
    BY <1>3 DEF HashAdd
  <2> QED
    BY <2>2, <2>3, ChangeStep
<1>4. ASSUME NEW e \in Items, HashReplace(e) PROVE IInv'
  <2>1. \A r \in {Replace(src, e), ReplaceInorder(src, e)} : \E l2 : Source(r, l2)
    BY <1>1, <1>2, ReplaceIs
  <2>2. PICK h \in {Replace(src, e), ReplaceInorder(src, e)} : Change(h)
    BY <1>4 DEF HashReplace
  <2> QED
    BY <2>1, <2>2, ChangeStep
<1>5. ASSUME NEW e \in Items, HashDel(e) PROVE IInv'
  <2>1. e \in Members(l)
    <3>1. Find(src, KeyOf[e]) = e /\ e # NULL
      BY <1>5, UthashAssumption DEF HashDel
    <3> QED
      BY <1>2, <3>1, FindKey
  <2>2. PICK k \in 1..Len(l) : e = l[k]
    BY <2>1 DEF Members
  <2>3. Source(Delete(src, e), Del(l, k))
    BY <1>1, <1>2, <2>1, <2>2, SourceNext, DeleteIs
  <2>4. Change(Delete(src, e))
    BY <1>5 DEF HashDel
  <2> QED
    BY <2>3, <2>4, ChangeStep
<1>6. ASSUME HashSort PROVE IInv'
  <2>1. \E l2 : Source(Srt(src), l2)
    BY <1>1, SrtIs
  <2> QED
    BY <1>6, <2>1, ChangeStep DEF HashSort
<1>7. ASSUME HashClear PROVE IInv'
  BY <1>7, EmptyIs, ChangeStep DEF HashClear, Clear
<1>8. ASSUME NEW i \in Items, HashSelect(Rank[i]) PROVE IInv'
  <2> DEFINE r == Rank[i]
  <2>1. /\ el = NULL /\ dst = Empty /\ dst' = Select(Empty, src, r)
        /\ src' = src /\ hashf' = hashf /\ el' = el /\ tmp' = tmp
    BY <1>8 DEF HashSelect
  <2>2. PICK ld : Good(Select(Empty, src, r), ld) /\ Members(ld) = UpTo(Members(l), r)
    BY <1>2, SelectIs
  <2>3. Good(dst, ld)'
    BY <2>1, <2>2, GoodStays
  <2>4. Selected(l)'
    BY <2>2, <2>3 DEF Selected
  <2>5. Source(src, l)'
    BY <1>1, <2>1, SourceStays
  <2>6. Looping(l)'
    BY <2>1 DEF Looping
  <2> QED
    BY <1>2, <2>1, <2>4, <2>5, <2>6 DEF IInv
<1>9. ASSUME dst' = Empty \/ dst' = dst, src' = src, hashf' = hashf, el' = el, tmp' = tmp
      PROVE  IInv'
  <2>1. Source(src, l)'
    BY <1>1, <1>9, SourceStays
  <2>2. Looping(l)'
    BY <1>1, <1>9 DEF Looping
  <2>3. Selected(l)'
    <3>1. CASE dst' = dst
      <4>1. PICK ld : /\ Good(dst, ld)
                      /\ dst.head # NULL => \E i \in Items : Members(ld) = UpTo(Members(l), Rank[i])
        BY <1>1 DEF Selected
      <4>2. Good(dst, ld)'
        BY <1>9, <3>1, <4>1, GoodStays
      <4> QED
        BY <3>1, <4>1, <4>2 DEF Selected
    <3>2. CASE dst' = Empty
      <4>1. Good(Empty, <<>>) /\ Empty.head = NULL
        BY EmptyIs DEF Source, Empty
      <4>2. Good(dst, <<>>)' /\ dst'.head = NULL
        BY <1>9, <3>2, <4>1, GoodStays
      <4> QED
        BY <4>2 DEF Selected
    <3> QED
      BY <1>9, <3>1, <3>2
  <2> QED
    BY <1>2, <1>9, <2>1, <2>2, <2>3 DEF IInv
<1>10. ASSUME HashClearSelected PROVE IInv'
  BY <1>9, <1>10 DEF HashClearSelected, Clear
<1>11. ASSUME IterStart PROVE IInv'
  <2>1. /\ el = NULL /\ dst = Empty /\ el' = src.head /\ tmp' = After(src, src.head)
        /\ src' = src /\ dst' = dst /\ hashf' = hashf
    BY <1>11 DEF IterStart
  <2>2. src.head \in Ptr /\ (src.head # NULL => 1 \in 1..Len(l) /\ src.head = l[1])
    <3>1. Strung(src.prev, src.next, l, src.head)
      BY <1>2 DEF Good
    <3>2. src.head \in Ptr /\ (src.head = NULL <=> l = <<>>) /\ (l # <<>> => src.head = l[1])
      BY <3>1, StrungHead
    <3>3. l # <<>> => 1 \in 1..Len(l)
      BY <1>2, EndFacts
    <3> QED
      BY <3>2, <3>3
  <2>3. /\ tmp' \in Ptr
        /\ el' # NULL => \E k \in 1..Len(l) : el' = l[k] /\ tmp' = NextIn(l, k)
    <3>1. CASE src.head = NULL
      BY <1>1, <2>1, <3>1, AfterIs DEF Ptr
    <3>2. CASE src.head # NULL
      BY <1>1, <2>1, <2>2, <3>2, AfterIs
    <3> QED
      BY <3>1, <3>2
  <2>4. Source(src, l)'
    BY <1>1, <2>1, SourceStays
  <2>5. Looping(l)'
    BY <2>1, <2>3 DEF Looping
  <2>6. Selected(l)'
    <3>1. Good(Empty, <<>>) /\ Empty.head = NULL
      BY EmptyIs DEF Source, Empty
    <3>2. Good(dst, <<>>)' /\ dst'.head = NULL
      BY <2>1, <3>1, GoodStays
    <3> QED
      BY <3>2 DEF Selected
  <2> QED
    BY <1>2, <2>1, <2>2, <2>3, <2>4, <2>5, <2>6 DEF IInv
<1>12. ASSUME IterStep PROVE IInv'
  <2>1. /\ el # NULL /\ (src' = src \/ src' = Delete(src, el))
        /\ el' = tmp /\ tmp' = After(src', tmp) /\ dst' = dst /\ hashf' = hashf
    BY <1>12 DEF IterStep
  <2>2. PICK k \in 1..Len(l) : el = l[k] /\ tmp = NextIn(l, k)
    BY <1>1, <2>1 DEF Looping
  <2>3. dst = Empty
    BY <1>1, <2>1 DEF Looping
  <2>4. PICK l2 : Source(src', l2) /\ (l2 = l \/ l2 = Del(l, k))
    BY <1>1, <1>2, <2>1, <2>2, BodyIs
  <2>5. tmp' \in Ptr /\ (tmp # NULL => \E j \in 1..Len(l2) : tmp = l2[j] /\ tmp' = NextIn(l2, j))
    <3>1. CASE tmp = NULL
      BY <2>1, <2>4, <3>1, AfterIs DEF Ptr
    <3>2. CASE tmp # NULL
      <4>1. PICK j \in 1..Len(l2) : tmp = l2[j]
        BY <1>2, <2>2, <2>4, <3>2, NextKept
      <4>2. tmp' = NextIn(l2, j) /\ NextIn(l2, j) \in Ptr
        BY <2>1, <2>4, <4>1, AfterIs
      <4> QED
        BY <4>1, <4>2
    <3> QED
      BY <3>1, <3>2
  <2>6. Source(src, l2)'
    BY <2>1, <2>4, SourceStays
  <2>7. Looping(l2)'
    BY <2>1, <2>3, <2>5 DEF Looping
  <2>8. Selected(l2)'
    <3>1. Good(Empty, <<>>) /\ Empty.head = NULL
      BY EmptyIs DEF Source, Empty
    <3>2. Good(dst, <<>>)' /\ dst'.head = NULL
      BY <2>1, <2>3, <3>1, GoodStays
    <3> QED
      BY <3>2 DEF Selected
  <2> QED
    BY <1>2, <2>1, <2>5, <2>6, <2>7, <2>8 DEF IInv
<1>13. CASE UNCHANGED vars
  BY <1>9, <1>13 DEF vars
<1> QED
  BY <1>3, <1>4, <1>5, <1>6, <1>7, <1>8, <1>10, <1>11, <1>12, <1>13 DEF Next

----------------------------------------------------------------------------
(* The theorems *)

(* The types follow. *)
LEMMA GoodTyped ==
  ASSUME NEW h, NEW l, Good(h, l)
  PROVE  TypeOKHash(h)
<1>1. /\ h \in Handle /\ h.head \in Ptr /\ {h.prev, h.next, h.hh_prev, h.hh_next} \subseteq Field
      /\ Strung(h.prev, h.next, l, h.head) /\ (h.head = NULL => h.tbl = NULL)
  BY DEF Good, Handle
<1>2. ASSUME h.head # NULL
      PROVE  /\ h.tbl.log2_num_buckets \in Nat
             /\ h.tbl \in Table(h.tbl.log2_num_buckets)
             /\ h.tbl.tail \in Items
             /\ h.tbl.num_items \in 1..Cardinality(Items)
             /\ h.tbl.noexpand = (h.tbl.ineff_expands > 1)
  <2>1. h.tbl \in Tables /\ h.tbl.num_items = Len(l) /\ h.tbl.tail \in Items
        /\ h.tbl.noexpand = (h.tbl.ineff_expands > 1)
    BY <1>2 DEF Good, Bucketed, GivenUp
  <2>2. l \in Seq(Items) /\ Distinct(l) /\ l # <<>>
    <3>1. l # <<>>
      BY <1>1, <1>2, StrungHead
    <3> QED
      BY <1>1, <3>1 DEF Strung
  <2>3. Len(l) \in Nat /\ Cardinality(Items) \in Nat /\ Len(l) <= Cardinality(Items)
    BY <2>2, NoMoreThanItems
  <2>4. Len(l) # 0
    BY <2>2, EndFacts
  <2>5. Len(l) \in 1..Cardinality(Items)
    BY <2>3, <2>4
  <2> QED
    BY <2>1, <2>5, TableFacts
<1> QED
  BY <1>1, <1>2 DEF TypeOKHash

(* A strung list has its links back and no repetitions. *)
LEMMA StrungBack ==
  ASSUME NEW bk, NEW fw, NEW q, NEW first, Strung(bk, fw, q, first)
  PROVE  BackLinked(bk, q) /\ IsInjective(q)
<1>1. /\ DOMAIN q = 1..Len(q) /\ Distinct(q)
      /\ \A i \in 1..Len(q) : bk[q[i]] = IF i = 1 THEN NULL ELSE q[i - 1]
  BY MembersItems DEF Strung
<1> QED
  BY <1>1 DEF BackLinked, IsInjective, Distinct

(* What HASH_FSCK tests, and more, follows. *)
LEMMA GoodIntact ==
  ASSUME hashf \in HASH_FCN, NEW h, NEW l, Good(h, l)
  PROVE  Intact(h)
<1> SUFFICES ASSUME h.head # NULL
             PROVE  /\ \A b \in DOMAIN h.tbl.buckets :
                         /\ BackLinked(h.hh_prev, Chain(h, b))
                         /\ h.tbl.buckets[b].count = Len(Chain(h, b))
                         /\ \A i \in ToSet(Chain(h, b)) : BktOf(h, KeyOf[i]) = b
                    /\ BackLinked(h.prev, AppList(h))
                    /\ IsInjective(AppList(h)) /\ IsInjective(BucketOrder(h))
                    /\ ToSet(AppList(h)) = ToSet(BucketOrder(h))
                    /\ Len(AppList(h)) = Count(h)
  BY DEF Intact
<1>1. /\ Strung(h.prev, h.next, l, h.head) /\ l \in Seq(Items) /\ AppList(h) = l
      /\ \E c : Bucketed(h, c, Members(l))
      /\ h.tbl.num_items = Len(l)
  BY AppListIs DEF Good, Strung
<1>2. PICK c : Bucketed(h, c, Members(l))
  BY <1>1
<1> DEFINE n == h.tbl.num_buckets
           B == h.tbl.buckets
<1>3. /\ h.tbl \in Tables /\ Held(B, h.hh_prev, h.hh_next, n, c, Members(l))
  BY <1>2 DEF Bucketed
<1>4. DOMAIN B = 0..(n - 1)
  BY <1>3, TableFacts
<1>5. Members(l) \in SUBSET Items /\ ToSet(l) = Members(l)
  BY <1>1, MembersItems
<1>6. ASSUME NEW b \in 0..(n - 1)
      PROVE  /\ BackLinked(h.hh_prev, Chain(h, b))
             /\ B[b].count = Len(Chain(h, b))
             /\ \A i \in ToSet(Chain(h, b)) : BktOf(h, KeyOf[i]) = b
  <2> DEFINE q == Chain(h, b)
  <2>1. q = c[b]
    BY <1>2, ChainIs
  <2>2. /\ Strung(h.hh_prev, h.hh_next, q, B[b].hh_head) /\ B[b].count = Len(q)
        /\ \A x \in Items : x \in Members(q) => Slot(x, n) = b
    BY <1>3, <2>1 DEF Held
  <2> HIDE DEF q
  <2>3. q \in Seq(Items) /\ ToSet(q) = Members(q) /\ Members(q) \subseteq Items
    BY <2>2, MembersItems DEF Strung
  <2>4. BackLinked(h.hh_prev, q)
    BY <2>2, StrungBack
  <2>5. \A i \in ToSet(q) : BktOf(h, KeyOf[i]) = b
    BY <2>2, <2>3 DEF BktOf, Slot
  <2> QED
    BY <2>2, <2>4, <2>5 DEF q
<1>7. /\ BucketOrder(h) \in Seq(Items) /\ Distinct(BucketOrder(h))
      /\ Members(BucketOrder(h)) = Members(l)
  BY <1>2, <1>5, OrderIs
<1>8. IsInjective(BucketOrder(h)) /\ ToSet(BucketOrder(h)) = Members(l)
  <2> DEFINE o == BucketOrder(h)
  <2>1. o \in Seq(Items) /\ Distinct(o) /\ Members(o) = Members(l)
    BY <1>7
  <2> HIDE DEF o
  <2>2. DOMAIN o = 1..Len(o) /\ ToSet(o) = Members(o)
    BY <2>1, MembersItems
  <2>3. IsInjective(o)
    BY <2>1, <2>2 DEF IsInjective, Distinct
  <2> QED
    BY <2>1, <2>2, <2>3 DEF o
<1>9. BackLinked(h.prev, l) /\ IsInjective(l)
  BY <1>1, StrungBack
<1>10. Len(l) = Count(h)
  BY <1>1 DEF Count
<1> QED
  BY <1>1, <1>4, <1>5, <1>6, <1>8, <1>9, <1>10

(* HASH_FIND of a key finds the item in the hash that has it. *)
LEMMA FindExactly ==
  ASSUME hashf \in HASH_FCN, NEW h, NEW l, Good(h, l), Unique(Members(l)), NEW i \in Items
  PROVE  Find(h, KeyOf[i]) = i <=> i \in Members(l)
<1>1. \/ Find(h, KeyOf[i]) = NULL /\ AbsentKey(i, Members(l))
      \/ Find(h, KeyOf[i]) \in Members(l) /\ KeyOf[Find(h, KeyOf[i])] = KeyOf[i]
  BY FindKey
<1> QED
  BY <1>1, UthashAssumption DEF AbsentKey, Unique

(* Every state of every behaviour has it. *)
LEMMA Inductive == Spec => []IInv
BY IInvInit, IInvNext, PTL DEF Spec

(* Types: pointers are to items, NULL, or in freed blocks only; the number of *)
(* buckets is the power of two its log says; num_items is never 0 in a hash   *)
(* that has a table; and noexpand is set by two ineffective expansions.       *)
THEOREM TypeCorrect == Spec => []TypeOK
<1>1. IInv => TypeOK
  <2> SUFFICES ASSUME IInv PROVE TypeOK
    OBVIOUS
  <2>1. PICK l, ld : Source(src, l) /\ Good(dst, ld)
    BY DEF IInv, Selected
  <2>2. TypeOKHash(src) /\ TypeOKHash(dst)
    BY <2>1, GoodTyped DEF Source
  <2> QED
    BY <2>2 DEF TypeOK, IInv
<1> QED
  BY <1>1, Inductive, PTL

(* HASH_FSCK would never find anything, whatever is added, replaced, deleted, *)
(* sorted or looped over: both links of both lists agree, counts are right,   *)
(* each item is in the bucket of its hash value, and tail is the end.         *)
THEOREM Intactness == Spec => []HashIntact
<1>1. IInv => HashIntact
  <2> SUFFICES ASSUME IInv PROVE HashIntact
    OBVIOUS
  <2>1. PICK l : Source(src, l)
    BY DEF IInv
  <2>2. Good(src, l) /\ hashf \in HASH_FCN
    BY <2>1 DEF Source, IInv
  <2>3. Intact(src)
    BY <2>2, GoodIntact
  <2>4. src.head # NULL => src.tbl.tail = Last(AppList(src))
    BY <2>1, <2>2, AppListIs DEF Source, Last
  <2> QED
    BY <2>3, <2>4 DEF HashIntact
<1> QED
  BY <1>1, Inductive, PTL

(* HASH_FIND finds an item exactly while it is in the hash, for every hash  *)
(* function and through every doubling of the buckets.                      *)
THEOREM Finding == Spec => []FindsAll
<1>1. IInv => FindsAll
  <2> SUFFICES ASSUME IInv, NEW i \in Items
               PROVE  (Find(src, KeyOf[i]) = i) = (i \in ToSet(AppList(src)))
    BY DEF FindsAll
  <2>1. PICK l : Source(src, l)
    BY DEF IInv
  <2>2. Good(src, l) /\ hashf \in HASH_FCN /\ Unique(Members(l)) /\ l \in Seq(Items)
    BY <2>1 DEF Source, IInv, Good, Strung
  <2>3. Find(src, KeyOf[i]) = i <=> i \in Members(l)
    BY <2>2, FindExactly
  <2>4. AppList(src) = l /\ ToSet(l) = Members(l)
    BY <2>2, AppListIs, MembersItems
  <2> QED
    BY <2>3, <2>4
<1> QED
  BY <1>1, Inductive, PTL

(* No chain is longer than its bucket's limit until expansion is given up: the *)
(* count is compared with the limit when an item enters, the limit is made     *)
(* anew by an expansion, and a deletion only makes a chain shorter.            *)
THEOREM ChainLength == Spec => []ChainsBounded
<1>1. IInv => ChainsBounded
  BY DEF IInv, Source, Bounded, ChainsBounded
<1> QED
  BY <1>1, Inductive, PTL

(* HASH_SELECT: the second hash is intact over the same items, and finds just *)
(* those of src that its condition is true of.                                *)
THEOREM Selection == Spec => []SelectedIntact
<1>1. IInv => SelectedIntact
  <2> SUFFICES ASSUME IInv PROVE SelectedIntact
    OBVIOUS
  <2>1. PICK l, ld : /\ Source(src, l) /\ Good(dst, ld)
                     /\ dst.head # NULL =>
                          \E i \in Items : Members(ld) = UpTo(Members(l), Rank[i])
    BY DEF IInv, Selected
  <2>2. hashf \in HASH_FCN /\ Good(src, l) /\ Unique(Members(l))
    BY <2>1 DEF IInv, Source
  <2>3. Intact(dst)
    BY <2>1, <2>2, GoodIntact
  <2>4. ASSUME dst.head # NULL
        PROVE  \E r \in {Rank[i] : i \in Items} :
                 \A i \in Items : (Find(dst, KeyOf[i]) = i) = (Find(src, KeyOf[i]) = i /\ Rank[i] <= r)
    <3>1. PICK j \in Items : Members(ld) = UpTo(Members(l), Rank[j])
      BY <2>1, <2>4
    <3>2. Unique(Members(ld))
      BY <2>2, <3>1 DEF Unique, UpTo
    <3>3. ASSUME NEW i \in Items
          PROVE  (Find(dst, KeyOf[i]) = i) = (Find(src, KeyOf[i]) = i /\ Rank[i] <= Rank[j])
      <4>1. Find(dst, KeyOf[i]) = i <=> i \in Members(ld)
        BY <2>1, <2>2, <3>2, FindExactly
      <4>2. Find(src, KeyOf[i]) = i <=> i \in Members(l)
        BY <2>2, FindExactly
      <4>3. i \in Members(ld) <=> i \in Members(l) /\ Rank[i] <= Rank[j]
        BY <3>1 DEF UpTo
      <4> QED
        BY <4>1, <4>2, <4>3
    <3> QED
      BY <3>3
  <2> QED
    BY <2>3, <2>4 DEF SelectedIntact
<1> QED
  BY <1>1, Inductive, PTL

----------------------------------------------------------------------------
(* The refinement: OrderedDict's list is the application order, and todo is *)
(* what is left of it for the loop.                                         *)

(* The abstract state. *)
List == AppList(src)
Todo == IF el = NULL THEN <<>> ELSE <<el>> \o Walk(src.next, tmp)

(* What a loop has still to visit is the list from the item at hand on. *)
LEMMA TodoIs ==
  ASSUME NEW h, NEW l, Source(h, l), NEW k \in 1..Len(l)
  PROVE  /\ <<l[k]>> \o Walk(h.next, NextIn(l, k)) = From(l, k)
         /\ From(l, k) # <<>> /\ Head(From(l, k)) = l[k]
         /\ Tail(From(l, k)) = IF k = Len(l) THEN <<>> ELSE From(l, k + 1)
<1> DEFINE n == Len(l)
           rest == IF k = n THEN <<>> ELSE From(l, k + 1)
<1>1. /\ h.next \in Field /\ l \in Seq(Items) /\ Distinct(l) /\ Onward(h.next, l, h.head)
      /\ n \in Nat /\ k \in 1..n /\ l[k] \in Items
  <2>1. /\ h.next \in Field /\ l \in Seq(Items) /\ Distinct(l) /\ Onward(h.next, l, h.head)
    BY DEF Source, Good, Handle, Strung
  <2> QED
    BY <2>1, EndFacts
<1>2. From(l, k) = <<l[k]>> \o rest
  BY <1>1, FromFacts
<1>3. rest \in Seq(Items) /\ Distinct(rest) /\ Onward(h.next, rest, NextIn(l, k))
  <2>1. CASE k = n
    <3>1. rest = <<>> /\ Len(<<>>) = 0 /\ \A i \in 1..0 : FALSE
      BY <2>1
    <3>2. NextIn(l, k) = NULL
      BY <2>1 DEF NextIn
    <3> HIDE DEF rest, n
    <3> QED
      BY <3>1, <3>2 DEF Distinct, Onward
  <2>2. CASE k # n
    <3> DEFINE m == n - k
    <3>1. m \in Nat \ {0} /\ k + 1 \in 1..n /\ n - (k + 1) + 1 = m
      BY <1>1, <2>2
    <3>2. rest \in Seq(Items) /\ Len(rest) = m
      <4>1. rest = From(l, k + 1)
        BY <2>2
      <4>2. From(l, k + 1) \in Seq(Items) /\ Len(From(l, k + 1)) = n - (k + 1) + 1
        BY <1>1, <3>1, FromFacts
      <4> QED
        BY <3>1, <4>1, <4>2
    <3>3. \A i \in 1..m : rest[i] = l[k + i] /\ k + i \in 1..n
      <4>1. rest = [i \in 1..m |-> l[(k + 1) + i - 1]]
        BY <2>2, <3>1 DEF From
      <4>2. \A i \in 1..m : (k + 1) + i - 1 = k + i /\ k + i \in 1..n
        BY <1>1
      <4> HIDE DEF m, rest
      <4> QED
        BY <4>1, <4>2
    <3>4. NextIn(l, k) = rest[1]
      <4>1. 1 \in 1..m
        <5> HIDE DEF m
        <5> QED
          BY <3>1
      <4> HIDE DEF m, rest
      <4> QED
        BY <2>2, <3>3, <4>1 DEF NextIn
    <3>5. Distinct(rest)
      <4>1. ASSUME NEW i \in 1..m, NEW j \in 1..m, rest[i] = rest[j] PROVE i = j
        <5>1. k + i = k + j
          <6> HIDE DEF m, rest
          <6> QED
            BY <1>1, <3>3, <4>1 DEF Distinct
        <5> QED
          BY <1>1, <5>1
      <4> HIDE DEF m, rest
      <4> QED
        BY <3>2, <4>1 DEF Distinct
    <3>6. \A i \in 1..m : h.next[rest[i]] = IF i = m THEN NULL ELSE rest[i + 1]
      <4> TAKE i \in 1..m
      <4>1. /\ k + i \in 1..n /\ (i = m <=> k + i = n) /\ (i # m => i + 1 \in 1..m)
            /\ (k + i) + 1 = k + (i + 1)
        BY <1>1
      <4>2. h.next[l[k + i]] = IF k + i = n THEN NULL ELSE l[(k + i) + 1]
        BY <1>1, <4>1 DEF Onward
      <4> HIDE DEF m, rest, n
      <4> QED
        BY <3>3, <4>1, <4>2
    <3>7. rest # <<>>
      <4> HIDE DEF rest
      <4> QED
        BY <3>1, <3>2, EmptySeq
    <3> HIDE DEF m, rest, n
    <3> QED
      BY <3>2, <3>4, <3>5, <3>6, <3>7 DEF Onward
  <2> QED
    BY <2>1, <2>2
<1> HIDE DEF rest
<1>4. Walk(h.next, NextIn(l, k)) = rest
  BY <1>1, <1>3, WalkAlong
<1>5. /\ <<l[k]>> \o rest # <<>> /\ Head(<<l[k]>> \o rest) = l[k]
      /\ Tail(<<l[k]>> \o rest) = rest
  <2>1. l[k] \in Items
    BY <1>1
  <2> QED
    BY <1>3, <2>1
<1> QED
  BY <1>2, <1>4, <1>5 DEF rest

(* Of a loop that runs, and of none. *)
LEMMA TodoNow ==
  ASSUME NEW l, Source(src, l)
  PROVE  /\ el = NULL => Todo = <<>>
         /\ \A k \in 1..Len(l) : el = l[k] /\ tmp = NextIn(l, k) => Todo = From(l, k)
<1>1. ASSUME NEW k \in 1..Len(l), el = l[k], tmp = NextIn(l, k) PROVE Todo = From(l, k)
  <2>1. <<l[k]>> \o Walk(src.next, NextIn(l, k)) = From(l, k)
    BY TodoIs
  <2>2. el # NULL
    <3>1. l \in Seq(Items)
      BY DEF Source, Good, Strung
    <3> QED
      BY <1>1, <3>1, EndFacts, UthashAssumption
  <2> QED
    BY <1>1, <2>1, <2>2 DEF Todo
<1> QED
  BY <1>1 DEF Todo

(* The same in the next state. *)
LEMMA TodoNext ==
  ASSUME NEW l, Source(src', l)
  PROVE  /\ el' = NULL => Todo' = <<>>
         /\ \A k \in 1..Len(l) : el' = l[k] /\ tmp' = NextIn(l, k) => Todo' = From(l, k)
<1>1. ASSUME NEW k \in 1..Len(l), el' = l[k], tmp' = NextIn(l, k) PROVE Todo' = From(l, k)
  <2>1. <<l[k]>> \o Walk(src'.next, NextIn(l, k)) = From(l, k)
    BY TodoIs
  <2>2. el' # NULL
    <3>1. l \in Seq(Items)
      BY DEF Source, Good, Strung
    <3> QED
      BY <1>1, <3>1, EndFacts, UthashAssumption
  <2> QED
    BY <1>1, <2>1, <2>2 DEF Todo
<1> QED
  BY <1>1 DEF Todo

(* What the abstract operations look at, in terms of the order. *)
LEMMA DictLooks ==
  ASSUME NEW l, Source(src, l)
  PROVE  /\ List = l
         /\ \A e : Dict!In(e) <=> e \in Members(l)
         /\ \A e : AbsentKey(e, Members(l)) => Dict!Holding(KeyOf[e]) = {}
         /\ \A S : Members(l) \cap S = {} => Dict!Without(S) = l
         /\ \A k \in 1..Len(l) : \A S : Members(l) \cap S = {l[k]} => Dict!Place(S) = k /\ Dict!Without(S) = Del(l, k)
<1>1. /\ Good(src, l) /\ l \in Seq(Items) /\ Distinct(l) /\ List = l
      /\ Members(l) = ToSet(l) /\ DOMAIN l = 1..Len(l) /\ Len(l) \in Nat
  <2>1. Good(src, l) /\ l \in Seq(Items) /\ Distinct(l)
    BY DEF Source, Good, Strung
  <2> QED
    BY <2>1, AppListIs, MembersItems DEF List
<1>2. AppList(src) = l /\ \A s : Dict!ToSet(s) = ToSet(s)
  BY <1>1 DEF List, Dict!ToSet, ToSet
<1>3. \A e : Dict!In(e) <=> e \in Members(l)
  BY <1>1, <1>2 DEF Dict!In
<1>4. \A e : AbsentKey(e, Members(l)) => Dict!Holding(KeyOf[e]) = {}
  BY <1>1, <1>2 DEF Dict!Holding, AbsentKey
<1>5. \A S : Members(l) \cap S = {} => Dict!Without(S) = l
  BY <1>1, <1>2 DEF Dict!Without
<1>6. ASSUME NEW k \in 1..Len(l), NEW S, Members(l) \cap S = {l[k]}
      PROVE  Dict!Place(S) = k /\ Dict!Without(S) = Del(l, k)
  <2>1. \A j \in 1..Len(l) : l[j] \in S <=> j = k
    BY <1>1, <1>6 DEF Members, Distinct
  <2>2. {j \in DOMAIN l : l[j] \in S} = {k}
    BY <1>1, <2>1
  <2>3. Dict!Place(S) = Dict!Min({k})
    BY <1>2, <2>2 DEF Dict!Place
  <2>4. Dict!Min({k}) = k
    BY <1>1 DEF Dict!Min
  <2>5. Dict!Without(S) = Dict!RemoveAt(l, k)
    BY <1>1, <1>2, <1>6, <2>3, <2>4 DEF Dict!Without
  <2>6. Dict!RemoveAt(l, k) = RemoveAt(l, k)
    BY DEF Dict!RemoveAt, RemoveAt
  <2> QED
    BY <1>1, <2>3, <2>4, <2>5, <2>6, DelIs
<1> QED
  BY <1>1, <1>3, <1>4, <1>5, <1>6

(* A change of src, while no loop runs, to the hash of another order. *)
LEMMA DictChange ==
  ASSUME NEW l, Source(src, l), NEW h, NEW l2, Source(h, l2), Change(h)
  PROVE  List = l /\ List' = l2 /\ Todo = <<>> /\ Todo' = <<>>
<1>1. src' = h /\ el = NULL /\ el' = NULL
  BY DEF Change
<1>2. Todo = <<>> /\ List = l
  BY <1>1, TodoNow, DictLooks
<1>3. Source(src', l2) /\ Good(src', l2)
  BY <1>1 DEF Source
<1>4. List' = l2
  BY <1>3, AppListIs DEF List
<1> QED
  BY <1>1, <1>2, <1>3, <1>4, TodoNext

(* An operation on the abstract list, between loops. *)
LEMMA DictOperates ==
  ASSUME Todo = <<>>, Todo' = <<>>,
         \/ Dict!Clear
         \/ \E e \in Items : Dict!Add(e) \/ Dict!Replace(e) \/ Dict!Delete(e)
         \/ Dict!Sort
  PROVE  Dict!Next
BY DEF Dict!Next, Dict!Change, Todo

(* An addition, at the end or in order. *)
LEMMA DictAdd ==
  ASSUME IInv, NEW e \in Items, HashAdd(e)
  PROVE  Dict!Next
<1>1. PICK l : Source(src, l)
  BY DEF IInv
<1>2. Good(src, l) /\ l \in Seq(Items) /\ hashf \in HASH_FCN /\ Members(l) \subseteq Items
  <2>1. Good(src, l) /\ l \in Seq(Items)
    BY <1>1 DEF Source, Good, Strung
  <2> QED
    BY <2>1, MembersItems DEF IInv
<1>3. AbsentKey(e, Members(l))
  <2>1. Find(src, KeyOf[e]) = NULL
    BY DEF HashAdd
  <2> QED
    BY <1>2, <2>1, FindKey, UthashAssumption
<1>4. Source(Add(src, e), Dict!AtEnd(l, e)) /\ Source(AddInorder(src, e), Dict!InOrder(l, e))
  BY <1>1, <1>2, <1>3, AddIs
<1>5. PICK l2 \in {Dict!AtEnd(l, e), Dict!InOrder(l, e)} :
        List = l /\ List' = l2 /\ Todo = <<>> /\ Todo' = <<>>
  <2>1. CASE Change(Add(src, e))
    BY <1>1, <1>4, <2>1, DictChange
  <2>2. CASE Change(AddInorder(src, e))
    BY <1>1, <1>4, <2>2, DictChange
  <2> QED
    BY <2>1, <2>2 DEF HashAdd
<1>6. Dict!Add(e)
  <2>1. Dict!Holding(KeyOf[e]) = {}
    BY <1>1, <1>3, DictLooks
  <2> QED
    BY <1>5, <2>1 DEF Dict!Add, List
<1> QED
  BY <1>5, <1>6, DictOperates

(* An item replaced is the one that has the key. *)
LEMMA DictReplace ==
  ASSUME IInv, NEW e \in Items, HashReplace(e)
  PROVE  Dict!Next
<1>1. PICK l : Source(src, l)
  BY DEF IInv
<1>2. /\ Good(src, l) /\ l \in Seq(Items) /\ hashf \in HASH_FCN /\ Members(l) \subseteq Items
      /\ Unique(Members(l)) /\ Members(l) = ToSet(l) /\ List = l
  <2>1. Good(src, l) /\ l \in Seq(Items) /\ Unique(Members(l))
    BY <1>1 DEF Source, Good, Strung
  <2> QED
    BY <1>1, <2>1, MembersItems, DictLooks DEF IInv
<1>3. PICK l2 : /\ Rid(l, e, l2)
                /\ Source(Replace(src, e), Dict!AtEnd(l2, e))
                /\ Source(ReplaceInorder(src, e), Dict!InOrder(l2, e))
  BY <1>1, <1>2, ReplaceIs
<1>4. Dict!Without(Dict!Holding(KeyOf[e])) = l2
  <2> DEFINE S == Dict!Holding(KeyOf[e])
  <2>1. S = {i \in Members(l) : KeyOf[i] = KeyOf[e]}
    <3>1. AppList(src) = l /\ Dict!ToSet(l) = Members(l)
      BY <1>2 DEF List, Dict!ToSet, ToSet
    <3> QED
      BY <3>1 DEF Dict!Holding
  <2>2. CASE AbsentKey(e, Members(l)) /\ l2 = l
    <3>1. Members(l) \cap S = {}
      BY <2>1, <2>2 DEF AbsentKey
    <3> QED
      BY <1>1, <2>2, <3>1, DictLooks
  <2>3. ASSUME NEW k \in 1..Len(l), KeyOf[l[k]] = KeyOf[e], l2 = Del(l, k)
        PROVE  Dict!Without(S) = l2
    <3>1. l[k] \in Members(l)
      BY DEF Members
    <3>2. Members(l) \cap S = {l[k]}
      <4> HIDE DEF S
      <4> QED
        BY <1>2, <2>1, <2>3, <3>1 DEF Unique
    <3> QED
      BY <1>1, <2>3, <3>2, DictLooks
  <2> QED
    BY <1>3, <2>2, <2>3 DEF Rid
<1>5. ~Dict!In(e)
  <2>1. src.prev[e] = Wild
    BY DEF HashReplace
  <2>2. ASSUME NEW i \in 1..Len(l), e = l[i] PROVE FALSE
    <3>1. l[i] \in Items /\ src.prev[l[i]] = IF i = 1 THEN NULL ELSE l[i - 1]
      BY <1>2 DEF Good, Strung
    <3>2. i # 1 => i - 1 \in 1..Len(l)
      BY <1>2
    <3>3. i # 1 => l[i - 1] \in Items
      BY <1>2, <3>2, EndFacts
    <3> QED
      BY <2>1, <2>2, <3>1, <3>3, UthashAssumption
  <2>3. e \notin Members(l)
    BY <2>2 DEF Members
  <2> QED
    BY <1>1, <2>3, DictLooks
<1>6. PICK l3 \in {Dict!AtEnd(l2, e), Dict!InOrder(l2, e)} :
        List = l /\ List' = l3 /\ Todo = <<>> /\ Todo' = <<>>
  <2>1. CASE Change(Replace(src, e))
    BY <1>1, <1>3, <2>1, DictChange
  <2>2. CASE Change(ReplaceInorder(src, e))
    BY <1>1, <1>3, <2>2, DictChange
  <2> QED
    BY <2>1, <2>2 DEF HashReplace
<1>7. Dict!Replace(e)
  BY <1>4, <1>5, <1>6 DEF Dict!Replace, List
<1> QED
  BY <1>6, <1>7, DictOperates

(* A deletion takes out the item that is found. *)
LEMMA DictDelete ==
  ASSUME IInv, NEW e \in Items, HashDel(e)
  PROVE  Dict!Next
<1>1. PICK l : Source(src, l)
  BY DEF IInv
<1>2. Good(src, l) /\ l \in Seq(Items) /\ hashf \in HASH_FCN
  BY <1>1 DEF Source, Good, Strung, IInv
<1>3. e \in Members(l)
  <2>1. Find(src, KeyOf[e]) = e /\ e # NULL
    BY UthashAssumption DEF HashDel
  <2> QED
    BY <1>2, <2>1, FindKey
<1>4. PICK k \in 1..Len(l) : e = l[k]
  BY <1>3 DEF Members
<1>5. Source(Delete(src, e), Del(l, k))
  BY <1>1, <1>2, <1>3, <1>4, SourceNext, DeleteIs
<1>6. List = l /\ List' = Del(l, k) /\ Todo = <<>> /\ Todo' = <<>>
  <2>1. Change(Delete(src, e))
    BY DEF HashDel
  <2> QED
    BY <1>1, <1>5, <2>1, DictChange
<1>7. Dict!Without({e}) = Del(l, k) /\ Dict!In(e)
  <2>1. Members(l) \cap {e} = {l[k]}
    BY <1>3, <1>4
  <2> QED
    BY <1>1, <1>3, <2>1, DictLooks
<1>8. Dict!Delete(e)
  BY <1>6, <1>7 DEF Dict!Delete, List
<1> QED
  BY <1>6, <1>8, DictOperates

(* The mergesort is stable. *)
LEMMA DictSort ==
  ASSUME IInv, HashSort
  PROVE  Dict!Next
<1>1. PICK l : Source(src, l)
  BY DEF IInv
<1>2. PICK l2 : /\ Source(Srt(src), l2) /\ Members(l2) = Members(l)
                /\ \A i, j \in 1..Len(l2) : i < j => Prior(PlaceIn(l), l2[i], l2[j])
  BY <1>1, SrtIs
<1>3. /\ l \in Seq(Items) /\ Distinct(l) /\ l2 \in Seq(Items) /\ Distinct(l2)
  BY <1>1, <1>2 DEF Source, Good, Strung
<1>4. Len(l2) = Len(l)
  BY <1>2, <1>3, NoMoreThanItems
<1>5. List = l /\ List' = l2 /\ Todo = <<>> /\ Todo' = <<>>
  BY <1>1, <1>2, DictChange DEF HashSort
<1>6. /\ DOMAIN l = 1..Len(l) /\ Dict!ToSet(l) = Members(l)
      /\ DOMAIN l2 = 1..Len(l) /\ Dict!ToSet(l2) = Members(l)
  BY <1>2, <1>3, <1>4, MembersItems DEF Dict!ToSet, ToSet
<1>7. l2 \in [1..Len(l) -> Members(l)]
  <2>1. l2 \in [1..Len(l2) -> Items]
    BY <1>3, LenProperties
  <2> QED
    BY <1>2, <1>4, <2>1 DEF Members
<1>8. ASSUME NEW x \in Members(l) PROVE Dict!Place({x}) = PlaceIn(l)[x]
  <2>1. PICK k \in 1..Len(l) : x = l[k]
    BY <1>8 DEF Members
  <2>2. Members(l) \cap {x} = {l[k]}
    BY <1>8, <2>1
  <2>3. Dict!Place({x}) = k
    BY <1>1, <2>2, DictLooks
  <2> QED
    BY <1>3, <2>1, <2>3, PlaceFacts
<1>9. ASSUME NEW i \in 1..Len(l), NEW j \in 1..Len(l), i < j PROVE Dict!Precedes(l2[i], l2[j])
  <2>1. Prior(PlaceIn(l), l2[i], l2[j])
    BY <1>2, <1>4, <1>9
  <2>2. l2[i] \in Members(l) /\ l2[j] \in Members(l)
    BY <1>7
  <2> QED
    BY <1>8, <2>1, <2>2 DEF Dict!Precedes, Prior
<1>10. Dict!Sort
  BY <1>5, <1>6, <1>7, <1>9 DEF Dict!Sort, List
<1> QED
  BY <1>5, <1>10, DictOperates

(* HASH_CLEAR leaves no items. *)
LEMMA DictClear ==
  ASSUME IInv, HashClear
  PROVE  Dict!Next
<1>1. PICK l : Source(src, l)
  BY DEF IInv
<1>2. List = l /\ List' = <<>> /\ Todo = <<>> /\ Todo' = <<>>
  BY <1>1, EmptyIs, DictChange DEF HashClear, Clear
<1>3. Dict!Clear
  BY <1>2 DEF Dict!Clear, List
<1> QED
  BY <1>2, <1>3, DictOperates

(* A loop begins with all items before it. *)
LEMMA DictIterStart ==
  ASSUME IInv, IterStart
  PROVE  Dict!Next
<1>1. PICK l : Source(src, l)
  BY DEF IInv
<1>2. /\ el = NULL /\ el' = src.head /\ tmp' = After(src, src.head) /\ src' = src
  BY DEF IterStart
<1>3. Todo = <<>> /\ List = l /\ List' = l
  <2>1. Todo = <<>> /\ List = l
    BY <1>1, <1>2, TodoNow, DictLooks
  <2> QED
    BY <1>2, <2>1 DEF List
<1>4. /\ l \in Seq(Items) /\ (src.head = NULL <=> l = <<>>)
      /\ l # <<>> => src.head = l[1] /\ 1 \in 1..Len(l)
  <2>1. l \in Seq(Items) /\ Strung(src.prev, src.next, l, src.head)
    BY <1>1 DEF Source, Good, Strung
  <2> QED
    BY <2>1, StrungHead, EndFacts
<1>5. Source(src', l)
  BY <1>1, <1>2
<1>6. Todo' = l
  <2>1. CASE l = <<>>
    BY <1>2, <1>4, <1>5, <2>1, TodoNext
  <2>2. CASE l # <<>>
    <3>1. tmp' = NextIn(l, 1)
      BY <1>1, <1>2, <1>4, <2>2, AfterIs
    <3>2. Todo' = From(l, 1)
      BY <1>2, <1>4, <1>5, <2>2, <3>1, TodoNext
    <3>3. From(l, 1) = l
      <4> DEFINE n == Len(l)
                 f == From(l, 1)
      <4>1. n \in Nat /\ n - 1 + 1 = n /\ \A i \in 1..n : 1 + i - 1 = i
        BY <1>4, EndFacts
      <4>2. f = [i \in 1..(n - 1 + 1) |-> l[1 + i - 1]]
        BY DEF From
      <4>3. f \in Seq(Items) /\ Len(f) = n - 1 + 1
        BY <1>4, <2>2, FromFacts
      <4> HIDE DEF f
      <4>4. Len(f) = Len(l) /\ \A i \in 1..Len(l) : f[i] = l[i]
        <5> HIDE DEF n
        <5> QED
          BY <4>1, <4>2, <4>3 DEF n
      <4>5. f = l
        BY <1>4, <4>3, <4>4, SeqEqual
      <4> QED
        BY <4>5 DEF f
    <3> QED
      BY <3>2, <3>3
  <2> QED
    BY <2>1, <2>2
<1>7. Dict!IterStart
  BY <1>3, <1>6 DEF Dict!IterStart, List, Todo
<1> QED
  BY <1>7 DEF Dict!Next

(* A turn visits the first of what is left, and deletes it or not. *)
LEMMA DictIterStep ==
  ASSUME IInv, IterStep
  PROVE  Dict!Next
<1>1. PICK l : Source(src, l) /\ Looping(l)
  BY DEF IInv
<1>2. /\ el # NULL /\ (src' = src \/ src' = Delete(src, el))
      /\ el' = tmp /\ tmp' = After(src', tmp) /\ hashf \in HASH_FCN
  BY DEF IterStep, IInv
<1>3. PICK k \in 1..Len(l) : el = l[k] /\ tmp = NextIn(l, k)
  BY <1>1, <1>2 DEF Looping
<1>4. PICK l2 : Source(src', l2) /\ ((src' = src /\ l2 = l) \/ l2 = Del(l, k))
  BY <1>1, <1>2, <1>3, BodyIs
<1>5. l \in Seq(Items) /\ Distinct(l) /\ l[k] \in Members(l) /\ List = l
  <2>1. l \in Seq(Items) /\ Distinct(l)
    BY <1>1 DEF Source, Good, Strung
  <2> QED
    BY <1>1, <2>1, EndFacts, DictLooks
<1>6. /\ Todo = From(l, k) /\ Todo # <<>> /\ Head(Todo) = l[k]
      /\ Tail(Todo) = IF k = Len(l) THEN <<>> ELSE From(l, k + 1)
  BY <1>1, <1>3, TodoNow, TodoIs
<1>7. List' = l2
  <2>1. Good(src', l2)
    BY <1>4 DEF Source
  <2> QED
    BY <2>1, AppListIs DEF List
<1>8. Todo' = Tail(Todo)
  <2>1. CASE k = Len(l) /\ NextIn(l, k) = NULL
    BY <1>2, <1>3, <1>4, <1>6, <2>1, TodoNext
  <2>2. ASSUME k # Len(l), NEW j \in 1..Len(l2), NextIn(l, k) = l2[j], From(l2, j) = From(l, k + 1)
        PROVE  Todo' = Tail(Todo)
    <3>1. tmp' = NextIn(l2, j)
      BY <1>2, <1>3, <1>4, <2>2, AfterIs
    <3>2. Todo' = From(l2, j)
      BY <1>2, <1>3, <1>4, <2>2, <3>1, TodoNext
    <3> QED
      BY <1>6, <2>2, <3>2
  <2> QED
    BY <1>4, <1>5, <2>1, <2>2, NextKept
<1>9. List' = List \/ List' = Dict!Without({Head(Todo)})
  <2>1. CASE l2 = l
    BY <1>5, <1>7, <2>1
  <2>2. CASE l2 = Del(l, k)
    <3>1. Members(l) \cap {l[k]} = {l[k]}
      BY <1>5
    <3>2. Dict!Without({l[k]}) = Del(l, k)
      BY <1>1, <3>1, DictLooks
    <3> QED
      BY <1>6, <1>7, <2>2, <3>2
  <2> QED
    BY <1>4, <2>1, <2>2
<1>10. Dict!IterStep
  BY <1>6, <1>8, <1>9 DEF Dict!IterStep, List, Todo
<1> QED
  BY <1>10 DEF Dict!Next

(* No items and no loop at first. *)
LEMMA DictInit == Init => Dict!Init
<1> SUFFICES ASSUME Init PROVE Dict!Init
  OBVIOUS
<1>1. el = NULL /\ src = Empty
  BY DEF Init
<1>2. List = <<>> /\ Todo = <<>>
  BY <1>1, EmptyIs, DictLooks, TodoNow
<1> QED
  BY <1>2 DEF Dict!Init, List, Todo

(* Selections leave both the order and the loop alone. *)
LEMMA DictNext == IInv /\ [Next]_vars => [Dict!Next]_<<List, Todo>>
<1> SUFFICES ASSUME IInv, [Next]_vars PROVE [Dict!Next]_<<List, Todo>>
  OBVIOUS
<1>1. ASSUME NEW e \in Items, HashAdd(e) PROVE Dict!Next
  BY <1>1, DictAdd
<1>2. ASSUME NEW e \in Items, HashReplace(e) PROVE Dict!Next
  BY <1>2, DictReplace
<1>3. ASSUME NEW e \in Items, HashDel(e) PROVE Dict!Next
  BY <1>3, DictDelete
<1>4. CASE HashSort
  BY <1>4, DictSort
<1>5. CASE HashClear
  BY <1>5, DictClear
<1>6. ASSUME src' = src, el' = el, tmp' = tmp PROVE UNCHANGED <<List, Todo>>
  BY <1>6 DEF List, Todo
<1>7. ASSUME NEW i \in Items, HashSelect(Rank[i]) PROVE UNCHANGED <<List, Todo>>
  BY <1>6, <1>7 DEF HashSelect
<1>8. CASE HashClearSelected
  BY <1>6, <1>8 DEF HashClearSelected
<1>9. CASE IterStart
  BY <1>9, DictIterStart
<1>10. CASE IterStep
  BY <1>10, DictIterStep
<1>11. CASE UNCHANGED vars
  BY <1>6, <1>11 DEF vars
<1> QED
  BY <1>1, <1>2, <1>3, <1>4, <1>5, <1>7, <1>8, <1>9, <1>10, <1>11 DEF Next

(* To the application, the two lists, the buckets and their doubling are an   *)
(* ordered dictionary: an item goes to the end or before the first that ranks *)
(* higher, HASH_SRT is stable, and a loop visits each item that was there     *)
(* once though its body may delete it.                                        *)
THEOREM HashIsOrderedDict == Spec => ImplementsOrderedDict
<1>1. IInv /\ [Next]_vars => [Dict!Next]_<<List, Todo>>
  BY DictNext
<1> QED
  BY <1>1, DictInit, Inductive, PTL DEF Spec, ImplementsOrderedDict, Dict!Spec, List, Todo
=============================================================================
