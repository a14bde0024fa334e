------------------------------- MODULE Uthash -------------------------------
(***************************************************************************)
(* local_lib/uthash.h, the hash table under the descriptor dictionary, as  *)
(* wfedd builds it: no Bloom filter, and a failed malloc ends the process  *)
(* (uthash_fatal is exit(-1): a behaviour that stops there).               *)
(*                                                                         *)
(* A hash is the application's head pointer, the UT_hash_table, and the    *)
(* UT_hash_handle in each item: each field of the handles is a function    *)
(* from the items, as an item stands for its handle too.  Each item is on  *)
(* two lists: all items in application order (prev, next), and those of    *)
(* its bucket (hh_prev, hh_next).                                          *)
(*                                                                         *)
(* A loop is a function from numbers: the state after k turns.             *)
(***************************************************************************)
EXTENDS SequencesExt

CONSTANTS Items,        \* blocks of the application
          KeyOf, Rank,  \* the key in each, and how a cmpfcn ranks it
          HashValues,   \* values of HASH_VALUE
          NULL,
          Wild,         \* what a pointer in a freed block is
          HASH_INITIAL_NUM_BUCKETS_LOG2,
          HASH_BKT_CAPACITY_THRESH,
          MaxBuckets    \* bound: buckets double and are never given back

ASSUME UthashAssumption ==
  /\ HashValues \subseteq Nat
  /\ HASH_INITIAL_NUM_BUCKETS_LOG2 \in Nat
  /\ HASH_BKT_CAPACITY_THRESH \in Nat \ {0}
  /\ MaxBuckets \in Nat
  /\ IsFiniteSet(Items)
  /\ \A i \in Items : Rank[i] \in Int  \* a cmpfcn orders the items
  /\ NULL \notin Items /\ Wild \notin Items /\ NULL # Wild

VARIABLES src,     \* the hash
          dst,     \* a second one over the same items, made by HASH_SELECT
          hashf,   \* the hash function
          el, tmp  \* the variables of a HASH_ITER loop

vars == <<src, dst, hashf, el, tmp>>

Keys == {KeyOf[i] : i \in Items}
HASH_FCN == [Keys -> HashValues]  (* any function, in the place of HASH_JEN *)
Ptr == Items \cup {NULL}
Field == [Items -> Ptr \cup {Wild}]
Bucket == [hh_head : Ptr, count : Nat, expand_mult : Nat]
Bit[n \in Nat] == IF n = 0 THEN 1 ELSE 2 * Bit[n - 1]  (* 1 << n *)

(* nonideal_items is read in HASH_EXPAND_BUCKETS only, and is no state. *)
Table(k) ==
  [num_buckets : {Bit[k]}, log2_num_buckets : {k},
   buckets : [0..(Bit[k] - 1) -> Bucket], num_items : Nat, tail : Ptr,
   ideal_chain_maxlen : Nat, ineff_expands : Nat, noexpand : BOOLEAN]

Unlinked == [i \in Items |-> Wild]
Empty == [head |-> NULL, tbl |-> NULL, prev |-> Unlinked, next |-> Unlinked,
          hh_prev |-> Unlinked, hh_next |-> Unlinked]

TypeOKHash(h) ==
  /\ h.head \in Ptr
  /\ {h.prev, h.next, h.hh_prev, h.hh_next} \subseteq Field
  /\ h.head = NULL => h.tbl = NULL
  /\ h.head # NULL =>
       /\ h.tbl.log2_num_buckets \in Nat
       /\ h.tbl \in Table(h.tbl.log2_num_buckets)
       /\ h.tbl.tail \in Items
       /\ h.tbl.num_items \in 1..Cardinality(Items)
       /\ h.tbl.noexpand = (h.tbl.ineff_expands > 1)

TypeOK == /\ TypeOKHash(src) /\ TypeOKHash(dst)
          /\ hashf \in HASH_FCN
          /\ el \in Ptr /\ tmp \in Ptr

----------------------------------------------------------------------------
(* Pointers *)

(* p->field = v, where the code tests p for NULL first. *)
Put(field, p, v) == IF p = NULL THEN field ELSE [field EXCEPT ![p] = v]

(* Follows a field from p; a cycle shows as a walk longer than Items. *)
Walk(field, p) ==
  LET walk[n \in Nat] ==
        [q \in Ptr \cup {Wild} |->
           IF q \notin Items \/ n = 0 THEN <<>>
           ELSE <<q>> \o walk[n - 1][field[q]]]
  IN  walk[Cardinality(Items) + 1][p]

(* The first item of a list that is in S. *)
FirstIn(l, S) ==
  LET hits == {i \in DOMAIN l : l[i] \in S}
  IN  IF hits = {} THEN NULL ELSE l[Min(hits)]

(* s after n turns of a loop. *)
Turns(step(_), s, n) ==
  LET turn[k \in 0..n] == IF k = 0 THEN s ELSE step(turn[k - 1])
  IN  turn[n]

AppList(h) == Walk(h.next, h.head)
Chain(h, b) == Walk(h.hh_next, h.tbl.buckets[b].hh_head)

(* HASH_COUNT *)
Count(h) == IF h.head = NULL THEN 0 ELSE h.tbl.num_items

(* The chains of all buckets, one after the other. *)
BucketOrder(h) ==
  FlattenSeq([b \in 1..h.tbl.num_buckets |-> Chain(h, b - 1)])

----------------------------------------------------------------------------
(* Buckets *)

ToBkt(hashv, num_bkts) == hashv % num_bkts
BktOf(h, k) == ToBkt(hashf[k], h.tbl.num_buckets)

NoBuckets(n) ==
  [b \in 0..(n - 1) |-> [hh_head |-> NULL, count |-> 0, expand_mult |-> 0]]

MakeTable(e) ==
  [num_buckets |-> Bit[HASH_INITIAL_NUM_BUCKETS_LOG2],
   log2_num_buckets |-> HASH_INITIAL_NUM_BUCKETS_LOG2,
   buckets |-> NoBuckets(Bit[HASH_INITIAL_NUM_BUCKETS_LOG2]),
   num_items |-> 0, tail |-> e, ideal_chain_maxlen |-> 0,
   ineff_expands |-> 0, noexpand |-> FALSE]

FindInBkt(h, b, k) == FirstIn(Chain(h, b), {i \in Items : KeyOf[i] = k})

Find(h, k) == IF h.head = NULL THEN NULL ELSE FindInBkt(h, BktOf(h, k), k)

(* Mutations: the new bucket by the old number of buckets; its limit stays. *)
RehashOld(new, e, ideal) ==
  LET b == ToBkt(hashf[KeyOf[e]], Cardinality(DOMAIN new.buckets) \div 2)
      bkt == new.buckets[b]
      first == bkt.hh_head
  IN  [new EXCEPT !.buckets[b] = [bkt EXCEPT !.hh_head = e, !.count = @ + 1],
                  !.hh_next[e] = first,
                  !.hh_prev = Put([@ EXCEPT ![e] = NULL], first, e)]
RehashFlat(new, e, ideal) ==
  LET b == ToBkt(hashf[KeyOf[e]], Cardinality(DOMAIN new.buckets))
      bkt == new.buckets[b]
      first == bkt.hh_head
  IN  [new EXCEPT !.buckets[b] = [bkt EXCEPT !.hh_head = e, !.count = @ + 1],
                  !.nonideal = IF bkt.count >= ideal THEN @ + 1 ELSE @,
                  !.hh_next[e] = first,
                  !.hh_prev = Put([@ EXCEPT ![e] = NULL], first, e)]

(* One item of the double loop of HASH_EXPAND_BUCKETS, into its new bucket. *)
Rehash(new, e, ideal) ==
  LET b == ToBkt(hashf[KeyOf[e]], Cardinality(DOMAIN new.buckets))
      count == new.buckets[b].count + 1
      mult == new.buckets[b].expand_mult
      first == new.buckets[b].hh_head
  IN  [buckets |-> [new.buckets EXCEPT ![b] =
         [hh_head |-> e, count |-> count,
          expand_mult |-> IF count > ideal /\ count > mult * ideal
                          THEN mult + 1 ELSE mult]],
       nonideal |-> IF count > ideal THEN new.nonideal + 1 ELSE new.nonideal,
       hh_prev |-> Put([new.hh_prev EXCEPT ![e] = NULL], first, e),
       hh_next |-> [new.hh_next EXCEPT ![e] = first]]

(* ceil(items / buckets), for twice the buckets. *)
IdealMaxlen(t) ==
  (t.num_items \div Bit[t.log2_num_buckets + 1])
    + IF t.num_items % (t.num_buckets * 2) # 0 THEN 1 ELSE 0

(* All items into n new buckets, in the order of the old ones. *)
RehashAll(h, n, ideal) ==
  LET order == BucketOrder(h)
      new[k \in 0..Len(order)] ==
        IF k = 0 THEN [buckets |-> NoBuckets(n), nonideal |-> 0,
                       hh_prev |-> h.hh_prev, hh_next |-> h.hh_next]
        ELSE Rehash(new[k - 1], order[k], ideal)
  IN  new[Len(order)]

ExpandBuckets(h) ==
  LET t == h.tbl
      ideal == IdealMaxlen(t)
      new == RehashAll(h, 2 * t.num_buckets, ideal)
      ineff == IF new.nonideal > t.num_items \div 2
               THEN t.ineff_expands + 1 ELSE 0
  IN  [h EXCEPT !.hh_prev = new.hh_prev, !.hh_next = new.hh_next,
                !.tbl = [t EXCEPT !.buckets = new.buckets,
                                  !.num_buckets = @ * 2,
                                  !.log2_num_buckets = @ + 1,
                                  !.ideal_chain_maxlen = ideal,
                                  !.ineff_expands = ineff,
                                  !.noexpand = @ \/ ineff > 1]]

(* At the front of its bucket's chain. *)
Chained(h, e, b) ==
  LET bkt == h.tbl.buckets[b]
      first == bkt.hh_head
  IN  [h EXCEPT !.tbl.buckets[b] = [bkt EXCEPT !.count = @ + 1, !.hh_head = e],
                !.hh_next[e] = first,
                !.hh_prev = Put([@ EXCEPT ![e] = NULL], first, e)]

(* What the bucket's limit is made of; reaching it doubles the buckets. *)
AddToBkt(h, e) ==
  LET b == BktOf(h, KeyOf[e])
      added == Chained(h, e, b)
      bkt == added.tbl.buckets[b]
  IN  IF /\ bkt.count >= (bkt.expand_mult + 1) * HASH_BKT_CAPACITY_THRESH
         /\ ~h.tbl.noexpand
      THEN ExpandBuckets(added) ELSE added

(* Mutation: the next item keeps its way back. *)
DelInBktBack(h, b, e) ==
  LET bkt == h.tbl.buckets[b]
      p == h.hh_prev[e]
      n == h.hh_next[e]
  IN  [h EXCEPT
        !.tbl.buckets[b] = [bkt EXCEPT !.count = @ - 1,
                                       !.hh_head = IF @ = e THEN n ELSE @],
        !.hh_next = Put(@, p, n)]

DelInBkt(h, b, e) ==
  LET bkt == h.tbl.buckets[b]
      p == h.hh_prev[e]
      n == h.hh_next[e]
  IN  [h EXCEPT
        !.tbl.buckets[b] = [bkt EXCEPT !.count = @ - 1,
                                       !.hh_head = IF @ = e THEN n ELSE @],
        !.hh_next = Put(@, p, n), !.hh_prev = Put(@, n, p)]

----------------------------------------------------------------------------
(* Additions *)

(* The first item: it becomes the head of a table of its own. *)
First(h, e) ==
  [h EXCEPT !.head = e, !.tbl = MakeTable(e), !.prev[e] = NULL, !.next[e] = NULL]

AppendList(h, e) ==
  [h EXCEPT !.next = [@ EXCEPT ![e] = NULL, ![h.tbl.tail] = e],
            !.prev[e] = h.tbl.tail,
            !.tbl.tail = e]

InsertBefore(h, e, iter) ==
  LET p == h.prev[iter]
  IN  [h EXCEPT !.next = Put([@ EXCEPT ![e] = iter], p, e),
                !.prev = [@ EXCEPT ![e] = p, ![iter] = e],
                !.head = IF p = NULL THEN e ELSE @]

AddToTable(h, e) == AddToBkt([h EXCEPT !.tbl.num_items = @ + 1], e)

Add(h, e) ==
  AddToTable(IF h.head = NULL THEN First(h, e) ELSE AppendList(h, e), e)

(* Mutation: the first that ranks as high. *)
InnerLoopEqual(h, e) == FirstIn(AppList(h), {i \in Items : Rank[i] >= Rank[e]})

(* HASH_AKBI_INNER_LOOP: the first item that ranks higher. *)
InnerLoop(h, e) == FirstIn(AppList(h), {i \in Items : Rank[i] > Rank[e]})

AddInorder(h, e) ==
  LET iter == InnerLoop(h, e)
  IN  AddToTable(IF h.head = NULL THEN First(h, e)
                 ELSE IF iter # NULL THEN InsertBefore(h, e, iter)
                 ELSE AppendList(h, e), e)

----------------------------------------------------------------------------
(* Removals *)

(* Mutation: num_items stays. *)
DeleteHHKeep(h, e) ==
  LET p == h.prev[e]
      n == h.next[e]
  IN  IF p = NULL /\ n = NULL
      THEN [h EXCEPT !.tbl = NULL, !.head = NULL]
      ELSE DelInBkt([h EXCEPT
             !.tbl.tail = IF @ = e THEN p ELSE @,
             !.head = IF p = NULL THEN n ELSE @,
             !.next = Put(@, p, n), !.prev = Put(@, n, p)],
             BktOf(h, KeyOf[e]), e)

(* "The usual" patch-up of the application order, then of the chain. *)
DeleteHH(h, e) ==
  LET p == h.prev[e]
      n == h.next[e]
      patched == [h EXCEPT
        !.tbl.tail = IF @ = e THEN p ELSE @,
        !.head = IF p = NULL THEN n ELSE @,
        !.next = Put(@, p, n), !.prev = Put(@, n, p)]
      unhashed == DelInBkt(patched, BktOf(h, KeyOf[e]), e)
  IN  IF p = NULL /\ n = NULL
      THEN [h EXCEPT !.tbl = NULL, !.head = NULL]
      ELSE [unhashed EXCEPT !.tbl.num_items = @ - 1]

(* The application frees what it has taken out. *)
Delete(h, e) ==
  [DeleteHH(h, e) EXCEPT !.prev[e] = Wild, !.next[e] = Wild,
                         !.hh_prev[e] = Wild, !.hh_next[e] = Wild]

Without(h, e) ==
  LET replaced == Find(h, KeyOf[e])
  IN  IF replaced = NULL THEN h ELSE Delete(h, replaced)

Replace(h, e) == Add(Without(h, e), e)
ReplaceInorder(h, e) == AddInorder(Without(h, e), e)

Clear(h) == Empty

----------------------------------------------------------------------------
(* HASH_SRT, a mergesort on the application order *)

Emit(s, e) ==
  [s EXCEPT !.next = Put(@, s.tail, e), !.prev = Put(@, e, s.tail),
            !.list = IF s.tail = NULL THEN e ELSE @,
            !.tail = e]

TakeP(s) == Emit([s EXCEPT !.p = s.next[s.p], !.psize = @ - 1], s.p)
TakeQ(s) == Emit([s EXCEPT !.q = s.next[s.q], !.qsize = @ - 1], s.q)

(* The run of psize items at p and the one of at most qsize at q. *)
QLeft(s) == s.qsize # 0 /\ s.q # NULL
MergeTurn(s) ==
  IF s.psize = 0 /\ ~QLeft(s) THEN s
  ELSE IF s.psize = 0 \/ (QLeft(s) /\ Rank[s.p] > Rank[s.q])
  THEN TakeQ(s) ELSE TakeP(s)
Merge(s) == Turns(MergeTurn, s, s.psize + s.qsize)

(* One pass over the list: its runs of insize are merged two by two. *)
PassTurn(s) ==
  LET run == Walk(s.next, s.p)
      long == Len(run) > s.insize
      m == Merge([s EXCEPT !.nmerges = @ + 1,
                           !.psize = IF long THEN s.insize ELSE Len(run),
                           !.q = IF long THEN run[s.insize + 1] ELSE NULL,
                           !.qsize = s.insize])
  IN  IF s.p = NULL THEN s ELSE [m EXCEPT !.p = m.q]
Pass(s) ==
  Turns(PassTurn, [s EXCEPT !.p = s.list, !.list = NULL, !.tail = NULL,
                            !.nmerges = 0], Cardinality(Items))

(* Passes, until one has had a single pair of runs to merge. *)
SortTurn(s) ==
  LET t == Pass(s)
  IN  IF ~s.looping THEN s
      ELSE [t EXCEPT !.next = Put(@, t.tail, NULL), !.insize = @ * 2,
                     !.looping = t.nmerges > 1]

Srt(h) ==
  LET s == Turns(SortTurn,
                 [p |-> NULL, q |-> NULL, list |-> h.head, tail |-> NULL,
                  psize |-> 0, qsize |-> 0, insize |-> 1, nmerges |-> 0,
                  looping |-> TRUE, prev |-> h.prev, next |-> h.next],
                 Cardinality(Items))
  IN  IF h.head = NULL THEN h
      ELSE [h EXCEPT !.prev = s.prev, !.next = s.next, !.tbl.tail = s.tail,
                     !.head = s.list]

----------------------------------------------------------------------------
(* HASH_SELECT *)

(* Mutation: only linked backwards. *)
SelectOneBack(s, e) ==
  LET linked == [s.d EXCEPT !.prev[e] = s.last, !.next[e] = NULL]
      in == IF s.d.head = NULL THEN First(linked, e) ELSE linked
  IN  [d |-> [AddToBkt(in, e) EXCEPT !.tbl.num_items = @ + 1], last |-> e]

(* One selected item; nothing sets the table's tail after the first. *)
SelectOne(s, e) ==
  LET linked == [s.d EXCEPT !.prev[e] = s.last,
                            !.next = Put([@ EXCEPT ![e] = NULL], s.last, e)]
      in == IF s.d.head = NULL THEN First(linked, e) ELSE linked
  IN  [d |-> [AddToBkt(in, e) EXCEPT !.tbl.num_items = @ + 1], last |-> e]

(* The items up to a rank: that is the condition. *)
Select(d, h, r) ==
  LET order == BucketOrder(h)
      sel[k \in 0..Len(order)] ==
        IF k = 0 THEN [d |-> d, last |-> NULL]
        ELSE IF Rank[order[k]] <= r THEN SelectOne(sel[k - 1], order[k])
        ELSE sel[k - 1]
  IN  IF h.head = NULL THEN d ELSE sel[Len(order)].d

----------------------------------------------------------------------------
(* The application *)

Init == /\ src = Empty /\ dst = Empty
        /\ hashf \in HASH_FCN
        /\ el = NULL /\ tmp = NULL

(* Items of src are changed while no loop runs and no selection is kept. *)
Change(h) == /\ el = NULL /\ dst = Empty
             /\ h.head # NULL => h.tbl.num_buckets <= MaxBuckets
             /\ src' = h
             /\ UNCHANGED <<dst, hashf, el, tmp>>

(* Keys are unique: an item is added once its key has not been found, and   *)
(* replaces another if it is not in the hash itself.                        *)
HashAdd(e) == Find(src, KeyOf[e]) = NULL
                /\ (Change(Add(src, e)) \/ Change(AddInorder(src, e)))
HashReplace(e) == src.prev[e] = Wild
                    /\ \/ Change(Replace(src, e))
                       \/ Change(ReplaceInorder(src, e))
HashDel(e) == Find(src, KeyOf[e]) = e /\ Change(Delete(src, e))
HashSort == Change(Srt(src))
HashClear == Change(Clear(src))

(* The items up to some rank; they stay in src. *)
HashSelect(r) ==
  /\ el = NULL /\ dst = Empty
  /\ dst' = Select(dst, src, r)
  /\ UNCHANGED <<src, hashf, el, tmp>>

HashClearSelected ==
  /\ dst' = Clear(dst)
  /\ UNCHANGED <<src, hashf, el, tmp>>

(* HASH_ITER.  tmp is read before the body, which may delete el. *)
After(h, p) == IF p = NULL THEN NULL ELSE h.next[p]

IterStart ==
  /\ el = NULL /\ dst = Empty
  /\ el' = src.head
  /\ tmp' = After(src, src.head)
  /\ UNCHANGED <<src, dst, hashf>>

IterStep ==
  /\ el # NULL
  /\ src' \in {src, Delete(src, el)}
  /\ el' = tmp
  /\ tmp' = After(src', tmp)
  /\ UNCHANGED <<dst, hashf>>

Next ==
  \/ \E e \in Items : HashAdd(e) \/ HashReplace(e) \/ HashDel(e)
  \/ HashSort
  \/ HashClear
  \/ \E i \in Items : HashSelect(Rank[i])
  \/ HashClearSelected
  \/ IterStart
  \/ IterStep

Spec == Init /\ [][Next]_vars

----------------------------------------------------------------------------
(* Properties *)

(***************************************************************************)
(* What HASH_FSCK tests in a debug build, and two things it does not: each *)
(* item is in the bucket of its hash value, the two lists have the same    *)
(* items, and (of src) tail is the end of the application order.           *)
(***************************************************************************)
BackLinked(back, l) ==
  \A i \in DOMAIN l : back[l[i]] = IF i = 1 THEN NULL ELSE l[i - 1]

Intact(h) ==
  h.head # NULL =>
    /\ \A b \in DOMAIN h.tbl.buckets :
         /\ BackLinked(h.hh_prev, Chain(h, b))
         /\ h.tbl.buckets[b].count = Len(Chain(h, b))
         /\ \A i \in ToSet(Chain(h, b)) : BktOf(h, KeyOf[i]) = b
    /\ BackLinked(h.prev, AppList(h))
    /\ IsInjective(AppList(h)) /\ IsInjective(BucketOrder(h))
    /\ ToSet(AppList(h)) = ToSet(BucketOrder(h))
    /\ Len(AppList(h)) = Count(h)

HashIntact == /\ Intact(src)
              /\ src.head # NULL => src.tbl.tail = Last(AppList(src))

(***************************************************************************)
(* HASH_FIND finds an item exactly while it is in the hash, through every  *)
(* doubling of the buckets and for every hash function.                    *)
(***************************************************************************)
FindsAll ==
  \A i \in Items : (Find(src, KeyOf[i]) = i) = (i \in ToSet(AppList(src)))

(***************************************************************************)
(* "By expanding buckets the hash keeps a bound on the chain length": no   *)
(* chain is longer than its bucket's limit, unless expansion has been      *)
(* given up as ineffective.  The limit is a multiple of the threshold or,  *)
(* just after an expansion, of the ideal length, which may be more.        *)
(***************************************************************************)
ChainsBounded ==
  src.head # NULL /\ ~src.tbl.noexpand =>
    \A b \in DOMAIN src.tbl.buckets :
      \E len \in {HASH_BKT_CAPACITY_THRESH, src.tbl.ideal_chain_maxlen} :
        src.tbl.buckets[b].count <= (src.tbl.buckets[b].expand_mult + 1) * len

(***************************************************************************)
(* "The selected items have dual presence in both hashes": the second hash *)
(* is intact too and finds just the items that were selected.              *)
(***************************************************************************)
SelectedIntact ==
  /\ Intact(dst)
  /\ dst.head # NULL =>
       \E r \in {Rank[i] : i \in Items} :
         \A i \in Items : (Find(dst, KeyOf[i]) = i)
                            = (Find(src, KeyOf[i]) = i /\ Rank[i] <= r)

(***************************************************************************)
(* The two lists, the buckets and their doubling implement OrderedDict:    *)
(* appending and insertion in rank, replacement, deletion, a stable sort,  *)
(* and loops that visit each item once though their body deletes.          *)
(***************************************************************************)
Dict == INSTANCE OrderedDict WITH
          list <- AppList(src),
          todo <- IF el = NULL THEN <<>>
                  ELSE <<el>> \o Walk(src.next, tmp)
ImplementsOrderedDict == Dict!Spec
=============================================================================
