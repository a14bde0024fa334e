------------------------------ MODULE Socklist ------------------------------
(***************************************************************************)
(* main/socklist.c: the table that maps websocket names to daemon sockets. *)
(*                                                                         *)
(* It is an array of `Alloc` entries kept in the order of strcmp; names    *)
(* are integers here, so that < is that order.  main builds it from the    *)
(* -S arguments before anything else runs; then every new websocket looks  *)
(* its daemon up in it, while daemons come and go.                         *)
(***************************************************************************)
EXTENDS Integers

CONSTANTS Names,       \* websocket names
          Paths,       \* daemon socket paths
          Malformed,   \* a map string without ':'
          Empty,       \* an entry calloc has zeroed
          Alloc,       \* socklist->alloc
          AllocFails   \* may calloc fail?

ASSUME SocklistAssumption ==
  /\ Names \subseteq Int
  /\ Alloc \in Nat \ {0}
  /\ AllocFails \in BOOLEAN

Entry == [websocket : Names, l_socket : Paths]

(* -S path:name *)
MapStr == [path : Paths, name : Names] \cup {Malformed}

ASSUME EntryAssumption == Empty \notin Entry /\ Malformed \notin Entry
                          /\ Malformed \notin [path : Paths, name : Names]

VARIABLES map,      \* socklist->map
          size,     \* socklist->size
          rc,       \* result of the last socklist_addmap
          phase,    \* main builds the list, the event loop runs, or a crash
          file,     \* what stat() says of each path
          bridged   \* pairs socklist_newclient has connected (history)

vars == <<map, size, rc, phase, file, bridged>>

Slots == 0..(Alloc - 1)

TypeOK ==
  /\ map \in [Slots -> Entry \cup {Empty}]
  /\ size \in 0..Alloc
  /\ rc \in {0, -2, -4, -5, -7, -8}
  /\ phase \in {"build", "run", "crash"}
  /\ file \in [Paths -> {"socket", "other", "missing"}]
  /\ bridged \subseteq Names \X Paths

(* socklist_init *)
Init ==
  /\ map = [i \in Slots |-> Empty]
  /\ size = 0
  /\ rc = 0
  /\ phase = "build"
  /\ file \in [Paths -> {"socket", "other", "missing"}]
  /\ bridged = {}

(* sub_testsocket *)
TestSocket(p) == CASE file[p] = "socket"  -> 0
                   [] file[p] = "missing" -> -2
                   [] file[p] = "other"   -> -3

(* Mutation: off by one. *)
FullLate == size > Alloc

Full == size >= Alloc
Has(n) == \E i \in 0..(size - 1) : map[i].websocket = n

(* The loop over the table stops at the first name that is not smaller. *)
InsertionPoint(i, n) ==
  /\ \A j \in 0..(i - 1) : map[j].websocket < n
  /\ i < size => map[i].websocket >= n

(* Mutations: the shift runs upwards; it stops one entry too early. *)
InsertAtUpwards(i, e) ==
  [k \in Slots |-> IF k = i THEN e
                   ELSE IF k > i /\ k <= size THEN map[i] ELSE map[k]]
InsertAtShort(i, e) ==
  [k \in Slots |-> IF k = i THEN e
                   ELSE IF k > i + 1 /\ k <= size THEN map[k - 1] ELSE map[k]]

(* Entries i..size-1 move up by one, from the last to the first. *)
InsertAt(i, e) ==
  [k \in Slots |-> IF k = i THEN e
                   ELSE IF k > i /\ k <= size THEN map[k - 1] ELSE map[k]]

(***************************************************************************)
(* socklist_addmap.  The checks come in the order of the code; a string    *)
(* without ':' is only tested for after strchr has been given NULL + 1.    *)
(***************************************************************************)
Refuse(code) == rc' = code /\ UNCHANGED <<map, size>>

AddMap(m) ==
  /\ phase = "build"
  /\ m # Malformed \/ Full
  /\ \/ Full /\ Refuse(-2)
     \/ ~Full /\ AllocFails /\ Refuse(-4)
     \/ ~Full /\ TestSocket(m.path) # 0 /\ Refuse(TestSocket(m.path) - 5)
     \/ ~Full /\ TestSocket(m.path) = 0 /\ Has(m.name) /\ Refuse(-5)
     \/ /\ ~Full /\ TestSocket(m.path) = 0 /\ ~Has(m.name)
        /\ \E i \in 0..size :
             /\ InsertionPoint(i, m.name)
             /\ map' = InsertAt(i, [websocket |-> m.name, l_socket |-> m.path])
        /\ size' = size + 1
        /\ rc' = 0
  /\ UNCHANGED <<phase, file, bridged>>

AddMalformed ==
  /\ phase = "build"
  /\ ~Full
  /\ phase' = "crash"
  /\ UNCHANGED <<map, size, rc, file, bridged>>

(* The last argument has been added: the event loop starts. *)
Start ==
  /\ phase = "build"
  /\ phase' = "run"
  /\ UNCHANGED <<map, size, rc, file, bridged>>

(* socklist_search: from the front, the first entry with that name. *)
Hits(n) ==
  {i \in 0..(size - 1) : /\ map[i].websocket = n
                         /\ \A j \in 0..(i - 1) : map[j].websocket # n}

(* socklist_newclient; a socket that fails the test is skipped, not removed. *)
NewClient(n) ==
  /\ phase = "run"
  /\ \E i \in Hits(n) :
       /\ TestSocket(map[i].l_socket) = 0
       /\ bridged' = bridged \cup {<<n, map[i].l_socket>>}
  /\ UNCHANGED <<map, size, rc, phase, file>>

(* Daemons come and go. *)
FileChanges(p) ==
  /\ phase # "crash"
  /\ \E kind \in {"socket", "other", "missing"} :
       file' = [file EXCEPT ![p] = kind]
  /\ UNCHANGED <<map, size, rc, phase, bridged>>

Next ==
  \/ \E m \in MapStr : AddMap(m)
  \/ AddMalformed
  \/ Start
  \/ \E n \in Names : NewClient(n)
  \/ \E p \in Paths : FileChanges(p)

Spec == Init /\ [][Next]_vars

----------------------------------------------------------------------------
(* Properties *)

(***************************************************************************)
(* The table is an initial run of entries, strictly ascending by name, and *)
(* zeroes after it: what the insertion must leave behind for "only one     *)
(* instance per websocket name" and for a binary search to be possible.    *)
(***************************************************************************)
SortedTable ==
  /\ \A i \in Slots : (i < size) = (map[i] # Empty)
  /\ \A i, j \in 0..(size - 1) : i < j => map[i].websocket < map[j].websocket

(***************************************************************************)
(* The table implements a map that only grows: an insertion disturbs no    *)
(* other name's entry, a name keeps its first daemon for good, and the     *)
(* search on behalf of a new websocket connects it to just that daemon     *)
(* ("each protocol name must be bridged 1:1 to a corresponding daemon",    *)
(* "the websocket:daemon bridging never changes during runtime").          *)
(***************************************************************************)
At(n) == CHOOSE i \in 0..(size - 1) : map[i].websocket = n
Bound == INSTANCE NameMap WITH
           bind <- [n \in {k \in Names : Has(k)} |-> map[At(n)].l_socket]
ImplementsNameMap == Bound!Spec
=============================================================================
