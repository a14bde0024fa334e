--------------------------- MODULE StartupProofs ---------------------------
(***************************************************************************)
(* For a table of any length and any names: socklist_addmap keeps it       *)
(* sorted and within its allocation, and the table with its linear search  *)
(* implements NameMap.                                                     *)
(***************************************************************************)
EXTENDS Startup, TLAPS

Inv == TypeOK /\ SortedTable

(***************************************************************************)
(* Insertion into a sorted table that has room, at the place the loop      *)
(* finds, for a name that is not there: the table stays sorted, and its    *)
(* entries are the old ones and the new one.                               *)
(***************************************************************************)
LEMMA Insertion ==
  ASSUME Inv, NEW n \in Names, NEW p \in Paths, NEW i \in 0..size,
         ~Full, ~Has(n), InsertionPoint(i, n), size' = size + 1,
         map' = InsertAt(i, [websocket |-> n, l_socket |-> p])
  PROVE  /\ map' \in [Slots -> Entry \cup {Empty}] /\ size' \in 0..Alloc
         /\ SortedTable'
         /\ \A k \in 0..(i - 1) : map'[k] = map[k]
         /\ map'[i] = [websocket |-> n, l_socket |-> p]
         /\ \A k \in (i + 1)..size : map'[k] = map[k - 1]
<1> DEFINE e == [websocket |-> n, l_socket |-> p]
<1>1. /\ size \in Nat /\ i \in Nat /\ Alloc \in Nat /\ i <= size /\ size < Alloc
      /\ n \in Int
  BY SocklistAssumption DEF Inv, TypeOK, Full
<1>2. e \in Entry /\ e # Empty /\ e.websocket = n
  BY EntryAssumption DEF Entry
<1>3. \A k \in Slots : /\ map[k] \in Entry \cup {Empty}
                       /\ (k < size) = (map[k] # Empty)
                       /\ k < size => map[k].websocket \in Int
  BY SocklistAssumption DEF Inv, TypeOK, SortedTable, Entry
<1> HIDE DEF e
<1>4. \A k \in Slots : map'[k] = IF k = i THEN e
                                 ELSE IF k > i /\ k <= size THEN map[k - 1]
                                 ELSE map[k]
  BY DEF InsertAt, e
<1>5. map' \in [Slots -> Entry \cup {Empty}]
  <2>1. DOMAIN map' = Slots /\ map' = [k \in Slots |-> map'[k]]
    BY DEF InsertAt
  <2>2. \A k \in Slots : map'[k] \in Entry \cup {Empty}
    BY <1>1, <1>2, <1>3, <1>4 DEF Slots
  <2> QED
    BY <2>1, <2>2
<1>6. \A k \in Slots : (k < size') = (map'[k] # Empty)
  BY <1>1, <1>2, <1>3, <1>4 DEF Slots
<1>7. ASSUME NEW a \in 0..(size' - 1), NEW b \in 0..(size' - 1), a < b
      PROVE  map'[a].websocket < map'[b].websocket
  <2>1. \A j, k \in 0..(size - 1) :
          j < k => map[j].websocket < map[k].websocket
    BY DEF Inv, SortedTable
  <2>2. \A j \in 0..(i - 1) : map[j].websocket < n
    BY DEF InsertionPoint
  <2>3. \A j \in i..(size - 1) : n < map[j].websocket
    <3> SUFFICES ASSUME NEW j \in i..(size - 1)
                 PROVE  n < map[j].websocket
      OBVIOUS
    <3>1. i < size /\ map[i].websocket >= n /\ map[i].websocket # n
      BY <1>1 DEF InsertionPoint, Has
    <3>2. map[i].websocket \in Int /\ map[j].websocket \in Int
      BY <1>1, <1>3, <3>1 DEF Slots
    <3>3. j = i \/ map[i].websocket < map[j].websocket
      BY <1>1, <2>1, <3>1
    <3> QED
      BY <1>1, <3>1, <3>2, <3>3
  <2>4. a \in Slots /\ b \in Slots /\ a \in Int /\ b \in Int /\ a <= size /\ b <= size
    BY <1>1, <1>7 DEF Slots
  <2>5. CASE a < i /\ b < i
    BY <1>1, <1>4, <1>7, <2>1, <2>4, <2>5
  <2>6. CASE a < i /\ b = i
    BY <1>1, <1>2, <1>4, <1>7, <2>2, <2>4, <2>6
  <2>7. CASE a < i /\ b > i
    <3>1. map'[a] = map[a] /\ map'[b] = map[b - 1]
      BY <1>1, <1>4, <2>4, <2>7
    <3> QED
      BY <1>1, <1>7, <2>1, <2>4, <2>7, <3>1
  <2>8. CASE a = i
    <3>1. map'[a] = e /\ map'[b] = map[b - 1]
      BY <1>1, <1>4, <1>7, <2>4, <2>8
    <3> QED
      BY <1>1, <1>2, <1>7, <2>3, <2>4, <2>8, <3>1
  <2>9. CASE a > i
    <3>1. map'[a] = map[a - 1] /\ map'[b] = map[b - 1]
      BY <1>1, <1>4, <1>7, <2>4, <2>9
    <3> QED
      BY <1>1, <1>7, <2>1, <2>4, <2>9, <3>1
  <2> QED
    BY <1>1, <1>7, <2>4, <2>5, <2>6, <2>7, <2>8, <2>9
<1> QED
  BY <1>1, <1>4, <1>5, <1>6, <1>7 DEF SortedTable, Slots, e

----------------------------------------------------------------------------
(* The invariant *)

LEMMA InitInv == Init => Inv
<1> SUFFICES ASSUME Init PROVE Inv
  OBVIOUS
<1>1. TypeOK
  BY SocklistAssumption DEF Init, TypeOK, Slots
<1>2. SortedTable
  BY SocklistAssumption DEF Init, SortedTable, Slots
<1> QED
  BY <1>1, <1>2 DEF Inv

(* Steps that leave the table alone keep it sorted. *)
LEMMA SameTable ==
  ASSUME SortedTable, UNCHANGED <<map, size>>
  PROVE  SortedTable'
BY DEF SortedTable

(***************************************************************************)
(* What a call of socklist_addmap does: it leaves the table alone, or it   *)
(* inserts a new name where there is room.                                 *)
(***************************************************************************)
LEMMA AddMapCases ==
  ASSUME Inv, NEW m \in MapStr, AddMap(m)
  PROVE  \/ UNCHANGED <<map, size>> /\ rc' \in {0, -2, -4, -5, -7, -8}
         \/ /\ rc' = 0
            /\ \E n \in Names, p \in Paths, i \in 0..size :
                 /\ ~Full /\ ~Has(n) /\ InsertionPoint(i, n)
                 /\ size' = size + 1
                 /\ map' = InsertAt(i, [websocket |-> n, l_socket |-> p])
<1>1. CASE Full
  BY <1>1 DEF AddMap, Refuse
<1>2. CASE ~Full
  <2>1. m \in [path : Paths, name : Names]
    BY <1>2 DEF AddMap, MapStr
  <2>2. TestSocket(m.path) \in {0, -2, -3}
    BY <2>1 DEF Inv, TypeOK, TestSocket
  <2>3. CASE Refuse(-4) \/ Refuse(-5)
    BY <2>3 DEF Refuse
  <2>4. CASE TestSocket(m.path) # 0 /\ Refuse(TestSocket(m.path) - 5)
    BY <2>2, <2>4 DEF Refuse
  <2>5. CASE /\ ~Has(m.name)
             /\ \E i \in 0..size :
                  /\ InsertionPoint(i, m.name)
                  /\ map' = InsertAt(i, [websocket |-> m.name, l_socket |-> m.path])
             /\ size' = size + 1
             /\ rc' = 0
    BY <1>2, <2>1, <2>5
  <2> QED
    BY <1>2, <2>3, <2>4, <2>5 DEF AddMap
<1> QED
  BY <1>1, <1>2

LEMMA StepInv == Inv /\ [Next]_vars => Inv'
<1> SUFFICES ASSUME Inv, [Next]_vars PROVE Inv'
  OBVIOUS
<1>1. ASSUME NEW m \in MapStr, AddMap(m) PROVE Inv'
  <2>1. CASE UNCHANGED <<map, size>> /\ rc' \in {0, -2, -4, -5, -7, -8}
    <3>1. SortedTable'
      BY <2>1, SameTable DEF Inv
    <3> QED
      BY <1>1, <2>1, <3>1 DEF Inv, TypeOK, AddMap
  <2>2. ASSUME NEW n \in Names, NEW p \in Paths, NEW i \in 0..size, rc' = 0,
               ~Full, ~Has(n), InsertionPoint(i, n), size' = size + 1,
               map' = InsertAt(i, [websocket |-> n, l_socket |-> p])
        PROVE  Inv'
    <3>1. /\ map' \in [Slots -> Entry \cup {Empty}] /\ size' \in 0..Alloc
          /\ SortedTable'
      BY <2>2, Insertion
    <3> QED
      BY <1>1, <2>2, <3>1 DEF Inv, TypeOK, AddMap
  <2> QED
    BY <1>1, <2>1, <2>2, AddMapCases
<1>2. CASE AddMalformed
  BY <1>2, SameTable DEF Inv, TypeOK, AddMalformed
<1>3. CASE Start
  BY <1>3, SameTable DEF Inv, TypeOK, Start
<1>4. ASSUME NEW n \in Names, NewClient(n) PROVE Inv'
  <2>1. PICK i \in Hits(n) : bridged' = bridged \cup {<<n, map[i].l_socket>>}
    BY <1>4 DEF NewClient
  <2>2. map[i] \in Entry
    BY <2>1, SocklistAssumption DEF Inv, TypeOK, SortedTable, Hits, Slots
  <2>3. bridged' \subseteq Names \X Paths
    BY <2>1, <2>2 DEF Inv, TypeOK, Entry
  <2> QED
    BY <1>4, <2>3, SameTable DEF Inv, TypeOK, NewClient
<1>5. ASSUME NEW p \in Paths, FileChanges(p) PROVE Inv'
  BY <1>5, SameTable DEF Inv, TypeOK, FileChanges
<1>6. CASE UNCHANGED vars
  BY <1>6, SameTable DEF Inv, TypeOK, vars
<1> QED
  BY <1>1, <1>2, <1>3, <1>4, <1>5, <1>6 DEF Next

LEMMA TableInvariance == Spec => []Inv
BY InitInv, StepInv, PTL DEF Spec

(* Every value the table takes has its type; size stays within alloc. *)
THEOREM TableTyped == Spec => []TypeOK
BY TableInvariance, PTL DEF Inv

(* socklist_addmap keeps the table sorted by name, without duplicates. *)
THEOREM TableSorted == Spec => []SortedTable
BY TableInvariance, PTL DEF Inv

----------------------------------------------------------------------------
(* The refinement *)

(* In a table sorted by name, a name has one entry. *)
LEMMA OneEntry ==
  ASSUME NEW M \in [Slots -> Entry \cup {Empty}], NEW sz \in 0..Alloc,
         \A j \in Slots : (j < sz) = (M[j] # Empty),
         \A j, k \in 0..(sz - 1) : j < k => M[j].websocket < M[k].websocket,
         NEW i \in 0..(sz - 1)
  PROVE  (CHOOSE j \in 0..(sz - 1) : M[j].websocket = M[i].websocket) = i
<1> DEFINE c == CHOOSE j \in 0..(sz - 1) : M[j].websocket = M[i].websocket
<1>1. c \in 0..(sz - 1) /\ M[c].websocket = M[i].websocket
  OBVIOUS
<1> HIDE DEF c
<1>2. ASSUME NEW j \in 0..(sz - 1)
      PROVE  M[j].websocket \in Int
  <2>1. j \in Slots /\ j < sz
    BY SocklistAssumption DEF Slots
  <2>2. M[j] \in Entry
    BY <2>1
  <2> QED
    BY <2>2, SocklistAssumption DEF Entry
<1>3. c = i
  BY <1>1, <1>2, SocklistAssumption
<1> QED
  BY <1>3 DEF c

(* So that is where the search finds it, before a step and after it. *)
LEMMA AtIndex == Inv => \A i \in 0..(size - 1) : At(map[i].websocket) = i
BY OneEntry DEF Inv, TypeOK, SortedTable, At

LEMMA AtIndexNext ==
  Inv' => \A i \in 0..(size' - 1) : At(map[i].websocket)' = i
BY OneEntry DEF Inv, TypeOK, SortedTable, At

Binding == [n \in {k \in Names : Has(k)} |-> map[At(n)].l_socket]

LEMMA InitRefines == Init => Bound!Init
<1> SUFFICES ASSUME Init PROVE Bound!Init
  OBVIOUS
<1>1. {k \in Names : Has(k)} = {}
  BY DEF Init, Has
<1>2. Binding = [n \in {} |-> n]
  BY <1>1 DEF Binding
<1> QED
  BY <1>2 DEF Init, Bound!Init, Binding

(* As long as the table stays, so does what it binds. *)
LEMMA SameBinding == UNCHANGED <<map, size>> => UNCHANGED Binding
BY DEF Binding, Has, At

(* An insertion binds one new name and moves the other entries with theirs. *)
LEMMA InsertionBinds ==
  ASSUME Inv, Inv', NEW n \in Names, NEW p \in Paths, NEW i \in 0..size,
         ~Full, ~Has(n), InsertionPoint(i, n), size' = size + 1,
         map' = InsertAt(i, [websocket |-> n, l_socket |-> p])
  PROVE  /\ n \notin DOMAIN Binding
         /\ Binding' = [k \in DOMAIN Binding \cup {n} |->
                          IF k = n THEN p ELSE Binding[k]]
<1> DEFINE moved(j) == IF j < i THEN j ELSE j + 1
<1>1. size \in Nat /\ i \in Nat /\ i <= size /\ size' = size + 1
  BY SocklistAssumption DEF Inv, TypeOK
<1>2. map'[i] = [websocket |-> n, l_socket |-> p]
  BY Insertion
<1>3. ASSUME NEW j \in 0..(size - 1)
      PROVE  moved(j) \in 0..size /\ map'[moved(j)] = map[j]
  <2>1. \A k \in 0..(i - 1) : map'[k] = map[k]
    BY Insertion
  <2>2. \A k \in (i + 1)..size : map'[k] = map[k - 1]
    BY Insertion
  <2> QED
    BY <1>1, <2>1, <2>2
<1>4. \A j \in 0..size : At(map[j].websocket)' = j
  BY <1>1, AtIndexNext
<1>5. \A j \in 0..(size - 1) : At(map[j].websocket) = j
  BY AtIndex
<1>6. ASSUME NEW k \in Names
      PROVE  /\ Has(k)' <=> Has(k) \/ k = n
             /\ Has(k) => map'[At(k)'] = map[At(k)]
  <2>1. CASE Has(k)
    <3>1. PICK j \in 0..(size - 1) : map[j].websocket = k
      BY <2>1 DEF Has
    <3>2. At(k) = j
      BY <1>5, <3>1
    <3>3. moved(j) \in 0..size /\ map'[moved(j)] = map[j]
      BY <1>3
    <3>4. At(map[moved(j)].websocket)' = moved(j)
      BY <1>4, <3>3
    <3>5. At(k)' = moved(j)
      BY <3>1, <3>3, <3>4 DEF At
    <3>6. Has(k)'
      BY <1>1, <3>1, <3>3 DEF Has
    <3> QED
      BY <2>1, <3>2, <3>3, <3>5, <3>6
  <2>2. CASE ~Has(k) /\ k = n
    BY <1>1, <1>2, <2>2 DEF Has
  <2>3. CASE ~Has(k) /\ k # n
    <3>1. ASSUME NEW h \in 0..size, map'[h].websocket = k
          PROVE  FALSE
      <4>1. h # i
        BY <1>2, <2>3, <3>1
      <4>2. CASE h < i
        BY <1>1, <1>3, <2>3, <3>1, <4>2 DEF Has
      <4>3. CASE h > i
        <5>1. h - 1 \in 0..(size - 1) /\ moved(h - 1) = h
          BY <1>1, <4>3
        <5>2. map'[h] = map[h - 1]
          BY <1>3, <5>1
        <5> QED
          BY <2>3, <3>1, <5>1, <5>2 DEF Has
      <4> QED
        BY <1>1, <4>1, <4>2, <4>3
    <3>2. ~Has(k)'
      BY <1>1, <3>1 DEF Has
    <3> QED
      BY <2>3, <3>2
  <2> QED
    BY <2>1, <2>2, <2>3
<1>7. map'[At(n)'].l_socket = p
  <2>1. At(map[i].websocket)' = i
    BY <1>1, <1>4
  <2>2. At(n)' = i
    BY <1>2, <2>1 DEF At
  <2> QED
    BY <1>2, <2>2
<1>8. {k \in Names : Has(k)'} = {k \in Names : Has(k)} \cup {n}
  BY <1>6
<1>9. Binding' = [k \in {h \in Names : Has(h)'} |-> map'[At(k)'].l_socket]
  BY DEF Binding
<1>10. DOMAIN Binding = {k \in Names : Has(k)}
  BY DEF Binding
<1>11. \A k \in {h \in Names : Has(h)} : Binding[k] = map[At(k)].l_socket
  BY DEF Binding
<1>12. \A k \in {h \in Names : Has(h)'} :
         map'[At(k)'].l_socket = IF k = n THEN p ELSE Binding[k]
  BY <1>6, <1>7, <1>8, <1>11
<1> QED
  BY <1>8, <1>9, <1>10, <1>12

LEMMA StepRefines ==
  Inv /\ Inv' /\ [Next]_vars => [Bound!Next]_<<Binding, bridged>>
<1> SUFFICES ASSUME Inv, Inv', [Next]_vars
             PROVE  [Bound!Next]_<<Binding, bridged>>
  OBVIOUS
<1>1. ASSUME NEW m \in MapStr, AddMap(m)
      PROVE  [Bound!Next]_<<Binding, bridged>>
  <2>1. bridged' = bridged
    BY <1>1 DEF AddMap
  <2>2. CASE UNCHANGED <<map, size>>
    BY <2>1, <2>2, SameBinding
  <2>3. ASSUME NEW n \in Names, NEW p \in Paths, NEW i \in 0..size,
               ~Full, ~Has(n), InsertionPoint(i, n), size' = size + 1,
               map' = InsertAt(i, [websocket |-> n, l_socket |-> p])
        PROVE  Bound!Bind(n, p)
    <3>1. /\ n \notin DOMAIN Binding
          /\ Binding' = [k \in DOMAIN Binding \cup {n} |->
                           IF k = n THEN p ELSE Binding[k]]
      BY <2>3, InsertionBinds
    <3> QED
      BY <2>1, <3>1 DEF Bound!Bind, Binding
  <2>4. (\E n \in Names, p \in Paths : Bound!Bind(n, p)) => Bound!Next
    BY DEF Bound!Next
  <2> QED
    BY <1>1, <2>2, <2>3, <2>4, AddMapCases
<1>2. ASSUME NEW n \in Names, NewClient(n)
      PROVE  Bound!Connect(n)
  <2>1. PICK i \in Hits(n) : bridged' = bridged \cup {<<n, map[i].l_socket>>}
    BY <1>2 DEF NewClient
  <2>2. i \in 0..(size - 1) /\ map[i].websocket = n
    BY <2>1 DEF Hits
  <2>3. Has(n) /\ At(n) = i
    BY <2>2, AtIndex DEF Has
  <2>4. UNCHANGED Binding
    BY <1>2, SameBinding DEF NewClient
  <2>5. n \in DOMAIN Binding /\ Binding[n] = map[i].l_socket
    BY <2>3 DEF Binding
  <2> QED
    BY <2>1, <2>4, <2>5 DEF Bound!Connect, Binding
<1>3. CASE UNCHANGED <<map, size, bridged>>
  BY <1>3, SameBinding
<1> QED
  <2>1. (\E n \in Names : Bound!Connect(n)) => Bound!Next
    BY DEF Bound!Next
  <2>2. AddMalformed \/ Start \/ (\E p \in Paths : FileChanges(p))
          \/ UNCHANGED vars => UNCHANGED <<map, size, bridged>>
    BY DEF AddMalformed, Start, FileChanges, vars
  <2> QED
    BY <1>1, <1>2, <1>3, <2>1, <2>2 DEF Next

(***************************************************************************)
(* The table and its linear search implement NameMap: a name is bound once *)
(* and for good, whatever is inserted around it, and a new websocket gets  *)
(* the daemon of its name.                                                 *)
(***************************************************************************)
THEOREM TableImplementsNameMap == Spec => ImplementsNameMap
<1>1. Init => Bound!Init
  BY InitRefines
<1>2. Inv /\ Inv' /\ [Next]_vars => [Bound!Next]_<<Binding, bridged>>
  BY StepRefines
<1>3. Spec => Bound!Spec
  BY <1>1, <1>2, TableInvariance, PTL DEF Spec, Bound!Spec, Binding
<1> QED
  BY <1>3 DEF ImplementsNameMap

----------------------------------------------------------------------------
(***************************************************************************)
(* Startup only takes steps of Socklist, so that what is shown of the      *)
(* table above holds in the composition too; and from the moment           *)
(* frontend_start is reached the protocol table and the list agree, from   *)
(* which it follows that each websocket has the daemon of its name.        *)
(***************************************************************************)

(* The table libwebsockets has is the one the list gives, for good. *)
Agree ==
  /\ vhost = "none" => served = {} /\ inited = {}
  /\ vhost # "none" => phase = "run" /\ protocols = ProtocolTable

StartupInv == Inv /\ Agree /\ OwnDaemonOnly

(* A name that is looked up is one of the list's. *)
LEMMA HitIsName ==
  ASSUME Inv, NEW n, NEW i \in Hits(n)
  PROVE  /\ n \in Names /\ map[i] \in Entry /\ map[i].websocket = n
         /\ Has(n) /\ At(n) = i
<1>1. i \in 0..(size - 1) /\ map[i].websocket = n
  BY DEF Hits
<1>2. i \in Slots /\ i < size
  BY <1>1, SocklistAssumption DEF Inv, TypeOK, Slots
<1>3. map[i] \in Entry
  BY <1>2 DEF Inv, TypeOK, SortedTable
<1>4. At(map[i].websocket) = i
  BY <1>1, AtIndex
<1> QED
  BY <1>1, <1>3, <1>4 DEF Entry, Has

(* Every step of Startup is one of Socklist, or leaves its variables alone. *)
LEMMA StartupStep == Inv /\ [StartupNext]_startupVars => [Next]_vars
<1> SUFFICES ASSUME Inv, [StartupNext]_startupVars PROVE [Next]_vars
  OBVIOUS
<1>1. CASE Building
  BY <1>1 DEF Building, Next
<1>2. CASE WfeddStarts
  BY <1>2 DEF WfeddStarts, Next
<1>3. CASE Serving
  BY <1>3 DEF Serving
<1>4. ASSUME NEW j \in 0..(Alloc + 1), ProtocolInit(j) PROVE UNCHANGED vars
  BY <1>4 DEF ProtocolInit
<1>5. ASSUME NEW n \in Asked, UpgradeBuiltin(n) PROVE UNCHANGED vars
  BY <1>5 DEF UpgradeBuiltin
<1>6. ASSUME NEW n \in Asked, Upgrade(n) PROVE Next
  <2>1. PICK j \in SlotOf(n) : NewClient(protocols[j].name)
    BY <1>6 DEF Upgrade
  <2>2. protocols[j].name \in Names
    BY <2>1, HitIsName DEF NewClient
  <2> QED
    BY <2>1, <2>2 DEF Next
<1>7. CASE UNCHANGED startupVars
  BY <1>7 DEF startupVars
<1> QED
  BY <1>1, <1>2, <1>3, <1>4, <1>5, <1>6, <1>7 DEF StartupNext

(* While the list stays, so does what is asked of it. *)
LEMMA SameList ==
  ASSUME UNCHANGED <<map, size>>
  PROVE  ProtocolTable' = ProtocolTable /\ (\A n : Has(n)' = Has(n) /\ At(n)' = At(n))
BY DEF ProtocolTable, Has, At

----------------------------------------------------------------------------
(* The slots *)

(***************************************************************************)
(* In the table the list gives, a name found in a slot of                  *)
(* frontend_ws_callback is not built in, and "CLI" is found in slot 1.     *)
(***************************************************************************)
LEMMA Slotted ==
  ASSUME Inv, protocols = ProtocolTable, NEW n, NEW j \in SlotOf(n)
  PROVE  /\ protocols[j].name = n
         /\ protocols[j].callback = "ws" => n \notin {Http, Cli}
         /\ protocols[j].callback = "http" => n = Http
         /\ protocols[j].callback = "cli" => n = Cli
         /\ protocols[j].callback \in {"http", "cli", "ws"}
         /\ n = Cli => protocols[j].callback = "cli"
<1>1. size \in Nat /\ DOMAIN protocols = 0..(size + 1)
  BY SocklistAssumption DEF Inv, TypeOK, ProtocolTable
<1>2. /\ protocols[0] = Slot(Http, "http") /\ protocols[1] = Slot(Cli, "cli")
      /\ \A k \in 2..(size + 1) : protocols[k] = Slot(map[k - 2].websocket, "ws")
  BY <1>1 DEF ProtocolTable
<1>3. /\ j \in 0..(size + 1) /\ protocols[j].name = n
      /\ \A i \in 0..(j - 1) : protocols[i].name # n
  BY <1>1 DEF SlotOf
<1>4. CASE j = 0
  BY <1>2, <1>3, <1>4, StartupAssumption DEF Slot
<1>5. CASE j = 1
  BY <1>2, <1>3, <1>5, StartupAssumption DEF Slot
<1>6. CASE j >= 2
  <2>1. protocols[j].callback = "ws"
    <3>1. j \in 2..(size + 1)
      BY <1>1, <1>3, <1>6
    <3>2. protocols[j] = Slot(map[j - 2].websocket, "ws")
      BY <1>2, <3>1
    <3> QED
      BY <3>2 DEF Slot
  <2>2. protocols[0].name # n /\ protocols[1].name # n
    BY <1>1, <1>3, <1>6
  <2> QED
    BY <1>2, <1>3, <2>1, <2>2 DEF Slot
<1> QED
  BY <1>1, <1>3, <1>4, <1>5, <1>6

----------------------------------------------------------------------------
(* The invariant *)

LEMMA StartupInitInv == StartupInit => StartupInv
<1> SUFFICES ASSUME StartupInit PROVE StartupInv
  OBVIOUS
<1>1. Inv
  BY InitInv DEF StartupInit
<1> QED
  BY <1>1 DEF StartupInit, StartupInv, Agree, OwnDaemonOnly

LEMMA StartupStepInv == StartupInv /\ [StartupNext]_startupVars => StartupInv'
<1> SUFFICES ASSUME StartupInv, [StartupNext]_startupVars PROVE StartupInv'
  OBVIOUS
<1> USE DEF StartupInv
<1>1. Inv'
  BY StartupStep, StepInv
<1>2. CASE UNCHANGED <<map, size, phase, protocols, vhost, inited, served>>
  BY <1>1, <1>2, SameList DEF Agree, OwnDaemonOnly
<1>3. CASE Building
  <2>1. UNCHANGED <<protocols, vhost, inited, served>>
    BY <1>3 DEF Building
  <2>2. CASE vhost = "none"
    BY <1>1, <2>1, <2>2 DEF Agree, OwnDaemonOnly
  <2>3. CASE vhost # "none"
    <3>1. phase = "run"
      BY <2>3 DEF Agree
    <3>2. UNCHANGED <<map, size, phase>>
      BY <1>3, <3>1 DEF Building, AddMap, AddMalformed, FileChanges
    <3> QED
      BY <1>2, <2>1, <3>2
  <2> QED
    BY <2>2, <2>3
<1>4. CASE WfeddStarts
  <2>1. vhost = "none" /\ served = {} /\ served' = {}
    BY <1>4 DEF WfeddStarts, Start, Agree
  <2>2. ProtocolTable' = ProtocolTable /\ phase' = "run"
    BY <1>4, SameList DEF WfeddStarts, Start
  <2> QED
    BY <1>1, <1>4, <2>1, <2>2 DEF WfeddStarts, Agree, OwnDaemonOnly
<1>5. CASE Serving
  <2>1. phase = "run" /\ protocols = ProtocolTable
    BY <1>5 DEF Serving, Agree
  <2>2. UNCHANGED <<map, size, phase, protocols, served>>
    BY <1>5 DEF Serving, vars
  <2> QED
    BY <1>1, <1>5, <2>1, <2>2, SameList DEF Serving, Agree, OwnDaemonOnly
<1>6. ASSUME NEW j \in 0..(Alloc + 1), ProtocolInit(j) PROVE StartupInv'
  <2>1. phase = "run" /\ protocols = ProtocolTable /\ vhost = "init"
    BY <1>6 DEF ProtocolInit, Agree
  <2>2. UNCHANGED <<map, size, phase, protocols, served>> /\ vhost' # "none"
    BY <1>6, <2>1 DEF ProtocolInit, vars
  <2> QED
    BY <1>1, <2>1, <2>2, SameList DEF Agree, OwnDaemonOnly
<1>7. ASSUME NEW n \in Asked, UpgradeBuiltin(n) PROVE StartupInv'
  <2>1. /\ vhost = "up" /\ phase = "run" /\ protocols = ProtocolTable
        /\ UNCHANGED <<map, size, phase, protocols, vhost>>
    BY <1>7 DEF UpgradeBuiltin, Agree, vars
  <2>2. PICK j \in SlotOf(n) :
          /\ protocols[j].callback # "ws"
          /\ served' =
               served \cup {Websocket(n, protocols[j].callback, NoPath, "none")}
    BY <1>7 DEF UpgradeBuiltin
  <2>3. \/ protocols[j].callback = "http" /\ n = Http
        \/ protocols[j].callback = "cli" /\ n = Cli
    BY <2>1, <2>2, Slotted
  <2>4. OwnDaemonOnly'
    BY <2>1, <2>2, <2>3, SameList DEF OwnDaemonOnly, Websocket
  <2> QED
    BY <1>1, <2>1, <2>4, SameList DEF Agree
<1>8. ASSUME NEW n \in Asked, Upgrade(n) PROVE StartupInv'
  <2>1. /\ vhost = "up" /\ phase = "run" /\ protocols = ProtocolTable
        /\ UNCHANGED <<map, size, phase, protocols, vhost>>
    BY <1>8 DEF Upgrade, Agree, NewClient
  <2>2. PICK j \in SlotOf(n) :
          /\ protocols[j].callback = "ws"
          /\ \E i \in Hits(protocols[j].name), c \in SlotOf(Cli) :
               served' = served \cup {Websocket(n, "ws", map[i].l_socket,
                                               protocols[c].callback)}
    BY <1>8 DEF Upgrade
  <2>3. PICK i \in Hits(protocols[j].name), c \in SlotOf(Cli) :
          served' = served \cup {Websocket(n, "ws", map[i].l_socket,
                                          protocols[c].callback)}
    BY <2>2
  <2>4. protocols[j].name = n /\ n \notin {Http, Cli}
    BY <2>1, <2>2, Slotted
  <2>5. protocols[c].callback = "cli"
    BY <2>1, Slotted
  <2>6. Has(n) /\ At(n) = i
    BY <2>4, HitIsName
  <2>7. OwnDaemonOnly'
    BY <2>1, <2>3, <2>4, <2>5, <2>6, SameList DEF OwnDaemonOnly, Websocket
  <2> QED
    BY <1>1, <2>1, <2>7, SameList DEF Agree
<1>9. CASE UNCHANGED startupVars
  BY <1>2, <1>9 DEF startupVars, vars
<1> QED
  BY <1>3, <1>4, <1>5, <1>6, <1>7, <1>8, <1>9 DEF StartupNext

LEMMA StartupInvariance == StartupSpec => []StartupInv
BY StartupInitInv, StartupStepInv, PTL DEF StartupSpec

(***************************************************************************)
(* The composition behaves like Socklist: what is proved of the table in   *)
(* Socklist holds of wfedd as it starts and serves.                        *)
(***************************************************************************)
THEOREM StartupIsSocklist == StartupSpec => Spec
<1>1. StartupInit => Init
  BY DEF StartupInit
<1>2. StartupInv /\ [StartupNext]_startupVars => [Next]_vars
  BY StartupStep DEF StartupInv
<1> QED
  BY <1>1, <1>2, StartupInvariance, PTL DEF StartupSpec, Spec

(* So each name keeps its first daemon, in the composition too. *)
THEOREM StartupImplementsNameMap == StartupSpec => ImplementsNameMap
BY StartupIsSocklist, TableImplementsNameMap

(***************************************************************************)
(* For any list, with any names doubled, refused or equal to "http" or     *)
(* "CLI": frontend_ws_callback serves only names of the list, each with    *)
(* the daemon the list has for it.                                         *)
(***************************************************************************)
THEOREM DaemonOfItsName == StartupSpec => []OwnDaemonOnly
BY StartupInvariance, PTL DEF StartupInv

----------------------------------------------------------------------------
(* The type invariant *)

Callbacks == {"http", "cli", "ws"}

(* The table has the built-in slots and one for each entry, at most Alloc. *)
LEMMA TableTypes ==
  ASSUME Inv
  PROVE  /\ size \in 0..Alloc
         /\ ProtocolTable \in [0..(size + 1) -> [name : Asked, callback : Callbacks]]
<1>1. size \in 0..Alloc /\ Alloc \in Nat
  BY SocklistAssumption DEF Inv, TypeOK
<1>2. ASSUME NEW j \in 0..(size + 1)
      PROVE  ProtocolTable[j] \in [name : Asked, callback : Callbacks]
  <2>1. CASE j = 0
    BY <1>1, <2>1 DEF ProtocolTable, Slot, Asked, Callbacks
  <2>2. CASE j = 1
    BY <1>1, <2>2 DEF ProtocolTable, Slot, Asked, Callbacks
  <2>3. CASE j \notin {0, 1}
    <3>1. j - 2 \in 0..(size - 1) /\ j - 2 \in Slots /\ j - 2 < size
      BY <1>1, <2>3 DEF Slots
    <3>2. map[j - 2] \in Entry
      BY <3>1 DEF Inv, TypeOK, SortedTable
    <3>3. ProtocolTable[j] = Slot(map[j - 2].websocket, "ws")
      BY <1>1, <2>3 DEF ProtocolTable
    <3> QED
      BY <3>2, <3>3 DEF Entry, Slot, Asked, Callbacks
  <2> QED
    BY <2>1, <2>2, <2>3
<1> QED
  BY <1>1, <1>2 DEF ProtocolTable

(* What the step of a websocket adds to the history has its type. *)
LEMMA WebsocketType ==
  ASSUME NEW n \in Asked, NEW cb \in Callbacks,
         NEW p \in Paths \cup {NoPath}, NEW child \in Callbacks \cup {"none"}
  PROVE  Websocket(n, cb, p, child)
           \in [asked : Asked, callback : {"http", "cli", "ws"},
               path : Paths \cup {NoPath}, child : {"none", "http", "cli", "ws"}]
BY DEF Websocket, Callbacks

LEMMA StartupInitType == StartupInit => StartupTypeOK
<1> SUFFICES ASSUME StartupInit PROVE StartupTypeOK
  OBVIOUS
<1>1. TypeOK
  BY InitInv DEF StartupInit, Inv
<1>2. protocols \in [0..(0 - 1) -> [name : Asked, callback : {"http", "cli", "ws"}]]
  BY DEF StartupInit
<1>3. 0 \in {0} \cup (2..(Alloc + 2))
  OBVIOUS
<1> QED
  BY <1>1, <1>2, <1>3 DEF StartupInit, StartupTypeOK

LEMMA StartupTypeStep ==
  StartupInv /\ StartupTypeOK /\ [StartupNext]_startupVars => StartupTypeOK'
<1> SUFFICES ASSUME StartupInv, StartupTypeOK, [StartupNext]_startupVars
             PROVE  StartupTypeOK'
  OBVIOUS
<1>1. TypeOK'
  BY StartupStepInv DEF StartupInv, Inv
<1>2. CASE UNCHANGED <<protocols, vhost, inited, served>>
  BY <1>1, <1>2 DEF StartupTypeOK
<1>3. CASE Building
  BY <1>2, <1>3 DEF Building
<1>4. CASE WfeddStarts
  <2>1. CASE AllocFails /\ UNCHANGED <<protocols, vhost>>
    BY <1>2, <1>4, <2>1 DEF WfeddStarts
  <2>2. CASE protocols' = ProtocolTable /\ vhost' = "init"
    <3>1. /\ size \in 0..Alloc /\ Alloc \in Nat
          /\ protocols' \in [0..((size + 2) - 1)
                             -> [name : Asked, callback : {"http", "cli", "ws"}]]
      BY <2>2, TableTypes, SocklistAssumption DEF StartupInv, Callbacks
    <3>2. size + 2 \in {0} \cup (2..(Alloc + 2))
      BY <3>1
    <3>3. vhost = "none"
      BY <1>4 DEF WfeddStarts, Start, StartupInv, Agree
    <3>4. inited' = {} /\ UNCHANGED served
      BY <1>4, <3>3 DEF WfeddStarts, StartupInv, Agree
    <3> QED
      BY <1>1, <2>2, <3>1, <3>2, <3>4 DEF StartupTypeOK
  <2> QED
    BY <1>4, <2>1, <2>2 DEF WfeddStarts
<1>5. CASE Serving
  BY <1>1, <1>5 DEF Serving, StartupTypeOK
<1>6. ASSUME NEW j \in 0..(Alloc + 1), ProtocolInit(j) PROVE StartupTypeOK'
  <2>1. UNCHANGED <<protocols, served>> /\ j \in DOMAIN protocols
        /\ inited' \in {inited, inited \cup {j}} /\ vhost' \in {vhost, "crash"}
    BY <1>6 DEF ProtocolInit
  <2> QED
    BY <1>1, <2>1 DEF StartupTypeOK
<1>7. ASSUME NEW n \in Asked, UpgradeBuiltin(n) PROVE StartupTypeOK'
  <2>1. PICK j \in SlotOf(n) :
          served' = served \cup {Websocket(n, protocols[j].callback, NoPath, "none")}
    BY <1>7 DEF UpgradeBuiltin
  <2>2. protocols[j].callback \in Callbacks
    BY <1>7, Slotted DEF UpgradeBuiltin, StartupInv, Agree, Callbacks
  <2>3. UNCHANGED <<protocols, vhost, inited>>
    BY <1>7 DEF UpgradeBuiltin
  <2>4. Websocket(n, protocols[j].callback, NoPath, "none")
          \in [asked : Asked, callback : {"http", "cli", "ws"},
              path : Paths \cup {NoPath}, child : {"none", "http", "cli", "ws"}]
    BY <2>2, WebsocketType
  <2> QED
    BY <1>1, <2>1, <2>3, <2>4 DEF StartupTypeOK
<1>8. ASSUME NEW n \in Asked, Upgrade(n) PROVE StartupTypeOK'
  <2>1. /\ vhost = "up" /\ UNCHANGED <<protocols, vhost, inited>>
        /\ protocols = ProtocolTable
    BY <1>8 DEF Upgrade, StartupInv, Agree
  <2>2. PICK j \in SlotOf(n) :
          \E i \in Hits(protocols[j].name), c \in SlotOf(Cli) :
            served' = served \cup {Websocket(n, "ws", map[i].l_socket,
                                            protocols[c].callback)}
    BY <1>8 DEF Upgrade
  <2>3. PICK i \in Hits(protocols[j].name), c \in SlotOf(Cli) :
          served' = served \cup {Websocket(n, "ws", map[i].l_socket,
                                          protocols[c].callback)}
    BY <2>2
  <2>4. map[i].l_socket \in Paths
    BY HitIsName DEF StartupInv, Entry
  <2>5. protocols[c].callback \in Callbacks
    BY <2>1, Slotted DEF StartupInv, Callbacks
  <2>6. "ws" \in Callbacks
    BY DEF Callbacks
  <2> QED
    BY <1>1, <2>1, <2>3, <2>4, <2>5, <2>6, WebsocketType DEF StartupTypeOK
<1>9. CASE UNCHANGED startupVars
  BY <1>2, <1>9 DEF startupVars
<1> QED
  BY <1>3, <1>4, <1>5, <1>6, <1>7, <1>8, <1>9 DEF StartupNext

(***************************************************************************)
(* The protocol table has the two built-in slots and no more than one slot *)
(* for each entry the list can take; PROTOCOL_INIT goes to slots that are  *)
(* there, never to the terminator; every websocket that is served has a    *)
(* name, a callback and a daemon of the tables.                            *)
(***************************************************************************)
THEOREM StartupTyped == StartupSpec => []StartupTypeOK
BY StartupInvariance, StartupInitType, StartupTypeStep, PTL DEF StartupSpec
=============================================================================
