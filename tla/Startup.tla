------------------------------ MODULE Startup ------------------------------
(***************************************************************************)
(* From the list of daemons to the sessions they serve: wfedd makes the    *)
(* protocol table of libwebsockets out of the socket list (main/main.c),   *)
(* and what a browser asks for goes by name through that table, to a       *)
(* callback of main/frontend.c, and back through the list to a daemon.     *)
(*                                                                         *)
(* main adds the -S arguments one by one and looks at no result, so that   *)
(* wfedd may begin after any sequence of calls of Socklist.                *)
(***************************************************************************)
EXTENDS Socklist

CONSTANTS Http, Cli,   \* the names "http" and "CLI" of the built-in slots
          NoPath       \* no daemon

ASSUME StartupAssumption ==
  {Http, Cli} \subseteq Int /\ Http # Cli /\ NoPath \notin Paths

VARIABLES protocols,   \* the table, by slot, without its zeroed terminator
          vhost,       \* libwebsockets: not there, being set up, serving
          inited,      \* slots that have had LWS_CALLBACK_PROTOCOL_INIT
          served       \* the websockets that were served (history)

startupVars == <<vars, protocols, vhost, inited, served>>

Slot(n, cb) == [name |-> n, callback |-> cb]
Asked == Names \cup {Http, Cli}

StartupTypeOK ==
  /\ TypeOK
  /\ \E k \in {0} \cup (2..(Alloc + 2)) :
       protocols \in [0..(k - 1) -> [name : Asked, callback : {"http", "cli", "ws"}]]
  /\ vhost \in {"none", "init", "up", "crash"}
  /\ inited \subseteq DOMAIN protocols
  /\ served \subseteq [asked : Asked, callback : {"http", "cli", "ws"},
                       path : Paths \cup {NoPath},
                       child : {"none", "http", "cli", "ws"}]

StartupInit ==
  /\ Init
  /\ protocols = [j \in 0..(-1) |-> Slot(Http, "http")]
  /\ vhost = "none"
  /\ inited = {}
  /\ served = {}

Building == /\ \/ \E m \in MapStr : AddMap(m)
               \/ AddMalformed
               \/ \E p \in Paths : FileChanges(p)
            /\ UNCHANGED <<protocols, vhost, inited, served>>

(* Mutation: the built-in slots come last. *)
ProtocolTableLast ==
  [j \in 0..(size + 1) |->
     IF j < size THEN Slot(map[j].websocket, "ws")
     ELSE IF j = size THEN Slot(Http, "http") ELSE Slot(Cli, "cli")]

(* Slot 0 is HTTP, slot 1 raw sockets, then the names in the list's order. *)
ProtocolTable ==
  [j \in 0..(size + 1) |->
     IF j = 0 THEN Slot(Http, "http")
     ELSE IF j = 1 THEN Slot(Cli, "cli") ELSE Slot(map[j - 2].websocket, "ws")]

(* The table is made and frontend_start reached, or wfedd returns -1. *)
WfeddStarts ==
  /\ Start
  /\ \/ protocols' = ProtocolTable /\ vhost' = "init"
     \/ AllocFails /\ UNCHANGED <<protocols, vhost>>
  /\ UNCHANGED <<inited, served>>

(* Mutation: the terminator is given PROTOCOL_INIT too. *)
ProtocolInitPast(j) ==
  /\ vhost = "init"
  /\ 0..(j - 1) \subseteq inited
  /\ inited' = inited \cup {j}
  /\ UNCHANGED <<vars, protocols, vhost, served>>

(***************************************************************************)
(* PROTOCOL_INIT of the next slot.  frontend_ws_callback asks for vhost    *)
(* data and writes to it without a test for NULL; the others do nothing.   *)
(***************************************************************************)
ProtocolInit(j) ==
  /\ vhost = "init"
  /\ j \in DOMAIN protocols \ inited /\ 0..(j - 1) \subseteq inited
  /\ \/ inited' = inited \cup {j} /\ UNCHANGED vhost
     \/ /\ AllocFails /\ protocols[j].callback = "ws"
        /\ vhost' = "crash" /\ UNCHANGED inited
  /\ UNCHANGED <<vars, protocols, served>>

Serving ==
  /\ vhost = "init"
  /\ inited = DOMAIN protocols
  /\ vhost' = "up"
  /\ UNCHANGED <<vars, protocols, inited, served>>

(* libwebsockets takes the first slot that has the name it looks for. *)
SlotOf(n) ==
  {j \in DOMAIN protocols : /\ protocols[j].name = n
                            /\ \A i \in 0..(j - 1) : protocols[i].name # n}

Websocket(n, cb, p, child) ==
  [asked |-> n, callback |-> cb, path |-> p, child |-> child]

(* A websocket of frontend_http_callback or frontend_cli_callback. *)
UpgradeBuiltin(n) ==
  /\ vhost = "up"
  /\ \E j \in SlotOf(n) :
       /\ protocols[j].callback # "ws"
       /\ served' =
            served \cup {Websocket(n, protocols[j].callback, NoPath, "none")}
  /\ UNCHANGED <<vars, protocols, vhost, inited>>

(***************************************************************************)
(* ESTABLISHED in frontend_ws_callback: a client of the daemon of the name *)
(* in vhd->protocol, adopted under conn_get_protocolname.                  *)
(***************************************************************************)
Upgrade(n) ==
  /\ vhost = "up"
  /\ \E j \in SlotOf(n) :
       /\ protocols[j].callback = "ws"
       /\ NewClient(protocols[j].name)
       /\ \E i \in Hits(protocols[j].name), c \in SlotOf(Cli) :
            served' = served \cup {Websocket(n, "ws", map[i].l_socket,
                                            protocols[c].callback)}
  /\ UNCHANGED <<protocols, vhost, inited>>

StartupNext ==
  \/ Building
  \/ WfeddStarts
  \/ Serving
  \/ \E j \in 0..(Alloc + 1) : ProtocolInit(j)
  \/ \E n \in Asked : UpgradeBuiltin(n) \/ Upgrade(n)

StartupSpec == StartupInit /\ [][StartupNext]_startupVars

----------------------------------------------------------------------------
(* Properties *)

(***************************************************************************)
(* Whatever was accepted, refused, doubled or named like a built-in slot:  *)
(* a websocket of frontend_ws_callback asked for a name on the list that   *)
(* is not built in, has the daemon the list names for it, and its client   *)
(* socket was adopted by frontend_cli_callback.  Only the two built-in     *)
(* names end elsewhere, and never with a daemon.                           *)
(***************************************************************************)
OwnDaemonOnly ==
  \A r \in served :
    IF r.callback = "ws"
    THEN /\ r.asked \notin {Http, Cli} /\ Has(r.asked)
         /\ r.path = map[At(r.asked)].l_socket
         /\ r.child = "cli"
    ELSE r.asked = IF r.callback = "cli" THEN Cli ELSE Http
=============================================================================
