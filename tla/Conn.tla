-------------------------------- MODULE Conn --------------------------------
(***************************************************************************)
(* The connection layer of main/backend.c: the conn_t objects, the         *)
(* descriptor dictionary ("filedict") that should index them, and the      *)
(* process's descriptor table as far as client sockets occupy it.          *)
(*                                                                         *)
(* Every websocket session creates at most one conn_t, so a conn_t is      *)
(* named by the session that created it: conn[s] is the state of the heap  *)
(* block pss->conn_handle points to, "null" when conn_new returned NULL.   *)
(* The callbacks that call these operations are in module Bridge.          *)
(***************************************************************************)
EXTENDS Integers

CONSTANTS Sessions,  \* websocket sessions, in any order of arrival
          Fds,       \* descriptor numbers the process may use
          Nobody,    \* "no session"
          AllocFails \* may malloc fail?

ASSUME ConnAssumption ==
  /\ Fds \subseteq Nat
  /\ Nobody \notin Sessions
  /\ Sessions \cap Nat = {}
  /\ AllocFails \in BOOLEAN

NoFd == -1

VARIABLES conn,      \* heap state of the conn_t of each session
          item,      \* heap state of the dictionary item made for it
          fd_ds,     \* its fd_ds member
          filedict,  \* dictionary: descriptor number -> session of the item
          owner      \* descriptor table: whose client socket a number is

connVars == <<conn, item, fd_ds, filedict, owner>>

ConnTypeOK ==
  /\ conn \in [Sessions -> {"null", "live", "freed"}]
  /\ item \in [Sessions -> {"null", "live", "freed"}]
  /\ fd_ds \in [Sessions -> Fds \cup {NoFd}]
  /\ filedict \in [Fds -> Sessions \cup {Nobody}]
  /\ owner \in [Fds -> Sessions \cup {Nobody}]

ConnInit ==
  /\ conn = [s \in Sessions |-> "null"]
  /\ item = [s \in Sessions |-> "null"]
  /\ fd_ds = [s \in Sessions |-> NoFd]
  /\ filedict = [f \in Fds |-> Nobody]
  /\ owner = [f \in Fds |-> Nobody]

(* socket() returns the lowest descriptor number that is free. *)
Lowest(f) == owner[f] = Nobody /\ \A g \in Fds : owner[g] = Nobody => f <= g

(* Mutation: with the HASH_ADD that dict_new lacks. *)
DictNewHashed(s, f) == filedict' = [filedict EXCEPT ![f] = s]

(***************************************************************************)
(* dict_new allocates the item and its conn_t but has no HASH_ADD: the     *)
(* item never enters the table that dict_get, dict_del and the shutdown    *)
(* loop search.                                                            *)
(***************************************************************************)
DictNew(s, f) == UNCHANGED filedict

(* Mutation: input is not freed when its conn_t cannot be allocated. *)
DictNewFailsHeld(s) ==
  \/ UNCHANGED item
  \/ AllocFails /\ item' = [item EXCEPT ![s] = "live"]

(* No item; or an item, freed again as there is no memory for its conn_t. *)
DictNewFails(s) ==
  \/ UNCHANGED item
  \/ AllocFails /\ item' = [item EXCEPT ![s] = "freed"]

(* dict_del frees the item it finds under a descriptor, and its data. *)
DictDel(f) ==
  IF filedict[f] = Nobody
  THEN UNCHANGED <<filedict, conn, item>>
  ELSE /\ filedict' = [filedict EXCEPT ![f] = Nobody]
       /\ conn' = [conn EXCEPT ![filedict[f]] = "freed"]
       /\ item' = [item EXCEPT ![filedict[f]] = "freed"]

(***************************************************************************)
(* conn_new, success: a new client socket on the lowest descriptor and a   *)
(* dictionary item for it.                                                 *)
(***************************************************************************)
ConnNew(s, f) ==
  /\ Lowest(f)
  /\ filedict[f] = Nobody
  /\ owner' = [owner EXCEPT ![f] = s]
  /\ DictNew(s, f)
  /\ conn' = [conn EXCEPT ![s] = "live"]
  /\ item' = [item EXCEPT ![s] = "live"]
  /\ fd_ds' = [fd_ds EXCEPT ![s] = f]

(***************************************************************************)
(* conn_new returns NULL: a dead path or no descriptor (TERM1), an item    *)
(* already there under that number, or no memory (TERM2, where the new     *)
(* socket is closed before any other can be made).                         *)
(***************************************************************************)
ConnNewFails(s) ==
  /\ DictNewFails(s)
  /\ UNCHANGED <<conn, fd_ds, filedict, owner>>

(* Mutation: the descriptor is left open. *)
ConnCloseNot(s) == UNCHANGED owner

(* close(conn->fd_ds): whatever socket the number names now is closed. *)
ConnClose(s) ==
  IF fd_ds[s] \in Fds
  THEN owner' = [owner EXCEPT ![fd_ds[s]] = Nobody]
  ELSE UNCHANGED owner

(* conn_del: drops the dictionary item of the connection's descriptor. *)
ConnDel(s) ==
  IF fd_ds[s] \in Fds THEN DictDel(fd_ds[s])
                      ELSE UNCHANGED <<filedict, conn, item>>

(* The loop of backend_run over the dictionary, after the service loop. *)
CloseAll ==
  /\ owner' = [f \in Fds |-> IF filedict[f] = Nobody THEN owner[f] ELSE Nobody]
  /\ UNCHANGED <<conn, fd_ds>>

(* dict_deinit frees the items left and the dictionary, never their data. *)
DictDeinit ==
  /\ filedict' = [f \in Fds |-> Nobody]
  /\ item' = [s \in Sessions |-> IF \E f \in Fds : filedict[f] = s THEN "freed"
                                 ELSE item[s]]
=============================================================================
