------------------------------- MODULE Bridge -------------------------------
(***************************************************************************)
(* The bridge of wfedd: the libwebsockets callbacks of main/frontend.c and *)
(* the service loop of backend_run, over the connections of module Conn,   *)
(* between browsers (websockets) and daemons (unix sockets).               *)
(*                                                                         *)
(* One thread runs everything.  A callback without a loop is one action.   *)
(* A writeable callback drains a queue in a loop and may block in write(), *)
(* so it is one action per iteration, and ESTABLISHED is two, as it may    *)
(* block in connect(): `busy` names the callback in progress, and until it *)
(* returns only the environment moves.                                     *)
(*                                                                         *)
(* The payload is a stream of units <<s, n>>: the n-th unit sent in one    *)
(* direction of session s.  What a callback reads or writes goes to the    *)
(* socket its descriptor number names at that moment, whoever owns it.     *)
(***************************************************************************)
EXTENDS Conn, Sequences

CONSTANTS MaxUp, MaxDown,   \* bound: units a browser, a daemon sends
          RxSize,           \* bound: units of one LWS_CALLBACK_RECEIVE
          BufSize,          \* backend.bufsize: units of one read()
          SockCap,          \* units a unix socket buffers per direction
          WsCap,            \* frames in flight at which a websocket chokes
          LwsPre,           \* LWS_PRE
          SizeMod,          \* 2^width of size_t
          Nonblocking,      \* does adoption make the descriptor O_NONBLOCK?
          AdoptFails,       \* may lws have no wsi for a descriptor?
          Stray             \* a byte sent that nobody put there

ASSUME BridgeAssumption ==
  /\ {MaxUp, MaxDown, LwsPre} \subseteq Nat
  /\ {RxSize, BufSize, SockCap, WsCap, SizeMod} \subseteq Nat \ {0}
  /\ {Nonblocking, AdoptFails} \subseteq BOOLEAN
  /\ Stray \notin Sessions \X Nat

VARIABLES loop,        \* where backend_run is
          irq,         \* backend.irq is BIRQ_GLOBAL
          ws,          \* websocket of each session
          pss_list,    \* vhd->pss_list
          lwsi,        \* the wsi pss->lwsi points to
          wantWeb,     \* the websocket's wsi waits for POLLOUT
          wantLocal,   \* so does its child, the raw wsi
          mqweb,       \* conn->mqweb
          mqlocal,     \* conn->mqlocal
          busy,        \* callback in progress
          out,         \* what its write() has not transferred yet
          rc           \* its return value

bridgeVars == <<loop, irq, ws, pss_list, lwsi, wantWeb, wantLocal, mqweb,
                mqlocal, busy, out, rc>>

VARIABLES dsock,       \* the daemon's end of each connection
          toDaemon,    \* bytes in the socket, towards the daemon
          fromDaemon,  \* and towards wfedd
          link,        \* the browser's end
          pipe,        \* frames in flight to the browser
          websent,     \* units the browser has sent (history)
          dsent,       \* units the daemon has sent (history)
          dgot,        \* what the daemon has read (history)
          wgot         \* frames the browser has received (history)

envVars == <<dsock, toDaemon, fromDaemon, link, pipe, websent, dsent, dgot,
             wgot>>

vars == <<connVars, bridgeVars, envVars>>

Unit == Sessions \X Nat
Msg == [data : Seq(Unit), size : Nat]
NoCallback == <<"none", Nobody>>

BridgeTypeOK ==
  /\ loop \in {"run", "stop", "exit", "crash"}
  /\ irq \in BOOLEAN
  /\ ws \in [Sessions -> {"none", "open", "closed"}]
  /\ pss_list \subseteq Sessions
  /\ lwsi \in [Sessions -> {"none", "live", "null", "freed"}]
  /\ wantWeb \in [Sessions -> BOOLEAN]
  /\ wantLocal \in [Sessions -> BOOLEAN]
  /\ mqweb \in [Sessions -> Seq(Msg)]
  /\ mqlocal \in [Sessions -> Seq(Msg)]
  /\ busy \in ({"ws", "cli", "est"} \X Sessions) \cup {NoCallback}
  /\ out \in Seq(Unit)
  /\ rc \in {0, -1}

EnvTypeOK ==
  /\ dsock \in [Sessions -> {"none", "connecting", "open", "half", "refused",
                           "hup", "shut"}]
  /\ toDaemon \in [Sessions -> Seq(Unit)]
  /\ fromDaemon \in [Sessions -> Seq(Unit)]
  /\ link \in [Sessions -> {"up", "down"}]
  /\ pipe \in [Sessions -> Seq(Seq(Unit \cup {Stray}))]
  /\ websent \in [Sessions -> Nat]
  /\ dsent \in [Sessions -> Nat]
  /\ dgot \in [Sessions -> Seq(Unit)]
  /\ wgot \in [Sessions -> Seq(Seq(Unit \cup {Stray}))]

TypeOK == ConnTypeOK /\ BridgeTypeOK /\ EnvTypeOK

Init ==
  /\ ConnInit
  /\ loop = "run"
  /\ irq = FALSE
  /\ ws = [s \in Sessions |-> "none"]
  /\ pss_list = {}
  /\ lwsi = [s \in Sessions |-> "none"]
  /\ wantWeb = [s \in Sessions |-> FALSE]
  /\ wantLocal = [s \in Sessions |-> FALSE]
  /\ mqweb = [s \in Sessions |-> <<>>]
  /\ mqlocal = [s \in Sessions |-> <<>>]
  /\ busy = NoCallback
  /\ out = <<>>
  /\ rc = 0
  /\ dsock = [s \in Sessions |-> "none"]
  /\ toDaemon = [s \in Sessions |-> <<>>]
  /\ fromDaemon = [s \in Sessions |-> <<>>]
  /\ link = [s \in Sessions |-> "up"]
  /\ pipe = [s \in Sessions |-> <<>>]
  /\ websent = [s \in Sessions |-> 0]
  /\ dsent = [s \in Sessions |-> 0]
  /\ dgot = [s \in Sessions |-> <<>>]
  /\ wgot = [s \in Sessions |-> <<>>]

----------------------------------------------------------------------------
(* Messages and their sizes. *)

Units(s, from, n) == [i \in 1..n |-> <<s, from + i>>]
Lesser(m, n) == IF m <= n THEN m ELSE n

(* msg_new and the copy into it. *)
MsgNew(d, n) == [data |-> d, size |-> n]

(* Mutations: LWS_PRE subtracted; one byte too few copied. *)
CreateMsgLess(d) == MsgNew(d, Len(d) - LwsPre)
CreateMsgShort(d) == MsgNew(SubSeq(d, 1, Len(d) - 1), Len(d) + LwsPre)

(* frontend_createmsg: LWS_PRE is added to the size of the message ...     *)
CreateMsg(d) == MsgNew(d, Len(d) + LwsPre)

(* ... and lws_write sends "size" bytes from data + LWS_PRE onwards.       *)
Frame(msg) ==
  msg.data \o [i \in 1..(msg.size - Len(msg.data)) |-> Stray]

(* "m < msg->size" compares an int with a size_t: m is converted. *)
TooShort(m, size) == m % SizeMod < size

(* Mutation: STAILQ_INSERT_HEAD for STAILQ_INSERT_TAIL. *)
EnqueuedFirst(q, msg) == {<<msg>> \o q}

(* What malloc failure does to a message: it is dropped, nothing is said. *)
Enqueued(q, msg) ==
  {Append(q, msg)} \cup (IF AllocFails THEN {q} ELSE {})

----------------------------------------------------------------------------
(* The sockets behind the descriptors. *)

Holds(s) == \E f \in Fds : owner[f] = s
Peer(s) == IF fd_ds[s] \in Fds THEN owner[fd_ds[s]] ELSE Nobody

(* A daemon whose client socket has just been closed sees the end of it. *)
SocketsFollow ==
  dsock' = [s \in Sessions |->
              IF dsock[s] \in {"open", "half"} /\ Holds(s) /\ ~Holds(s)'
              THEN "shut" ELSE dsock[s]]

(***************************************************************************)
(* What poll reports for the descriptor of a raw wsi.  A daemon that has   *)
(* shut down its writing half makes it readable for good: there is an end  *)
(* of file to read.                                                        *)
(***************************************************************************)
Readable(s) ==
  /\ Peer(s) # Nobody
  /\ fromDaemon[Peer(s)] # <<>> \/ dsock[Peer(s)] = "half"
HungUp(s) ==
  Peer(s) # Nobody /\ dsock[Peer(s)] \in {"hup", "refused"}
Writeable(s) ==
  Peer(s) # Nobody /\ (HungUp(s) \/ Len(toDaemon[Peer(s)]) < SockCap)

(* The thread is inside lws_service, between two callbacks. *)
CanCall == loop = "run" /\ busy = NoCallback

----------------------------------------------------------------------------
(* LWS_CALLBACK_ESTABLISHED *)

(***************************************************************************)
(* conn_new fails (dead path, no descriptor, no memory): the callback      *)
(* returns -1 and lws closes the websocket.                                *)
(***************************************************************************)
EstablishFails(s) ==
  /\ CanCall
  /\ ws[s] = "none"
  /\ ConnNewFails(s)
  /\ ws' = [ws EXCEPT ![s] = "closed"]
  /\ UNCHANGED <<loop, irq, pss_list, lwsi, wantWeb, wantLocal, mqweb,
                 mqlocal, busy, out, rc, envVars>>

(* conn_new, the list of sessions, and conn_open's connect() begins. *)
Establish(s) ==
  /\ CanCall
  /\ ws[s] = "none"
  /\ \E f \in Fds : ConnNew(s, f)
  /\ ws' = [ws EXCEPT ![s] = "open"]
  /\ pss_list' = pss_list \cup {s}
  /\ dsock' = [dsock EXCEPT ![s] = "connecting"]
  /\ busy' = <<"est", s>>
  /\ UNCHANGED <<loop, irq, lwsi, wantWeb, wantLocal, mqweb, mqlocal, out, rc,
                 toDaemon, fromDaemon, link, pipe, websent, dsent, dgot, wgot>>

(***************************************************************************)
(* connect() has returned; its result is not looked at.  The descriptor    *)
(* becomes a raw wsi, unless lws has none: pss->lwsi is then NULL, and     *)
(* lws_set_opaque_user_data writes through it.                             *)
(***************************************************************************)
Adopt(s) ==
  /\ busy = <<"est", s>>
  /\ dsock[s] # "connecting"
  /\ busy' = NoCallback
  /\ \/ lwsi' = [lwsi EXCEPT ![s] = "live"] /\ UNCHANGED loop
     \/ AdoptFails /\ lwsi' = [lwsi EXCEPT ![s] = "null"] /\ loop' = "crash"
  /\ UNCHANGED <<connVars, irq, ws, pss_list, wantWeb, wantLocal, mqweb,
                 mqlocal, out, rc, envVars>>

----------------------------------------------------------------------------
(* LWS_CALLBACK_RECEIVE *)

(* Mutation: the callback is not asked for. *)
WantNothing(s) == UNCHANGED <<wantLocal, wantWeb, loop>>

(***************************************************************************)
(* lws_callback_on_writable(pss->lwsi).  After the child wsi has closed,   *)
(* pss->lwsi dangles: the call reads a freed block, which may hold         *)
(* anything, be some other wsi by now, or crash the process.               *)
(***************************************************************************)
WantWriteable(s) ==
  IF lwsi[s] = "live"
  THEN /\ wantLocal' = [wantLocal EXCEPT ![s] = TRUE]
       /\ UNCHANGED <<wantWeb, loop>>
  ELSE \/ UNCHANGED <<wantLocal, wantWeb, loop>>
       \/ \E t \in Sessions : /\ lwsi[t] = "live"
                              /\ wantLocal' = [wantLocal EXCEPT ![t] = TRUE]
                              /\ UNCHANGED <<wantWeb, loop>>
       \/ \E t \in Sessions : /\ ws[t] = "open"
                              /\ wantWeb' = [wantWeb EXCEPT ![t] = TRUE]
                              /\ UNCHANGED <<wantLocal, loop>>
       \/ loop' = "crash" /\ UNCHANGED <<wantLocal, wantWeb>>

(* A fragment of n units arrives; an empty one puts nothing on the queue. *)
WsReceive(s) ==
  /\ CanCall
  /\ ws[s] = "open" /\ link[s] = "up"
  /\ \E n \in 0..Lesser(RxSize, MaxUp - websent[s]) :
       /\ websent' = [websent EXCEPT ![s] = @ + n]
       /\ \E q \in IF n = 0 THEN {mqlocal[s]}
                   ELSE Enqueued(mqlocal[s],
                                 MsgNew(Units(s, websent[s], n), n)) :
            mqlocal' = [mqlocal EXCEPT ![s] = q]
  /\ WantWriteable(s)
  /\ UNCHANGED <<connVars, irq, ws, pss_list, lwsi, mqweb, busy, out, rc,
                 dsock, toDaemon, fromDaemon, link, pipe, dsent, dgot, wgot>>

----------------------------------------------------------------------------
(* Raw client sockets: LWS_CALLBACK_RAW_RX_FILE and RAW_CLOSE_FILE *)

(***************************************************************************)
(* One read() of at most bufsize bytes, and a message for the websocket;   *)
(* nothing is done about an end of file.                                   *)
(***************************************************************************)
ReadLocal(s) ==
  LET n == Lesser(BufSize, Len(fromDaemon[Peer(s)]))
      d == SubSeq(fromDaemon[Peer(s)], 1, n)
  IN  IF n = 0 THEN UNCHANGED <<fromDaemon, mqweb, wantWeb>>
      ELSE /\ fromDaemon' =
                [fromDaemon EXCEPT ![Peer(s)] = SubSeq(@, n + 1, Len(@))]
           /\ \E q \in Enqueued(mqweb[s], CreateMsg(d)) :
                mqweb' = [mqweb EXCEPT ![s] = q]
           /\ wantWeb' = [wantWeb EXCEPT ![s] = TRUE]

(* The raw wsi goes away: conn_close, then conn_del, then lws frees it. *)
CloseClient(s) ==
  /\ ConnClose(s)
  /\ ConnDel(s)
  /\ lwsi' = [lwsi EXCEPT ![s] = "freed"]
  /\ wantLocal' = [wantLocal EXCEPT ![s] = FALSE]
  /\ SocketsFollow
  /\ UNCHANGED fd_ds

(* Mutation: an end of file closes the raw wsi. *)
CliReceiveEof(s) ==
  /\ CanCall
  /\ lwsi[s] = "live"
  /\ Readable(s) /\ ~HungUp(s)
  /\ fromDaemon[Peer(s)] = <<>>
  /\ CloseClient(s)
  /\ UNCHANGED <<loop, irq, ws, pss_list, wantWeb, mqweb, mqlocal, busy, out,
                 rc, toDaemon, fromDaemon, link, pipe, websent, dsent, dgot,
                 wgot>>

CliReceive(s) ==
  /\ CanCall
  /\ lwsi[s] = "live"
  /\ Readable(s) /\ ~HungUp(s)
  /\ ReadLocal(s)
  /\ UNCHANGED <<connVars, loop, irq, ws, pss_list, lwsi, wantLocal, mqlocal,
                 busy, out, rc, dsock, toDaemon, link, pipe, websent, dsent,
                 dgot, wgot>>

(***************************************************************************)
(* POLLHUP: lws calls RAW_RX_FILE once if there is something to read and   *)
(* then closes the raw wsi, whatever is left in the socket.  The websocket *)
(* is not told.                                                            *)
(***************************************************************************)
CliHangup(s) ==
  /\ CanCall
  /\ lwsi[s] = "live"
  /\ HungUp(s)
  /\ IF Readable(s) THEN ReadLocal(s)
                    ELSE UNCHANGED <<fromDaemon, mqweb, wantWeb>>
  /\ CloseClient(s)
  /\ UNCHANGED <<loop, irq, ws, pss_list, mqlocal, busy, out, rc, toDaemon,
                 link, pipe, websent, dsent, dgot, wgot>>

----------------------------------------------------------------------------
(* LWS_CALLBACK_RAW_WRITEABLE_FILE: while (conn_hasmsg_forlocal(conn)) ... *)

CliWriteable(s) ==
  /\ CanCall
  /\ lwsi[s] = "live" /\ wantLocal[s]
  /\ Writeable(s)
  /\ busy' = <<"cli", s>>
  /\ UNCHANGED <<connVars, loop, irq, ws, pss_list, lwsi, wantWeb, wantLocal,
                 mqweb, mqlocal, out, rc, envVars>>

(* conn_getmsg_forlocal, and the write() starts. *)
CliPop(s) ==
  /\ busy = <<"cli", s>>
  /\ out = <<>> /\ mqlocal[s] # <<>>
  /\ out' = Head(mqlocal[s]).data
  /\ mqlocal' = [mqlocal EXCEPT ![s] = Tail(@)]
  /\ UNCHANGED <<connVars, loop, irq, ws, pss_list, lwsi, wantWeb, wantLocal,
                 mqweb, busy, rc, envVars>>

(***************************************************************************)
(* write() moves what fits.  A blocking one waits for room and moves the   *)
(* rest too; a non-blocking one returns, and as its result is ignored the  *)
(* rest is freed with the message.  Towards a daemon that is gone all of   *)
(* it is.                                                                  *)
(***************************************************************************)
CliWrite(s) ==
  LET room  == SockCap - Len(toDaemon[Peer(s)])
      moved == Lesser(room, Len(out))
  IN  /\ busy = <<"cli", s>>
      /\ out # <<>>
      /\ IF Peer(s) = Nobody \/ HungUp(s)
         THEN out' = <<>> /\ UNCHANGED toDaemon
         ELSE /\ Nonblocking \/ room > 0
              /\ toDaemon' = [toDaemon EXCEPT
                               ![Peer(s)] = @ \o SubSeq(out, 1, moved)]
              /\ out' = IF Nonblocking THEN <<>>
                        ELSE SubSeq(out, moved + 1, Len(out))
      /\ UNCHANGED <<connVars, loop, irq, ws, pss_list, lwsi, wantWeb,
                     wantLocal, mqweb, mqlocal, busy, rc, dsock, fromDaemon,
                     link, pipe, websent, dsent, dgot, wgot>>

(* Mutation: one message per callback. *)
CliReturnEarly(s) ==
  /\ busy = <<"cli", s>>
  /\ out = <<>>
  /\ busy' = NoCallback
  /\ wantLocal' = [wantLocal EXCEPT ![s] = FALSE]
  /\ UNCHANGED <<connVars, loop, irq, ws, pss_list, lwsi, wantWeb, mqweb,
                 mqlocal, out, rc, envVars>>

(* The queue is empty: return, and lws stops waiting for POLLOUT. *)
CliReturn(s) ==
  /\ busy = <<"cli", s>>
  /\ out = <<>> /\ mqlocal[s] = <<>>
  /\ busy' = NoCallback
  /\ wantLocal' = [wantLocal EXCEPT ![s] = FALSE]
  /\ UNCHANGED <<connVars, loop, irq, ws, pss_list, lwsi, wantWeb, mqweb,
                 mqlocal, out, rc, envVars>>

----------------------------------------------------------------------------
(* LWS_CALLBACK_CLOSED *)

(* Mutation: the conn_close that is commented out in CLOSED. *)
CloseChildAgain(s) ==
  IF lwsi[s] = "live" THEN CloseClient(s)
  ELSE /\ ConnClose(s)
       /\ SocketsFollow
       /\ UNCHANGED <<conn, item, fd_ds, filedict, lwsi, wantLocal>>

(* The websocket goes away; its child, if any is left, goes first. *)
CloseChild(s) ==
  IF lwsi[s] = "live" THEN CloseClient(s)
  ELSE UNCHANGED <<connVars, lwsi, wantLocal, dsock>>
CloseSession(s) ==
  /\ CloseChild(s)
  /\ ws' = [ws EXCEPT ![s] = "closed"]
  /\ pss_list' = pss_list \ {s}

(* lws finds the browser gone, or is being destroyed. *)
WsClose(s) ==
  /\ busy = NoCallback
  /\ ws[s] = "open"
  /\ loop = "stop" \/ (loop = "run" /\ link[s] = "down")
  /\ CloseSession(s)
  /\ UNCHANGED <<loop, irq, wantWeb, mqweb, mqlocal, busy, out, rc, toDaemon,
                 fromDaemon, link, pipe, websent, dsent, dgot, wgot>>

----------------------------------------------------------------------------
(* LWS_CALLBACK_SERVER_WRITEABLE: while (conn_hasmsg_forweb(...)) ... *)

Choked(s) == link[s] = "up" /\ Len(pipe[s]) >= WsCap

(* lws stops waiting for POLLOUT before it calls. *)
WsWriteable(s) ==
  /\ CanCall
  /\ ws[s] = "open" /\ wantWeb[s]
  /\ ~Choked(s)
  /\ busy' = <<"ws", s>>
  /\ wantWeb' = [wantWeb EXCEPT ![s] = FALSE]
  /\ rc' = 0
  /\ UNCHANGED <<connVars, loop, irq, ws, pss_list, lwsi, wantLocal, mqweb,
                 mqlocal, out, envVars>>

(* A non-zero result of the writeable callback makes lws close. *)
WsResult(s) ==
  IF rc = 0 THEN UNCHANGED <<connVars, lwsi, wantLocal, dsock, ws, pss_list>>
            ELSE CloseSession(s)

(* Mutations: no new request; the message taken before the pipe is tested. *)
WsChokeQuiet(s) ==
  /\ busy = <<"ws", s>>
  /\ mqweb[s] # <<>> /\ Choked(s)
  /\ busy' = NoCallback
  /\ WsResult(s)
  /\ UNCHANGED <<loop, irq, wantWeb, mqweb, mqlocal, out, rc, toDaemon,
                 fromDaemon, link, pipe, websent, dsent, dgot, wgot>>
WsChokeTaken(s) ==
  /\ busy = <<"ws", s>>
  /\ mqweb[s] # <<>> /\ Choked(s)
  /\ mqweb' = [mqweb EXCEPT ![s] = Tail(@)]
  /\ wantWeb' = [wantWeb EXCEPT ![s] = TRUE]
  /\ busy' = NoCallback
  /\ WsResult(s)
  /\ UNCHANGED <<loop, irq, mqlocal, out, rc, toDaemon, fromDaemon, link, pipe,
                 websent, dsent, dgot, wgot>>

(* Choked: ask to be called again, break, and return rc as well. *)
WsChoke(s) ==
  /\ busy = <<"ws", s>>
  /\ mqweb[s] # <<>> /\ Choked(s)
  /\ wantWeb' = [wantWeb EXCEPT ![s] = TRUE]
  /\ busy' = NoCallback
  /\ WsResult(s)
  /\ UNCHANGED <<loop, irq, mqweb, mqlocal, out, rc, toDaemon, fromDaemon,
                 link, pipe, websent, dsent, dgot, wgot>>

(* lws_write takes the whole message, or -1 once the browser is gone. *)
WsWrite(s) ==
  LET msg == Head(mqweb[s])
      m   == IF link[s] = "up" THEN msg.size ELSE -1
  IN  /\ busy = <<"ws", s>>
      /\ mqweb[s] # <<>> /\ ~Choked(s)
      /\ mqweb' = [mqweb EXCEPT ![s] = Tail(@)]
      /\ pipe' = IF m >= 0 THEN [pipe EXCEPT ![s] = Append(@, Frame(msg))]
                           ELSE pipe
      /\ rc' = IF TooShort(m, msg.size) THEN -1 ELSE rc
      /\ UNCHANGED <<connVars, loop, irq, ws, pss_list, lwsi, wantWeb,
                     wantLocal, mqlocal, busy, out, dsock, toDaemon,
                     fromDaemon, link, websent, dsent, dgot, wgot>>

(* The queue is empty: return. *)
WsReturn(s) ==
  /\ busy = <<"ws", s>>
  /\ mqweb[s] = <<>>
  /\ busy' = NoCallback
  /\ WsResult(s)
  /\ UNCHANGED <<loop, irq, wantWeb, mqweb, mqlocal, out, rc, toDaemon,
                 fromDaemon, link, pipe, websent, dsent, dgot, wgot>>

----------------------------------------------------------------------------
(* backend_run *)

Sigint ==
  /\ loop \in {"run", "stop"} /\ ~irq
  /\ irq' = TRUE
  /\ UNCHANGED <<connVars, loop, ws, pss_list, lwsi, wantWeb, wantLocal,
                 mqweb, mqlocal, busy, out, rc, envVars>>

(* Mutation: the loop ends once nobody is connected any more. *)
LoopEndIdle ==
  /\ CanCall
  /\ irq /\ \A s \in Sessions : ws[s] # "open"
  /\ loop' = "stop"
  /\ UNCHANGED <<connVars, irq, ws, pss_list, lwsi, wantWeb, wantLocal,
                 mqweb, mqlocal, busy, out, rc, envVars>>

(* The loop ends on the irq, or when lws_service fails. *)
LoopEnd ==
  /\ CanCall
  /\ irq
  /\ loop' = "stop"
  /\ UNCHANGED <<connVars, irq, ws, pss_list, lwsi, wantWeb, wantLocal,
                 mqweb, mqlocal, busy, out, rc, envVars>>
ServiceFails ==
  /\ CanCall
  /\ loop' = "stop"
  /\ UNCHANGED <<connVars, irq, ws, pss_list, lwsi, wantWeb, wantLocal,
                 mqweb, mqlocal, busy, out, rc, envVars>>

(* lws_context_destroy reaches a raw wsi before its parent. *)
DestroyClient(s) ==
  /\ loop = "stop"
  /\ lwsi[s] = "live"
  /\ CloseClient(s)
  /\ UNCHANGED <<loop, irq, ws, pss_list, wantWeb, mqweb, mqlocal, busy, out,
                 rc, toDaemon, fromDaemon, link, pipe, websent, dsent, dgot,
                 wgot>>

(* Mutation: no frontend_stop before the connections are closed. *)
BackendExitEarly ==
  /\ loop = "stop"
  /\ CloseAll /\ DictDeinit
  /\ SocketsFollow
  /\ loop' = "exit"
  /\ UNCHANGED <<irq, ws, pss_list, lwsi, wantWeb, wantLocal, mqweb, mqlocal,
                 busy, out, rc, toDaemon, fromDaemon, link, pipe, websent,
                 dsent, dgot, wgot>>

(* frontend_stop has returned: close what the dictionary has left, return. *)
BackendExit ==
  /\ loop = "stop"
  /\ \A s \in Sessions : ws[s] # "open" /\ lwsi[s] # "live"
  /\ CloseAll /\ DictDeinit
  /\ SocketsFollow
  /\ loop' = "exit"
  /\ UNCHANGED <<irq, ws, pss_list, lwsi, wantWeb, wantLocal, mqweb, mqlocal,
                 busy, out, rc, toDaemon, fromDaemon, link, pipe, websent,
                 dsent, dgot, wgot>>

----------------------------------------------------------------------------
(* The daemons and the browsers. *)

(* The backlog has room for a connection, or nobody listens any more. *)
DaemonAccepts(s) ==
  /\ dsock[s] = "connecting"
  /\ dsock' = [dsock EXCEPT ![s] = "open"]
  /\ UNCHANGED <<connVars, bridgeVars, toDaemon, fromDaemon, link, pipe,
                 websent, dsent, dgot, wgot>>
DaemonRefuses(s) ==
  /\ dsock[s] = "connecting"
  /\ dsock' = [dsock EXCEPT ![s] = "refused"]
  /\ UNCHANGED <<connVars, bridgeVars, toDaemon, fromDaemon, link, pipe,
                 websent, dsent, dgot, wgot>>

DaemonWrite(s) ==
  /\ dsock[s] = "open"
  /\ dsent[s] < MaxDown /\ Len(fromDaemon[s]) < SockCap
  /\ dsent' = [dsent EXCEPT ![s] = @ + 1]
  /\ fromDaemon' = [fromDaemon EXCEPT ![s] = Append(@, <<s, dsent[s] + 1>>)]
  /\ UNCHANGED <<connVars, bridgeVars, dsock, toDaemon, link, pipe, websent,
                 dgot, wgot>>

DaemonRead(s) ==
  /\ dsock[s] \in {"open", "half", "shut"}
  /\ toDaemon[s] # <<>>
  /\ dgot' = [dgot EXCEPT ![s] = Append(@, Head(toDaemon[s]))]
  /\ toDaemon' = [toDaemon EXCEPT ![s] = Tail(@)]
  /\ UNCHANGED <<connVars, bridgeVars, dsock, fromDaemon, link, pipe, websent,
                 dsent, wgot>>

(* shutdown(SHUT_WR): the daemon will send no more, and goes on reading. *)
DaemonShutWr(s) ==
  /\ dsock[s] = "open"
  /\ dsock' = [dsock EXCEPT ![s] = "half"]
  /\ UNCHANGED <<connVars, bridgeVars, toDaemon, fromDaemon, link, pipe,
                 websent, dsent, dgot, wgot>>

DaemonHup(s) ==
  /\ dsock[s] \in {"open", "half"}
  /\ dsock' = [dsock EXCEPT ![s] = "hup"]
  /\ toDaemon' = [toDaemon EXCEPT ![s] = <<>>]
  /\ UNCHANGED <<connVars, bridgeVars, fromDaemon, link, pipe, websent, dsent,
                 dgot, wgot>>

BrowserDrain(s) ==
  /\ link[s] = "up"
  /\ pipe[s] # <<>>
  /\ wgot' = [wgot EXCEPT ![s] = Append(@, Head(pipe[s]))]
  /\ pipe' = [pipe EXCEPT ![s] = Tail(@)]
  /\ UNCHANGED <<connVars, bridgeVars, dsock, toDaemon, fromDaemon, link,
                 websent, dsent, dgot>>

BrowserGone(s) ==
  /\ ws[s] = "open" /\ link[s] = "up"
  /\ link' = [link EXCEPT ![s] = "down"]
  /\ pipe' = [pipe EXCEPT ![s] = <<>>]
  /\ UNCHANGED <<connVars, bridgeVars, dsock, toDaemon, fromDaemon, websent,
                 dsent, dgot, wgot>>

----------------------------------------------------------------------------
Callback(s) ==
  \/ EstablishFails(s) \/ Establish(s) \/ Adopt(s)
  \/ WsReceive(s) \/ WsWriteable(s) \/ WsChoke(s) \/ WsWrite(s) \/ WsReturn(s)
  \/ WsClose(s)
  \/ CliReceive(s) \/ CliHangup(s)
  \/ CliWriteable(s) \/ CliPop(s) \/ CliWrite(s) \/ CliReturn(s)
  \/ DestroyClient(s)

Backend == LoopEnd \/ ServiceFails \/ BackendExit

Environment(s) ==
  \/ DaemonAccepts(s) \/ DaemonRefuses(s)
  \/ DaemonWrite(s) \/ DaemonRead(s) \/ DaemonShutWr(s) \/ DaemonHup(s)
  \/ BrowserDrain(s) \/ BrowserGone(s)

Next ==
  \/ \E s \in Sessions : Callback(s) \/ Environment(s)
  \/ Backend
  \/ Sigint

Spec == Init /\ [][Next]_vars

----------------------------------------------------------------------------
(* Fairness *)

(* A callback that has begun goes on, as long as its write() can. *)
CallbackFairness ==
  \A s \in Sessions : /\ WF_vars(Adopt(s))
                      /\ WF_vars(CliPop(s) \/ CliWrite(s) \/ CliReturn(s))
                      /\ WF_vars(WsWrite(s) \/ WsChoke(s) \/ WsReturn(s))

(***************************************************************************)
(* lws_service polls every descriptor and serves the ready ones in turn:   *)
(* a callback that is ready again and again is made.                       *)
(***************************************************************************)
PollFairness ==
  \A s \in Sessions :
    /\ SF_vars(CliWriteable(s)) /\ SF_vars(WsWriteable(s))
    /\ SF_vars(CliReceive(s)) /\ SF_vars(CliHangup(s)) /\ SF_vars(WsClose(s))

(* lws_context_destroy closes wsi after wsi, and backend_run goes on. *)
DestroyFairness ==
  /\ WF_vars(BackendExit)
  /\ \A s \in Sessions : WF_vars(DestroyClient(s)) /\ WF_vars(WsClose(s))

(* Daemons that keep accepting or refusing, and reading, browsers that     *)
(* keep draining: an assumption about programs that are not wfedd.         *)
DaemonFairness ==
  \A s \in Sessions : /\ WF_vars(DaemonAccepts(s) \/ DaemonRefuses(s))
                      /\ WF_vars(DaemonRead(s))
BrowserFairness == \A s \in Sessions : WF_vars(BrowserDrain(s))

(* That a call of lws_service returns is not assumed: see module Service. *)
FairSpec ==
  /\ Spec
  /\ CallbackFairness /\ PollFairness /\ DestroyFairness
  /\ DaemonFairness /\ BrowserFairness

----------------------------------------------------------------------------
(* Properties *)

(***************************************************************************)
(* A descriptor is closed exactly when its raw wsi goes: while it is being *)
(* connected or polled, the number still names that client socket, and no  *)
(* other client socket is open, all histories of numbers considered.       *)
(* Numbers are reused, so a close too many hits another session            *)
(* (frontend.c, RAW_CLOSE_FILE and CLOSED).                                *)
(***************************************************************************)
FdOwnership ==
  \A s \in Sessions :
    /\ lwsi[s] = "live" \/ busy = <<"est", s>> =>
         fd_ds[s] \in Fds /\ owner[fd_ds[s]] = s
    /\ \A f \in Fds : owner[f] = s =>
         /\ fd_ds[s] = f
         /\ lwsi[s] \in {"live", "null"} \/ busy = <<"est", s>>

(***************************************************************************)
(* No callback gets a freed connection: both the websocket and the raw wsi *)
(* keep a pointer to the conn_t, and each may outlive the other's view of  *)
(* it (pss->conn_handle, and the opaque user data of the child).           *)
(***************************************************************************)
ConnAlive ==
  \A s \in Sessions :
    ws[s] = "open" \/ lwsi[s] = "live" => conn[s] = "live"

(***************************************************************************)
(* No message waits on a queue nobody will look at: a wsi with a message   *)
(* for it waits for POLLOUT, or its writeable callback is running.         *)
(***************************************************************************)
NoLostWakeup ==
  \A s \in Sessions :
    /\ lwsi[s] = "live" /\ mqlocal[s] # <<>> => wantLocal[s]
    /\ ws[s] = "open" /\ mqweb[s] # <<>> => wantWeb[s] \/ busy = <<"ws", s>>

(***************************************************************************)
(* When backend_run returns, no client socket is left open, whatever was   *)
(* going on when the loop ended: the destruction of the lws context and    *)
(* the loop over the dictionary close them all between them.               *)
(***************************************************************************)
AllReleased == loop = "exit" => \A f \in Fds : owner[f] = Nobody

(***************************************************************************)
(* The heap after any history of failures: a connection that could not be  *)
(* made leaves nothing behind, one that was made keeps its conn_t and its  *)
(* dictionary item, both, to the end of the process (dict_new's paths out, *)
(* conn_new's TERM labels; conn_del frees nothing).                        *)
(***************************************************************************)
HeapAccount ==
  \A s \in Sessions :
    /\ item[s] = "live" <=> conn[s] = "live"
    /\ conn[s] = "live" <=> dsock[s] # "none"

(***************************************************************************)
(* No browser can bring the process down: it crashes only when lws had no  *)
(* wsi to adopt a descriptor with, or after a daemon that refused, or hung *)
(* up on, a websocket that stayed.  A daemon that closes one half only, a  *)
(* browser that leaves and a signal at any moment do not.                  *)
(***************************************************************************)
OnlyDaemonsCrash ==
  loop = "crash" =>
    \E s \in Sessions :
      \/ lwsi[s] = "null"
      \/ lwsi[s] = "freed" /\ dsock[s] \in {"hup", "refused"}

----------------------------------------------------------------------------
(***************************************************************************)
(* The inductive invariant behind the six above (see BridgeProofs), in two *)
(* layers: IInv, and FailInv which is inductive where IInv holds.          *)
(***************************************************************************)

(* The dictionary is never written to: no connection is ever freed. *)
DictEmpty ==
  /\ \A f \in Fds : filedict[f] = Nobody
  /\ \A s \in Sessions : conn[s] # "freed"

(* How the objects of one session live and die together. *)
LifeCycle ==
  \A s \in Sessions :
    /\ ws[s] = "none" => lwsi[s] = "none" /\ conn[s] # "live"
    /\ ws[s] = "open" /\ lwsi[s] = "none" => busy = <<"est", s>>
    /\ lwsi[s] = "none" => mqweb[s] = <<>> /\ mqlocal[s] = <<>>
    /\ ws[s] = "open" => conn[s] = "live"
    /\ lwsi[s] = "live" => ws[s] = "open"
    /\ lwsi[s] = "null" => loop = "crash"

(* A callback runs inside the loop, for a wsi that is there. *)
BusyInv ==
  /\ busy # NoCallback => loop = "run"
  /\ \A s \in Sessions :
       /\ busy = <<"cli", s>> => lwsi[s] = "live" /\ wantLocal[s]
       /\ busy = <<"ws", s>> => ws[s] = "open"
       /\ busy = <<"est", s>> => ws[s] = "open" /\ lwsi[s] = "none"

(* Once the program has left backend_run nothing is open. *)
ExitInv ==
  loop = "exit" => \A s \in Sessions : ws[s] # "open" /\ lwsi[s] # "live"

IInv == /\ TypeOK /\ DictEmpty /\ LifeCycle /\ BusyInv /\ ExitInv
        /\ FdOwnership /\ NoLostWakeup

(* Where the raw wsi has gone before its websocket, a daemon made it go. *)
OrphanInv ==
  loop = "run" =>
    \A s \in Sessions : ws[s] = "open" /\ lwsi[s] = "freed"
                          => dsock[s] \in {"hup", "refused"}

FailInv == HeapAccount /\ OrphanInv /\ OnlyDaemonsCrash
=============================================================================
