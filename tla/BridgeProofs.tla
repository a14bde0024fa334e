---------------------------- MODULE BridgeProofs ----------------------------
(***************************************************************************)
(* The safety properties of Bridge, proved for every number of sessions    *)
(* and descriptors and all sizes and capacities.  Type correctness comes   *)
(* first, then the inductive invariant IInv, then its consequences.        *)
(***************************************************************************)
EXTENDS Bridge, SequenceTheorems, TLAPS

----------------------------------------------------------------------------
(* Messages and frames are what they should be. *)

(* A fragment of n units. *)
LEMMA UnitsType ==
  ASSUME NEW s \in Sessions, NEW from \in Nat, NEW n \in Nat
  PROVE  Units(s, from, n) \in Seq(Unit)
BY SeqDef DEF Units, Unit

(* Both ways a message is made. *)
LEMMA MsgType ==
  ASSUME NEW d \in Seq(Unit), NEW n \in Nat
  PROVE  MsgNew(d, n) \in Msg /\ CreateMsg(d) \in Msg
<1>1. Len(d) \in Nat
  BY LenProperties
<1>2. Len(d) + LwsPre \in Nat
  BY <1>1, BridgeAssumption
<1> QED
  BY <1>2 DEF MsgNew, CreateMsg, Msg

(* The frame written for a message. *)
LEMMA FrameType ==
  ASSUME NEW msg \in Msg
  PROVE  Frame(msg) \in Seq(Unit \cup {Stray})
<1> DEFINE k == msg.size - Len(msg.data)
           pad == [i \in 1..k |-> Stray]
<1>1. msg.data \in Seq(Unit) /\ msg.size \in Nat
  BY DEF Msg
<1>2. Len(msg.data) \in Nat
  BY <1>1, LenProperties
<1>3. msg.data \in Seq(Unit \cup {Stray})
  BY <1>1, SeqMonotonic
<1>4. pad \in Seq(Unit \cup {Stray})
  <2>1. k \in Int
    BY <1>1, <1>2
  <2>2. \E m \in Nat : 1..k = 1..m
    <3>1. CASE k >= 0
      BY <2>1, <3>1
    <3>2. CASE k < 0
      BY <2>1, <3>2, 1..k = 1..0
    <3> QED
      BY <2>1, <3>1, <3>2
  <2>3. PICK m \in Nat : 1..k = 1..m
    BY <2>2
  <2>4. pad \in [1..m -> Unit \cup {Stray}]
    BY <2>3
  <2> QED
    BY <2>3, <2>4, SeqDef
<1> QED
  BY <1>3, <1>4, ConcatProperties DEF Frame

(* A queue after an attempt to put a message on it. *)
LEMMA EnqueuedType ==
  ASSUME NEW q \in Seq(Msg), NEW msg \in Msg, NEW r \in Enqueued(q, msg)
  PROVE  r \in Seq(Msg)
BY DEF Enqueued

(* What a read() or a partial write() takes from a sequence, and leaves. *)
LEMMA CutType ==
  ASSUME NEW S, NEW q \in Seq(S), NEW m \in Int
  PROVE  /\ SubSeq(q, 1, Lesser(m, Len(q))) \in Seq(S)
         /\ SubSeq(q, Lesser(m, Len(q)) + 1, Len(q)) \in Seq(S) \/ m < 0
<1> DEFINE n == Lesser(m, Len(q))
<1>1. Len(q) \in Nat
  BY LenProperties
<1>2. n \in Int /\ n <= Len(q) /\ (m >= 0 => n >= 0)
  BY <1>1 DEF Lesser
<1>3. \A i \in 1..n : q[i] \in S
  BY <1>1, <1>2, ElementOfSeq
<1>4. SubSeq(q, 1, n) \in Seq(S)
  BY <1>2, <1>3, SubSeqProperties
<1>5. ASSUME m >= 0
      PROVE  SubSeq(q, n + 1, Len(q)) \in Seq(S)
  <2>1. \A i \in (n + 1)..Len(q) : q[i] \in S
    BY <1>1, <1>2, <1>5, ElementOfSeq
  <2> QED
    BY <2>1, <1>1, <1>2, SubSeqProperties
<1> QED
  BY <1>4, <1>5

----------------------------------------------------------------------------
(* Type correctness *)


DaemonStates ==
  {"none", "connecting", "open", "half", "refused", "hup", "shut"}

(* Shutting sockets changes what daemons see, and nothing odd. *)
LEMMA SocketsFollowType ==
  ASSUME TypeOK, SocketsFollow
  PROVE  dsock' \in [Sessions -> DaemonStates]
BY DEF TypeOK, EnvTypeOK, SocketsFollow, DaemonStates

(* The operations of Conn. *)
LEMMA ConnTypes ==
  ASSUME ConnTypeOK, NEW s \in Sessions
  PROVE  /\ \A f \in Fds : ConnNew(s, f) => ConnTypeOK'
         /\ ConnNewFails(s) => ConnTypeOK'
         /\ ConnClose(s) /\ ConnDel(s) /\ UNCHANGED fd_ds => ConnTypeOK'
<1> USE DEF ConnTypeOK
<1>1. ASSUME NEW f \in Fds, ConnNew(s, f)
      PROVE  ConnTypeOK'
  BY <1>1 DEF ConnNew, DictNew
<1>2. ASSUME ConnClose(s), ConnDel(s), UNCHANGED fd_ds
      PROVE  ConnTypeOK'
  <2>1. owner' \in [Fds -> Sessions \cup {Nobody}]
    BY <1>2 DEF ConnClose
  <2>2. /\ filedict' \in [Fds -> Sessions \cup {Nobody}]
        /\ conn' \in [Sessions -> {"null", "live", "freed"}]
        /\ item' \in [Sessions -> {"null", "live", "freed"}]
    BY <1>2 DEF ConnDel, DictDel
  <2> QED
    BY <1>2, <2>1, <2>2
<1>3. ASSUME ConnNewFails(s)
      PROVE  ConnTypeOK'
  BY <1>3 DEF ConnNewFails, DictNewFails
<1> QED
  BY <1>1, <1>2, <1>3

LEMMA CloseClientType ==
  ASSUME TypeOK, NEW s \in Sessions, CloseClient(s)
  PROVE  /\ ConnTypeOK'
         /\ lwsi' \in [Sessions -> {"none", "live", "null", "freed"}]
         /\ wantLocal' \in [Sessions -> BOOLEAN]
         /\ dsock' \in [Sessions -> DaemonStates]
<1>1. ConnTypeOK'
  BY ConnTypes DEF TypeOK, CloseClient
<1>2. /\ lwsi' \in [Sessions -> {"none", "live", "null", "freed"}]
      /\ wantLocal' \in [Sessions -> BOOLEAN]
  BY DEF TypeOK, BridgeTypeOK, CloseClient
<1> QED
  BY <1>1, <1>2, SocketsFollowType DEF CloseClient

LEMMA CloseSessionType ==
  ASSUME TypeOK, NEW s \in Sessions, CloseSession(s)
  PROVE  /\ ConnTypeOK'
         /\ lwsi' \in [Sessions -> {"none", "live", "null", "freed"}]
         /\ wantLocal' \in [Sessions -> BOOLEAN]
         /\ dsock' \in [Sessions -> DaemonStates]
         /\ ws' \in [Sessions -> {"none", "open", "closed"}]
         /\ pss_list' \subseteq Sessions
<1>1. /\ ws' \in [Sessions -> {"none", "open", "closed"}]
      /\ pss_list' \subseteq Sessions
  BY DEF TypeOK, BridgeTypeOK, CloseSession
<1>2. CASE lwsi[s] = "live"
  BY <1>1, <1>2, CloseClientType DEF CloseSession, CloseChild
<1>3. CASE lwsi[s] # "live"
  BY <1>1, <1>3 DEF CloseSession, CloseChild, TypeOK, ConnTypeOK, BridgeTypeOK,
                    EnvTypeOK, connVars, DaemonStates
<1> QED
  BY <1>2, <1>3

LEMMA ReadLocalType ==
  ASSUME TypeOK, NEW s \in Sessions, Readable(s), ReadLocal(s)
  PROVE  /\ fromDaemon' \in [Sessions -> Seq(Unit)]
         /\ mqweb' \in [Sessions -> Seq(Msg)]
         /\ wantWeb' \in [Sessions -> BOOLEAN]
<1> DEFINE p == Peer(s)
           n == Lesser(BufSize, Len(fromDaemon[p]))
           d == SubSeq(fromDaemon[p], 1, n)
           r == SubSeq(fromDaemon[p], n + 1, Len(fromDaemon[p]))
<1>1. p \in Sessions
  BY DEF TypeOK, ConnTypeOK, Readable, Peer
<1>2. fromDaemon \in [Sessions -> Seq(Unit)] /\ fromDaemon[p] \in Seq(Unit)
  BY <1>1 DEF TypeOK, EnvTypeOK
<1>3. d \in Seq(Unit) /\ r \in Seq(Unit)
  <2>1. BufSize \in Int /\ ~(BufSize < 0)
    BY BridgeAssumption
  <2> QED
    BY <1>2, <2>1, CutType
<1>4. CASE n = 0
  BY <1>4 DEF ReadLocal, TypeOK, BridgeTypeOK, EnvTypeOK
<1>5. CASE n # 0
  <2>1. fromDaemon' = [fromDaemon EXCEPT ![p] = r]
    BY <1>5 DEF ReadLocal
  <2>2. PICK q \in Enqueued(mqweb[s], CreateMsg(d)) :
          mqweb' = [mqweb EXCEPT ![s] = q]
    BY <1>5 DEF ReadLocal
  <2>3. mqweb \in [Sessions -> Seq(Msg)] /\ mqweb[s] \in Seq(Msg)
    BY DEF TypeOK, BridgeTypeOK
  <2>4. CreateMsg(d) \in Msg
    BY <1>3, MsgType
  <2>5. q \in Seq(Msg)
    BY <2>2, <2>3, <2>4, EnqueuedType
  <2>6. wantWeb' \in [Sessions -> BOOLEAN]
    BY <1>5 DEF TypeOK, BridgeTypeOK, ReadLocal
  <2> QED
    BY <1>2, <1>3, <2>1, <2>2, <2>3, <2>5, <2>6
<1> QED
  BY <1>4, <1>5

LEMMA TypeStep == TypeOK /\ [Next]_vars => TypeOK'
<1> SUFFICES ASSUME TypeOK, [Next]_vars
             PROVE  TypeOK'
  OBVIOUS
<1> USE DEF TypeOK
<1>1. ASSUME NEW s \in Sessions, EstablishFails(s)
      PROVE  TypeOK'
  <2>1. ConnTypeOK'
    BY <1>1, ConnTypes DEF EstablishFails
  <2>2. BridgeTypeOK'
    BY <1>1 DEF EstablishFails, bridgeVars, BridgeTypeOK
  <2>3. EnvTypeOK'
    BY <1>1 DEF EstablishFails, envVars, EnvTypeOK
  <2> QED
    BY <2>1, <2>2, <2>3
<1>2. ASSUME NEW s \in Sessions, Establish(s)
      PROVE  TypeOK'
  <2>1. ConnTypeOK'
    BY <1>2, ConnTypes DEF Establish
  <2>2. BridgeTypeOK'
    BY <1>2 DEF Establish, bridgeVars, BridgeTypeOK
  <2>3. EnvTypeOK'
    BY <1>2 DEF Establish, envVars, EnvTypeOK
  <2> QED
    BY <2>1, <2>2, <2>3
<1>3. ASSUME NEW s \in Sessions, WsReceive(s)
      PROVE  TypeOK'
  <2>1. ConnTypeOK'
    BY <1>3 DEF WsReceive, connVars, ConnTypeOK
  <2>2. BridgeTypeOK'
    <3>1. PICK n \in 0..Lesser(RxSize, MaxUp - websent[s]) :
          \E q \in IF n = 0 THEN {mqlocal[s]}
                   ELSE Enqueued(mqlocal[s],
                                 MsgNew(Units(s, websent[s], n), n)) :
            mqlocal' = [mqlocal EXCEPT ![s] = q]
      BY <1>3 DEF WsReceive
    <3>2. mqlocal \in [Sessions -> Seq(Msg)] /\ websent[s] \in Nat
      BY DEF BridgeTypeOK, EnvTypeOK
    <3>3. n \in Nat
      BY <3>2, BridgeAssumption DEF Lesser
    <3>4. MsgNew(Units(s, websent[s], n), n) \in Msg
      BY <3>2, <3>3, UnitsType, MsgType
    <3>5. \A q \in Enqueued(mqlocal[s], MsgNew(Units(s, websent[s], n), n)) :
            q \in Seq(Msg)
      BY <3>2, <3>4, EnqueuedType
    <3>6. mqlocal' \in [Sessions -> Seq(Msg)]
      BY <3>1, <3>2, <3>5
    <3>7. /\ wantLocal' \in [Sessions -> BOOLEAN]
          /\ wantWeb' \in [Sessions -> BOOLEAN]
          /\ loop' \in {"run", "stop", "exit", "crash"}
      BY <1>3 DEF WsReceive, WantWriteable, BridgeTypeOK
    <3> QED
      BY <1>3, <3>6, <3>7 DEF WsReceive, BridgeTypeOK
  <2>3. EnvTypeOK'
    <3>1. PICK n \in 0..Lesser(RxSize, MaxUp - websent[s]) :
            websent' = [websent EXCEPT ![s] = websent[s] + n]
      BY <1>3 DEF WsReceive
    <3>2. websent \in [Sessions -> Nat]
      BY DEF EnvTypeOK
    <3>3. n \in Nat
      BY <3>2, BridgeAssumption DEF Lesser
    <3>4. websent[s] + n \in Nat
      BY <3>2, <3>3
    <3>5. websent' \in [Sessions -> Nat]
      BY <3>1, <3>2, <3>4
    <3> QED
      BY <1>3, <3>5 DEF WsReceive, EnvTypeOK
  <2> QED
    BY <2>1, <2>2, <2>3
<1>4. ASSUME NEW s \in Sessions, WsWriteable(s)
      PROVE  TypeOK'
  <2>1. ConnTypeOK'
    BY <1>4 DEF WsWriteable, connVars, ConnTypeOK
  <2>2. BridgeTypeOK'
    BY <1>4 DEF WsWriteable, bridgeVars, BridgeTypeOK
  <2>3. EnvTypeOK'
    BY <1>4 DEF WsWriteable, envVars, EnvTypeOK
  <2> QED
    BY <2>1, <2>2, <2>3
<1>5. ASSUME NEW s \in Sessions, WsChoke(s)
      PROVE  TypeOK'
  <2>1. ConnTypeOK'
    BY <1>5, CloseSessionType DEF WsChoke, WsResult, ConnTypeOK, connVars
  <2>2. BridgeTypeOK'
    BY <1>5, CloseSessionType DEF WsChoke, WsResult, BridgeTypeOK
  <2>3. EnvTypeOK'
    BY <1>5, CloseSessionType DEF WsChoke, WsResult, EnvTypeOK, DaemonStates
  <2> QED
    BY <2>1, <2>2, <2>3
<1>6. ASSUME NEW s \in Sessions, WsWrite(s)
      PROVE  TypeOK'
  <2>1. ConnTypeOK'
    BY <1>6 DEF WsWrite, connVars, ConnTypeOK
  <2>2. BridgeTypeOK'
    BY <1>6 DEF WsWrite, bridgeVars, BridgeTypeOK
  <2>3. EnvTypeOK'
    <3>1. Head(mqweb[s]) \in Msg
      BY <1>6, HeadTailProperties DEF WsWrite, BridgeTypeOK
    <3>2. Frame(Head(mqweb[s])) \in Seq(Unit \cup {Stray})
      BY <3>1, FrameType
    <3> DEFINE F == Seq(Unit \cup {Stray})
               longer == Append(pipe[s], Frame(Head(mqweb[s])))
    <3>3. pipe \in [Sessions -> Seq(F)] /\ longer \in Seq(F)
      BY <3>2 DEF EnvTypeOK
    <3>4. pipe' = pipe \/ pipe' = [pipe EXCEPT ![s] = longer]
      BY <1>6 DEF WsWrite
    <3> HIDE DEF F, longer
    <3>5. pipe' \in [Sessions -> Seq(F)]
      BY <3>3, <3>4
    <3> QED
      BY <1>6, <3>5 DEF WsWrite, EnvTypeOK, F
  <2> QED
    BY <2>1, <2>2, <2>3
<1>7. ASSUME NEW s \in Sessions, WsReturn(s)
      PROVE  TypeOK'
  <2>1. ConnTypeOK'
    BY <1>7, CloseSessionType DEF WsReturn, WsResult, ConnTypeOK, connVars
  <2>2. BridgeTypeOK'
    BY <1>7, CloseSessionType DEF WsReturn, WsResult, BridgeTypeOK
  <2>3. EnvTypeOK'
    BY <1>7, CloseSessionType DEF WsReturn, WsResult, EnvTypeOK, DaemonStates
  <2> QED
    BY <2>1, <2>2, <2>3
<1>8. ASSUME NEW s \in Sessions, WsClose(s)
      PROVE  TypeOK'
  <2>1. ConnTypeOK'
    BY <1>8, CloseSessionType DEF WsClose
  <2>2. BridgeTypeOK'
    BY <1>8, CloseSessionType DEF WsClose, BridgeTypeOK
  <2>3. EnvTypeOK'
    BY <1>8, CloseSessionType DEF WsClose, EnvTypeOK, DaemonStates
  <2> QED
    BY <2>1, <2>2, <2>3
<1>9. ASSUME NEW s \in Sessions, CliReceive(s)
      PROVE  TypeOK'
  <2>1. ConnTypeOK'
    BY <1>9 DEF CliReceive, connVars, ConnTypeOK
  <2>2. BridgeTypeOK'
    BY <1>9, ReadLocalType DEF CliReceive, BridgeTypeOK
  <2>3. EnvTypeOK'
    BY <1>9, ReadLocalType DEF CliReceive, EnvTypeOK
  <2> QED
    BY <2>1, <2>2, <2>3
<1>10. ASSUME NEW s \in Sessions, CliHangup(s)
      PROVE  TypeOK'
  <2>1. ConnTypeOK'
    BY <1>10, CloseClientType DEF CliHangup
  <2>2. BridgeTypeOK'
    BY <1>10, CloseClientType, ReadLocalType DEF CliHangup, BridgeTypeOK
  <2>3. EnvTypeOK'
    BY <1>10, CloseClientType, ReadLocalType DEF CliHangup, EnvTypeOK, DaemonStates
  <2> QED
    BY <2>1, <2>2, <2>3
<1>11. ASSUME NEW s \in Sessions, CliWriteable(s)
      PROVE  TypeOK'
  <2>1. ConnTypeOK'
    BY <1>11 DEF CliWriteable, connVars, ConnTypeOK
  <2>2. BridgeTypeOK'
    BY <1>11 DEF CliWriteable, bridgeVars, BridgeTypeOK
  <2>3. EnvTypeOK'
    BY <1>11 DEF CliWriteable, envVars, EnvTypeOK
  <2> QED
    BY <2>1, <2>2, <2>3
<1>12. ASSUME NEW s \in Sessions, CliPop(s)
      PROVE  TypeOK'
  <2>1. ConnTypeOK'
    BY <1>12 DEF CliPop, connVars, ConnTypeOK
  <2>2. BridgeTypeOK'
    <3>1. Head(mqlocal[s]) \in Msg /\ Tail(mqlocal[s]) \in Seq(Msg)
      BY <1>12, HeadTailProperties DEF CliPop, BridgeTypeOK
    <3>2. out' \in Seq(Unit)
      BY <1>12, <3>1 DEF CliPop, Msg
    <3>3. mqlocal' \in [Sessions -> Seq(Msg)]
      BY <1>12, <3>1 DEF CliPop, BridgeTypeOK
    <3> QED
      BY <1>12, <3>2, <3>3 DEF CliPop, BridgeTypeOK
  <2>3. EnvTypeOK'
    BY <1>12 DEF CliPop, envVars, EnvTypeOK
  <2> QED
    BY <2>1, <2>2, <2>3
<1>13. ASSUME NEW s \in Sessions, CliWrite(s)
      PROVE  TypeOK'
  <2> DEFINE p == Peer(s)
             room == SockCap - Len(toDaemon[p])
             moved == Lesser(room, Len(out))
  <2>1. ConnTypeOK'
    BY <1>13 DEF CliWrite, connVars, ConnTypeOK
  <2>2. out \in Seq(Unit) /\ Len(out) \in Nat
    BY LenProperties DEF BridgeTypeOK
  <2>3. CASE p = Nobody \/ HungUp(s)
    <3>1. out' = <<>> /\ UNCHANGED toDaemon
      BY <1>13, <2>3 DEF CliWrite
    <3>2. out' \in Seq(Unit)
      BY <3>1, EmptySeq
    <3> QED
      BY <1>13, <2>1, <3>1, <3>2 DEF CliWrite, BridgeTypeOK, EnvTypeOK
  <2>4. CASE ~(p = Nobody \/ HungUp(s))
    <3>1. /\ Nonblocking \/ room > 0
          /\ toDaemon' = [toDaemon EXCEPT ![p] = @ \o SubSeq(out, 1, moved)]
          /\ out' = IF Nonblocking THEN <<>> ELSE SubSeq(out, moved + 1, Len(out))
      BY <1>13, <2>4 DEF CliWrite
    <3>2. p \in Sessions
      BY <2>4 DEF ConnTypeOK, Peer
    <3>3. toDaemon[p] \in Seq(Unit)
      BY <3>2 DEF EnvTypeOK
    <3>4. room \in Int
      BY <3>3, LenProperties, BridgeAssumption
    <3>5. SubSeq(out, 1, moved) \in Seq(Unit)
      BY <2>2, <3>4, CutType
    <3>6. out' \in Seq(Unit)
      <4>1. CASE Nonblocking
        BY <3>1, <4>1, EmptySeq
      <4>2. CASE ~Nonblocking
        <5>1. room > 0 /\ out' = SubSeq(out, moved + 1, Len(out))
          BY <3>1, <4>2
        <5>2. ~(room < 0)
          BY <3>4, <5>1
        <5> HIDE DEF room
        <5> QED
          BY <2>2, <3>4, <5>1, <5>2, CutType
      <4> QED
        BY <4>1, <4>2
    <3>7. toDaemon' \in [Sessions -> Seq(Unit)]
      BY <3>1, <3>2, <3>3, <3>5, ConcatProperties DEF EnvTypeOK
    <3> QED
      BY <1>13, <2>1, <3>6, <3>7 DEF CliWrite, BridgeTypeOK, EnvTypeOK
  <2> QED
    BY <2>3, <2>4
<1>14. ASSUME NEW s \in Sessions, CliReturn(s)
      PROVE  TypeOK'
  <2>1. ConnTypeOK'
    BY <1>14 DEF CliReturn, connVars, ConnTypeOK
  <2>2. BridgeTypeOK'
    BY <1>14 DEF CliReturn, bridgeVars, BridgeTypeOK
  <2>3. EnvTypeOK'
    BY <1>14 DEF CliReturn, envVars, EnvTypeOK
  <2> QED
    BY <2>1, <2>2, <2>3
<1>15. ASSUME NEW s \in Sessions, DestroyClient(s)
      PROVE  TypeOK'
  <2>1. ConnTypeOK'
    BY <1>15, CloseClientType DEF DestroyClient
  <2>2. BridgeTypeOK'
    BY <1>15, CloseClientType DEF DestroyClient, BridgeTypeOK
  <2>3. EnvTypeOK'
    BY <1>15, CloseClientType DEF DestroyClient, EnvTypeOK, DaemonStates
  <2> QED
    BY <2>1, <2>2, <2>3
<1>16. ASSUME NEW s \in Sessions, DaemonWrite(s)
      PROVE  TypeOK'
  <2>1. ConnTypeOK'
    BY <1>16 DEF DaemonWrite, connVars, ConnTypeOK
  <2>2. BridgeTypeOK'
    BY <1>16 DEF DaemonWrite, bridgeVars, BridgeTypeOK
  <2>3. EnvTypeOK'
    <3>1. dsent[s] \in Nat /\ fromDaemon[s] \in Seq(Unit)
      BY DEF EnvTypeOK
    <3>2. <<s, dsent[s] + 1>> \in Unit
      BY <3>1 DEF Unit
    <3>3. Append(fromDaemon[s], <<s, dsent[s] + 1>>) \in Seq(Unit)
      BY <3>1, <3>2
    <3>4. fromDaemon' \in [Sessions -> Seq(Unit)]
      BY <1>16, <3>3 DEF DaemonWrite, EnvTypeOK
    <3>5. dsent' \in [Sessions -> Nat]
      BY <1>16, <3>1 DEF DaemonWrite, EnvTypeOK
    <3> QED
      BY <1>16, <3>4, <3>5 DEF DaemonWrite, EnvTypeOK
  <2> QED
    BY <2>1, <2>2, <2>3
<1>17. ASSUME NEW s \in Sessions, DaemonRead(s)
      PROVE  TypeOK'
  <2>1. ConnTypeOK'
    BY <1>17 DEF DaemonRead, connVars, ConnTypeOK
  <2>2. BridgeTypeOK'
    BY <1>17 DEF DaemonRead, bridgeVars, BridgeTypeOK
  <2>3. EnvTypeOK'
    <3>1. /\ dgot[s] \in Seq(Unit) /\ Head(toDaemon[s]) \in Unit
          /\ Tail(toDaemon[s]) \in Seq(Unit)
      BY <1>17, HeadTailProperties DEF DaemonRead, EnvTypeOK
    <3>2. Append(dgot[s], Head(toDaemon[s])) \in Seq(Unit)
      BY <3>1
    <3>3. /\ dgot' \in [Sessions -> Seq(Unit)]
          /\ toDaemon' \in [Sessions -> Seq(Unit)]
      BY <1>17, <3>1, <3>2 DEF DaemonRead, EnvTypeOK
    <3> QED
      BY <1>17, <3>3 DEF DaemonRead, EnvTypeOK
  <2> QED
    BY <2>1, <2>2, <2>3
<1>18. ASSUME NEW s \in Sessions, DaemonHup(s)
      PROVE  TypeOK'
  <2>1. ConnTypeOK'
    BY <1>18 DEF DaemonHup, connVars, ConnTypeOK
  <2>2. BridgeTypeOK'
    BY <1>18 DEF DaemonHup, bridgeVars, BridgeTypeOK
  <2>3. EnvTypeOK'
    <3>1. toDaemon' \in [Sessions -> Seq(Unit)]
      BY <1>18, EmptySeq DEF DaemonHup, EnvTypeOK
    <3> QED
      BY <1>18, <3>1 DEF DaemonHup, EnvTypeOK
  <2> QED
    BY <2>1, <2>2, <2>3
<1>19. ASSUME NEW s \in Sessions, BrowserDrain(s)
      PROVE  TypeOK'
  <2>1. ConnTypeOK'
    BY <1>19 DEF BrowserDrain, connVars, ConnTypeOK
  <2>2. BridgeTypeOK'
    BY <1>19 DEF BrowserDrain, bridgeVars, BridgeTypeOK
  <2>3. EnvTypeOK'
    <3> DEFINE F == Seq(Unit \cup {Stray})
    <3>1. /\ wgot[s] \in Seq(F) /\ Head(pipe[s]) \in F
          /\ Tail(pipe[s]) \in Seq(F)
      BY <1>19, HeadTailProperties DEF BrowserDrain, EnvTypeOK
    <3>2. Append(wgot[s], Head(pipe[s])) \in Seq(F)
      BY <3>1
    <3> HIDE DEF F
    <3>3. wgot' \in [Sessions -> Seq(F)] /\ pipe' \in [Sessions -> Seq(F)]
      BY <1>19, <3>1, <3>2 DEF BrowserDrain, EnvTypeOK, F
    <3> QED
      BY <1>19, <3>3 DEF BrowserDrain, EnvTypeOK, F
  <2> QED
    BY <2>1, <2>2, <2>3
<1>20. ASSUME NEW s \in Sessions, BrowserGone(s)
      PROVE  TypeOK'
  <2>1. ConnTypeOK'
    BY <1>20 DEF BrowserGone, connVars, ConnTypeOK
  <2>2. BridgeTypeOK'
    BY <1>20 DEF BrowserGone, bridgeVars, BridgeTypeOK
  <2>3. EnvTypeOK'
    <3>1. pipe' \in [Sessions -> Seq(Seq(Unit \cup {Stray}))]
      BY <1>20, EmptySeq DEF BrowserGone, EnvTypeOK
    <3> QED
      BY <1>20, <3>1 DEF BrowserGone, EnvTypeOK
  <2> QED
    BY <2>1, <2>2, <2>3
<1>21. CASE LoopEnd
  <2>1. ConnTypeOK'
    BY <1>21 DEF LoopEnd, connVars, ConnTypeOK
  <2>2. BridgeTypeOK'
    BY <1>21 DEF LoopEnd, BridgeTypeOK
  <2>3. EnvTypeOK'
    BY <1>21 DEF LoopEnd, envVars, EnvTypeOK
  <2> QED
    BY <2>1, <2>2, <2>3
<1>22. CASE ServiceFails
  <2>1. ConnTypeOK'
    BY <1>22 DEF ServiceFails, connVars, ConnTypeOK
  <2>2. BridgeTypeOK'
    BY <1>22 DEF ServiceFails, BridgeTypeOK
  <2>3. EnvTypeOK'
    BY <1>22 DEF ServiceFails, envVars, EnvTypeOK
  <2> QED
    BY <2>1, <2>2, <2>3
<1>23. CASE BackendExit
  <2>1. ConnTypeOK'
    BY <1>23 DEF BackendExit, CloseAll, DictDeinit, ConnTypeOK
  <2>2. BridgeTypeOK'
    BY <1>23 DEF BackendExit, BridgeTypeOK
  <2>3. EnvTypeOK'
    BY <1>23, SocketsFollowType DEF BackendExit, EnvTypeOK, DaemonStates
  <2> QED
    BY <2>1, <2>2, <2>3
<1>24. CASE Sigint
  <2>1. ConnTypeOK'
    BY <1>24 DEF Sigint, connVars, ConnTypeOK
  <2>2. BridgeTypeOK'
    BY <1>24 DEF Sigint, BridgeTypeOK
  <2>3. EnvTypeOK'
    BY <1>24 DEF Sigint, envVars, EnvTypeOK
  <2> QED
    BY <2>1, <2>2, <2>3
<1>25. CASE UNCHANGED vars
  BY <1>25 DEF vars, connVars, bridgeVars, envVars, ConnTypeOK, BridgeTypeOK,
               EnvTypeOK
<1>26. ASSUME NEW s \in Sessions, Adopt(s)
       PROVE  TypeOK'
  <2>1. ConnTypeOK'
    BY <1>26 DEF Adopt, connVars, ConnTypeOK
  <2>2. BridgeTypeOK'
    BY <1>26 DEF Adopt, BridgeTypeOK
  <2>3. EnvTypeOK'
    BY <1>26 DEF Adopt, envVars, EnvTypeOK
  <2> QED
    BY <2>1, <2>2, <2>3
<1>27. ASSUME NEW s \in Sessions,
              DaemonAccepts(s) \/ DaemonRefuses(s) \/ DaemonShutWr(s)
       PROVE  TypeOK'
  <2>1. ConnTypeOK'
    BY <1>27 DEF DaemonAccepts, DaemonRefuses, DaemonShutWr, connVars, ConnTypeOK
  <2>2. BridgeTypeOK'
    BY <1>27 DEF DaemonAccepts, DaemonRefuses, DaemonShutWr, bridgeVars,
                 BridgeTypeOK
  <2>3. EnvTypeOK'
    BY <1>27 DEF DaemonAccepts, DaemonRefuses, DaemonShutWr, EnvTypeOK
  <2> QED
    BY <2>1, <2>2, <2>3
<1> QED
  BY <1>1, <1>2, <1>3, <1>4, <1>5, <1>6, <1>7, <1>8, <1>9, <1>10, <1>11, <1>12, <1>13, <1>14, <1>15, <1>16, <1>17, <1>18, <1>19, <1>20, <1>21, <1>22, <1>23, <1>24, <1>25, <1>26, <1>27
     DEF Next, Callback, Environment, Backend

(* Every variable always holds a value of its type. *)
THEOREM TypeCorrect == Spec => []TypeOK
<1>1. Init => TypeOK
  <2> SUFFICES ASSUME Init PROVE TypeOK
    OBVIOUS
  <2>1. ConnTypeOK
    BY DEF Init, ConnInit, ConnTypeOK
  <2>2. BridgeTypeOK
    BY EmptySeq DEF Init, BridgeTypeOK
  <2>3. EnvTypeOK
    BY EmptySeq DEF Init, EnvTypeOK
  <2> QED
    BY <2>1, <2>2, <2>3 DEF TypeOK
<1> QED
  BY <1>1, TypeStep, PTL DEF Spec

----------------------------------------------------------------------------
(* The inductive invariant *)

(***************************************************************************)
(* Closing a raw wsi that is there: its own descriptor is given up and no  *)
(* other, and since the dictionary is empty no connection is freed.        *)
(***************************************************************************)
LEMMA CloseClientInv ==
  ASSUME TypeOK, DictEmpty, FdOwnership,
         \A t \in Sessions : busy # <<"est", t>> /\ busy' # <<"est", t>>,
         NEW s \in Sessions, lwsi[s] = "live", CloseClient(s)
  PROVE  /\ DictEmpty' /\ FdOwnership'
         /\ UNCHANGED <<conn, item, fd_ds>>
         /\ lwsi' = [lwsi EXCEPT ![s] = "freed"]
         /\ wantLocal' = [wantLocal EXCEPT ![s] = FALSE]
<1> USE DEF CloseClient
<1>1. fd_ds[s] \in Fds /\ owner[fd_ds[s]] = s
  BY DEF FdOwnership
<1>2. UNCHANGED <<conn, item, fd_ds, filedict>>
  BY <1>1 DEF ConnDel, DictDel, DictEmpty
<1>3. owner' = [owner EXCEPT ![fd_ds[s]] = Nobody]
  BY <1>1 DEF ConnClose
<1>4. DictEmpty'
  BY <1>2 DEF DictEmpty
<1>5. FdOwnership'
  <2> SUFFICES ASSUME NEW t \in Sessions
               PROVE  /\ lwsi'[t] = "live" => fd_ds'[t] \in Fds /\ owner'[fd_ds'[t]] = t
                      /\ \A f \in Fds : owner'[f] = t =>
                           fd_ds'[t] = f /\ lwsi'[t] \in {"live", "null"}
    BY DEF FdOwnership
  <2>1. CASE t = s
    BY <1>1, <1>2, <1>3, <2>1, ConnAssumption
       DEF FdOwnership, TypeOK, ConnTypeOK, BridgeTypeOK
  <2>2. CASE t # s
    BY <1>1, <1>2, <1>3, <2>2, ConnAssumption
       DEF FdOwnership, TypeOK, ConnTypeOK, BridgeTypeOK
  <2> QED
    BY <2>1, <2>2
<1> QED
  BY <1>2, <1>4, <1>5

(* Closing a session, with or without a raw wsi left. *)
LEMMA CloseSessionInv ==
  ASSUME IInv, busy' = NoCallback, UNCHANGED <<loop, mqweb, mqlocal>>,
         loop # "exit", NEW s \in Sessions, ws[s] = "open", CloseSession(s),
         loop # "crash", busy \in {NoCallback, <<"ws", s>>},
         \A t \in Sessions \ {s} : wantWeb'[t] = wantWeb[t]
  PROVE  /\ DictEmpty' /\ FdOwnership' /\ LifeCycle'
         /\ BusyInv' /\ ExitInv' /\ NoLostWakeup'
<1> USE DEF IInv, CloseSession
<1>1. ws' = [ws EXCEPT ![s] = "closed"]
  OBVIOUS
<1>0. \A t \in Sessions : busy # <<"est", t>> /\ busy' # <<"est", t>>
  BY DEF NoCallback
<1>2. /\ DictEmpty' /\ FdOwnership'
      /\ UNCHANGED conn
      /\ \A t \in Sessions : lwsi'[t] = IF t = s /\ lwsi[s] = "live" THEN "freed" ELSE lwsi[t]
      /\ \A t \in Sessions : t # s => wantLocal'[t] = wantLocal[t]
  <2>1. CASE lwsi[s] = "live"
    BY <1>0, <2>1, CloseClientInv DEF CloseChild, TypeOK, BridgeTypeOK
  <2>2. CASE lwsi[s] # "live"
    BY <1>0, <2>2 DEF CloseChild, connVars, DictEmpty, FdOwnership
  <2> QED
    BY <2>1, <2>2
<1>3. LifeCycle'
  BY <1>0, <1>1, <1>2 DEF LifeCycle, TypeOK, BridgeTypeOK
<1>4. BusyInv' /\ ExitInv'
  BY <1>2 DEF BusyInv, ExitInv, NoCallback
<1>5. NoLostWakeup'
  BY <1>1, <1>2 DEF NoLostWakeup, TypeOK, BridgeTypeOK, NoCallback
<1> QED
  BY <1>2, <1>3, <1>4, <1>5

(* Every step preserves the invariant. *)
LEMMA InvStep == IInv /\ [Next]_vars => IInv'
<1> SUFFICES ASSUME IInv, [Next]_vars
             PROVE  IInv'
  OBVIOUS
<1>0. TypeOK'
  BY TypeStep DEF IInv
<1> USE DEF IInv
<1>1. ASSUME NEW s \in Sessions, EstablishFails(s)
      PROVE  IInv'
  <2>0. UNCHANGED <<conn, fd_ds, filedict, owner>>
    BY <1>1 DEF EstablishFails, ConnNewFails
  <2>1. DictEmpty' /\ FdOwnership'
    BY <1>1, <2>0 DEF EstablishFails, DictEmpty, FdOwnership
  <2>2. LifeCycle'
    BY <1>1, <2>0 DEF EstablishFails, CanCall, NoCallback, LifeCycle, TypeOK,
                      BridgeTypeOK
  <2>3. BusyInv' /\ ExitInv'
    BY <1>1 DEF EstablishFails, CanCall, BusyInv, ExitInv, NoCallback, TypeOK, BridgeTypeOK
  <2>4. NoLostWakeup'
    BY <1>1 DEF EstablishFails, CanCall, NoLostWakeup, NoCallback, TypeOK, BridgeTypeOK
  <2> QED
    BY <1>0, <2>1, <2>2, <2>3, <2>4
<1>2. ASSUME NEW s \in Sessions, WsWriteable(s)
      PROVE  IInv'
  <2>1. DictEmpty' /\ FdOwnership'
    BY <1>2, ConnAssumption DEF WsWriteable, CanCall, NoCallback, connVars, DictEmpty,
                FdOwnership
  <2>2. LifeCycle'
    BY <1>2 DEF WsWriteable, CanCall, NoCallback, connVars, LifeCycle, TypeOK,
                BridgeTypeOK
  <2>3. BusyInv' /\ ExitInv'
    BY <1>2 DEF WsWriteable, CanCall, BusyInv, ExitInv, NoCallback, TypeOK, BridgeTypeOK
  <2>4. NoLostWakeup'
    BY <1>2 DEF WsWriteable, CanCall, NoLostWakeup, NoCallback, TypeOK, BridgeTypeOK
  <2> QED
    BY <1>0, <2>1, <2>2, <2>3, <2>4
<1>3. ASSUME NEW s \in Sessions, WsChoke(s)
      PROVE  IInv'
  <2>1. /\ busy = <<"ws", s>> /\ busy' = NoCallback
        /\ UNCHANGED <<loop, mqweb, mqlocal>>
        /\ wantWeb' = [wantWeb EXCEPT ![s] = TRUE]
    BY <1>3 DEF WsChoke
  <2>2. ws[s] = "open" /\ loop \notin {"exit", "crash"}
    BY <2>1 DEF BusyInv, NoCallback
  <2>3. /\ \A t \in Sessions \ {s} : wantWeb'[t] = wantWeb[t]
        /\ wantWeb'[s] = TRUE
    BY <2>1 DEF TypeOK, BridgeTypeOK
  <2>4. CASE rc = 0
    <3>1. UNCHANGED <<connVars, lwsi, wantLocal, ws>>
      BY <1>3, <2>4 DEF WsChoke, WsResult
    <3>2. DictEmpty' /\ FdOwnership' /\ LifeCycle'
      BY <2>1, <3>1 DEF connVars, DictEmpty, FdOwnership, LifeCycle, NoCallback
    <3>3. BusyInv' /\ ExitInv' /\ NoLostWakeup'
      BY <2>1, <2>2, <2>3, <3>1 DEF BusyInv, ExitInv, NoLostWakeup, NoCallback
    <3> QED
      BY <1>0, <3>2, <3>3
  <2>5. CASE rc # 0
    <3>1. CloseSession(s)
      BY <1>3, <2>5 DEF WsChoke, WsResult
    <3> QED
      BY <1>0, <2>1, <2>2, <2>3, <3>1, CloseSessionInv
  <2> QED
    BY <2>4, <2>5
<1>4. ASSUME NEW s \in Sessions, WsWrite(s)
      PROVE  IInv'
  <2>1. DictEmpty' /\ FdOwnership'
    BY <1>4 DEF WsWrite, connVars, DictEmpty, FdOwnership
  <2>2. LifeCycle'
    BY <1>4 DEF WsWrite, connVars, LifeCycle, TypeOK, BridgeTypeOK
  <2>3. BusyInv' /\ ExitInv'
    BY <1>4 DEF WsWrite, CanCall, BusyInv, ExitInv, NoCallback, TypeOK, BridgeTypeOK
  <2>4. NoLostWakeup'
    BY <1>4 DEF WsWrite, CanCall, NoLostWakeup, NoCallback, TypeOK, BridgeTypeOK
  <2> QED
    BY <1>0, <2>1, <2>2, <2>3, <2>4
<1>5. ASSUME NEW s \in Sessions, CliReceive(s)
      PROVE  IInv'
  <2>1. DictEmpty' /\ FdOwnership'
    BY <1>5 DEF CliReceive, connVars, DictEmpty, FdOwnership
  <2>2. LifeCycle'
    BY <1>5 DEF CliReceive, connVars, LifeCycle, TypeOK, BridgeTypeOK, ReadLocal
  <2>3. BusyInv' /\ ExitInv'
    BY <1>5 DEF CliReceive, CanCall, BusyInv, ExitInv, NoCallback, TypeOK, BridgeTypeOK
  <2>4. NoLostWakeup'
    BY <1>5 DEF CliReceive, CanCall, NoLostWakeup, NoCallback, TypeOK, BridgeTypeOK, ReadLocal
  <2> QED
    BY <1>0, <2>1, <2>2, <2>3, <2>4
<1>6. ASSUME NEW s \in Sessions, CliWriteable(s)
      PROVE  IInv'
  <2>1. DictEmpty' /\ FdOwnership'
    BY <1>6, ConnAssumption DEF CliWriteable, CanCall, NoCallback, connVars, DictEmpty,
                FdOwnership
  <2>2. LifeCycle'
    BY <1>6 DEF CliWriteable, CanCall, NoCallback, connVars, LifeCycle, TypeOK,
                BridgeTypeOK
  <2>3. BusyInv' /\ ExitInv'
    BY <1>6 DEF CliWriteable, CanCall, BusyInv, ExitInv, NoCallback, TypeOK, BridgeTypeOK
  <2>4. NoLostWakeup'
    BY <1>6 DEF CliWriteable, CanCall, NoLostWakeup, NoCallback, TypeOK, BridgeTypeOK
  <2> QED
    BY <1>0, <2>1, <2>2, <2>3, <2>4
<1>7. ASSUME NEW s \in Sessions, CliPop(s)
      PROVE  IInv'
  <2>1. DictEmpty' /\ FdOwnership'
    BY <1>7 DEF CliPop, connVars, DictEmpty, FdOwnership
  <2>2. LifeCycle'
    BY <1>7 DEF CliPop, connVars, LifeCycle, TypeOK, BridgeTypeOK
  <2>3. BusyInv' /\ ExitInv'
    BY <1>7 DEF CliPop, CanCall, BusyInv, ExitInv, NoCallback, TypeOK, BridgeTypeOK
  <2>4. NoLostWakeup'
    BY <1>7 DEF CliPop, CanCall, NoLostWakeup, NoCallback, TypeOK, BridgeTypeOK
  <2> QED
    BY <1>0, <2>1, <2>2, <2>3, <2>4
<1>8. ASSUME NEW s \in Sessions, CliWrite(s)
      PROVE  IInv'
  <2>1. DictEmpty' /\ FdOwnership'
    BY <1>8 DEF CliWrite, connVars, DictEmpty, FdOwnership
  <2>2. LifeCycle'
    BY <1>8 DEF CliWrite, connVars, LifeCycle, TypeOK, BridgeTypeOK
  <2>3. BusyInv' /\ ExitInv'
    BY <1>8 DEF CliWrite, CanCall, BusyInv, ExitInv, NoCallback, TypeOK, BridgeTypeOK
  <2>4. NoLostWakeup'
    BY <1>8 DEF CliWrite, CanCall, NoLostWakeup, NoCallback, TypeOK, BridgeTypeOK
  <2> QED
    BY <1>0, <2>1, <2>2, <2>3, <2>4
<1>9. ASSUME NEW s \in Sessions, CliReturn(s)
      PROVE  IInv'
  <2>1. DictEmpty' /\ FdOwnership'
    BY <1>9, ConnAssumption DEF CliReturn, CanCall, NoCallback, connVars, DictEmpty,
                FdOwnership
  <2>2. LifeCycle'
    BY <1>9 DEF CliReturn, CanCall, NoCallback, connVars, LifeCycle, TypeOK,
                BridgeTypeOK
  <2>3. BusyInv' /\ ExitInv'
    BY <1>9 DEF CliReturn, CanCall, BusyInv, ExitInv, NoCallback, TypeOK, BridgeTypeOK
  <2>4. NoLostWakeup'
    BY <1>9 DEF CliReturn, CanCall, NoLostWakeup, NoCallback, TypeOK, BridgeTypeOK
  <2> QED
    BY <1>0, <2>1, <2>2, <2>3, <2>4
<1>10. ASSUME NEW s \in Sessions, WsReceive(s)
      PROVE  IInv'
  <2>1. DictEmpty' /\ FdOwnership'
    BY <1>10 DEF WsReceive, connVars, DictEmpty, FdOwnership
  <2>2. /\ ws[s] = "open" /\ CanCall
        /\ \A t \in Sessions : t # s => mqlocal'[t] = mqlocal[t]
    BY <1>10 DEF WsReceive, TypeOK, BridgeTypeOK
  <2>3. /\ UNCHANGED <<conn, ws, lwsi, mqweb, busy>>
        /\ \A t \in Sessions : wantLocal[t] => wantLocal'[t]
        /\ \A t \in Sessions : wantWeb[t] => wantWeb'[t]
        /\ lwsi[s] = "live" => wantLocal'[s]
        /\ loop' # "exit"
    BY <1>10 DEF WsReceive, WantWriteable, CanCall, connVars, TypeOK, BridgeTypeOK
  <2>4. LifeCycle'
    BY <2>2, <2>3 DEF LifeCycle, CanCall, NoCallback
  <2>5. BusyInv' /\ ExitInv'
    BY <2>2, <2>3 DEF CanCall, BusyInv, ExitInv, NoCallback
  <2>6. NoLostWakeup'
    BY <2>2, <2>3 DEF NoLostWakeup
  <2> QED
    BY <1>0, <2>1, <2>4, <2>5, <2>6
<1>11. ASSUME NEW s \in Sessions, Establish(s)
      PROVE  IInv'
  <2>1. PICK f \in Fds : ConnNew(s, f)
    BY <1>11 DEF Establish
  <2>2. /\ owner[f] = Nobody /\ owner' = [owner EXCEPT ![f] = s]
        /\ fd_ds' = [fd_ds EXCEPT ![s] = f]
        /\ conn' = [conn EXCEPT ![s] = "live"]
        /\ UNCHANGED filedict
    BY <2>1 DEF ConnNew, Lowest, DictNew
  <2>3. /\ busy' = <<"est", s>>
        /\ ws[s] = "none" /\ ws' = [ws EXCEPT ![s] = "open"]
        /\ CanCall
        /\ UNCHANGED <<loop, lwsi, mqweb, mqlocal, wantWeb, wantLocal>>
    BY <1>11 DEF Establish
  <2>4. DictEmpty'
    BY <2>2 DEF DictEmpty, TypeOK, ConnTypeOK
  <2>5. FdOwnership'
    <3>1. lwsi[s] = "none"
      BY <2>3 DEF LifeCycle
    <3>2. \A g \in Fds : owner'[g] = IF g = f THEN s ELSE owner[g]
      BY <2>2 DEF TypeOK, ConnTypeOK
    <3>3. \A u \in Sessions : fd_ds'[u] = IF u = s THEN f ELSE fd_ds[u]
      BY <2>2 DEF TypeOK, ConnTypeOK
    <3>4. \A u \in Sessions : busy # <<"est", u>>
      BY <2>3 DEF CanCall, NoCallback
    <3>5. \A g \in Fds : owner[g] # s
      BY <3>1, <3>4 DEF FdOwnership
    <3>6. ASSUME NEW u \in Sessions, lwsi'[u] = "live" \/ busy' = <<"est", u>>
          PROVE  fd_ds'[u] \in Fds /\ owner'[fd_ds'[u]] = u
      BY <2>2, <2>3, <3>1, <3>2, <3>3, <3>6, ConnAssumption DEF FdOwnership
    <3>7. ASSUME NEW u \in Sessions, NEW g \in Fds, owner'[g] = u
          PROVE  /\ fd_ds'[u] = g
                 /\ lwsi'[u] \in {"live", "null"} \/ busy' = <<"est", u>>
      <4>1. CASE g = f
        BY <2>3, <3>2, <3>3, <3>7, <4>1
      <4>2. CASE g # f
        BY <2>3, <3>2, <3>3, <3>4, <3>5, <3>7, <4>2 DEF FdOwnership
      <4> QED
        BY <4>1, <4>2
    <3> QED
      BY <3>6, <3>7 DEF FdOwnership
  <2>6. LifeCycle'
    BY <2>2, <2>3 DEF LifeCycle, CanCall, NoCallback, TypeOK, ConnTypeOK,
                      BridgeTypeOK
  <2>7. BusyInv' /\ ExitInv'
    BY <2>3 DEF CanCall, BusyInv, ExitInv, LifeCycle, NoCallback, TypeOK,
                BridgeTypeOK
  <2>8. NoLostWakeup'
    BY <2>3 DEF LifeCycle, NoLostWakeup, CanCall, NoCallback, TypeOK,
                BridgeTypeOK
  <2> QED
    BY <1>0, <2>4, <2>5, <2>6, <2>7, <2>8
<1>12. ASSUME NEW s \in Sessions, CliHangup(s)
      PROVE  IInv'
  <2>1. /\ lwsi[s] = "live" /\ CloseClient(s) /\ loop # "exit"
        /\ UNCHANGED <<loop, busy, ws, mqlocal>> /\ busy = NoCallback
        /\ \A t \in Sessions : busy # <<"est", t>> /\ busy' # <<"est", t>>
    BY <1>12 DEF CliHangup, CanCall, BusyInv, NoCallback
  <2>2. /\ DictEmpty' /\ FdOwnership' /\ UNCHANGED conn
        /\ lwsi' = [lwsi EXCEPT ![s] = "freed"]
        /\ wantLocal' = [wantLocal EXCEPT ![s] = FALSE]
    BY <2>1, CloseClientInv
  <2>3. \A t \in Sessions :
          /\ wantWeb[t] => wantWeb'[t]
          /\ mqweb'[t] = mqweb[t] \/ (t = s /\ wantWeb'[t])
    BY <1>12 DEF CliHangup, TypeOK, BridgeTypeOK, ReadLocal
  <2>4. LifeCycle'
    BY <2>1, <2>2, <2>3 DEF LifeCycle, TypeOK, BridgeTypeOK
  <2>5. BusyInv' /\ ExitInv'
    BY <2>1, <2>2 DEF BusyInv, ExitInv, NoCallback
  <2>6. NoLostWakeup'
    BY <2>1, <2>2, <2>3 DEF NoLostWakeup, NoCallback, TypeOK, BridgeTypeOK
  <2> QED
    BY <1>0, <2>2, <2>4, <2>5, <2>6
<1>13. ASSUME NEW s \in Sessions, DestroyClient(s)
      PROVE  IInv'
  <2>1. /\ lwsi[s] = "live" /\ CloseClient(s) /\ loop # "exit"
        /\ UNCHANGED <<loop, busy, ws, mqlocal>> /\ busy = NoCallback
        /\ \A t \in Sessions : busy # <<"est", t>> /\ busy' # <<"est", t>>
    BY <1>13 DEF DestroyClient, CanCall, BusyInv, NoCallback
  <2>2. /\ DictEmpty' /\ FdOwnership' /\ UNCHANGED conn
        /\ lwsi' = [lwsi EXCEPT ![s] = "freed"]
        /\ wantLocal' = [wantLocal EXCEPT ![s] = FALSE]
    BY <2>1, CloseClientInv
  <2>3. \A t \in Sessions :
          /\ wantWeb[t] => wantWeb'[t]
          /\ mqweb'[t] = mqweb[t] \/ (t = s /\ wantWeb'[t])
    BY <1>13 DEF DestroyClient, TypeOK, BridgeTypeOK
  <2>4. LifeCycle'
    BY <2>1, <2>2, <2>3 DEF LifeCycle, TypeOK, BridgeTypeOK
  <2>5. BusyInv' /\ ExitInv'
    BY <2>1, <2>2 DEF BusyInv, ExitInv, NoCallback
  <2>6. NoLostWakeup'
    BY <2>1, <2>2, <2>3 DEF NoLostWakeup, NoCallback, TypeOK, BridgeTypeOK
  <2> QED
    BY <1>0, <2>2, <2>4, <2>5, <2>6
<1>14. ASSUME NEW s \in Sessions, WsReturn(s)
      PROVE  IInv'
  <2>1. busy = <<"ws", s>> /\ busy' = NoCallback /\ mqweb[s] = <<>>
        /\ UNCHANGED <<loop, mqweb, mqlocal, wantWeb>>
    BY <1>14 DEF WsReturn
  <2>2. ws[s] = "open" /\ loop \notin {"exit", "crash"}
    BY <2>1 DEF BusyInv, NoCallback
  <2>3. CASE rc = 0
    <3>1. UNCHANGED <<connVars, lwsi, wantLocal, ws>>
      BY <1>14, <2>3 DEF WsReturn, WsResult
    <3>2. DictEmpty' /\ FdOwnership' /\ LifeCycle'
      BY <2>1, <3>1 DEF connVars, DictEmpty, FdOwnership, LifeCycle, NoCallback
    <3>3. BusyInv' /\ ExitInv' /\ NoLostWakeup'
      BY <2>1, <2>2, <3>1 DEF BusyInv, ExitInv, NoLostWakeup, NoCallback
    <3> QED
      BY <1>0, <3>2, <3>3
  <2>4. CASE rc # 0
    <3>1. CloseSession(s)
      BY <1>14, <2>4 DEF WsReturn, WsResult
    <3> QED
      BY <1>0, <2>1, <2>2, <3>1, CloseSessionInv
  <2> QED
    BY <2>3, <2>4
<1>15. ASSUME NEW s \in Sessions, WsClose(s)
      PROVE  IInv'
  <2>1. /\ busy = NoCallback /\ ws[s] = "open" /\ loop \notin {"exit", "crash"}
        /\ UNCHANGED <<loop, mqweb, mqlocal, wantWeb, busy>> /\ CloseSession(s)
    BY <1>15 DEF WsClose
  <2> QED
    BY <1>0, <2>1, CloseSessionInv
<1>16. CASE LoopEnd
  <2>1. DictEmpty' /\ FdOwnership' /\ LifeCycle' /\ NoLostWakeup'
    BY <1>16 DEF LoopEnd, CanCall, connVars, DictEmpty, FdOwnership, LifeCycle,
                  NoLostWakeup
  <2>2. BusyInv' /\ ExitInv'
    BY <1>16 DEF LoopEnd, CanCall, BusyInv, ExitInv, NoCallback
  <2> QED
    BY <1>0, <2>1, <2>2
<1>17. CASE ServiceFails
  <2>1. DictEmpty' /\ FdOwnership' /\ LifeCycle' /\ NoLostWakeup'
    BY <1>17 DEF ServiceFails, CanCall, connVars, DictEmpty, FdOwnership, LifeCycle,
                  NoLostWakeup
  <2>2. BusyInv' /\ ExitInv'
    BY <1>17 DEF ServiceFails, CanCall, BusyInv, ExitInv, NoCallback
  <2> QED
    BY <1>0, <2>1, <2>2
<1>18. CASE Sigint
  <2>1. DictEmpty' /\ FdOwnership' /\ LifeCycle' /\ NoLostWakeup'
    BY <1>18 DEF Sigint, CanCall, connVars, DictEmpty, FdOwnership, LifeCycle,
                  NoLostWakeup
  <2>2. BusyInv' /\ ExitInv'
    BY <1>18 DEF Sigint, CanCall, BusyInv, ExitInv, NoCallback
  <2> QED
    BY <1>0, <2>1, <2>2
<1>19. CASE BackendExit
  <2>1. UNCHANGED <<conn, fd_ds, owner>> /\ filedict' = [f \in Fds |-> Nobody]
    BY <1>19 DEF BackendExit, CloseAll, DictDeinit, DictEmpty, TypeOK, ConnTypeOK
  <2>2. DictEmpty' /\ FdOwnership' /\ LifeCycle' /\ NoLostWakeup'
    BY <1>19, <2>1 DEF BackendExit, DictEmpty, FdOwnership, LifeCycle, NoLostWakeup
  <2>3. BusyInv' /\ ExitInv'
    BY <1>19 DEF BackendExit, BusyInv, ExitInv, NoCallback
  <2> QED
    BY <1>0, <2>2, <2>3
<1>20. ASSUME NEW s \in Sessions, Adopt(s)
       PROVE  IInv'
  <2>1. /\ busy = <<"est", s>> /\ busy' = NoCallback
        /\ UNCHANGED <<connVars, ws, mqweb, mqlocal, wantWeb, wantLocal>>
        /\ \/ lwsi' = [lwsi EXCEPT ![s] = "live"] /\ loop' = loop
           \/ lwsi' = [lwsi EXCEPT ![s] = "null"] /\ loop' = "crash"
    BY <1>20 DEF Adopt
  <2>2. /\ loop = "run" /\ ws[s] = "open" /\ lwsi[s] = "none"
        /\ mqweb[s] = <<>> /\ mqlocal[s] = <<>> /\ conn[s] = "live"
    BY <2>1 DEF BusyInv, LifeCycle, NoCallback
  <2>3. DictEmpty'
    BY <2>1 DEF DictEmpty, connVars
  <2>4. FdOwnership'
    <3>1. \A u \in Sessions : u # s => busy # <<"est", u>>
      BY <2>1
    <3>2. \A u \in Sessions : lwsi'[u] = IF u = s THEN lwsi'[s] ELSE lwsi[u]
      BY <2>1 DEF TypeOK, BridgeTypeOK
    <3>3. lwsi'[s] \in {"live", "null"}
      BY <2>1 DEF TypeOK, BridgeTypeOK
    <3>4. fd_ds[s] \in Fds /\ owner[fd_ds[s]] = s
      BY <2>1 DEF FdOwnership
    <3>5. UNCHANGED <<fd_ds, owner>> /\ \A u \in Sessions : busy' # <<"est", u>>
      BY <2>1 DEF connVars, NoCallback
    <3>6. ASSUME NEW u \in Sessions, lwsi'[u] = "live"
          PROVE  fd_ds[u] \in Fds /\ owner[fd_ds[u]] = u
      BY <3>2, <3>4, <3>6 DEF FdOwnership
    <3>7. ASSUME NEW u \in Sessions, NEW g \in Fds, owner[g] = u
          PROVE  fd_ds[u] = g /\ lwsi'[u] \in {"live", "null"}
      BY <3>1, <3>2, <3>3, <3>7 DEF FdOwnership
    <3> QED
      BY <3>5, <3>6, <3>7 DEF FdOwnership
  <2>5. LifeCycle'
    BY <2>1, <2>2 DEF LifeCycle, connVars, TypeOK, BridgeTypeOK
  <2>6. BusyInv' /\ ExitInv'
    BY <2>1, <2>2 DEF BusyInv, ExitInv, NoCallback
  <2>7. NoLostWakeup'
    BY <2>1, <2>2 DEF NoLostWakeup, NoCallback, TypeOK, BridgeTypeOK
  <2> QED
    BY <1>0, <2>3, <2>4, <2>5, <2>6, <2>7
<1>21. ASSUME UNCHANGED <<connVars, bridgeVars>>
      PROVE  IInv'
  BY <1>0, <1>21 DEF connVars, bridgeVars, DictEmpty, FdOwnership, LifeCycle,
                    BusyInv, ExitInv, NoLostWakeup
<1>22. ASSUME NEW s \in Sessions, Environment(s)
      PROVE  IInv'
  BY <1>22, <1>21 DEF Environment, DaemonAccepts, DaemonRefuses, DaemonWrite,
                    DaemonRead, DaemonShutWr, DaemonHup, BrowserDrain,
                    BrowserGone
<1> QED
  BY <1>1, <1>2, <1>3, <1>4, <1>5, <1>6, <1>7, <1>8, <1>9, <1>10, <1>11, <1>12, <1>13, <1>14, <1>15, <1>16, <1>17, <1>18, <1>19, <1>20, <1>21, <1>22
     DEF Next, Callback, Backend, vars

(* The invariant holds in every reachable state. *)
THEOREM Invariance == Spec => []IInv
<1>1. Init => IInv
  <2> SUFFICES ASSUME Init PROVE IInv
    OBVIOUS
  <2>1. TypeOK
    BY EmptySeq DEF Init, ConnInit, TypeOK, ConnTypeOK, BridgeTypeOK, EnvTypeOK
  <2>2. DictEmpty /\ LifeCycle
    BY DEF Init, ConnInit, DictEmpty, LifeCycle
  <2>3. BusyInv /\ ExitInv /\ NoLostWakeup
    BY DEF Init, BusyInv, ExitInv, NoLostWakeup, NoCallback
  <2>4. FdOwnership
    BY ConnAssumption DEF Init, ConnInit, FdOwnership, NoCallback
  <2> QED
    BY <2>1, <2>2, <2>3, <2>4 DEF IInv
<1> QED
  BY <1>1, InvStep, PTL DEF Spec

----------------------------------------------------------------------------
(* The second layer: the heap, and what a crash can come from *)

(* A raw wsi found hung up is one whose own daemon is gone. *)
LEMMA HungUpIsOwn ==
  ASSUME IInv, NEW s \in Sessions, lwsi[s] = "live", HungUp(s)
  PROVE  dsock[s] \in {"hup", "refused"}
BY DEF IInv, FdOwnership, HungUp, Peer

(* What closing a raw wsi leaves as it was. *)
LEMMA CloseKeeps ==
  ASSUME IInv, NEW s \in Sessions, CloseClient(s), lwsi[s] = "live",
         \A t \in Sessions : busy # <<"est", t>> /\ busy' # <<"est", t>>
  PROVE  /\ UNCHANGED <<conn, item>>
         /\ lwsi' = [lwsi EXCEPT ![s] = "freed"]
         /\ \A t \in Sessions :
              /\ dsock'[t] = "none" <=> dsock[t] = "none"
              /\ dsock[t] \in {"hup", "refused"} => dsock'[t] = dsock[t]
<1>1. /\ UNCHANGED <<conn, item>>
      /\ lwsi' = [lwsi EXCEPT ![s] = "freed"]
  BY CloseClientInv DEF IInv
<1>2. \A t \in Sessions :
        /\ dsock'[t] = "none" <=> dsock[t] = "none"
        /\ dsock[t] \in {"hup", "refused"} => dsock'[t] = dsock[t]
  BY DEF CloseClient, SocketsFollow
<1> QED
  BY <1>1, <1>2

(***************************************************************************)
(* Every step but four leaves alone what HeapAccount speaks of, and of     *)
(* what the other two speak changes no more than this.                     *)
(***************************************************************************)
LEMMA FailFrame ==
  ASSUME IInv, FailInv, UNCHANGED <<conn, item>>,
         loop' = "run" => loop = "run",
         loop' = "crash" => loop = "crash",
         \A t \in Sessions :
           /\ dsock'[t] = "none" <=> dsock[t] = "none"
           /\ dsock[t] \in {"hup", "refused"} => dsock'[t] \in {"hup", "refused"}
           /\ ws'[t] = "open" => ws[t] = "open"
           /\ lwsi[t] \in {"null", "freed"} => lwsi'[t] = lwsi[t]
           /\ lwsi'[t] = "freed" /\ lwsi[t] # "freed" /\ ws'[t] = "open"
                /\ loop' = "run" => dsock[t] \in {"hup", "refused"}
  PROVE  FailInv'
<1> USE DEF FailInv
<1>1. HeapAccount'
  BY DEF HeapAccount
<1>2. OrphanInv'
  BY DEF OrphanInv
<1>3. OnlyDaemonsCrash'
  BY DEF OnlyDaemonsCrash
<1> QED
  BY <1>1, <1>2, <1>3

(* Every step preserves the second layer where the first one holds. *)
LEMMA FailStep == IInv /\ FailInv /\ [Next]_vars => FailInv'
<1> SUFFICES ASSUME IInv, FailInv, [Next]_vars
             PROVE  FailInv'
  OBVIOUS
<1> USE DEF IInv
<1>1. ASSUME NEW s \in Sessions, EstablishFails(s)
      PROVE  FailInv'
  <2>1. /\ UNCHANGED <<conn, loop, lwsi, dsock>> /\ conn[s] # "live"
        /\ item' = item \/ item' = [item EXCEPT ![s] = "freed"]
        /\ ws' = [ws EXCEPT ![s] = "closed"]
    BY <1>1 DEF EstablishFails, ConnNewFails, DictNewFails, envVars, LifeCycle
  <2>2. HeapAccount'
    BY <2>1 DEF FailInv, HeapAccount, TypeOK, ConnTypeOK
  <2>3. OrphanInv' /\ OnlyDaemonsCrash'
    BY <2>1 DEF FailInv, OrphanInv, OnlyDaemonsCrash, TypeOK, BridgeTypeOK
  <2> QED
    BY <2>2, <2>3 DEF FailInv
<1>2. ASSUME NEW s \in Sessions, Establish(s)
      PROVE  FailInv'
  <2>1. /\ conn' = [conn EXCEPT ![s] = "live"] /\ item' = [item EXCEPT ![s] = "live"]
        /\ dsock' = [dsock EXCEPT ![s] = "connecting"]
        /\ ws' = [ws EXCEPT ![s] = "open"] /\ UNCHANGED <<loop, lwsi>>
        /\ lwsi[s] = "none"
        /\ loop = "run"
    BY <1>2 DEF Establish, ConnNew, LifeCycle, CanCall
  <2>2. HeapAccount'
    BY <2>1 DEF FailInv, HeapAccount, TypeOK, ConnTypeOK, EnvTypeOK
  <2>3. OrphanInv' /\ OnlyDaemonsCrash'
    BY <2>1 DEF FailInv, OrphanInv, OnlyDaemonsCrash, TypeOK, BridgeTypeOK,
                EnvTypeOK
  <2> QED
    BY <2>2, <2>3 DEF FailInv
<1>3. ASSUME NEW s \in Sessions, Adopt(s)
      PROVE  FailInv'
  <2>1. /\ UNCHANGED <<conn, item, ws, dsock>> /\ loop = "run"
        /\ lwsi' = [lwsi EXCEPT ![s] = lwsi'[s]] /\ lwsi'[s] \in {"live", "null"}
        /\ loop' = loop \/ lwsi'[s] = "null"
    BY <1>3 DEF Adopt, connVars, envVars, BusyInv, NoCallback, TypeOK,
                BridgeTypeOK
  <2>2. HeapAccount'
    BY <2>1 DEF FailInv, HeapAccount
  <2>3. OrphanInv' /\ OnlyDaemonsCrash'
    BY <2>1 DEF FailInv, OrphanInv, OnlyDaemonsCrash, TypeOK, BridgeTypeOK
  <2> QED
    BY <2>2, <2>3 DEF FailInv
<1>4. ASSUME NEW s \in Sessions, WsReceive(s)
      PROVE  FailInv'
  <2>1. /\ UNCHANGED <<conn, item, ws, lwsi, dsock>>
        /\ ws[s] = "open" /\ loop = "run" /\ busy = NoCallback
        /\ loop' = loop \/ (loop' = "crash" /\ lwsi[s] # "live")
    BY <1>4 DEF WsReceive, WantWriteable, connVars, CanCall
  <2>2. HeapAccount' /\ OrphanInv'
    BY <2>1 DEF FailInv, HeapAccount, OrphanInv
  <2>3. lwsi[s] \in {"live", "freed"}
    BY <2>1 DEF LifeCycle, NoCallback, TypeOK, BridgeTypeOK
  <2>4. OnlyDaemonsCrash'
    BY <2>1, <2>3 DEF FailInv, OrphanInv, OnlyDaemonsCrash
  <2> QED
    BY <2>2, <2>4 DEF FailInv
<1>5. ASSUME NEW s \in Sessions,
             \/ WsWriteable(s) \/ WsWrite(s) \/ CliReceive(s)
             \/ CliWriteable(s) \/ CliPop(s) \/ CliWrite(s) \/ CliReturn(s)
      PROVE  FailInv'
  <2>1. UNCHANGED <<conn, item, loop, ws, lwsi, dsock>>
    BY <1>5 DEF WsWriteable, WsWrite, CliReceive, CliWriteable, CliPop, CliWrite,
                CliReturn, connVars, envVars
  <2> QED
    BY <2>1, FailFrame
<1>6. ASSUME NEW s \in Sessions, CliHangup(s)
      PROVE  FailInv'
  <2>1. /\ lwsi[s] = "live" /\ CloseClient(s) /\ UNCHANGED <<loop, ws>>
        /\ HungUp(s)
        /\ \A t \in Sessions : busy # <<"est", t>> /\ busy' # <<"est", t>>
    BY <1>6 DEF CliHangup, CanCall, NoCallback
  <2>2. dsock[s] \in {"hup", "refused"}
    BY <2>1, HungUpIsOwn
  <2> QED
    BY <2>1, <2>2, CloseKeeps, FailFrame DEF TypeOK, BridgeTypeOK
<1>7. ASSUME NEW s \in Sessions, DestroyClient(s)
      PROVE  FailInv'
  <2>1. /\ lwsi[s] = "live" /\ CloseClient(s) /\ UNCHANGED <<loop, ws>>
        /\ loop = "stop"
        /\ \A t \in Sessions : busy # <<"est", t>> /\ busy' # <<"est", t>>
    BY <1>7 DEF DestroyClient, BusyInv, NoCallback
  <2> QED
    BY <2>1, CloseKeeps, FailFrame DEF TypeOK, BridgeTypeOK
<1>8. ASSUME NEW s \in Sessions, WsChoke(s) \/ WsReturn(s) \/ WsClose(s)
      PROVE  FailInv'
  <2>1. /\ UNCHANGED loop
        /\ \A t \in Sessions : busy # <<"est", t>> /\ busy' # <<"est", t>>
        /\ \/ UNCHANGED <<connVars, lwsi, dsock, ws>>
           \/ CloseSession(s)
    BY <1>8 DEF WsChoke, WsReturn, WsResult, WsClose, NoCallback
  <2>2. CASE UNCHANGED <<connVars, lwsi, dsock, ws>>
    BY <2>1, <2>2, FailFrame DEF connVars
  <2>3. CASE CloseSession(s)
    <3>1. ws' = [ws EXCEPT ![s] = "closed"]
      BY <2>3 DEF CloseSession
    <3>2. CASE lwsi[s] = "live"
      BY <2>1, <2>3, <3>1, <3>2, CloseKeeps, FailFrame
         DEF CloseSession, CloseChild, TypeOK, BridgeTypeOK
    <3>3. CASE lwsi[s] # "live"
      BY <2>1, <2>3, <3>1, <3>3, FailFrame
         DEF CloseSession, CloseChild, connVars, TypeOK, BridgeTypeOK
    <3> QED
      BY <3>2, <3>3
  <2> QED
    BY <2>1, <2>2, <2>3
<1>9. CASE LoopEnd \/ ServiceFails \/ Sigint
  <2>1. /\ UNCHANGED <<conn, item, ws, lwsi, dsock>>
        /\ loop' \in {loop, "stop"}
    BY <1>9 DEF LoopEnd, ServiceFails, Sigint, connVars, envVars
  <2> QED
    BY <2>1, FailFrame
<1>10. CASE BackendExit
  <2>1. item' = item
    BY <1>10, ConnAssumption
       DEF BackendExit, DictDeinit, DictEmpty, TypeOK, ConnTypeOK
  <2>2. /\ UNCHANGED <<conn, ws, lwsi>> /\ loop' = "exit" /\ SocketsFollow
    BY <1>10 DEF BackendExit, CloseAll
  <2>3. \A t \in Sessions :
          /\ dsock'[t] = "none" <=> dsock[t] = "none"
          /\ dsock[t] \in {"hup", "refused"} => dsock'[t] = dsock[t]
    BY <2>2 DEF SocketsFollow
  <2> QED
    BY <2>1, <2>2, <2>3, FailFrame
<1>11. ASSUME NEW s \in Sessions, Environment(s)
       PROVE  FailInv'
  <2>1. /\ UNCHANGED <<conn, item, ws, lwsi, loop>>
        /\ \/ UNCHANGED dsock
           \/ dsock[s] = "connecting" /\ dsock' = [dsock EXCEPT ![s] = "open"]
           \/ dsock[s] = "connecting" /\ dsock' = [dsock EXCEPT ![s] = "refused"]
           \/ dsock[s] = "open" /\ dsock' = [dsock EXCEPT ![s] = "half"]
           \/ dsock[s] \in {"open", "half"} /\ dsock' = [dsock EXCEPT ![s] = "hup"]
    BY <1>11 DEF Environment, DaemonAccepts, DaemonRefuses, DaemonWrite,
                 DaemonRead, DaemonShutWr, DaemonHup, BrowserDrain, BrowserGone,
                 connVars, bridgeVars
  <2> QED
    BY <2>1, FailFrame DEF TypeOK, EnvTypeOK
<1>12. CASE UNCHANGED vars
  BY <1>12, FailFrame DEF vars, connVars, bridgeVars, envVars
<1> QED
  BY <1>1, <1>2, <1>3, <1>4, <1>5, <1>6, <1>7, <1>8, <1>9, <1>10, <1>11, <1>12
     DEF Next, Callback, Backend

(* The second layer holds in every reachable state too. *)
THEOREM FailInvariance == Spec => []FailInv
<1>1. Init => FailInv
  BY DEF Init, ConnInit, FailInv, HeapAccount, OrphanInv, OnlyDaemonsCrash
<1> QED
  BY <1>1, FailStep, Invariance, PTL DEF Spec

----------------------------------------------------------------------------
(* The properties *)

(***************************************************************************)
(* However often numbers are reused, a polled raw wsi owns the client      *)
(* socket its descriptor names, and no other client socket is open.        *)
(***************************************************************************)
THEOREM DescriptorsOwned == Spec => []FdOwnership
<1>1. IInv => FdOwnership
  BY DEF IInv
<1> QED
  BY <1>1, Invariance, PTL

(* No callback is ever handed a freed conn_t. *)
THEOREM ConnectionsAlive == Spec => []ConnAlive
<1>1. IInv => ConnAlive
  BY DEF IInv, LifeCycle, ConnAlive
<1> QED
  BY <1>1, Invariance, PTL

(* No queued message is left without a callback that will look at it. *)
THEOREM WakeupsKept == Spec => []NoLostWakeup
<1>1. IInv => NoLostWakeup
  BY DEF IInv
<1> QED
  BY <1>1, Invariance, PTL

(* backend_run returns with every client socket closed. *)
THEOREM ExitReleases == Spec => []AllReleased
<1>1. IInv => AllReleased
  BY DEF IInv, TypeOK, ConnTypeOK, ExitInv, LifeCycle, BusyInv, NoCallback,
         FdOwnership, AllReleased
<1> QED
  BY <1>1, Invariance, PTL

(* Nothing leaks from a failed establishment, whatever failed and when. *)
THEOREM HeapAccounted == Spec => []HeapAccount
<1>1. FailInv => HeapAccount
  BY DEF FailInv
<1> QED
  BY <1>1, FailInvariance, PTL

(* No sequence of a browser's acts alone brings the process down. *)
THEOREM CrashNeedsDaemon == Spec => []OnlyDaemonsCrash
<1>1. FailInv => OnlyDaemonsCrash
  BY DEF FailInv
<1> QED
  BY <1>1, FailInvariance, PTL
=============================================================================
