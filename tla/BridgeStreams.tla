---------------------------- MODULE BridgeStreams ----------------------------
(***************************************************************************)
(* What the bridge does to the bytes: every unit a browser or a daemon has *)
(* sent is accounted for, and the two ends of a session see the streams of *)
(* module Duplex.                                                          *)
(***************************************************************************)
EXTENDS Bridge, SequencesExt

(* The payload of a queue of messages, and of a sequence of frames. *)
Payload(q) == FlattenSeq([i \in 1..Len(q) |-> q[i].data])
Keep(u) == IF u = Stray THEN <<>> ELSE <<u>>
Unframed(f) == FlattenSeq([i \in 1..Len(f) |-> Keep(f[i])])
Clean(frames) == FlattenSeq([i \in 1..Len(frames) |-> Unframed(frames[i])])

Writing(s) == IF busy = <<"cli", s>> THEN out ELSE <<>>

(***************************************************************************)
(* While a daemon is connected, every unit its browser has sent is in      *)
(* exactly one place, in order: read by the daemon, in the socket, in the  *)
(* write() under way or on mqlocal.  This is so for a blocking descriptor  *)
(* and a malloc that succeeds.                                             *)
(***************************************************************************)
UpLossless ==
  \A s \in Sessions :
    dsock[s] \in {"open", "half"} =>
      dgot[s] \o toDaemon[s] \o Writing(s) \o Payload(mqlocal[s])
        = Units(s, 0, websent[s])

(***************************************************************************)
(* Likewise from the daemon to a browser that is still there.  A hang-up   *)
(* of the daemon leaves nothing behind in the socket of what it sent just  *)
(* before, as long as that fits the one read() that is made with it        *)
(* (RAW_RX_FILE, bufsize).                                                 *)
(***************************************************************************)
DownLossless ==
  \A s \in Sessions :
    ws[s] = "open" /\ link[s] = "up" =>
      /\ Clean(wgot[s]) \o Clean(pipe[s]) \o Payload(mqweb[s]) \o fromDaemon[s]
           = Units(s, 0, dsent[s])
      /\ loop = "run" /\ lwsi[s] = "freed" /\ dsent[s] <= BufSize =>
           fromDaemon[s] = <<>>

(***************************************************************************)
(* What is lost stays lost: when malloc fails (frontend_createmsg,         *)
(* msg_new) or a non-blocking write() is cut short there are gaps, but     *)
(* still nothing comes twice, out of order, or from another session, in    *)
(* either direction.                                                       *)
(***************************************************************************)
Rising(x, s) ==
  \A i \in 1..Len(x) : /\ x[i][1] = s
                       /\ i > 1 => x[i - 1][2] < x[i][2]
InOrder == \A s \in Sessions : Rising(dgot[s], s) /\ Rising(Clean(wgot[s]), s)

(***************************************************************************)
(* The bridge implements Duplex: neither direction of any session ever     *)
(* delivers out of order, twice, with a gap, or to the wrong peer, through *)
(* hang-ups, disconnections, chokes and shutdown.  (The LWS_PRE stray      *)
(* bytes of each frame are not counted as units here: see Transparent.)    *)
(***************************************************************************)
Bridged ==
  INSTANCE Duplex WITH
    sent <- [c \in {"up", "down"} \X Sessions |->
               IF c[1] = "up" THEN websent[c[2]] ELSE dsent[c[2]]],
    got  <- [c \in {"up", "down"} \X Sessions |->
               IF c[1] = "up" THEN dgot[c[2]] ELSE Clean(wgot[c[2]])]
ImplementsDuplex == Bridged!Spec

----------------------------------------------------------------------------
(* Liveness *)

(***************************************************************************)
(* What a browser has sent reaches a daemon that stays connected and keeps *)
(* reading: no queue is forgotten, whatever else is going on.              *)
(***************************************************************************)
UpDelivered ==
  \A s \in Sessions : \A n \in 1..MaxUp :
    websent[s] >= n ~>
      Len(dgot[s]) >= n \/ dsock[s] \notin {"open", "half"} \/ loop # "run"

(***************************************************************************)
(* What a daemon has sent reaches a browser that stays and keeps draining, *)
(* also when the daemon hangs up after sending no more than one read().    *)
(***************************************************************************)
DownDelivered ==
  \A s \in Sessions : \A n \in 1..MaxDown :
    dsent[s] >= n ~>
      \/ Len(Clean(wgot[s])) >= n
      \/ ws[s] # "open" \/ link[s] = "down" \/ loop # "run"
      \/ lwsi[s] # "live" /\ dsent[s] > BufSize

(***************************************************************************)
(* A session does not outlive its peers: once the browser has gone, or     *)
(* the daemon has hung up or was never there, the client socket of the     *)
(* session is closed.                                                      *)
(***************************************************************************)
SocketReclaimed ==
  \A s \in Sessions :
    (link[s] = "down" \/ dsock[s] \in {"hup", "refused"})
      ~> ~Holds(s) \/ loop = "crash"

----------------------------------------------------------------------------
(* What the comments say and the code does not do *)

(***************************************************************************)
(* The browser gets what the daemon sent and nothing else ("We allowed for *)
(* LWS_PRE in the payload via creation of the data").                      *)
(***************************************************************************)
Transparent ==
  \A s \in Sessions : \A i \in 1..Len(wgot[s]) :
    Clean(<<wgot[s][i]>>) = wgot[s][i]

(***************************************************************************)
(* A failed lws_write is an error of the callback ("ERROR %d writing to    *)
(* ws", rc = -1).                                                          *)
(***************************************************************************)
WriteErrorReported ==
  [][\A s \in Sessions : WsWrite(s) /\ link[s] = "down" => rc' = -1]_vars
=============================================================================
