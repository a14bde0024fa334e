------------------------------ MODULE Service ------------------------------
(***************************************************************************)
(* The calls of lws_service around the callbacks of module Bridge.  lws    *)
(* waits in poll() until a descriptor is ready or a signal interrupts it,  *)
(* serves what is ready, and returns; backend_run tests irq and calls it   *)
(* again.  Only a call that has been given a reason is sure to return: a   *)
(* signal that comes after the test of irq but before poll() is not one.   *)
(***************************************************************************)
EXTENDS BridgeStreams

VARIABLE returns   \* the present call has made a callback, or got EINTR

serviceVars == <<vars, returns>>

ServiceInit == Init /\ returns = FALSE

Serve == (\E s \in Sessions : Callback(s)) /\ returns' = TRUE

Peers == (\E s \in Sessions : Environment(s)) /\ UNCHANGED returns

(* The call returns, irq is not set, and the next one begins. *)
ServiceAgain ==
  /\ CanCall
  /\ returns /\ ~irq
  /\ returns' = FALSE
  /\ UNCHANGED vars

(* The call returns, and irq ends the loop. *)
ServiceLast == returns /\ LoopEnd /\ UNCHANGED returns

(***************************************************************************)
(* SIGINT, the first or another.  In poll() it is an EINTR; just before it *)
(* goes unnoticed.  In a callback the call will return anyway, when        *)
(* connect() or write(), which signal() restarts, let it.                  *)
(***************************************************************************)
ServiceSignal ==
  /\ Sigint \/ (loop = "run" /\ irq /\ UNCHANGED vars)
  /\ returns' \in {returns, returns \/ CanCall}

ServiceEnds == (ServiceFails \/ BackendExit) /\ UNCHANGED returns

ServiceNext == \/ Serve \/ Peers \/ ServiceAgain \/ ServiceLast
               \/ ServiceSignal \/ ServiceEnds

(* Finitely many descriptors are ready when poll() returns. *)
ServiceFairness == SF_serviceVars(ServiceLast)

(* The program alone, and with daemons that accept or refuse, and read. *)
StopSpec == /\ ServiceInit /\ [][ServiceNext]_serviceVars
            /\ CallbackFairness /\ DestroyFairness /\ ServiceFairness
StopSpecDaemons == StopSpec /\ DaemonFairness

----------------------------------------------------------------------------
(***************************************************************************)
(* SIGINT ends backend_run, also when it finds the only thread blocked in  *)
(* connect() to a daemon with a full backlog, or in write() to one whose   *)
(* socket is full, and whatever is left in the queues of other sessions:   *)
(* from a call of lws_service that returns, the loop goes on to its exit.  *)
(***************************************************************************)
ShutdownCompletes == irq /\ returns ~> loop \in {"exit", "crash"}
=============================================================================
