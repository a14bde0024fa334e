---------------------------- MODULE WfeddProofs ----------------------------
(***************************************************************************)
(* For any port arguments and any failing allocations: the ladders of      *)
(* frees match what was allocated, wherever the program turned off, and    *)
(* nothing runs before what it reads has been made.                        *)
(***************************************************************************)
EXTENDS Wfedd, TLAPS

Looping == {"signal", "test", "service", "stop"}
Framed == {"buf", "dict", "context", "run_EXIT"} \cup Looping
Serving == {"protocols", "tls", "cert", "key", "origin"} \cup Framed
Ended == {"main_free", "exited", "killed"}

(* What has been made once a step is reached, and is still there. *)
Early == {"args", "rsrc", "url", "port", "socklist"}
MadeByMain ==
  /\ pc \in {"url", "port", "socklist", "options"} => "rsrc" \in heap
  /\ pc \in {"port", "socklist", "options"} => "url" \in heap
  /\ pc = "options" => "socklist" \in heap
  /\ (pc = "main_FINISH" /\ ~bailout) \/ pc \in Serving =>
       {"rsrc", "url", "socklist"} \subseteq heap /\ opts # NoOpts
  /\ pc \in Early \cup {"options"} => bailout
Made ==
  /\ MadeByMain
  /\ pc \in Serving \ {"protocols"} => "protocols" \in heap
  /\ pc \in (Framed \ {"buf", "run_EXIT"}) => "buf" \in heap
  /\ pc \in {"context"} \cup Looping => "dict" \in heap
  /\ pc \in Looping => "context" \in heap

(* At which steps each block may be there, and the origin must be. *)
HeapInv ==
  /\ "argtable" \in heap => pc \notin Serving \cup {"wfedd_FINISH", "main_free",
                                                      "exited"}
  /\ \A b \in {"rsrc", "url", "socklist"} : b \in heap => pc # "exited"
  /\ "protocols" \in heap =>
       pc \in (Serving \ {"protocols"}) \cup {"wfedd_FINISH", "killed"}
  /\ {"cert", "key"} \cap heap # {} => use_tls
  /\ "origin" \in heap => \/ pc \in Framed \cup {"killed"}
                          \/ pc = "wfedd_FINISH" /\ exitcode = 0
  /\ pc \in Framed \/ (pc = "wfedd_FINISH" /\ exitcode = 0) => "origin" \in heap
  /\ "buf" \in heap =>
       pc \in (Framed \ {"buf"}) \cup {"killed"}
  /\ "dict" \in heap => \/ pc \in {"context", "killed"} \cup Looping
                        \/ pc = "run_EXIT" /\ rc \notin {-1, -2}
  /\ "context" \in heap => pc \in {"killed"} \cup Looping
  /\ Made

(* Which result each step finds. *)
FlowInv ==
  /\ exitcode # 0 => pc \in {"wfedd_FINISH"} \cup Ended
  /\ pc \in {"cert", "key"} => use_tls
  /\ rc # 0 => pc \in {"run_EXIT", "wfedd_FINISH"} \cup Ended

IInv == TypeOK /\ HeapInv /\ FlowInv

LEMMA InitInv == Init => IInv
<1> SUFFICES ASSUME Init PROVE IInv
  OBVIOUS
<1>1. TypeOK
  <2>1. {use_tls, bailout, handler, irq} \subseteq BOOLEAN
    BY Zenon DEF Init
  <2>2. rc \in {0, -1, -2, -4} /\ exitcode \in 0..3 /\ status \in -1..2
    BY DEF Init
  <2> QED
    BY <2>1, <2>2 DEF Init, TypeOK, Steps, Blocks, DefaultPort
<1>2. HeapInv
  BY DEF Init, HeapInv, Made, MadeByMain, Early, Serving, Framed, Looping, Ended
<1>3. FlowInv
  BY DEF Init, FlowInv, Serving, Framed, Looping, Ended
<1> QED
  BY <1>1, <1>2, <1>3 DEF IInv

LEMMA OutputArgsType == \A a \in Args : OutputArgs(a) \in Opts
BY DEF Args, Opts, OutputArgs

LEMMA OptsNotNull == \A o \in Opts : o # NoOpts
BY WfeddAssumption DEF Opts

(* The steps before wfedd. *)
LEMMA MainSteps == IInv /\ Main => IInv'
<1> SUFFICES ASSUME IInv, Main PROVE IInv'
  OBVIOUS
<1> USE DEF IInv, TypeOK, HeapInv, FlowInv, Steps, Blocks, Serving, Framed,
            Looping, Ended, given, Alloc, Made, MadeByMain, Early
<1>1. CASE MainArgs
  BY <1>1 DEF MainArgs
<1>2. CASE MainRsrc
  BY <1>2 DEF MainRsrc
<1>3. CASE MainUrl
  BY <1>3 DEF MainUrl
<1>4. CASE MainPort
  BY <1>4 DEF MainPort
<1>5. CASE MainSocklist
  <2>1. CASE /\ pc' \in {"options", "killed"}
             /\ heap' \in {heap \cup {"socklist"}, heap \cup {"socklist", "names"}}
             /\ status' = status
    <3>1. CASE heap' = heap \cup {"socklist"}
      BY <1>5, <2>1, <3>1 DEF MainSocklist
    <3>2. CASE heap' = heap \cup {"socklist", "names"}
      BY <1>5, <2>1, <3>2 DEF MainSocklist
    <3> QED
      BY <2>1, <3>1, <3>2
  <2>2. CASE heap' = heap /\ pc' = "main_FINISH" /\ status' = 2
    BY <1>5, <2>2 DEF MainSocklist
  <2>3. CASE heap' = heap /\ pc' = "killed" /\ status' = status
    BY <1>5, <2>3 DEF MainSocklist
  <2> QED
    BY <1>5, <2>1, <2>2, <2>3 DEF MainSocklist
<1>6. CASE MainOptions
  BY <1>6, OutputArgsType, OptsNotNull DEF MainOptions
<1>7. CASE MainFinish
  BY <1>7 DEF MainFinish
<1>8. CASE MainFree
  BY <1>8 DEF MainFree
<1> QED
  BY <1>1, <1>2, <1>3, <1>4, <1>5, <1>6, <1>7, <1>8 DEF Main

(* wfedd around backend_run. *)
LEMMA WfeddStepsInv == IInv /\ WfeddSteps => IInv'
<1> SUFFICES ASSUME IInv, WfeddSteps PROVE IInv'
  OBVIOUS
<1> USE DEF IInv, TypeOK, HeapInv, FlowInv, Steps, Blocks, Serving, Framed,
            Looping, Ended, given, Alloc, Made, MadeByMain, Early
<1>1. CASE WfeddProtocols
  <2>1. CASE pc' = "tls" /\ heap' = heap \cup {"protocols"}
    BY <1>1, <2>1 DEF WfeddProtocols
  <2>2. CASE pc' = "main_free" /\ heap' = heap
    BY <1>1, <2>2 DEF WfeddProtocols
  <2> QED
    BY <1>1, <2>1, <2>2 DEF WfeddProtocols
<1>2. CASE WfeddTls
  BY <1>2 DEF WfeddTls
<1>3. CASE WfeddCert
  BY <1>3 DEF WfeddCert, Asprintf, Failed
<1>4. CASE WfeddKey
  BY <1>4 DEF WfeddKey, Asprintf, Failed
<1>5. CASE WfeddOrigin
  <2>1. CASE pc' = "buf" /\ heap' = heap \cup {"origin"}
    BY <1>5, <2>1 DEF WfeddOrigin
  <2>2. CASE pc' = "wfedd_FINISH" /\ heap' = heap
    BY <1>5, <2>2 DEF WfeddOrigin
  <2> QED
    BY <1>5, <2>1, <2>2 DEF WfeddOrigin
<1>6. CASE WfeddFinish
  BY <1>6 DEF WfeddFinish, WfeddFreed
<1> QED
  BY <1>1, <1>2, <1>3, <1>4, <1>5, <1>6 DEF WfeddSteps

(* backend_run. *)
LEMMA RunStepsInv == IInv /\ Run => IInv'
<1> SUFFICES ASSUME IInv, Run PROVE IInv'
  OBVIOUS
<1> USE DEF IInv, TypeOK, HeapInv, FlowInv, Steps, Blocks, Serving, Framed,
            Looping, Ended, given, Alloc, Made, MadeByMain, Early
<1>1. CASE RunBuf
  BY <1>1 DEF RunBuf
<1>2. CASE RunDict
  BY <1>2 DEF RunDict
<1>3. CASE RunContext
  <2>1. CASE pc' = "signal" /\ heap' = heap \cup {"context"}
    BY <1>3, <2>1 DEF RunContext
  <2>2. CASE pc' = "run_EXIT" /\ heap' = heap
    <3>1. TypeOK'
      <4>1. {use_tls', bailout', handler', irq'} \subseteq BOOLEAN
        BY <1>3 DEF RunContext
      <4> QED
        BY <1>3, <2>2, <4>1 DEF RunContext
    <3>2. HeapInv'
      BY <1>3, <2>2 DEF RunContext
    <3>3. FlowInv'
      BY <1>3, <2>2 DEF RunContext
    <3> QED
      BY <3>1, <3>2, <3>3
  <2> QED
    BY <1>3, <2>1, <2>2 DEF RunContext
<1>4. CASE RunSignal
  BY <1>4 DEF RunSignal
<1>5. CASE RunTest
  BY <1>5 DEF RunTest, LoopTest
<1>6. CASE RunStop
  BY <1>6 DEF RunStop
<1>7. CASE RunExit
  BY <1>7 DEF RunExit, RunFreed
<1> QED
  BY <1>1, <1>2, <1>3, <1>4, <1>5, <1>6, <1>7 DEF Run

(* What comes from outside: events, and SIGINT at any step. *)
LEMMA OutsideInv == IInv /\ (ServiceEvent \/ ServiceFails \/ Sigint) => IInv'
<1> SUFFICES ASSUME IInv, ServiceEvent \/ ServiceFails \/ Sigint
             PROVE  IInv'
  OBVIOUS
<1> USE DEF IInv, TypeOK, HeapInv, FlowInv, Steps, Blocks, Serving, Framed,
            Looping, Ended, given, Made, MadeByMain, Early, Running, FrameGone
<1>1. CASE ServiceEvent
  BY <1>1 DEF ServiceEvent
<1>2. CASE ServiceFails
  BY <1>2 DEF ServiceFails
<1>3. CASE SigintDefault
  BY <1>3 DEF SigintDefault
<1>4. CASE SigintHandled
  BY <1>4 DEF SigintHandled
<1>5. CASE SigintInPoll
  BY <1>5 DEF SigintInPoll
<1>6. CASE SigintDangling
  BY <1>6 DEF SigintDangling
<1> QED
  BY <1>1, <1>2, <1>3, <1>4, <1>5, <1>6 DEF Sigint

LEMMA StepInv == IInv /\ [Next]_vars => IInv'
<1> SUFFICES ASSUME IInv, [Next]_vars PROVE IInv'
  OBVIOUS
<1>1. CASE UNCHANGED vars
  BY <1>1 DEF vars, given, IInv, TypeOK, HeapInv, Made, MadeByMain, FlowInv
<1> QED
  BY <1>1, MainSteps, WfeddStepsInv, RunStepsInv, OutsideInv DEF Next

LEMMA ProcessInvariance == Spec => []IInv
BY InitInv, StepInv, PTL DEF Spec

(* The variables of main, wfedd and backend_run keep their types. *)
THEOREM ProcessTyped == Spec => []TypeOK
BY ProcessInvariance, PTL DEF IInv

(***************************************************************************)
(* Whatever fails and whenever SIGINT comes, the ladders of frees release  *)
(* what CleanExit says they do, and free no uninitialised pointer.         *)
(***************************************************************************)
THEOREM LaddersMatch == Spec => []CleanExit
<1>1. IInv => CleanExit
  <2> SUFFICES ASSUME IInv PROVE CleanExit
    OBVIOUS
  <2>1. pc = "exited" =>
          heap \subseteq {"names"} \cup (IF use_tls THEN {"cert", "key"} ELSE {})
    BY DEF IInv, TypeOK, HeapInv, Blocks, Serving, Framed, Looping
  <2>2. pc = "wfedd_FINISH" /\ "origin" \in WfeddFreed => "origin" \in heap
    BY DEF IInv, HeapInv, WfeddFreed
  <2> QED
    BY <2>1, <2>2 DEF CleanExit
<1> QED
  BY <1>1, ProcessInvariance, PTL

(***************************************************************************)
(* wfedd, backend_run and the callbacks find all they read in place, for   *)
(* any failing allocation and a SIGINT at any step.                        *)
(***************************************************************************)
THEOREM PreparedBeforeUse == Spec => []Prepared
<1>1. IInv => Prepared
  BY DEF IInv, HeapInv, Made, MadeByMain, Prepared, InWfedd, InRun, Serving, Framed,
         Looping
<1> QED
  BY <1>1, ProcessInvariance, PTL
=============================================================================
