-------------------------------- MODULE Wfedd --------------------------------
(***************************************************************************)
(* The life of the process: main and wfedd (main/main.c) and the frame of  *)
(* backend_run (main/backend.c) around the bridge, with every allocation   *)
(* that may fail, the ladders of frees that undo them, and SIGINT at every *)
(* moment.  What argtable makes of the arguments is an input, printing is  *)
(* left out, the -S list is module Socklist, and what the loop serves is   *)
(* module Bridge.                                                          *)
(***************************************************************************)
EXTENDS Integers, FiniteSets

CONSTANTS PortArgs,    \* arguments of -P to try
          NoPort,      \* no -P
          NoOpts,      \* cliopt's master is NULL
          AllocFails   \* may allocations and lws_create_context fail?

ASSUME WfeddAssumption ==
  /\ PortArgs \subseteq Int
  /\ NoOpts \notin [verbose : BOOLEAN, quiet : BOOLEAN, debug : BOOLEAN]
  /\ AllocFails \in BOOLEAN

DefaultPort == 7681

VARIABLES pc,        \* where the process is; "exited" and "killed" are final
          args,      \* which of the argument's flags arg_parse has counted
          port_arg,  \* the argument of -P
          port_val,
          use_tls,
          opts,      \* cliopt.c's master: the options all others read
          bailout,   \* of main: wfedd is not to be run
          heap,      \* allocated blocks
          handler,   \* backend_inthandler is installed
          irq,       \* backend.irq
          rc,        \* of backend_run
          exitcode,  \* of wfedd
          status     \* exitcode of main

given == <<args, port_arg, use_tls>>
vars == <<pc, given, port_val, opts, bailout, heap, handler, irq, rc,
          exitcode, status>>

(* `errors` includes the -S that is missing when there is no argument. *)
Args == [help : BOOLEAN, version : BOOLEAN, errors : BOOLEAN,
         verbose : BOOLEAN, quiet : BOOLEAN, debug : BOOLEAN]
Opts == [verbose : BOOLEAN, quiet : BOOLEAN, debug : BOOLEAN]

Blocks == {"argtable", "rsrc", "url", "socklist", "names", "protocols",
           "cert", "key", "origin", "buf", "dict", "context"}
Steps == {"args", "rsrc", "url", "port", "socklist", "options", "protocols",
          "tls", "cert", "key", "origin", "buf", "dict", "context", "signal",
          "test", "service", "stop", "run_EXIT", "wfedd_FINISH",
          "main_FINISH", "main_free", "exited", "killed"}

TypeOK ==
  /\ pc \in Steps
  /\ args \in Args /\ opts \in Opts \cup {NoOpts}
  /\ port_arg \in PortArgs \cup {NoPort}
  /\ port_val \in PortArgs \cup {DefaultPort}
  /\ heap \subseteq Blocks
  /\ {use_tls, bailout, handler, irq} \subseteq BOOLEAN
  /\ rc \in {0, -1, -2, -4}
  /\ exitcode \in 0..3 /\ status \in -1..2

Init ==
  /\ pc = "args"
  /\ args \in Args /\ opts = NoOpts
  /\ port_arg \in PortArgs \cup {NoPort}
  /\ port_val = DefaultPort
  /\ use_tls \in BOOLEAN
  /\ bailout = TRUE
  /\ heap = {"argtable"}
  /\ handler = FALSE /\ irq = FALSE
  /\ rc = 0 /\ exitcode = 0 /\ status = 0

(* At step `at` a block is allocated and step `then` follows, or `else`. *)
Alloc(at, block, then, else) ==
  /\ pc = at
  /\ \/ pc' = then /\ heap' = heap \cup {block}
     \/ AllocFails /\ pc' = else /\ UNCHANGED heap

----------------------------------------------------------------------------
(* main *)

(***************************************************************************)
(* arg_nullcheck, arg_parse, and what ends the program before it begins:   *)
(* --help and --version come before errors.  (No arguments at all are an   *)
(* error too, so that the test for argc == 1 after it finds nothing.)      *)
(***************************************************************************)
MainArgs ==
  /\ pc = "args"
  /\ \/ AllocFails /\ pc' = "main_FINISH" /\ status' = 1
     \/ /\ args.help \/ args.version
        /\ pc' = "main_FINISH" /\ UNCHANGED status
     \/ /\ ~args.help /\ ~args.version /\ args.errors
        /\ pc' = "main_FINISH" /\ status' = 1
     \/ /\ ~args.help /\ ~args.version /\ ~args.errors
        /\ pc' = "rsrc" /\ UNCHANGED status
  /\ UNCHANGED <<given, opts, bailout, port_val, heap, handler, irq, rc,
                 exitcode>>

(* verbose, then quiet (which undoes verbose), then debug (undoes quiet). *)
OutputArgs(a) ==
  [verbose |-> a.verbose /\ ~a.quiet, quiet |-> a.quiet /\ ~a.debug,
   debug |-> a.debug]

MainRsrc == /\ Alloc("rsrc", "rsrc", "url", "main_FINISH")
            /\ UNCHANGED <<given, status, opts, bailout, port_val, handler,
                           irq, rc, exitcode>>
MainUrl == /\ Alloc("url", "url", "port", "main_FINISH")
           /\ UNCHANGED <<given, status, opts, bailout, port_val, handler,
                          irq, rc, exitcode>>

(* The range test as it is written. *)
PortRefused(p) == p >= 0 \/ p >= 65536

(* Mutation: the argument is read whether or not it was given. *)
MainPortUnasked ==
  /\ pc = "port"
  /\ pc' = "socklist"
  /\ port_val' = IF port_arg # NoPort /\ PortRefused(port_arg) THEN port_val
                 ELSE port_arg
  /\ UNCHANGED <<given, status, opts, bailout, heap, handler, irq, rc,
                 exitcode>>

MainPort ==
  /\ pc = "port"
  /\ pc' = "socklist"
  /\ port_val' = IF port_arg = NoPort \/ PortRefused(port_arg) THEN port_val
                 ELSE port_arg
  /\ UNCHANGED <<given, status, opts, bailout, heap, handler, irq, rc,
                 exitcode>>

(***************************************************************************)
(* socklist_init, and socklist_addmap for each -S: "names" are the strings *)
(* of the entries it made, if any.  When calloc fails main gives up; a     *)
(* failing malloc is not noticed, as *sl_handle is not what is tested, and *)
(* NULL is written.  An argument without a ':' crashes the process when    *)
(* its turn comes (AddMalformed of module Socklist).                       *)
(***************************************************************************)
MainSocklist ==
  /\ pc = "socklist"
  /\ \/ /\ pc' \in {"options", "killed"}
        /\ heap' \in {heap \cup {"socklist"}, heap \cup {"socklist", "names"}}
        /\ UNCHANGED status
     \/ /\ AllocFails
        /\ \/ pc' = "main_FINISH" /\ status' = 2
           \/ pc' = "killed" /\ UNCHANGED status
        /\ UNCHANGED heap
  /\ UNCHANGED <<given, opts, bailout, port_val, handler, irq, rc, exitcode>>

(* cliopt_init, and wfedd may be run. *)
MainOptions ==
  /\ pc = "options"
  /\ pc' = "main_FINISH"
  /\ opts' = OutputArgs(args)
  /\ bailout' = FALSE
  /\ UNCHANGED <<given, status, port_val, heap, handler, irq, rc, exitcode>>

(* Mutation: exitcode decides, which a failed malloc has left at 0. *)
MainFinishByCode ==
  /\ pc = "main_FINISH"
  /\ pc' = IF status # 0 THEN "main_free" ELSE "protocols"
  /\ heap' = heap \ {"argtable"}
  /\ UNCHANGED <<given, status, opts, bailout, port_val, handler, irq, rc,
                 exitcode>>

(* arg_freetable, then wfedd. *)
MainFinish ==
  /\ pc = "main_FINISH"
  /\ pc' = IF bailout THEN "main_free" ELSE "protocols"
  /\ heap' = heap \ {"argtable"}
  /\ UNCHANGED <<given, status, opts, bailout, port_val, handler, irq, rc,
                 exitcode>>

MainFree ==
  /\ pc = "main_free"
  /\ pc' = "exited"
  /\ heap' = heap \ {"socklist", "rsrc", "url"}
  /\ UNCHANGED <<given, status, opts, bailout, port_val, handler, irq, rc,
                 exitcode>>

----------------------------------------------------------------------------
(* wfedd *)

WfeddProtocols ==
  /\ Alloc("protocols", "protocols", "tls", "main_free")
  /\ status' = IF pc' = "main_free" THEN -1 ELSE status
  /\ UNCHANGED <<given, opts, bailout, port_val, handler, irq, rc, exitcode>>

(* asprintf returns the length, or -1: a path that is made is the failure. *)
Failed(cursor) == cursor > 0

Asprintf(at, block, then, code) ==
  /\ pc = at
  /\ \E cursor \in {1} \cup (IF AllocFails THEN {-1} ELSE {}) :
       /\ heap' = heap \cup (IF cursor > 0 THEN {block} ELSE {})
       /\ pc' = IF Failed(cursor) THEN "wfedd_FINISH" ELSE then
       /\ exitcode' = IF Failed(cursor) THEN code ELSE exitcode

WfeddTls ==
  /\ pc = "tls"
  /\ pc' = IF use_tls THEN "cert" ELSE "origin"
  /\ UNCHANGED <<given, status, opts, bailout, port_val, heap, handler, irq,
                 rc, exitcode>>
WfeddCert == /\ Asprintf("cert", "cert", "key", 1)
             /\ UNCHANGED <<given, status, opts, bailout, port_val, handler,
                            irq, rc>>
WfeddKey == /\ Asprintf("key", "key", "origin", 2)
            /\ UNCHANGED <<given, status, opts, bailout, port_val, handler,
                           irq, rc>>

WfeddOrigin ==
  /\ Alloc("origin", "origin", "buf", "wfedd_FINISH")
  /\ exitcode' = IF pc' = "buf" THEN exitcode ELSE 3
  /\ UNCHANGED <<given, status, opts, bailout, port_val, handler, irq, rc>>

(* switch (exitcode): it falls through from the case to the end. *)
WfeddFreed ==
  {"protocols"} \cup (IF exitcode \in {0, 2, 3} THEN {"cert"} ELSE {})
                \cup (IF exitcode \in {0, 3} THEN {"key"} ELSE {})
                \cup (IF exitcode = 0 THEN {"origin"} ELSE {})

(* wfedd returns 0, whatever exitcode and backend_run say. *)
WfeddFinish ==
  /\ pc = "wfedd_FINISH"
  /\ pc' = "main_free"
  /\ heap' = heap \ WfeddFreed
  /\ UNCHANGED <<given, status, opts, bailout, port_val, handler, irq, rc,
                 exitcode>>

----------------------------------------------------------------------------
(* backend_run *)

RunBuf == /\ Alloc("buf", "buf", "dict", "wfedd_FINISH")
          /\ rc' = IF pc' = "dict" THEN 0 ELSE -1
          /\ UNCHANGED <<given, status, opts, bailout, port_val, handler, irq,
                         exitcode>>
RunDict == /\ Alloc("dict", "dict", "context", "run_EXIT")
           /\ rc' = IF pc' = "context" THEN 0 ELSE -2
           /\ UNCHANGED <<given, status, opts, bailout, port_val, handler,
                          irq, exitcode>>
RunContext ==
  /\ Alloc("context", "context", "signal", "run_EXIT")
  /\ rc' = IF pc' = "signal" THEN 0 ELSE -4
  /\ irq' = FALSE
  /\ UNCHANGED <<given, status, opts, bailout, port_val, handler, exitcode>>

RunSignal ==
  /\ pc = "signal"
  /\ pc' = "test"
  /\ handler' = TRUE
  /\ UNCHANGED <<given, status, opts, bailout, port_val, heap, irq, rc,
                 exitcode>>

(* Mutation: one more round is always made. *)
LoopAgain == pc' = "service"

(* while ((backend.irq == BIRQ_NONE) && (lws_rc >= 0)) *)
LoopTest == pc' = IF irq THEN "stop" ELSE "service"

RunTest ==
  /\ pc = "test"
  /\ LoopTest
  /\ UNCHANGED <<given, status, opts, bailout, port_val, heap, handler, irq,
                 rc, exitcode>>

(* lws_service waits for an event and serves it. *)
ServiceEvent ==
  /\ pc = "service"
  /\ pc' = "test"
  /\ UNCHANGED <<given, status, opts, bailout, port_val, heap, handler, irq,
                 rc, exitcode>>

(* lws_rc < 0 *)
ServiceFails ==
  /\ pc = "service"
  /\ pc' = "stop"
  /\ UNCHANGED <<given, status, opts, bailout, port_val, heap, handler, irq,
                 rc, exitcode>>

RunStop ==
  /\ pc = "stop"
  /\ pc' = "run_EXIT"
  /\ heap' = heap \ {"context"}
  /\ UNCHANGED <<given, status, opts, bailout, port_val, handler, irq, rc,
                 exitcode>>

(* Mutation: rc = -4 enters the ladder below dict_deinit. *)
RunFreedLess == {"buf"} \cup (IF rc \in {-1, -2, -4} THEN {} ELSE {"dict"})

(* switch (rc) *)
RunFreed == {"buf"} \cup (IF rc \in {-1, -2} THEN {} ELSE {"dict"})

RunExit ==
  /\ pc = "run_EXIT"
  /\ pc' = "wfedd_FINISH"
  /\ heap' = heap \ RunFreed
  /\ UNCHANGED <<given, status, opts, bailout, port_val, handler, irq, rc,
                 exitcode>>

----------------------------------------------------------------------------
(***************************************************************************)
(* SIGINT.  Without the handler it kills.  With it, irq is set; a poll()   *)
(* that is waiting returns with EINTR.  Once backend_run has returned, the *)
(* handler writes through birq_pointer into a frame that is gone: nothing  *)
(* may happen, or the process dies.                                        *)
(***************************************************************************)
Running == pc \notin {"exited", "killed"}
FrameGone == pc \in {"wfedd_FINISH", "main_free"}

SigintDefault ==
  /\ Running /\ ~handler
  /\ pc' = "killed"
  /\ UNCHANGED <<given, status, opts, bailout, port_val, heap, handler, irq,
                 rc, exitcode>>
SigintHandled ==
  /\ Running /\ handler /\ ~FrameGone
  /\ irq' = TRUE
  /\ UNCHANGED <<pc, given, status, opts, bailout, port_val, heap, handler, rc,
                 exitcode>>
(* At "service" that was before poll(), which waits nevertheless, or in a  *)
(* callback.  This is the signal that finds the process waiting in poll(). *)
SigintInPoll ==
  /\ pc = "service" /\ handler
  /\ irq' = TRUE
  /\ pc' = "test"
  /\ UNCHANGED <<given, status, opts, bailout, port_val, heap, handler, rc,
                 exitcode>>
SigintDangling ==
  /\ handler /\ FrameGone
  /\ pc' \in {pc, "killed"}
  /\ UNCHANGED <<given, status, opts, bailout, port_val, heap, handler, irq,
                 rc, exitcode>>

Sigint == SigintDefault \/ SigintHandled \/ SigintInPoll \/ SigintDangling

Main == MainArgs \/ MainRsrc \/ MainUrl \/ MainPort \/ MainSocklist
        \/ MainOptions \/ MainFinish \/ MainFree
WfeddSteps == WfeddProtocols \/ WfeddTls \/ WfeddCert \/ WfeddKey
              \/ WfeddOrigin \/ WfeddFinish
Run == RunBuf \/ RunDict \/ RunContext \/ RunSignal \/ RunTest \/ RunStop
       \/ RunExit

Next == Main \/ WfeddSteps \/ Run \/ ServiceEvent \/ ServiceFails \/ Sigint

Spec == Init /\ [][Next]_vars

(* The program goes on where it does not wait for an event. *)
FairSpec == Spec /\ WF_vars(Main \/ WfeddSteps \/ Run)

----------------------------------------------------------------------------
(* Properties *)

(***************************************************************************)
(* Whatever allocation fails on the way, and wherever SIGINT stops the     *)
(* loop, the three ladders of frees (run_EXIT, wfedd_FINISH, main_FINISH)  *)
(* release what was allocated, but for two leaks: the strings of the       *)
(* socket list, which socklist_deinit does not free, and a path of --tls,  *)
(* if making it is taken for the failure.  The mount origin, whose pointer *)
(* is not initialised, is only freed when it was made.                     *)
(***************************************************************************)
CleanExit ==
  /\ pc = "exited" =>
       heap \subseteq {"names"} \cup (IF use_tls THEN {"cert", "key"} ELSE {})
  /\ pc = "wfedd_FINISH" /\ "origin" \in WfeddFreed => "origin" \in heap

(***************************************************************************)
(* wfedd and backend_run, and the callbacks that lws makes, only run with  *)
(* all that they read in place: the strings, the list and the options of   *)
(* main, then the protocols, then the mount origin, and in the loop the    *)
(* buffer, the dictionary and the context.  None of it has failed to be    *)
(* made, or been freed: some of the gotos of main leave exitcode at 0, and *)
(* the blocks belong to three functions with a ladder each.                *)
(***************************************************************************)
InRun == {"buf", "dict", "context", "signal", "test", "service", "stop"}
InWfedd == {"protocols", "tls", "cert", "key", "origin"} \cup InRun
Prepared ==
  /\ pc \in InWfedd =>
       opts # NoOpts /\ {"socklist", "rsrc", "url"} \subseteq heap
  /\ pc \in InWfedd \ {"protocols"} => "protocols" \in heap
  /\ pc \in InRun => "origin" \in heap
  /\ pc \in {"signal", "test", "service", "stop"} =>
       {"buf", "dict", "context"} \subseteq heap

(***************************************************************************)
(* Once irq is set and the program is not inside lws_service, no further   *)
(* call of it is made, and the program goes through all ladders to its     *)
(* end.                                                                    *)
(***************************************************************************)
StopsWhenSeen == irq /\ pc # "service" ~> pc \in {"exited", "killed"}

----------------------------------------------------------------------------
(* What the comments say and the code does not do *)

(***************************************************************************)
(* SIGINT ends the program ("Configure an IRQ in order to stop wfedd       *)
(* asynchronously"): from the moment irq is set it goes on to its exit.    *)
(***************************************************************************)
StopsOnSigint == irq ~> pc \in {"exited", "killed"}

(* --tls: "use TLS for webserver (HTTPS)", so it is not an error by itself. *)
TlsIsNoError ==
  pc = "wfedd_FINISH" /\ use_tls /\ "cert" \in heap => exitcode = 0
=============================================================================
