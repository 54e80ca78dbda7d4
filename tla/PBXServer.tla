----------------------------- MODULE PBXServer -----------------------------
(***************************************************************************)
(* The server threads of HW5 (src/server.c) around the PBX module: the     *)
(* service loop of each connection, the flag found_EOF that all the loops  *)
(* share, and the clients that send commands and close their connections.  *)
(* A command is one line; a line that is no command changes nothing.       *)
(***************************************************************************)
EXTENDS PBXProperties

CONSTANT Commands       \* the commands clients send

ASSUME CommandsAssumption == Commands \subseteq {"pickup", "hangup", "dial", "chat"}

VARIABLES
    found_EOF,  \* the process-wide flag that ends service loops
    svc,        \* where each thread is in pbx_client_service: "none", "register",
                \* "test", "read", "serve", "leave" or "done"
    present     \* the clients that have not closed their connection

serverVars == <<found_EOF, svc, present>>
allVars == <<vars, serverVars>>

ServerInit == /\ Init
              /\ found_EOF = FALSE
              /\ svc = [c \in Conns |-> "none"]
              /\ present = Conns

Serve(t, from, to) == svc[t] = from /\ svc' = [svc EXCEPT ![t] = to]

\* this_tu is NULL in the thread of a client the PBX refused.
HasTU(t) == pc[t] # "refused"

\* The thread may read the end of file, after the lines already received.
AtEOF(t) == t \notin present \/ ~open[t]

-----------------------------------------------------------------------------
(* pbx_client_service *)

\* accept() in the main thread, and the thread it creates up to pbx_register.
Accept(t) ==
    /\ Serve(t, "none", "register")
    /\ CallRegister(t)
    /\ UNCHANGED <<found_EOF, present>>

Refused(t) ==
    /\ Running
    /\ ~HasTU(t)
    /\ Serve(t, "register", "test")
    /\ found_EOF' = TRUE
    /\ UNCHANGED <<present, vars>>

\* The condition of the loop, first and after an operation has returned.
TestFlag(t) ==
    /\ Running
    /\ \/ svc[t] = "test"
       \/ svc[t] \in {"register", "serve"} /\ pc[t] = "idle"
    /\ svc' = [svc EXCEPT ![t] = IF found_EOF THEN "leave" ELSE "read"]
    /\ UNCHANGED <<found_EOF, present, vars>>

\* One command, answered by the operation it names; the lines that were
\* sent before the connection ended are still there to be read.
Command(t) ==
    /\ HasTU(t)
    /\ Serve(t, "read", "serve")
    /\ \/ "pickup" \in Commands /\ CallPickup(t)
       \/ "hangup" \in Commands /\ CallHangup(t)
       \/ "chat" \in Commands /\ CallChat(t)
       \/ "dial" \in Commands /\ \E e \in Exts : CallDial(t, e)
    /\ UNCHANGED <<found_EOF, present>>

\* A command for a TU that is NULL.
CommandForNobody(t) ==
    /\ Running
    /\ ~HasTU(t)
    /\ svc[t] = "read"
    /\ fault' = "null TU"
    /\ UNCHANGED <<tuVars, pbxVars, pc, dialed, mainVars, lineVars, serverVars>>

ReadEOFMutant(t) ==
    /\ Running
    /\ AtEOF(t)
    /\ Serve(t, "read", "test")
    /\ UNCHANGED <<found_EOF, present, vars>>
ReadEOF(t) ==
    /\ Running
    /\ AtEOF(t)
    /\ Serve(t, "read", "test")
    /\ found_EOF' = TRUE
    /\ UNCHANGED <<present, vars>>

\* The end of file inside a chat message leaves the loop without a test.
ReadEOFInChat(t) ==
    /\ Running
    /\ AtEOF(t)
    /\ Serve(t, "read", "leave")
    /\ found_EOF' = TRUE
    /\ UNCHANGED <<present, vars>>

Leave(t) ==
    /\ Running
    /\ Serve(t, "leave", "done")
    /\ found_EOF' = FALSE
    /\ IF HasTU(t) THEN CallUnregister(t) ELSE UNCHANGED vars
    /\ UNCHANGED present

\* A thread notices only when it reads, so that is when a client closes.
ClientCloses(t) ==
    /\ Running
    /\ svc[t] = "read"
    /\ present' = present \ {t}
    /\ UNCHANGED <<found_EOF, svc, vars>>

-----------------------------------------------------------------------------

PbxStep == /\ \/ \E t \in Conns : Step(t) \/ ThreadFault(t)
              \/ MainStep \/ ShutdownFault
           /\ UNCHANGED serverVars

ServerStep(t) ==
    Refused(t) \/ TestFlag(t) \/ ReadEOF(t) \/ ReadEOFInChat(t) \/ Leave(t)

ServerNext ==
    \/ \E t \in Conns : \/ Accept(t) \/ Command(t) \/ CommandForNobody(t)
                        \/ ClientCloses(t) \/ ServerStep(t)
    \/ PbxStep

\* Whatever thread t does that is not up to its client.
ThreadStep(t) ==
    \/ ServerStep(t)
    \/ (Step(t) \/ ThreadFault(t)) /\ UNCHANGED serverVars

ServerSpec == ServerInit /\ [][ServerNext]_allVars

(***************************************************************************)
(* Threads are scheduled, and a wait on a mutex that is free again and     *)
(* again succeeds in the end.  A connection that has ended holds finitely  *)
(* many lines, so the thread reads its end in the end.  Clients need never *)
(* send or close anything.                                                 *)
(***************************************************************************)
Fairness ==
    /\ \A t \in Conns :
          /\ SF_allVars(ThreadStep(t))
          /\ SF_allVars(ReadEOF(t))
    /\ SF_allVars(((MainStep /\ mainPc # "serving") \/ ShutdownFault)
                     /\ UNCHANGED serverVars)

FairServerSpec == ServerSpec /\ Fairness

-----------------------------------------------------------------------------
(* Properties *)

(***************************************************************************)
(* A service loop ends only at the end of its own connection (server.c,    *)
(* "The service loop ends when the network connection shuts down and EOF   *)
(* is seen").                                                              *)
(***************************************************************************)
LoopEndsAtOwnEOF ==
    \A t \in Conns : svc[t] = "leave" /\ HasTU(t) => AtEOF(t)

\* What keeps the server from going on, or lets one more client in after
\* pbx_shutdown has begun to look at the registry.
Stuck == \/ CircularWaits # {}
         \/ fault # "none"
         \/ exiting /\ \E t \in Conns : pc[t] \in {"reg_pbx", "reg_exit"}

(***************************************************************************)
(* Unless the threads lock each other up, a client that has gone is        *)
(* unregistered in the end and its TU freed, even though other threads may *)
(* clear the flag that its thread has set.                                 *)
(***************************************************************************)
GoneClientsAreUnregistered ==
    \A t \in Conns :
       t \notin present
          ~> \/ pc[t] \in {"gone", "refused"} /\ svc[t] = "done"
             \/ Stuck \/ ~Running

(***************************************************************************)
(* Once SIGHUP has come, and unless the threads lock each other up or one  *)
(* more client registers, the server shuts down: every connection is shut, *)
(* every thread unregisters and the process exits.                         *)
(***************************************************************************)
ShutdownCompletes == mainPc = "lock" ~> (mainPc = "exited" \/ Stuck)

=============================================================================
