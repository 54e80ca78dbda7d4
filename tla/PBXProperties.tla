--------------------------- MODULE PBXProperties ---------------------------
(***************************************************************************)
(* What PBX.tla is checked for, and the mapping under which it implements  *)
(* Exchange.tla.                                                           *)
(***************************************************************************)
EXTENDS PBX

-----------------------------------------------------------------------------
ThreadPc == {"out", "idle", "refused", "gone", "reg_pbx", "reg_exit",
             "pick_own", "pick_buddy", "pick_body",
             "hang_own", "hang_buddy", "hang_body",
             "dial_own", "dial_pbx", "dial_check", "dial_body",
             "chat_own", "chat_buddy", "chat_body",
             "unreg_pbx", "unreg_own", "unreg_buddy", "unreg_body",
             "unreg_free", "unreg_post"}

MainPc == {"serving", "lock", "check", "read", "shut", "wait", "free",
           "exit", "exited"}

Fault == {"none", "null TU", "freed TU", "freed PBX", "bad shutdown"}

TypeOK ==
    /\ state \in [Conns -> TU_STATE]
    /\ buddy \in [Conns -> Conns \cup {NULL}]
    /\ ext \in [Conns -> Exts]
    /\ tuMutex \in [Conns -> Conns \cup {NULL}]
    /\ mem \in [Conns -> {"none", "live", "freed"}]
    /\ tus \in [Exts -> Conns \cup {NULL}]
    /\ tup \in Exts
    /\ exiting \in BOOLEAN
    /\ pbxMutex \in Conns \cup {NULL}
    /\ exitSem \in [Exts -> Nat]
    /\ pbxMem \in {"live", "freed"}
    /\ pc \in [Conns -> ThreadPc]
    /\ dialed \in [Conns -> Exts]
    /\ mainPc \in MainPc
    /\ mainI \in Exts
    /\ mainTu \in Conns \cup {NULL}
    /\ heard \in [Conns -> TU_STATE \cup {"nothing"}]
    /\ open \in [Conns -> BOOLEAN]
    /\ fault \in Fault

-----------------------------------------------------------------------------
(* The mutexes *)

\* Where a thread is between its P() and its V() on the mutex of its own TU;
\* pbx_unregister never gives that mutex back.
HoldsOwn(t) ==
    pc[t] \in {"pick_buddy", "pick_body", "hang_buddy", "hang_body",
               "dial_pbx", "dial_check", "dial_body", "chat_buddy", "chat_body",
               "unreg_buddy", "unreg_body", "unreg_free", "unreg_post", "gone"}

HoldsPbx(t) ==
    pc[t] \in {"reg_exit", "dial_check", "dial_body",
               "unreg_own", "unreg_buddy", "unreg_body"}

\* The other TU whose mutex thread t holds, if any.
HoldsOther(t, c) ==
    \/ pc[t] \in {"pick_body", "hang_body", "chat_body", "unreg_body"}
       /\ c = buddy[t]
    \/ pc[t] = "dial_body" /\ c = tus[dialed[t]]

(***************************************************************************)
(* Every mutex is held by exactly the thread the code's P()s and V()s say, *)
(* so the buddy (or the dialed TU) a thread releases is the one it locked, *)
(* although it reads tu->buddy again to release it.                        *)
(***************************************************************************)
MutexesHeld ==
    /\ \A t \in Conns : pbxMutex = t <=> HoldsPbx(t)
    /\ \A t, c \in Conns :
          tuMutex[c] = t <=> (c = t /\ HoldsOwn(t)) \/ HoldsOther(t, c)

(***************************************************************************)
(* No data race on a TU: its state and its buddy change only in a step of  *)
(* the thread that holds its mutex (after pbx_register has set it up).     *)
(***************************************************************************)
WritesUnderMutex ==
    [][\A c \in Conns :
          mem[c] = "live" /\ <<state[c], buddy[c]>>' # <<state[c], buddy[c]>>
             => \E t \in Conns : tuMutex[c] = t /\ pc'[t] # pc[t]]_vars

-----------------------------------------------------------------------------
(* The registry *)

Registered(t) == mem[t] = "live" /\ pc[t] # "unreg_free"

(***************************************************************************)
(* tus[] holds exactly the live TUs that pbx_unregister has not removed,   *)
(* each at its own extension; in particular the branch of pbx_unregister   *)
(* for a TU that is not at its extension is dead code.                     *)
(***************************************************************************)
RegistryOK ==
    /\ \A e \in Exts, t \in Conns :
          tus[e] = t <=> Registered(t) /\ ext[t] = e
    /\ \A t \in Conns : pc[t] = "unreg_body" => tus[ext[t]] = t

\* The thread whose TU has taken the exit semaphore of its extension.
HoldsExit(t) == pc[t] \notin {"out", "reg_pbx", "reg_exit", "refused", "gone"}

\* pbx_shutdown has taken the exit semaphore of extension e.
ShutdownHolds(e) == \/ mainPc = "wait" /\ e < mainI
                    \/ mainPc \in {"free", "exit", "exited"}

(***************************************************************************)
(* An exit semaphore is down exactly while one TU has its extension or     *)
(* pbx_shutdown has taken it: so a reused extension never has two TUs that *)
(* are not yet freed, and pbx_shutdown frees the PBX only after every TU   *)
(* whose registration was completed has been freed.                        *)
(***************************************************************************)
ExitSemaphores ==
    \A e \in Exts :
       LET holders == {t \in Conns : HoldsExit(t) /\ ext[t] = e}
       IN /\ \A t, u \in holders : t = u
          /\ exitSem[e] = IF holders = {} /\ ~ShutdownHolds(e) THEN 1 ELSE 0
          /\ ShutdownHolds(e) => holders = {}

(***************************************************************************)
(* A client is refused only while all extensions are taken, although the   *)
(* search starts from a pointer that registrations and departures move     *)
(* independently of the extensions that are free.                          *)
(***************************************************************************)
RefusedOnlyWhenFull ==
    [][\A t \in Conns :
          pc[t] = "reg_pbx" /\ pc'[t] = "refused"
             => Cardinality({c \in Conns : Registered(c)}) = PBX_MAX_EXTENSIONS]_vars

-----------------------------------------------------------------------------
(* Calls *)

Complement(s) == CASE s = "RINGING"   -> "RING BACK"
                   [] s = "RING BACK" -> "RINGING"
                   [] OTHER           -> s

(***************************************************************************)
(* Calls are two-sided at every moment, even between the steps of the      *)
(* operations: a TU has a buddy exactly while it is in a call, the buddy   *)
(* is registered and has it as its own buddy, and their states match.      *)
(***************************************************************************)
CallsPaired ==
    \A t \in Conns :
       Registered(t) =>
          /\ state[t] \in InCall <=> buddy[t] # NULL
          /\ buddy[t] # NULL =>
                LET b == buddy[t]
                IN /\ b # t
                   /\ Registered(b)
                   /\ buddy[b] = t
                   /\ state[b] = Complement(state[t])

(***************************************************************************)
(* No operation on a TU follows a buddy pointer that is NULL or whose TU   *)
(* has been freed.                                                         *)
(***************************************************************************)
NoDanglingBuddy == fault \notin {"null TU", "freed TU"}

(***************************************************************************)
(* What a client was last told is the state its TU is in, until shutdown   *)
(* begins and pbx_unregister stops telling the other party.                *)
(***************************************************************************)
ClientsKnowTheirState ==
    \A t \in Conns :
       Registered(t) /\ pc[t] # "reg_exit" /\ ~exiting => heard[t] = state[t]

(***************************************************************************)
(* A chat reaches a client only from the other end of its established      *)
(* call, and after both have been told that they are connected.            *)
(***************************************************************************)
ChatOnlyToPeer ==
    \A t \in Conns :
       pc[t] = "chat_body" =>
          LET b == buddy[t]
          IN /\ Registered(b) /\ buddy[b] = t
             /\ state[b] = "CONNECTED"
             /\ heard[b] = "CONNECTED" /\ heard[t] = "CONNECTED"

-----------------------------------------------------------------------------
(* Deadlock *)

\* The thread that must act before t can go on: the holder of the mutex t
\* waits for, or the thread that still has to release the extension t got.
Blocker(t) ==
    CASE pc[t] \in {"pick_own", "hang_own", "dial_own", "chat_own", "unreg_own"}
           -> tuMutex[t]
      [] pc[t] \in {"pick_buddy", "hang_buddy", "chat_buddy", "unreg_buddy"}
           -> IF buddy[t] = NULL THEN NULL ELSE tuMutex[buddy[t]]
      [] pc[t] = "dial_check"
           -> IF state[t] = "DIAL TONE" /\ tus[dialed[t]] \notin {NULL, t}
              THEN tuMutex[tus[dialed[t]]] ELSE NULL
      [] pc[t] \in {"reg_pbx", "unreg_pbx", "dial_pbx"} -> pbxMutex
      [] OTHER -> NULL

\* Sets of threads that wait for each other and for nobody else.
CircularWaits == {S \in SUBSET Conns : S # {} /\ \A t \in S : Blocker(t) \in S}

(***************************************************************************)
(* The exchange never locks up: no threads wait for each other in a circle *)
(* (README.md of HW5 asks for synchronization that makes its operation     *)
(* correct and reliable).                                                  *)
(***************************************************************************)
NoCircularWait == CircularWaits = {}

(***************************************************************************)
(* Threads can only lock each other up in two ways: the two ends of a call *)
(* act at once, each holding its own TU; or one of them is dialing.  No    *)
(* other mix of registering, unregistering, picking up, hanging up and     *)
(* chatting does it, and no thread waits for a mutex it holds itself.      *)
(***************************************************************************)
LockUpsAreDialersOrPeers ==
    \A S \in CircularWaits :
       \/ \E t, u \in S : t # u /\ pc[t] \in {"dial_pbx", "dial_check"}
       \/ \E t, u \in S :
             /\ buddy[t] = u /\ buddy[u] = t
             /\ \A v \in {t, u} :
                   pc[v] \in {"pick_buddy", "hang_buddy", "chat_buddy", "unreg_buddy"}

(***************************************************************************)
(* Dialing does not end a call: of a TU that is ringing, ringing another   *)
(* one or connected, a dial message "does not cause any transition"        *)
(* (README.md of HW5).                                                     *)
(***************************************************************************)
DialKeepsCall ==
    [][\A t \in Conns :
          pc[t] = "dial_check" /\ state[t] \in InCall => state'[t] = state[t]]_vars

(***************************************************************************)
(* PBX implements the exchange: what its critical sections do, in whatever *)
(* order its threads get the mutexes, are the indivisible operations of    *)
(* Exchange, and all its other steps change nothing a caller can see.      *)
(***************************************************************************)
Abstract == INSTANCE Exchange WITH
    Phones <- Conns,
    Numbers <- Exts,
    state <- [t \in Conns |-> IF Registered(t) THEN state[t] ELSE "ON HOOK"],
    peer <- [t \in Conns |-> IF Registered(t) THEN buddy[t] ELSE NULL],
    number <- [t \in Conns |-> IF Registered(t) THEN ext[t] ELSE NULL]

ImplementsExchange == Abstract!Spec

=============================================================================
