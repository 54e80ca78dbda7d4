-------------------------------- MODULE PBX --------------------------------
(***************************************************************************)
(* The PBX module of HW5 (src/pbx.c): the registry of telephone units, the *)
(* operations server threads call on it, and its shutdown by the main      *)
(* thread.  A TU lives as long as the connection it serves and has one     *)
(* server thread, so one element of Conns names the connection, its thread *)
(* and its TU.                                                             *)
(*                                                                         *)
(* A step of a thread is one semaphore wait P(), or the code between the   *)
(* last P() and the end of the critical section with the V()s in it.  The  *)
(* reads and writes that no semaphore guards are steps of their own.       *)
(*                                                                         *)
(* A definition whose name ends in Mutant is not part of the model: it is  *)
(* a mistake the code could have made in the definition it stands before,  *)
(* used to see that the properties would notice.                           *)
(***************************************************************************)
EXTENDS Naturals, FiniteSets

CONSTANTS Conns,              \* connections (and their threads and TUs)
          PBX_MAX_EXTENSIONS, \* extensions are 0 .. PBX_MAX_EXTENSIONS - 1
          NULL,               \* the null pointer
          Disciplined,        \* clients dial only when they hear a dial tone
          MayShutdown         \* SIGHUP may arrive

ASSUME ConstantsAssumption ==
          /\ PBX_MAX_EXTENSIONS \in Nat \ {0}
          /\ NULL \notin Conns
          /\ NULL \notin Nat
          /\ Disciplined \in BOOLEAN
          /\ MayShutdown \in BOOLEAN

Exts == 0 .. PBX_MAX_EXTENSIONS - 1

TU_STATE == {"ON HOOK", "RINGING", "DIAL TONE", "RING BACK",
             "BUSY SIGNAL", "CONNECTED", "ERROR"}

\* States in which a TU has another TU at the end of its line.
InCall == {"CONNECTED", "RINGING", "RING BACK"}

\* What becomes of the other one when a TU in state s leaves the call.
PeerAfterMutant(s) == "ON HOOK"
PeerAfter(s) == IF s = "RING BACK" THEN "ON HOOK" ELSE "DIAL TONE"

VARIABLES
    \* struct tu, by connection
    state,      \* current_state
    buddy,      \* buddy
    ext,        \* ext
    tuMutex,    \* mutex: the thread that holds it, or NULL
    mem,        \* the struct itself: "none", "live" or "freed"
    \* struct pbx
    tus,        \* tus[]: the TU registered at an extension, or NULL
    tup,        \* where the search for a free extension starts
    exiting,    \* set once by pbx_shutdown
    pbxMutex,   \* mutex: the thread that holds it, or NULL
    exitSem,    \* exit_sems[]: the count of each
    pbxMem,     \* the struct itself: "live" or "freed"
    \* server threads and the main thread
    pc,         \* where each server thread is
    dialed,     \* the extension a thread was asked to dial
    mainPc,     \* where the main thread is in pbx_shutdown
    mainI,      \* its loop index
    mainTu,     \* its local variable tu
    \* the clients' side of the connections
    heard,      \* the last state notification each client was sent
    open,       \* FALSE once pbx_shutdown has shut the connection down
    fault       \* the first access to memory that is not there, or "none"

tuVars == <<state, buddy, ext, tuMutex, mem>>
pbxVars == <<tus, tup, exiting, pbxMutex, exitSem, pbxMem>>
mainVars == <<mainPc, mainI, mainTu>>
lineVars == <<heard, open>>
vars == <<tuVars, pbxVars, pc, dialed, mainVars, lineVars, fault>>

-----------------------------------------------------------------------------
(* pbx_init *)

Init ==
    /\ state = [c \in Conns |-> "ON HOOK"] /\ buddy = [c \in Conns |-> NULL]
    /\ ext = [c \in Conns |-> 0] /\ tuMutex = [c \in Conns |-> NULL]
    /\ mem = [c \in Conns |-> "none"]
    /\ tus = [e \in Exts |-> NULL] /\ tup = 0 /\ exiting = FALSE
    /\ pbxMutex = NULL /\ exitSem = [e \in Exts |-> 1] /\ pbxMem = "live"
    /\ pc = [c \in Conns |-> "out"] /\ dialed = [c \in Conns |-> 0]
    /\ mainPc = "serving" /\ mainI = 0 /\ mainTu = NULL
    /\ heard = [c \in Conns |-> "nothing"] /\ open = [c \in Conns |-> TRUE]
    /\ fault = "none"

-----------------------------------------------------------------------------
(* Helpers *)

Live(b) == b \in Conns /\ mem[b] = "live"

\* The process stops at exit(), and the model at the first bad access.
Running == fault = "none" /\ mainPc # "exited"

\* A step of server thread t.
Goto(t, from, to) ==
    /\ Running
    /\ pc[t] = from
    /\ pc' = [pc EXCEPT ![t] = to]
    /\ UNCHANGED <<mainVars, fault>>

\* A step of the main thread.
Main(from, to) ==
    /\ Running
    /\ mainPc = from
    /\ mainPc' = to
    /\ UNCHANGED <<tuVars, pc, dialed, heard, fault>>

\* buddy = NULL for every TU in S.
UnlinkMutant(S) == UNCHANGED buddy
Unlink(S) == buddy' = [c \in Conns |-> IF c \in S THEN NULL ELSE buddy[c]]

\* send_notification(s): the state names among what clients are sent.
NotifyMutant(S, s) == UNCHANGED heard
Notify(S, s) == heard' = [c \in Conns |-> IF c \in S THEN s ELSE heard[c]]

\* V() on the mutex of every TU in S.
UnlockMutant(S) == UNCHANGED tuMutex
Unlock(S) == tuMutex' = [c \in Conns |-> IF c \in S THEN NULL ELSE tuMutex[c]]

\* P() and V() on the exit semaphore of extension e.
PExitMutant(e) == UNCHANGED exitSem
PExit(e) == exitSem[e] > 0 /\ exitSem' = [exitSem EXCEPT ![e] = @ - 1]

VExitMutant(e) == UNCHANGED exitSem
VExit(e) == exitSem' = [exitSem EXCEPT ![e] = @ + 1]

\* P() on the thread's own TU, then on the buddy's if there is one.
LockOwn(t, from, withBuddy, alone) ==
    /\ Goto(t, from, IF buddy[t] # NULL THEN withBuddy ELSE alone)
    /\ tuMutex[t] = NULL
    /\ tuMutex' = [tuMutex EXCEPT ![t] = t]
    /\ UNCHANGED <<state, buddy, ext, mem, pbxVars, dialed, lineVars>>

LockBuddy(t, from, to) ==
    /\ Goto(t, from, to)
    /\ Live(buddy[t])
    /\ tuMutex[buddy[t]] = NULL
    /\ tuMutex' = [tuMutex EXCEPT ![buddy[t]] = t]
    /\ UNCHANGED <<state, buddy, ext, mem, pbxVars, dialed, lineVars>>

LockPbx(t, from, to) ==
    /\ Goto(t, from, to)
    /\ pbxMem = "live"
    /\ pbxMutex = NULL
    /\ pbxMutex' = t
    /\ UNCHANGED <<tuVars, tus, tup, exiting, exitSem, pbxMem, dialed, lineVars>>

-----------------------------------------------------------------------------
(* The calls a server thread makes: the first wait of each operation       *)

Call(t, from, to) ==
    /\ Goto(t, from, to)
    /\ UNCHANGED <<tuVars, pbxVars, dialed, lineVars>>

CallRegister(t) == mainPc = "serving" /\ Call(t, "out", "reg_pbx")
CallUnregister(t) == Call(t, "idle", "unreg_pbx")
CallPickup(t) == Call(t, "idle", "pick_own")
CallHangup(t) == Call(t, "idle", "hang_own")
CallChat(t) == Call(t, "idle", "chat_own")

CallDial(t, e) ==
    /\ Disciplined => heard[t] = "DIAL TONE"
    /\ Goto(t, "idle", "dial_own")
    /\ dialed' = [dialed EXCEPT ![t] = e]
    /\ UNCHANGED <<tuVars, pbxVars, lineVars>>

-----------------------------------------------------------------------------
(* pbx_register *)

\* The search that gives up one extension early, and the one without a test.
SearchMutant(n) ==
    \E k \in 0 .. PBX_MAX_EXTENSIONS - 2 :
       /\ n = (tup + k) % PBX_MAX_EXTENSIONS
       /\ tus[n] = NULL
       /\ \A j \in Exts : j < k => tus[(tup + j) % PBX_MAX_EXTENSIONS] # NULL
TakeMutant(n) == n = tup

\* The order in which the search from tup visits the extensions.
get_next_available_extension(n) ==
    \E k \in 0 .. PBX_MAX_EXTENSIONS - 1 :
       /\ n = (tup + k) % PBX_MAX_EXTENSIONS
       /\ tus[n] = NULL
       /\ \A j \in 0 .. PBX_MAX_EXTENSIONS - 1 :
             j < k => tus[(tup + j) % PBX_MAX_EXTENSIONS] # NULL

RegisterRefused(t) ==
    /\ Goto(t, "reg_pbx", "refused")
    /\ pbxMem = "live"
    /\ pbxMutex = NULL
    /\ ~ \E n \in Exts : get_next_available_extension(n)
    /\ UNCHANGED <<tuVars, pbxVars, dialed, lineVars>>

RegisterSetup(t) ==
    /\ Goto(t, "reg_pbx", "reg_exit")
    /\ pbxMem = "live"
    /\ pbxMutex = NULL
    /\ pbxMutex' = t
    /\ \E n \in Exts :
          /\ get_next_available_extension(n)
          /\ ext' = [ext EXCEPT ![t] = n]
          /\ tus' = [tus EXCEPT ![n] = t]
    /\ mem' = [mem EXCEPT ![t] = "live"]
    /\ state' = [state EXCEPT ![t] = "ON HOOK"]
    /\ buddy' = [buddy EXCEPT ![t] = NULL]
    /\ tuMutex' = [tuMutex EXCEPT ![t] = NULL]
    /\ tup' = (tup + 1) % PBX_MAX_EXTENSIONS
    /\ UNCHANGED <<exiting, exitSem, pbxMem, dialed, lineVars>>

RegisterFinish(t) ==
    /\ Goto(t, "reg_exit", "idle")
    /\ pbxMem = "live"
    /\ PExit(ext[t])
    /\ Notify({t}, state[t])
    /\ pbxMutex' = NULL
    /\ UNCHANGED <<tuVars, tus, tup, exiting, pbxMem, dialed, open>>

-----------------------------------------------------------------------------
(* pbx_unregister *)

UnregisterLockPbx(t) == LockPbx(t, "unreg_pbx", "unreg_own")
UnregisterLockOwn(t) == LockOwn(t, "unreg_own", "unreg_buddy", "unreg_body")
UnregisterLockBuddy(t) == LockBuddy(t, "unreg_buddy", "unreg_body")

\* The branch for tus[ext] # tu is left out: no registered TU takes it
\* (RegistryOK says so of every thread that gets here).
UnregisterBody(t) ==
    /\ Goto(t, "unreg_body", "unreg_free")
    /\ \/ /\ state[t] \in InCall
          /\ Live(buddy[t])
          /\ state' = [state EXCEPT ![buddy[t]] = PeerAfter(state[t])]
          /\ IF exiting THEN UNCHANGED heard
             ELSE Notify({buddy[t]}, PeerAfter(state[t]))
          /\ Unlink({buddy[t]})
       \/ /\ state[t] \notin InCall
          /\ UNCHANGED <<state, buddy, heard>>
    /\ tus' = [tus EXCEPT ![ext[t]] = NULL]
    /\ Unlock({buddy[t]})
    /\ pbxMutex' = NULL
    /\ UNCHANGED <<ext, mem, tup, exiting, exitSem, pbxMem, dialed, open>>

\* A freed TU has no contents: whoever reads them ends the model (fault).
UnregisterFree(t) ==
    /\ Goto(t, "unreg_free", "unreg_post")
    /\ mem' = [mem EXCEPT ![t] = "freed"]
    /\ state' = [state EXCEPT ![t] = "ON HOOK"]
    /\ buddy' = [buddy EXCEPT ![t] = NULL]
    /\ heard' = [heard EXCEPT ![t] = "nothing"]
    /\ UNCHANGED <<ext, tuMutex, pbxVars, dialed, open>>

UnregisterPost(t) ==
    /\ Goto(t, "unreg_post", "gone")
    /\ pbxMem = "live"
    /\ VExit(ext[t])
    /\ ext' = [ext EXCEPT ![t] = 0]
    /\ UNCHANGED <<state, buddy, tuMutex, mem, tus, tup, exiting, pbxMutex, pbxMem,
                   dialed, lineVars>>

-----------------------------------------------------------------------------
(* tu_pickup *)

PickupLockOwn(t) == LockOwn(t, "pick_own", "pick_buddy", "pick_body")
PickupLockBuddy(t) == LockBuddy(t, "pick_buddy", "pick_body")

PickupBody(t) ==
    /\ Goto(t, "pick_body", "idle")
    /\ \/ /\ state[t] = "ON HOOK"
          /\ state' = [state EXCEPT ![t] = "DIAL TONE"]
          /\ Notify({t}, "DIAL TONE")
       \/ /\ state[t] = "RINGING"
          /\ Live(buddy[t])
          /\ state' = [state EXCEPT ![t] = "CONNECTED", ![buddy[t]] = "CONNECTED"]
          /\ Notify({t, buddy[t]}, "CONNECTED")
       \/ /\ state[t] \notin {"ON HOOK", "RINGING"}
          /\ Notify({t}, state[t])
          /\ UNCHANGED state
    /\ Unlock({t, buddy[t]})
    /\ UNCHANGED <<buddy, ext, mem, pbxVars, dialed, open>>

-----------------------------------------------------------------------------
(* tu_hangup *)

HangupLockOwn(t) == LockOwn(t, "hang_own", "hang_buddy", "hang_body")
HangupLockBuddy(t) == LockBuddy(t, "hang_buddy", "hang_body")

HangupBody(t) ==
    /\ Goto(t, "hang_body", "idle")
    /\ \/ /\ state[t] \in InCall
          /\ Live(buddy[t])
          /\ LET s == PeerAfter(state[t])
             IN /\ state' = [state EXCEPT ![t] = "ON HOOK", ![buddy[t]] = s]
                /\ heard' = [heard EXCEPT ![t] = "ON HOOK", ![buddy[t]] = s]
          /\ Unlink({t, buddy[t]})
       \/ /\ state[t] \notin InCall
          /\ state' = [state EXCEPT ![t] = "ON HOOK"]
          /\ Notify({t}, "ON HOOK")
          /\ UNCHANGED buddy
    /\ Unlock({t, buddy[t]})
    /\ UNCHANGED <<ext, mem, pbxVars, dialed, open>>

-----------------------------------------------------------------------------
(* tu_dial *)

DialLockOwn(t) == LockOwn(t, "dial_own", "dial_pbx", "dial_pbx")
DialLockPbx(t) == LockPbx(t, "dial_pbx", "dial_check")

\* The branches that end the call without locking another TU: on hook, no
\* such extension, one's own extension, any state but DIAL TONE.
DialNobody(t) ==
    /\ Goto(t, "dial_check", "idle")
    /\ \/ /\ state[t] # "ON HOOK" /\ tus[dialed[t]] = NULL
          /\ state' = [state EXCEPT ![t] = "ERROR"]
          /\ Notify({t}, "ERROR")
       \/ /\ state[t] = "DIAL TONE" /\ tus[dialed[t]] # NULL /\ dialed[t] = ext[t]
          /\ state' = [state EXCEPT ![t] = "BUSY SIGNAL"]
          /\ Notify({t}, "BUSY SIGNAL")
       \/ /\ \/ state[t] = "ON HOOK"
             \/ state[t] # "DIAL TONE" /\ tus[dialed[t]] # NULL
          /\ Notify({t}, state[t])
          /\ UNCHANGED state
    /\ Unlock({t})
    /\ pbxMutex' = NULL
    /\ dialed' = [dialed EXCEPT ![t] = 0]
    /\ UNCHANGED <<buddy, ext, mem, tus, tup, exiting, exitSem, pbxMem, open>>

DialLockTargetMutant(t) ==
    /\ Goto(t, "dial_check", "dial_body")
    /\ state[t] = "DIAL TONE"
    /\ tus[dialed[t]] # NULL
    /\ dialed[t] # ext[t]
    /\ UNCHANGED <<tuVars, pbxVars, dialed, lineVars>>
DialLockTarget(t) ==
    LET target == tus[dialed[t]]
    IN /\ Goto(t, "dial_check", "dial_body")
       /\ state[t] = "DIAL TONE"
       /\ target # NULL
       /\ dialed[t] # ext[t]
       /\ Live(target)
       /\ tuMutex[target] = NULL
       /\ tuMutex' = [tuMutex EXCEPT ![target] = t]
       /\ UNCHANGED <<state, buddy, ext, mem, pbxVars, dialed, lineVars>>

DialBody(t) ==
    LET target == tus[dialed[t]]
    IN /\ Goto(t, "dial_body", "idle")
       /\ \/ /\ state[target] = "ON HOOK"
             /\ state' = [state EXCEPT ![t] = "RING BACK", ![target] = "RINGING"]
             /\ buddy' = [buddy EXCEPT ![t] = target, ![target] = t]
             /\ heard' = [heard EXCEPT ![t] = "RING BACK", ![target] = "RINGING"]
          \/ /\ state[target] # "ON HOOK"
             /\ state' = [state EXCEPT ![t] = "BUSY SIGNAL"]
             /\ Notify({t}, "BUSY SIGNAL")
             /\ UNCHANGED buddy
       /\ Unlock({t, target})
       /\ pbxMutex' = NULL
       /\ dialed' = [dialed EXCEPT ![t] = 0]
       /\ UNCHANGED <<ext, mem, tus, tup, exiting, exitSem, pbxMem, open>>

-----------------------------------------------------------------------------
(* tu_chat *)

ChatLockOwnMutant(t) == LockOwn(t, "chat_own", "chat_buddy", "idle")
ChatLockOwn(t) ==
    /\ Goto(t, "chat_own", "chat_buddy")
    /\ tuMutex[t] = NULL
    /\ state[t] = "CONNECTED"
    /\ tuMutex' = [tuMutex EXCEPT ![t] = t]
    /\ UNCHANGED <<state, buddy, ext, mem, pbxVars, dialed, lineVars>>

ChatNobody(t) ==
    /\ Goto(t, "chat_own", "idle")
    /\ tuMutex[t] = NULL
    /\ state[t] # "CONNECTED"
    /\ Notify({t}, state[t])
    /\ UNCHANGED <<tuVars, pbxVars, dialed, open>>

ChatLockBuddy(t) == LockBuddy(t, "chat_buddy", "chat_body")

ChatBody(t) ==
    /\ Goto(t, "chat_body", "idle")
    /\ Notify({t}, state[t])
    /\ Unlock({t, buddy[t]})
    /\ UNCHANGED <<state, buddy, ext, mem, pbxVars, dialed, open>>

-----------------------------------------------------------------------------
(* pbx_shutdown, run by the handler of SIGHUP *)

Sighup ==
    /\ MayShutdown
    /\ Main("serving", "lock")
    /\ UNCHANGED <<pbxVars, mainI, mainTu, open>>

ShutdownBegin ==
    /\ Main("lock", "check")
    /\ pbxMutex = NULL
    /\ exiting' = TRUE
    /\ UNCHANGED <<tus, tup, pbxMutex, exitSem, pbxMem, mainI, mainTu, open>>

\* The end of one turn of a loop over the extensions, and of the last turn.
TurnMutant(from, again, after) ==
    /\ Main(from, IF mainI = PBX_MAX_EXTENSIONS THEN after ELSE again)
    /\ mainI' = mainI + 1
Turn(from, again, after) ==
    /\ Main(from, IF mainI = PBX_MAX_EXTENSIONS - 1 THEN after ELSE again)
    /\ mainI' = (mainI + 1) % PBX_MAX_EXTENSIONS

\* The first look at tus[i], under the mutex.
ShutdownSkip ==
    /\ Turn("check", "check", "wait")
    /\ pbxMutex = NULL
    /\ tus[mainI] = NULL
    /\ UNCHANGED <<pbxVars, mainTu, open>>

ShutdownFound ==
    /\ Main("check", "read")
    /\ pbxMutex = NULL
    /\ tus[mainI] # NULL
    /\ UNCHANGED <<pbxVars, mainI, mainTu, open>>

\* The second, after the mutex is released.
ShutdownRead ==
    /\ Main("read", "shut")
    /\ mainTu' = tus[mainI]
    /\ UNCHANGED <<pbxVars, mainI, open>>

ShutdownConnection ==
    /\ Turn("shut", "check", "wait")
    /\ Live(mainTu)
    /\ open' = [open EXCEPT ![mainTu] = FALSE]
    /\ mainTu' = NULL
    /\ UNCHANGED pbxVars

ShutdownWait ==
    /\ Turn("wait", "wait", "free")
    /\ PExit(mainI)
    /\ UNCHANGED <<tus, tup, exiting, pbxMutex, pbxMem, mainTu, open>>

ShutdownFree ==
    /\ Main("free", "exit")
    /\ pbxMem' = "freed"
    /\ UNCHANGED <<tus, tup, exiting, pbxMutex, exitSem, mainI, mainTu, open>>

\* exit() ends every thread of the process.
Exit ==
    /\ Main("exit", "exited")
    /\ UNCHANGED <<pbxVars, mainI, mainTu, open>>

-----------------------------------------------------------------------------
(* Accesses to memory that is not there.  What the program does after one  *)
(* is undefined: the model stops.                                          *)

\* The thread's next step dereferences the buddy of its TU.
UsesBuddy(t) ==
    \/ pc[t] \in {"pick_buddy", "hang_buddy", "chat_buddy", "unreg_buddy"}
    \/ pc[t] = "pick_body" /\ state[t] = "RINGING"
    \/ pc[t] \in {"hang_body", "unreg_body"} /\ state[t] \in InCall

\* The thread's next step dereferences the PBX.
UsesPbx(t) ==
    pc[t] \in {"reg_pbx", "reg_exit", "dial_pbx", "dial_check", "dial_body",
               "unreg_pbx", "unreg_own", "unreg_buddy", "unreg_body", "unreg_post"}

ThreadFault(t) ==
    /\ Running
    /\ \/ /\ UsesBuddy(t) /\ ~Live(buddy[t])
          /\ fault' = IF buddy[t] = NULL THEN "null TU" ELSE "freed TU"
       \/ /\ UsesPbx(t) /\ pbxMem = "freed"
          /\ fault' = "freed PBX"
    /\ UNCHANGED <<tuVars, pbxVars, pc, dialed, mainVars, lineVars>>

ShutdownFault ==
    /\ Running
    /\ mainPc = "shut"
    /\ ~Live(mainTu)
    /\ fault' = "bad shutdown"
    /\ UNCHANGED <<tuVars, pbxVars, pc, dialed, mainVars, lineVars>>

-----------------------------------------------------------------------------

\* The steps of a call.
Step(t) ==
    \/ RegisterRefused(t) \/ RegisterSetup(t) \/ RegisterFinish(t)
    \/ UnregisterLockPbx(t) \/ UnregisterLockOwn(t) \/ UnregisterLockBuddy(t)
    \/ UnregisterBody(t) \/ UnregisterFree(t) \/ UnregisterPost(t)
    \/ PickupLockOwn(t) \/ PickupLockBuddy(t) \/ PickupBody(t)
    \/ HangupLockOwn(t) \/ HangupLockBuddy(t) \/ HangupBody(t)
    \/ DialLockOwn(t) \/ DialLockPbx(t) \/ DialNobody(t)
    \/ DialLockTarget(t) \/ DialBody(t)
    \/ ChatLockOwn(t) \/ ChatNobody(t) \/ ChatLockBuddy(t) \/ ChatBody(t)

MainStep ==
    \/ Sighup \/ ShutdownBegin \/ ShutdownSkip \/ ShutdownFound \/ ShutdownRead
    \/ ShutdownConnection \/ ShutdownWait \/ ShutdownFree \/ Exit

Calls(t) == \/ CallRegister(t) \/ CallUnregister(t)
            \/ CallPickup(t) \/ CallHangup(t) \/ CallChat(t)
            \/ \E e \in Exts : CallDial(t, e)

Next ==
    \/ \E t \in Conns : Calls(t) \/ Step(t) \/ ThreadFault(t)
    \/ MainStep \/ ShutdownFault

Spec == Init /\ [][Next]_vars

=============================================================================
