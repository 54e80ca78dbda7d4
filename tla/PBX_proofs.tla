----------------------------- MODULE PBX_proofs -----------------------------
(***************************************************************************)
(* Proofs about PBX for every set of connections and every number of       *)
(* extensions, whatever clients send and whenever SIGHUP comes: its types, *)
(* the registry and the exit semaphores.                                   *)
(***************************************************************************)
EXTENDS PBXProperties, TLAPS, FiniteSetTheorems, WellFoundedInduction

USE ConstantsAssumption

-----------------------------------------------------------------------------
(* Types *)

LEMMA NextExt == \A e \in Exts : (e + 1) % PBX_MAX_EXTENSIONS \in Exts
  BY DEF Exts

LEMMA ZeroExt == 0 \in Exts
  BY DEF Exts

LEMMA PeerAfterType == \A s : PeerAfter(s) \in TU_STATE
  BY DEF PeerAfter, TU_STATE

LEMMA NotifyType ==
  ASSUME TypeOK, NEW S, NEW s \in TU_STATE, Notify(S, s)
  PROVE  heard' \in [Conns -> TU_STATE \cup {"nothing"}]
  BY DEF Notify, TypeOK

LEMMA UnlinkType ==
  ASSUME TypeOK, NEW S, Unlink(S)
  PROVE  buddy' \in [Conns -> Conns \cup {NULL}]
  BY DEF Unlink, TypeOK

LEMMA UnlockType ==
  ASSUME TypeOK, NEW S, Unlock(S)
  PROVE  tuMutex' \in [Conns -> Conns \cup {NULL}]
  BY DEF Unlock, TypeOK

LEMMA PExitType ==
  ASSUME TypeOK, NEW e \in Exts, PExit(e)
  PROVE  exitSem' \in [Exts -> Nat]
  <1>1. exitSem[e] \in Nat /\ exitSem[e] > 0
    BY DEF TypeOK, PExit
  <1>2. exitSem[e] - 1 \in Nat
    BY <1>1
  <1>3. exitSem' = [exitSem EXCEPT ![e] = exitSem[e] - 1]
    BY DEF PExit
  <1> QED
    BY <1>2, <1>3 DEF TypeOK

LEMMA VExitType ==
  ASSUME TypeOK, NEW e \in Exts, VExit(e)
  PROVE  exitSem' \in [Exts -> Nat]
  <1>1. exitSem[e] + 1 \in Nat
    BY DEF TypeOK
  <1>2. exitSem' = [exitSem EXCEPT ![e] = exitSem[e] + 1]
    BY DEF VExit
  <1> QED
    BY <1>1, <1>2 DEF TypeOK

LEMMA SetStates ==
  ASSUME TypeOK, NEW t \in Conns, NEW b \in Conns, NEW r \in TU_STATE, NEW s \in TU_STATE
  PROVE  /\ [state EXCEPT ![t] = r] \in [Conns -> TU_STATE]
         /\ [state EXCEPT ![t] = r, ![b] = s] \in [Conns -> TU_STATE]
         /\ [heard EXCEPT ![t] = r, ![b] = s] \in [Conns -> TU_STATE \cup {"nothing"}]
  BY DEF TypeOK

LEMMA UnregisterBodyType ==
  ASSUME TypeOK, NEW t \in Conns, UnregisterBody(t) PROVE TypeOK'
  <1>1. pc' \in [Conns -> ThreadPc] /\ UNCHANGED <<mainVars, fault>>
    BY DEF UnregisterBody, Goto, TypeOK, ThreadPc
  <1>2. tus' \in [Exts -> Conns \cup {NULL}] /\ pbxMutex' = NULL
    BY DEF UnregisterBody, TypeOK
  <1>3. tuMutex' \in [Conns -> Conns \cup {NULL}]
    BY UnlockType DEF UnregisterBody
  <1>4. /\ state' \in [Conns -> TU_STATE]
        /\ buddy' \in [Conns -> Conns \cup {NULL}]
        /\ heard' \in [Conns -> TU_STATE \cup {"nothing"}]
    <2>1. CASE state[t] \in InCall
      <3>1. /\ buddy[t] \in Conns
            /\ state' = [state EXCEPT ![buddy[t]] = PeerAfter(state[t])]
            /\ UNCHANGED heard \/ Notify({buddy[t]}, PeerAfter(state[t]))
            /\ Unlink({buddy[t]})
        BY <2>1 DEF UnregisterBody, Live
      <3> QED
        BY <3>1, PeerAfterType, NotifyType, UnlinkType, SetStates DEF TypeOK
    <2>2. CASE state[t] \notin InCall
      BY <2>2 DEF UnregisterBody, TypeOK
    <2> QED
      BY <2>1, <2>2
  <1> QED
    BY <1>1, <1>2, <1>3, <1>4 DEF UnregisterBody, TypeOK, mainVars

LEMMA PickupBodyType ==
  ASSUME TypeOK, NEW t \in Conns, PickupBody(t) PROVE TypeOK'
  <1>1. pc' \in [Conns -> ThreadPc] /\ UNCHANGED <<mainVars, fault>>
    BY DEF PickupBody, Goto, TypeOK, ThreadPc
  <1>3. tuMutex' \in [Conns -> Conns \cup {NULL}]
    BY UnlockType DEF PickupBody
  <1>4. /\ state' \in [Conns -> TU_STATE]
        /\ heard' \in [Conns -> TU_STATE \cup {"nothing"}]
    <2>1. CASE /\ state' = [state EXCEPT ![t] = "DIAL TONE"]
               /\ Notify({t}, "DIAL TONE")
      BY <2>1, SetStates, NotifyType DEF TU_STATE
    <2>2. CASE /\ Live(buddy[t])
               /\ state' = [state EXCEPT ![t] = "CONNECTED", ![buddy[t]] = "CONNECTED"]
               /\ Notify({t, buddy[t]}, "CONNECTED")
      BY <2>2, SetStates, NotifyType DEF TU_STATE, Live
    <2>3. CASE Notify({t}, state[t]) /\ UNCHANGED state
      BY <2>3, NotifyType DEF TypeOK
    <2> QED
      BY <2>1, <2>2, <2>3 DEF PickupBody
  <1> QED
    BY <1>1, <1>3, <1>4 DEF PickupBody, TypeOK, pbxVars, mainVars

LEMMA HangupBodyType ==
  ASSUME TypeOK, NEW t \in Conns, HangupBody(t) PROVE TypeOK'
  <1>1. pc' \in [Conns -> ThreadPc] /\ UNCHANGED <<mainVars, fault>>
    BY DEF HangupBody, Goto, TypeOK, ThreadPc
  <1>3. tuMutex' \in [Conns -> Conns \cup {NULL}]
    BY UnlockType DEF HangupBody
  <1>4. /\ state' \in [Conns -> TU_STATE]
        /\ buddy' \in [Conns -> Conns \cup {NULL}]
        /\ heard' \in [Conns -> TU_STATE \cup {"nothing"}]
    <2>1. CASE state[t] \in InCall
      <3> DEFINE s == PeerAfter(state[t])
      <3>1. /\ buddy[t] \in Conns
            /\ state' = [state EXCEPT ![t] = "ON HOOK", ![buddy[t]] = s]
            /\ heard' = [heard EXCEPT ![t] = "ON HOOK", ![buddy[t]] = s]
            /\ Unlink({t, buddy[t]})
        BY <2>1 DEF HangupBody, Live
      <3>2. s \in TU_STATE /\ "ON HOOK" \in TU_STATE
        BY PeerAfterType DEF TU_STATE
      <3> HIDE DEF s
      <3> QED
        BY <3>1, <3>2, UnlinkType, SetStates
    <2>2. CASE state[t] \notin InCall
      <3>1. /\ state' = [state EXCEPT ![t] = "ON HOOK"]
            /\ Notify({t}, "ON HOOK")
            /\ UNCHANGED buddy
        BY <2>2 DEF HangupBody
      <3> QED
        BY <3>1, SetStates, NotifyType DEF TypeOK, TU_STATE
    <2> QED
      BY <2>1, <2>2
  <1> QED
    BY <1>1, <1>3, <1>4 DEF HangupBody, TypeOK, pbxVars, mainVars

LEMMA DialNobodyType ==
  ASSUME TypeOK, NEW t \in Conns, DialNobody(t) PROVE TypeOK'
  <1>1. /\ pc' \in [Conns -> ThreadPc] /\ UNCHANGED <<mainVars, fault>>
        /\ dialed' \in [Conns -> Exts] /\ pbxMutex' = NULL
    <2>1. 0 \in Exts
      BY DEF Exts
    <2> QED
      BY <2>1 DEF DialNobody, Goto, TypeOK, ThreadPc
  <1>3. tuMutex' \in [Conns -> Conns \cup {NULL}]
    BY UnlockType DEF DialNobody
  <1>4. \E s \in TU_STATE :
           Notify({t}, s) /\ (UNCHANGED state \/ state' = [state EXCEPT ![t] = s])
    <2>1. {"ERROR", "BUSY SIGNAL", state[t]} \subseteq TU_STATE
      BY DEF TypeOK, TU_STATE
    <2> QED
      BY <2>1 DEF DialNobody
  <1>5. /\ state' \in [Conns -> TU_STATE]
        /\ heard' \in [Conns -> TU_STATE \cup {"nothing"}]
    BY <1>4, SetStates, NotifyType DEF TypeOK
  <1> QED
    BY <1>1, <1>3, <1>5 DEF DialNobody, TypeOK, mainVars

LEMMA DialBodyType ==
  ASSUME TypeOK, NEW t \in Conns, DialBody(t) PROVE TypeOK'
  <1>1. Goto(t, "dial_body", "idle")
    BY DEF DialBody
  <1>1a. pbxMutex' = NULL
    BY DEF DialBody
  <1>2. dialed' = [dialed EXCEPT ![t] = 0]
    BY DEF DialBody
  <1>7. 0 \in Exts
    BY DEF Exts
  <1>5. pc' \in [Conns -> ThreadPc] /\ UNCHANGED <<mainVars, fault>>
    BY <1>1 DEF Goto, TypeOK, ThreadPc
  <1>6. dialed' \in [Conns -> Exts]
    BY <1>2, <1>7 DEF TypeOK
  <1>3. tuMutex' \in [Conns -> Conns \cup {NULL}]
    BY UnlockType DEF DialBody
  <1>4. /\ state' \in [Conns -> TU_STATE]
        /\ buddy' \in [Conns -> Conns \cup {NULL}]
        /\ heard' \in [Conns -> TU_STATE \cup {"nothing"}]
    <2> DEFINE target == tus[dialed[t]]
    <2>0. target \in Conns \cup {NULL}
      BY DEF TypeOK
    <2>1. CASE /\ state' = [state EXCEPT ![t] = "RING BACK", ![target] = "RINGING"]
               /\ buddy' = [buddy EXCEPT ![t] = target, ![target] = t]
               /\ heard' = [heard EXCEPT ![t] = "RING BACK", ![target] = "RINGING"]
      <3>1. CASE target \in Conns
        BY <2>1, <3>1 DEF TypeOK, TU_STATE
      <3>2. CASE target = NULL
        BY <2>1, <3>2 DEF TypeOK, TU_STATE
      <3> QED
        BY <2>0, <3>1, <3>2
    <2>2. CASE /\ state' = [state EXCEPT ![t] = "BUSY SIGNAL"]
               /\ Notify({t}, "BUSY SIGNAL")
               /\ UNCHANGED buddy
      BY <2>2, SetStates, NotifyType DEF TypeOK, TU_STATE
    <2> QED
      BY <2>1, <2>2 DEF DialBody
  <1> QED
    BY <1>1, <1>3, <1>4, <1>5, <1>6 DEF DialBody, TypeOK, mainVars

LEMMA LockOwnType ==
  ASSUME TypeOK, NEW t \in Conns, NEW from, NEW p \in ThreadPc, NEW q \in ThreadPc,
         LockOwn(t, from, p, q)
  PROVE  TypeOK'
  BY DEF LockOwn, Goto, TypeOK, pbxVars, lineVars, mainVars

LEMMA LockBuddyType ==
  ASSUME TypeOK, NEW t \in Conns, NEW from, NEW p \in ThreadPc, LockBuddy(t, from, p)
  PROVE  TypeOK'
  BY DEF LockBuddy, Live, Goto, TypeOK, pbxVars, lineVars, mainVars

LEMMA LockPbxType ==
  ASSUME TypeOK, NEW t \in Conns, NEW from, NEW p \in ThreadPc, LockPbx(t, from, p)
  PROVE  TypeOK'
  BY DEF LockPbx, Goto, TypeOK, tuVars, lineVars, mainVars

LEMMA CallsType == ASSUME TypeOK, NEW t \in Conns, Calls(t) PROVE TypeOK'
  <1>1. ASSUME NEW p \in ThreadPc, NEW from, Call(t, from, p) PROVE TypeOK'
    BY <1>1 DEF Call, Goto, TypeOK, tuVars, pbxVars, lineVars, mainVars
  <1>2. ASSUME NEW e \in Exts, CallDial(t, e) PROVE TypeOK'
    BY <1>2 DEF CallDial, Goto, TypeOK, ThreadPc, tuVars, pbxVars, lineVars, mainVars
  <1> QED
    BY <1>1, <1>2 DEF Calls, CallRegister, CallUnregister, CallPickup, CallHangup,
                      CallChat, ThreadPc

LEMMA StepType == ASSUME TypeOK, NEW t \in Conns, Step(t) PROVE TypeOK'
  <1>1. CASE RegisterRefused(t)
    BY <1>1 DEF RegisterRefused, Goto, TypeOK, ThreadPc, tuVars, pbxVars, lineVars, mainVars
  <1>2. CASE RegisterSetup(t)
    <2>1. tup' \in Exts
      BY <1>2, NextExt DEF RegisterSetup, TypeOK
    <2>2. "ON HOOK" \in TU_STATE /\ "reg_exit" \in ThreadPc
      BY DEF TU_STATE, ThreadPc
    <2>3. PICK n \in Exts : ext' = [ext EXCEPT ![t] = n] /\ tus' = [tus EXCEPT ![n] = t]
      BY <1>2 DEF RegisterSetup
    <2>6. ext' \in [Conns -> Exts] /\ tus' \in [Exts -> Conns \cup {NULL}]
      BY <2>3 DEF TypeOK
    <2>4. /\ state' \in [Conns -> TU_STATE]
          /\ buddy' \in [Conns -> Conns \cup {NULL}]
          /\ tuMutex' \in [Conns -> Conns \cup {NULL}]
          /\ mem' \in [Conns -> {"none", "live", "freed"}]
      BY <1>2, <2>2 DEF RegisterSetup, TypeOK
    <2>5. pc' \in [Conns -> ThreadPc] /\ UNCHANGED <<mainVars, fault>>
      BY <1>2, <2>2 DEF RegisterSetup, Goto, TypeOK
    <2> QED
      BY <1>2, <2>1, <2>6, <2>4, <2>5 DEF RegisterSetup, TypeOK, lineVars, mainVars
  <1>3. CASE RegisterFinish(t)
    <2>1. exitSem' \in [Exts -> Nat]
      BY <1>3, PExitType DEF RegisterFinish, TypeOK
    <2>2. heard' \in [Conns -> TU_STATE \cup {"nothing"}]
      BY <1>3, NotifyType DEF RegisterFinish, TypeOK
    <2>3. "idle" \in ThreadPc
      BY DEF ThreadPc
    <2> QED
      BY <1>3, <2>1, <2>2, <2>3 DEF RegisterFinish, Goto, TypeOK, tuVars, mainVars
  <1>4. CASE UnregisterFree(t)
    <2>1. "ON HOOK" \in TU_STATE /\ "unreg_post" \in ThreadPc
      BY DEF TU_STATE, ThreadPc
    <2> QED
      BY <1>4, <2>1 DEF UnregisterFree, Goto, TypeOK, pbxVars, mainVars
  <1>5. CASE UnregisterPost(t)
    <2>1. exitSem' \in [Exts -> Nat]
      BY <1>5, VExitType DEF UnregisterPost, TypeOK
    <2>2. "gone" \in ThreadPc
      BY DEF ThreadPc
    <2> QED
      BY <1>5, <2>1, <2>2, ZeroExt DEF UnregisterPost, Goto, TypeOK, lineVars, mainVars
  <1>6. CASE DialLockTarget(t)
    <2>1. "dial_body" \in ThreadPc
      BY DEF ThreadPc
    <2> QED
      BY <1>6, <2>1 DEF DialLockTarget, Live, Goto, TypeOK, pbxVars, lineVars, mainVars
  <1>7. CASE ChatLockOwn(t)
    <2>1. "chat_buddy" \in ThreadPc
      BY DEF ThreadPc
    <2> QED
      BY <1>7, <2>1 DEF ChatLockOwn, Goto, TypeOK, pbxVars, lineVars, mainVars
  <1>8. CASE ChatNobody(t)
    <2>1. "idle" \in ThreadPc
      BY DEF ThreadPc
    <2>2. heard' \in [Conns -> TU_STATE \cup {"nothing"}]
      BY <1>8, NotifyType DEF ChatNobody, TypeOK
    <2> QED
      BY <1>8, <2>1, <2>2 DEF ChatNobody, Goto, TypeOK, tuVars, pbxVars, mainVars
  <1>9. CASE ChatBody(t)
    <2>1. "idle" \in ThreadPc
      BY DEF ThreadPc
    <2>2. heard' \in [Conns -> TU_STATE \cup {"nothing"}]
      BY <1>9, NotifyType DEF ChatBody, TypeOK
    <2>3. tuMutex' \in [Conns -> Conns \cup {NULL}]
      BY <1>9, UnlockType DEF ChatBody
    <2> QED
      BY <1>9, <2>1, <2>2, <2>3 DEF ChatBody, Goto, TypeOK, pbxVars, mainVars
  <1>10. CASE UnregisterBody(t) \/ PickupBody(t) \/ HangupBody(t)
              \/ DialNobody(t) \/ DialBody(t)
    BY <1>10, UnregisterBodyType, PickupBodyType, HangupBodyType, DialNobodyType,
       DialBodyType
  <1>11. CASE \/ UnregisterLockPbx(t) \/ UnregisterLockOwn(t) \/ UnregisterLockBuddy(t)
              \/ PickupLockOwn(t) \/ PickupLockBuddy(t)
              \/ HangupLockOwn(t) \/ HangupLockBuddy(t)
              \/ DialLockOwn(t) \/ DialLockPbx(t) \/ ChatLockBuddy(t)
    BY <1>11, LockOwnType, LockBuddyType, LockPbxType
       DEF UnregisterLockPbx, UnregisterLockOwn, UnregisterLockBuddy, PickupLockOwn,
           PickupLockBuddy, HangupLockOwn, HangupLockBuddy, DialLockOwn, DialLockPbx,
           ChatLockBuddy, ThreadPc
  <1> QED
    BY <1>1, <1>2, <1>3, <1>4, <1>5, <1>6, <1>7, <1>8, <1>9, <1>10, <1>11 DEF Step

LEMMA MainType == ASSUME TypeOK, MainStep PROVE TypeOK'
  <1> USE NextExt DEF TypeOK, MainPc, Main, Turn, PExit, tuVars, pbxVars, mainVars, lineVars, Live
  <1>1. CASE Sighup
    BY <1>1 DEF Sighup
  <1>2. CASE ShutdownBegin
    BY <1>2 DEF ShutdownBegin
  <1>3. CASE ShutdownSkip
    BY <1>3 DEF ShutdownSkip
  <1>4. CASE ShutdownFound
    BY <1>4 DEF ShutdownFound
  <1>5. CASE ShutdownRead
    BY <1>5 DEF ShutdownRead
  <1>6. CASE ShutdownConnection
    BY <1>6 DEF ShutdownConnection
  <1>7. CASE ShutdownWait
    BY <1>7 DEF ShutdownWait
  <1>8. CASE ShutdownFree
    BY <1>8 DEF ShutdownFree
  <1>9. CASE Exit
    BY <1>9 DEF Exit
  <1> QED
    BY <1>1, <1>2, <1>3, <1>4, <1>5, <1>6, <1>7, <1>8, <1>9 DEF MainStep


LEMMA NextType == ASSUME TypeOK, [Next]_vars PROVE TypeOK'
  <1>1. CASE UNCHANGED vars
    BY <1>1 DEF vars, tuVars, pbxVars, mainVars, lineVars, TypeOK
  <1>2. ASSUME NEW t \in Conns, Calls(t) \/ Step(t) PROVE TypeOK'
    BY <1>2, CallsType, StepType
  <1>3. ASSUME NEW t \in Conns, ThreadFault(t) PROVE TypeOK'
    BY <1>3 DEF ThreadFault, Fault, TypeOK, tuVars, pbxVars, mainVars, lineVars
  <1>4. CASE ShutdownFault
    BY <1>4 DEF ShutdownFault, Fault, TypeOK, tuVars, pbxVars, mainVars, lineVars
  <1>5. CASE MainStep
    BY <1>5, MainType
  <1> QED
    BY <1>1, <1>2, <1>3, <1>4, <1>5 DEF Next

LEMMA InitType == Init => TypeOK
  <1> SUFFICES ASSUME Init PROVE TypeOK
    OBVIOUS
  <1>1. /\ "ON HOOK" \in TU_STATE /\ "out" \in ThreadPc
        /\ "serving" \in MainPc /\ "none" \in Fault
    BY DEF TU_STATE, ThreadPc, MainPc, Fault
  <1>2. 1 \in Nat
    OBVIOUS
  <1>3. exitSem \in [Exts -> Nat] /\ tus \in [Exts -> Conns \cup {NULL}]
    BY <1>2 DEF Init
  <1>4. /\ tup \in Exts /\ mainI \in Exts
        /\ ext \in [Conns -> Exts] /\ dialed \in [Conns -> Exts]
    BY ZeroExt DEF Init
  <1>5. /\ state \in [Conns -> TU_STATE]
        /\ heard \in [Conns -> TU_STATE \cup {"nothing"}]
        /\ pc \in [Conns -> ThreadPc]
        /\ mem \in [Conns -> {"none", "live", "freed"}]
        /\ open \in [Conns -> BOOLEAN]
    BY <1>1 DEF Init
  <1>6. /\ buddy \in [Conns -> Conns \cup {NULL}]
        /\ tuMutex \in [Conns -> Conns \cup {NULL}]
    BY DEF Init
  <1>7. /\ exiting \in BOOLEAN /\ pbxMutex = NULL /\ pbxMem = "live"
        /\ mainTu = NULL /\ mainPc \in MainPc /\ fault \in Fault
    BY <1>1 DEF Init
  <1> QED
    BY <1>3, <1>4, <1>5, <1>6, <1>7 DEF TypeOK

(***************************************************************************)
(* Every variable keeps its type: in particular every extension that       *)
(* pbx_register hands out or a loop of pbx_shutdown visits is in range,    *)
(* and no exit semaphore goes below zero.                                  *)
(***************************************************************************)
THEOREM TypeCorrect == Spec => []TypeOK
  BY InitType, NextType, PTL DEF Spec

-----------------------------------------------------------------------------
(* The registry *)

\* Where a thread is before its TU is allocated, and after it is freed.
NonePc == {"out", "reg_pbx", "refused"}
FreedPc == {"unreg_post", "gone"}

MemOK == \A t \in Conns : /\ mem[t] = "none" <=> pc[t] \in NonePc
                          /\ mem[t] = "freed" <=> pc[t] \in FreedPc

LEMMA RegistryKept ==
  ASSUME TypeOK, MemOK, RegistryOK, NEW t \in Conns, NEW q,
         pc' = [pc EXCEPT ![t] = q], UNCHANGED <<mem, tus, ext>>,
         \/ pc[t] \in NonePc /\ q \in NonePc
         \/ /\ pc[t] \notin NonePc \cup FreedPc \cup {"unreg_free"}
            /\ q \notin NonePc \cup FreedPc \cup {"unreg_free"}
  PROVE  MemOK' /\ RegistryOK'
  <1>1. MemOK'
    BY DEF MemOK, TypeOK, NonePc, FreedPc
  <1>2. \A c \in Conns : Registered(c)' = Registered(c)
    BY DEF Registered, TypeOK, MemOK, NonePc, FreedPc
  <1>3. \A e \in Exts, c \in Conns : (tus[e] = c)' <=> (Registered(c) /\ ext[c] = e)'
    BY <1>2 DEF RegistryOK
  <1>4. ASSUME NEW c \in Conns, pc'[c] = "unreg_body" PROVE (tus[ext[c]] = c)'
    <2>1. Registered(c)'
      BY <1>1, <1>4 DEF Registered, MemOK, TypeOK, NonePc, FreedPc
    <2>2. ext'[c] \in Exts
      BY DEF TypeOK
    <2> QED
      BY <1>3, <2>1, <2>2
  <1> QED
    BY <1>1, <1>3, <1>4 DEF RegistryOK

LEMMA RegistrySame ==
  ASSUME MemOK, RegistryOK, UNCHANGED <<pc, mem, tus, ext>>
  PROVE  MemOK' /\ RegistryOK'
  BY DEF MemOK, RegistryOK, Registered

LEMMA RegistryCalls ==
  ASSUME TypeOK, MemOK, RegistryOK, NEW t \in Conns, Calls(t)
  PROVE  MemOK' /\ RegistryOK'
  <1>1. CASE CallRegister(t)
    BY <1>1, RegistryKept DEF CallRegister, Call, Goto, tuVars, pbxVars, NonePc
  <1>2. CASE CallUnregister(t)
    BY <1>2, RegistryKept DEF CallUnregister, Call, Goto, tuVars, pbxVars, NonePc, FreedPc
  <1>3. CASE CallPickup(t)
    BY <1>3, RegistryKept DEF CallPickup, Call, Goto, tuVars, pbxVars, NonePc, FreedPc
  <1>4. CASE CallHangup(t)
    BY <1>4, RegistryKept DEF CallHangup, Call, Goto, tuVars, pbxVars, NonePc, FreedPc
  <1>5. CASE CallChat(t)
    BY <1>5, RegistryKept DEF CallChat, Call, Goto, tuVars, pbxVars, NonePc, FreedPc
  <1>6. ASSUME NEW e \in Exts, CallDial(t, e) PROVE MemOK' /\ RegistryOK'
    BY <1>6, RegistryKept DEF CallDial, Goto, tuVars, pbxVars, NonePc, FreedPc
  <1> QED
    BY <1>1, <1>2, <1>3, <1>4, <1>5, <1>6 DEF Calls
  
LEMMA RegistryStep ==
  ASSUME TypeOK, MemOK, RegistryOK, NEW t \in Conns, Step(t)
  PROVE  MemOK' /\ RegistryOK'
  <1>1. CASE RegisterRefused(t)
    BY <1>1, RegistryKept DEF RegisterRefused, Goto, tuVars, pbxVars, NonePc
  <1>2. CASE RegisterSetup(t)
    <2>1. PICK n \in Exts : /\ tus[n] = NULL
                            /\ ext' = [ext EXCEPT ![t] = n] /\ tus' = [tus EXCEPT ![n] = t]
      BY <1>2 DEF RegisterSetup, get_next_available_extension
    <2>2. /\ pc[t] = "reg_pbx" /\ pc' = [pc EXCEPT ![t] = "reg_exit"]
          /\ mem' = [mem EXCEPT ![t] = "live"]
      BY <1>2 DEF RegisterSetup, Goto
    <2>3. MemOK'
      BY <2>2 DEF MemOK, TypeOK, NonePc, FreedPc
    <2>4. /\ ~Registered(t) /\ Registered(t)'
          /\ \A c \in Conns \ {t} : Registered(c)' = Registered(c)
      BY <2>2 DEF Registered, MemOK, NonePc, TypeOK
    <2>5. ASSUME NEW e \in Exts, NEW c \in Conns
          PROVE  (tus[e] = c)' <=> (Registered(c) /\ ext[c] = e)'
      <3>1. tus[e] = c <=> Registered(c) /\ ext[c] = e
        BY DEF RegistryOK
      <3>2. CASE c = t
        BY <3>1, <3>2, <2>1, <2>4 DEF TypeOK
      <3>3. CASE c # t
        BY <3>1, <3>3, <2>1, <2>4 DEF TypeOK
      <3> QED
        BY <3>2, <3>3
    <2>6. ASSUME NEW c \in Conns, pc'[c] = "unreg_body" PROVE (tus[ext[c]] = c)'
      <3>1. c # t /\ pc[c] = "unreg_body"
        BY <2>6, <2>2 DEF TypeOK
      <3>2. tus[ext[c]] = c /\ ext[c] \in Exts /\ ext'[c] = ext[c]
        BY <3>1, <2>1 DEF RegistryOK, TypeOK
      <3> QED
        BY <3>2, <2>1 DEF TypeOK
    <2> QED
      BY <2>3, <2>5, <2>6 DEF RegistryOK
  <1>3. CASE RegisterFinish(t)
    BY <1>3, RegistryKept DEF RegisterFinish, Goto, tuVars, NonePc, FreedPc
  <1>4. CASE UnregisterBody(t)
    <2>1. /\ pc[t] = "unreg_body" /\ pc' = [pc EXCEPT ![t] = "unreg_free"]
          /\ tus' = [tus EXCEPT ![ext[t]] = NULL] /\ UNCHANGED <<mem, ext>>
      BY <1>4 DEF UnregisterBody, Goto
    <2>2. MemOK'
      BY <2>1 DEF MemOK, TypeOK, NonePc, FreedPc
    <2>3. /\ ~Registered(t)'
          /\ \A c \in Conns \ {t} : Registered(c)' = Registered(c)
      BY <2>1 DEF Registered, TypeOK
    <2>4. tus[ext[t]] = t /\ ext[t] \in Exts
      BY <2>1 DEF RegistryOK, TypeOK
    <2>5. ASSUME NEW e \in Exts, NEW c \in Conns
          PROVE  (tus[e] = c)' <=> (Registered(c) /\ ext[c] = e)'
      <3>1. tus[e] = c <=> Registered(c) /\ ext[c] = e
        BY DEF RegistryOK
      <3>2. tus[e] = t <=> Registered(t) /\ ext[t] = e
        BY DEF RegistryOK
      <3> QED
        BY <3>1, <3>2, <2>1, <2>3, <2>4 DEF TypeOK
    <2>6. ASSUME NEW c \in Conns, pc'[c] = "unreg_body" PROVE (tus[ext[c]] = c)'
      <3>1. c # t /\ pc[c] = "unreg_body"
        BY <2>6, <2>1 DEF TypeOK
      <3>2. tus[ext[c]] = c /\ ext[c] \in Exts /\ ext'[c] = ext[c]
        BY <3>1, <2>1 DEF RegistryOK, TypeOK
      <3> QED
        BY <3>1, <3>2, <2>1, <2>4 DEF TypeOK
    <2> QED
      BY <2>2, <2>5, <2>6 DEF RegistryOK
  <1>5. CASE UnregisterFree(t)
    <2>1. /\ pc[t] = "unreg_free" /\ pc' = [pc EXCEPT ![t] = "unreg_post"]
          /\ mem' = [mem EXCEPT ![t] = "freed"] /\ UNCHANGED <<tus, ext>>
      BY <1>5 DEF UnregisterFree, Goto, pbxVars
    <2>2. MemOK'
      BY <2>1 DEF MemOK, TypeOK, NonePc, FreedPc
    <2>3. \A c \in Conns : /\ Registered(c)' = Registered(c)
                           /\ pc'[c] = "unreg_body" => pc[c] = "unreg_body"
      BY <2>1 DEF Registered, TypeOK
    <2> QED
      BY <2>1, <2>2, <2>3 DEF RegistryOK
  <1>6. CASE UnregisterPost(t)
    <2>1. /\ pc[t] = "unreg_post" /\ pc' = [pc EXCEPT ![t] = "gone"]
          /\ ext' = [ext EXCEPT ![t] = 0] /\ UNCHANGED <<tus, mem>>
      BY <1>6 DEF UnregisterPost, Goto
    <2>2. MemOK'
      BY <2>1 DEF MemOK, TypeOK, NonePc, FreedPc
    <2>3. /\ ~Registered(t) /\ ~Registered(t)'
          /\ \A c \in Conns \ {t} : Registered(c)' = Registered(c)
          /\ \A c \in Conns : pc'[c] = "unreg_body" => pc[c] = "unreg_body" /\ c # t
      BY <2>1 DEF Registered, TypeOK, MemOK, FreedPc
    <2> QED
      BY <2>1, <2>2, <2>3 DEF RegistryOK, TypeOK
  <1>7. CASE \/ UnregisterLockPbx(t) \/ DialLockPbx(t)
    BY <1>7, RegistryKept DEF UnregisterLockPbx, DialLockPbx, LockPbx, Goto, tuVars, NonePc, FreedPc
  <1>8. CASE \/ UnregisterLockOwn(t) \/ PickupLockOwn(t) \/ HangupLockOwn(t) \/ DialLockOwn(t)
    BY <1>8, RegistryKept DEF UnregisterLockOwn, PickupLockOwn, HangupLockOwn, DialLockOwn,
         LockOwn, Goto, pbxVars, NonePc, FreedPc
  <1>9. CASE \/ UnregisterLockBuddy(t) \/ PickupLockBuddy(t) \/ HangupLockBuddy(t) \/ ChatLockBuddy(t)
    BY <1>9, RegistryKept DEF UnregisterLockBuddy, PickupLockBuddy, HangupLockBuddy, ChatLockBuddy,
         LockBuddy, Goto, pbxVars, NonePc, FreedPc
  <1>10. CASE PickupBody(t)
    BY <1>10, RegistryKept DEF PickupBody, Goto, pbxVars, NonePc, FreedPc
  <1>11. CASE HangupBody(t)
    BY <1>11, RegistryKept DEF HangupBody, Goto, pbxVars, NonePc, FreedPc
  <1>12. CASE DialNobody(t)
    BY <1>12, RegistryKept DEF DialNobody, Goto, NonePc, FreedPc
  <1>13. CASE DialLockTarget(t)
    BY <1>13, RegistryKept DEF DialLockTarget, Goto, pbxVars, NonePc, FreedPc
  <1>14. CASE DialBody(t)
    <2>1. Goto(t, "dial_body", "idle") /\ UNCHANGED <<mem, tus, ext>>
      BY <1>14 DEF DialBody
    <2> QED
      BY <2>1, RegistryKept DEF Goto, NonePc, FreedPc
  <1>15. CASE ChatLockOwn(t)
    BY <1>15, RegistryKept DEF ChatLockOwn, Goto, pbxVars, NonePc, FreedPc
  <1>16. CASE ChatNobody(t) \/ ChatBody(t)
    BY <1>16, RegistryKept DEF ChatNobody, ChatBody, Goto, tuVars, pbxVars, NonePc, FreedPc
  <1> QED
    BY <1>1, <1>2, <1>3, <1>4, <1>5, <1>6, <1>7, <1>8, <1>9, <1>10, <1>11, <1>12, <1>13,
       <1>14, <1>15, <1>16 DEF Step

LEMMA RegistryNext ==
  ASSUME TypeOK, MemOK, RegistryOK, [Next]_vars
  PROVE  MemOK' /\ RegistryOK'
  <1>1. CASE \E t \in Conns : Calls(t) \/ Step(t)
    BY <1>1, RegistryCalls, RegistryStep
  <1>2. CASE MainStep
    <2>1. UNCHANGED <<pc, mem, tus, ext>>
      BY <1>2 DEF MainStep, Sighup, ShutdownBegin, ShutdownSkip, ShutdownFound, ShutdownRead,
         ShutdownConnection, ShutdownWait, ShutdownFree, Exit, Main, Turn, tuVars, pbxVars
    <2> QED
      BY <2>1, RegistrySame
  <1>3. CASE UNCHANGED vars \/ ShutdownFault \/ \E t \in Conns : ThreadFault(t)
    BY <1>3, RegistrySame DEF vars, ThreadFault, ShutdownFault, tuVars, pbxVars
  <1> QED
    BY <1>1, <1>2, <1>3 DEF Next

LEMMA InitRegistry == Init => MemOK /\ RegistryOK
  <1> SUFFICES ASSUME Init PROVE MemOK /\ RegistryOK
    OBVIOUS
  <1>1. /\ \A c \in Conns : mem[c] = "none" /\ pc[c] = "out"
        /\ \A e \in Exts : tus[e] = NULL
    BY DEF Init
  <1> QED
    BY <1>1 DEF MemOK, RegistryOK, Registered, NonePc, FreedPc

LEMMA MemAndRegistry == Spec => [](TypeOK /\ MemOK /\ RegistryOK)
  <1>1. TypeOK /\ MemOK /\ RegistryOK /\ [Next]_vars => (TypeOK /\ MemOK /\ RegistryOK)'
    BY NextType, RegistryNext
  <1> QED
    BY <1>1, InitType, InitRegistry, PTL DEF Spec

(***************************************************************************)
(* tus[] and the TUs agree: a TU is at an extension exactly while it is    *)
(* live and pbx_unregister has not removed it, at the extension it has in  *)
(* its ext field, so pbx_unregister always removes the TU it was given.    *)
(* The memory of a TU follows its thread's control point (MemOK), without  *)
(* which RegistryOK is not inductive.                                      *)
(***************************************************************************)
THEOREM RegistryCorrect == Spec => []RegistryOK
  BY MemAndRegistry, PTL

-----------------------------------------------------------------------------
(* The search for an extension *)

LEMMA LeastOffset ==
  ASSUME NEW S \in SUBSET Nat, S # {}
  PROVE  \E k \in S : \A j \in S : ~(j < k)
  <1> DEFINE R == {p \in Nat \X Nat : p[1] < p[2]}
  <1>1. IsWellFoundedOn(R, Nat)
    BY NatLessThanWellFounded, Zenon DEF OpToRel
  <1>2. \A j, k \in Nat : j < k => <<j, k>> \in R
    OBVIOUS
  <1> HIDE DEF R
  <1>3. \E k \in S : \A j \in S : <<j, k>> \notin R
    BY <1>1, WFMin, Zenon
  <1> QED
    BY <1>2, <1>3

\* Each extension is as many steps from tup.
LEMMA OffsetOf ==
  ASSUME NEW m \in Exts, NEW n \in Exts
  PROVE  \E k \in Exts : n = (m + k) % PBX_MAX_EXTENSIONS
  <1> USE DEF Exts
  <1>1. CASE n >= m
    <2>1. n - m \in Exts /\ m + (n - m) = n /\ n % PBX_MAX_EXTENSIONS = n
      BY <1>1
    <2> QED
      BY <2>1
  <1>2. CASE n < m
    <2> DEFINE k == n - m + PBX_MAX_EXTENSIONS
    <2>1. k \in Exts /\ m + k = n + PBX_MAX_EXTENSIONS
      BY <1>2
    <2>2. (n + PBX_MAX_EXTENSIONS) % PBX_MAX_EXTENSIONS = n
      OBVIOUS
    <2> QED
      BY <2>1, <2>2
  <1> QED
    BY <1>1, <1>2

\* The search finds an extension if there is a free one.
LEMMA SearchFinds ==
  ASSUME TypeOK, NEW n \in Exts, tus[n] = NULL
  PROVE  \E f \in Exts : get_next_available_extension(f)
  <1> DEFINE at(k) == (tup + k) % PBX_MAX_EXTENSIONS
             F == {k \in Exts : tus[at(k)] = NULL}
  <1>1. PICK k \in F : \A j \in F : ~(j < k)
    <2>1. F \subseteq Nat
      BY DEF Exts
    <2>2. F # {}
      BY OffsetOf DEF TypeOK
    <2> HIDE DEF F
    <2> QED
      BY <2>1, <2>2, LeastOffset
  <1>2. at(k) \in Exts
    BY <1>1 DEF TypeOK, Exts
  <1>3. get_next_available_extension(at(k))
    BY <1>1 DEF get_next_available_extension, Exts
  <1> QED
    BY <1>2, <1>3

LEMMA FullExchange ==
  ASSUME TypeOK, RegistryOK, \A n \in Exts : tus[n] # NULL
  PROVE  Cardinality({c \in Conns : Registered(c)}) = PBX_MAX_EXTENSIONS
  <1> DEFINE T == {c \in Conns : Registered(c)}
  <1>1. \A n \in Exts : tus[n] \in T /\ ext[tus[n]] = n
    BY DEF TypeOK, RegistryOK
  <1>2. \A c \in T : ext[c] \in Exts /\ tus[ext[c]] = c
    BY DEF TypeOK, RegistryOK
  <1>3. tus \in [Exts -> T]
    BY <1>1 DEF TypeOK
  <1> HIDE DEF T
  <1>4. tus \in Bijection(Exts, T)
    <2>1. \A m, n \in Exts : tus[m] = tus[n] => m = n
      BY <1>1
    <2>2. \A c \in T : \E n \in Exts : tus[n] = c
      BY <1>2
    <2> QED
      BY <1>3, <2>1, <2>2 DEF Bijection, Injection, IsInjective, Surjection
  <1>5. IsFiniteSet(Exts) /\ Cardinality(Exts) = PBX_MAX_EXTENSIONS
    BY FS_Interval DEF Exts
  <1>6. Cardinality(T) = Cardinality(Exts)
    BY <1>4, <1>5, FS_Bijection DEF ExistsBijection
  <1> QED
    BY <1>5, <1>6 DEF T

\* The one step that ends in "refused".
LEMMA StepMoves ==
  ASSUME TypeOK, NEW t \in Conns, Step(t)
  PROVE  /\ \A u \in Conns \ {t} : pc'[u] = pc[u]
         /\ pc'[t] = "refused" => RegisterRefused(t)
  <1>1. CASE RegisterRefused(t)
    BY <1>1 DEF RegisterRefused, Goto, TypeOK
  <1>2. CASE ~RegisterRefused(t)
    <2>1. PICK from, to : Goto(t, from, to) /\ to # "refused"
      <3>1. CASE DialBody(t)
        <4>1. Goto(t, "dial_body", "idle")
          BY <3>1 DEF DialBody
        <4> QED
          BY <4>1
      <3>2. CASE \/ RegisterSetup(t) \/ RegisterFinish(t) \/ UnregisterBody(t)
                 \/ UnregisterFree(t) \/ UnregisterPost(t) \/ PickupBody(t)
                 \/ HangupBody(t) \/ DialNobody(t) \/ ChatNobody(t) \/ ChatBody(t)
        <4>1. \E to \in {"reg_exit", "idle", "unreg_free", "unreg_post", "gone"},
                 from \in ThreadPc : Goto(t, from, to)
          BY <3>2 DEF RegisterSetup, RegisterFinish, UnregisterBody, UnregisterFree,
             UnregisterPost, PickupBody, HangupBody, DialNobody, ChatNobody, ChatBody, ThreadPc
        <4> QED
          BY <4>1
      <3>3. CASE \/ UnregisterLockOwn(t) \/ PickupLockOwn(t) \/ HangupLockOwn(t)
                 \/ DialLockOwn(t)
        <4>1. PICK to \in {"unreg_buddy", "unreg_body", "pick_buddy", "pick_body",
                          "hang_buddy", "hang_body", "dial_pbx"}, from \in ThreadPc :
                 Goto(t, from, to)
          BY <3>3 DEF UnregisterLockOwn, PickupLockOwn, HangupLockOwn, DialLockOwn, LockOwn,
             ThreadPc
        <4> QED
          BY <4>1
      <3>4. CASE \/ UnregisterLockPbx(t) \/ UnregisterLockBuddy(t) \/ PickupLockBuddy(t)
                 \/ HangupLockBuddy(t) \/ DialLockPbx(t) \/ DialLockTarget(t)
                 \/ ChatLockOwn(t) \/ ChatLockBuddy(t)
        <4>1. PICK to \in {"unreg_own", "unreg_body", "pick_body", "hang_body", "dial_check",
                          "dial_body", "chat_buddy", "chat_body"}, from \in ThreadPc :
                 Goto(t, from, to)
          BY <3>4 DEF UnregisterLockPbx, UnregisterLockBuddy, PickupLockBuddy,
             HangupLockBuddy, DialLockPbx, DialLockTarget, ChatLockOwn, ChatLockBuddy,
             LockBuddy, LockPbx, ThreadPc
        <4> QED
          BY <4>1
      <3> QED
        BY <1>2, <3>1, <3>2, <3>3, <3>4 DEF Step
    <2> QED
      BY <2>1 DEF Goto, TypeOK
  <1> QED
    BY <1>1, <1>2

LEMMA NextRefuses ==
  ASSUME TypeOK, RegistryOK, [Next]_vars, NEW t \in Conns, pc[t] = "reg_pbx", pc'[t] = "refused"
  PROVE  Cardinality({c \in Conns : Registered(c)}) = PBX_MAX_EXTENSIONS
  <1>1. RegisterRefused(t)
    <2>1. Step(t)
      <3>1. CASE \E c \in Conns : Calls(c)
        <4>1. PICK c \in Conns : Calls(c)
          BY <3>1
        <4>2. PICK from \in ThreadPc,
                   to \in {"reg_pbx", "unreg_pbx", "pick_own", "hang_own", "chat_own", "dial_own"} :
                 Goto(c, from, to)
          BY <4>1 DEF Calls, CallRegister, CallUnregister, CallPickup, CallHangup, CallChat,
             CallDial, Call, ThreadPc
        <4> QED
          BY <4>2 DEF Goto, TypeOK
      <3>2. CASE \E c \in Conns : Step(c)
        <4>1. PICK c \in Conns : Step(c)
          BY <3>2
        <4>2. c = t
          BY <4>1, StepMoves
        <4> QED
          BY <4>1, <4>2
      <3>3. CASE MainStep \/ ShutdownFault \/ UNCHANGED vars \/ \E c \in Conns : ThreadFault(c)
        BY <3>3 DEF MainStep, Sighup, ShutdownBegin, ShutdownSkip, ShutdownFound,
           ShutdownRead, ShutdownConnection, ShutdownWait, ShutdownFree, Exit, Main, Turn,
           ThreadFault, ShutdownFault, vars
      <3> QED
        BY <3>1, <3>2, <3>3 DEF Next
    <2> QED
      BY <2>1, StepMoves
  <1>2. \A n \in Exts : tus[n] # NULL
    BY <1>1, SearchFinds DEF RegisterRefused
  <1> QED
    BY <1>2, FullExchange

(***************************************************************************)
(* pbx_register refuses a client only while every extension is taken,      *)
(* wherever tup stands: the search from it wraps around and reaches every  *)
(* extension, and as many TUs are registered as there are extensions.      *)
(***************************************************************************)
THEOREM RefusalsAreDue == Spec => RefusedOnlyWhenFull
  <1>1. TypeOK /\ RegistryOK /\ [Next]_vars
           => [\A t \in Conns :
                 pc[t] = "reg_pbx" /\ pc'[t] = "refused"
                    => Cardinality({c \in Conns : Registered(c)}) = PBX_MAX_EXTENSIONS]_vars
    BY NextRefuses
  <1> QED
    BY <1>1, MemAndRegistry, PTL DEF Spec, RefusedOnlyWhenFull

-----------------------------------------------------------------------------
(* The exit semaphores *)

\* The TU of t is the one that took the exit semaphore of e.
Has(t, e) == HoldsExit(t) /\ ext[t] = e

\* ExitSemaphores, with a quantifier for each set.
ExitOK ==
  \A e \in Exts :
     /\ exitSem[e] \in {0, 1}
     /\ exitSem[e] = 1 <=> ~ShutdownHolds(e) /\ \A t \in Conns : ~Has(t, e)
     /\ ShutdownHolds(e) => \A t \in Conns : ~Has(t, e)
     /\ \A t, u \in Conns : Has(t, e) /\ Has(u, e) => t = u

NoExitPc == {"out", "reg_pbx", "reg_exit", "refused", "gone"}

\* A step in which t keeps what it has, and a step of the main thread that is
\* not a wait.
LEMMA ExitKept ==
  ASSUME TypeOK, ExitOK, NEW t \in Conns, NEW q, pc' = [pc EXCEPT ![t] = q],
         UNCHANGED <<exitSem, mainPc, mainI>>,
         \A u \in Conns \ {t} : ext'[u] = ext[u],
         \/ pc[t] \in NoExitPc /\ q \in NoExitPc
         \/ pc[t] \notin NoExitPc /\ q \notin NoExitPc /\ ext'[t] = ext[t]
  PROVE  ExitOK'
  <1>1. \A u \in Conns, e \in Exts : Has(u, e)' <=> Has(u, e)
    BY DEF Has, HoldsExit, NoExitPc, TypeOK
  <1>2. \A e \in Exts : ShutdownHolds(e)' <=> ShutdownHolds(e)
    BY DEF ShutdownHolds
  <1> QED
    BY <1>1, <1>2 DEF ExitOK

LEMMA ExitCalls ==
  ASSUME TypeOK, ExitOK, NEW t \in Conns, Calls(t)
  PROVE  ExitOK'
  <1>1. ASSUME NEW e \in Exts, CallDial(t, e) PROVE ExitOK'
    BY <1>1, ExitKept DEF CallDial, Goto, tuVars, pbxVars, mainVars, NoExitPc
  <1>2. CASE CallRegister(t)
    BY <1>2, ExitKept DEF CallRegister, Call, Goto, tuVars, pbxVars, mainVars, NoExitPc
  <1>3. CASE CallUnregister(t) \/ CallPickup(t) \/ CallHangup(t) \/ CallChat(t)
    <2>1. PICK q \in {"unreg_pbx", "pick_own", "hang_own", "chat_own"} : Call(t, "idle", q)
      BY <1>3 DEF CallUnregister, CallPickup, CallHangup, CallChat
    <2> QED
      BY <2>1, ExitKept DEF Call, Goto, tuVars, pbxVars, mainVars, NoExitPc
  <1> QED
    BY <1>1, <1>2, <1>3 DEF Calls

LEMMA ExitStep ==
  ASSUME TypeOK, ExitOK, NEW t \in Conns, Step(t)
  PROVE  ExitOK'
  <1>1. CASE RegisterRefused(t)
    BY <1>1, ExitKept DEF RegisterRefused, Goto, tuVars, pbxVars, mainVars, NoExitPc
  <1>2. CASE RegisterSetup(t)
    <2>1. PICK n \in Exts : ext' = [ext EXCEPT ![t] = n]
      BY <1>2 DEF RegisterSetup
    <2>2. /\ pc[t] = "reg_pbx" /\ pc' = [pc EXCEPT ![t] = "reg_exit"]
          /\ UNCHANGED <<exitSem, mainPc, mainI>>
      BY <1>2 DEF RegisterSetup, Goto, mainVars
    <2>3. \A u \in Conns \ {t} : ext'[u] = ext[u]
      BY <2>1 DEF TypeOK
    <2> QED
      BY <2>2, <2>3, ExitKept DEF NoExitPc
  <1>3. CASE RegisterFinish(t)
    <2>0. PICK e \in Exts : e = ext[t]
      BY DEF TypeOK
    <2>1. /\ pc[t] = "reg_exit" /\ pc' = [pc EXCEPT ![t] = "idle"]
          /\ exitSem[e] > 0 /\ exitSem' = [exitSem EXCEPT ![e] = exitSem[e] - 1]
          /\ UNCHANGED <<ext, mainPc, mainI>>
      BY <1>3, <2>0 DEF RegisterFinish, PExit, Goto, tuVars, mainVars
    <2>3. exitSem[e] = 1
      BY <2>1 DEF ExitOK
    <2>4. ~ShutdownHolds(e) /\ \A u \in Conns : ~Has(u, e)
      BY <2>3 DEF ExitOK
    <2>5. \A f \in Exts : exitSem'[f] = IF f = e THEN 0 ELSE exitSem[f]
      BY <2>1, <2>3 DEF TypeOK
    <2>6. /\ Has(t, e)'
          /\ \A u \in Conns, f \in Exts :
                u # t \/ f # e => (Has(u, f)' <=> Has(u, f))
      BY <2>0, <2>1 DEF Has, HoldsExit, TypeOK
    <2>7. \A f \in Exts : ShutdownHolds(f)' <=> ShutdownHolds(f)
      BY <2>1 DEF ShutdownHolds
    <2> QED
      BY <2>4, <2>5, <2>6, <2>7 DEF ExitOK
  <1>4. CASE UnregisterPost(t)
    <2>0. PICK e \in Exts : e = ext[t]
      BY DEF TypeOK
    <2>1. /\ pc[t] = "unreg_post" /\ pc' = [pc EXCEPT ![t] = "gone"]
          /\ exitSem' = [exitSem EXCEPT ![e] = exitSem[e] + 1]
          /\ ext' = [ext EXCEPT ![t] = 0]
          /\ UNCHANGED <<mainPc, mainI>>
      BY <1>4, <2>0 DEF UnregisterPost, VExit, Goto, mainVars
    <2>2. Has(t, e)
      BY <2>0, <2>1 DEF Has, HoldsExit
    <2>3. exitSem[e] = 0 /\ ~ShutdownHolds(e) /\ \A u \in Conns : Has(u, e) => u = t
      BY <2>2 DEF ExitOK
    <2>4. \A f \in Exts : exitSem'[f] = IF f = e THEN 1 ELSE exitSem[f]
      BY <2>1, <2>2, <2>3 DEF TypeOK
    <2>5. /\ \A f \in Exts : ~Has(t, f)'
          /\ \A u \in Conns \ {t}, f \in Exts : Has(u, f)' <=> Has(u, f)
      BY <2>1 DEF Has, HoldsExit, TypeOK
    <2>6. \A f \in Exts : ShutdownHolds(f)' <=> ShutdownHolds(f)
      BY <2>1 DEF ShutdownHolds
    <2>7. \A f \in Exts : f # e => ~Has(t, f)
      BY <2>0 DEF Has
    <2> QED
      BY <2>2, <2>3, <2>4, <2>5, <2>6, <2>7 DEF ExitOK
  <1>5. CASE UnregisterBody(t) \/ UnregisterFree(t)
    BY <1>5, ExitKept DEF UnregisterBody, UnregisterFree, Goto, pbxVars, mainVars, NoExitPc
  <1>6. CASE UnregisterLockPbx(t) \/ DialLockPbx(t)
    BY <1>6, ExitKept DEF UnregisterLockPbx, DialLockPbx, LockPbx, Goto, tuVars, mainVars,
       NoExitPc
  <1>7. CASE \/ UnregisterLockOwn(t) \/ PickupLockOwn(t) \/ HangupLockOwn(t) \/ DialLockOwn(t)
    BY <1>7, ExitKept DEF UnregisterLockOwn, PickupLockOwn, HangupLockOwn, DialLockOwn,
       LockOwn, Goto, pbxVars, mainVars, NoExitPc
  <1>8. CASE \/ UnregisterLockBuddy(t) \/ PickupLockBuddy(t) \/ HangupLockBuddy(t)
             \/ ChatLockBuddy(t)
    BY <1>8, ExitKept DEF UnregisterLockBuddy, PickupLockBuddy, HangupLockBuddy,
       ChatLockBuddy, LockBuddy, Goto, pbxVars, mainVars, NoExitPc
  <1>9. CASE PickupBody(t) \/ HangupBody(t) \/ ChatLockOwn(t) \/ ChatNobody(t) \/ ChatBody(t)
    BY <1>9, ExitKept DEF PickupBody, HangupBody, ChatLockOwn, ChatNobody, ChatBody, Goto,
       tuVars, pbxVars, mainVars, NoExitPc
  <1>10. CASE DialNobody(t) \/ DialLockTarget(t)
    BY <1>10, ExitKept DEF DialNobody, DialLockTarget, Goto, pbxVars, mainVars, NoExitPc
  <1>11. CASE DialBody(t)
    <2>1. Goto(t, "dial_body", "idle") /\ UNCHANGED <<ext, exitSem>>
      BY <1>11 DEF DialBody
    <2> QED
      BY <2>1, ExitKept DEF Goto, mainVars, NoExitPc
  <1> QED
    BY <1>1, <1>2, <1>3, <1>4, <1>5, <1>6, <1>7, <1>8, <1>9, <1>10, <1>11 DEF Step

\* The wait for one extension, and the steps around the loop of waits.
LEMMA ExitMain ==
  ASSUME TypeOK, ExitOK, MainStep
  PROVE  ExitOK'
  <1>1. \A u \in Conns, e \in Exts : Has(u, e)' <=> Has(u, e)
    <2>1. UNCHANGED <<pc, ext>>
      BY DEF MainStep, Sighup, ShutdownBegin, ShutdownSkip, ShutdownFound,
         ShutdownRead, ShutdownConnection, ShutdownWait, ShutdownFree, Exit, Main, Turn,
         tuVars
    <2> QED
      BY <2>1 DEF Has, HoldsExit
  <1>2. ASSUME UNCHANGED exitSem, \A e \in Exts : ShutdownHolds(e)' <=> ShutdownHolds(e)
        PROVE  ExitOK'
    BY <1>1, <1>2 DEF ExitOK
  <1>3. CASE Sighup \/ ShutdownBegin \/ ShutdownFound \/ ShutdownRead
    <2>1. /\ mainPc \in {"serving", "lock", "check", "read"}
          /\ mainPc' \in {"lock", "check", "read", "shut"} /\ UNCHANGED exitSem
      BY <1>3 DEF Sighup, ShutdownBegin, ShutdownFound, ShutdownRead, Main, pbxVars
    <2> QED
      BY <2>1, <1>2 DEF ShutdownHolds
  <1>4. CASE ShutdownSkip \/ ShutdownConnection
    <2>1. /\ mainPc \in {"check", "shut"} /\ UNCHANGED exitSem
          /\ mainPc' = IF mainI = PBX_MAX_EXTENSIONS - 1 THEN "wait" ELSE "check"
          /\ mainI' = (mainI + 1) % PBX_MAX_EXTENSIONS
      BY <1>4 DEF ShutdownSkip, ShutdownConnection, Turn, Main, pbxVars
    <2>2. mainPc' = "wait" => mainI' = 0
      BY <2>1
    <2>3. \A e \in Exts : ~ShutdownHolds(e)' /\ ~ShutdownHolds(e)
      BY <2>1, <2>2 DEF ShutdownHolds, Exts
    <2> QED
      BY <2>1, <2>3, <1>2
  <1>5. CASE ShutdownWait
    <2>1. /\ mainPc = "wait" /\ exitSem[mainI] > 0
          /\ exitSem' = [exitSem EXCEPT ![mainI] = exitSem[mainI] - 1]
          /\ mainPc' = IF mainI = PBX_MAX_EXTENSIONS - 1 THEN "free" ELSE "wait"
          /\ mainI' = (mainI + 1) % PBX_MAX_EXTENSIONS
      BY <1>5 DEF ShutdownWait, Turn, Main, PExit
    <2>2. mainI \in Exts /\ exitSem[mainI] = 1
      BY <2>1 DEF TypeOK, ExitOK
    <2>3. \A u \in Conns : ~Has(u, mainI)
      BY <2>2 DEF ExitOK
    <2>4. \A e \in Exts : exitSem'[e] = IF e = mainI THEN 0 ELSE exitSem[e]
      BY <2>1, <2>2 DEF TypeOK
    <2>5. mainI # PBX_MAX_EXTENSIONS - 1 => mainI' = mainI + 1
      BY <2>1, <2>2 DEF Exts
    <2>6. \A e \in Exts : ShutdownHolds(e)' <=> ShutdownHolds(e) \/ e = mainI
      BY <2>1, <2>2, <2>5 DEF ShutdownHolds, Exts
    <2> QED
      BY <1>1, <2>2, <2>3, <2>4, <2>6 DEF ExitOK
  <1>6. CASE ShutdownFree \/ Exit
    <2>1. /\ mainPc \in {"free", "exit"} /\ mainPc' \in {"exit", "exited"}
          /\ UNCHANGED exitSem
      BY <1>6 DEF ShutdownFree, Exit, Main, pbxVars
    <2> QED
      BY <2>1, <1>2 DEF ShutdownHolds
  <1> QED
    BY <1>3, <1>4, <1>5, <1>6 DEF MainStep

LEMMA ExitNext ==
  ASSUME TypeOK, ExitOK, [Next]_vars
  PROVE  ExitOK'
  <1>1. CASE \E t \in Conns : Calls(t) \/ Step(t)
    BY <1>1, ExitCalls, ExitStep
  <1>2. CASE UNCHANGED vars \/ ShutdownFault \/ \E t \in Conns : ThreadFault(t)
    <2>1. UNCHANGED <<pc, ext, exitSem, mainPc, mainI>>
      BY <1>2 DEF vars, ThreadFault, ShutdownFault, tuVars, pbxVars, mainVars
    <2> QED
      BY <2>1 DEF ExitOK, Has, HoldsExit, ShutdownHolds
  <1> QED
    BY <1>1, <1>2, ExitMain DEF Next

LEMMA InitExit == Init => ExitOK
  <1> SUFFICES ASSUME Init PROVE ExitOK
    OBVIOUS
  <1>1. /\ mainPc = "serving" /\ \A c \in Conns : pc[c] = "out"
        /\ \A e \in Exts : exitSem[e] = 1
    BY DEF Init
  <1> QED
    BY <1>1 DEF ExitOK, Has, HoldsExit, ShutdownHolds

LEMMA ExitOKSuffices == TypeOK /\ ExitOK => ExitSemaphores
  <1> SUFFICES ASSUME ExitOK, NEW e \in Exts
               PROVE  LET holders == {t \in Conns : HoldsExit(t) /\ ext[t] = e}
                      IN /\ \A t, u \in holders : t = u
                         /\ exitSem[e] = IF holders = {} /\ ~ShutdownHolds(e) THEN 1 ELSE 0
                         /\ ShutdownHolds(e) => holders = {}
    BY DEF ExitSemaphores
  <1> DEFINE holders == {t \in Conns : HoldsExit(t) /\ ext[t] = e}
  <1>1. holders = {} <=> \A t \in Conns : ~Has(t, e)
    BY DEF Has
  <1>2. \A t, u \in holders : t = u
    BY DEF ExitOK, Has
  <1>3. \/ exitSem[e] = 1 /\ holders = {} /\ ~ShutdownHolds(e)
        \/ exitSem[e] = 0 /\ ~(holders = {} /\ ~ShutdownHolds(e))
    BY <1>1 DEF ExitOK
  <1>4. ShutdownHolds(e) => holders = {}
    BY <1>1 DEF ExitOK
  <1> QED
    BY <1>2, <1>3, <1>4

(***************************************************************************)
(* An exit semaphore is down exactly while one TU has its extension or     *)
(* pbx_shutdown has taken it, so an extension is not used again before its *)
(* last TU is freed, and the PBX is not freed before all of them are.      *)
(***************************************************************************)
THEOREM ExitSemaphoresCorrect == Spec => []ExitSemaphores
  <1>1. TypeOK /\ ExitOK /\ [Next]_vars => (TypeOK /\ ExitOK)'
    BY NextType, ExitNext
  <1> QED
    BY <1>1, InitType, InitExit, ExitOKSuffices, PTL DEF Spec

=============================================================================
