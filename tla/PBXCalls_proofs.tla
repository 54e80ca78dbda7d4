--------------------------- MODULE PBXCalls_proofs ---------------------------
(***************************************************************************)
(* Proofs about the calls of PBX, for every set of connections, every      *)
(* number of extensions and whenever SIGHUP comes, of clients that dial    *)
(* only when they hear a dial tone: that calls are two-sided, that clients *)
(* know their state, what threads may lock each other up, and that PBX     *)
(* implements Exchange.                                                    *)
(***************************************************************************)
EXTENDS PBXLocks_proofs

USE ConstantsAssumption

-----------------------------------------------------------------------------
(* What makes CallsPaired inductive *)

DialPc == {"dial_own", "dial_pbx", "dial_check", "dial_body"}
ChatPc == {"chat_buddy", "chat_body"}
BuddyPc == {"pick_buddy", "hang_buddy", "chat_buddy", "unreg_buddy"}

\* What a thread has seen of its TU is still so: the state in which it dials or
\* chats, and that there is a buddy to lock.  Nobody calls a TU that is still being
\* registered.
Places ==
  \A t \in Conns : /\ pc[t] \in DialPc => state[t] = "DIAL TONE"
                   /\ pc[t] \in ChatPc => state[t] = "CONNECTED"
                   /\ pc[t] \in BuddyPc => buddy[t] # NULL
                   /\ pc[t] = "reg_exit" => state[t] = "ON HOOK"

\* A client that has not been told its state was left by the other party during
\* shutdown; in particular it does not hear a dial tone, and does not dial.
Known ==
  \A t \in Conns :
     Registered(t) /\ pc[t] # "reg_exit" /\ heard[t] # state[t]
        => exiting /\ state[t] \in {"ON HOOK", "DIAL TONE"} /\ heard[t] \in InCall

Base == TypeOK /\ MemOK /\ RegistryOK /\ Locks
Calling == CallsPaired /\ Places /\ Known

-----------------------------------------------------------------------------
(* What a step does to the calls *)

\* All TUs but those of S are as before.
Same(S) ==
  \A c \in Conns \ S :
     /\ Registered(c)' = Registered(c)
     /\ Registered(c) => /\ state'[c] = state[c] /\ buddy'[c] = buddy[c]
                         /\ ext'[c] = ext[c]

\* The registered TU c comes into state s, with b at the other end.
Becomes(c, s, b) ==
  /\ c \in Conns /\ Registered(c) /\ Registered(c)'
  /\ state'[c] = s /\ buddy'[c] = b /\ ext'[c] = ext[c]

Registers(t) ==
  /\ ~Registered(t) /\ Registered(t)'
  /\ state'[t] = "ON HOOK" /\ buddy'[t] = NULL
  /\ ext'[t] \in Exts /\ tus[ext'[t]] = NULL
  /\ Same({t})

\* The other end of the call of t, if it has one, learns that t is gone.
Released(t) ==
  IF state[t] \in InCall
  THEN \E b \in Conns \ {t} : /\ b = buddy[t]
                             /\ Becomes(b, PeerAfter(state[t]), NULL)
                             /\ Same({t, b})
  ELSE Same({t})

Leaves(t) == Registered(t) /\ ~Registered(t)' /\ Released(t)
HangsUp(t) == Becomes(t, "ON HOOK", NULL) /\ Released(t)

PicksUp(t) ==
  state[t] = "ON HOOK" /\ Becomes(t, "DIAL TONE", NULL) /\ Same({t})
Answers(t) ==
  /\ state[t] = "RINGING"
  /\ \E b \in Conns \ {t} : /\ b = buddy[t]
                            /\ Becomes(t, "CONNECTED", b) /\ Becomes(b, "CONNECTED", t)
                            /\ Same({t, b})

\* The dialing TU gets an error, or a busy signal.
Fails(t) ==
  /\ state[t] = "DIAL TONE"
  /\ Same({t})
  /\ \/ tus[dialed[t]] = NULL /\ Becomes(t, "ERROR", NULL)
     \/ \E q \in Conns : /\ q = tus[dialed[t]] /\ (q = t \/ state[q] # "ON HOOK")
                         /\ Becomes(t, "BUSY SIGNAL", NULL)
Rings(t) ==
  /\ state[t] = "DIAL TONE" /\ pbxMutex = t
  /\ \E q \in Conns \ {t} : /\ q = tus[dialed[t]] /\ state[q] = "ON HOOK"
                            /\ Becomes(t, "RING BACK", q) /\ Becomes(q, "RINGING", t)
                            /\ Same({t, q})

Effect(t) == \/ Same({}) \/ Registers(t) \/ Leaves(t) \/ HangsUp(t)
             \/ PicksUp(t) \/ Answers(t) \/ Fails(t) \/ Rings(t)

-----------------------------------------------------------------------------
(* Every step does one of these *)

LEMMA RegisteredKept ==
  ASSUME TypeOK, NEW t \in Conns, NEW q, pc' = [pc EXCEPT ![t] = q],
         pc[t] # "unreg_free", q # "unreg_free", UNCHANGED mem
  PROVE  \A c \in Conns : Registered(c)' = Registered(c)
  BY DEF Registered, TypeOK

LEMMA QuietStep ==
  ASSUME TypeOK, NEW t \in Conns, NEW q, pc' = [pc EXCEPT ![t] = q],
         pc[t] # "unreg_free", q # "unreg_free", UNCHANGED <<mem, state, buddy, ext>>
  PROVE  Same({})
  BY RegisteredKept DEF Same

\* A thread that is inside an operation on its TU has a registered one.
LEMMA BodyRegistered ==
  ASSUME Base, NEW t \in Conns, pc[t] \notin NonePc \cup FreedPc \cup {"unreg_free"}
  PROVE  Registered(t)
  BY DEF Base, MemOK, Registered, TypeOK

\* What pairing says of one TU.
LEMMA PairOf ==
  ASSUME CallsPaired, NEW t \in Conns, Registered(t)
  PROVE  /\ state[t] \in InCall <=> buddy[t] # NULL
         /\ state[t] \in InCall =>
               /\ buddy[t] # t /\ Registered(buddy[t]) /\ buddy[buddy[t]] = t
               /\ state[buddy[t]] = Complement(state[t])
  BY DEF CallsPaired

LEMMA QuietEffect ==
  ASSUME Base, NEW t \in Conns,
         \/ RegisterRefused(t) \/ RegisterFinish(t) \/ UnregisterLockPbx(t)
         \/ UnregisterLockOwn(t) \/ UnregisterLockBuddy(t)
         \/ PickupLockOwn(t) \/ PickupLockBuddy(t)
         \/ HangupLockOwn(t) \/ HangupLockBuddy(t)
         \/ DialLockOwn(t) \/ DialLockPbx(t) \/ DialLockTarget(t)
         \/ ChatLockOwn(t) \/ ChatNobody(t) \/ ChatLockBuddy(t) \/ ChatBody(t)
  PROVE  Same({})
  <1>1. UNCHANGED <<mem, state, buddy, ext>>
    BY DEF RegisterRefused, RegisterFinish, UnregisterLockPbx, UnregisterLockOwn,
       UnregisterLockBuddy, PickupLockOwn, PickupLockBuddy, HangupLockOwn, HangupLockBuddy,
       DialLockOwn, DialLockPbx, DialLockTarget, ChatLockOwn, ChatNobody, ChatLockBuddy,
       ChatBody, LockOwn, LockBuddy, LockPbx, tuVars
  <1>2. \E q : pc[t] # "unreg_free" /\ q # "unreg_free" /\ pc' = [pc EXCEPT ![t] = q]
    <2>1. ASSUME NEW from, NEW to, Goto(t, from, to), from # "unreg_free", to # "unreg_free"
          PROVE  pc[t] # "unreg_free" /\ to # "unreg_free" /\ pc' = [pc EXCEPT ![t] = to]
      BY <2>1 DEF Goto
    <2>2. \E from, to : Goto(t, from, to) /\ from # "unreg_free" /\ to # "unreg_free"
      BY DEF RegisterRefused, RegisterFinish, UnregisterLockPbx, UnregisterLockOwn,
         UnregisterLockBuddy, PickupLockOwn, PickupLockBuddy, HangupLockOwn, HangupLockBuddy,
         DialLockOwn, DialLockPbx, DialLockTarget, ChatLockOwn, ChatNobody, ChatLockBuddy,
         ChatBody, LockOwn, LockBuddy, LockPbx
    <2> QED
      BY <2>1, <2>2
  <1> QED
    BY <1>1, <1>2, QuietStep DEF Base

LEMMA RegistryEffect ==
  ASSUME Base, CallsPaired, NEW t \in Conns,
         RegisterSetup(t) \/ UnregisterBody(t) \/ UnregisterFree(t) \/ UnregisterPost(t)
  PROVE  Effect(t)
  <1> USE DEF Base, TypeOK
  <1>1. CASE RegisterSetup(t)
    <2>1. pc[t] = "reg_pbx" /\ pc' = [pc EXCEPT ![t] = "reg_exit"]
      BY <1>1 DEF RegisterSetup, Goto
    <2>2. mem[t] = "none"
      BY <2>1 DEF Base, MemOK, NonePc
    <2>3. PICK n \in Exts : tus[n] = NULL /\ ext' = [ext EXCEPT ![t] = n]
      BY <1>1 DEF RegisterSetup, get_next_available_extension
    <2> QED
      BY <1>1, <2>1, <2>2, <2>3 DEF RegisterSetup, Effect, Registers, Same, Registered
  <1>2. CASE UnregisterBody(t)
    <2>1. pc[t] = "unreg_body" /\ pc' = [pc EXCEPT ![t] = "unreg_free"]
      BY <1>2 DEF UnregisterBody, Goto
    <2>2. UNCHANGED <<mem, ext>>
      BY <1>2 DEF UnregisterBody
    <2>3. Registered(t) /\ ~Registered(t)'
      BY <2>1, <2>2, BodyRegistered DEF Registered, NonePc, FreedPc
    <2>4. \A c \in Conns \ {t} : Registered(c)' = Registered(c)
      BY <2>1, <2>2 DEF Registered
    <2>5. CASE state[t] \in InCall
      <3>1. PICK b \in Conns \ {t} : b = buddy[t] /\ Registered(b)
        BY <2>3, <2>5, PairOf
      <3>2. /\ state' = [state EXCEPT ![b] = PeerAfter(state[t])]
            /\ \A c \in Conns : buddy'[c] = IF c = b THEN NULL ELSE buddy[c]
        BY <1>2, <2>5, <3>1 DEF UnregisterBody, Unlink
      <3>3. Becomes(b, PeerAfter(state[t]), NULL) /\ Same({t, b})
        BY <2>2, <2>4, <3>1, <3>2 DEF Becomes, Same
      <3> QED
        BY <2>3, <2>5, <3>1, <3>3 DEF Effect, Leaves, Released
    <2>6. CASE state[t] \notin InCall
      <3>1. UNCHANGED <<state, buddy>>
        BY <1>2, <2>6 DEF UnregisterBody
      <3>2. Same({t})
        BY <2>2, <2>4, <3>1 DEF Same
      <3> QED
        BY <2>3, <2>6, <3>2 DEF Effect, Leaves, Released
    <2> QED
      BY <2>5, <2>6
  <1>3. CASE UnregisterFree(t)
    <2>1. /\ pc[t] = "unreg_free" /\ pc' = [pc EXCEPT ![t] = "unreg_post"]
          /\ mem' = [mem EXCEPT ![t] = "freed"] /\ UNCHANGED ext
          /\ \A c \in Conns \ {t} : state'[c] = state[c] /\ buddy'[c] = buddy[c]
      BY <1>3 DEF UnregisterFree, Goto
    <2> QED
      BY <2>1 DEF Effect, Same, Registered
  <1>4. CASE UnregisterPost(t)
    <2>1. /\ pc[t] = "unreg_post" /\ pc' = [pc EXCEPT ![t] = "gone"]
          /\ UNCHANGED <<mem, state, buddy>>
          /\ \A c \in Conns \ {t} : ext'[c] = ext[c]
      BY <1>4 DEF UnregisterPost, Goto
    <2>2. mem[t] = "freed"
      BY <2>1 DEF MemOK, FreedPc
    <2> QED
      BY <2>1, <2>2 DEF Effect, Same, Registered
  <1> QED
    BY <1>1, <1>2, <1>3, <1>4

\* The two ends of a call come into new states.
LEMMA BothChange ==
  ASSUME NEW a \in Conns, NEW b \in Conns \ {a}, Registered(a), Registered(b),
         UNCHANGED ext, \A c \in Conns : Registered(c)' = Registered(c),
         \A c \in Conns \ {a, b} : state'[c] = state[c] /\ buddy'[c] = buddy[c]
  PROVE  /\ Becomes(a, state'[a], buddy'[a]) /\ Becomes(b, state'[b], buddy'[b])
         /\ Same({a, b})
  BY DEF Becomes, Same

LEMMA PhoneEffect ==
  ASSUME Base, CallsPaired, NEW t \in Conns, PickupBody(t) \/ HangupBody(t)
  PROVE  Effect(t)
  <1> USE DEF Base, TypeOK
  <1>1. /\ pc[t] \in {"pick_body", "hang_body"} /\ pc' = [pc EXCEPT ![t] = "idle"]
        /\ UNCHANGED <<mem, ext>>
    BY DEF PickupBody, HangupBody, Goto
  <1>2. \A c \in Conns : Registered(c)' = Registered(c)
    BY <1>1, RegisteredKept
  <1>3. Registered(t)
    BY <1>1, BodyRegistered DEF NonePc, FreedPc
  <1>4. /\ state[t] \notin InCall => buddy[t] = NULL
        /\ state[t] \in InCall =>
              \E b \in Conns \ {t} : b = buddy[t] /\ Registered(b) /\ buddy[b] = t
    BY <1>3, PairOf
  <1>5. CASE PickupBody(t) /\ state[t] = "ON HOOK"
    <2>1. state' = [state EXCEPT ![t] = "DIAL TONE"] /\ UNCHANGED buddy
      BY <1>5 DEF PickupBody
    <2> QED
      BY <1>1, <1>2, <1>3, <1>4, <1>5, <2>1 DEF Effect, PicksUp, Becomes, Same, InCall
  <1>6. CASE PickupBody(t) /\ state[t] = "RINGING"
    <2>1. PICK b \in Conns \ {t} : b = buddy[t] /\ Registered(b) /\ buddy[b] = t
      BY <1>4, <1>6 DEF InCall
    <2>2. state' = [state EXCEPT ![t] = "CONNECTED", ![b] = "CONNECTED"] /\ UNCHANGED buddy
      BY <1>6, <2>1 DEF PickupBody
    <2>3. /\ state'[t] = "CONNECTED" /\ buddy'[t] = b
          /\ state'[b] = "CONNECTED" /\ buddy'[b] = t
          /\ \A c \in Conns \ {t, b} : state'[c] = state[c] /\ buddy'[c] = buddy[c]
      BY <2>1, <2>2
    <2> HIDE DEF Base, TypeOK
    <2>4. /\ Becomes(t, state'[t], buddy'[t]) /\ Becomes(b, state'[b], buddy'[b])
          /\ Same({t, b})
      BY <1>1, <1>2, <1>3, <2>1, <2>3, BothChange
    <2>5. Becomes(t, "CONNECTED", b) /\ Becomes(b, "CONNECTED", t) /\ Same({t, b})
      BY <2>3, <2>4
    <2> QED
      BY <1>6, <2>1, <2>5 DEF Effect, Answers
  <1>7. CASE PickupBody(t) /\ state[t] \notin {"ON HOOK", "RINGING"}
    BY <1>1, <1>2, <1>7 DEF PickupBody, Effect, Same
  <1>8. CASE HangupBody(t) /\ state[t] \in InCall
    <2>1. PICK b \in Conns \ {t} : b = buddy[t] /\ Registered(b) /\ buddy[b] = t
      BY <1>4, <1>8
    <2>2. PICK s : s = PeerAfter(state[t])
      OBVIOUS
    <2>3. /\ state' = [state EXCEPT ![t] = "ON HOOK", ![b] = s]
          /\ \A c \in Conns : buddy'[c] = IF c \in {t, b} THEN NULL ELSE buddy[c]
      BY <1>8, <2>1, <2>2 DEF HangupBody, Unlink
    <2>4. /\ state'[t] = "ON HOOK" /\ buddy'[t] = NULL
          /\ state'[b] = s /\ buddy'[b] = NULL
          /\ \A c \in Conns \ {t, b} : state'[c] = state[c] /\ buddy'[c] = buddy[c]
      BY <2>1, <2>3
    <2> HIDE DEF Base, TypeOK
    <2>5. /\ Becomes(t, state'[t], buddy'[t]) /\ Becomes(b, state'[b], buddy'[b])
          /\ Same({t, b})
      BY <1>1, <1>2, <1>3, <2>1, <2>4, BothChange
    <2>6. Becomes(t, "ON HOOK", NULL) /\ Becomes(b, s, NULL) /\ Same({t, b})
      BY <2>4, <2>5
    <2> QED
      BY <1>8, <2>1, <2>2, <2>6 DEF Effect, HangsUp, Released
  <1>9. CASE HangupBody(t) /\ state[t] \notin InCall
    <2>1. state' = [state EXCEPT ![t] = "ON HOOK"] /\ UNCHANGED buddy
      BY <1>9 DEF HangupBody
    <2> QED
      BY <1>1, <1>2, <1>3, <1>4, <1>9, <2>1
         DEF Effect, HangsUp, Released, Becomes, Same
  <1> QED
    BY <1>5, <1>6, <1>7, <1>8, <1>9

LEMMA DialEffect ==
  ASSUME Base, CallsPaired, Places, NEW t \in Conns, DialNobody(t) \/ DialBody(t)
  PROVE  Effect(t)
  <1> USE DEF Base, TypeOK
  <1>0. Goto(t, "dial_check", "idle") \/ Goto(t, "dial_body", "idle")
    BY DEF DialNobody, DialBody
  <1>1. /\ pc[t] \in {"dial_check", "dial_body"} /\ pc' = [pc EXCEPT ![t] = "idle"]
        /\ UNCHANGED <<mem, ext>>
    BY <1>0 DEF DialNobody, DialBody, Goto
  <1>2. \A c \in Conns : Registered(c)' = Registered(c)
    BY <1>1, RegisteredKept
  <1>3. Registered(t) /\ state[t] = "DIAL TONE"
    BY <1>1, BodyRegistered DEF NonePc, FreedPc, Places, DialPc
  <1>4. buddy[t] = NULL
    BY <1>3, PairOf DEF InCall
  <1>5. PICK q : q = tus[dialed[t]]
    OBVIOUS
  <1>6. ASSUME q = NULL, state' = [state EXCEPT ![t] = "ERROR"], UNCHANGED buddy
        PROVE  Effect(t)
    BY <1>1, <1>2, <1>3, <1>4, <1>5, <1>6 DEF Effect, Fails, Becomes, Same
  <1>7. ASSUME q \in Conns, q = t \/ state[q] # "ON HOOK",
               state' = [state EXCEPT ![t] = "BUSY SIGNAL"], UNCHANGED buddy
        PROVE  Effect(t)
    BY <1>1, <1>2, <1>3, <1>4, <1>5, <1>7 DEF Effect, Fails, Becomes, Same
  <1>8. CASE DialNobody(t)
    <2>1. \/ q = NULL /\ state' = [state EXCEPT ![t] = "ERROR"]
          \/ q # NULL /\ dialed[t] = ext[t] /\ state' = [state EXCEPT ![t] = "BUSY SIGNAL"]
      BY <1>3, <1>5, <1>8 DEF DialNobody
    <2>2. dialed[t] = ext[t] => q = t
      <3>1. ext[t] \in Exts
        OBVIOUS
      <3> HIDE DEF TypeOK
      <3>2. tus[ext[t]] = t
        BY <1>3, <3>1 DEF RegistryOK
      <3> QED
        BY <1>5, <3>2
    <2>3. UNCHANGED buddy
      BY <1>8 DEF DialNobody
    <2> QED
      BY <1>6, <1>7, <2>1, <2>2, <2>3
  <1>9. CASE DialBody(t)
    <2>1. pc[t] = "dial_body"
      BY <1>9 DEF DialBody, Goto
    <2>2. q \in Conns \ {t}
      BY <1>5, <2>1 DEF Locks, LocksOK
    <2>3. Registered(q)
      BY <1>5, <2>2 DEF RegistryOK
    <2>6. pbxMutex = t
      BY <2>1 DEF Locks, PbxMutexHeld, HoldsPbx
    <2>4. CASE state[q] = "ON HOOK"
      <3>1. /\ state' = [state EXCEPT ![t] = "RING BACK", ![q] = "RINGING"]
            /\ buddy' = [buddy EXCEPT ![t] = q, ![q] = t]
        BY <1>5, <1>9, <2>4 DEF DialBody
      <3>2. /\ state'[t] = "RING BACK" /\ buddy'[t] = q
            /\ state'[q] = "RINGING" /\ buddy'[q] = t
            /\ \A c \in Conns \ {t, q} : state'[c] = state[c] /\ buddy'[c] = buddy[c]
        BY <2>2, <3>1
      <3> HIDE DEF Base, TypeOK
      <3>3. /\ Becomes(t, state'[t], buddy'[t]) /\ Becomes(q, state'[q], buddy'[q])
            /\ Same({t, q})
        BY <1>1, <1>2, <1>3, <2>2, <2>3, <3>2, BothChange
      <3>4. /\ Becomes(t, "RING BACK", q) /\ Becomes(q, "RINGING", t)
            /\ Same({t, q})
        BY <3>2, <3>3
      <3> QED
        BY <1>3, <1>5, <2>2, <2>4, <2>6, <3>4 DEF Effect, Rings
    <2>5. CASE state[q] # "ON HOOK"
      <3>1. state' = [state EXCEPT ![t] = "BUSY SIGNAL"] /\ UNCHANGED buddy
        BY <1>5, <1>9, <2>5 DEF DialBody
      <3> QED
        BY <1>7, <2>2, <2>5, <3>1
    <2> QED
      BY <2>4, <2>5
  <1> QED
    BY <1>8, <1>9

LEMMA StepEffect ==
  ASSUME Base, CallsPaired, Places, NEW t \in Conns, Step(t)
  PROVE  Effect(t)
  BY QuietEffect, RegistryEffect, PhoneEffect, DialEffect DEF Step, Effect

-----------------------------------------------------------------------------
(* CallsPaired *)

\* The other end of the call of t is no third party's.
LEMMA NoThirdParty ==
  ASSUME TypeOK, CallsPaired, NEW t \in Conns, Registered(t), buddy[t] # NULL,
         NEW c \in Conns \ {t, buddy[t]}, Registered(c)
  PROVE  buddy[c] \notin {t, buddy[t]}
  BY DEF CallsPaired

Paired(c) ==
  Registered(c) =>
     /\ state[c] \in InCall <=> buddy[c] # NULL
     /\ buddy[c] # NULL => /\ buddy[c] # c /\ Registered(buddy[c]) /\ buddy[buddy[c]] = c
                           /\ state[buddy[c]] = Complement(state[c])

LEMMA PairedAll ==
  ASSUME \A c \in Conns : Paired(c)'
  PROVE  CallsPaired'
  BY DEF CallsPaired, Paired

\* A TU that a step does not touch, nor the other end of its call.
LEMMA PairedKept ==
  ASSUME TypeOK, CallsPaired, NEW S, Same(S), NEW c \in Conns \ S,
         Registered(c) => buddy[c] \notin S
  PROVE  Paired(c)'
  <1> SUFFICES ASSUME Registered(c)' PROVE Paired(c)'
    BY DEF Paired
  <1>1. /\ Registered(c) /\ state'[c] = state[c] /\ buddy'[c] = buddy[c]
    BY DEF Same
  <1>2. CASE buddy[c] = NULL
    BY <1>1, <1>2 DEF CallsPaired, Paired
  <1>3. CASE buddy[c] # NULL
    <2> DEFINE b == buddy[c]
    <2>1. b \in Conns \ S /\ Registered(b)
      BY <1>1, <1>3 DEF CallsPaired, TypeOK
    <2>2. Registered(b)' /\ state'[b] = state[b] /\ buddy'[b] = buddy[b]
      BY <2>1 DEF Same
    <2> QED
      BY <1>1, <1>3, <2>2 DEF CallsPaired, Paired
  <1> QED
    BY <1>2, <1>3

LEMMA EffectPaired ==
  ASSUME TypeOK, CallsPaired, NEW t \in Conns, Effect(t)
  PROVE  CallsPaired'
  <1>1. CASE Same({})
    <2>1. \A c \in Conns : Paired(c)'
      BY <1>1, PairedKept
    <2> QED
      BY <2>1, PairedAll
  <1>2. ASSUME Same({t}), Registered(t) => state[t] \notin InCall,
               Registered(t)' => state'[t] \notin InCall /\ buddy'[t] = NULL
        PROVE  CallsPaired'
    <2>1. \A c \in Conns \ {t} : Registered(c) => buddy[c] # t
      BY <1>2 DEF CallsPaired
    <2>2. Paired(t)'
      BY <1>2 DEF Paired
    <2>3. \A c \in Conns \ {t} : Paired(c)'
      BY <1>2, <2>1, PairedKept
    <2> QED
      BY <2>2, <2>3, PairedAll
  <1>3. ASSUME NEW b \in Conns \ {t}, Same({t, b}), Paired(t)', Paired(b)', Registered(t),
               \/ state[t] \in InCall /\ b = buddy[t]
               \/ state[t] \notin InCall /\ Registered(b) /\ state[b] \notin InCall
        PROVE  CallsPaired'
    <2>1. \A c \in Conns \ {t, b} : Registered(c) => buddy[c] \notin {t, b}
      BY <1>3, NoThirdParty, PairOf DEF CallsPaired
    <2>2. \A c \in Conns \ {t, b} : Paired(c)'
      BY <1>3, <2>1, PairedKept
    <2> QED
      BY <1>3, <2>2, PairedAll
  <1>4. CASE Registers(t)
    BY <1>2, <1>4 DEF Registers, InCall
  <1>5. CASE (Leaves(t) \/ HangsUp(t)) /\ state[t] \in InCall
    <2>1. PICK b \in Conns \ {t} :
             /\ b = buddy[t] /\ Same({t, b})
             /\ state'[b] = PeerAfter(state[t]) /\ buddy'[b] = NULL
      BY <1>5 DEF Leaves, HangsUp, Released, Becomes
    <2>2. Registered(t) /\ (Registered(t)' => state'[t] = "ON HOOK" /\ buddy'[t] = NULL)
      BY <1>5 DEF Leaves, HangsUp, Becomes
    <2>3. Paired(t)' /\ Paired(b)'
      BY <2>1, <2>2 DEF Paired, InCall, PeerAfter
    <2> QED
      BY <1>3, <1>5, <2>1, <2>2, <2>3
  <1>6. CASE (Leaves(t) \/ HangsUp(t)) /\ state[t] \notin InCall
    BY <1>2, <1>6 DEF Leaves, HangsUp, Released, Becomes, InCall
  <1>7. CASE PicksUp(t) \/ Fails(t)
    BY <1>2, <1>7 DEF PicksUp, Fails, Becomes, InCall
  <1>8. CASE Answers(t)
    <2>1. PICK b \in Conns \ {t} :
             /\ b = buddy[t] /\ Same({t, b})
             /\ Becomes(t, "CONNECTED", b) /\ Becomes(b, "CONNECTED", t)
      BY <1>8 DEF Answers
    <2>2. Paired(t)' /\ Paired(b)'
      BY <2>1 DEF Becomes, Paired, InCall, Complement
    <2> QED
      BY <1>3, <1>8, <2>1, <2>2 DEF Becomes, Answers, InCall
  <1>9. CASE Rings(t)
    <2>1. PICK q \in Conns \ {t} :
             /\ state[q] = "ON HOOK" /\ Same({t, q})
             /\ Becomes(t, "RING BACK", q) /\ Becomes(q, "RINGING", t)
      BY <1>9 DEF Rings
    <2>2. Paired(t)' /\ Paired(q)'
      BY <2>1 DEF Becomes, Paired, InCall, Complement
    <2> QED
      BY <1>3, <1>9, <2>1, <2>2 DEF Becomes, Rings, InCall
  <1> QED
    BY <1>1, <1>4, <1>5, <1>6, <1>7, <1>8, <1>9 DEF Effect

-----------------------------------------------------------------------------
(* Places *)

\* A thread in the middle of an operation keeps what it saw, whatever another
\* thread does: no call is put through to a TU with a dial tone, and no thread
\* writes to a TU whose mutex another one holds.
LEMMA OthersPlaces ==
  ASSUME Base, CallsPaired, Places, NEW t \in Conns, Step(t), Effect(t),
         NEW u \in Conns \ {t}, pc'[u] = pc[u]
  PROVE  /\ pc'[u] \in DialPc => state'[u] = "DIAL TONE"
         /\ pc'[u] \in ChatPc => state'[u] = "CONNECTED"
         /\ pc'[u] \in BuddyPc => buddy'[u] # NULL
         /\ pc'[u] = "reg_exit" => state'[u] = "ON HOOK"
  <1>1. CASE pc[u] \in DialPc \cup {"reg_exit"}
    <2>1. /\ Registered(u)
          /\ \/ pc[u] \in DialPc /\ state[u] = "DIAL TONE"
             \/ pc[u] = "reg_exit" /\ state[u] = "ON HOOK" /\ pbxMutex = u
      BY <1>1, BodyRegistered
         DEF Places, DialPc, NonePc, FreedPc, Base, Locks, PbxMutexHeld, HoldsPbx
    <2>2. ASSUME NEW b \in Conns, b = buddy[t], Registered(t), state[t] \in InCall
          PROVE  b # u
      BY <2>1, <2>2, PairOf DEF InCall, Complement
    <2>3. state'[u] = state[u]
      BY <2>1, <2>2
         DEF Effect, Same, Registers, Leaves, HangsUp, Released, PicksUp, Answers, Fails,
             Rings, Becomes, InCall
    <2> QED
      BY <1>1, <2>1, <2>3 DEF DialPc, ChatPc, BuddyPc
  <1>2. CASE pc[u] \in ChatPc \cup BuddyPc
    <2>1. tuMutex[u] = u
      BY <1>2 DEF Base, Locks, TuMutexesHeld, HoldsTu, HoldsOwn, ChatPc, BuddyPc
    <2>2. mem[u] = "live"
      BY <1>2 DEF Base, MemOK, NonePc, FreedPc, ChatPc, BuddyPc, TypeOK
    <2>3. ~HoldsTu(t, u)
      BY <2>1 DEF Base, Locks, TuMutexesHeld
    <2>4. state'[u] = state[u] /\ buddy'[u] = buddy[u]
      BY <2>2, <2>3, WritesStep DEF Base
    <2> QED
      BY <1>2, <2>4 DEF Places, DialPc, ChatPc, BuddyPc
  <1> QED
    BY <1>1, <1>2

LEMMA OwnPlaces ==
  ASSUME Base, CallsPaired, Places, NEW t \in Conns, Step(t)
  PROVE  /\ pc'[t] \in DialPc => state'[t] = "DIAL TONE"
         /\ pc'[t] \in ChatPc => state'[t] = "CONNECTED"
         /\ pc'[t] \in BuddyPc => buddy'[t] # NULL
         /\ pc'[t] = "reg_exit" => state'[t] = "ON HOOK"
  <1> USE DEF DialPc, ChatPc, BuddyPc, Goto
  <1>t. pc \in [Conns -> ThreadPc] /\ state \in [Conns -> TU_STATE]
    BY DEF Base, TypeOK
  <1>1. CASE \/ RegisterRefused(t) \/ RegisterSetup(t) \/ RegisterFinish(t)
             \/ UnregisterBody(t) \/ UnregisterFree(t) \/ UnregisterPost(t)
             \/ PickupBody(t) \/ HangupBody(t) \/ DialNobody(t)
             \/ ChatNobody(t) \/ ChatBody(t)
    <2>1. \/ pc'[t] \in {"refused", "idle", "unreg_free", "unreg_post", "gone"}
          \/ pc'[t] = "reg_exit" /\ state'[t] = "ON HOOK"
      BY <1>1, <1>t DEF RegisterRefused, RegisterSetup, RegisterFinish, UnregisterBody,
         UnregisterFree, UnregisterPost, PickupBody, HangupBody, DialNobody, ChatNobody,
         ChatBody
    <2> QED
      BY <2>1
  <1>2. CASE DialBody(t)
    <2>1. Goto(t, "dial_body", "idle")
      BY <1>2 DEF DialBody
    <2> QED
      BY <1>t, <2>1
  <1>3. CASE \/ UnregisterLockOwn(t) \/ PickupLockOwn(t) \/ HangupLockOwn(t)
             \/ UnregisterLockPbx(t)
    <2>1. /\ UNCHANGED <<state, buddy>>
          /\ \/ buddy[t] # NULL /\ pc'[t] \in {"unreg_buddy", "pick_buddy", "hang_buddy"}
             \/ pc'[t] \in {"unreg_body", "pick_body", "hang_body", "unreg_own"}
      BY <1>3, <1>t DEF UnregisterLockOwn, PickupLockOwn, HangupLockOwn, UnregisterLockPbx,
         LockOwn, LockPbx, tuVars
    <2> QED
      BY <2>1
  <1>4. CASE \/ UnregisterLockBuddy(t) \/ PickupLockBuddy(t) \/ HangupLockBuddy(t)
    <2>1. pc'[t] \in {"unreg_body", "pick_body", "hang_body"}
      BY <1>4, <1>t DEF UnregisterLockBuddy, PickupLockBuddy, HangupLockBuddy, LockBuddy
    <2> QED
      BY <2>1
  <1>5. CASE DialLockOwn(t) \/ DialLockPbx(t) \/ DialLockTarget(t)
    <2>1. /\ UNCHANGED state /\ pc[t] \in {"dial_own", "dial_pbx", "dial_check"}
          /\ pc'[t] \in {"dial_pbx", "dial_check", "dial_body"}
      BY <1>5, <1>t DEF DialLockOwn, DialLockPbx, DialLockTarget, LockOwn, LockPbx, tuVars
    <2> QED
      BY <2>1 DEF Places
  <1>6. CASE ChatLockOwn(t)
    <2>1. /\ pc[t] = "chat_own" /\ pc'[t] = "chat_buddy" /\ state[t] = "CONNECTED"
          /\ UNCHANGED <<state, buddy>>
      BY <1>6, <1>t DEF ChatLockOwn
    <2>2. Registered(t)
      BY <2>1, BodyRegistered DEF NonePc, FreedPc
    <2> QED
      BY <2>1, <2>2, PairOf DEF InCall
  <1>7. CASE ChatLockBuddy(t)
    <2>1. pc[t] = "chat_buddy" /\ pc'[t] = "chat_body" /\ UNCHANGED state
      BY <1>7, <1>t DEF ChatLockBuddy, LockBuddy
    <2> QED
      BY <2>1 DEF Places
  <1> QED
    BY <1>1, <1>2, <1>3, <1>4, <1>5, <1>6, <1>7 DEF Step

LEMMA StepPc ==
  ASSUME TypeOK, NEW t \in Conns, Step(t), NEW u \in Conns \ {t}
  PROVE  pc'[u] = pc[u]
  <1>1. PICK from, to : Goto(t, from, to)
    <2>1. CASE DialBody(t)
      BY <2>1 DEF DialBody
    <2>2. CASE ~DialBody(t)
      BY <2>2 DEF Step, RegisterRefused, RegisterSetup, RegisterFinish, UnregisterLockPbx,
         UnregisterLockOwn, UnregisterLockBuddy, UnregisterBody, UnregisterFree,
         UnregisterPost, PickupLockOwn, PickupLockBuddy, PickupBody, HangupLockOwn,
         HangupLockBuddy, HangupBody, DialLockOwn, DialLockPbx, DialNobody, DialLockTarget,
         ChatLockOwn, ChatNobody, ChatLockBuddy, ChatBody, LockOwn, LockBuddy, LockPbx
    <2> QED
      BY <2>1, <2>2
  <1> QED
    BY <1>1 DEF Goto, TypeOK

LEMMA StepPlaces ==
  ASSUME Base, CallsPaired, Places, NEW t \in Conns, Step(t)
  PROVE  Places'
  <1>1. Effect(t)
    BY StepEffect
  <1>2. \A u \in Conns \ {t} : pc'[u] = pc[u]
    BY StepPc DEF Base
  <1> QED
    BY <1>1, <1>2, OwnPlaces, OthersPlaces DEF Places

\* A client that dials hears a dial tone, so its TU has one.
LEMMA CallsPlaces ==
  ASSUME Base, Places, Known, Disciplined, NEW t \in Conns, Calls(t)
  PROVE  Places'
  <1>1. /\ UNCHANGED <<state, buddy>>
        /\ \/ \E to : /\ pc' = [pc EXCEPT ![t] = to]
                            /\ to \in {"reg_pbx", "unreg_pbx", "pick_own", "hang_own", "chat_own"}
           \/ /\ pc[t] = "idle" /\ pc' = [pc EXCEPT ![t] = "dial_own"]
              /\ heard[t] = "DIAL TONE"
    BY DEF Calls, CallRegister, CallUnregister, CallPickup, CallHangup, CallChat, CallDial,
       Call, Goto, tuVars
  <1>2. pc[t] = "idle" => Registered(t)
    BY BodyRegistered DEF NonePc, FreedPc
  <1>3. pc[t] = "idle" /\ heard[t] = "DIAL TONE" => state[t] = "DIAL TONE"
    BY <1>2 DEF Known, InCall
  <1> QED
    BY <1>1, <1>3 DEF Places, Base, TypeOK, DialPc, ChatPc, BuddyPc

-----------------------------------------------------------------------------
(* Known *)

Knows(u) ==
  Registered(u) /\ pc[u] # "reg_exit" /\ heard[u] # state[u]
     => exiting /\ state[u] \in {"ON HOOK", "DIAL TONE"} /\ heard[u] \in InCall

\* A step that tells u its state, or leaves both as they are.
LEMMA KnowsKept ==
  ASSUME TypeOK, Known, NEW u \in Conns, UNCHANGED exiting,
         \/ heard'[u] = state'[u]
         \/ ~Registered(u)' \/ pc'[u] = "reg_exit"
         \/ /\ heard'[u] = heard[u] /\ state'[u] = state[u]
            /\ Registered(u)' => Registered(u)
            /\ pc[u] # "reg_exit"
  PROVE  Knows(u)'
  BY DEF Known, Knows

LEMMA KnownAll ==
  ASSUME \A u \in Conns : Knows(u)'
  PROVE  Known'
  BY DEF Known, Knows

\* The only step that leaves a client in the dark.
LEMMA UnregisterKnown ==
  ASSUME Base, CallsPaired, Known, NEW t \in Conns, UnregisterBody(t), NEW u \in Conns
  PROVE  Knows(u)'
  <1>1. /\ pc[t] = "unreg_body" /\ pc' = [pc EXCEPT ![t] = "unreg_free"]
        /\ UNCHANGED <<mem, exiting>>
    BY DEF UnregisterBody, Goto
  <1>2. Registered(t)
    BY <1>1, BodyRegistered DEF NonePc, FreedPc
  <1>3. u # t => pc'[u] = pc[u] /\ (Registered(u)' <=> Registered(u))
    BY <1>1 DEF Registered, Base, TypeOK
  <1>4. pc[u] # "reg_exit"
    BY <1>1 DEF Base, Locks, PbxMutexHeld, HoldsPbx
  <1>5. CASE u = t
    <2>1. ~Registered(u)'
      BY <1>1, <1>5 DEF Registered, Base, TypeOK
    <2> QED
      BY <2>1 DEF Knows
  <1>6. CASE u # t /\ (u # buddy[t] \/ state[t] \notin InCall)
    <2>1. state'[u] = state[u] /\ heard'[u] = heard[u]
      BY <1>6 DEF UnregisterBody, Notify, Base, TypeOK
    <2> QED
      BY <1>1, <1>3, <1>4, <1>6, <2>1, KnowsKept DEF Base
  <1>7. CASE u = buddy[t] /\ u # t /\ state[t] \in InCall
    <2>1. state'[u] = PeerAfter(state[t]) /\ state'[u] \in {"ON HOOK", "DIAL TONE"}
      BY <1>7 DEF UnregisterBody, PeerAfter, Base, TypeOK
    <2>2. Registered(u) /\ state[u] \in InCall
      BY <1>2, <1>7, PairOf DEF Complement, InCall
    <2>3. heard[u] = state[u]
      BY <1>4, <2>2 DEF Known, InCall
    <2>4. \/ heard'[u] = state'[u]
          \/ exiting /\ heard'[u] = heard[u]
      BY <1>7, <2>1 DEF UnregisterBody, Notify
    <2> QED
      BY <1>1, <2>1, <2>2, <2>3, <2>4 DEF Knows
  <1> QED
    BY <1>5, <1>6, <1>7

LEMMA StepKnown ==
  ASSUME Base, CallsPaired, Known, NEW t \in Conns, Step(t)
  PROVE  Known'
  <1> SUFFICES ASSUME NEW u \in Conns PROVE Knows(u)'
    BY KnownAll
  <1> USE DEF Base
  <1>t. state \in [Conns -> TU_STATE] /\ heard \in [Conns -> TU_STATE \cup {"nothing"}]
    BY DEF TypeOK
  <1>1. u # t => pc'[u] = pc[u]
    BY StepPc
  <1>2. UNCHANGED exiting
    <2>1. CASE DialBody(t)
      BY <2>1 DEF DialBody
    <2>2. CASE ~DialBody(t)
      BY <2>2 DEF Step, RegisterRefused, RegisterSetup, RegisterFinish, UnregisterLockPbx,
         UnregisterLockOwn, UnregisterLockBuddy, UnregisterBody, UnregisterFree,
         UnregisterPost, PickupLockOwn, PickupLockBuddy, PickupBody, HangupLockOwn,
         HangupLockBuddy, HangupBody, DialLockOwn, DialLockPbx, DialNobody, DialLockTarget,
         ChatLockOwn, ChatNobody, ChatLockBuddy, ChatBody, LockOwn, LockBuddy, LockPbx,
         pbxVars
    <2> QED
      BY <2>1, <2>2
  <1>3. ASSUME UNCHANGED mem, heard'[u] = heard[u] /\ state'[u] = state[u],
               NEW q, pc' = [pc EXCEPT ![t] = q],
               pc[t] \notin {"unreg_free", "reg_exit"}
        PROVE  Knows(u)'
    <2>1. Registered(u)' => Registered(u)
      BY <1>3 DEF Registered, TypeOK
    <2>2. pc[u] = "reg_exit" => pc'[u] = "reg_exit"
      BY <1>3 DEF TypeOK
    <2> QED
      BY <1>2, <1>3, <2>1, <2>2, KnowsKept
  <1>4. ASSUME heard'[u] = state'[u] PROVE Knows(u)'
    BY <1>2, <1>4, KnowsKept
  <1>5. CASE \/ RegisterRefused(t) \/ UnregisterLockPbx(t) \/ UnregisterLockOwn(t)
             \/ UnregisterLockBuddy(t) \/ PickupLockOwn(t) \/ PickupLockBuddy(t)
             \/ HangupLockOwn(t) \/ HangupLockBuddy(t) \/ DialLockOwn(t) \/ DialLockPbx(t)
             \/ DialLockTarget(t) \/ ChatLockOwn(t) \/ ChatLockBuddy(t)
    <2>1. \E from, to : Goto(t, from, to) /\ from # "unreg_free" /\ from # "reg_exit"
      BY <1>5 DEF RegisterRefused, UnregisterLockPbx, UnregisterLockOwn,
         UnregisterLockBuddy, PickupLockOwn, PickupLockBuddy, HangupLockOwn, HangupLockBuddy,
         DialLockOwn, DialLockPbx, DialLockTarget, ChatLockOwn, ChatLockBuddy,
         LockOwn, LockBuddy, LockPbx
    <2>2. UNCHANGED <<mem, heard, state>>
      BY <1>5 DEF RegisterRefused, UnregisterLockPbx, UnregisterLockOwn,
         UnregisterLockBuddy, PickupLockOwn, PickupLockBuddy, HangupLockOwn, HangupLockBuddy,
         DialLockOwn, DialLockPbx, DialLockTarget, ChatLockOwn, ChatLockBuddy,
         LockOwn, LockBuddy, LockPbx, tuVars, lineVars
    <2> QED
      BY <1>3, <2>1, <2>2 DEF Goto
  <1>6. CASE RegisterSetup(t)
    <2>1. /\ pc' = [pc EXCEPT ![t] = "reg_exit"] /\ mem' = [mem EXCEPT ![t] = "live"]
          /\ state' = [state EXCEPT ![t] = "ON HOOK"] /\ UNCHANGED heard
          /\ pc[t] = "reg_pbx" /\ pbxMutex = NULL
      BY <1>6 DEF RegisterSetup, Goto, lineVars
    <2>2. u # t => /\ state'[u] = state[u] /\ heard'[u] = heard[u]
                   /\ Registered(u)' = Registered(u)
      BY <1>1, <2>1 DEF Registered, TypeOK
    <2>3. pc[u] # "reg_exit"
      BY <2>1 DEF Locks, PbxMutexHeld, HoldsPbx
    <2>4. u = t => pc'[u] = "reg_exit"
      BY <2>1 DEF TypeOK
    <2> QED
      BY <1>2, <2>2, <2>3, <2>4, KnowsKept
  <1>7. CASE RegisterFinish(t) \/ ChatNobody(t) \/ ChatBody(t)
    <2>1. /\ \E from : pc[t] = from /\ from \in {"reg_exit", "chat_own", "chat_body"}
          /\ pc' = [pc EXCEPT ![t] = "idle"]
          /\ heard' = [c \in Conns |-> IF c \in {t} THEN state[t] ELSE heard[c]]
          /\ UNCHANGED <<mem, state>>
      BY <1>7 DEF RegisterFinish, ChatNobody, ChatBody, Goto, Notify, tuVars
    <2>2. CASE u = t
      BY <1>4, <2>1, <2>2
    <2>3. CASE u # t
      <3>1. /\ state'[u] = state[u] /\ heard'[u] = heard[u]
            /\ Registered(u)' = Registered(u)
        BY <1>1, <2>1, <2>3 DEF Registered
      <3>2. pc[u] = "reg_exit" => pc'[u] = "reg_exit"
        BY <1>1, <2>3
      <3> QED
        BY <1>2, <3>1, <3>2, KnowsKept
    <2> QED
      BY <2>2, <2>3
  <1>8. CASE UnregisterFree(t) \/ UnregisterPost(t)
    <2>1. /\ pc[t] \in {"unreg_free", "unreg_post"}
          /\ mem'[t] = "freed"
          /\ \A c \in Conns \ {t} : mem'[c] = mem[c] /\ state'[c] = state[c] /\ heard'[c] = heard[c]
      BY <1>8 DEF UnregisterFree, UnregisterPost, Goto, lineVars, MemOK, FreedPc, TypeOK
    <2>2. u = t => ~Registered(u)'
      BY <2>1 DEF Registered
    <2>3. u # t => /\ state'[u] = state[u] /\ heard'[u] = heard[u]
                   /\ Registered(u)' = Registered(u)
                   /\ pc[u] = "reg_exit" => pc'[u] = "reg_exit"
      BY <1>1, <2>1 DEF Registered
    <2> QED
      BY <1>2, <2>2, <2>3, KnowsKept
  <1>9. CASE PickupBody(t)
    <2>0. PICK b : b = buddy[t]
      OBVIOUS
    <2>1. \/ heard'[u] = state'[u]
          \/ heard'[u] = heard[u] /\ state'[u] = state[u]
      <3>1. CASE state[t] = "ON HOOK"
        BY <1>9, <3>1 DEF PickupBody, Notify, TypeOK
      <3>2. CASE state[t] = "RINGING"
        <4>1. /\ state' = [state EXCEPT ![t] = "CONNECTED", ![b] = "CONNECTED"]
              /\ heard' = [c \in Conns |-> IF c \in {t, b} THEN "CONNECTED" ELSE heard[c]]
          BY <1>9, <2>0, <3>2 DEF PickupBody, Notify
        <4> QED
          BY <1>t, <4>1
      <3>3. CASE state[t] \notin {"ON HOOK", "RINGING"}
        BY <1>9, <3>3 DEF PickupBody, Notify
      <3> QED
        BY <3>1, <3>2, <3>3
    <2>2. pc[t] = "pick_body" /\ pc' = [pc EXCEPT ![t] = "idle"] /\ UNCHANGED mem
      BY <1>9 DEF PickupBody, Goto
    <2> QED
      BY <1>3, <1>4, <2>1, <2>2
  <1>10. CASE HangupBody(t)
    <2>0. PICK b, s : b = buddy[t] /\ s = PeerAfter(state[t])
      OBVIOUS
    <2>1. \/ heard'[u] = state'[u]
          \/ heard'[u] = heard[u] /\ state'[u] = state[u]
      <3>1. CASE state[t] \in InCall
        <4>1. /\ state' = [state EXCEPT ![t] = "ON HOOK", ![b] = s]
              /\ heard' = [heard EXCEPT ![t] = "ON HOOK", ![b] = s]
          BY <1>10, <2>0, <3>1 DEF HangupBody
        <4> QED
          BY <1>t, <4>1
      <3>2. CASE state[t] \notin InCall
        BY <1>10, <3>2 DEF HangupBody, Notify, TypeOK
      <3> QED
        BY <3>1, <3>2
    <2>2. pc[t] = "hang_body" /\ pc' = [pc EXCEPT ![t] = "idle"] /\ UNCHANGED mem
      BY <1>10 DEF HangupBody, Goto
    <2> QED
      BY <1>3, <1>4, <2>1, <2>2
  <1>11. CASE DialNobody(t)
    <2>1. \/ heard'[u] = state'[u]
          \/ heard'[u] = heard[u] /\ state'[u] = state[u]
      BY <1>11 DEF DialNobody, Notify, TypeOK
    <2>2. pc[t] = "dial_check" /\ pc' = [pc EXCEPT ![t] = "idle"] /\ UNCHANGED mem
      BY <1>11 DEF DialNobody, Goto
    <2> QED
      BY <1>3, <1>4, <2>1, <2>2
  <1>12. CASE DialBody(t)
    <2>1. PICK q : q = tus[dialed[t]]
      OBVIOUS
    <2>2. /\ Goto(t, "dial_body", "idle") /\ UNCHANGED mem
          /\ \/ /\ state' = [state EXCEPT ![t] = "RING BACK", ![q] = "RINGING"]
                /\ heard' = [heard EXCEPT ![t] = "RING BACK", ![q] = "RINGING"]
             \/ /\ state' = [state EXCEPT ![t] = "BUSY SIGNAL"]
                /\ Notify({t}, "BUSY SIGNAL")
      BY <1>12, <2>1 DEF DialBody
    <2>3. \/ heard'[u] = state'[u]
          \/ heard'[u] = heard[u] /\ state'[u] = state[u]
      BY <1>t, <2>2 DEF Notify
    <2>4. pc[t] = "dial_body" /\ pc' = [pc EXCEPT ![t] = "idle"]
      BY <2>2 DEF Goto
    <2> QED
      BY <1>3, <1>4, <2>2, <2>3, <2>4
  <1> QED
    BY <1>5, <1>6, <1>7, <1>8, <1>9, <1>10, <1>11, <1>12, UnregisterKnown DEF Step

-----------------------------------------------------------------------------
(* The invariant *)

Calm == Base /\ Calling /\ NoDanglingBuddy

\* A thread that follows a buddy pointer has a live TU to follow it to.
LEMMA BuddyIsLive ==
  ASSUME Base, Calling, NEW t \in Conns, UsesBuddy(t)
  PROVE  Live(buddy[t])
  <1>1. Registered(t)
    BY BodyRegistered DEF UsesBuddy, NonePc, FreedPc
  <1>2. buddy[t] # NULL
    BY <1>1, PairOf DEF UsesBuddy, Calling, Places, BuddyPc, InCall
  <1>3. Registered(buddy[t]) /\ buddy[t] \in Conns
    BY <1>1, <1>2, PairOf DEF Calling, Base, TypeOK
  <1> QED
    BY <1>3 DEF Live, Registered

LEMMA QuietCalling ==
  ASSUME Calling, UNCHANGED <<mem, pc, state, buddy, heard>>, exiting => exiting'
  PROVE  Calling'
  BY DEF Calling, CallsPaired, Places, Known, Registered

LEMMA CallsCalling ==
  ASSUME Disciplined, Base, Calling, NEW t \in Conns, Calls(t)
  PROVE  Calling'
  <1>1. PICK from, to : Goto(t, from, to) /\ from # "unreg_free" /\ to # "unreg_free"
                        /\ from # "reg_exit"
    BY DEF Calls, CallRegister, CallUnregister, CallPickup, CallHangup, CallChat, CallDial, Call
  <1>2. UNCHANGED <<mem, state, buddy, heard, exiting>>
    BY DEF Calls, CallRegister, CallUnregister, CallPickup, CallHangup, CallChat, CallDial,
       Call, tuVars, pbxVars, lineVars
  <1>3. \A c \in Conns : Registered(c)' = Registered(c)
    BY <1>1, <1>2, RegisteredKept DEF Goto, Base
  <1>4. CallsPaired'
    <2> SUFFICES ASSUME NEW c \in Conns PROVE Paired(c)'
      BY PairedAll
    <2>1. CASE buddy[c] \in Conns
      BY <1>2, <1>3, <2>1 DEF Calling, CallsPaired, Paired
    <2>2. CASE buddy[c] = NULL
      BY <1>2, <1>3, <2>2 DEF Calling, CallsPaired, Paired
    <2> QED
      BY <2>1, <2>2 DEF Base, TypeOK
  <1>5. \A u \in Conns : pc[u] = "reg_exit" => pc'[u] = "reg_exit"
    BY <1>1 DEF Goto, Base, TypeOK
  <1>6. Known'
    BY <1>2, <1>3, <1>5 DEF Calling, Known
  <1> QED
    BY <1>4, <1>6, CallsPlaces DEF Calling

LEMMA StepCalling ==
  ASSUME Base, Calling, NEW t \in Conns, Step(t)
  PROVE  Calling'
  BY StepEffect, EffectPaired, StepPlaces, StepKnown DEF Calling, Base

LEMMA MainCalling ==
  ASSUME Base, Calling, MainStep
  PROVE  Calling'
  <1>1. UNCHANGED <<mem, pc, state, buddy, heard>> /\ (exiting => exiting')
    BY DEF MainStep, Sighup, ShutdownBegin, ShutdownSkip, ShutdownFound, ShutdownRead,
       ShutdownConnection, ShutdownWait, ShutdownFree, Exit, Main, Turn, tuVars, pbxVars
  <1> QED
    BY <1>1, QuietCalling

LEMMA StepFault ==
  ASSUME NEW t \in Conns, Calls(t) \/ Step(t)
  PROVE  UNCHANGED fault
  <1>1. CASE DialBody(t)
    <2>1. Goto(t, "dial_body", "idle")
      BY <1>1 DEF DialBody
    <2> QED
      BY <2>1 DEF Goto
  <1>2. CASE ~DialBody(t)
    BY <1>2 DEF Calls, CallRegister, CallUnregister, CallPickup, CallHangup, CallChat,
       CallDial, Call, Step, RegisterRefused, RegisterSetup, RegisterFinish,
       UnregisterLockPbx, UnregisterLockOwn, UnregisterLockBuddy, UnregisterBody,
       UnregisterFree, UnregisterPost, PickupLockOwn, PickupLockBuddy, PickupBody,
       HangupLockOwn, HangupLockBuddy, HangupBody, DialLockOwn, DialLockPbx, DialNobody,
       DialLockTarget, ChatLockOwn, ChatNobody, ChatLockBuddy, ChatBody, LockOwn, LockBuddy,
       LockPbx, Goto
  <1> QED
    BY <1>1, <1>2

LEMMA NextCalm ==
  ASSUME Disciplined, Base, Calling, NoDanglingBuddy, [Next]_vars
  PROVE  Calling' /\ NoDanglingBuddy'
  <1>1. CASE \E t \in Conns : Calls(t) \/ Step(t)
    BY <1>1, CallsCalling, StepCalling, StepFault DEF NoDanglingBuddy
  <1>2. CASE MainStep
    <2>1. UNCHANGED fault
      BY <1>2 DEF MainStep, Sighup, ShutdownBegin, ShutdownSkip, ShutdownFound, ShutdownRead,
         ShutdownConnection, ShutdownWait, ShutdownFree, Exit, Main, Turn
    <2> QED
      BY <1>2, <2>1, MainCalling DEF NoDanglingBuddy
  <1>3. CASE UNCHANGED vars \/ ShutdownFault \/ \E t \in Conns : ThreadFault(t)
    <2>1. UNCHANGED <<mem, pc, state, buddy, heard, exiting>>
      BY <1>3 DEF vars, ThreadFault, ShutdownFault, tuVars, pbxVars, lineVars
    <2>2. fault' \in {fault, "freed PBX", "bad shutdown"}
      BY <1>3, BuddyIsLive DEF vars, ThreadFault, ShutdownFault
    <2> QED
      BY <2>1, <2>2, QuietCalling DEF NoDanglingBuddy
  <1> QED
    BY <1>1, <1>2, <1>3 DEF Next

LEMMA InitCalm == Init => Calling /\ NoDanglingBuddy
  <1> SUFFICES ASSUME Init PROVE Calling /\ NoDanglingBuddy
    OBVIOUS
  <1>1. fault = "none" /\ \A c \in Conns : mem[c] = "none" /\ pc[c] = "out"
    BY DEF Init
  <1> QED
    BY <1>1 DEF Calling, CallsPaired, Places, Known, NoDanglingBuddy, Registered, DialPc,
                ChatPc, BuddyPc

LEMMA CalmAlways ==
  ASSUME Disciplined
  PROVE  Spec => []Calm
  <1>1. Spec => []Base
    BY MemAndRegistry, LocksAlways, PTL DEF Base
  <1>2. Base /\ Calling /\ NoDanglingBuddy /\ [Next]_vars => (Calling /\ NoDanglingBuddy)'
    BY NextCalm
  <1> QED
    BY <1>1, <1>2, InitCalm, PTL DEF Spec, Calm

(***************************************************************************)
(* Calls are two-sided between any two steps of any threads: a TU has a    *)
(* buddy exactly while it is in a call, the buddy is registered, has this  *)
(* TU as its own buddy and the matching state.  tu_pickup, tu_hangup and   *)
(* pbx_unregister rely on it when they follow tu->buddy.                   *)
(***************************************************************************)
THEOREM CallsCorrect ==
  ASSUME Disciplined
  PROVE  Spec => []CallsPaired
  <1>1. Calm => CallsPaired
    BY DEF Calm, Calling
  <1> QED
    BY <1>1, CalmAlways, PTL

(***************************************************************************)
(* No operation follows a buddy pointer that is NULL or that leads to a TU *)
(* that pbx_unregister has freed.                                          *)
(***************************************************************************)
THEOREM BuddiesAreThere ==
  ASSUME Disciplined
  PROVE  Spec => []NoDanglingBuddy
  <1>1. Calm => NoDanglingBuddy
    BY DEF Calm
  <1> QED
    BY <1>1, CalmAlways, PTL

(***************************************************************************)
(* Until pbx_shutdown sets exiting, what a client was last told is the     *)
(* state its TU is in, also while other threads change that state.         *)
(***************************************************************************)
THEOREM ClientsAreTold ==
  ASSUME Disciplined
  PROVE  Spec => []ClientsKnowTheirState
  <1>1. Calm => ClientsKnowTheirState
    BY DEF Calm, Calling, Known, ClientsKnowTheirState
  <1> QED
    BY <1>1, CalmAlways, PTL

(***************************************************************************)
(* A chat reaches only the other end of an established call, and after     *)
(* both ends have been told that they are connected.                       *)
(***************************************************************************)
THEOREM ChatsStayInTheCall ==
  ASSUME Disciplined
  PROVE  Spec => []ChatOnlyToPeer
  <1>1. Calm => ChatOnlyToPeer
    <2> SUFFICES ASSUME Base, Calling, NEW t \in Conns, pc[t] = "chat_body"
                 PROVE  /\ Registered(buddy[t]) /\ buddy[buddy[t]] = t
                        /\ state[buddy[t]] = "CONNECTED"
                        /\ heard[buddy[t]] = "CONNECTED" /\ heard[t] = "CONNECTED"
      BY DEF Calm, ChatOnlyToPeer
    <2>1. Registered(t) /\ state[t] = "CONNECTED"
      BY BodyRegistered DEF Calling, Places, ChatPc, NonePc, FreedPc
    <2>2. buddy[t] # NULL
      BY <2>1, PairOf DEF Calling, InCall
    <2>3. buddy[t] \in Conns
      BY <2>2 DEF Base, TypeOK
    <2>4. /\ Registered(buddy[t]) /\ buddy[buddy[t]] = t
          /\ state[buddy[t]] = "CONNECTED"
      BY <2>1, PairOf DEF Calling, InCall, Complement
    <2>5. pc[t] # "reg_exit" /\ pc[buddy[t]] # "reg_exit"
      BY <2>3, <2>4 DEF Calling, Places
    <2> QED
      BY <2>1, <2>3, <2>4, <2>5 DEF Calling, Known, InCall
  <1> QED
    BY <1>1, CalmAlways, PTL

-----------------------------------------------------------------------------
(* PBX implements Exchange *)

\* The variables of Exchange.
aState == [t \in Conns |-> IF Registered(t) THEN state[t] ELSE "ON HOOK"]
aPeer == [t \in Conns |-> IF Registered(t) THEN buddy[t] ELSE NULL]
aNumber == [t \in Conns |-> IF Registered(t) THEN ext[t] ELSE NULL]

LEMMA MapsNothing ==
  ASSUME Same({})
  PROVE  UNCHANGED <<aState, aPeer, aNumber>>
  BY DEF Same, aState, aPeer, aNumber

LEMMA MapsOne ==
  ASSUME NEW t \in Conns, Same({t})
  PROVE  /\ aState' = [aState EXCEPT ![t] = aState'[t]]
         /\ aPeer' = [aPeer EXCEPT ![t] = aPeer'[t]]
         /\ aNumber' = [aNumber EXCEPT ![t] = aNumber'[t]]
  <1>1. \A c \in Conns \ {t} : /\ aState'[c] = aState[c]
                               /\ aPeer'[c] = aPeer[c]
                               /\ aNumber'[c] = aNumber[c]
    BY DEF Same, aState, aPeer, aNumber
  <1>2. /\ aState = [c \in Conns |-> aState[c]] /\ aState' = [c \in Conns |-> aState'[c]]
        /\ aPeer = [c \in Conns |-> aPeer[c]] /\ aPeer' = [c \in Conns |-> aPeer'[c]]
        /\ aNumber = [c \in Conns |-> aNumber[c]] /\ aNumber' = [c \in Conns |-> aNumber'[c]]
    BY DEF aState, aPeer, aNumber
  <1> QED
    BY <1>1, <1>2

LEMMA MapsTwo ==
  ASSUME NEW t \in Conns, NEW b \in Conns \ {t}, Same({t, b})
  PROVE  /\ aState' = [aState EXCEPT ![b] = aState'[b], ![t] = aState'[t]]
         /\ aPeer' = [aPeer EXCEPT ![b] = aPeer'[b], ![t] = aPeer'[t]]
         /\ aNumber' = [aNumber EXCEPT ![b] = aNumber'[b], ![t] = aNumber'[t]]
  <1>1. \A c \in Conns \ {t, b} : /\ aState'[c] = aState[c]
                                  /\ aPeer'[c] = aPeer[c]
                                  /\ aNumber'[c] = aNumber[c]
    BY DEF Same, aState, aPeer, aNumber
  <1>2. /\ aState = [c \in Conns |-> aState[c]] /\ aState' = [c \in Conns |-> aState'[c]]
        /\ aPeer = [c \in Conns |-> aPeer[c]] /\ aPeer' = [c \in Conns |-> aPeer'[c]]
        /\ aNumber = [c \in Conns |-> aNumber[c]] /\ aNumber' = [c \in Conns |-> aNumber'[c]]
    BY DEF aState, aPeer, aNumber
  <1> QED
    BY <1>1, <1>2

\* One TU as Exchange sees it.
LEMMA Mapped ==
  ASSUME NEW t \in Conns
  PROVE  /\ Registered(t) => aState[t] = state[t] /\ aPeer[t] = buddy[t] /\ aNumber[t] = ext[t]
         /\ ~Registered(t) => aState[t] = "ON HOOK" /\ aPeer[t] = NULL /\ aNumber[t] = NULL
         /\ Registered(t)' => aState'[t] = state'[t] /\ aPeer'[t] = buddy'[t] /\ aNumber'[t] = ext'[t]
         /\ ~Registered(t)' => aState'[t] = "ON HOOK" /\ aPeer'[t] = NULL /\ aNumber'[t] = NULL
  BY DEF aState, aPeer, aNumber

LEMMA PlugsIn ==
  ASSUME Base, NEW t \in Conns, Registers(t)
  PROVE  Abstract!Plug(t)
  <1>1. PICK n \in Exts : n = ext'[t] /\ tus[n] = NULL
    BY DEF Registers
  <1>2. aState'[t] = "ON HOOK" /\ aPeer'[t] = NULL /\ aNumber'[t] = n /\ aNumber[t] = NULL
    BY <1>1, Mapped DEF Registers
  <1>3. Same({t})
    BY DEF Registers
  <1>4. /\ aState' = [aState EXCEPT ![t] = "ON HOOK"]
        /\ aPeer' = [aPeer EXCEPT ![t] = NULL]
        /\ aNumber' = [aNumber EXCEPT ![t] = n]
    BY <1>2, <1>3, MapsOne
  <1>5. \A c \in Conns : aNumber[c] # n
    <2> SUFFICES ASSUME NEW c \in Conns, aNumber[c] = n PROVE FALSE
      OBVIOUS
    <2>1. n # NULL
      BY DEF Exts
    <2>2. Registered(c) /\ ext[c] = n
      BY <2>1, Mapped
    <2>3. tus[n] = c
      BY <2>2 DEF Base, RegistryOK
    <2> QED
      BY <1>1, <2>3
  <1> QED
    BY <1>2, <1>4, <1>5 DEF Abstract!Plug, Abstract!Plugged, aState, aPeer, aNumber

\* The other end of the call of t is where t leaves it, for Exchange too.
LEMMA LeavesCall ==
  ASSUME TypeOK, NEW t \in Conns, Registered(t), Released(t),
         aState'[t] = "ON HOOK", aPeer'[t] = NULL, CallsPaired
  PROVE  IF aState[t] \in InCall
         THEN /\ aState' = [aState EXCEPT ![aPeer[t]] = PeerAfter(aState[t]), ![t] = "ON HOOK"]
              /\ aPeer' = [aPeer EXCEPT ![aPeer[t]] = NULL, ![t] = NULL]
              /\ aNumber' = [aNumber EXCEPT ![t] = aNumber'[t]]
         ELSE /\ aState' = [aState EXCEPT ![t] = "ON HOOK"]
              /\ UNCHANGED aPeer
              /\ aNumber' = [aNumber EXCEPT ![t] = aNumber'[t]]
  <1>1. aState[t] = state[t] /\ aPeer[t] = buddy[t]
    BY Mapped
  <1>2. CASE state[t] \in InCall
    <2>1. PICK b \in Conns \ {t} : /\ b = buddy[t] /\ Same({t, b})
                                   /\ Becomes(b, PeerAfter(state[t]), NULL)
      BY <1>2 DEF Released
    <2>2. /\ aState'[b] = PeerAfter(state[t]) /\ aPeer'[b] = NULL
          /\ aNumber'[b] = aNumber[b]
      BY <2>1, Mapped DEF Becomes
    <2>m. /\ aState' = [aState EXCEPT ![b] = aState'[b], ![t] = aState'[t]]
          /\ aPeer' = [aPeer EXCEPT ![b] = aPeer'[b], ![t] = aPeer'[t]]
          /\ aNumber' = [aNumber EXCEPT ![b] = aNumber'[b], ![t] = aNumber'[t]]
      BY <2>1, MapsTwo
    <2>3. /\ aState' = [aState EXCEPT ![b] = PeerAfter(state[t]), ![t] = "ON HOOK"]
          /\ aPeer' = [aPeer EXCEPT ![b] = NULL, ![t] = NULL]
      BY <2>2, <2>m
    <2>4. aNumber' = [aNumber EXCEPT ![b] = aNumber[b], ![t] = aNumber'[t]]
      BY <2>2, <2>m
    <2>5. aNumber' = [aNumber EXCEPT ![t] = aNumber'[t]]
      BY <2>4 DEF aNumber
    <2> QED
      BY <1>1, <1>2, <2>1, <2>3, <2>5
  <1>3. CASE state[t] \notin InCall
    <2>1. Same({t})
      BY <1>3 DEF Released
    <2>2. buddy[t] = NULL
      BY <1>3, PairOf
    <2>3. aPeer' = [aPeer EXCEPT ![t] = aPeer[t]]
      BY <1>1, <2>1, <2>2, MapsOne
    <2>4. aPeer' = aPeer
      BY <2>3 DEF aPeer
    <2> QED
      BY <1>1, <1>3, <2>1, <2>4, MapsOne
  <1> QED
    BY <1>2, <1>3

LEMMA UnplugsOrHangsUp ==
  ASSUME Base, CallsPaired, NEW t \in Conns, Leaves(t) \/ HangsUp(t)
  PROVE  Abstract!Unplug(t) \/ Abstract!HangUp(t)
  <1>1. Registered(t) /\ Released(t)
    BY DEF Leaves, HangsUp, Becomes
  <1>2. aNumber[t] # NULL
    <2>1. ext[t] \in Exts /\ NULL \notin Exts
      BY DEF Base, TypeOK, Exts
    <2> QED
      BY <1>1, <2>1, Mapped
  <1>3. aState'[t] = "ON HOOK" /\ aPeer'[t] = NULL
    BY Mapped DEF Leaves, HangsUp, Becomes
  <1>4. CASE Leaves(t)
    <2>1. aNumber'[t] = NULL
      BY <1>4, Mapped DEF Leaves
    <2> QED
      BY <1>1, <1>2, <1>3, <2>1, LeavesCall
         DEF Abstract!Unplug, Abstract!Plugged, Abstract!InCall, InCall, Abstract!PeerAfter,
             PeerAfter, aState, aPeer, aNumber, Base
  <1>5. CASE HangsUp(t)
    <2>1. aNumber'[t] = aNumber[t]
      BY <1>1, <1>5, Mapped DEF HangsUp, Becomes
    <2>2. aNumber' = aNumber
      BY <1>1, <1>3, <2>1, LeavesCall DEF aNumber, Base
    <2> QED
      BY <1>1, <1>2, <1>3, <2>2, LeavesCall
         DEF Abstract!HangUp, Abstract!Plugged, Abstract!InCall, InCall, Abstract!PeerAfter,
             PeerAfter, aState, aPeer, aNumber, Base
  <1> QED
    BY <1>4, <1>5

LEMMA PicksUpOrAnswers ==
  ASSUME Base, CallsPaired, NEW t \in Conns, PicksUp(t) \/ Answers(t)
  PROVE  Abstract!PickUp(t)
  <1>1. Registered(t) /\ Registered(t)'
    BY DEF PicksUp, Answers, Becomes
  <1>2. aNumber[t] # NULL
    <2>1. ext[t] \in Exts /\ NULL \notin Exts
      BY DEF Base, TypeOK, Exts
    <2> QED
      BY <1>1, <2>1, Mapped
  <1>3. CASE PicksUp(t)
    <2>1. /\ aState[t] = "ON HOOK" /\ aState'[t] = "DIAL TONE"
          /\ aPeer'[t] = aPeer[t] /\ aNumber'[t] = aNumber[t] /\ Same({t})
      <3>1. /\ state[t] = "ON HOOK" /\ state'[t] = "DIAL TONE" /\ buddy'[t] = NULL
            /\ ext'[t] = ext[t] /\ Same({t})
        BY <1>3 DEF PicksUp, Becomes
      <3>2. buddy[t] = NULL
        BY <1>1, <3>1, PairOf DEF InCall
      <3> QED
        BY <1>1, <3>1, <3>2, Mapped
    <2>2. aState' = [aState EXCEPT ![t] = "DIAL TONE"]
      BY <2>1, MapsOne
    <2>3. /\ aPeer' = [aPeer EXCEPT ![t] = aPeer[t]]
          /\ aNumber' = [aNumber EXCEPT ![t] = aNumber[t]]
      BY <2>1, MapsOne
    <2>4. UNCHANGED <<aPeer, aNumber>>
      BY <2>3 DEF aPeer, aNumber
    <2> QED
      BY <1>2, <2>1, <2>2, <2>4
         DEF Abstract!PickUp, Abstract!Plugged, aState, aPeer, aNumber
  <1>4. CASE Answers(t)
    <2>1. PICK b \in Conns \ {t} :
             /\ b = buddy[t] /\ Same({t, b})
             /\ Becomes(t, "CONNECTED", b) /\ Becomes(b, "CONNECTED", t)
      BY <1>4 DEF Answers
    <2>2. buddy[b] = t /\ state[t] = "RINGING"
      BY <1>1, <1>4, <2>1, PairOf DEF Answers, InCall
    <2>3. /\ aState[t] = "RINGING" /\ aPeer[t] = b
          /\ aState'[t] = "CONNECTED" /\ aPeer'[t] = b /\ aNumber'[t] = aNumber[t]
      BY <2>1, <2>2, Mapped DEF Becomes
    <2>4. aState'[b] = "CONNECTED" /\ aPeer'[b] = aPeer[b] /\ aNumber'[b] = aNumber[b]
      BY <2>1, <2>2, Mapped DEF Becomes
    <2>5. /\ aState' = [aState EXCEPT ![b] = aState'[b], ![t] = aState'[t]]
          /\ aPeer' = [aPeer EXCEPT ![b] = aPeer'[b], ![t] = aPeer'[t]]
          /\ aNumber' = [aNumber EXCEPT ![b] = aNumber'[b], ![t] = aNumber'[t]]
      BY <2>1, MapsTwo
    <2>6. aState' = [aState EXCEPT ![t] = "CONNECTED", ![b] = "CONNECTED"]
      BY <2>3, <2>4, <2>5 DEF aState
    <2>7. UNCHANGED <<aPeer, aNumber>>
      <3>1. /\ aPeer' = [aPeer EXCEPT ![b] = aPeer[b], ![t] = aPeer[t]]
            /\ aNumber' = [aNumber EXCEPT ![b] = aNumber[b], ![t] = aNumber[t]]
        BY <2>3, <2>4, <2>5
      <3> QED
        BY <3>1 DEF aPeer, aNumber
    <2> QED
      BY <1>2, <2>3, <2>6, <2>7
         DEF Abstract!PickUp, Abstract!Plugged, aState, aPeer, aNumber
  <1> QED
    BY <1>3, <1>4

LEMMA NumberOf ==
  ASSUME Base, NEW n \in Exts
  PROVE  \A c \in Conns : aNumber[c] = n <=> tus[n] = c
  <1> SUFFICES ASSUME NEW c \in Conns PROVE aNumber[c] = n <=> tus[n] = c
    OBVIOUS
  <1>1. n # NULL
    BY DEF Exts
  <1>2. aNumber[c] = n <=> Registered(c) /\ ext[c] = n
    BY <1>1, Mapped
  <1> QED
    BY <1>2 DEF Base, RegistryOK

LEMMA DialsOut ==
  ASSUME Base, CallsPaired, NEW t \in Conns, Fails(t) \/ Rings(t)
  PROVE  \E n \in Exts : Abstract!Dial(t, n)
  <1>1. PICK n \in Exts : n = dialed[t]
    BY DEF Base, TypeOK
  <1>2. Registered(t) /\ Registered(t)' /\ state[t] = "DIAL TONE"
    BY DEF Fails, Rings, Becomes
  <1>3. aNumber[t] # NULL
    <2>1. ext[t] \in Exts /\ NULL \notin Exts
      BY DEF Base, TypeOK, Exts
    <2> QED
      BY <1>2, <2>1, Mapped
  <1>4. aState[t] = "DIAL TONE" /\ buddy[t] = NULL
    BY <1>2, Mapped, PairOf DEF InCall
  <1>5. ASSUME Fails(t)
        PROVE  UNCHANGED <<aPeer, aNumber>>
    <2>1. aPeer'[t] = aPeer[t] /\ aNumber'[t] = aNumber[t] /\ Same({t})
      BY <1>2, <1>4, <1>5, Mapped DEF Fails, Becomes
    <2>2. /\ aPeer' = [aPeer EXCEPT ![t] = aPeer[t]]
          /\ aNumber' = [aNumber EXCEPT ![t] = aNumber[t]]
      BY <2>1, MapsOne
    <2> QED
      BY <2>2 DEF aPeer, aNumber
  <1>6. CASE Fails(t) /\ tus[n] = NULL
    <2>1. aState'[t] = "ERROR" /\ Same({t})
      BY <1>1, <1>2, <1>6, Mapped DEF Fails, Becomes
    <2>2. aState' = [aState EXCEPT ![t] = "ERROR"]
      BY <2>1, MapsOne
    <2>3. \A c \in Conns : aNumber[c] # n
      BY <1>6, NumberOf
    <2>4. Abstract!Dial(t, n)
      BY <1>3, <1>4, <1>5, <1>6, <2>2, <2>3
         DEF Abstract!Dial, Abstract!Plugged, aState, aPeer, aNumber
    <2> QED
      BY <2>4
  <1>7. CASE Fails(t) /\ tus[n] # NULL
    <2>1. PICK q \in Conns : q = tus[n] /\ (q = t \/ state[q] # "ON HOOK")
      BY <1>1, <1>7 DEF Fails
    <2>2. aState'[t] = "BUSY SIGNAL" /\ Same({t})
      BY <1>1, <1>2, <1>7, Mapped DEF Fails, Becomes
    <2>3. aState' = [aState EXCEPT ![t] = "BUSY SIGNAL"]
      BY <2>2, MapsOne
    <2>4. aNumber[q] = n
      BY <2>1, NumberOf
    <2>5. q = t \/ aState[q] # "ON HOOK"
      BY <2>1, Mapped DEF Base, RegistryOK
    <2>6. Abstract!Dial(t, n)
      BY <1>3, <1>4, <1>5, <1>7, <2>3, <2>4, <2>5
         DEF Abstract!Dial, Abstract!Plugged, aState, aPeer, aNumber
    <2> QED
      BY <2>6
  <1>8. CASE Rings(t)
    <2>1. PICK q \in Conns \ {t} :
             /\ q = tus[n] /\ state[q] = "ON HOOK" /\ Same({t, q})
             /\ Becomes(t, "RING BACK", q) /\ Becomes(q, "RINGING", t)
      BY <1>1, <1>8 DEF Rings
    <2>2. aNumber[q] = n
      BY <2>1, NumberOf
    <2>3. aState'[t] = "RING BACK" /\ aPeer'[t] = q /\ aNumber'[t] = aNumber[t]
      BY <2>1, Mapped DEF Becomes
    <2>4. /\ aState[q] = "ON HOOK"
          /\ aState'[q] = "RINGING" /\ aPeer'[q] = t /\ aNumber'[q] = aNumber[q]
      BY <2>1, Mapped DEF Becomes
    <2>5. /\ aState' = [aState EXCEPT ![t] = aState'[t], ![q] = aState'[q]]
          /\ aPeer' = [aPeer EXCEPT ![t] = aPeer'[t], ![q] = aPeer'[q]]
          /\ aNumber' = [aNumber EXCEPT ![t] = aNumber'[t], ![q] = aNumber'[q]]
      <3>1. Same({q, t}) /\ t \in Conns \ {q}
        BY <2>1 DEF Same
      <3> QED
        BY <3>1, MapsTwo
    <2>6. /\ aState' = [aState EXCEPT ![t] = "RING BACK", ![q] = "RINGING"]
          /\ aPeer' = [aPeer EXCEPT ![t] = q, ![q] = t]
      BY <2>3, <2>4, <2>5
    <2>7. aNumber' = aNumber
      <3>1. aNumber' = [aNumber EXCEPT ![t] = aNumber[t], ![q] = aNumber[q]]
        BY <2>3, <2>4, <2>5
      <3> QED
        BY <3>1 DEF aNumber
    <2>8. Abstract!Dial(t, n)
      BY <1>3, <1>4, <2>1, <2>2, <2>4, <2>6, <2>7
         DEF Abstract!Dial, Abstract!Plugged, aState, aPeer, aNumber
    <2> QED
      BY <2>8
  <1> QED
    BY <1>6, <1>7, <1>8

LEMMA EffectRefines ==
  ASSUME Base, CallsPaired, NEW t \in Conns, Effect(t)
  PROVE  Abstract!Next \/ UNCHANGED <<aState, aPeer, aNumber>>
  <1>1. CASE Same({})
    BY <1>1, MapsNothing
  <1>2. CASE ~Same({})
    BY <1>2, PlugsIn, UnplugsOrHangsUp, PicksUpOrAnswers, DialsOut DEF Effect, Abstract!Next
  <1> QED
    BY <1>1, <1>2

LEMMA NextRefines ==
  ASSUME Base, Calling, [Next]_vars
  PROVE  [Abstract!Next]_(Abstract!vars)
  <1>1. \/ Abstract!Next
        \/ UNCHANGED <<aState, aPeer, aNumber>>
    <2>1. ASSUME NEW t \in Conns, Calls(t)
          PROVE  Same({})
      <3>1. PICK from, to : Goto(t, from, to) /\ from # "unreg_free" /\ to # "unreg_free"
        BY <2>1 DEF Calls, CallRegister, CallUnregister, CallPickup, CallHangup, CallChat,
           CallDial, Call
      <3>2. UNCHANGED <<mem, state, buddy, ext>>
        BY <2>1 DEF Calls, CallRegister, CallUnregister, CallPickup, CallHangup, CallChat,
           CallDial, Call, tuVars
      <3> QED
        BY <3>1, <3>2, QuietStep DEF Goto, Base
    <2>2. CASE \E t \in Conns : Calls(t)
      BY <2>1, <2>2, MapsNothing
    <2>3. CASE \E t \in Conns : Step(t)
      BY <2>3, StepEffect, EffectRefines DEF Calling
    <2>4. CASE MainStep \/ ShutdownFault \/ UNCHANGED vars \/ \E t \in Conns : ThreadFault(t)
      <3>1. UNCHANGED <<mem, pc, state, buddy, ext>>
        BY <2>4 DEF MainStep, Sighup, ShutdownBegin, ShutdownSkip, ShutdownFound,
           ShutdownRead, ShutdownConnection, ShutdownWait, ShutdownFree, Exit, Main, Turn,
           ThreadFault, ShutdownFault, vars, tuVars
      <3> QED
        BY <3>1 DEF aState, aPeer, aNumber, Registered
    <2> QED
      BY <2>2, <2>3, <2>4 DEF Next
  <1> QED
    BY <1>1 DEF Abstract!vars, aState, aPeer, aNumber

LEMMA InitRefines == Init => Abstract!Init
  BY DEF Init, Abstract!Init, Registered

(***************************************************************************)
(* PBX implements Exchange: whatever critical sections of however many     *)
(* threads interleave, what pbx_register, pbx_unregister, tu_pickup,       *)
(* tu_hangup and tu_dial do to calls and extensions happens in one         *)
(* indivisible step of each, and nothing else changes them.                *)
(***************************************************************************)
THEOREM ExchangeImplemented ==
  ASSUME Disciplined
  PROVE  Spec => ImplementsExchange
  <1>1. Calm /\ [Next]_vars => [Abstract!Next]_(Abstract!vars)
    BY NextRefines DEF Calm
  <1> QED
    BY <1>1, CalmAlways, InitRefines, PTL DEF Spec, ImplementsExchange, Abstract!Spec

-----------------------------------------------------------------------------
(* Who can lock up *)

OwnWait == {"pick_own", "hang_own", "dial_own", "chat_own", "unreg_own"}
BuddyWait == {"pick_buddy", "hang_buddy", "chat_buddy", "unreg_buddy"}
PbxWait == {"reg_pbx", "unreg_pbx", "dial_pbx"}

\* Where a blocked thread is, and what its blocker holds.
LEMMA BlockedThreads ==
  ASSUME Base, NEW t \in Conns, NEW h \in Conns, Blocker(t) = h
  PROVE  \/ pc[t] \in OwnWait /\ HoldsTu(h, t)
         \/ pc[t] \in BuddyWait /\ buddy[t] \in Conns /\ HoldsTu(h, buddy[t])
         \/ /\ pc[t] = "dial_check" /\ tus[dialed[t]] \in Conns \ {t}
            /\ HoldsTu(h, tus[dialed[t]])
         \/ pc[t] \in PbxWait /\ HoldsPbx(h)
  <1>1. \A c \in Conns : tuMutex[c] = h => HoldsTu(h, c)
    BY DEF Base, Locks, TuMutexesHeld
  <1>2. pbxMutex = h => HoldsPbx(h)
    BY DEF Base, Locks, PbxMutexHeld
  <1>3. buddy[t] \in Conns \cup {NULL} /\ tus[dialed[t]] \in Conns \cup {NULL}
    BY DEF Base, TypeOK
  <1>4. CASE pc[t] \in OwnWait
    BY <1>1, <1>4 DEF OwnWait, Blocker
  <1>5. CASE pc[t] \in BuddyWait
    BY <1>1, <1>3, <1>5 DEF BuddyWait, Blocker
  <1>6. CASE pc[t] = "dial_check"
    BY <1>1, <1>3, <1>6 DEF Blocker
  <1>7. CASE pc[t] \in PbxWait
    BY <1>2, <1>7 DEF PbxWait, Blocker
  <1>8. CASE pc[t] \notin OwnWait \cup BuddyWait \cup {"dial_check"} \cup PbxWait
    BY <1>8 DEF OwnWait, BuddyWait, PbxWait, Blocker
  <1> QED
    BY <1>4, <1>5, <1>6, <1>7, <1>8

\* No thread waits for a mutex it holds itself.
LEMMA NoSelfWait ==
  ASSUME Base, NEW t \in Conns, Blocker(t) = t
  PROVE  FALSE
  <1>1. buddy[t] # t
    BY DEF Base, Locks, LocksOK
  <1> QED
    BY <1>1, BlockedThreads
       DEF HoldsTu, HoldsOwn, HoldsOther, HoldsPbx, OwnWait, BuddyWait, PbxWait

LEMMA LockUps ==
  ASSUME Base, Calling, NEW S \in CircularWaits
  PROVE  \/ \E t, u \in S : t # u /\ pc[t] \in {"dial_pbx", "dial_check"}
         \/ \E t, u \in S : /\ buddy[t] = u /\ buddy[u] = t
                            /\ \A v \in {t, u} : pc[v] \in BuddyWait
  <1> SUFFICES ASSUME ~ \E t, u \in S : t # u /\ pc[t] \in {"dial_pbx", "dial_check"}
               PROVE  \E t, u \in S : /\ buddy[t] = u /\ buddy[u] = t
                                      /\ \A v \in {t, u} : pc[v] \in BuddyWait
    OBVIOUS
  <1>1. S \subseteq Conns /\ S # {} /\ \A t \in S : Blocker(t) \in S
    BY DEF CircularWaits
  \* Without a dialer, the threads of S wait for TUs or to enter the PBX.
  <1>2. ASSUME NEW t \in S
        PROVE  pc[t] \in OwnWait \cup BuddyWait \cup {"reg_pbx", "unreg_pbx"}
    <2>1. Blocker(t) \in S /\ Blocker(t) # t
      BY <1>1, NoSelfWait
    <2>2. pc[t] \notin {"dial_pbx", "dial_check"}
      BY <2>1
    <2>3. pc[t] \in OwnWait \cup BuddyWait \cup PbxWait \cup {"dial_check"}
      BY <1>1, <2>1, BlockedThreads
    <2> QED
      BY <2>2, <2>3 DEF PbxWait
  \* They hold no TU but their own.
  <1>3. ASSUME NEW h \in S, NEW c \in Conns, HoldsTu(h, c)
        PROVE  h = c /\ pc[h] \in BuddyWait
    BY <1>2, <1>3 DEF HoldsTu, HoldsOwn, HoldsOther, OwnWait, BuddyWait
  <1>4. ASSUME NEW t \in S
        PROVE  pc[t] \notin OwnWait
    <2>1. PICK h \in S : Blocker(t) = h /\ h # t
      BY <1>1, NoSelfWait
    <2>2. pc[t] \in OwnWait => HoldsTu(h, t)
      BY <1>1, <2>1, BlockedThreads DEF OwnWait, BuddyWait, PbxWait
    <2> QED
      BY <1>1, <1>3, <2>1, <2>2
  <1>5. ASSUME NEW t \in S, pc[t] \in BuddyWait
        PROVE  \E u \in S : buddy[t] = u /\ buddy[u] = t /\ pc[u] \in BuddyWait
    <2>1. PICK h \in S : Blocker(t) = h
      BY <1>1
    <2>2. buddy[t] \in Conns /\ HoldsTu(h, buddy[t])
      BY <1>1, <1>5, <2>1, BlockedThreads DEF OwnWait, BuddyWait, PbxWait
    <2>3. h = buddy[t] /\ pc[h] \in BuddyWait
      BY <1>3, <2>2
    <2>4. Registered(t)
      BY <1>1, <1>5, BodyRegistered DEF BuddyWait, NonePc, FreedPc
    <2>5. buddy[h] = t
      BY <1>1, <2>2, <2>3, <2>4, PairOf DEF Calling
    <2> QED
      BY <2>3, <2>5
  <1>6. \E t \in S : pc[t] \in BuddyWait
    <2>1. PICK t \in S : TRUE
      BY <1>1
    <2>2. CASE pc[t] \in {"reg_pbx", "unreg_pbx"}
      <3>1. PICK h \in S : Blocker(t) = h
        BY <1>1
      <3>2. HoldsPbx(h)
        BY <1>1, <2>2, <3>1, BlockedThreads DEF OwnWait, BuddyWait, PbxWait
      <3>3. pc[h] \in BuddyWait
        BY <1>2, <1>4, <3>2 DEF HoldsPbx, OwnWait, BuddyWait
      <3> QED
        BY <3>3
    <2> QED
      BY <1>2, <1>4, <2>2
  <1> QED
    BY <1>5, <1>6

(***************************************************************************)
(* Threads lock each other up in two ways only: the two ends of a call act *)
(* at once, each holding its own TU and waiting for the other's, or one of *)
(* them is in tu_dial.  However many threads register, unregister, pick    *)
(* up, hang up and chat besides, they do not close a circle of waits, and  *)
(* no thread ever waits for itself.                                        *)
(***************************************************************************)
THEOREM LockUpsOnlyThere ==
  ASSUME Disciplined
  PROVE  Spec => []LockUpsAreDialersOrPeers
  <1>1. Calm => LockUpsAreDialersOrPeers
    BY LockUps DEF Calm, LockUpsAreDialersOrPeers, BuddyWait
  <1> QED
    BY <1>1, CalmAlways, PTL

=============================================================================
