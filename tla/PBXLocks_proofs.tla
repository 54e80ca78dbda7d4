--------------------------- MODULE PBXLocks_proofs ---------------------------
(***************************************************************************)
(* Proofs about the mutexes of PBX, for every value of its constants: who  *)
(* holds them, and that nobody writes to a TU without its mutex.           *)
(***************************************************************************)
EXTENDS PBX_proofs

USE ConstantsAssumption

-----------------------------------------------------------------------------
(* Moves of a mutex *)

\* Where a thread holds the mutex of the PBX (HoldsPbx).
PbxPc == {"reg_exit", "dial_check", "dial_body", "unreg_own", "unreg_buddy", "unreg_body"}

\* Thread t holds the mutex of TU c.
HoldsTu(t, c) == (c = t /\ HoldsOwn(t)) \/ HoldsOther(t, c)

PbxMutexHeld == \A t \in Conns : pbxMutex = t <=> HoldsPbx(t)
TuMutexesHeld == \A t, c \in Conns : tuMutex[c] = t <=> HoldsTu(t, c)

\* What makes MutexesHeld inductive: a TU that is not allocated is not
\* locked, no TU is its own buddy, and a thread past the test of tu_dial has
\* another TU to dial.
LocksOK == \A t \in Conns :
              /\ mem[t] = "none" => tuMutex[t] = NULL
              /\ buddy[t] # t
              /\ pc[t] = "dial_body" => tus[dialed[t]] \in Conns \ {t}

LEMMA PbxMutexMoves ==
  ASSUME TypeOK, PbxMutexHeld, NEW t \in Conns, NEW q, pc' = [pc EXCEPT ![t] = q],
         \/ UNCHANGED pbxMutex /\ (pc[t] \in PbxPc <=> q \in PbxPc)
         \/ pbxMutex = NULL /\ pbxMutex' = t /\ q \in PbxPc
         \/ pc[t] \in PbxPc /\ pbxMutex' = NULL /\ q \notin PbxPc
  PROVE  PbxMutexHeld'
  BY DEF PbxMutexHeld, HoldsPbx, PbxPc, TypeOK

BodyPc == {"pick_body", "hang_body", "chat_body", "unreg_body"}

\* What the threads other than t hold does not change.
OthersKeep(t) ==
  \A u \in Conns \ {t} : /\ HoldsOwn(u)' = HoldsOwn(u)
                         /\ \A c \in Conns : HoldsOther(u, c)' = HoldsOther(u, c)

LEMMA OthersKeepTheirs ==
  ASSUME TypeOK, NEW t \in Conns, NEW q, pc' = [pc EXCEPT ![t] = q],
         \A u \in Conns \ {t} :
            /\ dialed'[u] = dialed[u]
            /\ pc[u] \in BodyPc => buddy'[u] = buddy[u]
            /\ pc[u] = "dial_body" => tus'[dialed[u]] = tus[dialed[u]]
  PROVE  OthersKeep(t)
  BY DEF OthersKeep, HoldsOwn, HoldsOther, BodyPc, TypeOK

LEMMA NoTuMoves ==
  ASSUME TypeOK, TuMutexesHeld, NEW t \in Conns, OthersKeep(t), UNCHANGED tuMutex,
         \A c \in Conns : HoldsTu(t, c)' <=> HoldsTu(t, c)
  PROVE  TuMutexesHeld'
  BY DEF TuMutexesHeld, OthersKeep, HoldsTu

LEMMA TakeTu ==
  ASSUME TypeOK, TuMutexesHeld, NEW t \in Conns, OthersKeep(t), NEW b \in Conns,
         tuMutex[b] = NULL, tuMutex' = [tuMutex EXCEPT ![b] = t],
         \A c \in Conns : HoldsTu(t, c)' <=> HoldsTu(t, c) \/ c = b
  PROVE  TuMutexesHeld'
  <1> SUFFICES ASSUME NEW u \in Conns, NEW c \in Conns
               PROVE  tuMutex'[c] = u <=> HoldsTu(u, c)'
    BY DEF TuMutexesHeld
  <1>1. tuMutex[c] = u <=> HoldsTu(u, c)
    BY DEF TuMutexesHeld
  <1>2. u # t => (HoldsTu(u, c)' <=> HoldsTu(u, c))
    BY DEF OthersKeep, HoldsTu
  <1>3. tuMutex'[c] = IF c = b THEN t ELSE tuMutex[c]
    BY DEF TypeOK
  <1> QED
    BY <1>1, <1>2, <1>3

LEMMA ReleaseTus ==
  ASSUME TypeOK, TuMutexesHeld, NEW t \in Conns, OthersKeep(t), NEW S, Unlock(S),
         \A c \in Conns : c \in S => HoldsTu(t, c),
         \A c \in Conns : HoldsTu(t, c)' <=> HoldsTu(t, c) /\ c \notin S
  PROVE  TuMutexesHeld'
  <1> SUFFICES ASSUME NEW u \in Conns, NEW c \in Conns
               PROVE  tuMutex'[c] = u <=> HoldsTu(u, c)'
    BY DEF TuMutexesHeld
  <1>1. (tuMutex[c] = u <=> HoldsTu(u, c)) /\ (tuMutex[c] = t <=> HoldsTu(t, c))
    BY DEF TuMutexesHeld
  <1>2. u # t => (HoldsTu(u, c)' <=> HoldsTu(u, c))
    BY DEF OthersKeep, HoldsTu
  <1>3. tuMutex'[c] = IF c \in S THEN NULL ELSE tuMutex[c]
    BY DEF Unlock
  <1> QED
    BY <1>1, <1>2, <1>3

-----------------------------------------------------------------------------
(* The actions *)

Locks == PbxMutexHeld /\ TuMutexesHeld /\ LocksOK

LEMMA LockOwnLocks ==
  ASSUME TypeOK, MemOK, Locks, NEW t \in Conns, NEW from, NEW p, NEW q,
         LockOwn(t, from, p, q),
         <<from, p, q>> \in {<<"unreg_own", "unreg_buddy", "unreg_body">>,
                            <<"pick_own", "pick_buddy", "pick_body">>,
                            <<"hang_own", "hang_buddy", "hang_body">>,
                            <<"dial_own", "dial_pbx", "dial_pbx">>}
  PROVE  Locks'
  <1>1. /\ pc[t] = from /\ tuMutex[t] = NULL
        /\ tuMutex' = [tuMutex EXCEPT ![t] = t]
        /\ UNCHANGED <<buddy, mem, tus, dialed, pbxMutex>>
        /\ pc' = [pc EXCEPT ![t] = IF buddy[t] # NULL THEN p ELSE q]
    BY DEF LockOwn, Goto, pbxVars
  <1>2. PbxMutexHeld'
    BY <1>1, PbxMutexMoves DEF Locks, PbxPc
  <1>3. OthersKeep(t)
    BY <1>1, OthersKeepTheirs
  <1>4. pc'[t] = IF buddy[t] # NULL THEN p ELSE q
    BY <1>1 DEF TypeOK
  <1>5. \A c \in Conns : HoldsTu(t, c)' <=> HoldsTu(t, c) \/ c = t
    BY <1>1, <1>4 DEF HoldsTu, HoldsOwn, HoldsOther
  <1>6. TuMutexesHeld'
    BY <1>1, <1>3, <1>5, TakeTu DEF Locks
  <1>7. mem[t] # "none"
    BY <1>1 DEF MemOK, NonePc
  <1>8. LocksOK'
    BY <1>1, <1>7 DEF Locks, LocksOK, TypeOK
  <1> QED
    BY <1>2, <1>6, <1>8 DEF Locks

LEMMA LockBuddyLocks ==
  ASSUME TypeOK, Locks, NEW t \in Conns, NEW from, NEW p, LockBuddy(t, from, p),
         <<from, p>> \in {<<"unreg_buddy", "unreg_body">>, <<"pick_buddy", "pick_body">>,
                         <<"hang_buddy", "hang_body">>, <<"chat_buddy", "chat_body">>}
  PROVE  Locks'
  <1>1. /\ pc[t] = from /\ buddy[t] \in Conns /\ mem[buddy[t]] = "live"
        /\ tuMutex[buddy[t]] = NULL /\ tuMutex' = [tuMutex EXCEPT ![buddy[t]] = t]
        /\ UNCHANGED <<buddy, mem, tus, dialed, pbxMutex>>
        /\ pc' = [pc EXCEPT ![t] = p]
    BY DEF LockBuddy, Live, Goto, pbxVars
  <1>2. PbxMutexHeld'
    BY <1>1, PbxMutexMoves DEF Locks, PbxPc
  <1>3. OthersKeep(t)
    BY <1>1, OthersKeepTheirs
  <1>4. pc'[t] = p
    BY <1>1 DEF TypeOK
  <1>5. \A c \in Conns : HoldsTu(t, c)' <=> HoldsTu(t, c) \/ c = buddy[t]
    BY <1>1, <1>4 DEF HoldsTu, HoldsOwn, HoldsOther
  <1>6. TuMutexesHeld'
    BY <1>1, <1>3, <1>5, TakeTu DEF Locks
  <1>7. LocksOK'
    BY <1>1 DEF Locks, LocksOK, TypeOK
  <1> QED
    BY <1>2, <1>6, <1>7 DEF Locks

LEMMA LockPbxLocks ==
  ASSUME TypeOK, Locks, NEW t \in Conns, NEW from, NEW p, LockPbx(t, from, p),
         <<from, p>> \in {<<"unreg_pbx", "unreg_own">>, <<"dial_pbx", "dial_check">>}
  PROVE  Locks'
  <1>1. /\ pc[t] = from /\ pbxMutex = NULL /\ pbxMutex' = t
        /\ UNCHANGED <<buddy, mem, tus, dialed, tuMutex>>
        /\ pc' = [pc EXCEPT ![t] = p]
    BY DEF LockPbx, Goto, tuVars
  <1>2. PbxMutexHeld'
    BY <1>1, PbxMutexMoves DEF Locks, PbxPc
  <1>3. OthersKeep(t)
    BY <1>1, OthersKeepTheirs
  <1>4. pc'[t] = p
    BY <1>1 DEF TypeOK
  <1>5. \A c \in Conns : HoldsTu(t, c)' <=> HoldsTu(t, c)
    BY <1>1, <1>4 DEF HoldsTu, HoldsOwn, HoldsOther
  <1>6. TuMutexesHeld'
    BY <1>1, <1>3, <1>5, NoTuMoves DEF Locks
  <1>7. LocksOK'
    BY <1>1 DEF Locks, LocksOK, TypeOK
  <1> QED
    BY <1>2, <1>6, <1>7 DEF Locks

LEMMA CallsLocks ==
  ASSUME TypeOK, Locks, NEW t \in Conns, Calls(t)
  PROVE  Locks'
  <1> DEFINE Started == {"reg_pbx", "unreg_pbx", "pick_own", "hang_own", "chat_own", "dial_own"}
  <1>1. PICK q \in Started :
           /\ pc[t] \in {"out", "idle"} /\ pc' = [pc EXCEPT ![t] = q]
           /\ UNCHANGED <<buddy, mem, tus, tuMutex, pbxMutex>>
           /\ \A u \in Conns \ {t} : dialed'[u] = dialed[u]
    <2>1. ASSUME NEW e \in Exts, CallDial(t, e)
          PROVE  /\ pc[t] = "idle" /\ pc' = [pc EXCEPT ![t] = "dial_own"]
                 /\ UNCHANGED <<buddy, mem, tus, tuMutex, pbxMutex>>
                 /\ \A u \in Conns \ {t} : dialed'[u] = dialed[u]
      BY <2>1 DEF CallDial, Goto, tuVars, pbxVars, TypeOK
    <2>2. ASSUME ~ \E e \in Exts : CallDial(t, e)
          PROVE  \E q \in Started : Call(t, "out", q) \/ Call(t, "idle", q)
      BY <2>2 DEF Calls, CallRegister, CallUnregister, CallPickup, CallHangup, CallChat
    <2> QED
      BY <2>1, <2>2 DEF Call, Goto, tuVars, pbxVars
  <1>2. PbxMutexHeld'
    BY <1>1, PbxMutexMoves DEF Locks, PbxPc
  <1>3. OthersKeep(t)
    BY <1>1, OthersKeepTheirs
  <1>4. pc'[t] = q
    BY <1>1 DEF TypeOK
  <1>5. \A c \in Conns : HoldsTu(t, c)' <=> HoldsTu(t, c)
    BY <1>1, <1>4 DEF HoldsTu, HoldsOwn, HoldsOther
  <1>6. TuMutexesHeld'
    BY <1>1, <1>3, <1>5, NoTuMoves DEF Locks
  <1>7. LocksOK'
    BY <1>1 DEF Locks, LocksOK, TypeOK
  <1> QED
    BY <1>2, <1>6, <1>7 DEF Locks

\* An unlock never hurts LocksOK, unless it comes with a new buddy.
LEMMA QuietLocksOK ==
  ASSUME TypeOK, Locks, NEW t \in Conns, NEW q, pc' = [pc EXCEPT ![t] = q],
         UNCHANGED mem, q # "dial_body",
         \A u \in Conns : tuMutex'[u] = tuMutex[u] \/ tuMutex'[u] = NULL,
         \A u \in Conns : buddy'[u] = buddy[u] \/ buddy'[u] = NULL,
         \A u \in Conns \ {t} : /\ dialed'[u] = dialed[u]
                                /\ pc[u] = "dial_body" => tus'[dialed[u]] = tus[dialed[u]]
  PROVE  LocksOK'
  <1> SUFFICES ASSUME NEW u \in Conns
               PROVE  /\ mem'[u] = "none" => tuMutex'[u] = NULL
                      /\ buddy'[u] # u
                      /\ pc'[u] = "dial_body" => tus'[dialed'[u]] \in Conns \ {u}
    BY DEF LocksOK
  <1>1. mem'[u] = "none" => tuMutex'[u] = NULL
    BY DEF Locks, LocksOK
  <1>2. buddy'[u] # u
    BY DEF Locks, LocksOK
  <1>3. pc'[u] = "dial_body" => tus'[dialed'[u]] \in Conns \ {u}
    <2>1. CASE u = t
      BY <2>1 DEF TypeOK
    <2>2. CASE u # t
      <3>1. pc'[u] = pc[u]
        BY <2>2 DEF TypeOK
      <3>2. dialed'[u] = dialed[u] /\ (pc[u] = "dial_body" => tus'[dialed[u]] = tus[dialed[u]])
        BY <2>2
      <3> QED
        BY <2>2, <3>1, <3>2 DEF Locks, LocksOK
    <2> QED
      BY <2>1, <2>2
  <1> QED
    BY <1>1, <1>2, <1>3

LEMMA RegisterLocks ==
  ASSUME TypeOK, MemOK, Locks, NEW t \in Conns,
         RegisterRefused(t) \/ RegisterSetup(t) \/ RegisterFinish(t)
  PROVE  Locks'
  <1>1. CASE RegisterRefused(t)
    <2>1. /\ pc[t] = "reg_pbx" /\ pc' = [pc EXCEPT ![t] = "refused"]
          /\ UNCHANGED <<buddy, mem, tus, dialed, tuMutex, pbxMutex>>
      BY <1>1 DEF RegisterRefused, Goto, tuVars, pbxVars
    <2>2. PbxMutexHeld'
      BY <2>1, PbxMutexMoves DEF Locks, PbxPc
    <2>3. OthersKeep(t)
      BY <2>1, OthersKeepTheirs
    <2>4. \A c \in Conns : HoldsTu(t, c)' <=> HoldsTu(t, c)
      BY <2>1 DEF HoldsTu, HoldsOwn, HoldsOther, TypeOK
    <2>5. TuMutexesHeld'
      BY <2>1, <2>3, <2>4, NoTuMoves DEF Locks
    <2>6. LocksOK'
      BY <2>1, QuietLocksOK DEF Unlock
    <2> QED
      BY <2>2, <2>5, <2>6 DEF Locks
  <1>2. CASE RegisterSetup(t)
    <2>1. PICK n \in Exts : tus' = [tus EXCEPT ![n] = t]
      BY <1>2 DEF RegisterSetup
    <2>2. /\ pc[t] = "reg_pbx" /\ pc' = [pc EXCEPT ![t] = "reg_exit"]
          /\ pbxMutex = NULL /\ pbxMutex' = t
          /\ mem' = [mem EXCEPT ![t] = "live"]
          /\ buddy' = [buddy EXCEPT ![t] = NULL]
          /\ tuMutex' = [tuMutex EXCEPT ![t] = NULL]
          /\ UNCHANGED dialed
      BY <1>2 DEF RegisterSetup, Goto
    <2>3. PbxMutexHeld'
      BY <2>2, PbxMutexMoves DEF Locks, PbxPc
    <2>4. \A u \in Conns : pc[u] # "dial_body"
      BY <2>2 DEF Locks, PbxMutexHeld, HoldsPbx
    <2>5. OthersKeep(t)
      BY <2>2, <2>4, OthersKeepTheirs DEF TypeOK
    <2>6. tuMutex[t] = NULL
      BY <2>2 DEF Locks, LocksOK, MemOK, NonePc
    <2>7. UNCHANGED tuMutex
      BY <2>2, <2>6 DEF TypeOK
    <2>8. \A c \in Conns : HoldsTu(t, c)' <=> HoldsTu(t, c)
      BY <2>2 DEF HoldsTu, HoldsOwn, HoldsOther, TypeOK
    <2>9. TuMutexesHeld'
      BY <2>5, <2>7, <2>8, NoTuMoves DEF Locks
    <2>10. LocksOK'
      BY <2>2, <2>4, <2>7 DEF Locks, LocksOK, TypeOK
    <2> QED
      BY <2>3, <2>9, <2>10 DEF Locks
  <1>3. CASE RegisterFinish(t)
    <2>1. /\ pc[t] = "reg_exit" /\ pc' = [pc EXCEPT ![t] = "idle"] /\ pbxMutex' = NULL
          /\ UNCHANGED <<buddy, mem, tus, dialed, tuMutex>>
      BY <1>3 DEF RegisterFinish, Goto, tuVars
    <2>2. PbxMutexHeld'
      BY <2>1, PbxMutexMoves DEF Locks, PbxPc
    <2>3. OthersKeep(t)
      BY <2>1, OthersKeepTheirs
    <2>4. \A c \in Conns : HoldsTu(t, c)' <=> HoldsTu(t, c)
      BY <2>1 DEF HoldsTu, HoldsOwn, HoldsOther, TypeOK
    <2>5. TuMutexesHeld'
      BY <2>1, <2>3, <2>4, NoTuMoves DEF Locks
    <2>6. LocksOK'
      BY <2>1, QuietLocksOK DEF Unlock
    <2> QED
      BY <2>2, <2>5, <2>6 DEF Locks
  <1> QED
    BY <1>1, <1>2, <1>3

LEMMA UnregisterLocks ==
  ASSUME TypeOK, MemOK, Locks, NEW t \in Conns,
         UnregisterBody(t) \/ UnregisterFree(t) \/ UnregisterPost(t)
  PROVE  Locks'
  <1>1. CASE UnregisterBody(t)
    <2>1. /\ pc[t] = "unreg_body" /\ pc' = [pc EXCEPT ![t] = "unreg_free"]
          /\ UNCHANGED buddy \/ Unlink({buddy[t]})
          /\ tus' = [tus EXCEPT ![ext[t]] = NULL]
          /\ Unlock({buddy[t]}) /\ pbxMutex' = NULL /\ UNCHANGED <<mem, dialed>>
      BY <1>1 DEF UnregisterBody, Goto
    <2>2. PbxMutexHeld'
      BY <2>1, PbxMutexMoves DEF Locks, PbxPc
    <2>3. \A u \in Conns : pc[u] # "dial_body"
      BY <2>1 DEF Locks, PbxMutexHeld, HoldsPbx
    <2>4. buddy[t] # t
      BY DEF Locks, LocksOK
    <2>5. \A u \in Conns \ {t} : pc[u] \in BodyPc => buddy'[u] = buddy[u]
      <3> SUFFICES ASSUME NEW u \in Conns \ {t}, pc[u] \in BodyPc, u = buddy[t] PROVE FALSE
        BY <2>1 DEF Unlink
      <3>1. tuMutex[u] = u /\ tuMutex[u] = t
        BY <2>1 DEF Locks, TuMutexesHeld, HoldsTu, HoldsOwn, HoldsOther, BodyPc
      <3> QED
        BY <3>1
    <2>6. OthersKeep(t)
      BY <2>1, <2>3, <2>5, OthersKeepTheirs
    <2>7. \A c \in Conns : c \in {buddy[t]} => HoldsTu(t, c)
      BY <2>1 DEF HoldsTu, HoldsOther
    <2>8. \A c \in Conns : HoldsTu(t, c)' <=> HoldsTu(t, c) /\ c \notin {buddy[t]}
      BY <2>1, <2>4 DEF HoldsTu, HoldsOwn, HoldsOther, TypeOK
    <2>9. TuMutexesHeld'
      BY <2>1, <2>6, <2>7, <2>8, ReleaseTus DEF Locks
    <2>10. \A u \in Conns : buddy'[u] = buddy[u] \/ buddy'[u] = NULL
      BY <2>1 DEF Unlink
    <2>11. LocksOK'
      BY <2>1, <2>3, <2>10, QuietLocksOK DEF Unlock
    <2> QED
      BY <2>2, <2>9, <2>11 DEF Locks
  <1>2. CASE UnregisterFree(t) \/ UnregisterPost(t)
    <2>1. /\ pc[t] \in {"unreg_free", "unreg_post"}
          /\ \E q \in {"unreg_post", "gone"} : pc' = [pc EXCEPT ![t] = q]
          /\ \A u \in Conns \ {t} : buddy'[u] = buddy[u]
          /\ buddy'[t] = buddy[t] \/ buddy'[t] = NULL
          /\ \A u \in Conns : mem'[u] = "none" => mem[u] = "none"
          /\ UNCHANGED <<tus, tuMutex, dialed, pbxMutex>>
      BY <1>2 DEF UnregisterFree, UnregisterPost, Goto, pbxVars, TypeOK
    <2>2. PbxMutexHeld'
      BY <2>1, PbxMutexMoves DEF Locks, PbxPc
    <2>3. OthersKeep(t)
      BY <2>1, OthersKeepTheirs
    <2>4. \A c \in Conns : HoldsTu(t, c)' <=> HoldsTu(t, c)
      BY <2>1 DEF HoldsTu, HoldsOwn, HoldsOther, TypeOK
    <2>5. TuMutexesHeld'
      BY <2>1, <2>3, <2>4, NoTuMoves DEF Locks
    <2>6. LocksOK'
      BY <2>1 DEF Locks, LocksOK, TypeOK
    <2> QED
      BY <2>2, <2>5, <2>6 DEF Locks
  <1> QED
    BY <1>1, <1>2

LEMMA PhoneLocks ==
  ASSUME TypeOK, MemOK, Locks, NEW t \in Conns,
         \/ PickupBody(t) \/ HangupBody(t) \/ ChatNobody(t) \/ ChatBody(t)
         \/ ChatLockOwn(t)
  PROVE  Locks'
  <1>1. CASE PickupBody(t) \/ HangupBody(t) \/ ChatBody(t)
    <2>1. /\ pc[t] \in {"pick_body", "hang_body", "chat_body"}
          /\ pc' = [pc EXCEPT ![t] = "idle"]
          /\ UNCHANGED buddy \/ Unlink({t, buddy[t]})
          /\ Unlock({t, buddy[t]}) /\ UNCHANGED <<mem, tus, dialed, pbxMutex>>
      BY <1>1 DEF PickupBody, HangupBody, ChatBody, Goto, pbxVars
    <2>2. PbxMutexHeld'
      BY <2>1, PbxMutexMoves DEF Locks, PbxPc
    <2>3. buddy[t] # t
      BY DEF Locks, LocksOK
    <2>4. \A u \in Conns \ {t} : pc[u] \in BodyPc => buddy'[u] = buddy[u]
      <3> SUFFICES ASSUME NEW u \in Conns \ {t}, pc[u] \in BodyPc, u = buddy[t] PROVE FALSE
        BY <2>1 DEF Unlink
      <3>1. tuMutex[u] = u /\ tuMutex[u] = t
        BY <2>1 DEF Locks, TuMutexesHeld, HoldsTu, HoldsOwn, HoldsOther, BodyPc
      <3> QED
        BY <3>1
    <2>5. OthersKeep(t)
      BY <2>1, <2>4, OthersKeepTheirs
    <2>6. \A c \in Conns : c \in {t, buddy[t]} => HoldsTu(t, c)
      BY <2>1 DEF HoldsTu, HoldsOwn, HoldsOther
    <2>7. \A c \in Conns : HoldsTu(t, c)' <=> HoldsTu(t, c) /\ c \notin {t, buddy[t]}
      BY <2>1 DEF HoldsTu, HoldsOwn, HoldsOther, TypeOK
    <2>8. TuMutexesHeld'
      BY <2>1, <2>5, <2>6, <2>7, ReleaseTus DEF Locks
    <2>9. \A u \in Conns : buddy'[u] = buddy[u] \/ buddy'[u] = NULL
      BY <2>1 DEF Unlink
    <2>10. LocksOK'
      BY <2>1, <2>9, QuietLocksOK DEF Unlock
    <2> QED
      BY <2>2, <2>8, <2>10 DEF Locks
  <1>2. CASE ChatNobody(t)
    <2>1. /\ pc[t] = "chat_own" /\ pc' = [pc EXCEPT ![t] = "idle"]
          /\ UNCHANGED <<buddy, mem, tus, dialed, tuMutex, pbxMutex>>
      BY <1>2 DEF ChatNobody, Goto, tuVars, pbxVars
    <2>2. PbxMutexHeld'
      BY <2>1, PbxMutexMoves DEF Locks, PbxPc
    <2>3. OthersKeep(t)
      BY <2>1, OthersKeepTheirs
    <2>4. \A c \in Conns : HoldsTu(t, c)' <=> HoldsTu(t, c)
      BY <2>1 DEF HoldsTu, HoldsOwn, HoldsOther, TypeOK
    <2>5. TuMutexesHeld'
      BY <2>1, <2>3, <2>4, NoTuMoves DEF Locks
    <2>6. LocksOK'
      BY <2>1, QuietLocksOK DEF Unlock
    <2> QED
      BY <2>2, <2>5, <2>6 DEF Locks
  <1>3. CASE ChatLockOwn(t)
    <2>1. /\ pc[t] = "chat_own" /\ pc' = [pc EXCEPT ![t] = "chat_buddy"]
          /\ tuMutex[t] = NULL /\ tuMutex' = [tuMutex EXCEPT ![t] = t]
          /\ UNCHANGED <<buddy, mem, tus, dialed, pbxMutex>>
      BY <1>3 DEF ChatLockOwn, Goto, pbxVars
    <2>2. PbxMutexHeld'
      BY <2>1, PbxMutexMoves DEF Locks, PbxPc
    <2>3. OthersKeep(t)
      BY <2>1, OthersKeepTheirs
    <2>4. \A c \in Conns : HoldsTu(t, c)' <=> HoldsTu(t, c) \/ c = t
      BY <2>1 DEF HoldsTu, HoldsOwn, HoldsOther, TypeOK
    <2>5. TuMutexesHeld'
      BY <2>1, <2>3, <2>4, TakeTu DEF Locks
    <2>6. LocksOK'
      BY <2>1 DEF Locks, LocksOK, TypeOK, MemOK, NonePc
    <2> QED
      BY <2>2, <2>5, <2>6 DEF Locks
  <1> QED
    BY <1>1, <1>2, <1>3

LEMMA DialLocks ==
  ASSUME TypeOK, Locks, NEW t \in Conns,
         DialNobody(t) \/ DialLockTarget(t) \/ DialBody(t)
  PROVE  Locks'
  <1>1. CASE DialNobody(t)
    <2>1. /\ pc[t] = "dial_check" /\ pc' = [pc EXCEPT ![t] = "idle"]
          /\ Unlock({t}) /\ pbxMutex' = NULL
          /\ \A u \in Conns \ {t} : dialed'[u] = dialed[u]
          /\ UNCHANGED <<buddy, mem, tus>>
      BY <1>1 DEF DialNobody, Goto, TypeOK
    <2>2. PbxMutexHeld'
      BY <2>1, PbxMutexMoves DEF Locks, PbxPc
    <2>3. OthersKeep(t)
      BY <2>1, OthersKeepTheirs
    <2>4. \A c \in Conns : c \in {t} => HoldsTu(t, c)
      BY <2>1 DEF HoldsTu, HoldsOwn
    <2>5. \A c \in Conns : HoldsTu(t, c)' <=> HoldsTu(t, c) /\ c \notin {t}
      BY <2>1 DEF HoldsTu, HoldsOwn, HoldsOther, TypeOK
    <2>6. TuMutexesHeld'
      BY <2>1, <2>3, <2>4, <2>5, ReleaseTus DEF Locks
    <2>7. LocksOK'
      BY <2>1, QuietLocksOK DEF Unlock
    <2> QED
      BY <2>2, <2>6, <2>7 DEF Locks
  <1>2. CASE DialLockTarget(t)
    <2> DEFINE b == tus[dialed[t]]
    <2>1. /\ pc[t] = "dial_check" /\ pc' = [pc EXCEPT ![t] = "dial_body"]
          /\ b \in Conns /\ mem[b] = "live"
          /\ tuMutex[b] = NULL /\ tuMutex' = [tuMutex EXCEPT ![b] = t]
          /\ UNCHANGED <<buddy, mem, tus, dialed, pbxMutex>>
      BY <1>2 DEF DialLockTarget, Live, Goto, pbxVars
    <2>2. PbxMutexHeld'
      BY <2>1, PbxMutexMoves DEF Locks, PbxPc
    <2>3. OthersKeep(t)
      BY <2>1, OthersKeepTheirs
    <2>4. \A c \in Conns : HoldsTu(t, c)' <=> HoldsTu(t, c) \/ c = b
      BY <2>1 DEF HoldsTu, HoldsOwn, HoldsOther, TypeOK
    <2>5. TuMutexesHeld'
      BY <2>1, <2>3, <2>4, TakeTu DEF Locks
    <2>6. b # t
      BY <2>1 DEF Locks, TuMutexesHeld, HoldsTu, HoldsOwn
    <2>7. LocksOK'
      BY <2>1, <2>6 DEF Locks, LocksOK, TypeOK
    <2> QED
      BY <2>2, <2>5, <2>7 DEF Locks
  <1>3. CASE DialBody(t)
    <2> DEFINE b == tus[dialed[t]]
    <2>1. /\ Goto(t, "dial_body", "idle")
          /\ UNCHANGED buddy \/ buddy' = [buddy EXCEPT ![t] = b, ![b] = t]
          /\ Unlock({t, b}) /\ pbxMutex' = NULL
          /\ dialed' = [dialed EXCEPT ![t] = 0]
          /\ UNCHANGED <<mem, tus>>
      BY <1>3 DEF DialBody
    <2>2. pc[t] = "dial_body" /\ pc' = [pc EXCEPT ![t] = "idle"]
      BY <2>1 DEF Goto
    <2>3. b \in Conns /\ b # t
      BY <2>2 DEF Locks, LocksOK
    <2>4. PbxMutexHeld'
      BY <2>1, <2>2, PbxMutexMoves DEF Locks, PbxPc
    <2>5. \A u \in Conns \ {t} : pc[u] \in BodyPc => buddy'[u] = buddy[u]
      <3> SUFFICES ASSUME NEW u \in Conns \ {t}, pc[u] \in BodyPc, u = b PROVE FALSE
        BY <2>1 DEF TypeOK
      <3>1. tuMutex[u] = u /\ tuMutex[u] = t
        BY <2>2 DEF Locks, TuMutexesHeld, HoldsTu, HoldsOwn, HoldsOther, BodyPc
      <3> QED
        BY <3>1
    <2>6. \A u \in Conns \ {t} : dialed'[u] = dialed[u]
      BY <2>1 DEF TypeOK
    <2>7. OthersKeep(t)
      BY <2>1, <2>2, <2>5, <2>6, OthersKeepTheirs
    <2>8. \A c \in Conns : c \in {t, b} => HoldsTu(t, c)
      BY <2>2 DEF HoldsTu, HoldsOwn, HoldsOther
    <2>9. \A c \in Conns : HoldsTu(t, c)' <=> HoldsTu(t, c) /\ c \notin {t, b}
      BY <2>2 DEF HoldsTu, HoldsOwn, HoldsOther, TypeOK
    <2>10. TuMutexesHeld'
      BY <2>1, <2>7, <2>8, <2>9, ReleaseTus DEF Locks
    <2>11. LocksOK'
      BY <2>1, <2>2, <2>3, <2>6 DEF Locks, LocksOK, TypeOK, Unlock
    <2> QED
      BY <2>4, <2>10, <2>11 DEF Locks
  <1> QED
    BY <1>1, <1>2, <1>3

LEMMA StepLocks ==
  ASSUME TypeOK, MemOK, Locks, NEW t \in Conns, Step(t)
  PROVE  Locks'
  <1>1. CASE \/ UnregisterLockOwn(t) \/ PickupLockOwn(t) \/ HangupLockOwn(t) \/ DialLockOwn(t)
    BY <1>1, LockOwnLocks
       DEF UnregisterLockOwn, PickupLockOwn, HangupLockOwn, DialLockOwn
  <1>2. CASE \/ UnregisterLockBuddy(t) \/ PickupLockBuddy(t) \/ HangupLockBuddy(t)
             \/ ChatLockBuddy(t)
    BY <1>2, LockBuddyLocks
       DEF UnregisterLockBuddy, PickupLockBuddy, HangupLockBuddy, ChatLockBuddy
  <1>3. CASE UnregisterLockPbx(t) \/ DialLockPbx(t)
    BY <1>3, LockPbxLocks DEF UnregisterLockPbx, DialLockPbx
  <1> QED
    BY <1>1, <1>2, <1>3, RegisterLocks, UnregisterLocks, PhoneLocks, DialLocks DEF Step

LEMMA NextLocks ==
  ASSUME TypeOK, MemOK, Locks, [Next]_vars
  PROVE  Locks'
  <1>1. CASE \E t \in Conns : Calls(t) \/ Step(t)
    BY <1>1, CallsLocks, StepLocks
  <1>2. ASSUME UNCHANGED <<pc, buddy, mem, tus, dialed, tuMutex, pbxMutex>> PROVE Locks'
    BY <1>2 DEF Locks, PbxMutexHeld, TuMutexesHeld, LocksOK, HoldsTu, HoldsPbx, HoldsOwn,
                HoldsOther
  <1>3. CASE MainStep
    BY <1>2, <1>3 DEF MainStep, Sighup, ShutdownBegin, ShutdownSkip, ShutdownFound,
       ShutdownRead, ShutdownConnection, ShutdownWait, ShutdownFree, Exit, Main, Turn,
       tuVars, pbxVars
  <1>4. CASE UNCHANGED vars \/ ShutdownFault \/ \E t \in Conns : ThreadFault(t)
    BY <1>2, <1>4 DEF vars, ThreadFault, ShutdownFault, tuVars, pbxVars
  <1> QED
    BY <1>1, <1>3, <1>4 DEF Next

LEMMA InitLocks == Init => Locks
  <1> SUFFICES ASSUME Init PROVE Locks
    OBVIOUS
  <1>1. /\ pbxMutex = NULL
        /\ \A c \in Conns : pc[c] = "out" /\ tuMutex[c] = NULL /\ buddy[c] = NULL
    BY DEF Init
  <1>2. \A t \in Conns : ~HoldsPbx(t) /\ \A c \in Conns : ~HoldsTu(t, c)
    BY <1>1 DEF HoldsPbx, HoldsTu, HoldsOwn, HoldsOther
  <1> QED
    BY <1>1, <1>2 DEF Locks, PbxMutexHeld, TuMutexesHeld, LocksOK

LEMMA LocksAlways == Spec => [](TypeOK /\ MemOK /\ Locks)
  <1>1. TypeOK /\ MemOK /\ Locks /\ RegistryOK /\ [Next]_vars
           => (TypeOK /\ MemOK /\ Locks)'
    BY NextType, RegistryNext, NextLocks
  <1> QED
    BY <1>1, MemAndRegistry, InitLocks, PTL DEF Spec

(***************************************************************************)
(* Each mutex is held by exactly the thread that the P()s and V()s of the  *)
(* code say; so the mutex of tu->buddy that an operation releases is the   *)
(* one it took, although buddies come and go between the two.              *)
(***************************************************************************)
THEOREM MutexesCorrect == Spec => []MutexesHeld
  <1>1. Locks => MutexesHeld
    BY DEF Locks, PbxMutexHeld, TuMutexesHeld, HoldsTu, MutexesHeld
  <1> QED
    BY <1>1, LocksAlways, PTL

-----------------------------------------------------------------------------
(* Writes *)

LEMMA WritesStep ==
  ASSUME TypeOK, MemOK, Locks, NEW t \in Conns, Step(t), NEW c \in Conns, mem[c] = "live",
         <<state[c], buddy[c]>>' # <<state[c], buddy[c]>>
  PROVE  HoldsTu(t, c) /\ pc'[t] # pc[t]
  <1> USE DEF HoldsTu, HoldsOwn, HoldsOther
  <1>1. CASE RegisterSetup(t)
    <2>1. mem[t] = "none" /\ state'[c] = state[c] /\ buddy'[c] = buddy[c]
      BY <1>1 DEF RegisterSetup, Goto, MemOK, NonePc, TypeOK
    <2> QED
      BY <2>1
  <1>2. CASE UnregisterBody(t)
    <2>1. pc[t] = "unreg_body" /\ pc'[t] = "unreg_free"
      BY <1>2 DEF UnregisterBody, Goto, TypeOK
    <2>2. c # buddy[t] => state'[c] = state[c] /\ buddy'[c] = buddy[c]
      BY <1>2 DEF UnregisterBody, Unlink, Live, TypeOK
    <2> QED
      BY <2>1, <2>2
  <1>3. CASE UnregisterFree(t)
    <2>1. pc[t] = "unreg_free" /\ pc'[t] = "unreg_post"
      BY <1>3 DEF UnregisterFree, Goto, TypeOK
    <2>2. c # t => state'[c] = state[c] /\ buddy'[c] = buddy[c]
      BY <1>3 DEF UnregisterFree, TypeOK
    <2> QED
      BY <2>1, <2>2
  <1>4. CASE PickupBody(t)
    <2>1. pc[t] = "pick_body" /\ pc'[t] = "idle"
      BY <1>4 DEF PickupBody, Goto, TypeOK
    <2>2. c \notin {t, buddy[t]} => state'[c] = state[c] /\ buddy'[c] = buddy[c]
      BY <1>4 DEF PickupBody, TypeOK
    <2> QED
      BY <2>1, <2>2
  <1>5. CASE HangupBody(t)
    <2>1. pc[t] = "hang_body" /\ pc'[t] = "idle"
      BY <1>5 DEF HangupBody, Goto, TypeOK
    <2>2. c \notin {t, buddy[t]} => state'[c] = state[c] /\ buddy'[c] = buddy[c]
      BY <1>5 DEF HangupBody, Unlink, TypeOK
    <2> QED
      BY <2>1, <2>2
  <1>6. CASE DialNobody(t)
    <2>1. pc[t] = "dial_check" /\ pc'[t] = "idle"
      BY <1>6 DEF DialNobody, Goto, TypeOK
    <2>2. c # t => state'[c] = state[c] /\ buddy'[c] = buddy[c]
      BY <1>6 DEF DialNobody, TypeOK
    <2> QED
      BY <2>1, <2>2
  <1>7. CASE DialBody(t)
    <2> DEFINE b == tus[dialed[t]]
    <2>1. Goto(t, "dial_body", "idle")
      BY <1>7 DEF DialBody
    <2>2. pc[t] = "dial_body" /\ pc'[t] = "idle"
      BY <2>1 DEF Goto, TypeOK
    <2>3. /\ \/ UNCHANGED state \/ state' = [state EXCEPT ![t] = "BUSY SIGNAL"]
             \/ state' = [state EXCEPT ![t] = "RING BACK", ![b] = "RINGING"]
          /\ UNCHANGED buddy \/ buddy' = [buddy EXCEPT ![t] = b, ![b] = t]
      BY <1>7 DEF DialBody
    <2>4. c \notin {t, b} => state'[c] = state[c] /\ buddy'[c] = buddy[c]
      BY <2>3 DEF TypeOK
    <2> QED
      BY <2>2, <2>4
  <1>8. CASE UNCHANGED <<state, buddy>>
    BY <1>8
  <1> QED
    BY <1>1, <1>2, <1>3, <1>4, <1>5, <1>6, <1>7, <1>8
       DEF Step, RegisterRefused, RegisterFinish, UnregisterLockPbx, UnregisterLockOwn,
           UnregisterLockBuddy, UnregisterPost, PickupLockOwn, PickupLockBuddy,
           HangupLockOwn, HangupLockBuddy, DialLockOwn, DialLockPbx, DialLockTarget,
           ChatLockOwn, ChatNobody, ChatLockBuddy, ChatBody, LockOwn, LockBuddy, LockPbx,
           tuVars

LEMMA WritesNext ==
  ASSUME TypeOK, MemOK, Locks, [Next]_vars
  PROVE  \A c \in Conns :
            mem[c] = "live" /\ <<state[c], buddy[c]>>' # <<state[c], buddy[c]>>
               => \E t \in Conns : tuMutex[c] = t /\ pc'[t] # pc[t]
  <1> SUFFICES ASSUME NEW c \in Conns, mem[c] = "live",
                      <<state[c], buddy[c]>>' # <<state[c], buddy[c]>>
               PROVE  \E t \in Conns : tuMutex[c] = t /\ pc'[t] # pc[t]
    OBVIOUS
  <1>1. ~ UNCHANGED <<state, buddy>>
    OBVIOUS
  <1>2. \E t \in Conns : Step(t)
    BY <1>1 DEF Next, Calls, CallRegister, CallUnregister, CallPickup, CallHangup, CallChat,
       CallDial, Call, ThreadFault, ShutdownFault, MainStep, Sighup, ShutdownBegin,
       ShutdownSkip, ShutdownFound, ShutdownRead, ShutdownConnection, ShutdownWait,
       ShutdownFree, Exit, Main, Turn, vars, tuVars
  <1>3. PICK t \in Conns : HoldsTu(t, c) /\ pc'[t] # pc[t]
    BY <1>2, WritesStep
  <1> QED
    BY <1>3 DEF Locks, TuMutexesHeld

(***************************************************************************)
(* No step writes the state or the buddy of a live TU unless it is a step  *)
(* of the thread that holds the mutex of that TU.                          *)
(***************************************************************************)
THEOREM WritesProtected == Spec => WritesUnderMutex
  <1>1. TypeOK /\ MemOK /\ Locks /\ [Next]_vars
           => [\A c \in Conns :
                 mem[c] = "live" /\ <<state[c], buddy[c]>>' # <<state[c], buddy[c]>>
                    => \E t \in Conns : tuMutex[c] = t /\ pc'[t] # pc[t]]_vars
    BY WritesNext
  <1> QED
    BY <1>1, LocksAlways, PTL DEF Spec, WritesUnderMutex

=============================================================================
