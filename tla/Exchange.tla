------------------------------ MODULE Exchange ------------------------------
(***************************************************************************)
(* What the private branch exchange of HW5 promises its clients: telephone *)
(* units that are plugged into the exchange, place calls and change state, *)
(* each operation in one indivisible step.  There are no threads, no       *)
(* mutexes and no connections here; PBX.tla, which has them, is checked to *)
(* implement this module.                                                  *)
(***************************************************************************)
EXTENDS FiniteSets

CONSTANTS Phones,     \* the telephone units
          Numbers,    \* the extension numbers
          NULL        \* neither a phone nor a number

VARIABLES state,      \* what each unit is doing
          peer,       \* the other end of its call, or NULL
          number      \* its extension, or NULL while it is unplugged

vars == <<state, peer, number>>

TU_STATE == {"ON HOOK", "RINGING", "DIAL TONE", "RING BACK",
             "BUSY SIGNAL", "CONNECTED", "ERROR"}

Plugged(p) == number[p] # NULL

(***************************************************************************)
(* The state the other end of a call goes to when p leaves it, by hanging  *)
(* up and by being unplugged.                                              *)
(***************************************************************************)
InCall == {"CONNECTED", "RINGING", "RING BACK"}

PeerAfter(s) == IF s = "RING BACK" THEN "ON HOOK" ELSE "DIAL TONE"

TypeOK == /\ state \in [Phones -> TU_STATE]
          /\ peer \in [Phones -> Phones \cup {NULL}]
          /\ number \in [Phones -> Numbers \cup {NULL}]

-----------------------------------------------------------------------------

Init == /\ state = [p \in Phones |-> "ON HOOK"]
        /\ peer = [p \in Phones |-> NULL]
        /\ number = [p \in Phones |-> NULL]

Plug(p) ==
    /\ ~Plugged(p)
    /\ \E n \in Numbers :
          /\ \A q \in Phones : number[q] # n
          /\ number' = [number EXCEPT ![p] = n]
    /\ state' = [state EXCEPT ![p] = "ON HOOK"]
    /\ peer' = [peer EXCEPT ![p] = NULL]

Unplug(p) ==
    /\ Plugged(p)
    /\ number' = [number EXCEPT ![p] = NULL]
    /\ IF state[p] \in InCall
       THEN /\ state' = [state EXCEPT ![peer[p]] = PeerAfter(state[p]),
                                      ![p] = "ON HOOK"]
            /\ peer' = [peer EXCEPT ![peer[p]] = NULL, ![p] = NULL]
       ELSE /\ state' = [state EXCEPT ![p] = "ON HOOK"]
            /\ UNCHANGED peer

PickUp(p) ==
    /\ Plugged(p)
    /\ \/ /\ state[p] = "ON HOOK"
          /\ state' = [state EXCEPT ![p] = "DIAL TONE"]
       \/ /\ state[p] = "RINGING"
          /\ state' = [state EXCEPT ![p] = "CONNECTED", ![peer[p]] = "CONNECTED"]
    /\ UNCHANGED <<peer, number>>

HangUp(p) ==
    /\ Plugged(p)
    /\ IF state[p] \in InCall
       THEN /\ state' = [state EXCEPT ![peer[p]] = PeerAfter(state[p]),
                                      ![p] = "ON HOOK"]
            /\ peer' = [peer EXCEPT ![peer[p]] = NULL, ![p] = NULL]
       ELSE /\ state' = [state EXCEPT ![p] = "ON HOOK"]
            /\ UNCHANGED peer
    /\ UNCHANGED number

Dial(p, n) ==
    /\ Plugged(p)
    /\ state[p] = "DIAL TONE"
    /\ \/ /\ \A q \in Phones : number[q] # n
          /\ state' = [state EXCEPT ![p] = "ERROR"]
          /\ UNCHANGED peer
       \/ \E q \in Phones :
             /\ number[q] = n
             /\ IF q # p /\ state[q] = "ON HOOK"
                THEN /\ state' = [state EXCEPT ![p] = "RING BACK", ![q] = "RINGING"]
                     /\ peer' = [peer EXCEPT ![p] = q, ![q] = p]
                ELSE /\ state' = [state EXCEPT ![p] = "BUSY SIGNAL"]
                     /\ UNCHANGED peer
    /\ UNCHANGED number

Next == \E p \in Phones : \/ Plug(p)
                          \/ Unplug(p)
                          \/ PickUp(p)
                          \/ HangUp(p)
                          \/ \E n \in Numbers : Dial(p, n)

Spec == Init /\ [][Next]_vars

=============================================================================
