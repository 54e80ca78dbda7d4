---------------------------- MODULE Heap_proofs ----------------------------
(***************************************************************************)
(* The abstract heap keeps its regions apart, whatever its size, its       *)
(* alignment and the sizes asked for.                                      *)
(***************************************************************************)
EXTENDS Heap, TLAPS

\* What is left after a release is still apart.
LEMMA ExceptKeepsApart ==
    ASSUME RegionsApart, NEW p \in DOMAIN regions
    PROVE  /\ Except(p) \in [DOMAIN regions \ {p} -> Nat]
           /\ \A q \in DOMAIN regions \ {p} : Except(p)[q] = regions[q]
  BY DEF Except, RegionsApart

\* A region that the heap may give beside others that are apart joins them: the
\* argument shared by Obtain and Replace.
LEMMA WithKeepsApart ==
    ASSUME Rows \in Nat, Unit \in Nat \ {0}, Requests \subseteq Nat,
           NEW others, others \in [DOMAIN others -> Nat],
           \A q \in DOMAIN others : q \in Places /\ q + others[q] <= Rows,
           \A q, r \in DOMAIN others :
              q # r => Span(q, others[q]) \cap Span(r, others[r]) = {},
           NEW p \in Places, NEW n \in Requests, MayGive(p, n, others),
           regions' = With(p, n, others)
    PROVE  RegionsApart'
  <1>1. /\ regions' \in [DOMAIN others \cup {p} -> Nat]
        /\ regions'[p] = n
        /\ \A q \in DOMAIN others : q # p /\ regions'[q] = others[q]
    BY DEF With, MayGive
  <1>2. DOMAIN regions' = DOMAIN others \cup {p}
    BY <1>1
  <1>3. regions' \in [DOMAIN regions' -> Nat]
    BY <1>1, <1>2
  <1>4. \A q \in DOMAIN regions' : q \in Places /\ q + regions'[q] <= Rows
    BY <1>1, <1>2 DEF MayGive
  <1>5. ASSUME NEW q \in DOMAIN regions', NEW r \in DOMAIN regions', q # r
        PROVE  Span(q, regions'[q]) \cap Span(r, regions'[r]) = {}
    <2>1. CASE q = p
      <3>1. r \in DOMAIN others
        BY <1>2, <1>5, <2>1
      <3>2. Span(p, n) \cap Span(r, others[r]) = {}
        BY <3>1 DEF MayGive
      <3> QED
        BY <1>1, <2>1, <3>1, <3>2
    <2>2. CASE r = p
      <3>1. q \in DOMAIN others
        BY <1>2, <1>5, <2>2
      <3>2. Span(p, n) \cap Span(q, others[q]) = {}
        BY <3>1 DEF MayGive
      <3> QED
        BY <1>1, <2>2, <3>1, <3>2
    <2>3. CASE q # p /\ r # p
      <3>1. q \in DOMAIN others /\ r \in DOMAIN others
        BY <1>2, <2>3
      <3>2. Span(q, others[q]) \cap Span(r, others[r]) = {}
        BY <1>5, <3>1
      <3> QED
        BY <1>1, <3>1, <3>2
    <2> QED
      BY <2>1, <2>2, <2>3
  <1> QED
    BY <1>3, <1>4, <1>5 DEF RegionsApart

\* Regions stay apart, in the heap and aligned in every behaviour of the abstract
\* heap.  sf_malloc, sf_free, sf_realloc and sf_memalign implement its steps.
THEOREM HeapKeepsRegionsApart ==
    ASSUME Rows \in Nat, Unit \in Nat \ {0}, Requests \subseteq Nat
    PROVE  Spec => []RegionsApart
  <1>1. Init => RegionsApart
    BY DEF Init, RegionsApart
  <1>2. RegionsApart /\ [Next]_regions => RegionsApart'
    <2> SUFFICES ASSUME RegionsApart, [Next]_regions
                 PROVE  RegionsApart'
      OBVIOUS
    <2>1. ASSUME NEW p \in Places, NEW n \in Requests, Obtain(p, n)
          PROVE  RegionsApart'
      BY <2>1, WithKeepsApart DEF Obtain, RegionsApart
    <2>2. ASSUME NEW p \in DOMAIN regions, Release(p)
          PROVE  RegionsApart'
      <3>1. regions' = Except(p) /\ DOMAIN regions' = DOMAIN regions \ {p}
        BY <2>2 DEF Release, Except
      <3>2. \A q \in DOMAIN regions' : q \in DOMAIN regions /\ regions'[q] = regions[q]
        BY <3>1, ExceptKeepsApart
      <3>3. regions' \in [DOMAIN regions' -> Nat]
        BY <3>1, ExceptKeepsApart
      <3>4. \A q \in DOMAIN regions' : q \in Places /\ q + regions'[q] <= Rows
        BY <3>2 DEF RegionsApart
      <3>5. \A q, r \in DOMAIN regions' :
               q # r => Span(q, regions'[q]) \cap Span(r, regions'[r]) = {}
        BY <3>2 DEF RegionsApart
      <3> QED
        BY <3>3, <3>4, <3>5 DEF RegionsApart
    <2>3. ASSUME NEW p \in DOMAIN regions, NEW q \in Places, NEW n \in Requests,
                 Replace(p, q, n)
          PROVE  RegionsApart'
      <3>1. /\ Except(p) \in [DOMAIN Except(p) -> Nat]
            /\ DOMAIN Except(p) = DOMAIN regions \ {p}
        BY DEF Except, RegionsApart
      <3>2. \A r \in DOMAIN Except(p) : Except(p)[r] = regions[r]
        BY <3>1, ExceptKeepsApart
      <3>3. \A r \in DOMAIN Except(p) : r \in Places /\ r + Except(p)[r] <= Rows
        BY <3>1, <3>2 DEF RegionsApart
      <3>4. \A r, s \in DOMAIN Except(p) :
               r # s => Span(r, Except(p)[r]) \cap Span(s, Except(p)[s]) = {}
        BY <3>1, <3>2 DEF RegionsApart
      <3>5. MayGive(q, n, Except(p)) /\ regions' = With(q, n, Except(p))
        BY <2>3 DEF Replace
      <3> QED
        BY <3>1, <3>3, <3>4, <3>5, WithKeepsApart
    <2>4. CASE UNCHANGED regions
      BY <2>4 DEF RegionsApart
    <2> QED
      BY <2>1, <2>2, <2>3, <2>4 DEF Next
  <1> QED
    BY <1>1, <1>2, PTL DEF Spec
=============================================================================
