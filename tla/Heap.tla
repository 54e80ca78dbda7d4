-------------------------------- MODULE Heap --------------------------------
(***************************************************************************)
(* What an allocator promises its client: regions of memory, each aligned  *)
(* to Unit rows, no two of which share a row.  The client obtains a        *)
(* region, releases it, or has it replaced by one of another size.         *)
(***************************************************************************)
EXTENDS Integers

CONSTANTS Rows,     \* the rows of the heap
          Unit,     \* the alignment of every region
          Requests  \* the rows clients ask for

VARIABLE regions    \* the first row of each region -> its number of rows

Places == {p \in 0 .. (Rows - 1) : p % Unit = 0}
Span(p, n) == p .. (p + n - 1)

\* The heap can give the region of n rows at p beside those of others.
MayGive(p, n, others) ==
    /\ p + n <= Rows
    /\ \A q \in DOMAIN others : q # p /\ Span(p, n) \cap Span(q, others[q]) = {}

Except(p) == [q \in DOMAIN regions \ {p} |-> regions[q]]
With(p, n, others) ==
    [q \in DOMAIN others \cup {p} |-> IF q = p THEN n ELSE others[q]]

Obtain(p, n) == regions' = With(p, n, regions) /\ MayGive(p, n, regions)
Release(p) == regions' = Except(p)
Replace(p, q, n) == regions' = With(q, n, Except(p)) /\ MayGive(q, n, Except(p))

Init == regions = [p \in {} |-> 0]
Next == \/ \E p \in Places, n \in Requests : Obtain(p, n)
        \/ \E p \in DOMAIN regions : Release(p)
        \/ \E p \in DOMAIN regions, q \in Places, n \in Requests : Replace(p, q, n)
Spec == Init /\ [][Next]_regions

\* What the client relies on: every region lies in the heap, at an aligned address,
\* and no two regions share a row.
RegionsApart ==
    /\ regions \in [DOMAIN regions -> Nat]
    /\ \A p \in DOMAIN regions : p \in Places /\ p + regions[p] <= Rows
    /\ \A p, q \in DOMAIN regions :
          p # q => Span(p, regions[p]) \cap Span(q, regions[q]) = {}
=============================================================================
