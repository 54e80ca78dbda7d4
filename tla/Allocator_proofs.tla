-------------------------- MODULE Allocator_proofs --------------------------
(***************************************************************************)
(* The allocator of HW3, for every unit, page size, number of pages and    *)
(* set of requests: the arithmetic it rests on, what each of its functions *)
(* does to a heap that is in order, and that no sequence of calls brings   *)
(* the heap out of order or a client's region out of its place.            *)
(*                                                                         *)
(* A heap in order is described by its set of blocks, B.  Each function    *)
(* has a lemma that says which blocks there are after it, which of them    *)
(* are allocated, and whose rows are as they were (Keeps).  Between the    *)
(* steps of a call one block is out of order: in no list, or with a wrong  *)
(* flag behind it (Pending, Taken, Flagged with a block x).                *)
(***************************************************************************)
EXTENDS AllocatorProperties, WellFoundedInduction, SequenceTheorems, TLAPS

\* Division in integers, as the provers need it.
LEMMA Quotient ==
    ASSUME NEW n \in Nat, NEW d \in Nat \ {0}
    PROVE  /\ n \div d \in Nat
           /\ d * (n \div d) <= n
           /\ n < d * (n \div d) + d
  OBVIOUS

\* sf_malloc takes the smallest block that has a row for the header and the rows
\* asked for: its size is a multiple of M, and one unit less would not do.
THEOREM BlockSizeIsLeast ==
    ASSUME NEW size \in Nat
    PROVE  /\ BlockSize(size) % M = 0
           /\ size + 1 <= BlockSize(size)
           /\ BlockSize(size) - M < size + 1
  <1> DEFINE k == (size + 1 + M - 1) \div M
  <1>1. M \in Nat /\ M >= 4
    BY AllocatorAssumption
  <1>2. k \in Nat /\ M * k <= size + M /\ size + M < M * k + M
    <2>1. size + 1 + M - 1 = size + M /\ size + M \in Nat
      BY <1>1
    <2> QED
      BY <1>1, <2>1, Quotient
  <1>3. BlockSize(size) = M * k
    BY DEF BlockSize
  <1>4. (M * k) % M = 0
    BY <1>1, <1>2, SMTT(30)
  <1> HIDE DEF k
  <1> QED
    BY <1>1, <1>2, <1>3, <1>4

\* The search misses no block: one that is large enough is in the list where
\* sf_malloc begins, or in a later one.
THEOREM ClassesAreOrdered ==
    ASSUME NEW a \in Nat, NEW b \in Nat, M <= a, a <= b
    PROVE  /\ get_class_size(a) \in 0 .. (NUM_FREE_LISTS - 2)
           /\ get_class_size(a) <= get_class_size(b)
  <1> DEFINE u == a \div M
             v == b \div M
  <1>1. M \in Nat \ {0}
    BY AllocatorAssumption
  <1>2. u \in Nat /\ v \in Nat /\ M * u <= a /\ a < M * u + M /\ M * v <= b /\ b < M * v + M
    BY <1>1, Quotient
  <1>3. u >= 1
    BY <1>1, <1>2
  <1>4. u <= v
    <2>1. SUFFICES ASSUME v + 1 <= u PROVE FALSE
      BY <1>2
    <2>2. M * (v + 1) <= M * u
      BY <1>1, <1>2, <2>1, SMTT(30)
    <2>3. M * (v + 1) = M * v + M
      BY <1>1, <1>2, SMTT(30)
    <2> QED
      BY <1>1, <1>2, <2>2, <2>3
  <1> HIDE DEF u, v
  <1>5. get_class_size(a) = IF u <= 3 THEN u - 1 ELSE 3
    BY DEF get_class_size, get_min_fib, NUM_FREE_LISTS, u
  <1>6. get_class_size(b) = IF v <= 3 THEN v - 1 ELSE 3
    BY DEF get_class_size, get_min_fib, NUM_FREE_LISTS, v
  <1> QED
    BY <1>2, <1>3, <1>4, <1>5, <1>6 DEF NUM_FREE_LISTS

-----------------------------------------------------------------------------
(* Rows and tags *)

\* A set of numbers has a least one.
LEMMA Least ==
    ASSUME NEW S \in SUBSET Nat, S # {}
    PROVE  \E m \in S : \A n \in S : m <= n
  <1> DEFINE R == {ss \in Nat \X Nat : ss[1] < ss[2]}
  <1>1. IsWellFoundedOn(R, Nat)
    BY NatLessThanWellFounded, Zenon DEF OpToRel
  <1>2. \A x, y \in Nat : x < y => <<x, y>> \in R
    OBVIOUS
  <1> HIDE DEF R
  <1>3. PICK m \in S : \A n \in S : <<n, m>> \notin R
    <2>1. \E m \in S : \A n \in S : <<n, m>> \notin R
      BY <1>1, WFMin, Zenon
    <2> QED
      BY <2>1
  <1>4. \A n \in S : n \in Nat /\ m \in Nat
    OBVIOUS
  <1>5. \A n \in S : ~(n < m)
    BY <1>2, <1>3, <1>4, Zenon
  <1> QED
    BY <1>4, <1>5

\* The heaps: rows of tags, of a client's words and of junk, and lists of addresses.
Rows == 0 .. (MaxPages * PAGE_SZ)
Tag == Nat \X BOOLEAN \X BOOLEAN
Cell == {Junk} \cup {Word(i) : i \in Int} \cup Tag
Heaps == [mem : [Rows -> Cell], top : Nat, epilogue : Nat,
          lists : [0 .. WildernessList -> Seq(Nat)]]

\* Two heaps that may differ in their rows only.
Beside(g, h) == g.top = h.top /\ g.epilogue = h.epilogue /\ g.lists = h.lists

\* The parts of a tag.
LEMMA TagFacts ==
  ASSUME NEW t \in Tag
  PROVE  t[1] \in Nat /\ t[2] \in BOOLEAN /\ t[3] \in BOOLEAN /\ t \in Cell
         /\ t = PACK(t[1], t[2], t[3])
BY DEF Tag, Cell, PACK

\* What PACK puts together.
LEMMA PackFacts ==
  ASSUME NEW s \in Nat, NEW p \in BOOLEAN, NEW a \in BOOLEAN
  PROVE  PACK(s, p, a) \in Tag /\ PACK(s, p, a)[1] = s /\ PACK(s, p, a)[2] = p
         /\ PACK(s, p, a)[3] = a
BY DEF Tag, PACK

\* What writing one row leaves behind.
LEMMA WriteRow ==
  ASSUME NEW h \in Heaps, NEW r \in Rows, NEW t \in Cell
  PROVE  LET g == [h EXCEPT !.mem[r] = t]
         IN  /\ g \in Heaps /\ Beside(g, h)
             /\ \A q \in Rows : g.mem[q] = IF q = r THEN t ELSE h.mem[q]
BY DEF Heaps, Beside

\* What SetTags leaves behind.
LEMMA TagsSet ==
  ASSUME NEW h \in Heaps, NEW bp \in Nat, NEW tag \in Tag,
         bp + 1 \in Rows, bp + tag[1] \in Rows
  PROVE  LET g == SetTags(h, bp, tag)
         IN  /\ g \in Heaps /\ Beside(g, h)
             /\ \A r \in Rows : g.mem[r] = IF r \in {bp + 1, bp + tag[1]} THEN tag
                                           ELSE h.mem[r]
<1> DEFINE k == set_header(h, bp, tag)
<1>1. tag \in Cell /\ tag[1] \in Nat
  BY TagFacts
<1>2. /\ k \in Heaps /\ Beside(k, h)
      /\ \A r \in Rows : k.mem[r] = IF r = bp + 1 THEN tag ELSE h.mem[r]
  BY <1>1, WriteRow DEF set_header
<1>3. next_blkp(k, bp) = bp + tag[1]
  BY <1>2 DEF next_blkp, get_size, header
<1>4. SetTags(h, bp, tag) = [k EXCEPT !.mem[bp + tag[1]] = tag]
  BY <1>3 DEF SetTags, set_footer
<1> HIDE DEF k
<1> QED BY <1>1, <1>2, <1>4, WriteRow DEF Beside

\* What Scrub leaves behind.
LEMMA ScrubRows ==
  ASSUME NEW k \in Heaps, NEW bp
  PROVE  LET g == Scrub(k, bp)
         IN  /\ g \in Heaps /\ Beside(g, k)
             /\ \A r \in Rows : g.mem[r] = IF r \in (bp + 2) .. (next_blkp(k, bp) - 1)
                                           THEN Junk ELSE k.mem[r]
<1> DEFINE inner == (bp + 2) .. (next_blkp(k, bp) - 1)
           mem == [r \in Rows |-> IF r \in inner THEN Junk ELSE k.mem[r]]
<1>1. DOMAIN k.mem = Rows
  BY DEF Heaps
<1>2. Scrub(k, bp) = [k EXCEPT !.mem = mem]
  BY <1>1 DEF Scrub
<1> HIDE DEF inner
<1>3. mem \in [Rows -> Cell]
  BY DEF Heaps, Cell
<1>4. \A r \in Rows : mem[r] = IF r \in inner THEN Junk ELSE k.mem[r]
  OBVIOUS
<1> HIDE DEF mem
<1>5. [k EXCEPT !.mem = mem] \in Heaps /\ [k EXCEPT !.mem = mem].mem = mem
      /\ Beside([k EXCEPT !.mem = mem], k)
  BY <1>3 DEF Heaps, Beside
<1> QED BY <1>2, <1>4, <1>5 DEF inner

\* The rows of g are those of h with a free block of size rows at low.
Freed(h, g, low, size, palloc) ==
    /\ g \in Heaps /\ g.top = h.top /\ g.epilogue = h.epilogue
    /\ \A r \in Rows :
          g.mem[r] = IF r \in {low + 1, low + size} THEN PACK(size, palloc, FALSE)
                     ELSE IF r \in (low + 2) .. (low + size - 1) THEN Junk
                     ELSE h.mem[r]

\* What SetFree leaves behind.
LEMMA FreeSet ==
  ASSUME NEW h \in Heaps, NEW bp \in Nat, NEW size \in Nat, NEW palloc \in BOOLEAN,
         size > 1, bp + size \in Rows
  PROVE  LET g == SetFree(h, bp, size, palloc)
         IN  Freed(h, g, bp, size, palloc) /\ g.lists = h.lists
<1> DEFINE tag == PACK(size, palloc, FALSE)
           k == SetTags(h, bp, tag)
           inner == (bp + 2) .. (bp + size - 1)
           g == SetFree(h, bp, size, palloc)
<1>1. tag \in Tag /\ tag[1] = size
  BY PackFacts
<1>2. bp + 1 \in Rows /\ MaxPages * PAGE_SZ \in Nat
  BY AllocatorAssumption DEF Rows
<1>3. /\ k \in Heaps /\ Beside(k, h)
      /\ \A r \in Rows : k.mem[r] = IF r \in {bp + 1, bp + size} THEN tag ELSE h.mem[r]
  <2> HIDE DEF tag
  <2> QED BY <1>1, <1>2, TagsSet
<1>4. next_blkp(k, bp) = bp + size
  BY <1>1, <1>2, <1>3 DEF next_blkp, get_size, header
<1>5. g = Scrub(k, bp)
  BY DEF SetFree
<1> HIDE DEF k, g, tag
<1>6. /\ g \in Heaps /\ Beside(g, h)
      /\ \A r \in Rows : g.mem[r] = IF r \in inner THEN Junk ELSE k.mem[r]
  BY <1>3, <1>4, <1>5, ScrubRows DEF Beside
<1>7. \A r \in inner : r # bp + 1 /\ r # bp + size
  OBVIOUS
<1> QED BY <1>3, <1>6, <1>7 DEF g, tag, Freed, Beside

-----------------------------------------------------------------------------
(* A heap in order *)

\* The unit and the page, as the provers need them.
LEMMA Unit == M \in Nat /\ M >= 4 /\ M \in Nat \ {0} /\ PAGE_SZ \in Nat /\ PAGE_SZ >= 3 * M
  BY AllocatorAssumption

\* Quotient and remainder.
LEMMA Division ==
  ASSUME NEW a \in Nat, NEW d \in Nat \ {0}
  PROVE  a \div d \in Nat /\ a = d * (a \div d) + (a % d)
OBVIOUS

\* The multiples of M.
LEMMA Multiple ==
  ASSUME NEW a \in Nat
  PROVE  a % M = 0 <=> \E k \in Nat : a = M * k
<1>1. ASSUME a % M = 0 PROVE \E k \in Nat : a = M * k
  <2>1. a \div M \in Nat /\ a = M * (a \div M) + (a % M)
    BY Unit, Division
  <2> QED BY <1>1, <2>1, Unit
<1>2. ASSUME NEW k \in Nat, a = M * k PROVE a % M = 0
  BY <1>2, Unit, SMTT(30)
<1> QED BY <1>1, <1>2

\* The sum of two multiples of M is one.
LEMMA MultipleSum ==
  ASSUME NEW a \in Nat, NEW b \in Nat, a % M = 0, b % M = 0
  PROVE  (a + b) % M = 0
<1>1. PICK k \in Nat : a = M * k
  BY Multiple
<1>2. PICK l \in Nat : b = M * l
  BY Multiple
<1>3. M * (k + l) = M * k + M * l
  BY Unit, SMTT(30)
<1> QED BY <1>1, <1>2, <1>3, Multiple

\* So is their difference.
LEMMA MultipleDifference ==
  ASSUME NEW a \in Nat, NEW b \in Nat, a % M = 0, b % M = 0, b < a
  PROVE  (a - b) % M = 0 /\ a - b >= M
<1>1. PICK k \in Nat : a = M * k
  BY Multiple
<1>2. PICK l \in Nat : b = M * l
  BY Multiple
<1>3. k > l
  <2>1. SUFFICES ASSUME k <= l PROVE FALSE
    OBVIOUS
  <2>2. M * k <= M * l
    BY <2>1, Unit, SMTT(30)
  <2> QED BY <1>1, <1>2, <2>2, Unit
<1>4. M * (k - l) = M * k - M * l /\ k - l \in Nat /\ k - l >= 1
  BY <1>3, Unit, SMTT(30)
<1>5. M * (k - l) >= M
  BY <1>4, Unit, SMTT(30)
<1> QED BY <1>1, <1>2, <1>4, <1>5, Multiple

\* The allocator's pointers: whole pages, and the epilogue in the last row but one.
Sound(h) ==
    /\ h \in Heaps
    /\ h.top % PAGE_SZ = 0 /\ PAGE_SZ <= h.top /\ h.top <= MaxPages * PAGE_SZ
    /\ h.epilogue = h.top - 1

\* Where the blocks end: the row of the epilogue's header is a tag of size 0.
End0(h) == h.top - 2

\* The blocks of B tile the heap h, from the first behind the prologue to the tag of
\* size 0 at its end.
Tiled(h, B) ==
    /\ First \in B
    /\ B \subseteq First .. (h.top - 3)
    /\ \A b \in B :
          /\ (b + 2) % M = 0
          /\ header(h, b) \in Tag /\ get_size(h, b) >= M /\ get_size(h, b) % M = 0
          /\ next_blkp(h, b) \in B \cup {h.top - 2}
          /\ b # First => \E c \in B : next_blkp(h, c) = b
          /\ \A c \in B : b < c => next_blkp(h, b) <= c
    /\ header(h, h.top - 2) \in Tag
    /\ get_size(h, h.top - 2) = 0 /\ ~get_alloc(h, h.top - 2)

\* The flag of each block tells of the block before it, except behind the block x; the
\* footer of a free block is its header.
Flagged(h, B, x) ==
    /\ get_palloc(h, First)
    /\ \A b \in B :
          /\ b # x /\ next_blkp(h, b) # h.top - 2
                => get_palloc(h, next_blkp(h, b)) = get_alloc(h, b)
          /\ ~get_alloc(h, b) => prev_footer(h, next_blkp(h, b)) = header(h, b)

\* The free blocks of B.
Unallocated(h, B) == {b \in B : ~get_alloc(h, b)}

\* The list where a free block belongs.
Home(h, b) == IF next_blkp(h, b) = h.top - 2 THEN WildernessList
              ELSE get_class_size(get_size(h, b))

\* The lists hold the blocks of F, each once and where it belongs, and nothing else.
Listing(h, F) ==
    /\ \A i \in 0 .. WildernessList : \A k \in 1 .. Len(h.lists[i]) :
          /\ h.lists[i][k] \in F
          /\ Home(h, h.lists[i][k]) = i
          /\ \A l \in 1 .. Len(h.lists[i]) : h.lists[i][l] = h.lists[i][k] => l = k
    /\ \A b \in F : /\ Home(h, b) \in 0 .. WildernessList
                    /\ \E k \in 1 .. Len(h.lists[Home(h, b)]) : h.lists[Home(h, b)][k] = b

\* What is known of the size of a heap.
LEMMA Bounds == ASSUME NEW h, Sound(h)
  PROVE /\ h.top \in Nat /\ h.top >= 3 * M /\ h.top <= MaxPages * PAGE_SZ
        /\ MaxPages * PAGE_SZ \in Nat
        /\ First \in Nat /\ First = 2 * M - 2
        /\ \A r \in Nat : r <= h.top => r \in Rows
        /\ h.top % M = 0
<1>1. h.top \in Nat /\ MaxPages * PAGE_SZ \in Nat /\ First = 2 * M - 2
  BY Unit, AllocatorAssumption DEF Sound, Heaps, First, prologue
<1>2. h.top % M = 0
  <2>1. PAGE_SZ \in Nat \ {0} /\ h.top % PAGE_SZ = 0 /\ PAGE_SZ % M = 0
    BY Unit, AllocatorAssumption DEF Sound
  <2>2. PICK k \in Nat : h.top = PAGE_SZ * k
    <3>1. /\ h.top \div PAGE_SZ \in Nat
          /\ h.top = PAGE_SZ * (h.top \div PAGE_SZ) + (h.top % PAGE_SZ)
      BY <1>1, <2>1, Division
    <3>2. PAGE_SZ * (h.top \div PAGE_SZ) \in Nat
      BY <2>1, <3>1, SMTT(30)
    <3>3. h.top = PAGE_SZ * (h.top \div PAGE_SZ)
      BY <2>1, <3>1, <3>2
    <3> QED BY <3>1, <3>3, Zenon
  <2>3. PICK l \in Nat : PAGE_SZ = M * l
    BY <2>1, Multiple
  <2>4. (M * l) * k = M * (l * k) /\ l * k \in Nat
    BY Unit, SMTT(30)
  <2> QED BY <1>1, <2>2, <2>3, <2>4, Multiple
<1> QED BY <1>1, <1>2, Unit DEF Sound, Rows

\* What is known of a block of a heap.
LEMMA BlockFacts ==
  ASSUME NEW h, Sound(h), NEW B, Tiled(h, B), NEW b \in B
  PROVE  /\ b \in Nat /\ First <= b /\ b < h.top - 2 /\ (b + 2) % M = 0
         /\ header(h, b) \in Tag /\ get_size(h, b) \in Nat /\ get_size(h, b) >= M
         /\ get_size(h, b) % M = 0 /\ get_size(h, b) >= 4
         /\ get_alloc(h, b) \in BOOLEAN /\ get_palloc(h, b) \in BOOLEAN
         /\ next_blkp(h, b) = b + get_size(h, b) /\ next_blkp(h, b) \in Nat
         /\ next_blkp(h, b) <= h.top - 2 /\ next_blkp(h, b) \in B \cup {h.top - 2}
         /\ b + 1 \in Rows /\ next_blkp(h, b) \in Rows
<1>1. b \in First .. (h.top - 3) /\ header(h, b) \in Tag
  BY DEF Tiled
<1>2. b \in Nat /\ First <= b /\ b < h.top - 2
  BY <1>1, Bounds
<1>3. /\ get_size(h, b) \in Nat /\ get_alloc(h, b) \in BOOLEAN /\ get_palloc(h, b) \in BOOLEAN
  BY <1>1, TagFacts DEF get_size, get_alloc, get_palloc
<1>4. next_blkp(h, b) \in B \cup {h.top - 2} /\ B \subseteq First .. (h.top - 3)
  BY DEF Tiled
<1>5. next_blkp(h, b) = b + get_size(h, b)
  BY DEF next_blkp
<1>6. next_blkp(h, b) <= h.top - 2
  BY <1>2, <1>3, <1>4, <1>5, Bounds
<1> QED BY <1>1, <1>2, <1>3, <1>4, <1>5, <1>6, Bounds, Unit DEF Tiled

\* Two blocks are apart.
LEMMA Apart ==
  ASSUME NEW h, Sound(h), NEW B, Tiled(h, B), NEW b \in B, NEW c \in B, b # c
  PROVE  \/ b < c /\ next_blkp(h, b) <= c /\ next_blkp(h, b) < next_blkp(h, c)
         \/ c < b /\ next_blkp(h, c) <= b /\ next_blkp(h, c) < next_blkp(h, b)
<1>1. b \in Nat /\ c \in Nat /\ next_blkp(h, b) \in Nat /\ next_blkp(h, c) \in Nat
      /\ b < next_blkp(h, b) /\ c < next_blkp(h, c)
  BY BlockFacts
<1>2. b < c => next_blkp(h, b) <= c
  BY DEF Tiled
<1>3. c < b => next_blkp(h, c) <= b
  BY DEF Tiled
<1> QED BY <1>1, <1>2, <1>3

-----------------------------------------------------------------------------
(* Flags and lists *)

\* The blocks of A keep their sizes, and but for its last row what is in them.
Keeps(h, g, A) ==
    \A a \in A : /\ get_size(g, a) = get_size(h, a)
                 /\ \A r \in (a + 2) .. (next_blkp(h, a) - 1) : g.mem[r] = h.mem[r]

\* Sequences of at most one item.
LEMMA OneItem ==
  ASSUME NEW s \in Seq(Nat), Len(s) <= 1
  PROVE  /\ s # <<>> <=> Len(s) = 1
         /\ s # <<>> => Head(s) = s[1] /\ s = <<s[1]>>
         /\ \A l \in 1 .. Len(s) : l = 1 /\ s # <<>>
<1> DEFINE n == Len(s)
<1>1. n \in Nat /\ n <= 1
  OBVIOUS
<1>2. s # <<>> => n >= 1 /\ Head(s) = s[1]
  OBVIOUS
<1>3. s = <<>> => n = 0
  OBVIOUS
<1>4. n = 1 => s = <<s[1]>>
  OBVIOUS
<1> HIDE DEF n
<1>5. \A l \in 1 .. n : l = 1 /\ n = 1
  BY <1>1
<1>6. s # <<>> <=> n = 1
  BY <1>1, <1>2, <1>3
<1> QED BY <1>2, <1>4, <1>5, <1>6 DEF n

\* A heap of the same size is sound as well.
LEMMA SoundStays ==
  ASSUME NEW h, Sound(h), NEW g, g \in Heaps, g.top = h.top, g.epilogue = h.epilogue
  PROVE  Sound(g)
BY DEF Sound

\* Blocks that keep their sizes tile the heap as before.
LEMMA TiledStays ==
  ASSUME NEW h, Sound(h), NEW B, Tiled(h, B), NEW g, g.top = h.top,
         \A b \in B : header(g, b) \in Tag /\ get_size(g, b) = get_size(h, b),
         header(g, h.top - 2) \in Tag, get_size(g, h.top - 2) = 0,
         ~get_alloc(g, h.top - 2)
  PROVE  Tiled(g, B)
<1>1. \A b \in B : next_blkp(g, b) = next_blkp(h, b)
  BY DEF next_blkp
<1> QED BY <1>1 DEF Tiled

\* Blocks that keep their sizes are listed where they belong as before.
LEMMA ListingStays ==
  ASSUME NEW h, NEW F, Listing(h, F), NEW g, g.top = h.top, g.lists = h.lists,
         \A b \in F : get_size(g, b) = get_size(h, b)
  PROVE  Listing(g, F)
<1>1. \A b \in F : Home(g, b) = Home(h, b)
  BY DEF Home, next_blkp
<1> QED BY <1>1 DEF Listing

\* The list of the wilderness holds the free block that ends the heap, if there is one.
LEMMA TheWilderness ==
  ASSUME NEW h, Sound(h), NEW B, Tiled(h, B), NEW F, F \subseteq B, Listing(h, F)
  PROVE  /\ HasWilderness(h) => /\ Wilderness(h) \in F
                                /\ next_blkp(h, Wilderness(h)) = h.top - 2
                                /\ h.lists[WildernessList] = <<Wilderness(h)>>
         /\ \A b \in F : next_blkp(h, b) = h.top - 2
                            => HasWilderness(h) /\ Wilderness(h) = b
<1> DEFINE list == h.lists[WildernessList]
<1>1. list \in Seq(Nat) /\ WildernessList \in 0 .. WildernessList /\ WildernessList = 9
  BY DEF Sound, Heaps, WildernessList, NUM_FREE_LISTS
<1>2. \A b \in F : get_size(h, b) \in Nat /\ get_size(h, b) >= M
  BY BlockFacts
<1>3. \A b \in F : Home(h, b) = WildernessList => next_blkp(h, b) = h.top - 2
  <2> TAKE b \in F
  <2>1. get_class_size(get_size(h, b)) # 9
    <3> DEFINE u == get_size(h, b) \div M
    <3>1. u \in Int
      BY <1>2, Unit
    <3> HIDE DEF u
    <3> QED BY <3>1 DEF get_class_size, get_min_fib, NUM_FREE_LISTS, u
  <2> QED BY <1>1, <2>1 DEF Home
<1>4. \A k \in 1 .. Len(list) : /\ list[k] \in F /\ next_blkp(h, list[k]) = h.top - 2
                                /\ \A l \in 1 .. Len(list) : list[l] = list[k] => l = k
  BY <1>1, <1>3 DEF Listing
<1>5. \A b, c \in F : next_blkp(h, b) = next_blkp(h, c) => b = c
  <2> TAKE b, c \in F
  <2>1. next_blkp(h, b) \in Nat /\ next_blkp(h, c) \in Nat
    BY BlockFacts
  <2> QED BY <2>1, Apart
<1>6. Len(list) \in Nat /\ Len(list) <= 1
  <2>1. Len(list) \in Nat
    BY <1>1
  <2>2. SUFFICES ASSUME Len(list) >= 2 PROVE FALSE
    BY <2>1
  <2>3. 1 \in 1 .. Len(list) /\ 2 \in 1 .. Len(list)
    BY <2>1, <2>2
  <2>4. list[1] = list[2]
    BY <1>4, <1>5, <2>3
  <2> QED BY <1>4, <2>3, <2>4
<1>7. HasWilderness(h) => list = <<Wilderness(h)>> /\ Len(list) = 1 /\ list[1] = Wilderness(h)
  BY <1>1, <1>6, OneItem DEF HasWilderness, Wilderness
<1>8. ASSUME NEW b \in F, next_blkp(h, b) = h.top - 2
      PROVE  HasWilderness(h) /\ Wilderness(h) = b
  <2>1. PICK k \in 1 .. Len(list) : list[k] = b
    BY <1>8 DEF Listing, Home
  <2>2. k = 1 /\ list # <<>> /\ Head(list) = list[1]
    BY <1>1, <1>6, <2>1, OneItem
  <2> QED BY <2>1, <2>2 DEF HasWilderness, Wilderness
<1> QED BY <1>4, <1>6, <1>7, <1>8

\* What set_nextblkp_palloc writes.
LEMMA PallocSet ==
  ASSUME NEW h, Sound(h), NEW B, Tiled(h, B), NEW b \in B, NEW palloc \in BOOLEAN
  PROVE  LET g == set_nextblkp_palloc(h, b, palloc)
             nbp == next_blkp(h, b)
         IN  /\ g \in Heaps /\ Beside(g, h)
             /\ PACK(get_size(h, nbp), palloc, get_alloc(h, nbp)) \in Tag
             /\ \A r \in Rows :
                   g.mem[r] = IF r \in {nbp + 1, nbp + get_size(h, nbp)}
                              THEN PACK(get_size(h, nbp), palloc, get_alloc(h, nbp))
                              ELSE h.mem[r]
<1> DEFINE nbp == next_blkp(h, b)
           tag == PACK(get_size(h, nbp), palloc, get_alloc(h, nbp))
<1>1. nbp \in Nat /\ nbp <= h.top - 2 /\ h.top \in Nat /\ h.epilogue = h.top - 1
  BY BlockFacts, Bounds DEF Sound
<1>2. get_size(h, nbp) \in Nat /\ get_alloc(h, nbp) \in BOOLEAN
      /\ nbp + get_size(h, nbp) <= h.top - 2
  <2>1. CASE nbp \in B
    BY <2>1, BlockFacts
  <2>2. CASE nbp = h.top - 2
    BY <1>1, <2>2, TagFacts DEF Tiled, get_size, get_alloc
  <2> QED BY <2>1, <2>2 DEF Tiled
<1>3. tag \in Tag /\ tag[1] = get_size(h, nbp)
  BY <1>2, PackFacts
<1>4. nbp + 1 \in Rows /\ nbp + get_size(h, nbp) \in Rows
  BY <1>1, <1>2, Bounds
<1>5. set_nextblkp_palloc(h, b, palloc) = SetTags(h, nbp, tag)
  BY <1>1 DEF set_nextblkp_palloc
<1> HIDE DEF tag, nbp
<1>6. h \in Heaps
  BY DEF Sound
<1> USE DEF nbp
<1> QED BY <1>1, <1>3, <1>4, <1>5, <1>6, TagsSet DEF tag

\* The flag of the block behind b is set right, and nothing else is disturbed.
LEMMA PallocRight ==
  ASSUME NEW h, Sound(h), NEW B, Tiled(h, B), NEW b \in B, Flagged(h, B, b),
         NEW palloc \in BOOLEAN, palloc = get_alloc(h, b),
         next_blkp(h, b) = h.top - 2 => get_alloc(h, b)
  PROVE  LET g == set_nextblkp_palloc(h, b, palloc)
         IN  /\ Sound(g) /\ Tiled(g, B) /\ Flagged(g, B, NULL) /\ g.lists = h.lists
             /\ g.top = h.top
             /\ \A c \in B : get_size(g, c) = get_size(h, c) /\ get_alloc(g, c) = get_alloc(h, c)
             /\ Keeps(h, g, B)
<1> DEFINE g == set_nextblkp_palloc(h, b, palloc)
           nbp == next_blkp(h, b)
           tag == PACK(get_size(h, nbp), palloc, get_alloc(h, nbp))
           foot == nbp + get_size(h, nbp)
<1> HIDE DEF g, tag
<1>1. /\ g \in Heaps /\ g.top = h.top /\ g.epilogue = h.epilogue /\ g.lists = h.lists
      /\ tag \in Tag
      /\ \A r \in Rows : g.mem[r] = IF r \in {nbp + 1, foot} THEN tag ELSE h.mem[r]
  BY PallocSet DEF g, tag, Beside
<1>2. get_size(h, nbp) \in Nat /\ get_alloc(h, nbp) \in BOOLEAN /\ nbp \in Nat
      /\ nbp <= h.top - 2 /\ foot = next_blkp(h, nbp) /\ foot <= h.top - 2
  <2>1. CASE nbp \in B
    BY <2>1, BlockFacts
  <2>2. CASE nbp = h.top - 2
    BY <2>2, Bounds, TagFacts DEF Tiled, get_size, get_alloc, next_blkp
  <2> QED BY <2>1, <2>2 DEF Tiled
<1>3. tag[1] = get_size(h, nbp) /\ tag[2] = palloc /\ tag[3] = get_alloc(h, nbp)
  BY <1>2, PackFacts DEF tag
<1>4. \A c \in B : c + 1 \in Rows /\ c + 1 # foot /\ next_blkp(h, c) # nbp + 1
                   /\ next_blkp(h, c) \in Rows /\ (c + 1 = nbp + 1 <=> c = nbp)
  <2> TAKE c \in B
  <2>1. c \in Nat /\ c + 1 \in Rows /\ next_blkp(h, c) \in Rows /\ next_blkp(h, c) \in Nat
        /\ next_blkp(h, c) <= h.top - 2 /\ c + 4 <= next_blkp(h, c)
    BY BlockFacts
  <2>2. CASE nbp \in B
    <3>1. nbp + 4 <= foot
      BY <1>2, <2>2, BlockFacts
    <3>2. c # nbp => \/ next_blkp(h, c) <= nbp
                     \/ foot <= c
      BY <1>2, <2>2, Apart
    <3> QED BY <1>2, <2>1, <3>1, <3>2
  <2>3. CASE nbp = h.top - 2
    <3>1. foot = h.top - 2
      BY <1>2, <2>3 DEF Tiled
    <3> QED BY <1>2, <2>1, <2>3, <3>1
  <2> QED BY <2>2, <2>3 DEF Tiled
<1>5. \A c \in B : header(g, c) = IF c = nbp THEN tag ELSE header(h, c)
  BY <1>1, <1>4 DEF header
<1>6. \A c \in B : /\ header(g, c) \in Tag
                   /\ get_size(g, c) = get_size(h, c) /\ get_alloc(g, c) = get_alloc(h, c)
                   /\ get_palloc(g, c) = IF c = nbp THEN palloc ELSE get_palloc(h, c)
  BY <1>1, <1>3, <1>5, BlockFacts DEF get_size, get_alloc, get_palloc
<1>7. header(g, h.top - 2) \in Tag /\ get_size(g, h.top - 2) = 0 /\ ~get_alloc(g, h.top - 2)
  <2>1. h.top - 1 \in Rows /\ h.top - 2 + 1 = h.top - 1 /\ h.top \in Nat
    BY Bounds, Unit
  <2>2. header(g, h.top - 2) = IF nbp = h.top - 2 THEN tag ELSE header(h, h.top - 2)
    BY <1>1, <1>2, <2>1 DEF header
  <2>3. header(h, h.top - 2) \in Tag /\ get_size(h, h.top - 2) = 0 /\ ~get_alloc(h, h.top - 2)
    BY DEF Tiled
  <2> QED BY <1>1, <1>3, <2>2, <2>3 DEF get_size, get_alloc
<1>8. Sound(g) /\ Tiled(g, B)
  BY <1>1, <1>6, <1>7, SoundStays, TiledStays
<1>9. \A c \in B : next_blkp(g, c) = next_blkp(h, c)
  BY <1>6 DEF next_blkp
<1>10. Flagged(g, B, NULL)
  <2>1. get_palloc(g, First)
    <3>1. First # nbp
      BY BlockFacts
    <3> QED BY <1>6, <3>1 DEF Flagged, Tiled
  <2>2. ASSUME NEW c \in B, next_blkp(h, c) # h.top - 2
        PROVE  get_palloc(g, next_blkp(h, c)) = get_alloc(g, c)
    <3>1. next_blkp(h, c) \in B
      BY <2>2 DEF Tiled
    <3>2. c = b \/ next_blkp(h, c) # nbp
      <4>1. next_blkp(h, c) \in Nat
        BY BlockFacts
      <4> QED BY <1>2, <4>1, Apart
    <3> QED BY <1>6, <2>2, <3>1, <3>2 DEF Flagged
  <2>3. ASSUME NEW c \in B, ~get_alloc(g, c)
        PROVE  prev_footer(g, next_blkp(h, c)) = header(g, c)
    <3>1. prev_footer(h, next_blkp(h, c)) = header(h, c)
      BY <1>6, <2>3 DEF Flagged
    <3>2. next_blkp(h, c) = foot <=> c = nbp \/ (nbp = h.top - 2 /\ c = b)
      <4>1. next_blkp(h, c) \in Nat /\ next_blkp(h, b) \in Nat
        BY BlockFacts
      <4>2. nbp \in B => (next_blkp(h, c) = foot <=> c = nbp)
        BY <1>2, <4>1, Apart
      <4>3. nbp = h.top - 2 => foot = nbp /\ nbp \notin B
        <5>1. h.top - 2 \notin B
          <6>1. \A a \in B : a \in Nat /\ a < h.top - 2 /\ h.top \in Nat
            BY BlockFacts, Bounds
          <6>2. \A a \in B : a # h.top - 2
            BY <6>1
          <6> QED BY <6>2
        <5>2. get_size(h, h.top - 2) = 0
          BY DEF Tiled
        <5> QED BY <1>2, <5>1, <5>2
      <4>4. nbp = next_blkp(h, c) <=> c = b
        BY <4>1, Apart
      <4> QED BY <4>2, <4>3, <4>4 DEF Tiled
    <3>3. ~(nbp = h.top - 2 /\ c = b)
      BY <1>6, <2>3
    <3> QED BY <1>1, <1>4, <1>5, <3>1, <3>2, <3>3 DEF prev_footer
  <2> QED BY <1>1, <1>9, <2>1, <2>2, <2>3 DEF Flagged
<1>11. Keeps(h, g, B)
  <2> SUFFICES ASSUME NEW c \in B, NEW r \in (c + 2) .. (next_blkp(h, c) - 1)
               PROVE  g.mem[r] = h.mem[r]
    BY <1>6 DEF Keeps
  <2>1. c \in Nat /\ next_blkp(h, c) \in Nat /\ next_blkp(h, c) <= h.top - 2
        /\ h.top \in Nat
    BY BlockFacts, Bounds
  <2>2. r \in Rows
    BY <2>1, Bounds
  <2>3. r # nbp + 1 /\ r # foot
    <3>1. CASE nbp \in B
      <4>1. c = nbp \/ next_blkp(h, c) <= nbp \/ foot <= c
        BY <1>2, <3>1, Apart
      <4> QED BY <1>2, <2>1, <4>1
    <3>2. CASE nbp = h.top - 2
      BY <1>2, <2>1, <3>2
    <3> QED BY <3>1, <3>2 DEF Tiled
  <2> QED BY <1>1, <2>2, <2>3
<1> QED BY <1>1, <1>6, <1>8, <1>10, <1>11 DEF g

-----------------------------------------------------------------------------
(* Blocks that are joined *)

\* The allocated blocks of B.
Allocated(h, B) == {b \in B : get_alloc(h, b)}

\* The blocks when those from low to high are one.
Merged(B, low, high) == {b \in B : b <= low \/ high < b}

\* One free block takes the place of the blocks from low to high, of which none but x
\* may have had a wrong flag behind it.
Joining(h, B, x, low, high, size, g) ==
    /\ Sound(h) /\ Tiled(h, B) /\ Flagged(h, B, x)
    /\ low \in B /\ high \in B /\ low <= high
    /\ x \notin Merged(B, low, high) \ {low}
    /\ size = next_blkp(h, high) - low
    /\ Freed(h, g, low, size, get_palloc(h, low))

\* Joined blocks tile the heap with the others, and only the flag behind them may be
\* wrong.
LEMMA BlocksJoined ==
  ASSUME NEW h, NEW B, NEW x, NEW low, NEW high, NEW size, NEW g,
         Joining(h, B, x, low, high, size, g)
  PROVE  /\ Sound(g) /\ Tiled(g, Merged(B, low, high)) /\ Flagged(g, Merged(B, low, high), low)
         /\ get_size(g, low) = size /\ ~get_alloc(g, low)
         /\ \A c \in Merged(B, low, high) \ {low} :
               get_size(g, c) = get_size(h, c) /\ get_alloc(g, c) = get_alloc(h, c)
         /\ Keeps(h, g, Merged(B, low, high) \ {low})
<1> DEFINE C == Merged(B, low, high)
           end == low + size
           tag == PACK(size, get_palloc(h, low), FALSE)
<1> USE DEF Joining
<1>1. /\ low \in Nat /\ high \in Nat /\ First \in Nat /\ First <= low
      /\ next_blkp(h, high) \in Nat /\ high + 4 <= next_blkp(h, high)
      /\ next_blkp(h, high) <= h.top - 2 /\ h.top \in Nat
      /\ get_palloc(h, low) \in BOOLEAN /\ low + 1 \in Rows
  BY BlockFacts, Bounds
<1>2. end = next_blkp(h, high) /\ end \in Nat /\ size \in Nat /\ size >= 4 /\ end \in Rows
  BY <1>1, BlockFacts
<1>3. tag \in Tag /\ tag[1] = size /\ tag[2] = get_palloc(h, low) /\ tag[3] = FALSE
  BY <1>1, <1>2, PackFacts
<1>4. size % M = 0 /\ size >= M
  <2>1. (low + 2) % M = 0
    BY BlockFacts
  <2>2. (end + 2) % M = 0
    <3>1. CASE end \in B
      BY <3>1, BlockFacts
    <3>2. CASE end = h.top - 2
      BY <1>1, <3>2, Bounds
    <3> QED BY <1>2, <3>1, <3>2, BlockFacts
  <2>3. (end + 2) - (low + 2) = size
    BY <1>1, <1>2
  <2> QED BY <1>1, <1>2, <2>1, <2>2, <2>3, MultipleDifference
<1>5. \A c \in C : /\ c \in B /\ c \in Nat /\ c + 1 \in Rows
                   /\ next_blkp(h, c) \in Nat /\ next_blkp(h, c) \in Rows
                   /\ c + 4 <= next_blkp(h, c) /\ next_blkp(h, c) <= h.top - 2
  BY BlockFacts DEF Merged
<1>6. \A c \in C : \/ c = low
                   \/ c < low /\ next_blkp(h, c) <= low
                   \/ high < c /\ end <= c
  <2> TAKE c \in C
  <2>1. CASE c < low
    BY <1>1, <1>5, <2>1, Apart
  <2>2. CASE high < c
    BY <1>1, <1>2, <1>5, <2>2, Apart
  <2> QED BY <1>1, <1>5, <2>1, <2>2 DEF Merged
<1> HIDE DEF C, end, tag
<1>7. /\ g \in Heaps /\ g.top = h.top /\ g.epilogue = h.epilogue
      /\ \A r \in Rows : g.mem[r] = IF r \in {low + 1, end} THEN tag
                                    ELSE IF r \in (low + 2) .. (end - 1) THEN Junk
                                    ELSE h.mem[r]
  <2>1. low + size - 1 = end - 1
    BY <1>1, <1>2 DEF end
  <2> QED BY <2>1 DEF Freed, end, tag
<1>8. \A c \in C : header(g, c) = IF c = low THEN tag ELSE header(h, c)
  <2> TAKE c \in C
  <2>1. c # low => c + 1 \notin {low + 1, end} /\ c + 1 \notin (low + 2) .. (end - 1)
    BY <1>1, <1>2, <1>5, <1>6
  <2> QED BY <1>5, <1>7, <2>1 DEF header
<1>9. /\ get_size(g, low) = size /\ get_alloc(g, low) = FALSE
      /\ get_palloc(g, low) = get_palloc(h, low)
      /\ \A c \in C \ {low} : /\ get_size(g, c) = get_size(h, c)
                              /\ get_alloc(g, c) = get_alloc(h, c)
                              /\ get_palloc(g, c) = get_palloc(h, c)
  <2>1. low \in C
    BY <1>1 DEF C, Merged
  <2> QED BY <1>3, <1>8, <2>1 DEF get_size, get_alloc, get_palloc
<1>10. /\ next_blkp(g, low) = end
       /\ \A c \in C \ {low} : next_blkp(g, c) = next_blkp(h, c)
  BY <1>9 DEF next_blkp, end
<1>11. Sound(g)
  BY <1>7, SoundStays
<1>12. end \in C \cup {h.top - 2}
  BY <1>1, <1>2, BlockFacts DEF C, Merged
<1>13. header(g, h.top - 2) = header(h, h.top - 2)
  <2>1. h.top - 2 + 1 \in Rows
    BY <1>1, Bounds, Unit
  <2>2. h.top - 2 + 1 \notin {low + 1, end} /\ h.top - 2 + 1 \notin (low + 2) .. (end - 1)
    BY <1>1, <1>2
  <2> QED BY <1>7, <2>1, <2>2 DEF header
<1>14. Tiled(g, C)
  <2>1. First \in C /\ C \subseteq First .. (h.top - 3)
    BY <1>1 DEF C, Merged, Tiled
  <2>2. ASSUME NEW c \in C
        PROVE  /\ (c + 2) % M = 0
               /\ header(g, c) \in Tag /\ get_size(g, c) >= M /\ get_size(g, c) % M = 0
    BY <1>3, <1>4, <1>5, <1>8, <1>9, BlockFacts
  <2>3. ASSUME NEW c \in C PROVE next_blkp(g, c) \in C \cup {h.top - 2}
    <3>1. CASE c = low
      BY <1>10, <1>12, <3>1
    <3>2. CASE c # low
      <4>1. next_blkp(h, c) \in B \cup {h.top - 2}
        BY <1>5, BlockFacts
      <4>2. next_blkp(h, c) <= low \/ high < next_blkp(h, c)
        BY <1>1, <1>2, <1>5, <1>6, <3>2
      <4> QED BY <1>10, <3>2, <4>1, <4>2 DEF C, Merged
    <3> QED BY <3>1, <3>2
  <2>4. ASSUME NEW c \in C, c # First PROVE \E d \in C : next_blkp(g, d) = c
    <3>1. PICK d \in B : next_blkp(h, d) = c
      BY <1>5, <2>4 DEF Tiled
    <3>2. d \in Nat /\ d < c /\ c \in Nat
      BY <1>5, <3>1, BlockFacts
    <3>3. CASE d < low \/ high < d
      BY <1>1, <1>10, <3>1, <3>2, <3>3 DEF C, Merged
    <3>4. CASE low <= d /\ d <= high
      <4>1. c # low /\ ~(c < low)
        BY <1>1, <3>2, <3>4
      <4>2. end <= c
        BY <1>6, <4>1
      <4>3. d = high
        BY <1>1, <1>2, <3>1, <3>2, <3>4, <4>2, Apart
      <4> QED BY <1>1, <1>2, <1>10, <3>1, <4>3 DEF C, Merged
    <3> QED BY <1>1, <3>2, <3>3, <3>4
  <2>5. ASSUME NEW c \in C, NEW d \in C, c < d PROVE next_blkp(g, c) <= d
    <3>1. CASE c = low
      BY <1>1, <1>6, <1>10, <2>5, <3>1
    <3>2. CASE c # low
      <4>1. next_blkp(h, c) <= d
        BY <1>5, <2>5 DEF Tiled
      <4> QED BY <1>10, <3>2, <4>1
    <3> QED BY <3>1, <3>2
  <2>6. header(g, g.top - 2) \in Tag /\ get_size(g, g.top - 2) = 0 /\ ~get_alloc(g, g.top - 2)
    BY <1>7, <1>13 DEF Tiled, get_size, get_alloc
  <2> QED BY <1>7, <2>1, <2>2, <2>3, <2>4, <2>5, <2>6 DEF Tiled
<1>15. Flagged(g, C, low)
  <2>1. get_palloc(g, First)
    <3>1. First \in C /\ get_palloc(h, First)
      BY <1>14 DEF Tiled, Flagged
    <3> QED BY <1>9, <3>1
  <2>2. ASSUME NEW c \in C, c # low, next_blkp(h, c) # h.top - 2
        PROVE  get_palloc(g, next_blkp(h, c)) = get_alloc(g, c)
    <3>1. next_blkp(h, c) \in C
      BY <1>7, <1>10, <1>14, <2>2 DEF Tiled
    <3>2. get_palloc(h, next_blkp(h, c)) = get_alloc(h, c)
      BY <1>5, <2>2 DEF Flagged, C
    <3> QED BY <1>9, <2>2, <3>1, <3>2
  <2>3. ASSUME NEW c \in C, ~get_alloc(g, c)
        PROVE  prev_footer(g, next_blkp(g, c)) = header(g, c)
    <3>1. CASE c = low
      BY <1>2, <1>7, <1>8, <1>10, <3>1 DEF prev_footer
    <3>2. CASE c # low
      <4>1. prev_footer(h, next_blkp(h, c)) = header(h, c)
        BY <1>5, <1>9, <2>3, <3>2 DEF Flagged
      <4>2. next_blkp(h, c) \notin {low + 1, end} /\ next_blkp(h, c) \notin (low + 2) .. (end - 1)
        BY <1>1, <1>2, <1>5, <1>6, <3>2
      <4> QED BY <1>5, <1>7, <1>8, <1>10, <3>2, <4>1, <4>2 DEF prev_footer
    <3> QED BY <3>1, <3>2
  <2> QED BY <1>7, <1>10, <2>1, <2>2, <2>3 DEF Flagged
<1>16. Keeps(h, g, C \ {low})
  <2> SUFFICES ASSUME NEW c \in C \ {low}, NEW r \in (c + 2) .. (next_blkp(h, c) - 1)
               PROVE  g.mem[r] = h.mem[r]
    BY <1>9 DEF Keeps
  <2>1. r \in Rows
    BY <1>1, <1>5, Bounds
  <2>2. r \notin {low + 1, end} /\ r \notin (low + 2) .. (end - 1)
    BY <1>1, <1>2, <1>5, <1>6
  <2> QED BY <1>7, <2>1, <2>2
<1> QED BY <1>9, <1>11, <1>14, <1>15, <1>16 DEF C

\* List i becomes new, and the others hold the same blocks as before.
Replaced(h, F, g, G, i, new) ==
    /\ i \in 0 .. WildernessList /\ new \in Seq(Nat)
    /\ g.lists = [h.lists EXCEPT ![i] = new]
    /\ \A b \in F : Home(h, b) # i => b \in G /\ Home(g, b) = Home(h, b)
    /\ \A b \in G : Home(g, b) # i => b \in F /\ Home(g, b) = Home(h, b)
    /\ \A k \in 1 .. Len(new) : /\ new[k] \in G /\ Home(g, new[k]) = i
                                /\ \A l \in 1 .. Len(new) : new[l] = new[k] => l = k
    /\ \A b \in G : Home(g, b) = i => \E k \in 1 .. Len(new) : new[k] = b

\* Then the lists hold the blocks of G, where they belong.
LEMMA ListingChanged ==
  ASSUME NEW h, h \in Heaps, NEW F, Listing(h, F), NEW g, NEW G, NEW i, NEW new,
         Replaced(h, F, g, G, i, new)
  PROVE  Listing(g, G)
<1> USE DEF Replaced
<1>1. /\ g.lists[i] = new
      /\ \A j \in 0 .. WildernessList : j # i => g.lists[j] = h.lists[j]
  BY DEF Heaps
<1>2. ASSUME NEW j \in 0 .. WildernessList, NEW k \in 1 .. Len(g.lists[j])
      PROVE  /\ g.lists[j][k] \in G /\ Home(g, g.lists[j][k]) = j
             /\ \A l \in 1 .. Len(g.lists[j]) : g.lists[j][l] = g.lists[j][k] => l = k
  <2>1. CASE j = i
    BY <1>1, <2>1
  <2>2. CASE j # i
    BY <1>1, <2>2 DEF Listing
  <2> QED BY <2>1, <2>2
<1>3. ASSUME NEW b \in G
      PROVE  /\ Home(g, b) \in 0 .. WildernessList
             /\ \E k \in 1 .. Len(g.lists[Home(g, b)]) : g.lists[Home(g, b)][k] = b
  <2>1. CASE Home(g, b) = i
    BY <1>1, <2>1
  <2>2. CASE Home(g, b) # i
    <3>1. b \in F /\ Home(g, b) = Home(h, b)
      BY <2>2
    <3>2. PICK k \in 1 .. Len(h.lists[Home(h, b)]) : h.lists[Home(h, b)][k] = b
      BY <3>1 DEF Listing
    <3>3. Home(h, b) \in 0 .. WildernessList => g.lists[Home(h, b)] = h.lists[Home(h, b)]
      BY <1>1, <2>2, <3>1
    <3>4. Home(h, b) \in 0 .. WildernessList
      BY <3>1 DEF Listing
    <3> QED BY <3>1, <3>2, <3>3, <3>4
  <2> QED BY <2>1, <2>2
<1> QED BY <1>2, <1>3 DEF Listing

\* A heap in order.
Settled(h, B) == /\ Sound(h) /\ Tiled(h, B) /\ Flagged(h, B, NULL)
                 /\ Listing(h, Unallocated(h, B))

\* The size classes are the lists below that of the wilderness.
LEMMA ClassRange ==
  ASSUME NEW a \in Nat, M <= a
  PROVE  get_class_size(a) \in 0 .. (WildernessList - 1)
BY ClassesAreOrdered DEF WildernessList, NUM_FREE_LISTS

\* Every block has a list where it would belong.
LEMMA HomeRange ==
  ASSUME NEW h, Sound(h), NEW B, Tiled(h, B), NEW b \in B
  PROVE  /\ Home(h, b) \in 0 .. WildernessList
         /\ Home(h, b) = WildernessList <=> next_blkp(h, b) = h.top - 2
         /\ WildernessList = 9
BY BlockFacts, ClassRange DEF Home, WildernessList, NUM_FREE_LISTS

\* One list is replaced.
LEMMA ListPut ==
  ASSUME NEW h, Sound(h), NEW i \in 0 .. WildernessList, NEW new \in Seq(Nat)
  PROVE  LET g == [h EXCEPT !.lists[i] = new]
         IN  /\ g \in Heaps /\ g.top = h.top /\ g.epilogue = h.epilogue /\ g.mem = h.mem
             /\ g.lists = [h.lists EXCEPT ![i] = new]
BY DEF Sound, Heaps

\* With other lists, the heap is tiled as before.
LEMMA MemoryStays ==
  ASSUME NEW h, Sound(h), NEW B, Tiled(h, B), NEW x, Flagged(h, B, x),
         NEW g, g \in Heaps, g.top = h.top, g.epilogue = h.epilogue, g.mem = h.mem
  PROVE  /\ Sound(g) /\ Tiled(g, B) /\ Flagged(g, B, x)
         /\ \A b \in B : /\ get_size(g, b) = get_size(h, b) /\ get_alloc(g, b) = get_alloc(h, b)
                         /\ next_blkp(g, b) = next_blkp(h, b) /\ Home(g, b) = Home(h, b)
         /\ Unallocated(g, B) = Unallocated(h, B) /\ Allocated(g, B) = Allocated(h, B)
         /\ Keeps(h, g, B)
<1>1. \A b : header(g, b) = header(h, b) /\ prev_footer(g, b) = prev_footer(h, b)
  BY DEF header, prev_footer
<1>2. \A b : /\ get_size(g, b) = get_size(h, b) /\ get_alloc(g, b) = get_alloc(h, b)
             /\ get_palloc(g, b) = get_palloc(h, b)
  BY <1>1 DEF get_size, get_alloc, get_palloc
<1>3. \A b : next_blkp(g, b) = next_blkp(h, b)
  BY <1>2 DEF next_blkp
<1>4. Sound(g)
  BY SoundStays
<1>5. Tiled(g, B)
  BY <1>1, <1>2, <1>3 DEF Tiled
<1>6. Flagged(g, B, x)
  BY <1>1, <1>2, <1>3 DEF Flagged
<1>7. Keeps(h, g, B)
  BY <1>2 DEF Keeps
<1>8. \A b : Home(g, b) = Home(h, b)
  BY <1>2, <1>3 DEF Home
<1> QED BY <1>2, <1>3, <1>4, <1>5, <1>6, <1>7, <1>8 DEF Unallocated, Allocated

\* A block is put in front of its list.
PutFirst(h, B, F, b, g) ==
    /\ Sound(h) /\ Tiled(h, B) /\ F \subseteq B /\ Listing(h, F)
    /\ b \in B \ F
    /\ g.top = h.top
    /\ g.lists = [h.lists EXCEPT ![Home(h, b)] = <<b>> \o @]
    /\ \A c \in B : get_size(g, c) = get_size(h, c)

\* Then it is listed with the others.
LEMMA Prepended ==
  ASSUME NEW h, NEW B, NEW F, NEW b, NEW g, PutFirst(h, B, F, b, g)
  PROVE  Listing(g, F \cup {b})
<1> USE DEF PutFirst
<1> DEFINE i == Home(h, b)
           old == h.lists[i]
           new == <<b>> \o old
<1>1. i \in 0 .. WildernessList /\ h \in Heaps
  BY HomeRange DEF Sound
<1>2. old \in Seq(Nat) /\ b \in Nat
  BY <1>1, BlockFacts DEF Heaps
<1>3. g.lists = [h.lists EXCEPT ![i] = new]
  BY <1>1 DEF Heaps
<1>4. /\ new \in Seq(Nat) /\ Len(new) = Len(old) + 1 /\ Len(old) \in Nat /\ new[1] = b
      /\ \A k \in 1 .. Len(old) : new[k + 1] = old[k]
  <2> HIDE DEF old
  <2> QED BY <1>2
<1>5. \A c \in B : Home(g, c) = Home(h, c)
  BY DEF Home, next_blkp
<1>6. \A k \in 1 .. Len(old) : /\ old[k] \in F /\ Home(h, old[k]) = i
                               /\ \A l \in 1 .. Len(old) : old[l] = old[k] => l = k
  BY <1>1 DEF Listing
<1>7. \A c \in F : Home(h, c) = i => \E k \in 1 .. Len(old) : old[k] = c
  BY DEF Listing
<1> HIDE DEF new, old, i
<1>8. ASSUME NEW k \in 1 .. Len(new)
      PROVE  \/ k = 1 /\ new[k] = b
             \/ k - 1 \in 1 .. Len(old) /\ new[k] = old[k - 1]
  <2>1. CASE k = 1
    BY <1>4, <2>1
  <2>2. CASE k # 1
    <3>1. k - 1 \in 1 .. Len(old) /\ (k - 1) + 1 = k
      BY <1>4, <2>2
    <3> QED BY <1>4, <3>1
  <2> QED BY <2>1, <2>2
<1>9. ASSUME NEW k \in 1 .. Len(new)
      PROVE  /\ new[k] \in F \cup {b} /\ Home(g, new[k]) = i
             /\ \A l \in 1 .. Len(new) : new[l] = new[k] => l = k
  <2>1. new[k] \in F \cup {b} /\ Home(g, new[k]) = i
    BY <1>5, <1>6, <1>8 DEF i
  <2>2. ASSUME NEW l \in 1 .. Len(new), new[l] = new[k] PROVE l = k
    <3>1. b \notin F
      OBVIOUS
    <3>2. CASE k = 1
      <4>1. new[l] = b /\ \A m \in 1 .. Len(old) : old[m] # b
        BY <1>4, <1>6, <2>2, <3>1, <3>2
      <4> QED BY <1>8, <3>2, <4>1
    <3>3. CASE l = 1
      BY <1>4, <1>6, <1>8, <2>2, <3>1, <3>3
    <3>4. CASE k # 1 /\ l # 1
      <4>1. k - 1 \in 1 .. Len(old) /\ l - 1 \in 1 .. Len(old) /\ old[k - 1] = old[l - 1]
        BY <1>8, <2>2, <3>4
      <4>2. k - 1 = l - 1
        BY <1>6, <4>1
      <4> QED BY <4>2
    <3> QED BY <3>2, <3>3, <3>4
  <2> QED BY <2>1, <2>2
<1>10. ASSUME NEW c \in F \cup {b}, Home(g, c) = i PROVE \E k \in 1 .. Len(new) : new[k] = c
  <2>1. CASE c = b
    BY <1>4, <2>1
  <2>2. CASE c \in F
    <3>1. PICK k \in 1 .. Len(old) : old[k] = c
      BY <1>5, <1>7, <1>10, <2>2
    <3>2. k + 1 \in 1 .. Len(new)
      BY <1>4
    <3> QED BY <1>4, <3>1, <3>2
  <2> QED BY <2>1, <2>2
<1>11. /\ \A c \in F : Home(h, c) # i => c \in F \cup {b} /\ Home(g, c) = Home(h, c)
       /\ \A c \in F \cup {b} : Home(g, c) # i => c \in F /\ Home(g, c) = Home(h, c)
  BY <1>5 DEF i
<1> DEFINE G == F \cup {b}
<1>12. /\ \A k \in 1 .. Len(new) : /\ new[k] \in G /\ Home(g, new[k]) = i
                                   /\ \A l \in 1 .. Len(new) : new[l] = new[k] => l = k
       /\ \A c \in G : Home(g, c) = i => \E k \in 1 .. Len(new) : new[k] = c
  BY <1>9, <1>10
<1>13. /\ \A c \in F : Home(h, c) # i => c \in G /\ Home(g, c) = Home(h, c)
       /\ \A c \in G : Home(g, c) # i => c \in F /\ Home(g, c) = Home(h, c)
  BY <1>11
<1> HIDE DEF G
<1>14. Replaced(h, F, g, G, i, new)
  BY <1>1, <1>3, <1>4, <1>12, <1>13 DEF Replaced
<1>15. Listing(g, G)
  BY <1>1, <1>14, ListingChanged
<1> QED BY <1>15 DEF G

-----------------------------------------------------------------------------
(* The wilderness and insert_to_free_list *)

\* A free block joins the wilderness behind it.
LEMMA WildernessGrows ==
  ASSUME NEW h, Sound(h), NEW B, Tiled(h, B), NEW bp \in B, Flagged(h, B, bp),
         ~get_alloc(h, bp), Listing(h, Unallocated(h, B) \ {bp}),
         HasWilderness(h), next_blkp(h, bp) = Wilderness(h)
  PROVE  LET g == insert_wilderness(h, bp)
         IN  \E C : /\ Settled(g, C) /\ g.top = h.top /\ Allocated(g, C) = Allocated(h, B)
                    /\ Keeps(h, g, Allocated(h, B))
<1> DEFINE w == Wilderness(h)
           F == Unallocated(h, B) \ {bp}
           C == Merged(B, bp, w)
           size == get_size(h, bp) + get_size(h, w)
           tag == PACK(size, get_palloc(h, bp), FALSE)
           k == set_footer(h, w, tag)
           m == set_header(k, bp, tag)
           s == Scrub(m, bp)
           g == [s EXCEPT !.lists[WildernessList] = <<bp>>]
<1>1. /\ w \in F /\ w \in B /\ w # bp /\ ~get_alloc(h, w) /\ next_blkp(h, w) = h.top - 2
      /\ h.lists[WildernessList] = <<w>>
  BY TheWilderness DEF Unallocated
<1>2. /\ bp \in Nat /\ w \in Nat /\ bp < w /\ next_blkp(h, w) \in Rows /\ h.top - 2 \in Nat
      /\ get_size(h, bp) \in Nat /\ get_size(h, w) \in Nat /\ bp + 1 \in Rows
      /\ get_palloc(h, bp) \in BOOLEAN /\ size \in Nat /\ size >= 4 /\ bp + size = h.top - 2
      /\ size = next_blkp(h, w) - bp /\ h \in Heaps
  BY <1>1, BlockFacts DEF Sound
<1>3. insert_wilderness(h, bp) = g
  <2>1. ~(bp > w)
    BY <1>2
  <2>2. sf_coalesce_wilderness(h, bp) = [h |-> s, bp |-> bp]
    BY <2>1 DEF sf_coalesce_wilderness
  <2> HIDE DEF s
  <2> QED BY <2>2 DEF insert_wilderness
<1>4. tag \in Tag /\ tag[1] = size /\ tag \in Cell
  <2> DEFINE palloc == get_palloc(h, bp)
  <2>1. size \in Nat /\ palloc \in BOOLEAN
    BY <1>2
  <2> HIDE DEF size, palloc
  <2>2. PACK(size, palloc, FALSE) \in Tag /\ PACK(size, palloc, FALSE)[1] = size
    BY <2>1, PackFacts
  <2> QED BY <2>2, TagFacts DEF palloc
<1> HIDE DEF tag
<1>5. /\ k \in Heaps /\ Beside(k, h)
      /\ \A r \in Rows : k.mem[r] = IF r = h.top - 2 THEN tag ELSE h.mem[r]
  BY <1>1, <1>2, <1>4, WriteRow DEF set_footer
<1> HIDE DEF k
<1>6. /\ m \in Heaps /\ Beside(m, k)
      /\ \A r \in Rows : m.mem[r] = IF r = bp + 1 THEN tag ELSE k.mem[r]
  BY <1>2, <1>4, <1>5, WriteRow DEF set_header
<1>7. next_blkp(m, bp) = bp + size /\ next_blkp(m, bp) - 1 = bp + size - 1
  BY <1>2, <1>4, <1>6 DEF next_blkp, get_size, header
<1> HIDE DEF m
<1>8. /\ s \in Heaps /\ Beside(s, m)
      /\ \A r \in Rows : s.mem[r] = IF r \in (bp + 2) .. (bp + size - 1) THEN Junk ELSE m.mem[r]
  BY <1>6, <1>7, ScrubRows
<1> HIDE DEF s, size
<1>9. Freed(h, s, bp, size, get_palloc(h, bp)) /\ s.lists = h.lists /\ s.top = h.top
  <2>1. s \in Heaps /\ s.top = h.top /\ s.epilogue = h.epilogue /\ s.lists = h.lists
    BY <1>5, <1>6, <1>8 DEF Beside
  <2>2. \A r \in (bp + 2) .. (bp + size - 1) : r # bp + 1 /\ r # bp + size
    BY <1>2
  <2> QED BY <1>2, <1>5, <1>6, <1>8, <2>1, <2>2 DEF Freed, tag
<1>10. /\ Sound(s) /\ Tiled(s, C) /\ Flagged(s, C, bp)
       /\ get_size(s, bp) = size /\ ~get_alloc(s, bp)
       /\ \A c \in C \ {bp} : get_size(s, c) = get_size(h, c) /\ get_alloc(s, c) = get_alloc(h, c)
       /\ Keeps(h, s, C \ {bp})
  <2>1. bp \notin C \ {bp} /\ bp <= w
    BY <1>2
  <2> HIDE DEF w
  <2>2. Joining(h, B, bp, bp, w, size, s)
    BY <1>1, <1>2, <1>9, <2>1 DEF Joining
  <2> QED BY <2>2, BlocksJoined
<1>11. C = B \ {w} /\ bp \in C
  <2>1. \A b \in B : b \in Nat /\ (b > bp => b = w \/ b > w)
    BY <1>1, <1>2, BlockFacts, Apart
  <2>2. \A b \in B : b <= bp \/ w < b <=> b # w
    BY <1>1, <1>2, <2>1
  <2> QED BY <1>1, <2>2 DEF Merged
<1>12. next_blkp(s, bp) = h.top - 2
  BY <1>2, <1>10 DEF next_blkp
<1>13. Flagged(s, C, NULL)
  BY <1>9, <1>10, <1>12 DEF Flagged
<1>14. bp \in Nat /\ <<bp>> \in Seq(Nat) /\ WildernessList \in 0 .. WildernessList
  BY <1>2 DEF WildernessList, NUM_FREE_LISTS
<1>15. /\ g \in Heaps /\ g.top = s.top /\ g.epilogue = s.epilogue /\ g.mem = s.mem
       /\ g.lists = [s.lists EXCEPT ![WildernessList] = <<bp>>]
  BY <1>10, <1>14 DEF Sound, Heaps
<1> HIDE DEF g
<1>16. /\ Sound(g) /\ Tiled(g, C) /\ Flagged(g, C, NULL)
       /\ \A b \in C : /\ get_size(g, b) = get_size(s, b) /\ get_alloc(g, b) = get_alloc(s, b)
                       /\ next_blkp(g, b) = next_blkp(s, b)
       /\ Unallocated(g, C) = Unallocated(s, C) /\ Allocated(g, C) = Allocated(s, C)
       /\ Keeps(s, g, C)
  BY <1>10, <1>13, <1>15, MemoryStays
<1>17. Allocated(s, C) = Allocated(h, B) /\ Unallocated(s, C) = Unallocated(h, B) \ {w}
  BY <1>1, <1>10, <1>11 DEF Allocated, Unallocated
<1>18. Listing(g, Unallocated(g, C))
  <2> DEFINE G == Unallocated(h, B) \ {w}
             new == <<bp>>
  <2>1. Unallocated(g, C) = G /\ G \subseteq C /\ bp \in G /\ F \subseteq B
    BY <1>1, <1>11, <1>16, <1>17 DEF Unallocated
  <2>2. \A b \in G \ {bp} : Home(g, b) = Home(h, b)
    BY <1>9, <1>10, <1>15, <1>16, <2>1 DEF Home, next_blkp
  <2>3. Home(g, bp) = WildernessList
    BY <1>9, <1>11, <1>12, <1>15, <1>16 DEF Home
  <2>4. \A b \in F : Home(h, b) # WildernessList => b \in G /\ Home(g, b) = Home(h, b)
    <3>1. Home(h, w) = WildernessList
      BY <1>1 DEF Home
    <3> QED BY <2>2, <3>1
  <2>5. \A b \in G : Home(g, b) # WildernessList => b \in F /\ Home(g, b) = Home(h, b)
    BY <2>2, <2>3
  <2>6. \A b \in G : Home(g, b) = WildernessList => b = bp
    <3>1. \A b \in B \ {w} : next_blkp(h, b) # h.top - 2
      <4> TAKE b \in B \ {w}
      <4>1. next_blkp(h, b) \in Nat /\ next_blkp(h, w) \in Nat
        BY <1>1, BlockFacts
      <4> QED BY <1>1, <4>1, Apart
    <3>2. \A b \in G \ {bp} : Home(h, b) # WildernessList
      BY <3>1, HomeRange DEF Unallocated
    <3> QED BY <2>2, <3>2
  <2>7. Len(new) = 1 /\ new[1] = bp
    OBVIOUS
  <2>8. \A k0 \in 1 .. Len(new) : /\ new[k0] \in G /\ Home(g, new[k0]) = WildernessList
                                 /\ \A l \in 1 .. Len(new) : new[l] = new[k0] => l = k0
    <3>1. \A k0 \in 1 .. Len(new) : k0 = 1
      BY <2>7
    <3> QED BY <2>1, <2>3, <2>7, <3>1
  <2>9. \A b \in G : Home(g, b) = WildernessList => \E k0 \in 1 .. Len(new) : new[k0] = b
    BY <2>6, <2>7
  <2> HIDE DEF G, F
  <2>10. Replaced(h, F, g, G, WildernessList, new)
    BY <1>9, <1>14, <1>15, <2>4, <2>5, <2>8, <2>9 DEF Replaced
  <2>11. Listing(h, F)
    BY DEF F
  <2> QED BY <1>2, <2>1, <2>10, <2>11, ListingChanged
<1>19. Keeps(h, g, Allocated(h, B))
  <2>1. Allocated(h, B) \subseteq C \ {bp}
    BY <1>1, <1>11 DEF Allocated
  <2>2. ASSUME NEW a \in C \ {bp}
        PROVE  /\ get_size(g, a) = get_size(h, a)
               /\ \A r \in (a + 2) .. (next_blkp(h, a) - 1) : g.mem[r] = h.mem[r]
    BY <1>10, <1>15, <1>16 DEF Keeps
  <2> QED BY <2>1, <2>2 DEF Keeps
<1> HIDE DEF C
<1>20. Settled(g, C) /\ g.top = h.top /\ Allocated(g, C) = Allocated(h, B)
  BY <1>9, <1>15, <1>16, <1>17, <1>18 DEF Settled
<1> QED BY <1>3, <1>19, <1>20

\* All but block out is in order, which is free and in no list, and the flag behind it.
Pending(h, B, out) ==
    /\ Sound(h) /\ Tiled(h, B) /\ Flagged(h, B, out)
    /\ out \in B /\ ~get_alloc(h, out)
    /\ Listing(h, Unallocated(h, B) \ {out})

\* g is in order, and the allocated blocks are those of B in h, as they were.
Becomes(h, B, g) ==
    \E C : /\ Settled(g, C) /\ g.top = h.top
           /\ Allocated(g, C) = Allocated(h, B) /\ Keeps(h, g, Allocated(h, B))

\* A pending block becomes the wilderness of a heap that has none, or joins the one it
\* ends at.
LEMMA WithoutWilderness ==
  ASSUME NEW h, NEW B, NEW bp, Pending(h, B, bp), ~HasWilderness(h),
         next_blkp(h, bp) = h.top - 2
  PROVE  Becomes(h, B, insert_wilderness(h, bp))
<1> USE DEF Pending
<1> DEFINE g == [h EXCEPT !.lists[WildernessList] = <<bp>>]
           F == Unallocated(h, B) \ {bp}
<1>1. insert_wilderness(h, bp) = g
  <2>1. sf_coalesce_wilderness(h, bp) = [h |-> h, bp |-> bp]
    BY DEF sf_coalesce_wilderness
  <2> QED BY <2>1 DEF insert_wilderness
<1>2. bp \in Nat /\ h \in Heaps /\ Home(h, bp) = WildernessList
      /\ WildernessList \in 0 .. WildernessList
  BY BlockFacts, HomeRange DEF Sound, WildernessList, NUM_FREE_LISTS
<1>3. /\ g \in Heaps /\ g.top = h.top /\ g.epilogue = h.epilogue /\ g.mem = h.mem
      /\ g.lists = [h.lists EXCEPT ![WildernessList] = <<bp>>]
  <2>1. <<bp>> \in Seq(Nat)
    BY <1>2
  <2> QED BY <1>2, <2>1 DEF Heaps
<1>4. g.lists = [h.lists EXCEPT ![Home(h, bp)] = <<bp>> \o @]
  <2>1. h.lists[WildernessList] = <<>>
    BY DEF HasWilderness
  <2>2. <<bp>> \o <<>> = <<bp>>
    BY <1>2
  <2> QED BY <1>2, <1>3, <2>1, <2>2
<1> HIDE DEF g
<1>5. /\ Sound(g) /\ Tiled(g, B) /\ Flagged(g, B, bp)
      /\ \A b \in B : /\ get_size(g, b) = get_size(h, b)
                      /\ next_blkp(g, b) = next_blkp(h, b)
      /\ Unallocated(g, B) = Unallocated(h, B) /\ Allocated(g, B) = Allocated(h, B)
      /\ Keeps(h, g, B)
  BY <1>3, MemoryStays
<1>6. Flagged(g, B, NULL)
  BY <1>3, <1>5 DEF Flagged
<1>7. Listing(g, F \cup {bp})
  <2>1. F \in SUBSET B /\ bp \in B \ F
    BY DEF Unallocated
  <2> HIDE DEF F
  <2>2. Listing(h, F)
    BY DEF F
  <2>3. PutFirst(h, B, F, bp, g)
    BY <1>3, <1>4, <1>5, <2>1, <2>2 DEF PutFirst
  <2> QED BY <2>3, Prepended
<1>8. F \cup {bp} = Unallocated(g, B)
  BY <1>5 DEF Unallocated
<1>9. Keeps(h, g, Allocated(h, B))
  BY <1>5 DEF Keeps, Allocated
<1>10. Settled(g, B)
  BY <1>5, <1>6, <1>7, <1>8 DEF Settled
<1> QED BY <1>1, <1>3, <1>5, <1>9, <1>10 DEF Becomes

\* Any other pending block goes into the list of its size class.
LEMMA IntoItsList ==
  ASSUME NEW h, NEW B, NEW bp, Pending(h, B, bp), next_blkp(h, bp) # h.top - 2
  PROVE  LET k == [h EXCEPT !.lists[get_class_size(get_size(h, bp))] = <<bp>> \o @]
         IN  Becomes(h, B, set_nextblkp_palloc(k, bp, FALSE))
<1> USE DEF Pending
<1> DEFINE i == get_class_size(get_size(h, bp))
           k == [h EXCEPT !.lists[i] = <<bp>> \o @]
           g == set_nextblkp_palloc(k, bp, FALSE)
           F == Unallocated(h, B) \ {bp}
<1>1. bp \in Nat /\ h \in Heaps /\ Home(h, bp) = i /\ i \in 0 .. WildernessList
  BY BlockFacts, HomeRange DEF Sound, Home
<1> HIDE DEF i
<1>2. <<bp>> \o h.lists[i] \in Seq(Nat)
  <2>1. h.lists[i] \in Seq(Nat) /\ <<bp>> \in Seq(Nat)
    <3>1. <<bp>> \in Seq(Nat)
      BY <1>1
    <3> QED BY <1>1, <3>1 DEF Heaps
  <2> QED BY <2>1
<1>3. /\ k \in Heaps /\ k.top = h.top /\ k.epilogue = h.epilogue /\ k.mem = h.mem
      /\ k.lists = [h.lists EXCEPT ![i] = <<bp>> \o @]
  BY <1>1, <1>2 DEF Heaps
<1> HIDE DEF k
<1>4. /\ Sound(k) /\ Tiled(k, B) /\ Flagged(k, B, bp)
      /\ \A b \in B : /\ get_size(k, b) = get_size(h, b)
                      /\ get_alloc(k, b) = get_alloc(h, b)
                      /\ next_blkp(k, b) = next_blkp(h, b)
      /\ Unallocated(k, B) = Unallocated(h, B) /\ Allocated(k, B) = Allocated(h, B)
      /\ Keeps(h, k, B)
  BY <1>3, MemoryStays
<1>5. Listing(k, Unallocated(h, B))
  <2>1. F \in SUBSET B /\ bp \in B \ F /\ F \cup {bp} = Unallocated(h, B)
    BY DEF Unallocated
  <2> HIDE DEF F
  <2>2. Listing(h, F)
    BY DEF F
  <2>3. k.lists = [h.lists EXCEPT ![Home(h, bp)] = <<bp>> \o @]
    BY <1>1, <1>3
  <2>4. Listing(k, F \cup {bp})
    <3>1. PutFirst(h, B, F, bp, k)
      BY <1>3, <1>4, <2>1, <2>2, <2>3 DEF PutFirst
    <3> QED BY <3>1, Prepended
  <2> QED BY <2>1, <2>4
<1>6. /\ Sound(g) /\ Tiled(g, B) /\ Flagged(g, B, NULL) /\ g.lists = k.lists
      /\ g.top = k.top
      /\ \A c \in B : get_size(g, c) = get_size(k, c) /\ get_alloc(g, c) = get_alloc(k, c)
      /\ Keeps(k, g, B)
  <2>1. FALSE = get_alloc(k, bp) /\ FALSE \in BOOLEAN
    BY <1>4, BlockFacts
  <2>2. next_blkp(k, bp) # k.top - 2
    BY <1>3, <1>4
  <2> QED BY <1>4, <2>1, <2>2, PallocRight
<1> HIDE DEF g
<1>7. Allocated(g, B) = Allocated(h, B) /\ Unallocated(g, B) = Unallocated(h, B)
  BY <1>4, <1>6 DEF Allocated, Unallocated
<1>8. Listing(g, Unallocated(g, B))
  <2>1. \A b \in Unallocated(h, B) : get_size(g, b) = get_size(k, b)
    BY <1>6 DEF Unallocated
  <2>2. Listing(g, Unallocated(h, B))
    BY <1>5, <1>6, <2>1, ListingStays
  <2> QED BY <1>7, <2>2
<1>9. Keeps(h, g, Allocated(h, B))
  BY <1>4, <1>6 DEF Keeps, Allocated
<1>10. Settled(g, B)
  BY <1>6, <1>8 DEF Settled
<1>11. g.top = h.top
  BY <1>3, <1>6
<1>12. Becomes(h, B, g)
  BY <1>7, <1>9, <1>10, <1>11 DEF Becomes
<1> QED BY <1>12 DEF g, k, i

\* insert_to_free_list brings a pending block into order: in a list, or in the
\* wilderness that it ends at or joins.
LEMMA Inserted ==
  ASSUME NEW h, NEW B, NEW bp, Pending(h, B, bp)
  PROVE  Becomes(h, B, insert_to_free_list(h, bp))
<1>1. /\ get_size(h, bp) \in Nat /\ ~(get_size(h, bp) < M) /\ next_blkp(h, bp) \in Nat
      /\ next_blkp(h, bp) <= h.top - 2 /\ h.top \in Nat /\ h.epilogue = h.top - 1
  <2>1. /\ get_size(h, bp) \in Nat /\ get_size(h, bp) >= M /\ next_blkp(h, bp) \in Nat
        /\ next_blkp(h, bp) <= h.top - 2
    BY BlockFacts DEF Pending
  <2> QED BY <2>1, Bounds, Unit DEF Pending, Sound
<1>2. CASE ~HasWilderness(h) /\ next_blkp(h, bp) + 1 >= h.epilogue
  <2>1. next_blkp(h, bp) = h.top - 2
    BY <1>1, <1>2
  <2>2. insert_to_free_list(h, bp) = insert_wilderness(h, bp)
    BY <1>1, <1>2 DEF insert_to_free_list, BecomesWilderness
  <2> QED BY <1>2, <2>1, <2>2, WithoutWilderness
<1>3. CASE HasWilderness(h) /\ next_blkp(h, bp) = Wilderness(h)
  <2>1. insert_to_free_list(h, bp) = insert_wilderness(h, bp)
    BY <1>1, <1>3 DEF insert_to_free_list, BecomesWilderness
  <2> QED BY <1>3, <2>1, WildernessGrows DEF Pending, Becomes
<1>4. CASE ~BecomesWilderness(h, bp)
  <2>1. next_blkp(h, bp) # h.top - 2
    <3>1. SUFFICES ASSUME next_blkp(h, bp) = h.top - 2 PROVE FALSE
      OBVIOUS
    <3>2. HasWilderness(h)
      BY <1>1, <1>4, <3>1 DEF BecomesWilderness
    <3>3. /\ Wilderness(h) \in Unallocated(h, B) \ {bp}
          /\ next_blkp(h, Wilderness(h)) = h.top - 2
      <4>1. Unallocated(h, B) \ {bp} \subseteq B
        BY DEF Unallocated
      <4> QED BY <3>2, <4>1, TheWilderness DEF Pending
    <3> QED BY <1>1, <3>1, <3>3, Apart DEF Unallocated, Pending
  <2>2. insert_to_free_list(h, bp)
          = set_nextblkp_palloc(
                [h EXCEPT !.lists[get_class_size(get_size(h, bp))] = <<bp>> \o @], bp, FALSE)
    BY <1>1, <1>4 DEF insert_to_free_list
  <2> QED BY <2>1, <2>2, IntoItsList
<1> QED BY <1>2, <1>3, <1>4 DEF BecomesWilderness

-----------------------------------------------------------------------------
(* remove_from_free_list *)

\* An item that is in a sequence once is no longer in it, and the others are.
LEMMA ItemRemoved ==
  ASSUME NEW s \in Seq(Nat), NEW j \in 1 .. Len(s)
  PROVE  /\ RemoveAt(s, j) \in Seq(Nat) /\ Len(RemoveAt(s, j)) = Len(s) - 1
         /\ \A k \in 1 .. (Len(s) - 1) :
               RemoveAt(s, j)[k] = IF k < j THEN s[k] ELSE s[k + 1]
<1> DEFINE n == Len(s)
           p == SubSeq(s, 1, j - 1)
           q == SubSeq(s, j + 1, n)
<1>1. n \in Nat /\ j \in 1 .. n
  OBVIOUS
<1>2. /\ p \in Seq(Nat) /\ Len(p) = j - 1
      /\ \A k \in 1 .. (j - 1) : p[k] = s[k]
  OBVIOUS
<1>3. /\ q \in Seq(Nat) /\ Len(q) = n - j
      /\ \A k \in 1 .. (n - j) : q[k] = s[j + k]
  OBVIOUS
<1>4. RemoveAt(s, j) = p \o q
  BY DEF RemoveAt
<1> HIDE DEF p, q, n
<1>5. /\ p \o q \in Seq(Nat) /\ Len(p \o q) = n - 1
      /\ \A k \in 1 .. (n - 1) : (p \o q)[k] = IF k <= j - 1 THEN p[k] ELSE q[k - (j - 1)]
  <2>1. /\ p \o q \in Seq(Nat) /\ Len(p \o q) = Len(p) + Len(q)
        /\ \A k \in 1 .. (Len(p) + Len(q)) :
              (p \o q)[k] = IF k <= Len(p) THEN p[k] ELSE q[k - Len(p)]
    BY <1>2, <1>3, SMTT(30)
  <2>2. Len(p) + Len(q) = n - 1
    BY <1>1, <1>2, <1>3
  <2> QED BY <1>2, <2>1, <2>2
<1>6. \A k \in 1 .. (n - 1) : ~(k <= j - 1) => q[k - (j - 1)] = s[k + 1]
  <2> TAKE k \in 1 .. (n - 1)
  <2> HAVE ~(k <= j - 1)
  <2>1. k - (j - 1) \in 1 .. (n - j) /\ j + (k - (j - 1)) = k + 1
    BY <1>1
  <2> QED BY <1>3, <2>1
<1>7. \A k \in 1 .. (n - 1) : k <= j - 1 => p[k] = s[k] /\ k < j
  BY <1>1, <1>2
<1>8. \A k \in 1 .. (n - 1) : ~(k <= j - 1) <=> ~(k < j)
  BY <1>1
<1> QED BY <1>4, <1>5, <1>6, <1>7, <1>8 DEF n

\* What RemoveFirst returns.
LEMMA RemoveFirstIs ==
  ASSUME NEW s \in Seq(Nat), NEW e
  PROVE  \/ /\ \A k \in 1 .. Len(s) : s[k] # e
            /\ RemoveFirst(s, e) = s
         \/ \E j \in 1 .. Len(s) : s[j] = e /\ RemoveFirst(s, e) = RemoveAt(s, j)
<1> DEFINE I == {i \in 1 .. Len(s) : s[i] = e}
<1>1. CASE I = {}
  BY <1>1 DEF RemoveFirst
<1>2. CASE I # {}
  <2>1. RemoveFirst(s, e) = RemoveAt(s, Min(I))
    BY <1>2 DEF RemoveFirst, SelectInSeq
  <2>2. Min(I) \in I
    <3>1. I \in SUBSET Nat
      OBVIOUS
    <3> HIDE DEF I
    <3>2. \E m \in I : \A n \in I : m <= n
      BY <1>2, <3>1, Least
    <3> QED BY <3>2 DEF Min
  <2> QED BY <2>1, <2>2
<1> QED BY <1>1, <1>2

\* A block is in no list any more.
LEMMA Removed ==
  ASSUME NEW h, h \in Heaps, NEW F, Listing(h, F), NEW e \in F, NEW g,
         g = [h EXCEPT !.lists = [i \in DOMAIN h.lists |-> RemoveFirst(h.lists[i], e)]]
  PROVE  /\ g \in Heaps /\ g.top = h.top /\ g.epilogue = h.epilogue /\ g.mem = h.mem
         /\ Listing(g, F \ {e})
<1>1. \A i \in 0 .. WildernessList :
         /\ h.lists[i] \in Seq(Nat) /\ Len(h.lists[i]) \in Nat
         /\ RemoveFirst(h.lists[i], e) \in Seq(Nat)
  <2> TAKE i \in 0 .. WildernessList
  <2>1. h.lists[i] \in Seq(Nat)
    BY DEF Heaps
  <2> QED BY <2>1, RemoveFirstIs, ItemRemoved
<1>2. /\ g \in Heaps /\ g.top = h.top /\ g.epilogue = h.epilogue /\ g.mem = h.mem
      /\ \A i \in 0 .. WildernessList : g.lists[i] = RemoveFirst(h.lists[i], e)
  BY <1>1 DEF Heaps
<1>3. \A b : Home(g, b) = Home(h, b)
  BY <1>2 DEF Home, next_blkp, get_size, header
<1>4. ASSUME NEW i \in 0 .. WildernessList, NEW k \in 1 .. Len(g.lists[i])
      PROVE  \E l \in 1 .. Len(h.lists[i]) :
                /\ g.lists[i][k] = h.lists[i][l] /\ h.lists[i][l] # e
                /\ \A m \in 1 .. Len(g.lists[i]) :
                      g.lists[i][m] = h.lists[i][l] => m = k
  <2> DEFINE s == h.lists[i]
             t == g.lists[i]
             n == Len(s)
  <2>1. /\ s \in Seq(Nat) /\ n \in Nat /\ t = RemoveFirst(s, e)
        /\ \A a, b \in 1 .. n : s[a] = s[b] => a = b
    BY <1>1, <1>2 DEF Listing
  <2>2. CASE t = s /\ \A a \in 1 .. Len(s) : s[a] # e
    <3>1. k \in 1 .. n /\ t[k] = s[k] /\ s[k] # e
      BY <2>2
    <3>2. \A m \in 1 .. Len(t) : t[m] = s[k] => m = k
      BY <2>1, <2>2, <3>1
    <3> HIDE DEF s, t, n
    <3>3. \E l \in 1 .. n : /\ t[k] = s[l] /\ s[l] # e
                            /\ \A m \in 1 .. Len(t) : t[m] = s[l] => m = k
      BY <3>1, <3>2
    <3> QED BY <3>3 DEF s, t, n
  <2>3. ASSUME NEW j \in 1 .. n, s[j] = e, t = RemoveAt(s, j)
        PROVE  \E l \in 1 .. n : /\ t[k] = s[l] /\ s[l] # e
                                 /\ \A m \in 1 .. Len(t) : t[m] = s[l] => m = k
    <3> HIDE DEF s, t
    <3>1. /\ Len(t) = n - 1
          /\ \A a \in 1 .. (n - 1) : t[a] = IF a < j THEN s[a] ELSE s[a + 1]
      BY <2>1, <2>3, ItemRemoved, SMTT(30)
    <3> HIDE DEF n
    <3>2. k \in 1 .. (n - 1)
      BY <3>1 DEF t
    <3> DEFINE at(a) == IF a < j THEN a ELSE a + 1
    <3>3. \A a \in 1 .. (n - 1) : /\ at(a) \in 1 .. n /\ at(a) # j /\ t[a] = s[at(a)]
                                  /\ \A b \in 1 .. (n - 1) : at(a) = at(b) => a = b
      BY <2>1, <3>1
    <3> HIDE DEF at
    <3>4. at(k) \in 1 .. n /\ t[k] = s[at(k)] /\ s[at(k)] # e
      BY <2>1, <2>3, <3>2, <3>3
    <3>5. \A m \in 1 .. (n - 1) : t[m] = s[at(k)] => m = k
      BY <2>1, <3>2, <3>3
    <3> QED BY <3>1, <3>4, <3>5
  <2> HIDE DEF s, t
  <2>4. \/ t = s /\ \A a \in 1 .. Len(s) : s[a] # e
        \/ \E j \in 1 .. n : s[j] = e /\ t = RemoveAt(s, j)
    BY <2>1, RemoveFirstIs
  <2> QED BY <2>2, <2>3, <2>4 DEF s, t
<1>5. ASSUME NEW b \in F \ {e}
      PROVE  \E k \in 1 .. Len(g.lists[Home(h, b)]) : g.lists[Home(h, b)][k] = b
  <2> DEFINE i == Home(h, b)
             s == h.lists[i]
             t == g.lists[i]
             n == Len(s)
  <2>1. i \in 0 .. WildernessList /\ \E k \in 1 .. n : s[k] = b
    BY DEF Listing
  <2>2. s \in Seq(Nat) /\ n \in Nat /\ t = RemoveFirst(s, e)
    BY <1>1, <1>2, <2>1
  <2>3. PICK k \in 1 .. n : s[k] = b
    BY <2>1
  <2>4. ASSUME NEW j \in 1 .. n, s[j] = e, t = RemoveAt(s, j)
        PROVE  \E l \in 1 .. Len(t) : t[l] = b
    <3> HIDE DEF s, t, i
    <3>1. /\ Len(t) = n - 1
          /\ \A a \in 1 .. (n - 1) : t[a] = IF a < j THEN s[a] ELSE s[a + 1]
      BY <2>2, <2>4, ItemRemoved
    <3>2. k # j
      BY <2>3, <2>4
    <3> HIDE DEF n
    <3>3. CASE k < j
      <4>1. k \in 1 .. (n - 1)
        BY <2>2, <3>3
      <4> QED BY <2>3, <3>1, <3>3, <4>1
    <3>4. CASE k > j
      <4>1. k - 1 \in 1 .. (n - 1) /\ ~(k - 1 < j) /\ (k - 1) + 1 = k
        BY <2>2, <3>4
      <4> QED BY <2>3, <3>1, <4>1
    <3> QED BY <2>2, <3>2, <3>3, <3>4
  <2>5. \/ t = s
        \/ \E j \in 1 .. n : s[j] = e /\ t = RemoveAt(s, j)
    <3> HIDE DEF s, t, i
    <3> QED BY <2>2, RemoveFirstIs
  <2> HIDE DEF s, t
  <2> QED BY <2>3, <2>4, <2>5 DEF s, t
<1>6. Listing(g, F \ {e})
  <2>1. ASSUME NEW i \in 0 .. WildernessList, NEW k \in 1 .. Len(g.lists[i])
        PROVE  /\ g.lists[i][k] \in F \ {e} /\ Home(g, g.lists[i][k]) = i
               /\ \A l \in 1 .. Len(g.lists[i]) : g.lists[i][l] = g.lists[i][k] => l = k
    <3>1. PICK l \in 1 .. Len(h.lists[i]) :
             /\ g.lists[i][k] = h.lists[i][l] /\ h.lists[i][l] # e
             /\ \A m \in 1 .. Len(g.lists[i]) : g.lists[i][m] = h.lists[i][l] => m = k
      BY <1>4
    <3>2. h.lists[i][l] \in F /\ Home(h, h.lists[i][l]) = i
      BY DEF Listing
    <3> QED BY <1>3, <3>1, <3>2
  <2>2. ASSUME NEW b \in F \ {e} PROVE Home(g, b) \in 0 .. WildernessList
    BY <1>3 DEF Listing
  <2>3. \A b \in F \ {e} : /\ Home(g, b) \in 0 .. WildernessList
                          /\ \E k \in 1 .. Len(g.lists[Home(g, b)]) :
                                g.lists[Home(g, b)][k] = b
    BY <1>3, <1>5, <2>2
  <2> HIDE DEF Listing
  <2> QED BY <2>1, <2>3, ZenonT(30) DEF Listing
<1> QED BY <1>2, <1>6

-----------------------------------------------------------------------------
(* sf_coalesce *)

\* Several free blocks, or one that was allocated, are joined to a block in no list.
Span(B, low, high) == {b \in B : low <= b /\ b <= high}

\* Then they are one pending block.
LEMMA JoinedPending ==
  ASSUME NEW h, NEW B, NEW x, NEW low, NEW high, NEW size, NEW g,
         Joining(h, B, x, low, high, size, g), g.lists = h.lists,
         Listing(h, Unallocated(h, B) \ Span(B, low, high))
  PROVE  /\ Pending(g, Merged(B, low, high), low)
         /\ Allocated(g, Merged(B, low, high)) = Allocated(h, B) \ Span(B, low, high)
         /\ Keeps(h, g, Merged(B, low, high) \ {low})
<1> DEFINE C == Merged(B, low, high)
           F == Unallocated(h, B) \ Span(B, low, high)
<1>1. /\ Sound(g) /\ Tiled(g, C) /\ Flagged(g, C, low)
      /\ get_size(g, low) = size /\ ~get_alloc(g, low)
      /\ \A c \in C \ {low} :
            get_size(g, c) = get_size(h, c) /\ get_alloc(g, c) = get_alloc(h, c)
      /\ Keeps(h, g, C \ {low})
  BY BlocksJoined
<1>2. /\ Sound(h) /\ Tiled(h, B) /\ low \in B /\ high \in B /\ low <= high
      /\ g.top = h.top /\ g.lists = h.lists
  BY DEF Joining, Freed
<1>3. \A b \in B : b \in Nat
  BY <1>2, BlockFacts
<1>4. low \in C /\ C \ {low} = B \ Span(B, low, high)
  BY <1>2, <1>3 DEF Merged, Span
<1>5. F \subseteq C \ {low}
  BY <1>4 DEF Unallocated
<1>6. Listing(g, F)
  <2> HIDE DEF F
  <2>1. Listing(h, F)
    BY DEF F
  <2>2. \A b \in F : get_size(g, b) = get_size(h, b)
    BY <1>1, <1>5
  <2> QED BY <1>2, <2>1, <2>2, ListingStays
<1>7. Unallocated(g, C) \ {low} = F
  BY <1>1, <1>4 DEF Unallocated
<1>8. low \in Span(B, low, high)
  BY <1>2, <1>3 DEF Span
<1>9. Allocated(g, C) = Allocated(h, B) \ Span(B, low, high)
  BY <1>1, <1>4, <1>8 DEF Allocated
<1> QED BY <1>1, <1>4, <1>6, <1>7, <1>9 DEF Pending

\* What becomes of the blocks in two steps.
LEMMA ThenBecomes ==
  ASSUME NEW h, NEW B, NEW k, NEW C, NEW g, Becomes(k, C, g), k.top = h.top,
         Allocated(k, C) = Allocated(h, B), Keeps(h, k, Allocated(h, B))
  PROVE  Becomes(h, B, g)
<1>1. PICK D : /\ Settled(g, D) /\ g.top = k.top
               /\ Allocated(g, D) = Allocated(k, C) /\ Keeps(k, g, Allocated(k, C))
  BY DEF Becomes
<1>2. Keeps(h, g, Allocated(h, B))
  BY <1>1 DEF Keeps, next_blkp
<1> QED BY <1>1, <1>2 DEF Becomes

\* remove_from_free_list of a free block that is in a list.
LEMMA TakenOut ==
  ASSUME NEW h, NEW B, NEW x, Sound(h), Tiled(h, B), Flagged(h, B, x),
         NEW F, F \subseteq B, Listing(h, F), NEW b \in F, ~get_alloc(h, b)
  PROVE  LET g == remove_from_free_list(h, b)
         IN  /\ Sound(g) /\ Tiled(g, B) /\ Flagged(g, B, x) /\ g.mem = h.mem /\ g.top = h.top
             /\ g.epilogue = h.epilogue
             /\ \A c \in B : /\ get_size(g, c) = get_size(h, c)
                             /\ get_alloc(g, c) = get_alloc(h, c)
             /\ Unallocated(g, B) = Unallocated(h, B) /\ Allocated(g, B) = Allocated(h, B)
             /\ Keeps(h, g, B)
             /\ Listing(g, F \ {b})
<1> DEFINE g == remove_from_free_list(h, b)
<1>1. ~(get_size(h, b) < M)
  BY BlockFacts, Unit
<1>2. g = [h EXCEPT !.lists = [i \in DOMAIN h.lists |-> RemoveFirst(h.lists[i], b)]]
  BY <1>1 DEF remove_from_free_list
<1> HIDE DEF g
<1>3. /\ g \in Heaps /\ g.top = h.top /\ g.epilogue = h.epilogue /\ g.mem = h.mem
      /\ Listing(g, F \ {b})
  BY <1>2, Removed DEF Sound
<1> QED BY <1>3, MemoryStays DEF g

\* The row behind the last block is not taken for one of a list.
LEMMA NothingTakenOut ==
  ASSUME NEW h, Sound(h), NEW B, Tiled(h, B)
  PROVE  remove_from_free_list(h, h.top - 2) = h
BY Unit DEF remove_from_free_list, Tiled

\* sf_coalesce brings a pending block into order, joined with the free blocks beside it.
LEMMA Coalesced ==
  ASSUME NEW h, NEW B, NEW pp, Pending(h, B, pp)
  PROVE  Becomes(h, B, sf_coalesce(h, pp))
<1> DEFINE nbp == next_blkp(h, pp)
           down == ~get_palloc(h, pp) /\ prev_blkp(h, pp) > prologue
           up == ~get_alloc(h, nbp) /\ nbp < h.epilogue
           low == IF down THEN prev_blkp(h, pp) ELSE pp
           high == IF up /\ nbp \in B THEN nbp ELSE pp
           size == get_size(h, pp) + (IF down THEN get_size(h, low) ELSE 0)
                                   + (IF up THEN get_size(h, nbp) ELSE 0)
           below == IF down THEN remove_from_free_list(h, low) ELSE h
           unlisted == IF up THEN remove_from_free_list(below, nbp) ELSE below
           k == SetFree(unlisted, low, size, get_palloc(unlisted, low))
           F == Unallocated(h, B) \ {pp}
           F1 == IF down THEN F \ {low} ELSE F
           F2 == IF up /\ nbp \in B THEN F1 \ {nbp} ELSE F1
<1>1. /\ Sound(h) /\ Tiled(h, B) /\ Flagged(h, B, pp) /\ pp \in B /\ ~get_alloc(h, pp)
      /\ Listing(h, F)
  BY DEF Pending
<1>2. /\ pp \in Nat /\ get_size(h, pp) \in Nat /\ get_size(h, pp) >= 4
      /\ nbp = pp + get_size(h, pp) /\ nbp \in Nat /\ nbp \in B \cup {h.top - 2}
      /\ h.top \in Nat /\ nbp < h.epilogue
  BY <1>1, BlockFacts, Bounds DEF Sound
<1>3. down => /\ low \in B /\ next_blkp(h, low) = pp /\ ~get_alloc(h, low) /\ low \in Nat
              /\ low < pp /\ get_size(h, low) \in Nat /\ pp = low + get_size(h, low)
  <2> SUFFICES ASSUME ~get_palloc(h, pp)
               PROVE  LET q == prev_blkp(h, pp)
                      IN  /\ q \in B /\ next_blkp(h, q) = pp /\ ~get_alloc(h, q) /\ q \in Nat
                          /\ q < pp /\ get_size(h, q) \in Nat /\ pp = q + get_size(h, q)
    OBVIOUS
  <2>1. pp # First
    BY <1>1 DEF Flagged
  <2>2. PICK q \in B : next_blkp(h, q) = pp
    BY <1>1, <2>1 DEF Tiled
  <2>3. /\ q \in Nat /\ get_size(h, q) \in Nat /\ pp = q + get_size(h, q)
        /\ get_size(h, q) >= 4
    BY <1>1, <2>2, BlockFacts
  <2>4. pp # h.top - 2 /\ q # pp
    BY <1>1, <1>2, <2>3, BlockFacts
  <2>5. ~get_alloc(h, q)
    BY <1>1, <2>2, <2>4 DEF Flagged
  <2>6. prev_footer(h, pp) = header(h, q)
    BY <1>1, <2>2, <2>5 DEF Flagged
  <2>7. prev_blkp(h, pp) = q
    BY <1>2, <2>3, <2>6 DEF prev_blkp, get_size
  <2> QED BY <2>2, <2>3, <2>5, <2>7
<1>4. up /\ nbp \in B => /\ get_size(h, nbp) \in Nat /\ nbp # low /\ nbp # pp
                         /\ next_blkp(h, nbp) = nbp + get_size(h, nbp) /\ nbp \in F
  BY <1>1, <1>2, <1>3, BlockFacts DEF Unallocated
<1>5. up /\ nbp \notin B => nbp = h.top - 2 /\ get_size(h, nbp) = 0
  BY <1>1, <1>2 DEF Tiled
<1>6. low \in B /\ low \in Nat /\ low <= pp
  BY <1>1, <1>2, <1>3
<1>7. down => low \in F
  BY <1>1, <1>2, <1>3 DEF Unallocated
<1>8. high \in B /\ high \in Nat /\ pp <= high
  BY <1>1, <1>2
<1>9. size = next_blkp(h, high) - low /\ size \in Nat /\ size >= 4
  <2> DEFINE s0 == get_size(h, pp)
             s1 == IF down THEN get_size(h, low) ELSE 0
             s2 == IF up THEN get_size(h, nbp) ELSE 0
  <2>1. s1 \in Nat /\ low = pp - s1
    BY <1>2, <1>3
  <2>2. s2 \in Nat /\ next_blkp(h, high) = nbp + s2
    <3>1. CASE up /\ nbp \in B
      BY <1>4, <3>1
    <3>2. CASE up /\ nbp \notin B
      BY <1>2, <1>5, <3>2
    <3>3. CASE ~up
      BY <1>2, <3>3
    <3> QED BY <3>1, <3>2, <3>3
  <2>3. size = s0 + s1 + s2
    OBVIOUS
  <2> HIDE DEF s0, s1, s2, size, high, low, nbp
  <2>4. s0 \in Nat /\ s0 >= 4 /\ nbp = pp + s0
    BY <1>2 DEF s0
  <2> QED BY <1>2, <2>1, <2>2, <2>3, <2>4
<1> HIDE DEF size
<1>10. Span(B, low, high) = {low, pp, high}
  <2>1. ASSUME NEW b \in Span(B, low, high) PROVE b \in {low, pp, high}
    <3>1. b \in B /\ low <= b /\ b <= high /\ b \in Nat
      BY <1>1, BlockFacts DEF Span
    <3>2. CASE b < pp
      <4>1. down
        BY <1>6, <3>1, <3>2
      <4>2. b = low
        BY <1>1, <1>3, <1>6, <3>1, <3>2, <4>1, Apart
      <4> QED BY <4>2
    <3>3. CASE b > pp
      <4>1. up /\ nbp \in B /\ high = nbp
        BY <1>2, <3>1, <3>3
      <4>2. nbp <= b
        BY <1>1, <1>2, <3>1, <3>3 DEF Tiled
      <4> QED BY <1>2, <3>1, <4>1, <4>2
    <3> QED BY <1>2, <3>1, <3>2, <3>3
  <2>2. low \in Span(B, low, high) /\ pp \in Span(B, low, high) /\ high \in Span(B, low, high)
    BY <1>1, <1>2, <1>6, <1>8 DEF Span
  <2> QED BY <2>1, <2>2
<1>11. F2 = Unallocated(h, B) \ Span(B, low, high)
  BY <1>10
<1>12. F \subseteq B /\ F1 \subseteq F /\ F2 \subseteq F1
  BY DEF Unallocated
<1> HIDE DEF F, F2, nbp, low, high
<1>13. /\ Sound(below) /\ Tiled(below, B) /\ Flagged(below, B, pp)
       /\ below.mem = h.mem /\ below.top = h.top /\ below.epilogue = h.epilogue
       /\ Listing(below, F1)
       /\ \A c \in B : get_alloc(below, c) = get_alloc(h, c)
  <2>1. CASE down
    BY <1>1, <1>3, <1>7, <1>12, <2>1, TakenOut
  <2>2. CASE ~down
    BY <1>1, <2>2
  <2> QED BY <2>1, <2>2
<1> HIDE DEF below, F1
<1>14. /\ Sound(unlisted) /\ Tiled(unlisted, B) /\ Flagged(unlisted, B, pp)
       /\ unlisted.mem = h.mem /\ unlisted.top = h.top /\ unlisted.epilogue = h.epilogue
       /\ Listing(unlisted, F2)
  <2>1. CASE up /\ nbp \in B
    <3>1. nbp \in F1 /\ F1 \subseteq B /\ ~get_alloc(below, nbp)
      BY <1>4, <1>12, <1>13, <2>1 DEF F1
    <3>2. unlisted = remove_from_free_list(below, nbp) /\ F2 = F1 \ {nbp}
      BY <2>1 DEF F2
    <3> QED BY <1>13, <3>1, <3>2, TakenOut
  <2>2. CASE up /\ nbp \notin B
    <3>1. unlisted = below
      BY <1>5, <1>13, <2>2, NothingTakenOut
    <3> QED BY <1>13, <2>2, <3>1 DEF F2
  <2>3. CASE ~up
    BY <1>13, <2>3 DEF F2
  <2> QED BY <2>1, <2>2, <2>3
<1> HIDE DEF unlisted, down, up
<1>15. /\ \A b : /\ get_size(unlisted, b) = get_size(h, b)
                 /\ get_alloc(unlisted, b) = get_alloc(h, b)
                 /\ get_palloc(unlisted, b) = get_palloc(h, b)
                 /\ next_blkp(unlisted, b) = next_blkp(h, b)
       /\ Unallocated(unlisted, B) = Unallocated(h, B)
       /\ Allocated(unlisted, B) = Allocated(h, B)
  BY <1>14 DEF get_size, get_alloc, get_palloc, header, next_blkp, Unallocated, Allocated
<1>16. sf_coalesce(h, pp) = insert_to_free_list(IF down \/ up THEN k ELSE unlisted, low)
  BY DEF sf_coalesce, k, unlisted, below, size, low, down, up, nbp
<1>17. CASE ~down /\ ~up
  <2>1. unlisted = h /\ low = pp
    BY <1>17 DEF unlisted, below, low
  <2> QED BY <1>16, <1>17, <2>1, Inserted
<1>18. CASE down \/ up
  <2>1. Joining(unlisted, B, pp, low, high, size, k) /\ k.lists = unlisted.lists
    <3>1. low + size = next_blkp(h, high) /\ next_blkp(h, high) \in Rows
          /\ get_palloc(h, low) \in BOOLEAN
      BY <1>1, <1>6, <1>8, <1>9, BlockFacts
    <3>2. Freed(unlisted, k, low, size, get_palloc(unlisted, low)) /\ k.lists = unlisted.lists
      <4> DEFINE palloc == get_palloc(unlisted, low)
      <4>1. unlisted \in Heaps /\ palloc \in BOOLEAN /\ low + size \in Rows /\ size > 1
            /\ low \in Nat /\ size \in Nat
        BY <1>6, <1>9, <1>14, <1>15, <3>1 DEF Sound
      <4> HIDE DEF palloc
      <4>2. LET g == SetFree(unlisted, low, size, palloc)
            IN  Freed(unlisted, g, low, size, palloc) /\ g.lists = unlisted.lists
        BY <4>1, FreeSet
      <4> QED BY <4>2 DEF k, palloc
    <3>3. low <= high /\ pp \notin Merged(B, low, high) \ {low}
      BY <1>2, <1>6, <1>8 DEF Merged
    <3> QED BY <1>6, <1>8, <1>9, <1>14, <1>15, <3>2, <3>3 DEF Joining
  <2> HIDE DEF k
  <2>2. Listing(unlisted, Unallocated(unlisted, B) \ Span(B, low, high))
    BY <1>11, <1>14, <1>15
  <2> DEFINE C == Merged(B, low, high)
  <2>3. /\ Pending(k, C, low)
        /\ Allocated(k, C) = Allocated(unlisted, B) \ Span(B, low, high)
        /\ Keeps(unlisted, k, C \ {low})
    BY <2>1, <2>2, JoinedPending
  <2>4. Allocated(k, C) = Allocated(h, B)
    <3>1. high \notin Allocated(h, B) /\ low \notin Allocated(h, B) /\ pp \notin Allocated(h, B)
      BY <1>1, <1>3, <1>4 DEF Allocated, high, low, Unallocated, F, up
    <3> QED BY <1>10, <1>15, <2>3, <3>1
  <2>5. Keeps(h, k, Allocated(h, B))
    <3>1. Allocated(h, B) \subseteq C \ {low}
      <4>1. Allocated(h, B) \subseteq B
        BY DEF Allocated
      <4>2. \A a \in Allocated(h, B) : a \notin Span(B, low, high) /\ a \in Nat
        BY <1>1, <2>3, <2>4, <4>1, BlockFacts
      <4>3. low \notin Allocated(h, B)
        BY <1>1, <1>3 DEF Allocated, low
      <4> QED BY <1>6, <1>8, <4>1, <4>2, <4>3 DEF Span, Merged
    <3> QED BY <1>14, <1>15, <2>3, <3>1 DEF Keeps
  <2>6. k.top = h.top
    BY <1>14, <2>1 DEF Joining, Freed
  <2>7. Becomes(k, C, insert_to_free_list(k, low))
    BY <2>3, Inserted
  <2> HIDE DEF C
  <2> QED BY <1>16, <1>18, <2>4, <2>5, <2>6, <2>7, ThenBecomes
<1> QED BY <1>17, <1>18

-----------------------------------------------------------------------------
(* sf_free *)

\* With every flag right, all but that of one block are.
LEMMA FlaggedBut ==
  ASSUME NEW h, Sound(h), NEW B, Tiled(h, B), Flagged(h, B, NULL), NEW x
  PROVE  Flagged(h, B, x)
<1>1. \A b \in B : b # NULL
  <2>1. \A b \in B : b \in Nat /\ First <= b /\ First \in Nat /\ First >= 6
    BY BlockFacts, Bounds, Unit
  <2> QED BY <2>1 DEF NULL
<1> QED BY <1>1 DEF Flagged

\* g is in order, its allocated blocks are those of A, and those of K are as they were in h.
Gets(h, g, A, K) ==
    \E C : Settled(g, C) /\ Allocated(g, C) = A /\ Keeps(h, g, K)

\* sf_free takes its block from the allocated ones, and leaves the others as they are.
LEMMA BlockFreed ==
  ASSUME NEW h, NEW B, NEW bp \in Allocated(h, B), Sound(h), Tiled(h, B), Flagged(h, B, bp),
         Listing(h, Unallocated(h, B))
  PROVE  Gets(h, sf_free(h, bp + 2), Allocated(h, B) \ {bp}, Allocated(h, B) \ {bp})
<1> DEFINE size == get_size(h, bp)
           palloc == get_palloc(h, bp)
           k == SetFree(h, bp, size, palloc)
           C == Merged(B, bp, bp)
<1>1. bp \in B /\ get_alloc(h, bp)
  BY DEF Allocated
<1>2. /\ bp \in Nat /\ size \in Nat /\ size >= 4 /\ size > 1 /\ palloc \in BOOLEAN
      /\ bp + size = next_blkp(h, bp)
      /\ size = next_blkp(h, bp) - bp /\ bp + size \in Rows /\ h \in Heaps
  BY <1>1, BlockFacts DEF Sound
<1>3. sf_free(h, bp + 2) = sf_coalesce(k, bp)
  <2>1. (bp + 2) - 2 = bp
    BY <1>2
  <2> QED BY <2>1 DEF sf_free
<1> HIDE DEF size
<1>4. Freed(h, k, bp, size, palloc) /\ k.lists = h.lists
  <2> HIDE DEF palloc
  <2> QED BY <1>2, FreeSet
<1> HIDE DEF k
<1>5. C = B /\ Span(B, bp, bp) = {bp}
  <2>1. \A b \in B : b \in Nat
    BY BlockFacts
  <2> QED BY <1>1, <2>1 DEF Merged, Span
<1>6. Joining(h, B, bp, bp, bp, size, k)
  BY <1>1, <1>2, <1>4, <1>5 DEF Joining
<1>7. Listing(h, Unallocated(h, B) \ Span(B, bp, bp))
  <2>1. Unallocated(h, B) \ {bp} = Unallocated(h, B)
    BY <1>1 DEF Unallocated
  <2> QED BY <1>5, <2>1
<1>8. /\ Pending(k, C, bp)
      /\ Allocated(k, C) = Allocated(h, B) \ Span(B, bp, bp)
      /\ Keeps(h, k, C \ {bp})
  BY <1>4, <1>6, <1>7, JoinedPending
<1>9. Becomes(k, C, sf_coalesce(k, bp))
  BY <1>8, Coalesced
<1>10. k.top = h.top
  BY <1>4 DEF Freed
<1> DEFINE g == sf_coalesce(k, bp)
           A == Allocated(h, B) \ {bp}
<1>11. PICK D : /\ Settled(g, D) /\ g.top = k.top
                /\ Allocated(g, D) = Allocated(k, C) /\ Keeps(k, g, Allocated(k, C))
  BY <1>9 DEF Becomes
<1>12. Allocated(k, C) = A
  BY <1>5, <1>8
<1>13. Keeps(h, k, A)
  BY <1>5, <1>8 DEF Keeps, Allocated
<1>14. Keeps(h, g, A)
  <2> HIDE DEF g, A
  <2> QED BY <1>11, <1>12, <1>13 DEF Keeps, next_blkp
<1> QED BY <1>3, <1>10, <1>11, <1>12, <1>14 DEF Gets

-----------------------------------------------------------------------------
(* sf_split and place *)

\* Block bp of h is cut in two behind its first data rows.
Divided(h, B, bp, data, g) ==
    /\ Sound(h) /\ Tiled(h, B) /\ Flagged(h, B, bp) /\ bp \in B
    /\ data \in Nat /\ data >= M /\ data % M = 0 /\ data + M <= get_size(h, bp)
    /\ g \in Heaps /\ g.top = h.top /\ g.epilogue = h.epilogue
    /\ \A r \in Rows : r \notin (bp + 1) .. (bp + get_size(h, bp)) => g.mem[r] = h.mem[r]
    /\ header(g, bp) = PACK(data, get_palloc(h, bp), TRUE)
    /\ header(g, bp + data) \in Tag
    /\ get_size(g, bp + data) = get_size(h, bp) - data
    /\ ~get_alloc(g, bp + data)
          => g.mem[bp + get_size(h, bp)] = header(g, bp + data)

\* The flags of the two parts: that behind the first, or that behind the second, may
\* still be wrong.
PartsFlagged(h, bp, nbp, x, g) ==
    \/ x = nbp /\ get_palloc(g, nbp)
    \/ /\ x = bp /\ get_alloc(g, nbp)
       /\ next_blkp(h, bp) # h.top - 2 => get_palloc(h, next_blkp(h, bp))

\* The two parts tile the heap with the other blocks.
LEMMA BlockDivided ==
  ASSUME NEW h, NEW B, NEW bp, NEW data, NEW g, Divided(h, B, bp, data, g)
  PROVE  /\ Sound(g) /\ Tiled(g, B \cup {bp + data}) /\ bp + data \notin B
         /\ get_size(g, bp) = data /\ get_alloc(g, bp)
         /\ \A c \in B \ {bp} :
               get_size(g, c) = get_size(h, c) /\ get_alloc(g, c) = get_alloc(h, c)
         /\ Keeps(h, g, B \ {bp})
         /\ \A x : PartsFlagged(h, bp, bp + data, x, g)
                      => Flagged(g, B \cup {bp + data}, x)
<1> USE DEF Divided
<1> DEFINE nbp == bp + data
           size == get_size(h, bp)
           end == bp + size
           C == B \cup {nbp}
<1>1. /\ bp \in Nat /\ size \in Nat /\ First \in Nat /\ First <= bp
      /\ end = next_blkp(h, bp) /\ end \in Nat /\ end <= h.top - 2 /\ h.top \in Nat
      /\ end \in B \cup {h.top - 2}
      /\ get_palloc(h, bp) \in BOOLEAN /\ size % M = 0 /\ (bp + 2) % M = 0
      /\ bp + 1 \in Rows
  BY BlockFacts, Bounds
<1>2. /\ nbp \in Nat /\ bp + 4 <= nbp /\ nbp + 4 <= end
      /\ nbp = bp + data /\ nbp + (size - data) = end
      /\ size - data \in Nat /\ size - data >= M
  BY <1>1, Unit
<1>3. (size - data) % M = 0 /\ (nbp + 2) % M = 0
  <2>1. data < size
    BY <1>1, <1>2, Unit
  <2>2. (size - data) % M = 0
    BY <1>1, <2>1, MultipleDifference
  <2>3. ((bp + 2) + data) % M = 0
    <3>1. bp + 2 \in Nat
      BY <1>1
    <3> QED BY <1>1, <3>1, MultipleSum
  <2>4. (bp + 2) + data = nbp + 2
    BY <1>1
  <2> QED BY <2>2, <2>3, <2>4
<1>4. \A c \in B : /\ c \in Nat /\ c + 1 \in Rows
                   /\ next_blkp(h, c) \in Nat /\ next_blkp(h, c) \in Rows
                   /\ c + 4 <= next_blkp(h, c) /\ next_blkp(h, c) <= h.top - 2
  BY BlockFacts
<1>5. \A c \in B \ {bp} : \/ c < bp /\ next_blkp(h, c) <= bp
                          \/ end <= c
  BY <1>1, Apart
<1>6. nbp \notin B
  <2>1. \A c \in B : c # nbp
    BY <1>1, <1>2, <1>4, <1>5
  <2> QED BY <2>1
<1>7. \A r \in Rows : r \notin (bp + 1) .. end => g.mem[r] = h.mem[r]
  OBVIOUS
<1> HIDE DEF nbp, end
<1>8. \A c \in B \ {bp} : header(g, c) = header(h, c)
  <2> TAKE c \in B \ {bp}
  <2>1. c \in Nat /\ (c < bp \/ end <= c)
    BY <1>4, <1>5
  <2>2. c + 1 \notin (bp + 1) .. end
    BY <1>1, <1>2, <2>1
  <2> QED BY <1>4, <1>7, <2>2 DEF header
<1>9. /\ get_size(g, bp) = data /\ get_alloc(g, bp) = TRUE
      /\ get_palloc(g, bp) = get_palloc(h, bp) /\ header(g, bp) \in Tag
  <2>1. /\ header(g, bp) = PACK(data, get_palloc(h, bp), TRUE)
        /\ data \in Nat /\ get_palloc(h, bp) \in BOOLEAN
    BY <1>1
  <2> DEFINE p == get_palloc(h, bp)
  <2>2. p = get_palloc(h, bp)
    OBVIOUS
  <2> HIDE DEF p
  <2>3. /\ PACK(data, p, TRUE) \in Tag /\ PACK(data, p, TRUE)[1] = data
        /\ PACK(data, p, TRUE)[2] = p /\ PACK(data, p, TRUE)[3] = TRUE
    BY <2>1, <2>2, PackFacts
  <2>4. header(g, bp) = PACK(data, p, TRUE)
    BY <2>1, <2>2
  <2> QED BY <2>2, <2>3, <2>4 DEF get_size, get_alloc, get_palloc
<1>10. \A c \in B \ {bp} : /\ get_size(g, c) = get_size(h, c)
                           /\ get_alloc(g, c) = get_alloc(h, c)
                           /\ get_palloc(g, c) = get_palloc(h, c)
  BY <1>8 DEF get_size, get_alloc, get_palloc
<1>11. /\ next_blkp(g, bp) = nbp /\ next_blkp(g, nbp) = end
       /\ \A c \in B \ {bp} : next_blkp(g, c) = next_blkp(h, c)
  <2>1. get_size(g, nbp) = size - data
    BY DEF nbp
  <2> QED BY <1>2, <1>9, <1>10, <2>1 DEF next_blkp
<1>12. Sound(g)
  BY SoundStays
<1>13. header(g, h.top - 2) = header(h, h.top - 2)
  <2>1. h.top - 2 + 1 \in Rows
    BY <1>1, Bounds, Unit
  <2>2. h.top - 2 + 1 \notin (bp + 1) .. end
    BY <1>1
  <2> QED BY <1>7, <2>1, <2>2 DEF header
<1>14. Tiled(g, C)
  <2>1. First \in C /\ C \subseteq First .. (h.top - 3)
    BY <1>1, <1>2 DEF Tiled
  <2>2. ASSUME NEW c \in C
        PROVE  /\ (c + 2) % M = 0
               /\ header(g, c) \in Tag /\ get_size(g, c) >= M /\ get_size(g, c) % M = 0
    <3>1. CASE c = nbp
      BY <1>2, <1>3, <3>1 DEF nbp
    <3>2. CASE c = bp
      BY <1>1, <1>9, <3>2
    <3>3. CASE c # bp /\ c # nbp
      BY <1>8, <1>10, <3>3, BlockFacts
    <3> QED BY <3>1, <3>2, <3>3
  <2>3. ASSUME NEW c \in C PROVE next_blkp(g, c) \in C \cup {h.top - 2}
    <3>1. CASE c = nbp
      BY <1>1, <1>11, <3>1
    <3>2. CASE c = bp
      BY <1>11, <3>2
    <3>3. CASE c # bp /\ c # nbp
      BY <1>11, <3>3 DEF Tiled
    <3> QED BY <3>1, <3>2, <3>3
  <2>4. ASSUME NEW c \in C, c # First PROVE \E d \in C : next_blkp(g, d) = c
    <3>1. CASE c = nbp
      BY <1>11, <3>1
    <3>2. CASE c # nbp
      <4>1. PICK d \in B : next_blkp(h, d) = c
        BY <2>4, <3>2 DEF Tiled
      <4>2. CASE d = bp
        BY <1>1, <1>11, <4>1, <4>2
      <4>3. CASE d # bp
        BY <1>11, <4>1, <4>3
      <4> QED BY <4>2, <4>3
    <3> QED BY <3>1, <3>2
  <2>5. ASSUME NEW c \in C, NEW d \in C, c < d PROVE next_blkp(g, c) <= d
    <3>1. CASE c = nbp
      <4>1. end <= d
        BY <1>1, <1>2, <1>5, <2>5, <3>1
      <4> QED BY <1>11, <3>1, <4>1
    <3>2. CASE c = bp
      <4>1. nbp <= d
        BY <1>1, <1>2, <1>5, <2>5, <3>2
      <4> QED BY <1>11, <3>2, <4>1
    <3>3. CASE c # bp /\ c # nbp
      <4>1. next_blkp(g, c) = next_blkp(h, c) /\ c \in B
        BY <1>11, <3>3
      <4>2. d \in B => next_blkp(h, c) <= d
        BY <2>5, <4>1 DEF Tiled
      <4>3. d = nbp => next_blkp(h, c) <= d
        BY <1>1, <1>2, <1>4, <1>5, <2>5, <3>3, <4>1
      <4> QED BY <4>1, <4>2, <4>3
    <3> QED BY <3>1, <3>2, <3>3
  <2>6. header(g, g.top - 2) \in Tag /\ get_size(g, g.top - 2) = 0 /\ ~get_alloc(g, g.top - 2)
    BY <1>13 DEF Tiled, get_size, get_alloc
  <2> QED BY <2>1, <2>2, <2>3, <2>4, <2>5, <2>6 DEF Tiled
<1>15. ASSUME NEW x, PartsFlagged(h, bp, nbp, x, g) PROVE Flagged(g, C, x)
  <2>1. get_palloc(g, First)
    <3>1. First \in B /\ get_palloc(h, First)
      BY DEF Tiled, Flagged
    <3> QED BY <1>9, <1>10, <3>1
  <2>2. ASSUME NEW c \in C, c # x, next_blkp(g, c) # h.top - 2
        PROVE  get_palloc(g, next_blkp(g, c)) = get_alloc(g, c)
    <3>1. CASE c = nbp
      <4>1. end \in B \ {bp} /\ x = bp
        <5>1. nbp # bp /\ end # bp /\ end \in B
          BY <1>1, <1>2, <1>11, <2>2, <3>1
        <5> QED BY <1>15, <2>2, <3>1, <5>1 DEF PartsFlagged
      <4>2. get_palloc(g, end) = get_palloc(h, end) /\ get_palloc(h, end)
        <5>1. end # h.top - 2
          BY <1>11, <2>2, <3>1
        <5>2. bp # nbp
          BY <1>1, <1>2
        <5> QED BY <1>1, <1>10, <1>15, <4>1, <5>1, <5>2 DEF PartsFlagged
      <4>3. get_palloc(h, end) \in BOOLEAN /\ get_alloc(g, nbp) \in BOOLEAN /\ get_alloc(g, nbp)
        <5>1. get_alloc(g, nbp) \in BOOLEAN
          BY TagFacts DEF nbp, get_alloc
        <5>2. bp # nbp
          BY <1>1, <1>2
        <5> QED BY <1>15, <4>1, <5>1, <5>2, BlockFacts DEF PartsFlagged
      <4> QED BY <1>11, <3>1, <4>2, <4>3
    <3>2. CASE c = bp
      <4>1. get_palloc(g, nbp)
        BY <1>15, <2>2, <3>2 DEF PartsFlagged
      <4>2. get_palloc(g, nbp) \in BOOLEAN
        BY TagFacts DEF nbp, get_palloc
      <4> QED BY <1>9, <1>11, <3>2, <4>1, <4>2
    <3>3. CASE c # bp /\ c # nbp
      <4>1. c \in B /\ next_blkp(g, c) = next_blkp(h, c) /\ get_alloc(g, c) = get_alloc(h, c)
        BY <1>10, <1>11, <3>3
      <4>2. next_blkp(h, c) \in B
        BY <2>2, <4>1 DEF Tiled
      <4>3. get_palloc(g, next_blkp(h, c)) = get_palloc(h, next_blkp(h, c))
        BY <1>9, <1>10, <4>2
      <4>4. get_palloc(h, next_blkp(h, c)) = get_alloc(h, c)
        BY <2>2, <3>3, <4>1 DEF Flagged
      <4> QED BY <4>1, <4>3, <4>4
    <3> QED BY <3>1, <3>2, <3>3
  <2>3. ASSUME NEW c \in C, ~get_alloc(g, c)
        PROVE  prev_footer(g, next_blkp(g, c)) = header(g, c)
    <3>1. CASE c = nbp
      <4>1. g.mem[end] = header(g, nbp)
        BY <2>3, <3>1 DEF nbp, end
      <4> QED BY <1>11, <3>1, <4>1 DEF prev_footer
    <3>2. CASE c = bp
      BY <1>9, <2>3, <3>2
    <3>3. CASE c # bp /\ c # nbp
      <4>1. /\ c \in B /\ next_blkp(g, c) = next_blkp(h, c) /\ ~get_alloc(h, c)
            /\ header(g, c) = header(h, c)
        BY <1>8, <1>10, <1>11, <2>3, <3>3
      <4>2. prev_footer(h, next_blkp(h, c)) = header(h, c)
        BY <4>1 DEF Flagged
      <4>3. next_blkp(h, c) \notin (bp + 1) .. end
        BY <1>1, <1>2, <1>4, <1>5, <3>3, <4>1
      <4> QED BY <1>4, <1>7, <4>1, <4>2, <4>3 DEF prev_footer
    <3> QED BY <3>1, <3>2, <3>3
  <2> QED BY <2>1, <2>2, <2>3 DEF Flagged
<1>16. Keeps(h, g, B \ {bp})
  <2> SUFFICES ASSUME NEW c \in B \ {bp}, NEW r \in (c + 2) .. (next_blkp(h, c) - 1)
               PROVE  g.mem[r] = h.mem[r]
    BY <1>10 DEF Keeps
  <2>1. r \in Rows
    BY <1>1, <1>4, Bounds
  <2>2. r \notin (bp + 1) .. end
    BY <1>1, <1>2, <1>4, <1>5
  <2> QED BY <1>7, <2>1, <2>2
<1> QED BY <1>6, <1>9, <1>10, <1>12, <1>14, <1>15, <1>16 DEF nbp

\* Block bp is in no list, and the flag behind it may be wrong.
Taken(h, B, bp) ==
    /\ Sound(h) /\ Tiled(h, B) /\ Flagged(h, B, bp) /\ bp \in B
    /\ Listing(h, Unallocated(h, B) \ {bp})

\* Of a taken block, the first data rows are allocated in g, with what was in them.
Placing(h, B, bp, data, g) ==
    /\ Gets(h, g, Allocated(h, B) \cup {bp}, Allocated(h, B) \ {bp})
    /\ get_size(g, bp) = data
    /\ \A r \in (bp + 2) .. (bp + data - 1) : g.mem[r] = h.mem[r]

\* sf_split when enough is left over for a block.
LEMMA SplitInTwo ==
  ASSUME NEW h, NEW B, NEW bp, Taken(h, B, bp), NEW data \in Nat, data >= M, data % M = 0,
         data + M <= get_size(h, bp)
  PROVE  Placing(h, B, bp, data, sf_split(h, bp, get_size(h, bp), data))
<1> USE DEF Taken
<1> DEFINE size == get_size(h, bp)
           palloc == get_palloc(h, bp)
           tag == PACK(data, palloc, TRUE)
           h1 == SetTags(h, bp, tag)
           rest == size - data
           nbp == bp + data
           k == SetFree(h1, nbp, rest, TRUE)
           g == insert_to_free_list(k, nbp)
           C == B \cup {nbp}
<1>1. /\ bp \in Nat /\ size \in Nat /\ palloc \in BOOLEAN /\ h \in Heaps /\ h.top \in Nat
      /\ bp + size = next_blkp(h, bp) /\ bp + size <= h.top - 2 /\ bp + size \in Rows
      /\ bp + 1 \in Rows
  BY BlockFacts, Bounds DEF Sound
<1>2. /\ rest \in Nat /\ rest >= M /\ rest >= 4 /\ nbp \in Nat /\ bp + 4 <= nbp
      /\ nbp + rest = bp + size /\ nbp + 4 <= bp + size /\ rest > 1 /\ nbp + rest \in Rows
      /\ nbp \in Rows /\ nbp + 1 \in Rows
  <2>1. rest \in Nat /\ rest >= M /\ rest >= 4 /\ nbp \in Nat /\ bp + 4 <= nbp
        /\ nbp + rest = bp + size /\ nbp + 4 <= bp + size
    BY <1>1, Unit
  <2>2. nbp <= h.top /\ nbp + 1 <= h.top /\ nbp + 1 \in Nat
    BY <1>1, <2>1
  <2> QED BY <1>1, <2>1, <2>2, Bounds
<1>3. tag \in Tag /\ tag[1] = data /\ tag[2] = palloc /\ tag[3] = TRUE
  <2> HIDE DEF palloc
  <2> QED BY <1>1, PackFacts
<1> HIDE DEF tag
<1>4. /\ h1 \in Heaps /\ h1.top = h.top /\ h1.epilogue = h.epilogue /\ h1.lists = h.lists
      /\ \A r \in Rows : h1.mem[r] = IF r \in {bp + 1, nbp} THEN tag ELSE h.mem[r]
  BY <1>1, <1>2, <1>3, TagsSet DEF Beside
<1> HIDE DEF h1, size, palloc
<1>5. next_blkp(h1, bp) = nbp
  BY <1>1, <1>3, <1>4 DEF next_blkp, get_size, header
<1>6. sf_split(h, bp, size, data) = g
  <2>1. size - data >= M
    BY <1>2
  <2> QED BY <1>5, <2>1 DEF sf_split, h1, tag, palloc
<1> HIDE DEF rest, nbp
<1>7. Freed(h1, k, nbp, rest, TRUE) /\ k.lists = h1.lists
  BY <1>2, <1>4, FreeSet
<1> HIDE DEF k
<1> DEFINE tag2 == PACK(rest, TRUE, FALSE)
<1>8. tag2 \in Tag /\ tag2[1] = rest /\ tag2[2] = TRUE /\ tag2[3] = FALSE
  BY <1>2, PackFacts
<1> HIDE DEF tag2
<1>9. /\ k \in Heaps /\ k.top = h.top /\ k.epilogue = h.epilogue /\ k.lists = h.lists
      /\ \A r \in Rows : k.mem[r] = IF r \in {nbp + 1, bp + size} THEN tag2
                                    ELSE IF r \in (nbp + 2) .. (bp + size - 1) THEN Junk
                                    ELSE IF r \in {bp + 1, nbp} THEN tag ELSE h.mem[r]
  <2>1. nbp + rest = bp + size /\ nbp + rest - 1 = bp + size - 1
    BY <1>1, <1>2
  <2>2. \A r \in Rows : k.mem[r] = IF r \in {nbp + 1, bp + size} THEN tag2
                                   ELSE IF r \in (nbp + 2) .. (bp + size - 1) THEN Junk
                                   ELSE h1.mem[r]
    BY <1>7, <2>1 DEF Freed, tag2
  <2> QED BY <1>4, <1>7, <2>2 DEF Freed
<1>10. header(k, bp) = tag /\ header(k, nbp) = tag2 /\ k.mem[bp + size] = tag2
  <2>1. bp + 1 \notin {nbp + 1, bp + size} /\ bp + 1 \notin (nbp + 2) .. (bp + size - 1)
    BY <1>1, <1>2
  <2> QED BY <1>1, <1>2, <1>9, <2>1 DEF header
<1>11. Divided(h, B, bp, data, k)
  <2>1. \A r \in Rows : r \notin (bp + 1) .. (bp + size) => k.mem[r] = h.mem[r]
    <3> SUFFICES ASSUME NEW r \in Rows, r \notin (bp + 1) .. (bp + size)
                 PROVE  k.mem[r] = h.mem[r]
      OBVIOUS
    <3>1. r \in Nat /\ (r < bp + 1 \/ r > bp + size)
      BY <1>1 DEF Rows
    <3>2. /\ r \notin {nbp + 1, bp + size} /\ r \notin (nbp + 2) .. (bp + size - 1)
          /\ r \notin {bp + 1, nbp}
      BY <1>1, <1>2, <3>1
    <3> QED BY <1>9, <3>2
  <2>2. data + M <= size /\ nbp = bp + data /\ rest = size - data
    BY DEF size, nbp, rest
  <2>3. header(k, bp) = PACK(data, palloc, TRUE)
    BY <1>10 DEF tag
  <2>4. get_size(k, nbp) = rest
    BY <1>8, <1>10 DEF get_size
  <2>5. /\ header(k, bp + data) \in Tag /\ get_size(k, bp + data) = size - data
        /\ (~get_alloc(k, bp + data) => k.mem[bp + size] = header(k, bp + data))
    BY <1>8, <1>10, <2>2, <2>4
  <2> QED BY <1>9, <2>1, <2>2, <2>3, <2>5 DEF Divided, size, palloc
<1>12. /\ Sound(k) /\ Tiled(k, C) /\ nbp \notin B
       /\ get_size(k, bp) = data /\ get_alloc(k, bp)
       /\ \A c \in B \ {bp} :
             get_size(k, c) = get_size(h, c) /\ get_alloc(k, c) = get_alloc(h, c)
       /\ Keeps(h, k, B \ {bp})
       /\ \A x : PartsFlagged(h, bp, nbp, x, k) => Flagged(k, C, x)
  BY <1>11, BlockDivided DEF nbp
<1>13. get_palloc(k, nbp) = TRUE /\ get_alloc(k, nbp) = FALSE
  BY <1>8, <1>10 DEF get_palloc, get_alloc
<1>14. Flagged(k, C, nbp)
  BY <1>12, <1>13 DEF PartsFlagged
<1>15. Allocated(k, C) = Allocated(h, B) \cup {bp}
  BY <1>12, <1>13 DEF Allocated
<1>16. Unallocated(k, C) \ {nbp} = Unallocated(h, B) \ {bp}
  BY <1>12, <1>13 DEF Unallocated
<1>17. Pending(k, C, nbp)
  <2>1. \A b \in Unallocated(h, B) \ {bp} : get_size(k, b) = get_size(h, b)
    BY <1>12 DEF Unallocated
  <2>2. Listing(k, Unallocated(h, B) \ {bp})
    BY <1>9, <2>1, ListingStays
  <2> QED BY <1>12, <1>13, <1>14, <1>16, <2>2 DEF Pending
<1>18. Becomes(k, C, g)
  <2> HIDE DEF C
  <2> QED BY <1>17, Inserted
<1> HIDE DEF g, C
<1>19. PICK D : /\ Settled(g, D) /\ g.top = k.top
                /\ Allocated(g, D) = Allocated(k, C) /\ Keeps(k, g, Allocated(k, C))
  BY <1>18 DEF Becomes
<1>20. Keeps(h, g, Allocated(h, B) \ {bp})
  <2>1. \A a \in Allocated(h, B) \ {bp} : a \in B \ {bp} /\ a \in Allocated(k, C)
    BY <1>15 DEF Allocated
  <2> QED BY <1>12, <1>19, <2>1 DEF Keeps, next_blkp
<1>21. get_size(g, bp) = data
  BY <1>12, <1>15, <1>19 DEF Keeps
<1>22. \A r \in (bp + 2) .. (bp + data - 1) : g.mem[r] = h.mem[r]
  <2> TAKE r \in (bp + 2) .. (bp + data - 1)
  <2>1. next_blkp(k, bp) = bp + data
    BY <1>12 DEF next_blkp
  <2>2. g.mem[r] = k.mem[r]
    <3>1. r \in (bp + 2) .. (next_blkp(k, bp) - 1)
      BY <1>1, <2>1
    <3>2. bp \in Allocated(k, C)
      BY <1>15
    <3> QED BY <1>19, <3>1, <3>2 DEF Keeps
  <2>3. r \in Nat /\ bp + 2 <= r /\ r < nbp
    BY <1>1 DEF nbp
  <2>4. /\ r \notin {nbp + 1, bp + size} /\ r \notin (nbp + 2) .. (bp + size - 1)
        /\ r \notin {bp + 1, nbp}
    BY <1>1, <1>2, <2>3
  <2>5. r \in Rows
    BY <1>1, <1>2, <2>3, Bounds
  <2> QED BY <1>9, <2>2, <2>4, <2>5
<1>23. Gets(h, g, Allocated(h, B) \cup {bp}, Allocated(h, B) \ {bp})
  BY <1>9, <1>15, <1>19, <1>20 DEF Gets
<1> QED BY <1>6, <1>21, <1>22, <1>23 DEF Placing, size

\* Multiples of M that are less than M apart are the same.
LEMMA NoRest ==
  ASSUME NEW a \in Nat, NEW b \in Nat, a % M = 0, b % M = 0, b <= a, ~(a - b >= M)
  PROVE  a = b
<1>1. a - b >= M => FALSE
  OBVIOUS
<1>2. ~(b < a)
  BY <1>1, MultipleDifference
<1> QED BY <1>2

\* sf_split when nothing is left over.
LEMMA WholeBlock ==
  ASSUME NEW h, NEW B, NEW bp, Taken(h, B, bp)
  PROVE  LET size == get_size(h, bp)
         IN  Placing(h, B, bp, size,
                     set_nextblkp_palloc(SetTags(h, bp, PACK(size, get_palloc(h, bp), TRUE)),
                                         bp, TRUE))
<1> USE DEF Taken
<1> DEFINE size == get_size(h, bp)
           palloc == get_palloc(h, bp)
           tag == PACK(size, palloc, TRUE)
           k == SetTags(h, bp, tag)
           g == set_nextblkp_palloc(k, bp, TRUE)
           F == Unallocated(h, B) \ {bp}
<1>1. /\ bp \in Nat /\ size \in Nat /\ size >= 4 /\ palloc \in BOOLEAN /\ h \in Heaps
      /\ h.top \in Nat
      /\ bp + size = next_blkp(h, bp) /\ bp + size <= h.top - 2 /\ bp + size \in Rows
      /\ bp + 1 \in Rows
  BY BlockFacts, Bounds DEF Sound
<1>2. tag \in Tag /\ tag[1] = size /\ tag[2] = palloc /\ tag[3] = TRUE
  <2> HIDE DEF palloc, size
  <2> QED BY <1>1, PackFacts
<1> HIDE DEF tag
<1>3. /\ k \in Heaps /\ k.top = h.top /\ k.epilogue = h.epilogue /\ k.lists = h.lists
      /\ \A r \in Rows : k.mem[r] = IF r \in {bp + 1, bp + size} THEN tag ELSE h.mem[r]
  BY <1>1, <1>2, TagsSet DEF Beside
<1> HIDE DEF k, size, palloc
<1>4. \A c \in B : /\ c \in Nat /\ c + 1 \in Rows
                   /\ next_blkp(h, c) \in Nat /\ next_blkp(h, c) \in Rows
                   /\ c + 4 <= next_blkp(h, c) /\ next_blkp(h, c) <= h.top - 2
  BY BlockFacts
<1>5. \A c \in B \ {bp} : \/ c < bp /\ next_blkp(h, c) <= bp
                          \/ bp + size <= c
  BY <1>1, Apart
<1>6. \A c \in B : header(k, c) = IF c = bp THEN tag ELSE header(h, c)
  <2> TAKE c \in B
  <2>1. c \in Nat /\ (c = bp \/ c < bp \/ bp + size <= c)
    BY <1>4, <1>5
  <2>2. c # bp => c + 1 \notin {bp + 1, bp + size}
    BY <1>1, <2>1
  <2> QED BY <1>3, <1>4, <2>2 DEF header
<1>7. /\ \A c \in B : /\ header(k, c) \in Tag
                      /\ get_size(k, c) = get_size(h, c)
                      /\ get_palloc(k, c) = get_palloc(h, c)
      /\ get_alloc(k, bp) = TRUE
      /\ \A c \in B \ {bp} : get_alloc(k, c) = get_alloc(h, c)
  BY <1>2, <1>6, BlockFacts DEF get_size, get_alloc, get_palloc, size, palloc
<1>8. \A c \in B : next_blkp(k, c) = next_blkp(h, c)
  BY <1>7 DEF next_blkp
<1>9. header(k, h.top - 2) = header(h, h.top - 2)
  <2>1. h.top - 2 + 1 \in Rows
    BY <1>1, Bounds, Unit
  <2>2. h.top - 2 + 1 \notin {bp + 1, bp + size}
    BY <1>1
  <2> QED BY <1>3, <2>1, <2>2 DEF header
<1>10. Sound(k)
  BY <1>3, SoundStays
<1>11. Tiled(k, B)
  <2>1. /\ header(k, h.top - 2) \in Tag /\ get_size(k, h.top - 2) = 0
        /\ ~get_alloc(k, h.top - 2)
    BY <1>9 DEF Tiled, get_size, get_alloc
  <2> QED BY <1>3, <1>7, <2>1, TiledStays
<1>12. Flagged(k, B, bp)
  <2>1. get_palloc(k, First)
    BY <1>7 DEF Flagged, Tiled
  <2>2. ASSUME NEW c \in B, c # bp, next_blkp(k, c) # k.top - 2
        PROVE  get_palloc(k, next_blkp(k, c)) = get_alloc(k, c)
    <3>1. next_blkp(h, c) \in B /\ next_blkp(h, c) # h.top - 2
      BY <1>3, <1>8, <2>2 DEF Tiled
    <3> QED BY <1>7, <1>8, <2>2, <3>1 DEF Flagged
  <2>3. ASSUME NEW c \in B, ~get_alloc(k, c)
        PROVE  prev_footer(k, next_blkp(k, c)) = header(k, c)
    <3>1. c # bp /\ ~get_alloc(h, c)
      BY <1>7, <2>3
    <3>2. prev_footer(h, next_blkp(h, c)) = header(h, c)
      BY <3>1 DEF Flagged
    <3>3. next_blkp(h, c) \notin {bp + 1, bp + size}
      <4>1. next_blkp(h, c) # next_blkp(h, bp) /\ next_blkp(h, c) # bp + 1
        <5>1. c \in B /\ bp \in B /\ next_blkp(h, c) \in Nat /\ next_blkp(h, bp) \in Nat
          BY <1>4
        <5>2. next_blkp(h, c) # next_blkp(h, bp)
          BY <3>1, <5>1, Apart
        <5>3. next_blkp(h, c) # bp + 1
          BY <1>1, <1>4, <1>5, <3>1
        <5> QED BY <5>2, <5>3
      <4> QED BY <1>1, <4>1
    <3> QED BY <1>3, <1>4, <1>6, <1>8, <3>1, <3>2, <3>3 DEF prev_footer
  <2> QED BY <2>1, <2>2, <2>3 DEF Flagged
<1>13. Allocated(k, B) = Allocated(h, B) \cup {bp} /\ Unallocated(k, B) = F
  BY <1>7 DEF Allocated, Unallocated
<1>14. Listing(k, F)
  <2>1. \A b \in F : get_size(k, b) = get_size(h, b)
    BY <1>7 DEF Unallocated
  <2> QED BY <1>3, <2>1, ListingStays
<1> HIDE DEF F
<1>15. /\ Sound(g) /\ Tiled(g, B) /\ Flagged(g, B, NULL) /\ g.lists = k.lists /\ g.top = k.top
       /\ \A c \in B : get_size(g, c) = get_size(k, c) /\ get_alloc(g, c) = get_alloc(k, c)
       /\ Keeps(k, g, B)
  <2> DEFINE p == TRUE
  <2>1. /\ Sound(k) /\ Tiled(k, B) /\ bp \in B /\ Flagged(k, B, bp)
        /\ p \in BOOLEAN /\ p = get_alloc(k, bp)
        /\ next_blkp(k, bp) = k.top - 2 => get_alloc(k, bp)
    BY <1>7, <1>10, <1>11, <1>12
  <2> HIDE DEF p
  <2>2. LET f == set_nextblkp_palloc(k, bp, p)
        IN  /\ Sound(f) /\ Tiled(f, B) /\ Flagged(f, B, NULL) /\ f.lists = k.lists
            /\ f.top = k.top
            /\ \A c \in B : get_size(f, c) = get_size(k, c) /\ get_alloc(f, c) = get_alloc(k, c)
            /\ Keeps(k, f, B)
    BY <2>1, PallocRight
  <2> QED BY <2>2 DEF p
<1> HIDE DEF g
<1>16. Allocated(g, B) = Allocated(h, B) \cup {bp} /\ Unallocated(g, B) = F
  BY <1>13, <1>15 DEF Allocated, Unallocated
<1>17. Settled(g, B)
  <2>1. \A b \in F : get_size(g, b) = get_size(k, b)
    BY <1>13, <1>15 DEF Unallocated
  <2>2. Listing(g, F)
    BY <1>14, <1>15, <2>1, ListingStays
  <2> QED BY <1>15, <1>16, <2>2 DEF Settled
<1>18. \A c \in B : \A r \in (c + 2) .. (next_blkp(h, c) - 1) : g.mem[r] = h.mem[r]
  <2> SUFFICES ASSUME NEW c \in B, NEW r \in (c + 2) .. (next_blkp(h, c) - 1)
               PROVE  g.mem[r] = h.mem[r]
    OBVIOUS
  <2>1. r \in Nat /\ c + 2 <= r /\ r < next_blkp(h, c) /\ r \in Rows
    BY <1>1, <1>4, Bounds
  <2>2. r \notin {bp + 1, bp + size}
    <3>1. CASE c = bp
      BY <1>1, <2>1, <3>1
    <3>2. CASE c # bp
      BY <1>1, <1>4, <1>5, <2>1, <3>2
    <3> QED BY <3>1, <3>2
  <2>3. g.mem[r] = k.mem[r]
    BY <1>8, <1>15 DEF Keeps
  <2> QED BY <1>3, <2>1, <2>2, <2>3
<1>19. \A c \in B : get_size(g, c) = get_size(h, c)
  BY <1>7, <1>15
<1>20. Keeps(h, g, Allocated(h, B) \ {bp})
  BY <1>18, <1>19 DEF Keeps, Allocated
<1>21. Gets(h, g, Allocated(h, B) \cup {bp}, Allocated(h, B) \ {bp})
  <2>1. g.top = h.top
    BY <1>3, <1>15
  <2> QED BY <1>16, <1>17, <1>20, <2>1 DEF Gets
<1>22. \A r \in (bp + 2) .. (bp + size - 1) : g.mem[r] = h.mem[r]
  <2>1. bp + size - 1 = next_blkp(h, bp) - 1
    BY <1>1
  <2> QED BY <1>18, <2>1
<1>23. Placing(h, B, bp, size, g)
  BY <1>19, <1>21, <1>22 DEF Placing, size
<1> QED BY <1>23 DEF g, k, tag, size, palloc

\* sf_split allocates the first rows of a taken block; what is left is a free block
\* that joins the wilderness or its list.
LEMMA Split ==
  ASSUME NEW h, NEW B, NEW bp, Taken(h, B, bp), NEW data \in Nat, data >= M, data % M = 0,
         data <= get_size(h, bp)
  PROVE  Placing(h, B, bp, data, sf_split(h, bp, get_size(h, bp), data))
<1>1. get_size(h, bp) \in Nat /\ get_size(h, bp) % M = 0
  BY BlockFacts DEF Taken
<1>2. CASE get_size(h, bp) - data >= M
  <2>1. data + M <= get_size(h, bp)
    BY <1>1, <1>2, Unit
  <2> QED BY <2>1, SplitInTwo
<1>3. CASE ~(get_size(h, bp) - data >= M)
  <2>1. get_size(h, bp) = data
    BY <1>1, <1>3, NoRest
  <2> QED BY <1>3, <2>1, WholeBlock DEF sf_split
<1> QED BY <1>2, <1>3

\* place does so for a free block of a list, and for a block that is allocated.
LEMMA BlockPlaced ==
  ASSUME NEW h, NEW B, Settled(h, B), NEW bp \in B, NEW data \in Nat, data >= M,
         data % M = 0, data <= get_size(h, bp)
  PROVE  Placing(h, B, bp, data, place(h, bp, data))
<1> DEFINE k == remove_from_free_list(h, bp)
<1>1. Sound(h) /\ Tiled(h, B) /\ Flagged(h, B, bp) /\ Listing(h, Unallocated(h, B))
  BY FlaggedBut DEF Settled
<1>2. CASE get_alloc(h, bp)
  <2>1. k = h
    BY <1>2 DEF remove_from_free_list
  <2>2. Unallocated(h, B) \ {bp} = Unallocated(h, B)
    BY <1>2 DEF Unallocated
  <2>3. Taken(h, B, bp)
    BY <1>1, <2>2 DEF Taken
  <2> QED BY <2>1, <2>3, Split DEF place
<1>3. CASE ~get_alloc(h, bp)
  <2>1. bp \in Unallocated(h, B) /\ Unallocated(h, B) \subseteq B
    BY <1>3 DEF Unallocated
  <2>2. /\ Sound(k) /\ Tiled(k, B) /\ Flagged(k, B, bp) /\ k.mem = h.mem /\ k.top = h.top
        /\ Unallocated(k, B) = Unallocated(h, B) /\ Allocated(k, B) = Allocated(h, B)
        /\ Listing(k, Unallocated(h, B) \ {bp})
    BY <1>1, <1>3, <2>1, TakenOut
  <2> HIDE DEF k
  <2>3. Taken(k, B, bp)
    BY <2>2 DEF Taken
  <2>4. \A b : get_size(k, b) = get_size(h, b) /\ next_blkp(k, b) = next_blkp(h, b)
    BY <2>2 DEF get_size, header, next_blkp
  <2> DEFINE g == sf_split(k, bp, get_size(h, bp), data)
  <2>5. Placing(k, B, bp, data, g)
    <3>1. data <= get_size(k, bp) /\ get_size(k, bp) = get_size(h, bp)
      BY <2>4
    <3> QED BY <2>3, <3>1, Split
  <2>6. place(h, bp, data) = g
    BY DEF place, k
  <2> HIDE DEF g
  <2>7. Placing(h, B, bp, data, g)
    BY <2>2, <2>4, <2>5 DEF Placing, Gets, Keeps
  <2> QED BY <2>6, <2>7
<1> QED BY <1>2, <1>3

-----------------------------------------------------------------------------
(* Growing the heap *)

\* A sum with a page is a whole number of pages.
LEMMA NextMultiple ==
  ASSUME NEW d \in Nat \ {0}, NEW a \in Nat, a % d = 0
  PROVE  (a + d) % d = 0
<1>1. PICK q \in Nat : a = d * q
  <2>1. a \div d \in Nat /\ a = d * (a \div d) + (a % d)
    BY Division
  <2>2. a = d * (a \div d)
    BY <2>1
  <2> QED BY <2>1, <2>2
<1>2. a + d = d * (q + 1) /\ q + 1 \in Nat
  BY <1>1, SMTT(30)
<1>3. (d * (q + 1)) % d = 0
  BY <1>2, SMTT(30)
<1> QED BY <1>2, <1>3

\* g is h with a page more, which belongs to the wilderness bp.
Grew(h, B, bp, g) ==
    /\ Settled(g, B) /\ g.top = h.top + PAGE_SZ /\ g.lists = h.lists
    /\ get_size(g, bp) = get_size(h, bp) + PAGE_SZ
    /\ Allocated(g, B) = Allocated(h, B)
    /\ Keeps(h, g, Allocated(h, B))

\* One turn of the loop that grows the heap.
LEMMA PageAdded ==
  ASSUME NEW h, NEW B, Settled(h, B), NEW bp, HasWilderness(h), bp = Wilderness(h),
         h.top + PAGE_SZ <= MaxPages * PAGE_SZ
  PROVE  Grew(h, B, bp, Grow(h, bp))
<1> DEFINE top == h.top + PAGE_SZ
           e == h.top - 1
           x0 == sf_mem_grow(h)
           t0 == PACK(PAGE_SZ, FALSE, FALSE)
           x1 == set_header(x0, e, t0)
           size == PAGE_SZ + get_size(h, bp)
           tag == PACK(size, get_palloc(h, bp), FALSE)
           x2 == set_footer(x1, e, tag)
           x3 == set_header(x2, bp, tag)
           x4 == Scrub(x3, bp)
           x5 == [x4 EXCEPT !.lists[WildernessList] = <<bp>>]
           x6 == set_epilogue(x5)
           g == set_footer(x6, bp, header(x6, bp))
<1>1. /\ Sound(h) /\ Tiled(h, B) /\ Flagged(h, B, NULL) /\ Listing(h, Unallocated(h, B))
      /\ Unallocated(h, B) \subseteq B
  BY DEF Settled, Unallocated
<1>2. /\ bp \in Unallocated(h, B) /\ next_blkp(h, bp) = h.top - 2
      /\ h.lists[WildernessList] = <<bp>>
  BY <1>1, TheWilderness
<1>3. bp \in B /\ ~get_alloc(h, bp)
  BY <1>2 DEF Unallocated
<1>4. /\ bp \in Nat /\ get_size(h, bp) \in Nat /\ get_size(h, bp) >= 4
      /\ bp + get_size(h, bp) = h.top - 2 /\ get_palloc(h, bp) \in BOOLEAN
      /\ h.top \in Nat /\ bp + 1 \in Rows /\ PAGE_SZ \in Nat /\ PAGE_SZ >= 4
      /\ First \in Nat /\ First <= bp /\ bp < h.top - 2
      /\ header(h, bp) \in Tag
  BY <1>1, <1>2, <1>3, BlockFacts, Bounds, Unit
<1>5. /\ top \in Nat /\ e \in Nat /\ size \in Nat /\ bp + size = top - 2
      /\ MaxPages * PAGE_SZ \in Nat
      /\ \A r \in Nat : r <= top => r \in Rows
  BY <1>1, <1>4, Bounds DEF Rows
<1>6. /\ x0 \in Heaps /\ x0.top = top /\ x0.epilogue = e /\ x0.lists = h.lists
      /\ x0.mem = h.mem
  <2>1. h \in Heaps /\ h.epilogue = e
    BY <1>1 DEF Sound
  <2> QED BY <1>5, <2>1 DEF sf_mem_grow, Heaps
<1>7. t0 \in Tag /\ t0[1] = PAGE_SZ /\ t0 \in Cell
  BY <1>4, PackFacts, TagFacts
<1>8. tag \in Tag /\ tag[1] = size /\ tag[2] = get_palloc(h, bp) /\ tag[3] = FALSE
      /\ tag \in Cell
  <2> DEFINE p == get_palloc(h, bp)
  <2>1. p \in BOOLEAN
    BY <1>4
  <2> HIDE DEF p, size
  <2>2. /\ PACK(size, p, FALSE) \in Tag /\ PACK(size, p, FALSE)[1] = size
        /\ PACK(size, p, FALSE)[2] = p /\ PACK(size, p, FALSE)[3] = FALSE
    BY <1>5, <2>1, PackFacts
  <2>3. PACK(size, p, FALSE) \in Cell
    BY <2>2, TagFacts
  <2> QED BY <2>2, <2>3 DEF p
<1> HIDE DEF x0, t0, tag, top, size
<1>9. /\ x1 \in Heaps /\ Beside(x1, x0)
      /\ \A r \in Rows : x1.mem[r] = IF r = h.top THEN t0 ELSE h.mem[r]
  <2>1. e + 1 = h.top /\ h.top \in Rows
    BY <1>4, <1>5 DEF top
  <2> QED BY <1>6, <1>7, <2>1, WriteRow DEF set_header
<1>10. next_blkp(x1, e) = top - 1 /\ get_size(x1, e) = PAGE_SZ
  <2>1. header(x1, e) = t0
    <3>1. e + 1 = h.top /\ h.top \in Rows
      BY <1>4, <1>5 DEF top
    <3> QED BY <1>9, <3>1 DEF header
  <2>2. e + PAGE_SZ = top - 1
    BY <1>4 DEF top
  <2> QED BY <1>7, <2>1, <2>2 DEF next_blkp, get_size
<1> HIDE DEF x1
<1>11. /\ x2 \in Heaps /\ Beside(x2, x1)
       /\ \A r \in Rows : x2.mem[r] = IF r = top - 1 THEN tag ELSE x1.mem[r]
  <2>1. top - 1 \in Rows
    BY <1>4, <1>5 DEF top
  <2> QED BY <1>8, <1>9, <1>10, <2>1, WriteRow DEF set_footer
<1> HIDE DEF x2
<1>12. /\ x3 \in Heaps /\ Beside(x3, x2)
       /\ \A r \in Rows : x3.mem[r] = IF r = bp + 1 THEN tag ELSE x2.mem[r]
  BY <1>4, <1>8, <1>11, WriteRow DEF set_header
<1> HIDE DEF x3
<1>13. next_blkp(x3, bp) = top - 2
  <2>1. header(x3, bp) = tag
    BY <1>4, <1>12 DEF header
  <2> QED BY <1>5, <1>8, <2>1 DEF next_blkp, get_size
<1>14. /\ x4 \in Heaps /\ Beside(x4, x3)
       /\ \A r \in Rows : x4.mem[r] = IF r \in (bp + 2) .. (top - 2 - 1) THEN Junk ELSE x3.mem[r]
  BY <1>12, <1>13, ScrubRows
<1> HIDE DEF x4
<1>15. /\ x4.top = top /\ x4.epilogue = e /\ x4.lists = h.lists
       /\ \A r \in Rows : x4.mem[r] = IF r \in (bp + 2) .. (top - 3) THEN Junk
                                      ELSE IF r = bp + 1 THEN tag
                                      ELSE IF r = top - 1 THEN tag
                                      ELSE IF r = h.top THEN t0 ELSE h.mem[r]
  <2>1. top - 2 - 1 = top - 3
    BY <1>5
  <2> QED BY <1>6, <1>9, <1>11, <1>12, <1>14, <2>1 DEF Beside
<1>16. x5 = x4
  <2>1. x4.lists[WildernessList] = <<bp>>
    BY <1>2, <1>15
  <2> QED BY <1>14, <2>1 DEF Heaps
<1>17. insert_wilderness(x1, e) = x5
  <2>1. HasWilderness(x1) /\ Wilderness(x1) = bp
    <3>1. x1.lists = h.lists
      BY <1>6, <1>9 DEF Beside
    <3> QED BY <3>1 DEF HasWilderness, Wilderness
  <2>2. get_size(x1, bp) = get_size(h, bp) /\ get_palloc(x1, bp) = get_palloc(h, bp)
    <3>1. bp + 1 # h.top
      BY <1>4
    <3> QED BY <1>4, <1>9, <3>1 DEF get_size, get_palloc, header
  <2>3. e > bp
    BY <1>4
  <2>4. sf_coalesce_wilderness(x1, e) = [h |-> x4, bp |-> bp]
    <3>1. get_size(x1, e) + get_size(x1, bp) = size
      BY <1>10, <2>2 DEF size
    <3> QED BY <2>1, <2>2, <2>3, <3>1 DEF sf_coalesce_wilderness, x4, x3, x2, tag
  <2> QED BY <2>4 DEF insert_wilderness
<1> DEFINE ep == PACK(0, FALSE, TRUE)
           ef == PACK(0, FALSE, FALSE)
<1>18. ep \in Cell /\ ef \in Tag /\ ef \in Cell /\ ef[1] = 0 /\ ef[3] = FALSE
  BY PackFacts, TagFacts
<1> HIDE DEF ep, ef
<1>19. /\ x6 \in Heaps /\ x6.top = top /\ x6.epilogue = top - 1 /\ x6.lists = h.lists
       /\ \A r \in Rows : x6.mem[r] = IF r = top - 1 THEN ef ELSE IF r = top THEN ep ELSE x4.mem[r]
  <2>1. top - 1 \in Nat /\ top \in Rows /\ top - 1 \in Rows
    BY <1>4, <1>5 DEF top
  <2>2. x6 = [x4 EXCEPT !.epilogue = top - 1, !.mem[top] = ep, !.mem[top - 1] = ef]
    BY <1>15, <1>16 DEF set_epilogue, ep, ef
  <2> HIDE DEF x6
  <2> QED BY <1>14, <1>15, <1>18, <2>1, <2>2 DEF Heaps
<1> HIDE DEF x5, x6
<1>20. header(x6, bp) = tag /\ next_blkp(x6, bp) = top - 2
  <2>1. bp + 1 # top /\ bp + 1 # top - 1 /\ bp + 1 \notin (bp + 2) .. (top - 3)
    BY <1>4 DEF top
  <2>2. header(x6, bp) = tag
    BY <1>4, <1>15, <1>19, <2>1 DEF header
  <2> QED BY <1>5, <1>8, <2>2 DEF next_blkp, get_size
<1>21. /\ g \in Heaps /\ Beside(g, x6)
       /\ \A r \in Rows : g.mem[r] = IF r = top - 2 THEN tag ELSE x6.mem[r]
  <2>1. top - 2 \in Rows
    BY <1>4, <1>5 DEF top
  <2> QED BY <1>8, <1>19, <1>20, <2>1, WriteRow DEF set_footer
<1>22. Grow(h, bp) = g
  <2>1. bp # NULL
    <3>1. First >= 6
      BY Unit DEF First, prologue
    <3> QED BY <1>4, <3>1 DEF NULL
  <2>2. x0.top - x0.epilogue - 1 = PAGE_SZ
    BY <1>4, <1>6 DEF top
  <2> QED BY <1>6, <1>17, <2>1, <2>2 DEF Grow, x0, x1, t0, x6
<1> HIDE DEF g
<1>23. /\ g.top = top /\ g.epilogue = top - 1 /\ g.lists = h.lists
       /\ \A r \in Rows : g.mem[r] = IF r = top - 2 THEN tag
                                     ELSE IF r = top - 1 THEN ef
                                     ELSE IF r = top THEN ep
                                     ELSE IF r \in (bp + 2) .. (top - 3) THEN Junk
                                     ELSE IF r = bp + 1 THEN tag
                                     ELSE h.mem[r]
  <2>1. /\ g.top = top /\ g.epilogue = top - 1 /\ g.lists = h.lists
        /\ \A r \in Rows : g.mem[r] = IF r = top - 2 THEN tag
                                      ELSE IF r = top - 1 THEN ef
                                      ELSE IF r = top THEN ep
                                      ELSE x4.mem[r]
    BY <1>19, <1>21 DEF Beside
  <2>2. h.top # top - 2 /\ h.top # top - 1 /\ h.top # top /\ h.top \in (bp + 2) .. (top - 3)
        /\ top - 1 \notin (bp + 2) .. (top - 3)
        /\ bp + 1 # top - 2 /\ bp + 1 # top - 1 /\ bp + 1 # top
    BY <1>4, Unit DEF top
  <2> SUFFICES ASSUME NEW r \in Rows
               PROVE  g.mem[r] = IF r = top - 2 THEN tag
                                     ELSE IF r = top - 1 THEN ef
                                     ELSE IF r = top THEN ep
                                     ELSE IF r \in (bp + 2) .. (top - 3) THEN Junk
                                     ELSE IF r = bp + 1 THEN tag
                                     ELSE h.mem[r]
    BY <2>1
  <2>3. r = h.top => r \in (bp + 2) .. (top - 3)
    BY <2>2
  <2> QED BY <1>15, <2>1, <2>3
<1>24. \A c \in B \ {bp} : /\ c \in Nat /\ c < bp /\ next_blkp(h, c) <= bp
                           /\ next_blkp(h, c) \in Nat /\ c + 1 \in Rows
                           /\ next_blkp(h, c) \in Rows /\ c + 4 <= next_blkp(h, c)
  <2> TAKE c \in B \ {bp}
  <2>1. /\ c \in Nat /\ next_blkp(h, c) \in Nat /\ next_blkp(h, c) <= h.top - 2
        /\ c + 1 \in Rows /\ next_blkp(h, c) \in Rows /\ c + 4 <= next_blkp(h, c)
    BY <1>1, BlockFacts
  <2>2. \/ c < bp /\ next_blkp(h, c) <= bp
        \/ next_blkp(h, bp) < next_blkp(h, c)
    BY <1>1, <1>3, Apart
  <2> QED BY <1>2, <1>4, <2>1, <2>2
<1>25. \A r \in Rows : r <= bp => g.mem[r] = h.mem[r]
  <2> SUFFICES ASSUME NEW r \in Rows, r <= bp PROVE g.mem[r] = h.mem[r]
    OBVIOUS
  <2>1. r \in Nat
    BY <1>5 DEF Rows
  <2>2. /\ r # top - 2 /\ r # top - 1 /\ r # top /\ r \notin (bp + 2) .. (top - 3)
        /\ r # bp + 1
    BY <1>4, <2>1 DEF top
  <2> QED BY <1>23, <2>2
<1>26. header(g, bp) = tag /\ g.mem[top - 2] = tag /\ header(g, top - 2) = ef
  <2>1. bp + 1 # top - 2 /\ bp + 1 # top - 1 /\ bp + 1 # top /\ bp + 1 \notin (bp + 2) .. (top - 3)
        /\ top - 2 + 1 = top - 1 /\ top - 1 # top - 2 /\ top - 1 \in Rows /\ top - 2 \in Rows
    BY <1>4, <1>5 DEF top
  <2> QED BY <1>4, <1>23, <2>1 DEF header
<1>27. \A c \in B \ {bp} : header(g, c) = header(h, c)
  <2> TAKE c \in B \ {bp}
  <2>1. c + 1 <= bp
    BY <1>4, <1>24
  <2> QED BY <1>24, <1>25, <2>1 DEF header
<1>28. /\ get_size(g, bp) = size /\ get_alloc(g, bp) = FALSE
       /\ get_palloc(g, bp) = get_palloc(h, bp)
       /\ \A c \in B \ {bp} : /\ get_size(g, c) = get_size(h, c)
                              /\ get_alloc(g, c) = get_alloc(h, c)
                              /\ get_palloc(g, c) = get_palloc(h, c)
  BY <1>8, <1>26, <1>27 DEF get_size, get_alloc, get_palloc
<1>29. /\ next_blkp(g, bp) = top - 2
       /\ \A c \in B \ {bp} : next_blkp(g, c) = next_blkp(h, c)
  BY <1>5, <1>28 DEF next_blkp
<1>30. Sound(g)
  <2>1. top % PAGE_SZ = 0
    <3>1. h.top % PAGE_SZ = 0 /\ PAGE_SZ \in Nat \ {0}
      BY <1>1, <1>4 DEF Sound
    <3> QED BY <1>4, <3>1, NextMultiple DEF top
  <2>2. PAGE_SZ <= top /\ top <= MaxPages * PAGE_SZ
    BY <1>4 DEF top
  <2> QED BY <1>21, <1>23, <2>1, <2>2 DEF Sound
<1>31. Tiled(g, B)
  <2>1. First \in B /\ B \subseteq First .. (top - 3)
    <3>1. First \in B /\ \A c \in B : c \in Nat /\ First <= c /\ c < h.top - 2
      BY <1>1, BlockFacts DEF Tiled
    <3> QED BY <1>4, <3>1 DEF top
  <2>2. ASSUME NEW c \in B
        PROVE  /\ (c + 2) % M = 0
               /\ header(g, c) \in Tag /\ get_size(g, c) >= M /\ get_size(g, c) % M = 0
    <3>1. CASE c = bp
      <4>1. size >= M
        BY <1>4, Unit DEF size
      <4>2. size % M = 0
        <5>1. get_size(h, bp) % M = 0 /\ PAGE_SZ % M = 0
          BY <1>1, <1>3, BlockFacts, AllocatorAssumption
        <5> QED BY <1>4, <5>1, MultipleSum DEF size
      <4>3. (c + 2) % M = 0
        BY <1>1, BlockFacts
      <4> QED BY <1>8, <1>26, <1>28, <3>1, <4>1, <4>2, <4>3
    <3>2. CASE c # bp
      BY <1>1, <1>27, <1>28, <3>2, BlockFacts
    <3> QED BY <3>1, <3>2
  <2>3. ASSUME NEW c \in B PROVE next_blkp(g, c) \in B \cup {top - 2}
    <3>1. CASE c = bp
      BY <1>29, <3>1
    <3>2. CASE c # bp
      <4>1. next_blkp(h, c) \in B \cup {h.top - 2} /\ next_blkp(h, c) # h.top - 2
        BY <1>1, <1>4, <1>24, <3>2, BlockFacts
      <4> QED BY <1>29, <3>2, <4>1
    <3> QED BY <3>1, <3>2
  <2>4. ASSUME NEW c \in B, c # First PROVE \E d \in B : next_blkp(g, d) = c
    <3>1. PICK d \in B : next_blkp(h, d) = c
      BY <1>1, <2>4 DEF Tiled
    <3>2. d # bp
      <4>1. c # h.top - 2
        <5>1. c < h.top - 2 /\ c \in Nat
          BY <1>1, BlockFacts
        <5> QED BY <1>4, <5>1
      <4> QED BY <1>2, <3>1, <4>1
    <3> QED BY <1>29, <3>1, <3>2
  <2>5. ASSUME NEW c \in B, NEW d \in B, c < d PROVE next_blkp(g, c) <= d
    <3>1. c # bp
      BY <1>4, <1>24, <2>5
    <3>2. next_blkp(h, c) <= d
      BY <1>1, <2>5 DEF Tiled
    <3> QED BY <1>29, <3>1, <3>2
  <2>6. /\ header(g, top - 2) \in Tag /\ get_size(g, top - 2) = 0
        /\ ~get_alloc(g, top - 2)
    BY <1>18, <1>26 DEF get_size, get_alloc
  <2> QED BY <1>23, <2>1, <2>2, <2>3, <2>4, <2>5, <2>6 DEF Tiled
<1>32. Flagged(g, B, NULL)
  <2>1. get_palloc(g, First)
    BY <1>1, <1>28 DEF Flagged, Tiled
  <2>2. ASSUME NEW c \in B, c # NULL, next_blkp(g, c) # top - 2
        PROVE  get_palloc(g, next_blkp(g, c)) = get_alloc(g, c)
    <3>1. c # bp
      BY <1>29, <2>2
    <3>2. next_blkp(h, c) \in B /\ next_blkp(h, c) # h.top - 2
      BY <1>1, <1>4, <1>24, <3>1, BlockFacts
    <3>3. get_palloc(h, next_blkp(h, c)) = get_alloc(h, c)
      BY <1>1, <2>2, <3>2 DEF Flagged
    <3> QED BY <1>28, <1>29, <3>1, <3>2, <3>3
  <2>3. ASSUME NEW c \in B, ~get_alloc(g, c)
        PROVE  prev_footer(g, next_blkp(g, c)) = header(g, c)
    <3>1. CASE c = bp
      BY <1>26, <1>29, <3>1 DEF prev_footer
    <3>2. CASE c # bp
      <4>1. prev_footer(h, next_blkp(h, c)) = header(h, c)
        BY <1>1, <1>28, <2>3, <3>2 DEF Flagged
      <4> QED BY <1>24, <1>25, <1>27, <1>29, <3>2, <4>1 DEF prev_footer
    <3> QED BY <3>1, <3>2
  <2> QED BY <1>23, <2>1, <2>2, <2>3 DEF Flagged
<1>33. Allocated(g, B) = Allocated(h, B) /\ Unallocated(g, B) = Unallocated(h, B)
  BY <1>3, <1>28 DEF Allocated, Unallocated
<1>34. Listing(g, Unallocated(g, B))
  <2>1. \A c \in B : Home(g, c) = Home(h, c)
    <3> TAKE c \in B
    <3>1. CASE c = bp
      BY <1>2, <1>23, <1>29, <3>1 DEF Home
    <3>2. CASE c # bp
      <4>1. next_blkp(h, c) # h.top - 2 /\ next_blkp(g, c) # top - 2
        BY <1>4, <1>24, <1>29, <3>2 DEF top
      <4> QED BY <1>23, <1>28, <3>2, <4>1 DEF Home
    <3> QED BY <3>1, <3>2
  <2> QED BY <1>1, <1>23, <1>33, <2>1 DEF Listing
<1>35. Keeps(h, g, Allocated(h, B))
  <2> SUFFICES ASSUME NEW c \in Allocated(h, B),
                      NEW r \in (c + 2) .. (next_blkp(h, c) - 1)
               PROVE  get_size(g, c) = get_size(h, c) /\ g.mem[r] = h.mem[r]
    <3>1. \A c \in Allocated(h, B) : get_size(g, c) = get_size(h, c)
      BY <1>3, <1>28 DEF Allocated
    <3> QED BY <3>1 DEF Keeps
  <2>1. c \in B \ {bp}
    BY <1>3 DEF Allocated
  <2>2. r \in Rows /\ r <= bp
    <3>1. c \in Nat /\ next_blkp(h, c) \in Nat /\ next_blkp(h, c) <= bp
      BY <1>24, <2>1
    <3>2. r \in Nat /\ r <= bp /\ r <= top
      BY <1>4, <3>1 DEF top
    <3> QED BY <1>5, <3>2
  <2> QED BY <1>25, <1>28, <2>1, <2>2
<1>36. Grew(h, B, bp, g)
  <2>1. size = get_size(h, bp) + PAGE_SZ /\ top = h.top + PAGE_SZ
    BY <1>4 DEF size, top
  <2> QED BY <1>23, <1>28, <1>30, <1>31, <1>32, <1>33, <1>34, <1>35, <2>1 DEF Grew, Settled
<1> QED BY <1>22, <1>36

\* The heaps of the turns of the loop, one function for all of them.
Turns(h, bp, n, f) == f = [k \in 0 .. n |-> IF k = 0 THEN h ELSE Grow(f[k - 1], bp)]

\* The function of the heaps exists, and every heap of it has its pages.
LEMMA TurnsExist ==
  ASSUME NEW h, NEW bp, NEW n \in Nat
  PROVE  \E f : Turns(h, bp, n, f)
<1> DEFINE S == {k \in Nat : ~\E f : Turns(h, bp, k, f)}
<1> SUFFICES ASSUME S # {} PROVE FALSE
  OBVIOUS
<1>1. PICK m \in S : \A k \in S : m <= k
  <2>1. S \in SUBSET Nat
    OBVIOUS
  <2> HIDE DEF S
  <2> QED BY <2>1, Least
<1>2. m \in Nat
  OBVIOUS
<1>3. CASE m = 0
  <2> DEFINE f == [k \in 0 .. 0 |-> h]
  <2>1. \A k \in 0 .. 0 : k = 0
    OBVIOUS
  <2>2. f = [k \in 0 .. 0 |-> IF k = 0 THEN h ELSE Grow(f[k - 1], bp)]
    BY <2>1, Zenon
  <2>3. Turns(h, bp, m, f)
    BY <1>3, <2>2 DEF Turns
  <2> QED BY <2>3
<1>4. CASE m # 0
  <2>1. m - 1 \in Nat /\ ~(m <= m - 1)
    BY <1>2, <1>4
  <2>2. PICK f : Turns(h, bp, m - 1, f)
    BY <1>1, <2>1
  <2> DEFINE g == [k \in 0 .. m |-> IF k = m THEN Grow(f[m - 1], bp) ELSE f[k]]
  <2>3. \A k \in 0 .. m : g[k] = IF k = 0 THEN h ELSE Grow(g[k - 1], bp)
    <3> TAKE k \in 0 .. m
    <3>1. CASE k = 0
      <4>1. g[k] = f[0] /\ 0 \in 0 .. (m - 1)
        BY <1>4, <2>1, <3>1
      <4>2. f[0] = h
        BY <2>2, <4>1 DEF Turns
      <4> QED BY <3>1, <4>1, <4>2
    <3>2. CASE k = m
      <4>1. g[k] = Grow(f[m - 1], bp) /\ m - 1 \in 0 .. m /\ m - 1 # m
        BY <1>2, <1>4, <2>1, <3>2
      <4>2. g[m - 1] = f[m - 1]
        BY <4>1
      <4> HIDE DEF g
      <4> QED BY <1>4, <3>2, <4>1, <4>2
    <3>3. CASE k # 0 /\ k # m
      <4>1. k \in 0 .. (m - 1) /\ k - 1 \in 0 .. m /\ k - 1 # m
        BY <1>2, <3>3
      <4>2. g[k] = f[k] /\ g[k - 1] = f[k - 1]
        BY <3>3, <4>1
      <4>3. f[k] = Grow(f[k - 1], bp)
        BY <2>2, <3>3, <4>1 DEF Turns
      <4> HIDE DEF g
      <4> QED BY <3>3, <4>2, <4>3
    <3> QED BY <3>1, <3>2, <3>3
  <2>4. g = [k \in 0 .. m |-> g[k]]
    OBVIOUS
  <2> HIDE DEF g
  <2>5. g = [k \in 0 .. m |-> IF k = 0 THEN h ELSE Grow(g[k - 1], bp)]
    BY <2>3, <2>4
  <2> QED BY <2>5 DEF Turns
<1> QED BY <1>3, <1>4

\* Grown adds pages until the wilderness is large enough or there are no more.
LEMMA HeapGrown ==
  ASSUME NEW h, NEW B, Settled(h, B), HasWilderness(h), NEW asize \in Nat
  PROVE  LET r == Grown(h, asize)
             bp == Wilderness(h)
         IN  /\ Settled(r.h, B) /\ Allocated(r.h, B) = Allocated(h, B)
             /\ Keeps(h, r.h, Allocated(h, B))
             /\ bp \in Unallocated(h, B)
             /\ r.enough => asize <= get_size(r.h, bp)
<1> DEFINE bp == IF HasWilderness(h) THEN Wilderness(h) ELSE NULL
           after[k \in 0 .. MaxPages] == IF k = 0 THEN h ELSE Grow(after[k - 1], bp)
           room == MaxPages - (h.top \div PAGE_SZ)
           Enough(x) == bp # NULL /\ get_size(x, bp) >= asize
           T == {k \in 0 .. room : Enough(after[k]) \/ k = room}
           Stops(k) == /\ Enough(after[k]) \/ k = room
                      /\ \A j \in 0 .. (k - 1) : ~Enough(after[j])
           stop == CHOOSE k \in 0 .. room : Stops(k)
<1>1. Grown(h, asize) = [h |-> after[stop], enough |-> Enough(after[stop])]
  BY DEF Grown
<1>2. Turns(h, bp, MaxPages, after)
  <2>1. after = CHOOSE f : Turns(h, bp, MaxPages, f)
    BY DEF Turns
  <2>2. MaxPages \in Nat
    BY AllocatorAssumption
  <2> HIDE DEF after, bp
  <2>3. \E f : Turns(h, bp, MaxPages, f)
    BY <2>2, TurnsExist
  <2> QED BY <2>1, <2>3, Zenon
<1> HIDE DEF after
<1>3. bp = Wilderness(h)
  OBVIOUS
<1> HIDE DEF bp
<1>4. bp \in Unallocated(h, B) /\ Sound(h)
  <2>1. Unallocated(h, B) \subseteq B
    BY DEF Unallocated
  <2> QED BY <1>3, <2>1, TheWilderness DEF Settled
<1>5. PICK q \in Nat : h.top = PAGE_SZ * q
  <2>1. h.top \in Nat /\ h.top % PAGE_SZ = 0 /\ PAGE_SZ \in Nat \ {0}
    BY <1>4, Bounds, Unit DEF Sound
  <2>2. h.top \div PAGE_SZ \in Nat /\ h.top = PAGE_SZ * (h.top \div PAGE_SZ) + (h.top % PAGE_SZ)
    BY <2>1, Division
  <2>3. PAGE_SZ * (h.top \div PAGE_SZ) \in Nat
    BY <2>1, <2>2, SMTT(30)
  <2>4. h.top = PAGE_SZ * (h.top \div PAGE_SZ)
    BY <2>1, <2>2, <2>3
  <2> QED BY <2>2, <2>4, Zenon
<1>6. h.top \div PAGE_SZ = q /\ MaxPages \in Nat /\ PAGE_SZ \in Nat \ {0}
  <2>1. MaxPages \in Nat /\ PAGE_SZ \in Nat \ {0}
    BY AllocatorAssumption, Unit
  <2>2. (PAGE_SZ * q) \div PAGE_SZ = q
    BY <2>1, SMTT(30)
  <2> QED BY <1>5, <2>1, <2>2
<1>7. q <= MaxPages
  <2>1. SUFFICES ASSUME q >= MaxPages + 1 PROVE FALSE
    BY <1>6
  <2>2. PAGE_SZ * q >= PAGE_SZ * (MaxPages + 1)
    BY <1>6, <2>1, SMTT(30)
  <2>3. PAGE_SZ * (MaxPages + 1) = MaxPages * PAGE_SZ + PAGE_SZ
    BY <1>6, SMTT(30)
  <2>4. h.top <= MaxPages * PAGE_SZ /\ MaxPages * PAGE_SZ \in Nat
    BY <1>4, Bounds
  <2> QED BY <1>5, <1>6, <2>2, <2>3, <2>4
<1>8. room = MaxPages - q /\ room \in Nat /\ room <= MaxPages
  BY <1>6, <1>7
<1> HIDE DEF room
<1> DEFINE Good(x, k) == /\ Settled(x, B) /\ x.top = PAGE_SZ * (q + k) /\ x.lists = h.lists
                         /\ Allocated(x, B) = Allocated(h, B)
                         /\ Keeps(h, x, Allocated(h, B))
           Bad == {k \in 0 .. room : ~Good(after[k], k)}
<1>9. \A k \in 0 .. room : Good(after[k], k)
  <2> SUFFICES ASSUME Bad # {} PROVE FALSE
    OBVIOUS
  <2>1. PICK m \in Bad : \A k \in Bad : m <= k
    <3>1. Bad \in SUBSET Nat
      BY <1>8
    <3> HIDE DEF Bad
    <3> QED BY <3>1, Least
  <2>2. m \in 0 .. room /\ m \in 0 .. MaxPages /\ ~Good(after[m], m)
    <3>1. m \in 0 .. room /\ ~Good(after[m], m)
      <4> HIDE DEF Good
      <4> QED OBVIOUS
    <3>2. m \in 0 .. MaxPages
      BY <1>6, <1>8, <3>1
    <3> QED BY <3>1, <3>2
  <2>3. CASE m = 0
    <3>1. after[0] = h
      BY <1>2, <2>2, <2>3 DEF Turns
    <3>2. Good(h, 0)
      <4>1. Keeps(h, h, Allocated(h, B))
        BY DEF Keeps
      <4>2. h.top = PAGE_SZ * (q + 0)
        BY <1>5
      <4> QED BY <4>1, <4>2
    <3> HIDE DEF Good
    <3> QED BY <2>2, <2>3, <3>1, <3>2
  <2>4. CASE m # 0
    <3> DEFINE x == after[m - 1]
    <3>1. m - 1 \in 0 .. room /\ ~(m <= m - 1)
      BY <1>8, <2>2, <2>4
    <3>2. Good(x, m - 1)
      <4> HIDE DEF Good
      <4> QED BY <2>1, <3>1
    <3>3. after[m] = Grow(x, bp)
      BY <1>2, <2>2, <2>4 DEF Turns
    <3> HIDE DEF x
    <3>4. HasWilderness(x) /\ Wilderness(x) = bp
      BY <1>3, <3>2 DEF HasWilderness, Wilderness
    <3>5. q + m <= MaxPages /\ q + (m - 1) \in Nat /\ (q + (m - 1)) + 1 = q + m
      <4>1. m \in Nat /\ m <= room
        BY <1>8, <2>2
      <4> QED BY <1>6, <1>8, <2>4, <4>1
    <3>6. PAGE_SZ * (q + (m - 1)) + PAGE_SZ = PAGE_SZ * (q + m)
      BY <1>6, <3>5, SMTT(30)
    <3>7. PAGE_SZ * (q + m) <= MaxPages * PAGE_SZ
      BY <1>6, <3>5, SMTT(30)
    <3>8. x.top + PAGE_SZ = PAGE_SZ * (q + m) /\ x.top + PAGE_SZ <= MaxPages * PAGE_SZ
      BY <3>2, <3>6, <3>7
    <3> DEFINE y == Grow(x, bp)
    <3>9. Grew(x, B, bp, y)
      BY <3>2, <3>4, <3>8, PageAdded
    <3> HIDE DEF y
    <3>10. Keeps(h, y, Allocated(h, B))
      BY <3>2, <3>9 DEF Grew, Keeps, next_blkp
    <3>11. Good(y, m)
      BY <3>2, <3>8, <3>9, <3>10 DEF Grew
    <3> QED BY <2>2, <3>3, <3>11 DEF y
  <2> QED BY <2>3, <2>4
<1>10. stop \in 0 .. room
  <2>1. PICK m \in T : \A k \in T : m <= k
    <3>1. T \in SUBSET Nat
      BY <1>8
    <3>2. room \in T
      BY <1>8
    <3> HIDE DEF T
    <3> QED BY <3>1, <3>2, Least
  <2>2. m \in 0 .. room /\ (Enough(after[m]) \/ m = room)
    OBVIOUS
  <2>3. ASSUME NEW j \in 0 .. (m - 1) PROVE ~Enough(after[j])
    <3>1. j \in 0 .. room /\ ~(m <= j)
      BY <1>8, <2>2
    <3> QED BY <2>1, <3>1
  <2>4. \E k \in 0 .. room : Stops(k)
    BY <2>2, <2>3
  <2> HIDE DEF Stops
  <2> QED BY <2>4
<1> HIDE DEF stop
<1>11. /\ Settled(after[stop], B) /\ Allocated(after[stop], B) = Allocated(h, B)
       /\ Keeps(h, after[stop], Allocated(h, B))
  BY <1>9, <1>10
<1>12. Enough(after[stop]) => asize <= get_size(after[stop], bp)
  <2> SUFFICES ASSUME Enough(after[stop]) PROVE asize <= get_size(after[stop], bp)
    OBVIOUS
  <2>1. get_size(after[stop], bp) \in Nat
    BY <1>4, <1>11, BlockFacts DEF Settled, Unallocated
  <2> QED BY <2>1
<1> HIDE DEF Enough
<1> QED BY <1>1, <1>3, <1>4, <1>11, <1>12

-----------------------------------------------------------------------------
(* The first page *)

\* The heap before the first call of sf_malloc.
Fresh(h) == /\ h \in Heaps /\ h.top = 0
            /\ \A i \in 0 .. WildernessList : h.lists[i] = <<>>

\* initialize_heap makes one free block of the page behind the prologue.
LEMMA HeapInitialized ==
  ASSUME NEW h, Fresh(h)
  PROVE  LET g == initialize_heap(sf_mem_grow(h))
         IN  Settled(g, {First}) /\ Allocated(g, {First}) = {}
<1> DEFINE w == prologue + M
           x0 == sf_mem_grow(h)
           t0 == PACK(M, TRUE, TRUE)
           x1 == SetTags(x0, prologue, t0)
           x2 == set_epilogue(x1)
           size == x2.epilogue - w - 1
           x3 == SetFree(x2, w, size, TRUE)
           g == [x3 EXCEPT !.lists[WildernessList] = <<w>>]
           top == PAGE_SZ
           tag == PACK(size, TRUE, FALSE)
           ep == PACK(0, FALSE, TRUE)
           ef == PACK(0, FALSE, FALSE)
<1>1. /\ top \in Nat /\ top >= 3 * M /\ M \in Nat /\ M >= 4 /\ prologue = M - 2
      /\ w = 2 * M - 2 /\ w = First
  BY Unit DEF prologue, First
<1>2. /\ \A r \in Nat : r <= top => r \in Rows
      /\ top <= MaxPages * PAGE_SZ /\ MaxPages * PAGE_SZ \in Nat
  <2>1. PAGE_SZ <= MaxPages * PAGE_SZ /\ MaxPages * PAGE_SZ \in Nat
    BY AllocatorAssumption, SMTT(30)
  <2> QED BY <1>1, <2>1 DEF Rows
<1>3. /\ x0 \in Heaps /\ x0.top = top /\ x0.lists = h.lists
  <2>1. h \in Heaps /\ h.top = 0
    BY DEF Fresh
  <2>2. h.top + PAGE_SZ = top
    BY <1>1, <2>1
  <2> QED BY <1>1, <2>1, <2>2 DEF sf_mem_grow, Heaps
<1>4. t0 \in Tag /\ t0[1] = M
  BY <1>1, PackFacts
<1> HIDE DEF x0, t0
<1>5. /\ x1 \in Heaps /\ x1.top = top /\ x1.lists = h.lists
  <2>1. prologue \in Nat /\ prologue + 1 \in Rows /\ prologue + t0[1] \in Rows
    BY <1>1, <1>2, <1>4
  <2> QED BY <1>3, <1>4, <2>1, TagsSet DEF Beside
<1>6. ep \in Cell /\ ef \in Tag /\ ef \in Cell /\ ef[1] = 0 /\ ef[3] = FALSE
  BY PackFacts, TagFacts
<1> HIDE DEF x1, ep, ef
<1>7. /\ x2 \in Heaps /\ x2.top = top /\ x2.epilogue = top - 1 /\ x2.lists = h.lists
      /\ x2.mem[top - 1] = ef
  <2>1. top - 1 \in Nat /\ top \in Rows /\ top - 1 \in Rows
    BY <1>1, <1>2
  <2>2. x2 = [x1 EXCEPT !.epilogue = top - 1, !.mem[top] = ep, !.mem[top - 1] = ef]
    BY <1>5 DEF set_epilogue, ep, ef
  <2> HIDE DEF x2
  <2> QED BY <1>5, <1>6, <2>1, <2>2 DEF Heaps
<1> HIDE DEF x2
<1>8. size = top - 2 * M /\ size \in Nat /\ size >= M /\ w + size = top - 2
  BY <1>1, <1>7
<1> HIDE DEF size
<1>9. Freed(x2, x3, w, size, TRUE) /\ x3.lists = h.lists
  <2>1. w \in Nat /\ size > 1 /\ w + size \in Rows /\ TRUE \in BOOLEAN
    BY <1>1, <1>2, <1>8
  <2> HIDE DEF w
  <2> QED BY <1>7, <1>8, <2>1, FreeSet
<1> HIDE DEF x3
<1>10. /\ x3 \in Heaps /\ x3.top = top /\ x3.epilogue = top - 1 /\ x3.lists = h.lists
       /\ x3.mem[w + 1] = tag /\ x3.mem[w + size] = tag /\ x3.mem[top - 1] = ef
  <2>1. w + 1 \in Rows /\ w + size \in Rows /\ top - 1 \in Rows /\ top - 1 \notin {w + 1, w + size}
        /\ top - 1 \notin (w + 2) .. (w + size - 1)
    BY <1>1, <1>2, <1>8
  <2> HIDE DEF w
  <2> QED BY <1>7, <1>9, <2>1 DEF Freed
<1>11. initialize_heap(sf_mem_grow(h)) = g
  <2>1. ~HasWilderness(x3)
    BY <1>10 DEF HasWilderness, Fresh, WildernessList, NUM_FREE_LISTS
  <2>2. sf_coalesce_wilderness(x3, w) = [h |-> x3, bp |-> w]
    BY <2>1 DEF sf_coalesce_wilderness
  <2>3. insert_wilderness(x3, w) = g
    BY <2>2 DEF insert_wilderness
  <2> QED BY <2>3 DEF initialize_heap, x3, x2, x1, x0, t0, size
<1>12. /\ g \in Heaps /\ g.top = top /\ g.epilogue = top - 1 /\ g.mem = x3.mem
       /\ g.lists = [h.lists EXCEPT ![WildernessList] = <<w>>]
  <2>1. <<w>> \in Seq(Nat) /\ WildernessList \in 0 .. WildernessList
    BY <1>1 DEF WildernessList, NUM_FREE_LISTS
  <2> HIDE DEF w
  <2> QED BY <1>10, <2>1 DEF Heaps
<1> HIDE DEF g
<1>13. tag \in Tag /\ tag[1] = size /\ tag[2] = TRUE /\ tag[3] = FALSE
  BY <1>8, PackFacts
<1> HIDE DEF tag
<1>14. /\ header(g, First) = tag /\ header(g, top - 2) = ef
       /\ get_size(g, First) = size /\ get_alloc(g, First) = FALSE
       /\ get_palloc(g, First) = TRUE /\ next_blkp(g, First) = top - 2
       /\ get_size(g, top - 2) = 0 /\ get_alloc(g, top - 2) = FALSE
       /\ prev_footer(g, top - 2) = tag
  <2>1. top - 2 + 1 = top - 1
    BY <1>1
  <2>2. header(g, First) = tag /\ header(g, top - 2) = ef /\ prev_footer(g, top - 2) = tag
    BY <1>1, <1>8, <1>10, <1>12, <2>1 DEF header, prev_footer
  <2> QED BY <1>1, <1>6, <1>8, <1>13, <2>2
          DEF get_size, get_alloc, get_palloc, next_blkp
<1>15. Sound(g)
  <2>1. PAGE_SZ % PAGE_SZ = 0
    BY <1>1
  <2>2. g.top = PAGE_SZ /\ g.epilogue = g.top - 1 /\ g \in Heaps
    BY <1>12
  <2>3. PAGE_SZ <= MaxPages * PAGE_SZ /\ PAGE_SZ <= PAGE_SZ
    BY <1>1, <1>2
  <2> QED BY <2>1, <2>2, <2>3 DEF Sound
<1>16. Tiled(g, {First})
  <2>1. (First + 2) % M = 0 /\ size % M = 0
    <3>1. First + 2 = M * 2
      BY <1>1
    <3>2. (First + 2) % M = 0
      BY <1>1, <3>1, Multiple
    <3>3. (M * 2) % M = 0 /\ M * 2 < top /\ M * 2 \in Nat
      BY <1>1, <3>1, <3>2
    <3>4. top % M = 0
      BY AllocatorAssumption
    <3>5. (top - M * 2) % M = 0
      BY <1>1, <3>3, <3>4, MultipleDifference
    <3> QED BY <1>1, <1>8, <3>2, <3>5
  <2>2. First \in First .. (top - 3)
    BY <1>1
  <2> QED BY <1>1, <1>6, <1>8, <1>12, <1>13, <1>14, <2>1, <2>2 DEF Tiled
<1>17. Flagged(g, {First}, NULL)
  BY <1>12, <1>14 DEF Flagged
<1>18. Unallocated(g, {First}) = {First} /\ Allocated(g, {First}) = {}
  BY <1>14 DEF Unallocated, Allocated
<1>19. Listing(g, {First})
  <2>1. Home(g, First) = WildernessList
    BY <1>12, <1>14 DEF Home
  <2>2. WildernessList \in 0 .. WildernessList /\ h.lists \in [0 .. WildernessList -> Seq(Nat)]
    BY DEF WildernessList, NUM_FREE_LISTS, Fresh, Heaps
  <2>3. /\ g.lists[WildernessList] = <<First>>
        /\ \A i \in 0 .. WildernessList : i # WildernessList => g.lists[i] = <<>>
    BY <1>1, <1>12, <2>2 DEF Fresh
  <2> DEFINE one == <<First>>
  <2>4. Len(one) = 1 /\ one[1] = First /\ Len(<<>>) = 0 /\ (\A k \in 1 .. 1 : k = 1)
        /\ (\A k \in 1 .. 0 : FALSE)
    OBVIOUS
  <2> HIDE DEF one
  <2>5. ASSUME NEW i \in 0 .. WildernessList, NEW k \in 1 .. Len(g.lists[i])
        PROVE  i = WildernessList /\ k = 1 /\ g.lists[i] = one
    BY <2>3, <2>4 DEF one
  <2>6. \A i \in 0 .. WildernessList : \A k \in 1 .. Len(g.lists[i]) :
          /\ g.lists[i][k] \in {First}
          /\ Home(g, g.lists[i][k]) = i
          /\ \A l \in 1 .. Len(g.lists[i]) : g.lists[i][l] = g.lists[i][k] => l = k
    BY <2>1, <2>4, <2>5
  <2>7. 1 \in 1 .. Len(g.lists[WildernessList]) /\ g.lists[WildernessList][1] = First
    BY <2>3, <2>4 DEF one
  <2> QED BY <2>1, <2>2, <2>6, <2>7 DEF Listing
<1> QED BY <1>11, <1>15, <1>16, <1>17, <1>18, <1>19 DEF Settled

\* The heap is in order when sf_malloc starts its search.
LEMMA HeapReady ==
  ASSUME NEW h, NEW B, (Fresh(h) /\ B = {First}) \/ Settled(h, B)
  PROVE  /\ Settled(Ready(h), B)
         /\ Fresh(h) => Allocated(Ready(h), B) = {}
         /\ ~Fresh(h) => Ready(h) = h
<1>1. CASE Fresh(h) /\ B = {First}
  BY <1>1, HeapInitialized DEF Ready, Fresh
<1>2. CASE Settled(h, B)
  <2>1. h.top # 0
    BY <1>2, Bounds, Unit DEF Settled
  <2> QED BY <1>2, <2>1 DEF Ready, Fresh
<1> QED BY <1>1, <1>2

-----------------------------------------------------------------------------
(* sf_malloc *)

\* What is in a list is a free block of its class, and every such block is in it.
LEMMA Listed ==
  ASSUME NEW h, NEW B, Settled(h, B)
  PROVE  /\ \A i \in 0 .. WildernessList :
               DOMAIN h.lists[i] = 1 .. Len(h.lists[i]) /\ Len(h.lists[i]) \in Nat
         /\ \A i \in 0 .. WildernessList : \A k \in 1 .. Len(h.lists[i]) :
               h.lists[i][k] \in Unallocated(h, B) /\ Home(h, h.lists[i][k]) = i
         /\ \A b \in Unallocated(h, B) :
               /\ Home(h, b) \in 0 .. WildernessList
               /\ \E k \in 1 .. Len(h.lists[Home(h, b)]) : h.lists[Home(h, b)][k] = b
<1>1. Listing(h, Unallocated(h, B)) /\ h \in Heaps
  BY DEF Settled, Sound
<1>2. \A i \in 0 .. WildernessList : h.lists[i] \in Seq(Nat)
  BY <1>1 DEF Heaps
<1> QED BY <1>1, <1>2 DEF Listing

\* find_fit takes a free block that is large enough, and finds one if there is one.
LEMMA FitFound ==
  ASSUME NEW h, NEW B, Settled(h, B), NEW asize \in Nat, asize >= M
  PROVE  /\ find_fit(h, asize) # NULL =>
               /\ find_fit(h, asize) \in Unallocated(h, B)
               /\ asize <= get_size(h, find_fit(h, asize))
         /\ (\E b \in Unallocated(h, B) : asize <= get_size(h, b)) => find_fit(h, asize) # NULL
<1> DEFINE c == get_class_size(asize)
           Is == Classes(h, asize)
           i == Min(Is)
           Ks == Fitting(h, asize, i)
           k == Min(Ks)
<1>1. Sound(h) /\ Tiled(h, B) /\ Unallocated(h, B) \subseteq B /\ WildernessList = 9
      /\ NUM_FREE_LISTS - 1 = 9
  BY DEF Settled, Unallocated, WildernessList, NUM_FREE_LISTS
<1>2. c \in 0 .. 8 /\ c .. 9 \subseteq Nat /\ c .. 9 \subseteq 0 .. 9
  <2>1. c \in 0 .. (NUM_FREE_LISTS - 2)
    BY Unit, ClassesAreOrdered
  <2>2. c \in 0 .. 8
    BY <2>1 DEF NUM_FREE_LISTS
  <2> HIDE DEF c
  <2> QED BY <2>2
<1>3. Is = {j \in c .. 9 : Fitting(h, asize, j) # {}}
  BY <1>1 DEF Classes
<1>4. ASSUME Is # {} PROVE i \in Is
  <2>1. Is \in SUBSET Nat
    BY <1>2, <1>3
  <2> HIDE DEF Is
  <2>2. \E m \in Is : \A n \in Is : m <= n
    BY <1>4, <2>1, Least
  <2> QED BY <2>2 DEF Min
<1> HIDE DEF i
<1>5. ASSUME Is # {} PROVE k \in Ks /\ i \in 0 .. 9
  <2>1. Ks # {} /\ i \in 0 .. 9
    BY <1>2, <1>3, <1>4, <1>5
  <2>2. DOMAIN h.lists[i] \subseteq Nat
    <3>1. DOMAIN h.lists[i] = 1 .. Len(h.lists[i]) /\ Len(h.lists[i]) \in Nat
      BY <1>1, <2>1, Listed
    <3> DEFINE n == Len(h.lists[i])
    <3>2. n \in Nat
      BY <3>1
    <3> HIDE DEF n
    <3>3. 1 .. n \subseteq Nat
      BY <3>2
    <3> QED BY <3>1, <3>3 DEF n
  <2>3. Ks \in SUBSET Nat
    BY <2>2 DEF Fitting
  <2> HIDE DEF Ks
  <2>4. \E m \in Ks : \A n \in Ks : m <= n
    BY <2>1, <2>3, Least
  <2> QED BY <2>1, <2>4 DEF Min
<1>6. find_fit(h, asize) = IF Is = {} THEN NULL ELSE h.lists[i][k]
  BY DEF find_fit, i
<1> HIDE DEF k
<1>7. ASSUME Is # {} PROVE /\ h.lists[i][k] \in Unallocated(h, B)
                           /\ asize <= get_size(h, h.lists[i][k])
  <2>1. k \in DOMAIN h.lists[i] /\ Fits(h, asize, h.lists[i][k])
    BY <1>5, <1>7 DEF Fitting
  <2>2. k \in 1 .. Len(h.lists[i])
    BY <1>1, <1>5, <1>7, <2>1, Listed
  <2> QED BY <1>1, <1>5, <1>7, <2>1, <2>2, Listed DEF Fits
<1>8. ASSUME Is # {} PROVE h.lists[i][k] # NULL
  <2>1. \A b \in B : b \in Nat /\ First <= b /\ First \in Nat /\ First >= 6
    BY <1>1, BlockFacts, Bounds, Unit
  <2>2. h.lists[i][k] \in B
    BY <1>1, <1>7, <1>8
  <2> QED BY <2>1, <2>2 DEF NULL
<1>9. ASSUME NEW b \in Unallocated(h, B), asize <= get_size(h, b) PROVE Is # {}
  <2> DEFINE j == Home(h, b)
  <2>1. PICK l \in 1 .. Len(h.lists[j]) : h.lists[j][l] = b
    BY Listed
  <2>2. /\ j \in 0 .. 9 /\ get_size(h, b) \in Nat /\ DOMAIN h.lists[j] = 1 .. Len(h.lists[j])
    BY <1>1, Listed, BlockFacts
  <2>3. c <= j
    <3>1. CASE next_blkp(h, b) = h.top - 2
      BY <1>1, <1>2, <3>1 DEF Home
    <3>2. CASE next_blkp(h, b) # h.top - 2
      <4>1. j = get_class_size(get_size(h, b))
        BY <3>2 DEF Home
      <4> QED BY <1>9, <2>2, <4>1, Unit, ClassesAreOrdered
    <3> QED BY <3>1, <3>2
  <2>4. l \in Fitting(h, asize, j)
    BY <1>9, <2>1, <2>2 DEF Fitting, Fits, Unallocated
  <2>5. j \in c .. 9
    BY <1>2, <2>2, <2>3
  <2> QED BY <1>3, <2>4, <2>5
<1> HIDE DEF Is
<1> QED BY <1>6, <1>7, <1>8, <1>9

\* The size of the block for a region of size rows.
LEMMA BlockSizes ==
  ASSUME NEW size \in Nat
  PROVE  /\ BlockSize(size) \in Nat /\ BlockSize(size) >= M /\ BlockSize(size) % M = 0
         /\ size + 1 <= BlockSize(size) /\ BlockSize(size) < size + 1 + M
<1>1. /\ BlockSize(size) % M = 0 /\ size + 1 <= BlockSize(size)
      /\ BlockSize(size) - M < size + 1
  BY BlockSizeIsLeast
<1>2. BlockSize(size) \in Nat
  <2> DEFINE k == (size + 1 + M - 1) \div M
  <2>1. k \in Nat
    <3>1. size + 1 + M - 1 \in Nat
      BY Unit
    <3> QED BY <3>1, Unit, Division
  <2> HIDE DEF k
  <2>2. M * k \in Nat
    BY <2>1, Unit, SMTT(30)
  <2> QED BY <2>2 DEF BlockSize, k
<1>3. BlockSize(size) >= M
  <2>1. 0 % M = 0 /\ 0 \in Nat /\ 0 < BlockSize(size)
    BY <1>1, <1>2, Unit
  <2>2. BlockSize(size) - 0 >= M
    BY <1>1, <1>2, <2>1, MultipleDifference
  <2> QED BY <1>2, <2>2, Unit
<1>4. BlockSize(size) < size + 1 + M
  BY <1>1, <1>2, Unit
<1> QED BY <1>1, <1>2, <1>3, <1>4

\* What sf_malloc returns: NULL, or the payload of a block that was free.
Serving(h, B, data, res) ==
    \/ res.p = NULL /\ Gets(h, res.h, Allocated(h, B), Allocated(h, B))
    \/ \E bp \in Nat \ Allocated(h, B) :
          /\ bp # 0 /\ res.p = bp + 2
          /\ Gets(h, res.h, Allocated(h, B) \cup {bp}, Allocated(h, B))
          /\ get_size(res.h, bp) = data

\* A free block is not one of the allocated blocks.
LEMMA NotAllocated ==
  ASSUME NEW h, NEW B, Settled(h, B), NEW bp \in Unallocated(h, B)
  PROVE  bp \in Nat \ Allocated(h, B) /\ bp # 0
<1>1. bp \in B /\ bp \notin Allocated(h, B)
  BY DEF Unallocated, Allocated
<1>2. bp \in Nat /\ First <= bp /\ First >= 6 /\ First \in Nat
  BY <1>1, BlockFacts, Bounds, Unit DEF Settled
<1> QED BY <1>1, <1>2

\* A free block that is large enough serves a request.
LEMMA FreePlaced ==
  ASSUME NEW h, NEW B, Settled(h, B), NEW bp \in Unallocated(h, B), NEW data \in Nat,
         data >= M, data % M = 0, data <= get_size(h, bp)
  PROVE  Serving(h, B, data, Placed(h, bp, data))
<1> DEFINE g == place(h, bp, data)
<1>1. bp \in B /\ Allocated(h, B) \ {bp} = Allocated(h, B)
  BY DEF Unallocated, Allocated
<1> bp \in Nat \ Allocated(h, B) /\ bp # 0
  BY NotAllocated
<1>2. Placing(h, B, bp, data, g)
  BY <1>1, BlockPlaced
<1> HIDE DEF g
<1>3. /\ Gets(h, g, Allocated(h, B) \cup {bp}, Allocated(h, B))
      /\ get_size(g, bp) = data
  BY <1>1, <1>2 DEF Placing
<1> DEFINE res == Placed(h, bp, data)
<1>4. res.h = g /\ res.p = bp + 2
  BY DEF Placed, g
<1> HIDE DEF res
<1>5. Serving(h, B, data, res)
  BY <1>3, <1>4 DEF Serving
<1> QED BY <1>5 DEF res

\* What sf_malloc returns, unless it must grow a heap that has no wilderness.
LEMMA Malloced ==
  ASSUME NEW h0, NEW h, h = Ready(h0), NEW B, Settled(h, B), NEW size \in Nat,
         find_fit(h, BlockSize(size)) # NULL \/ HasWilderness(h)
  PROVE  /\ Serving(h, B, BlockSize(size), sf_malloc(h0, size))
         /\ size = 0 => sf_malloc(h0, size).p = NULL
<1> DEFINE asize == BlockSize(size)
           bp == find_fit(h, asize)
           A == Allocated(h, B)
           res == sf_malloc(h0, size)
<1>1. asize \in Nat /\ asize >= M /\ asize % M = 0
  BY BlockSizes
<1>2. Keeps(h, h, A)
  BY DEF Keeps
<1>3. CASE size = 0
  <2>1. res = Failed(h)
    BY <1>3 DEF sf_malloc
  <2>2. res.p = NULL /\ res.h = h
    BY <2>1 DEF Failed
  <2> HIDE DEF res, A
  <2>3. Gets(h, h, A, A)
    BY <1>2 DEF Gets, A
  <2> QED BY <2>2, <2>3 DEF Serving, A, res
<1>4. CASE size # 0 /\ bp # NULL
  <2>1. bp \in Unallocated(h, B) /\ asize <= get_size(h, bp)
    <3> HIDE DEF asize
    <3> QED BY <1>1, <1>4, FitFound
  <2>2. res = Placed(h, bp, asize)
    BY <1>4 DEF sf_malloc
  <2> HIDE DEF bp, asize, res
  <2>3. Serving(h, B, asize, Placed(h, bp, asize))
    BY <1>1, <2>1, FreePlaced
  <2> QED BY <1>4, <2>2, <2>3 DEF asize, res
<1>5. CASE size # 0 /\ bp = NULL
  <2> DEFINE x == Grown(h, asize)
             w == Wilderness(h)
  <2>1. HasWilderness(h)
    BY <1>5
  <2>2. res = IF x.enough THEN Placed(x.h, w, asize) ELSE Failed(x.h)
    BY <1>5 DEF sf_malloc
  <2> HIDE DEF asize, res
  <2>3. /\ Settled(x.h, B) /\ Allocated(x.h, B) = A
        /\ Keeps(h, x.h, A)
        /\ w \in Unallocated(h, B)
        /\ x.enough => asize <= get_size(x.h, w)
    BY <1>1, <2>1, HeapGrown
  <2> HIDE DEF x, w, bp
  <2>4. CASE ~x.enough
    <3>1. res.p = NULL /\ res.h = x.h
      BY <2>2, <2>4 DEF Failed
    <3>2. Gets(h, x.h, A, A)
      BY <2>3 DEF Gets
    <3> HIDE DEF A
    <3>3. Serving(h, B, asize, res)
      BY <3>1, <3>2 DEF Serving, A
    <3> QED BY <1>5, <3>3 DEF asize, res
  <2>5. CASE x.enough
    <3> DEFINE y == x.h
    <3>1. w \in Unallocated(y, B)
      BY <2>3 DEF Unallocated, Allocated
    <3>2. res = Placed(y, w, asize)
      BY <2>2, <2>5
    <3>3. Settled(y, B) /\ Allocated(y, B) = A /\ Keeps(h, y, A) /\ asize <= get_size(y, w)
      BY <2>3, <2>5
    <3> HIDE DEF y
    <3>4. Placing(y, B, w, asize, place(y, w, asize))
      <4>1. w \in B
        BY <3>1 DEF Unallocated
      <4> QED BY <1>1, <3>3, <4>1, BlockPlaced
    <3> DEFINE g == place(y, w, asize)
    <3>5. res.p = w + 2 /\ res.h = g
      BY <3>2 DEF Placed
    <3> HIDE DEF g, A
    <3>6. A \ {w} = A
      BY <2>3 DEF Unallocated, Allocated, A
    <3>7. Gets(y, g, A \cup {w}, A) /\ get_size(g, w) = asize
      BY <3>3, <3>4, <3>6 DEF Placing, g
    <3>8. Gets(h, g, A \cup {w}, A)
      BY <3>3, <3>7 DEF Gets, Keeps, next_blkp
    <3>10. w \in Nat \ Allocated(h, B) /\ w # 0
      BY <2>3, NotAllocated
    <3>9. Serving(h, B, asize, res)
      BY <3>10, <3>5, <3>7, <3>8 DEF Serving, A
    <3> QED BY <1>5, <3>9 DEF asize, res
  <2> QED BY <2>4, <2>5
<1> QED BY <1>3, <1>4, <1>5

-----------------------------------------------------------------------------
(* sf_memalign *)

\* What is kept in two steps is kept.
LEMMA KeepsOn ==
  ASSUME NEW h, NEW g, NEW k, NEW A, NEW C, Keeps(h, g, A), Keeps(g, k, C), A \subseteq C
  PROVE  Keeps(h, k, A)
BY DEF Keeps, next_blkp

\* How far it is to the next aligned address.
LEMMA Distance ==
  ASSUME NEW p \in Nat, NEW align \in Nat, align >= M, align % M = 0, p % M = 0,
         p % align # 0
  PROVE  LET diff == align - (p % align)
         IN  diff \in Nat /\ diff < align /\ diff >= M /\ diff % M = 0
             /\ (p + diff) % align = 0
<1> DEFINE q == p \div align
           r == p % align
           diff == align - r
<1>1. align \in Nat \ {0}
  BY Unit
<1>2. q \in Nat /\ r \in 0 .. (align - 1) /\ p = align * q + r
  BY <1>1, Division
<1>3. align * q \in Nat /\ (align * q) % M = 0
  <2>1. PICK k \in Nat : align = M * k
    BY Multiple
  <2>2. (M * k) * q = M * (k * q) /\ k * q \in Nat
    BY <1>2, Unit, SMTT(30)
  <2>3. align * q = M * (k * q) /\ M * (k * q) \in Nat
    BY <2>1, <2>2, Unit, SMTT(30)
  <2> QED BY <2>2, <2>3, Multiple
<1>4. align * (q + 1) = align * q + align
  BY <1>1, <1>2, SMTT(30)
<1>5. (align * (q + 1)) % align = 0
  BY <1>1, <1>2, SMTT(30)
<1> HIDE DEF q, r
<1>6. r > 0 /\ r \in Nat /\ r < align
  BY <1>1, <1>2 DEF r
<1>7. p - align * q = r
  BY <1>2, <1>3, <1>6
<1>8. r % M = 0
  BY <1>2, <1>3, <1>6, <1>7, MultipleDifference
<1>9. diff \in Nat /\ diff < align /\ p + diff = align * (q + 1)
  BY <1>1, <1>2, <1>3, <1>4, <1>6
<1>10. diff % M = 0 /\ diff >= M
  BY <1>6, <1>8, MultipleDifference
<1> QED BY <1>5, <1>9, <1>10 DEF r

\* The front of an allocated block is freed, and the rest is a block of its own.
LEMMA FrontFreed ==
  ASSUME NEW y, NEW C, Settled(y, C), NEW bp \in Allocated(y, C), NEW diff \in Nat,
         diff >= M, diff % M = 0, diff + M <= get_size(y, bp)
  PROVE  LET front == set_header(y, bp, PACK(diff, get_palloc(y, bp), TRUE))
             both == set_header(front, bp + diff, PACK(get_size(y, bp) - diff, FALSE, TRUE))
             g == sf_free(both, bp + 2)
             A == Allocated(y, C) \ {bp}
         IN  /\ Gets(y, g, A \cup {bp + diff}, A)
             /\ get_size(g, bp + diff) = get_size(y, bp) - diff
             /\ bp + diff \notin C
<1> DEFINE size == get_size(y, bp)
           palloc == get_palloc(y, bp)
           nbp == bp + diff
           t1 == PACK(diff, palloc, TRUE)
           t2 == PACK(size - diff, FALSE, TRUE)
           front == set_header(y, bp, t1)
           both == set_header(front, nbp, t2)
           g == sf_free(both, bp + 2)
           A == Allocated(y, C) \ {bp}
           D == C \cup {nbp}
<1>1. /\ Sound(y) /\ Tiled(y, C) /\ Flagged(y, C, NULL) /\ Flagged(y, C, bp)
      /\ Listing(y, Unallocated(y, C)) /\ bp \in C /\ get_alloc(y, bp)
  BY FlaggedBut DEF Settled, Allocated
<1>2. /\ bp \in Nat /\ bp # NULL /\ size \in Nat /\ palloc \in BOOLEAN /\ bp + 1 \in Rows
      /\ bp + size <= y.top - 2 /\ y.top \in Nat /\ M \in Nat /\ M >= 4 /\ y \in Heaps
      /\ get_alloc(y, bp) \in BOOLEAN /\ next_blkp(y, bp) = bp + size
  <2>1. First >= 6 /\ First <= bp /\ First \in Nat
    BY <1>1, BlockFacts, Bounds, Unit
  <2> QED BY <1>1, <2>1, BlockFacts, Bounds, Unit DEF Sound, NULL
<1>3. /\ nbp \in Nat /\ nbp + 1 \in Rows /\ size - diff \in Nat /\ bp + 4 <= nbp
      /\ nbp + 4 <= bp + size
  <2>1. nbp \in Nat /\ nbp + 1 <= y.top /\ size - diff \in Nat /\ bp + 4 <= nbp
        /\ nbp + 4 <= bp + size
    BY <1>2
  <2> QED BY <1>1, <2>1, Bounds
<1>4. /\ t1 \in Tag /\ t1[1] = diff /\ t1 \in Cell
      /\ t2 \in Tag /\ t2[1] = size - diff /\ t2[2] = FALSE /\ t2[3] = TRUE /\ t2 \in Cell
  <2> DEFINE rest == size - diff
  <2>1. rest \in Nat /\ palloc \in BOOLEAN
    BY <1>2, <1>3
  <2> HIDE DEF palloc, rest
  <2>2. t1 \in Tag /\ t1[1] = diff
    BY <2>1, PackFacts
  <2>3. t2 \in Tag /\ t2[1] = rest /\ t2[2] = FALSE /\ t2[3] = TRUE
    BY <2>1, PackFacts DEF rest
  <2> HIDE DEF t1, t2
  <2> QED BY <2>2, <2>3, TagFacts DEF rest
<1> HIDE DEF t1, t2, nbp, size, palloc
<1>5. /\ front \in Heaps /\ Beside(front, y)
      /\ \A r \in Rows : front.mem[r] = IF r = bp + 1 THEN t1 ELSE y.mem[r]
  BY <1>2, <1>4, WriteRow DEF set_header
<1> HIDE DEF front
<1>6. /\ both \in Heaps /\ Beside(both, front)
      /\ \A r \in Rows : both.mem[r] = IF r = nbp + 1 THEN t2 ELSE front.mem[r]
  BY <1>3, <1>4, <1>5, WriteRow DEF set_header
<1> HIDE DEF both
<1>7. /\ both.top = y.top /\ both.epilogue = y.epilogue /\ both.lists = y.lists
      /\ header(both, bp) = t1 /\ header(both, nbp) = t2
  <2>1. bp + 1 # nbp + 1
    BY <1>2, <1>3
  <2> QED BY <1>2, <1>3, <1>5, <1>6, <2>1 DEF Beside, header
<1>8. get_size(both, nbp) = size - diff /\ get_palloc(both, nbp) = FALSE
      /\ get_alloc(both, nbp) = TRUE
  BY <1>4, <1>7 DEF get_size, get_palloc, get_alloc
<1>9. Divided(y, C, bp, diff, both)
  <2>1. \A r \in Rows : r \notin (bp + 1) .. (bp + size) => both.mem[r] = y.mem[r]
    <3> SUFFICES ASSUME NEW r \in Rows, r \notin (bp + 1) .. (bp + size)
                 PROVE  both.mem[r] = y.mem[r]
      OBVIOUS
    <3>1. r # bp + 1 /\ r # nbp + 1
      BY <1>2, <1>3
    <3> QED BY <1>5, <1>6, <3>1
  <2>2. /\ header(both, bp + diff) \in Tag /\ get_size(both, bp + diff) = size - diff
        /\ get_alloc(both, bp + diff)
    BY <1>4, <1>7, <1>8 DEF nbp
  <2> QED BY <1>1, <1>6, <1>7, <2>1, <2>2 DEF Divided, size, palloc, t1
<1>10. PartsFlagged(y, bp, nbp, bp, both)
  <2>1. next_blkp(y, bp) # y.top - 2 => get_palloc(y, next_blkp(y, bp))
    BY <1>1, <1>2 DEF Flagged
  <2> QED BY <1>8, <2>1 DEF PartsFlagged
<1>11. /\ Sound(both) /\ Tiled(both, D) /\ nbp \notin C
       /\ get_size(both, bp) = diff /\ get_alloc(both, bp)
       /\ \A c \in C \ {bp} :
             get_size(both, c) = get_size(y, c) /\ get_alloc(both, c) = get_alloc(y, c)
       /\ Keeps(y, both, C \ {bp})
       /\ Flagged(both, D, bp)
  <2>1. /\ Sound(both) /\ Tiled(both, D) /\ nbp \notin C
        /\ get_size(both, bp) = diff /\ get_alloc(both, bp)
        /\ \A c \in C \ {bp} :
              get_size(both, c) = get_size(y, c) /\ get_alloc(both, c) = get_alloc(y, c)
        /\ Keeps(y, both, C \ {bp})
        /\ \A x : PartsFlagged(y, bp, nbp, x, both) => Flagged(both, D, x)
    BY <1>9, BlockDivided DEF nbp
  <2> QED BY <1>10, <2>1
<1>12. /\ Allocated(both, D) = Allocated(y, C) \cup {nbp}
       /\ Unallocated(both, D) = Unallocated(y, C)
  BY <1>1, <1>8, <1>11 DEF Allocated, Unallocated
<1>13. Listing(both, Unallocated(both, D))
  <2>1. \A b \in Unallocated(y, C) : get_size(both, b) = get_size(y, b)
    BY <1>1, <1>11 DEF Unallocated
  <2>2. Listing(both, Unallocated(y, C))
    BY <1>1, <1>7, <2>1, ListingStays
  <2> QED BY <1>12, <2>2
<1>14. Allocated(both, D) \ {bp} = A \cup {nbp} /\ bp \in Allocated(both, D)
  <2>1. bp # nbp
    BY <1>2, <1>3
  <2> QED BY <1>12, <2>1
<1> HIDE DEF D, A
<1>15. Gets(both, g, A \cup {nbp}, A \cup {nbp})
  <2>1. Gets(both, g, Allocated(both, D) \ {bp}, Allocated(both, D) \ {bp})
    BY <1>11, <1>13, <1>14, BlockFreed
  <2> QED BY <1>14, <2>1
<1> HIDE DEF g
<1>16. PICK E : Settled(g, E) /\ Allocated(g, E) = A \cup {nbp} /\ Keeps(both, g, A \cup {nbp})
  BY <1>15 DEF Gets
<1>17. Keeps(y, both, A)
  <2>1. A \subseteq C \ {bp}
    BY DEF A, Allocated
  <2> QED BY <1>11, <2>1 DEF Keeps
<1>18. Keeps(y, g, A)
  BY <1>16, <1>17, KeepsOn
<1>19. get_size(g, nbp) = size - diff
  BY <1>8, <1>16 DEF Keeps
<1>20. Gets(y, g, A \cup {nbp}, A)
  BY <1>16, <1>18 DEF Gets
<1> QED BY <1>11, <1>19, <1>20 DEF g, both, front, t1, t2, nbp, size, palloc, A

\* An allocated block is cut down to its first data rows.
Trimming(h, A, bp, g, data) ==
    /\ Gets(h, g, A \cup {bp}, A) /\ bp \notin A
    /\ data \in Nat /\ data >= M /\ data % M = 0 /\ data <= get_size(g, bp)

\* Then its first rows are what is allocated.
LEMMA Trimmed ==
  ASSUME NEW h, NEW A, NEW bp, NEW g, NEW data, Trimming(h, A, bp, g, data)
  PROVE  Gets(h, place(g, bp, data), A \cup {bp}, A) /\ get_size(place(g, bp, data), bp) = data
<1> DEFINE k == place(g, bp, data)
<1>1. PICK C : Settled(g, C) /\ Allocated(g, C) = A \cup {bp} /\ Keeps(h, g, A)
  BY DEF Gets, Trimming
<1> data \in Nat /\ data >= M /\ data % M = 0 /\ data <= get_size(g, bp) /\ bp \notin A
  BY DEF Trimming
<1>2. bp \in C
  BY <1>1 DEF Allocated
<1>3. Placing(g, C, bp, data, k)
  BY <1>1, <1>2, BlockPlaced
<1> HIDE DEF k
<1>4. (A \cup {bp}) \cup {bp} = A \cup {bp} /\ (A \cup {bp}) \ {bp} = A
  OBVIOUS
<1>5. Gets(g, k, A \cup {bp}, A) /\ get_size(k, bp) = data
  BY <1>1, <1>3, <1>4 DEF Placing
<1>6. Gets(h, k, A \cup {bp}, A)
  BY <1>1, <1>5, KeepsOn DEF Gets
<1> QED BY <1>5, <1>6 DEF k

\* What sf_memalign returns for an alignment that is a multiple of M.
LEMMA Memaligned ==
  ASSUME NEW h0, NEW h, h = Ready(h0), NEW B, Settled(h, B), NEW size \in Nat,
         NEW align \in Nat, size # 0, align >= M, align % M = 0,
         find_fit(h, BlockSize(size + M + align)) # NULL \/ HasWilderness(h)
  PROVE  LET res == sf_memalign(h0, size, align)
         IN  /\ Serving(h, B, BlockSize(size), res)
             /\ res.p # NULL => res.p % align = 0
<1> DEFINE n == size + M + align
           m == sf_malloc(h0, n)
           A == Allocated(h, B)
           res == sf_memalign(h0, size, align)
           data == BlockSize(size)
<1>1. n \in Nat /\ n >= size + align /\ M \in Nat /\ M >= 4
  BY Unit
<1>2. Serving(h, B, BlockSize(n), m)
  BY <1>1, Malloced
<1>3. res = Cut(m, size, align)
  BY Unit DEF sf_memalign
<1>4. data \in Nat /\ data >= M /\ data % M = 0 /\ data < size + 1 + M
      /\ BlockSize(n) \in Nat /\ n + 1 <= BlockSize(n)
  BY <1>1, BlockSizes
<1>5. data + align <= BlockSize(n) /\ align + M <= BlockSize(n) /\ data <= BlockSize(n)
  BY <1>1, <1>4
<1> HIDE DEF n, m, res, data
<1>6. CASE m.p = NULL
  <2>1. res = m
    BY <1>3, <1>6 DEF Cut
  <2>2. Gets(h, m.h, A, A)
    <3>1. ASSUME NEW bp \in Nat, m.p = bp + 2 PROVE FALSE
      BY <1>6, <3>1 DEF NULL
    <3> QED BY <1>2, <3>1 DEF Serving
  <2>3. Serving(h, B, data, res)
    BY <1>6, <2>1, <2>2 DEF Serving
  <2> QED BY <1>6, <2>1, <2>3 DEF res, data
<1>7. CASE m.p # NULL
  <2>1. PICK bp \in Nat \ Allocated(h, B) :
           /\ bp # 0 /\ m.p = bp + 2
           /\ Gets(h, m.h, A \cup {bp}, A)
           /\ get_size(m.h, bp) = BlockSize(n)
    BY <1>2, <1>7 DEF Serving
  <2> DEFINE y == m.h
             p == bp + 2
             diff == IF p % align = 0 THEN 0 ELSE align - (p % align)
             blksize == get_size(y, bp)
             front == set_header(y, bp, PACK(diff, get_palloc(y, bp), TRUE))
             both == set_header(front, bp + diff, PACK(blksize - diff, FALSE, TRUE))
             z == IF diff = 0 THEN y ELSE sf_free(both, p)
             nbp == bp + diff
             g == place(z, nbp, data)
  <2>2. m.p - 2 = bp /\ m.p = p
    BY <2>1
  <2>3. res = Placed(z, nbp, data)
    BY <1>3, <1>7, <2>2 DEF Cut, data
  <2>4. PICK C : Settled(y, C) /\ Allocated(y, C) = A \cup {bp} /\ Keeps(h, y, A)
    BY <2>1 DEF Gets
  <2>5. bp \in Allocated(y, C) /\ bp \in C /\ bp \notin A
    BY <2>1, <2>4 DEF Allocated
  <2>6. p \in Nat /\ p % M = 0 /\ p # 0
    BY <2>1, <2>4, <2>5, BlockFacts DEF Settled
  <2>7. blksize = BlockSize(n)
    BY <2>1
  <2> HIDE DEF y, p, blksize
  <2>8. /\ Gets(h, z, A \cup {nbp}, A) /\ nbp \notin A /\ nbp \in Nat /\ nbp # 0
        /\ get_size(z, nbp) >= data /\ (nbp + 2) % align = 0
    <3>1. CASE p % align = 0
      <4>1. diff = 0 /\ nbp = bp /\ z = y
        BY <2>1, <3>1
      <4>2. get_size(y, bp) >= data
        BY <1>4, <1>5, <2>7 DEF blksize
      <4>3. Gets(h, y, A \cup {bp}, A)
        BY <2>1 DEF y
      <4>4. (bp + 2) % align = 0
        BY <3>1 DEF p
      <4> HIDE DEF z, nbp
      <4> QED BY <2>1, <2>5, <4>1, <4>2, <4>3, <4>4
    <3>2. CASE p % align # 0
      <4>1. /\ diff \in Nat /\ diff < align /\ diff >= M /\ diff % M = 0
            /\ (p + diff) % align = 0
        BY <2>6, <3>2, Distance
      <4>11. diff # 0
        <5> HIDE DEF diff
        <5> QED BY <4>1, Unit
      <4> HIDE DEF diff
      <4>2. z = sf_free(both, p)
        BY <4>11
      <4> HIDE DEF z
      <4>3. diff + M <= get_size(y, bp)
        BY <1>1, <1>4, <1>5, <2>7, <4>1 DEF blksize
      <4>4. /\ Gets(y, z, (Allocated(y, C) \ {bp}) \cup {nbp}, Allocated(y, C) \ {bp})
            /\ get_size(z, nbp) = blksize - diff /\ nbp \notin C
        <5> DEFINE f == set_header(y, bp, PACK(diff, get_palloc(y, bp), TRUE))
                   b == set_header(f, bp + diff, PACK(get_size(y, bp) - diff, FALSE, TRUE))
                   k == sf_free(b, bp + 2)
        <5>1. z = k
          BY <4>2 DEF p, blksize
        <5>2. /\ Gets(y, k, (Allocated(y, C) \ {bp}) \cup {bp + diff}, Allocated(y, C) \ {bp})
              /\ get_size(k, bp + diff) = get_size(y, bp) - diff
              /\ bp + diff \notin C
          BY <2>4, <2>5, <4>1, <4>3, FrontFreed
        <5> HIDE DEF k
        <5> QED BY <5>1, <5>2 DEF blksize
      <4>5. Allocated(y, C) \ {bp} = A
        BY <2>4, <2>5
      <4>6. Gets(y, z, A \cup {nbp}, A)
        BY <4>4, <4>5
      <4>7. Gets(h, z, A \cup {nbp}, A)
        BY <2>4, <4>6, KeepsOn DEF Gets
      <4>8. nbp \notin A
        BY <2>4, <4>4 DEF Allocated
      <4>9. nbp \in Nat /\ nbp # 0 /\ nbp + 2 = p + diff
        BY <2>1, <4>1 DEF p
      <4>10. get_size(z, nbp) >= data
        BY <1>1, <1>4, <1>5, <2>7, <4>1, <4>4
      <4> HIDE DEF nbp
      <4> QED BY <4>1, <4>7, <4>8, <4>9, <4>10
    <3> QED BY <3>1, <3>2
  <2> HIDE DEF z, nbp, A
  <2>9. data <= get_size(z, nbp)
    <3>1. get_size(z, nbp) \in Int
      <4>1. PICK D : Settled(z, D) /\ Allocated(z, D) = A \cup {nbp}
        BY <2>8 DEF Gets
      <4>2. nbp \in D
        BY <4>1 DEF Allocated
      <4> QED BY <4>1, <4>2, BlockFacts DEF Settled
    <3> QED BY <1>4, <2>8, <3>1
  <2>10. Gets(h, g, A \cup {nbp}, A) /\ get_size(g, nbp) = data
    <3>1. Trimming(h, A, nbp, z, data)
      BY <1>4, <2>8, <2>9 DEF Trimming
    <3> QED BY <3>1, Trimmed
  <2>11. res.p = nbp + 2 /\ res.h = g
    BY <2>3 DEF Placed
  <2> HIDE DEF g
  <2>12. Serving(h, B, data, res)
    BY <2>8, <2>10, <2>11 DEF Serving, A
  <2> QED BY <2>8, <2>11, <2>12 DEF res, data
<1> QED BY <1>6, <1>7

-----------------------------------------------------------------------------
(* What the client and memcpy write *)

\* g is h with other data in the rows of one block, behind its header.
Rewritten(h, bp, g) ==
    /\ g \in Heaps /\ Beside(g, h)
    /\ \A r \in Rows : r \notin (bp + 2) .. next_blkp(h, bp) => g.mem[r] = h.mem[r]

\* The client, and memcpy, may write what they like into an allocated block.
LEMMA DataWritten ==
  ASSUME NEW h, NEW B, Settled(h, B), NEW bp \in Allocated(h, B), NEW g, Rewritten(h, bp, g)
  PROVE  /\ Settled(g, B) /\ Allocated(g, B) = Allocated(h, B)
         /\ \A c \in B : get_size(g, c) = get_size(h, c)
         /\ Keeps(h, g, Allocated(h, B) \ {bp})
<1> USE DEF Rewritten
<1>1. /\ Sound(h) /\ Tiled(h, B) /\ Flagged(h, B, NULL) /\ Listing(h, Unallocated(h, B))
      /\ bp \in B /\ get_alloc(h, bp)
  BY DEF Settled, Allocated
<1>2. g.top = h.top /\ g.epilogue = h.epilogue /\ g.lists = h.lists
  BY DEF Beside
<1>3. \A c \in B : /\ c \in Nat /\ c + 1 \in Rows
                   /\ next_blkp(h, c) \in Nat /\ next_blkp(h, c) \in Rows
                   /\ c + 4 <= next_blkp(h, c) /\ next_blkp(h, c) <= h.top - 2 /\ h.top \in Nat
  BY <1>1, BlockFacts, Bounds
<1>4. \A c \in B \ {bp} : \/ c < bp /\ next_blkp(h, c) <= bp
                          \/ next_blkp(h, bp) <= c
  BY <1>1, Apart
<1>5. \A c \in B : header(g, c) = header(h, c)
  <2> TAKE c \in B
  <2>1. c \in Nat /\ bp \in Nat /\ next_blkp(h, bp) \in Nat
        /\ (c = bp \/ c < bp \/ next_blkp(h, bp) <= c)
    BY <1>1, <1>3, <1>4
  <2>2. c + 1 \notin (bp + 2) .. next_blkp(h, bp)
    BY <2>1
  <2> QED BY <1>3, <2>2 DEF header
<1>6. header(g, h.top - 2) = header(h, h.top - 2)
  <2>1. h.top - 2 + 1 \in Rows
    BY <1>1, <1>3, Bounds, Unit
  <2>2. h.top - 2 + 1 \notin (bp + 2) .. next_blkp(h, bp)
    BY <1>1, <1>3
  <2> QED BY <2>1, <2>2 DEF header
<1>7. \A c \in B : /\ get_size(g, c) = get_size(h, c) /\ get_alloc(g, c) = get_alloc(h, c)
                   /\ get_palloc(g, c) = get_palloc(h, c)
                   /\ next_blkp(g, c) = next_blkp(h, c)
  BY <1>5 DEF get_size, get_alloc, get_palloc, next_blkp
<1>8. Sound(g)
  BY <1>1, <1>2, SoundStays
<1>9. Tiled(g, B)
  <2>1. /\ header(g, h.top - 2) \in Tag /\ get_size(g, h.top - 2) = 0
        /\ ~get_alloc(g, h.top - 2)
    BY <1>1, <1>6 DEF Tiled, get_size, get_alloc
  <2>2. \A c \in B : header(g, c) \in Tag
    BY <1>1, <1>5, BlockFacts
  <2> QED BY <1>1, <1>2, <1>7, <2>1, <2>2, TiledStays
<1>10. Flagged(g, B, NULL)
  <2>1. get_palloc(g, First)
    BY <1>1, <1>7 DEF Flagged, Tiled
  <2>2. ASSUME NEW c \in B, c # NULL, next_blkp(g, c) # g.top - 2
        PROVE  get_palloc(g, next_blkp(g, c)) = get_alloc(g, c)
    <3>1. next_blkp(h, c) \in B /\ next_blkp(h, c) # h.top - 2
      BY <1>1, <1>2, <1>7, <2>2, BlockFacts
    <3> QED BY <1>1, <1>7, <2>2, <3>1 DEF Flagged
  <2>3. ASSUME NEW c \in B, ~get_alloc(g, c)
        PROVE  prev_footer(g, next_blkp(g, c)) = header(g, c)
    <3>1. c # bp /\ ~get_alloc(h, c)
      BY <1>1, <1>7, <2>3
    <3>2. prev_footer(h, next_blkp(h, c)) = header(h, c)
      BY <1>1, <3>1 DEF Flagged
    <3>3. next_blkp(h, c) \notin (bp + 2) .. next_blkp(h, bp)
      <4>1. /\ bp \in Nat /\ c \in Nat /\ next_blkp(h, c) \in Nat /\ next_blkp(h, bp) \in Nat
            /\ c + 4 <= next_blkp(h, c)
            /\ \/ next_blkp(h, c) <= bp
               \/ next_blkp(h, bp) <= c
        BY <1>1, <1>3, <1>4, <3>1
      <4> QED BY <4>1
    <3> QED BY <1>3, <1>5, <1>7, <3>2, <3>3 DEF prev_footer
  <2> QED BY <2>1, <2>2, <2>3 DEF Flagged
<1>11. Allocated(g, B) = Allocated(h, B) /\ Unallocated(g, B) = Unallocated(h, B)
  BY <1>7 DEF Allocated, Unallocated
<1>12. Listing(g, Unallocated(g, B))
  <2>1. \A b \in Unallocated(h, B) : get_size(g, b) = get_size(h, b)
    BY <1>7 DEF Unallocated
  <2>2. Listing(g, Unallocated(h, B))
    BY <1>1, <1>2, <2>1, ListingStays
  <2> QED BY <1>11, <2>2
<1>13. Keeps(h, g, Allocated(h, B) \ {bp})
  <2> SUFFICES ASSUME NEW c \in Allocated(h, B) \ {bp},
                      NEW r \in (c + 2) .. (next_blkp(h, c) - 1)
               PROVE  g.mem[r] = h.mem[r]
    BY <1>7 DEF Keeps, Allocated
  <2>1. c \in B \ {bp}
    BY DEF Allocated
  <2>2. /\ bp \in Nat /\ c \in Nat /\ next_blkp(h, c) \in Nat /\ next_blkp(h, bp) \in Nat
        /\ next_blkp(h, c) <= h.top - 2 /\ h.top \in Nat
        /\ \/ next_blkp(h, c) <= bp
           \/ next_blkp(h, bp) <= c
    BY <1>1, <1>3, <1>4, <2>1
  <2>3. r \in Nat /\ r <= h.top /\ r \notin (bp + 2) .. next_blkp(h, bp)
    BY <2>2
  <2>4. r \in Rows
    BY <1>1, <2>3, Bounds
  <2> QED BY <2>3, <2>4
<1> QED BY <1>7, <1>8, <1>9, <1>10, <1>11, <1>12, <1>13 DEF Settled

\* What the client's writes leave behind.
LEMMA RowsFilled ==
  ASSUME NEW h \in Heaps, NEW p \in Nat, NEW first \in Int, NEW last \in Int
  PROVE  LET g == Fill(h, p, first, last)
         IN  /\ g \in Heaps /\ Beside(g, h)
             /\ \A r \in Rows : g.mem[r] = IF r \in (p + first) .. (p + last) THEN Word(r - p)
                                           ELSE h.mem[r]
<1> DEFINE written == (p + first) .. (p + last)
           mem == [r \in Rows |-> IF r \in written THEN Word(r - p) ELSE h.mem[r]]
<1>1. DOMAIN h.mem = Rows
  BY DEF Heaps
<1>2. Fill(h, p, first, last) = [h EXCEPT !.mem = mem]
  BY <1>1 DEF Fill
<1>3. \A r \in Rows : r - p \in Int
  BY AllocatorAssumption DEF Rows
<1> HIDE DEF written
<1>4. mem \in [Rows -> Cell]
  BY <1>3 DEF Heaps, Cell
<1>5. \A r \in Rows : mem[r] = IF r \in written THEN Word(r - p) ELSE h.mem[r]
  OBVIOUS
<1> HIDE DEF mem
<1>6. [h EXCEPT !.mem = mem] \in Heaps /\ [h EXCEPT !.mem = mem].mem = mem
      /\ Beside([h EXCEPT !.mem = mem], h)
  BY <1>4 DEF Heaps, Beside
<1> QED BY <1>2, <1>5, <1>6 DEF written

\* What memcpy leaves behind, if it reads rows of the heap.
LEMMA RowsCopied ==
  ASSUME NEW h \in Heaps, NEW to \in Nat, NEW from \in Nat, NEW n \in Int,
         \A r \in Rows : r \in to .. (to + n - 1) => from + r - to \in Rows
  PROVE  LET g == memcpy(h, to, from, n)
         IN  /\ g \in Heaps /\ Beside(g, h)
             /\ \A r \in Rows : r \notin to .. (to + n - 1) => g.mem[r] = h.mem[r]
<1> DEFINE written == to .. (to + n - 1)
           mem == [r \in Rows |-> IF r \in written THEN h.mem[from + r - to] ELSE h.mem[r]]
<1>1. DOMAIN h.mem = Rows
  BY DEF Heaps
<1>2. memcpy(h, to, from, n) = [h EXCEPT !.mem = mem]
  BY <1>1 DEF memcpy
<1>3. \A r \in Rows : r \in written => from + r - to \in Rows
  OBVIOUS
<1> HIDE DEF written
<1>4. mem \in [Rows -> Cell]
  BY <1>3 DEF Heaps
<1>5. \A r \in Rows : r \notin written => mem[r] = h.mem[r]
  OBVIOUS
<1> HIDE DEF mem
<1>6. [h EXCEPT !.mem = mem] \in Heaps /\ [h EXCEPT !.mem = mem].mem = mem
      /\ Beside([h EXCEPT !.mem = mem], h)
  BY <1>4 DEF Heaps, Beside
<1> QED BY <1>2, <1>5, <1>6 DEF written

-----------------------------------------------------------------------------
(* sf_realloc *)

\* What sf_realloc of the block bp returns: NULL, the payload of another block, or that
\* of bp itself, whose rows, as far as it still has them, are as they were.
Exchanging(h, B, bp, rsize, res) ==
    \/ res.p = NULL /\ Gets(h, res.h, Allocated(h, B), Allocated(h, B))
    \/ \E nb \in (Nat \ Allocated(h, B)) \cup {bp} :
          /\ nb # 0 /\ res.p = nb + 2
          /\ Gets(h, res.h, (Allocated(h, B) \ {bp}) \cup {nb}, Allocated(h, B) \ {bp})
          /\ rsize + 1 <= get_size(res.h, nb)
          /\ nb = bp => /\ get_size(res.h, bp) <= get_size(h, bp)
                        /\ \A r \in (bp + 2) .. (next_blkp(res.h, bp) - 1) :
                              res.h.mem[r] = h.mem[r]

\* A region that does not grow keeps its block, or the front of it.
LEMMA Shrunk ==
  ASSUME NEW h, NEW B, Settled(h, B), NEW bp \in Allocated(h, B), NEW rsize \in Nat,
         rsize < get_size(h, bp)
  PROVE  Exchanging(h, B, bp, rsize, sf_realloc(h, bp + 2, rsize))
<1> DEFINE size == get_size(h, bp)
           data == BlockSize(rsize)
           A == Allocated(h, B)
           p == bp + 2
           res == sf_realloc(h, p, rsize)
           k == IF data < size THEN sf_split(h, bp, size, data) ELSE h
<1>1. /\ Sound(h) /\ Tiled(h, B) /\ Flagged(h, B, NULL) /\ Listing(h, Unallocated(h, B))
      /\ bp \in B /\ get_alloc(h, bp)
  BY DEF Settled, Allocated
<1>2. bp \in Nat /\ bp # 0 /\ size \in Nat /\ next_blkp(h, bp) = bp + size
  <2>1. bp \in Nat /\ First <= bp /\ First >= 6 /\ First \in Nat
    BY <1>1, BlockFacts, Bounds, Unit
  <2> QED BY <1>1, <2>1, BlockFacts
<1>3. p - 2 = bp /\ ~(rsize > size)
  BY <1>2
<1>4. res.p = p /\ res.h = k
  BY <1>3 DEF sf_realloc
<1>5. data \in Nat /\ data >= M /\ data % M = 0 /\ rsize + 1 <= data
  BY BlockSizes
<1>6. (A \ {bp}) \cup {bp} = A /\ A \cup {bp} = A
  OBVIOUS
<1> HIDE DEF data, size
<1>7. /\ Gets(h, k, A, A \ {bp})
      /\ rsize + 1 <= get_size(k, bp) /\ get_size(k, bp) <= size /\ get_size(k, bp) \in Nat
      /\ \A r \in (bp + 2) .. (bp + get_size(k, bp) - 1) : k.mem[r] = h.mem[r]
  <2>1. CASE data < size
    <3> DEFINE g == sf_split(h, bp, size, data)
    <3>1. Taken(h, B, bp)
      <4>1. Unallocated(h, B) \ {bp} = Unallocated(h, B)
        BY <1>1 DEF Unallocated
      <4> QED BY <1>1, <4>1, FlaggedBut DEF Taken
    <3>2. Placing(h, B, bp, data, g)
      BY <1>2, <1>5, <2>1, <3>1, Split DEF size
    <3> HIDE DEF g
    <3>3. k = g
      BY <2>1 DEF g
    <3>4. Gets(h, g, A, A \ {bp}) /\ get_size(g, bp) = data
      BY <1>6, <3>2 DEF Placing
    <3>5. \A r \in (bp + 2) .. (bp + data - 1) : g.mem[r] = h.mem[r]
      BY <3>2 DEF Placing
    <3>6. data <= size
      BY <1>2, <1>5, <2>1 DEF size
    <3> HIDE DEF k, A
    <3> QED BY <1>5, <3>3, <3>4, <3>5, <3>6
  <2>2. CASE ~(data < size)
    <3>1. k = h
      BY <2>2
    <3> HIDE DEF k
    <3>2. Keeps(h, h, A \ {bp})
      BY DEF Keeps
    <3>3. Gets(h, h, A, A \ {bp})
      BY <3>2 DEF Gets
    <3>4. rsize + 1 <= size /\ size <= size /\ get_size(h, bp) = size
      BY <1>2 DEF size
    <3> QED BY <1>2, <3>1, <3>3, <3>4
  <2> QED BY <2>1, <2>2
<1> HIDE DEF k, res, A
<1>8. next_blkp(k, bp) = bp + get_size(k, bp)
  BY DEF next_blkp
<1>9. Exchanging(h, B, bp, rsize, res)
  <2>1. /\ bp \in (Nat \ A) \cup {bp} /\ bp # 0 /\ res.p = bp + 2
        /\ Gets(h, res.h, (A \ {bp}) \cup {bp}, A \ {bp})
        /\ rsize + 1 <= get_size(res.h, bp)
    BY <1>2, <1>4, <1>6, <1>7
  <2>2. get_size(res.h, bp) <= get_size(h, bp)
    BY <1>4, <1>7 DEF size
  <2>3. \A r \in (bp + 2) .. (next_blkp(res.h, bp) - 1) : res.h.mem[r] = h.mem[r]
    <3>1. (bp + 2) .. (next_blkp(k, bp) - 1) = (bp + 2) .. (bp + get_size(k, bp) - 1)
      BY <1>2, <1>7, <1>8
    <3> QED BY <1>4, <1>7, <3>1
  <2> QED BY <2>1, <2>2, <2>3 DEF Exchanging, A
<1> QED BY <1>9 DEF res, p

\* A region that grows is copied into a new block, and its old one is freed.
LEMMA Moved ==
  ASSUME NEW h, NEW B, Settled(h, B), NEW bp \in Allocated(h, B), NEW rsize \in Nat,
         rsize > get_size(h, bp),
         find_fit(h, BlockSize(rsize)) # NULL \/ HasWilderness(h)
  PROVE  Exchanging(h, B, bp, rsize, sf_realloc(h, bp + 2, rsize))
<1> DEFINE size == get_size(h, bp)
           data == BlockSize(rsize)
           A == Allocated(h, B)
           p == bp + 2
           res == sf_realloc(h, p, rsize)
           new == sf_malloc(h, rsize)
<1>1. Sound(h) /\ Tiled(h, B) /\ bp \in B
  BY DEF Settled, Allocated
<1>2. bp \in Nat /\ size \in Nat /\ size >= 4 /\ bp + size <= h.top - 2 /\ h.top \in Nat
  BY <1>1, BlockFacts, Bounds
<1>3. Ready(h) = h
  <2>1. h.top # 0
    BY <1>1, Bounds, Unit
  <2> QED BY <2>1 DEF Ready
<1>4. Serving(h, B, data, new)
  BY <1>3, Malloced
<1>5. res = Move(h, p, size, new)
  <2>1. p - 2 = bp /\ rsize > size
    BY <1>2
  <2> QED BY <2>1 DEF sf_realloc
<1>6. data \in Nat /\ data >= M /\ data % M = 0 /\ rsize + 1 <= data
  BY BlockSizes
<1> HIDE DEF data, new, res
<1>7. CASE new.p = NULL
  <2>1. res = new
    BY <1>5, <1>7 DEF Move
  <2>2. Gets(h, new.h, A, A)
    <3>1. ASSUME NEW c \in Nat, new.p = c + 2 PROVE FALSE
      BY <1>7, <3>1 DEF NULL
    <3> QED BY <1>4, <3>1 DEF Serving
  <2>3. Exchanging(h, B, bp, rsize, res)
    BY <1>7, <2>1, <2>2 DEF Exchanging
  <2> QED BY <2>3 DEF res
<1>8. CASE new.p # NULL
  <2> DEFINE g == new.h
  <2>1. PICK nb \in Nat \ A : /\ nb # 0 /\ new.p = nb + 2
                              /\ Gets(h, g, A \cup {nb}, A) /\ get_size(g, nb) = data
    BY <1>4, <1>8 DEF Serving
  <2> HIDE DEF g
  <2>2. PICK C : Settled(g, C) /\ Allocated(g, C) = A \cup {nb} /\ Keeps(h, g, A)
    BY <2>1 DEF Gets
  <2> DEFINE k == memcpy(g, nb + 4, p, size - 1)
             f == sf_free(k, p)
  <2>3. res.p = nb + 2 /\ res.h = f
    <3>1. new.p + 2 = nb + 4
      BY <2>1
    <3> QED BY <1>5, <1>8, <2>1, <3>1 DEF Move, g
  <2>4. /\ Sound(g) /\ Tiled(g, C) /\ nb \in C /\ bp \in C /\ nb \in Allocated(g, C)
        /\ bp \in Allocated(g, C)
    BY <2>2 DEF Settled, Allocated
  <2>5. get_size(g, bp) = size
    BY <2>2 DEF Keeps
  <2>6. /\ g \in Heaps /\ p \in Nat /\ nb + 4 \in Nat /\ size - 1 \in Int
        /\ \A r \in Rows : r \in (nb + 4) .. (nb + 4 + (size - 1) - 1)
                              => p + r - (nb + 4) \in Rows
    <3>1. bp + size <= g.top - 2 /\ g.top \in Nat
      BY <2>4, <2>5, BlockFacts, Bounds
    <3>2. ASSUME NEW r \in Rows, r \in (nb + 4) .. (nb + 4 + (size - 1) - 1)
          PROVE  p + r - (nb + 4) \in Rows
      <4>1. r \in Int /\ nb + 4 <= r /\ r <= nb + size + 2
        BY <1>2, <2>1, <3>2
      <4>2. p + r - (nb + 4) \in Nat /\ p + r - (nb + 4) <= g.top
        BY <1>2, <2>1, <3>1, <4>1
      <4> QED BY <2>4, <4>2, Bounds
    <3> QED BY <1>2, <2>1, <2>4, <3>2 DEF Sound
  <2>7. Rewritten(g, nb, k)
    <3>1. /\ k \in Heaps /\ Beside(k, g)
          /\ \A r \in Rows : r \notin (nb + 4) .. (nb + 4 + (size - 1) - 1)
                                => k.mem[r] = g.mem[r]
      BY <2>6, RowsCopied
    <3>2. next_blkp(g, nb) = nb + data
      BY <2>1 DEF next_blkp
    <3>3. \A r \in Rows : r \notin (nb + 2) .. (nb + data)
                             => r \notin (nb + 4) .. (nb + 4 + (size - 1) - 1)
      BY <1>2, <1>6, <2>1
    <3> HIDE DEF k
    <3> QED BY <3>1, <3>2, <3>3 DEF Rewritten
  <2> HIDE DEF k
  <2>8. /\ Settled(k, C) /\ Allocated(k, C) = A \cup {nb}
        /\ get_size(k, nb) = data
        /\ Keeps(g, k, (A \cup {nb}) \ {nb})
    BY <2>1, <2>2, <2>4, <2>7, DataWritten
  <2>9. Gets(k, f, (A \cup {nb}) \ {bp}, (A \cup {nb}) \ {bp})
    <3>1. Flagged(k, C, bp)
      BY <2>8, FlaggedBut DEF Settled
    <3>2. bp \in Allocated(k, C)
      BY <2>8
    <3> QED BY <2>8, <3>1, <3>2, BlockFreed DEF Settled
  <2> HIDE DEF f
  <2>10. nb # bp /\ (A \cup {nb}) \ {bp} = (A \ {bp}) \cup {nb} /\ (A \cup {nb}) \ {nb} = A
    BY <2>1
  <2>11. PICK D : /\ Settled(f, D) /\ Allocated(f, D) = (A \ {bp}) \cup {nb}
                  /\ Keeps(k, f, (A \ {bp}) \cup {nb})
    BY <2>9, <2>10 DEF Gets
  <2> HIDE DEF A
  <2>12. Keeps(h, f, A \ {bp})
    <3>1. Keeps(h, g, A) /\ Keeps(g, k, A)
      BY <2>2, <2>8, <2>10
    <3>2. Keeps(h, k, A)
      BY <3>1, KeepsOn
    <3>3. Keeps(h, k, A \ {bp})
      BY <3>2 DEF Keeps
    <3> QED BY <2>11, <3>3, KeepsOn
  <2>13. get_size(f, nb) = data
    BY <2>8, <2>11 DEF Keeps
  <2>14. Gets(h, f, (A \ {bp}) \cup {nb}, A \ {bp})
    BY <2>11, <2>12 DEF Gets
  <2>15. Exchanging(h, B, bp, rsize, res)
    BY <1>6, <2>1, <2>3, <2>10, <2>13, <2>14 DEF Exchanging, A
  <2> QED BY <2>15 DEF res
<1> QED BY <1>7, <1>8

\* What sf_realloc does with a block, unless it is asked for as many rows as it has.
LEMMA Reallocated ==
  ASSUME NEW h, NEW B, Settled(h, B), NEW bp \in Allocated(h, B), NEW rsize \in Nat,
         rsize # get_size(h, bp),
         rsize > get_size(h, bp) => find_fit(h, BlockSize(rsize)) # NULL \/ HasWilderness(h)
  PROVE  Exchanging(h, B, bp, rsize, sf_realloc(h, bp + 2, rsize))
<1>1. get_size(h, bp) \in Nat
  BY BlockFacts DEF Settled, Allocated
<1> QED BY <1>1, Shrunk, Moved

-----------------------------------------------------------------------------
(* The client's regions *)

\* The client's region r is the payload of the block b.
Region(h, b, r) ==
    /\ r \in [rows : Nat, moved : BOOLEAN]
    /\ r.rows + 1 <= get_size(h, b)
    /\ ~r.moved => \A i \in (b + 2) .. (b + 1 + r.rows) :
                      h.mem[i] = Word(i - (b + 2)) \/ i = next_blkp(h, b)

\* The regions of l are the payloads of the blocks of A.
Lets(h, A, l) == /\ DOMAIN l = {b + 2 : b \in A}
                 /\ \A b \in A : Region(h, b, l[b + 2])

\* The inductive invariant: there is no heap yet and no region, or the heap is in order
\* and its allocated blocks are the regions of the client.
Owned(h, l) == \/ Fresh(h) /\ DOMAIN l = {}
               \/ \E B : Settled(h, B) /\ Lets(h, Allocated(h, B), l)

\* The addresses of allocated blocks.
LEMMA Addresses ==
  ASSUME NEW h, NEW B, Settled(h, B), NEW b \in Allocated(h, B)
  PROVE  /\ b \in Nat /\ First <= b /\ (b + 2) - 2 = b /\ (b + 2) % M = 0 /\ b # 0
         /\ get_size(h, b) \in Nat /\ get_size(h, b) >= 4
         /\ next_blkp(h, b) = b + get_size(h, b) /\ next_blkp(h, b) \in Nat
         /\ next_blkp(h, b) <= h.top - 2 /\ h.top \in Nat /\ h.top <= MaxPages * PAGE_SZ
         /\ h \in Heaps
<1>1. b \in B /\ Sound(h) /\ Tiled(h, B)
  BY DEF Settled, Allocated
<1>2. /\ b \in Nat /\ First <= b /\ First >= 6 /\ First \in Nat
      /\ (b + 2) % M = 0 /\ get_size(h, b) \in Nat /\ get_size(h, b) >= 4
      /\ next_blkp(h, b) = b + get_size(h, b) /\ next_blkp(h, b) \in Nat
      /\ next_blkp(h, b) <= h.top - 2 /\ h.top \in Nat /\ h.top <= MaxPages * PAGE_SZ
  BY <1>1, BlockFacts, Bounds, Unit
<1> QED BY <1>1, <1>2 DEF Sound

\* A region whose block is kept is as it was.
LEMMA RegionKept ==
  ASSUME NEW h, NEW B, Settled(h, B), NEW g, NEW K, K \subseteq Allocated(h, B),
         Keeps(h, g, K), NEW b \in K, NEW r, Region(h, b, r)
  PROVE  Region(g, b, r)
<1>1. /\ b \in Nat /\ get_size(h, b) \in Nat /\ next_blkp(h, b) = b + get_size(h, b)
  BY Addresses
<1>2. get_size(g, b) = get_size(h, b)
  BY DEF Keeps
<1>3. next_blkp(g, b) = next_blkp(h, b)
  BY <1>2 DEF next_blkp
<1>4. r \in [rows : Nat, moved : BOOLEAN] /\ r.rows + 1 <= get_size(h, b) /\ r.rows \in Nat
  BY DEF Region
<1>5. ASSUME ~r.moved, NEW i \in (b + 2) .. (b + 1 + r.rows)
      PROVE  g.mem[i] = Word(i - (b + 2)) \/ i = next_blkp(g, b)
  <2>1. h.mem[i] = Word(i - (b + 2)) \/ i = next_blkp(h, b)
    BY <1>5 DEF Region
  <2>2. CASE i = next_blkp(h, b)
    BY <1>3, <2>2
  <2>3. CASE i # next_blkp(h, b)
    <3>1. i \in (b + 2) .. (next_blkp(h, b) - 1)
      BY <1>1, <1>4, <2>3
    <3>2. g.mem[i] = h.mem[i]
      BY <3>1 DEF Keeps
    <3> QED BY <2>1, <2>3, <3>2
  <2> QED BY <2>2, <2>3
<1> QED BY <1>2, <1>4, <1>5 DEF Region

\* The heap before its first page, or with it, when a call is made.
LEMMA OwnedReady ==
  ASSUME NEW h0, NEW l, Owned(h0, l)
  PROVE  \E B : /\ Settled(Ready(h0), B)
                /\ Lets(Ready(h0), Allocated(Ready(h0), B), l)
                /\ ~Fresh(h0) => Ready(h0) = h0
<1>1. CASE Fresh(h0) /\ DOMAIN l = {}
  <2>1. Settled(Ready(h0), {First}) /\ Allocated(Ready(h0), {First}) = {}
    BY <1>1, HeapReady
  <2>2. Lets(Ready(h0), {}, l)
    BY <1>1 DEF Lets
  <2> QED BY <1>1, <2>1, <2>2
<1>2. CASE \E B : Settled(h0, B) /\ Lets(h0, Allocated(h0, B), l)
  <2>1. PICK B : Settled(h0, B) /\ Lets(h0, Allocated(h0, B), l)
    BY <1>2
  <2>2. ~Fresh(h0)
    <3>1. h0.top # 0
      BY <2>1, Bounds, Unit DEF Settled
    <3> QED BY <3>1 DEF Fresh
  <2>3. Ready(h0) = h0
    BY <2>1, <2>2, HeapReady
  <2> QED BY <2>1, <2>3
<1> QED BY <1>1, <1>2 DEF Owned

\* The regions of the blocks that are kept, and one more, are those of the new heap.
Joins(h, B, K, nb, g, l, k, r) ==
    /\ Settled(h, B) /\ K \subseteq Allocated(h, B)
    /\ Gets(h, g, K \cup {nb}, K)
    /\ nb \notin K
    /\ \A b \in K : Region(h, b, l[b + 2]) /\ k[b + 2] = l[b + 2]
    /\ DOMAIN k = {b + 2 : b \in K \cup {nb}}
    /\ k[nb + 2] = r /\ Region(g, nb, r)

\* Then the client owns the blocks that were kept, and the new one.
LEMMA OneMore ==
  ASSUME NEW h, NEW B, NEW K, NEW nb, NEW g, NEW l, NEW k, NEW r,
         Joins(h, B, K, nb, g, l, k, r)
  PROVE  Owned(g, k)
<1> USE DEF Joins
<1>1. PICK C : Settled(g, C) /\ Allocated(g, C) = K \cup {nb} /\ Keeps(h, g, K)
  BY DEF Gets
<1>2. \A b \in K : Region(g, b, k[b + 2])
  <2> TAKE b \in K
  <2>1. Region(h, b, l[b + 2]) /\ k[b + 2] = l[b + 2]
    OBVIOUS
  <2> QED BY <1>1, <2>1, RegionKept
<1>3. Lets(g, K \cup {nb}, k)
  BY <1>2 DEF Lets
<1> QED BY <1>1, <1>3 DEF Owned

\* The regions of the blocks that are kept are those of the new heap.
LEMMA NoneMore ==
  ASSUME NEW h, NEW B, Settled(h, B), NEW K, K \subseteq Allocated(h, B),
         NEW g, Gets(h, g, K, K), NEW l, NEW k,
         DOMAIN k = {b + 2 : b \in K},
         \A b \in K : Region(h, b, l[b + 2]) /\ k[b + 2] = l[b + 2]
  PROVE  Owned(g, k)
<1>1. PICK C : Settled(g, C) /\ Allocated(g, C) = K /\ Keeps(h, g, K)
  BY DEF Gets
<1>2. \A b \in K : Region(g, b, k[b + 2])
  <2> TAKE b \in K
  <2>1. Region(h, b, l[b + 2]) /\ k[b + 2] = l[b + 2]
    OBVIOUS
  <2> QED BY <1>1, <2>1, RegionKept
<1>3. Lets(g, K, k)
  BY <1>2 DEF Lets
<1> QED BY <1>1, <1>3 DEF Owned

\* The client fills rows of a block it has just been given.
Filling(h, K, nb, y, first, rows, g) ==
    /\ Gets(h, y, K \cup {nb}, K) /\ nb \notin K
    /\ first \in Nat /\ rows \in Nat /\ rows + 1 <= get_size(y, nb)
    /\ g = Fill(y, nb + 2, first, rows - 1)

\* The rows g holds then.
FilledIn(h, K, nb, y, first, rows, g) ==
    /\ Gets(h, g, K \cup {nb}, K) /\ get_size(g, nb) = get_size(y, nb)
    /\ next_blkp(g, nb) = next_blkp(y, nb)
    /\ \A i \in (nb + 2) .. (nb + 1 + rows) :
          g.mem[i] = IF i >= nb + 2 + first THEN Word(i - (nb + 2)) ELSE y.mem[i]

\* Filling rows of an allocated block disturbs no other.
LEMMA Filled ==
  ASSUME NEW h, NEW K, NEW nb, NEW y, NEW first, NEW rows, NEW g,
         Filling(h, K, nb, y, first, rows, g)
  PROVE  FilledIn(h, K, nb, y, first, rows, g)
<1>1. PICK C : Settled(y, C) /\ Allocated(y, C) = K \cup {nb} /\ Keeps(h, y, K)
  BY DEF Gets, Filling
<1>2. nb \in Allocated(y, C)
  BY <1>1
<1>3. /\ nb \in Nat /\ get_size(y, nb) \in Nat /\ next_blkp(y, nb) = nb + get_size(y, nb)
      /\ next_blkp(y, nb) <= y.top - 2 /\ y.top \in Nat /\ y \in Heaps
  BY <1>1, <1>2, Addresses
<1> first \in Nat /\ rows \in Nat /\ rows + 1 <= get_size(y, nb) /\ nb \notin K
  BY DEF Filling
<1>4. /\ g \in Heaps /\ Beside(g, y)
      /\ \A r \in Rows : g.mem[r] = IF r \in (nb + 2 + first) .. (nb + 2 + (rows - 1))
                                    THEN Word(r - (nb + 2)) ELSE y.mem[r]
  <2>1. nb + 2 \in Nat /\ rows - 1 \in Int /\ first \in Int
    BY <1>3
  <2>2. g = Fill(y, nb + 2, first, rows - 1)
    BY DEF Filling
  <2> DEFINE f == Fill(y, nb + 2, first, rows - 1)
  <2>3. /\ f \in Heaps /\ Beside(f, y)
        /\ \A r \in Rows : f.mem[r] = IF r \in (nb + 2 + first) .. (nb + 2 + (rows - 1))
                                      THEN Word(r - (nb + 2)) ELSE y.mem[r]
    BY <1>3, <2>1, RowsFilled
  <2> HIDE DEF f
  <2> QED BY <2>2, <2>3 DEF f
<1>5. Rewritten(y, nb, g)
  <2>1. \A r \in Rows : r \notin (nb + 2) .. next_blkp(y, nb)
                           => r \notin (nb + 2 + first) .. (nb + 2 + (rows - 1))
    BY <1>3
  <2> QED BY <1>4, <2>1 DEF Rewritten
<1>6. /\ Settled(g, C) /\ Allocated(g, C) = K \cup {nb} /\ get_size(g, nb) = get_size(y, nb)
      /\ Keeps(y, g, (K \cup {nb}) \ {nb})
  <2>1. nb \in C
    BY <1>2 DEF Allocated
  <2> QED BY <1>1, <1>2, <1>5, <2>1, DataWritten
<1>7. Gets(h, g, K \cup {nb}, K)
  <2>1. Keeps(y, g, K)
    <3>1. (K \cup {nb}) \ {nb} = K
      OBVIOUS
    <3> QED BY <1>6, <3>1
  <2>2. Keeps(h, g, K)
    BY <1>1, <2>1, KeepsOn
  <2> QED BY <1>6, <2>2 DEF Gets
<1>8. next_blkp(g, nb) = next_blkp(y, nb)
  BY <1>6 DEF next_blkp
<1>9. \A i \in (nb + 2) .. (nb + 1 + rows) :
         g.mem[i] = IF i >= nb + 2 + first THEN Word(i - (nb + 2)) ELSE y.mem[i]
  <2> TAKE i \in (nb + 2) .. (nb + 1 + rows)
  <2>1. i \in Nat /\ i <= y.top /\ i <= nb + 2 + (rows - 1)
    BY <1>3
  <2>2. i \in Rows
    BY <1>1, <2>1, Bounds DEF Settled
  <2>3. i \in (nb + 2 + first) .. (nb + 2 + (rows - 1)) <=> i >= nb + 2 + first
    BY <1>3, <2>1
  <2> QED BY <1>4, <2>2, <2>3
<1> QED BY <1>6, <1>7, <1>8, <1>9 DEF FilledIn

\* What every region of the client is, and that no two overlap.
LEMMA RegionsLieApart ==
  ASSUME NEW h, NEW l, Owned(h, l)
  PROVE  /\ \A p \in DOMAIN l : /\ p \in Nat /\ p % M = 0 /\ l[p].rows \in Nat
                                /\ p < MaxPages * PAGE_SZ
                                /\ p + l[p].rows <= MaxPages * PAGE_SZ
         /\ \A p, q \in DOMAIN l :
               p # q => (p .. (p + l[p].rows - 1)) \cap (q .. (q + l[q].rows - 1)) = {}
<1>1. CASE Fresh(h) /\ DOMAIN l = {}
  BY <1>1
<1>2. CASE \E B : Settled(h, B) /\ Lets(h, Allocated(h, B), l)
  <2>1. PICK B : Settled(h, B) /\ Lets(h, Allocated(h, B), l)
    BY <1>2
  <2>2. ASSUME NEW p \in DOMAIN l
        PROVE  \E b \in Allocated(h, B) :
                  /\ p = b + 2 /\ b \in Nat /\ p % M = 0 /\ l[p].rows \in Nat
                  /\ p + l[p].rows + 1 <= next_blkp(h, b) + 2
                  /\ next_blkp(h, b) \in Nat /\ next_blkp(h, b) + 2 <= MaxPages * PAGE_SZ
                  /\ MaxPages * PAGE_SZ \in Nat
    <3>1. PICK b \in Allocated(h, B) : p = b + 2
      BY <2>1 DEF Lets
    <3>2. Region(h, b, l[p])
      BY <2>1, <3>1 DEF Lets
    <3>3. l[p].rows \in Nat /\ l[p].rows + 1 <= get_size(h, b)
      BY <3>2 DEF Region
    <3>4. /\ b \in Nat /\ (b + 2) % M = 0 /\ get_size(h, b) \in Nat
          /\ next_blkp(h, b) = b + get_size(h, b) /\ next_blkp(h, b) \in Nat
          /\ next_blkp(h, b) <= h.top - 2 /\ h.top \in Nat /\ h.top <= MaxPages * PAGE_SZ
      BY <2>1, Addresses
    <3>5. MaxPages * PAGE_SZ \in Nat
      BY AllocatorAssumption
    <3> QED BY <3>1, <3>3, <3>4, <3>5
  <2>3. \A p \in DOMAIN l : /\ p \in Nat /\ p % M = 0 /\ l[p].rows \in Nat
                            /\ p < MaxPages * PAGE_SZ
                            /\ p + l[p].rows <= MaxPages * PAGE_SZ
    <3> TAKE p \in DOMAIN l
    <3>1. PICK b \in Allocated(h, B) :
              /\ p = b + 2 /\ b \in Nat /\ p % M = 0 /\ l[p].rows \in Nat
              /\ p + l[p].rows + 1 <= next_blkp(h, b) + 2
              /\ next_blkp(h, b) \in Nat /\ next_blkp(h, b) + 2 <= MaxPages * PAGE_SZ
              /\ MaxPages * PAGE_SZ \in Nat
      BY <2>2
    <3> QED BY <3>1
  <2>4. ASSUME NEW p \in DOMAIN l, NEW q \in DOMAIN l, p # q
        PROVE  (p .. (p + l[p].rows - 1)) \cap (q .. (q + l[q].rows - 1)) = {}
    <3>1. PICK b \in Allocated(h, B) :
              /\ p = b + 2 /\ b \in Nat /\ p % M = 0 /\ l[p].rows \in Nat
              /\ p + l[p].rows + 1 <= next_blkp(h, b) + 2
              /\ next_blkp(h, b) \in Nat /\ next_blkp(h, b) + 2 <= MaxPages * PAGE_SZ
              /\ MaxPages * PAGE_SZ \in Nat
      BY <2>2
    <3>2. PICK c \in Allocated(h, B) :
              /\ q = c + 2 /\ c \in Nat /\ q % M = 0 /\ l[q].rows \in Nat
              /\ q + l[q].rows + 1 <= next_blkp(h, c) + 2
              /\ next_blkp(h, c) \in Nat /\ next_blkp(h, c) + 2 <= MaxPages * PAGE_SZ
              /\ MaxPages * PAGE_SZ \in Nat
      BY <2>2
    <3>3. b # c /\ b \in B /\ c \in B /\ Sound(h) /\ Tiled(h, B)
      BY <2>1, <2>4, <3>1, <3>2 DEF Settled, Allocated
    <3>4. next_blkp(h, b) <= c \/ next_blkp(h, c) <= b
      BY <3>3, Apart
    <3> DEFINE m == l[p].rows
               n == l[q].rows
    <3> HIDE DEF m, n
    <3>5. ASSUME NEW i, i \in p .. (p + m - 1), i \in q .. (q + n - 1)
          PROVE  FALSE
      <4>1. /\ i \in Int /\ p <= i /\ i < p + m /\ q <= i /\ i < q + n
            /\ m \in Nat /\ n \in Nat
        BY <3>1, <3>2, <3>5 DEF m, n
      <4> QED BY <3>1, <3>2, <3>4, <4>1 DEF m, n
    <3> QED BY <3>5 DEF m, n
  <2> QED BY <2>3, <2>4
<1> QED BY <1>1, <1>2 DEF Owned

\* The client takes what it was given.
LEMMA Obtained ==
  ASSUME NEW h, NEW B, Settled(h, B), NEW l, Lets(h, Allocated(h, B), l),
         NEW size \in Nat, NEW res, Serving(h, B, BlockSize(size), res),
         NEW g, NEW k,
         res.p = NULL => g = res.h /\ k = l,
         res.p # NULL => /\ g = Fill(res.h, res.p, 0, size - 1)
                         /\ k = With(l, res.p, [rows |-> size, moved |-> FALSE])
  PROVE  /\ Owned(g, k)
         /\ res.p # NULL => res.p \notin DOMAIN l
<1> DEFINE A == Allocated(h, B)
<1>1. \A b \in A : b \in Nat /\ Region(h, b, l[b + 2])
  BY Addresses DEF Lets
<1>2. DOMAIN l = {b + 2 : b \in A}
  BY DEF Lets
<1>3. CASE res.p = NULL
  <2>1. Gets(h, g, A, A)
    <3>1. ASSUME NEW c \in Nat, res.p = c + 2 PROVE FALSE
      BY <1>3, <3>1 DEF NULL
    <3> QED BY <1>3, <3>1 DEF Serving
  <2>2. k = l
    BY <1>3
  <2> HIDE DEF A
  <2>3. Owned(g, k)
    BY <1>1, <1>2, <2>1, <2>2, NoneMore DEF A
  <2> QED BY <1>3, <2>3
<1>4. CASE res.p # NULL
  <2> DEFINE y == res.h
             r == [rows |-> size, moved |-> FALSE]
  <2>1. PICK nb \in Nat \ A : /\ nb # 0 /\ res.p = nb + 2
                              /\ Gets(h, y, A \cup {nb}, A)
                              /\ get_size(y, nb) = BlockSize(size)
    BY <1>4 DEF Serving
  <2>2. size + 1 <= get_size(y, nb)
    BY <2>1, BlockSizes
  <2>3. g = Fill(y, nb + 2, 0, size - 1) /\ k = With(l, nb + 2, r)
    BY <1>4, <2>1
  <2> HIDE DEF y
  <2>4. /\ Gets(h, g, A \cup {nb}, A) /\ get_size(g, nb) = get_size(y, nb)
        /\ \A i \in (nb + 2) .. (nb + 1 + size) :
              g.mem[i] = IF i >= nb + 2 + 0 THEN Word(i - (nb + 2)) ELSE y.mem[i]
    <3>1. Filling(h, A, nb, y, 0, size, g)
      BY <2>1, <2>2, <2>3 DEF Filling
    <3>2. FilledIn(h, A, nb, y, 0, size, g)
      BY <3>1, Filled
    <3> QED BY <3>2 DEF FilledIn
  <2>5. Region(g, nb, r)
    <3>1. \A i \in (nb + 2) .. (nb + 1 + size) : g.mem[i] = Word(i - (nb + 2))
      BY <2>1, <2>4
    <3> QED BY <2>2, <2>4, <3>1 DEF Region
  <2>6. nb + 2 \notin DOMAIN l
    BY <1>1, <1>2, <2>1
  <2>7. DOMAIN k = DOMAIN l \cup {nb + 2} /\ k[nb + 2] = r
        /\ \A q \in DOMAIN l : q # nb + 2 => k[q] = l[q]
    BY <2>3 DEF With
  <2>8. \A b \in A : k[b + 2] = l[b + 2]
    BY <1>2, <2>6, <2>7
  <2>9. DOMAIN k = {b + 2 : b \in A \cup {nb}}
    BY <1>2, <2>7
  <2> HIDE DEF A, r
  <2>10. Joins(h, B, A, nb, g, l, k, r)
    BY <1>1, <2>1, <2>4, <2>5, <2>7, <2>8, <2>9 DEF Joins, A
  <2>11. Owned(g, k)
    BY <2>10, OneMore
  <2> QED BY <2>1, <2>6, <2>11
<1> QED BY <1>3, <1>4

\* The client takes what it was given in place of a region.
LEMMA Swapped ==
  ASSUME NEW h, NEW B, Settled(h, B), NEW l, Lets(h, Allocated(h, B), l),
         NEW bp \in Allocated(h, B),
         NEW rsize \in Nat, NEW res, Exchanging(h, B, bp, rsize, res),
         NEW g, NEW k,
         res.p = NULL => g = res.h /\ k = l,
         res.p # NULL =>
            /\ g = Fill(res.h, res.p, l[bp + 2].rows, rsize - 1)
            /\ k = With([q \in DOMAIN l \ {bp + 2} |-> l[q]], res.p,
                        [rows |-> rsize, moved |-> l[bp + 2].moved \/ res.p # bp + 2])
  PROVE  /\ Owned(g, k)
         /\ res.p # NULL => res.p \notin DOMAIN l \ {bp + 2}
<1> DEFINE A == Allocated(h, B)
           K == A \ {bp}
           old == l[bp + 2]
<1>1. \A b \in A : b \in Nat /\ Region(h, b, l[b + 2])
  BY Addresses DEF Lets
<1>2. DOMAIN l = {b + 2 : b \in A}
  BY DEF Lets
<1>3. CASE res.p = NULL
  <2>1. Gets(h, g, A, A)
    <3>1. ASSUME NEW c \in Nat \cup {bp}, res.p = c + 2 PROVE FALSE
      BY <1>1, <1>3, <3>1 DEF NULL
    <3> QED BY <1>3, <3>1 DEF Exchanging
  <2>2. k = l
    BY <1>3
  <2> HIDE DEF A
  <2>3. Owned(g, k)
    BY <1>1, <1>2, <2>1, <2>2, NoneMore DEF A
  <2> QED BY <1>3, <2>3
<1>4. CASE res.p # NULL
  <2> DEFINE y == res.h
  <2>1. PICK nb \in (Nat \ A) \cup {bp} :
           /\ nb # 0 /\ res.p = nb + 2
           /\ Gets(h, y, K \cup {nb}, K)
           /\ rsize + 1 <= get_size(y, nb)
           /\ nb = bp => /\ get_size(y, bp) <= get_size(h, bp)
                         /\ \A r \in (bp + 2) .. (next_blkp(y, bp) - 1) :
                               y.mem[r] = h.mem[r]
    BY <1>4 DEF Exchanging
  <2> DEFINE r == [rows |-> rsize, moved |-> old.moved \/ nb + 2 # bp + 2]
             others == [q \in DOMAIN l \ {bp + 2} |-> l[q]]
  <2>2. g = Fill(y, nb + 2, old.rows, rsize - 1) /\ k = With(others, nb + 2, r)
    BY <1>4, <2>1
  <2>3. nb \in Nat /\ nb \notin K /\ bp \in Nat /\ K \subseteq A
    BY <1>1, <2>1
  <2>4. Region(h, bp, old)
    BY <1>1
  <2>5. old.rows \in Nat /\ old.moved \in BOOLEAN /\ old.rows + 1 <= get_size(h, bp)
    BY <2>4 DEF Region
  <2>6. DOMAIN others = DOMAIN l \ {bp + 2} /\ \A q \in DOMAIN others : others[q] = l[q]
    OBVIOUS
  <2> HIDE DEF y, K, others, old
  <2>7. /\ Gets(h, g, K \cup {nb}, K) /\ get_size(g, nb) = get_size(y, nb)
        /\ next_blkp(g, nb) = next_blkp(y, nb)
        /\ \A i \in (nb + 2) .. (nb + 1 + rsize) :
              g.mem[i] = IF i >= nb + 2 + old.rows THEN Word(i - (nb + 2)) ELSE y.mem[i]
    <3>1. Gets(h, y, K \cup {nb}, K) /\ rsize + 1 <= get_size(y, nb)
      BY <2>1
    <3>2. g = Fill(y, nb + 2, old.rows, rsize - 1)
      BY <2>2
    <3>3. Filling(h, K, nb, y, old.rows, rsize, g)
      BY <2>3, <2>5, <3>1, <3>2 DEF Filling
    <3> HIDE DEF r, A
    <3>4. FilledIn(h, K, nb, y, old.rows, rsize, g)
      BY <3>3, Filled
    <3> QED BY <3>4 DEF FilledIn
  <2>8. Region(g, nb, r)
    <3>1. r \in [rows : Nat, moved : BOOLEAN] /\ r.rows = rsize
      BY <2>5
    <3>2. ASSUME ~r.moved, NEW i \in (nb + 2) .. (nb + 1 + rsize)
          PROVE  g.mem[i] = Word(i - (nb + 2)) \/ i = next_blkp(g, nb)
      <4>1. nb = bp /\ ~old.moved /\ i \in Nat
        <5>1. r.moved = (old.moved \/ nb + 2 # bp + 2)
          BY Zenon
        <5>2. ~old.moved /\ nb + 2 = bp + 2
          BY <3>2, <5>1, Zenon
        <5> QED BY <2>3, <3>2, <5>2
      <4>2. CASE i >= nb + 2 + old.rows
        BY <2>7, <3>2, <4>2
      <4>3. CASE ~(i >= nb + 2 + old.rows) /\ i # next_blkp(g, nb)
        <5>1. g.mem[i] = y.mem[i]
          BY <2>7, <3>2, <4>3
        <5>2. /\ next_blkp(y, nb) = nb + get_size(y, nb)
              /\ next_blkp(h, bp) = bp + get_size(h, bp)
              /\ get_size(y, nb) \in Nat /\ get_size(h, bp) \in Nat
          <6>1. PICK C : Settled(y, C) /\ Allocated(y, C) = K \cup {nb}
            BY <2>1 DEF Gets
          <6>2. nb \in Allocated(y, C)
            BY <6>1
          <6> QED BY <6>1, <6>2, Addresses
        <5>3. i \in (bp + 2) .. (next_blkp(y, bp) - 1)
          BY <2>1, <2>3, <2>7, <3>2, <4>1, <4>3, <5>2
        <5>4. y.mem[i] = h.mem[i]
          BY <2>1, <4>1, <5>3
        <5>5. i \in (bp + 2) .. (bp + 1 + old.rows) /\ i # next_blkp(h, bp)
          BY <2>1, <2>3, <2>5, <4>1, <4>3, <5>2, <5>3
        <5>6. h.mem[i] = Word(i - (bp + 2))
          BY <2>4, <4>1, <5>5 DEF Region
        <5> QED BY <4>1, <5>1, <5>4, <5>6
      <4> QED BY <4>2, <4>3
    <3>3. r.rows + 1 <= get_size(g, nb)
      BY <2>1, <2>7, <3>1
    <3> HIDE DEF r
    <3> QED BY <3>1, <3>2, <3>3 DEF Region
  <2>9. DOMAIN others = {b + 2 : b \in K}
    BY <1>1, <1>2, <2>6 DEF K
  <2>10. nb + 2 \notin DOMAIN others
    BY <1>1, <2>3, <2>9
  <2> HIDE DEF r
  <2>11. DOMAIN k = DOMAIN others \cup {nb + 2} /\ k[nb + 2] = r
         /\ \A q \in DOMAIN others : q # nb + 2 => k[q] = others[q]
    BY <2>2 DEF With
  <2>12. \A b \in K : k[b + 2] = l[b + 2]
    BY <2>6, <2>9, <2>10, <2>11
  <2>13. DOMAIN k = {b + 2 : b \in K \cup {nb}}
    BY <2>9, <2>11
  <2>14. \A b \in K : Region(h, b, l[b + 2])
    BY <1>1, <2>3
  <2> HIDE DEF A
  <2>15. Joins(h, B, K, nb, g, l, k, r)
    BY <2>3, <2>7, <2>8, <2>11, <2>12, <2>13, <2>14 DEF Joins, A
  <2>16. Owned(g, k)
    BY <2>15, OneMore
  <2> QED BY <2>1, <2>6, <2>10, <2>16
<1> QED BY <1>3, <1>4

\* The client: it makes none of the calls excluded in Allocator, and asks sf_memalign for
\* powers of two, as sfmm.h says, of which those it serves are multiples of the smallest
\* block.
Clients == Careful /\ \A align \in Aligns : align >= M => align % M = 0

\* A call that gives a region back takes its block from the allocated ones.
LEMMA FreeOwned ==
  ASSUME NEW h, NEW l, Owned(h, l), NEW p \in DOMAIN l
  PROVE  Owned(sf_free(h, p), [q \in DOMAIN l \ {p} |-> l[q]])
<1>1. PICK B : Settled(h, B) /\ Lets(h, Allocated(h, B), l)
  BY DEF Owned
<1>2. PICK bp \in Allocated(h, B) : p = bp + 2
  BY <1>1 DEF Lets
<1> DEFINE A == Allocated(h, B)
           K == A \ {bp}
           g == sf_free(h, p)
           k == [q \in DOMAIN l \ {p} |-> l[q]]
<1>3. Gets(h, g, K, K)
  <2>1. Flagged(h, B, bp) /\ Sound(h) /\ Tiled(h, B) /\ Listing(h, Unallocated(h, B))
    BY <1>1, FlaggedBut DEF Settled
  <2> QED BY <1>2, <2>1, BlockFreed
<1>4. \A b \in A : b \in Nat /\ Region(h, b, l[b + 2])
  BY <1>1, Addresses DEF Lets
<1>5. DOMAIN l = {b + 2 : b \in A}
  BY <1>1 DEF Lets
<1>6. DOMAIN k = {b + 2 : b \in K}
  BY <1>2, <1>4, <1>5
<1>7. \A b \in K : Region(h, b, l[b + 2]) /\ k[b + 2] = l[b + 2]
  BY <1>2, <1>4, <1>5
<1>8. K \subseteq Allocated(h, B)
  OBVIOUS
<1> HIDE DEF g, k, K
<1>9. Owned(g, k)
  BY <1>1, <1>3, <1>6, <1>7, <1>8, NoneMore
<1> QED BY <1>9 DEF g, k

\* The client writes a region that was moved.
LEMMA RefillOwned ==
  ASSUME NEW h, NEW l, Owned(h, l), NEW p \in DOMAIN l
  PROVE  Owned(Fill(h, p, 0, l[p].rows - 1), [l EXCEPT ![p].moved = FALSE])
<1>1. PICK B : Settled(h, B) /\ Lets(h, Allocated(h, B), l)
  BY DEF Owned
<1>2. PICK bp \in Allocated(h, B) : p = bp + 2
  BY <1>1 DEF Lets
<1> DEFINE A == Allocated(h, B)
           K == A \ {bp}
           old == l[p]
           r == [old EXCEPT !.moved = FALSE]
           g == Fill(h, p, 0, old.rows - 1)
           k == [l EXCEPT ![p].moved = FALSE]
<1>3. \A b \in A : b \in Nat /\ Region(h, b, l[b + 2])
  BY <1>1, Addresses DEF Lets
<1>4. DOMAIN l = {b + 2 : b \in A}
  BY <1>1 DEF Lets
<1>5. /\ old \in [rows : Nat, moved : BOOLEAN] /\ old.rows \in Nat
      /\ old.rows + 1 <= get_size(h, bp)
  <2>1. Region(h, bp, old)
    BY <1>2, <1>3
  <2> QED BY <2>1 DEF Region
<1>6. r \in [rows : Nat, moved : BOOLEAN] /\ r.rows = old.rows /\ r.moved = FALSE
  BY <1>5
<1>7. DOMAIN k = DOMAIN l /\ k[p] = r /\ \A q \in DOMAIN l : q # p => k[q] = l[q]
  OBVIOUS
<1>8. K \cup {bp} = A /\ bp \notin K /\ K \subseteq Allocated(h, B)
  OBVIOUS
<1> HIDE DEF r, k, old, K
<1>9. FilledIn(h, K, bp, h, 0, old.rows, g)
  <2>1. Gets(h, h, K \cup {bp}, K)
    <3>1. Keeps(h, h, K)
      BY DEF Keeps
    <3> QED BY <1>1, <1>8, <3>1 DEF Gets
  <2>2. g = Fill(h, bp + 2, 0, old.rows - 1)
    BY <1>2
  <2> HIDE DEF g
  <2>3. Filling(h, K, bp, h, 0, old.rows, g)
    BY <1>5, <1>8, <2>1, <2>2 DEF Filling
  <2> QED BY <2>3, Filled
<1> HIDE DEF g
<1>10. Region(g, bp, r)
  <2>1. \A i \in (bp + 2) .. (bp + 1 + r.rows) : g.mem[i] = Word(i - (bp + 2))
    BY <1>3, <1>6, <1>9 DEF FilledIn
  <2>2. get_size(g, bp) = get_size(h, bp)
    BY <1>9 DEF FilledIn
  <2> QED BY <1>5, <1>6, <2>1, <2>2 DEF Region
<1>11. \A b \in K : Region(h, b, l[b + 2]) /\ k[b + 2] = l[b + 2]
  BY <1>2, <1>3, <1>4, <1>7, <1>8
<1>12. Gets(h, g, K \cup {bp}, K)
  BY <1>9 DEF FilledIn
<1>13. DOMAIN k = {b + 2 : b \in K \cup {bp}} /\ k[bp + 2] = r
  BY <1>2, <1>4, <1>7, <1>8
<1> HIDE DEF A
<1>14. Joins(h, B, K, bp, g, l, k, r)
  BY <1>1, <1>8, <1>10, <1>11, <1>12, <1>13 DEF Joins
<1>15. Owned(g, k)
  BY <1>14, OneMore
<1> QED BY <1>15 DEF g, k, old

\* Every call keeps the heap in order, and its allocated blocks the client's regions.
LEMMA InitOwned == Init => Owned(heap, live)
<1> SUFFICES ASSUME Init PROVE Owned(heap, live)
  OBVIOUS
<1>1. DOMAIN live = {}
  BY DEF Init
<1>2. heap \in Heaps
  <2>1. [r \in 0 .. (MaxPages * PAGE_SZ) |-> Junk] \in [Rows -> Cell]
    BY DEF Rows, Cell
  <2>2. [i \in 0 .. (NUM_FREE_LISTS - 1) |-> <<>>] \in [0 .. WildernessList -> Seq(Nat)]
    BY DEF WildernessList
  <2> QED BY <2>1, <2>2 DEF Init, Heaps
<1>3. heap.top = 0 /\ \A i \in 0 .. WildernessList : heap.lists[i] = <<>>
  BY DEF Init, WildernessList
<1> QED BY <1>1, <1>2, <1>3 DEF Owned, Fresh

\* What sf_malloc and sf_memalign return, before the client takes it.
LEMMA MallocServes ==
  ASSUME Clients, Owned(heap, live), NEW size \in Sizes, Malloc(size)
  PROVE  /\ Owned(heap', live')
         /\ sf_malloc(heap, size).p # NULL => sf_malloc(heap, size).p \notin DOMAIN live
<1> DEFINE h == Ready(heap)
           res == sf_malloc(heap, size)
<1>1. PICK B : Settled(h, B) /\ Lets(h, Allocated(h, B), live)
  BY OwnedReady
<1>2. size \in Nat
  BY AllocatorAssumption
<1>3. find_fit(h, BlockSize(size)) # NULL \/ HasWilderness(h)
  BY DEF Malloc, Clients, FindsRoom
<1>4. Serving(h, B, BlockSize(size), res)
  BY <1>1, <1>2, <1>3, Malloced
<1>5. /\ res.p = NULL => heap' = res.h /\ live' = live
      /\ res.p # NULL => /\ heap' = Fill(res.h, res.p, 0, size - 1)
                         /\ live' = With(live, res.p, [rows |-> size, moved |-> FALSE])
  BY DEF Malloc, Obtain
<1> HIDE DEF h, res
<1>6. Owned(heap', live') /\ (res.p # NULL => res.p \notin DOMAIN live)
  BY <1>1, <1>2, <1>4, <1>5, Obtained
<1> QED BY <1>6 DEF res

\* What sf_memalign returns is taken by the client, and is aligned.
LEMMA MemalignServes ==
  ASSUME Clients, Owned(heap, live), NEW size \in Sizes, NEW align \in Aligns,
         Memalign(size, align)
  PROVE  LET res == sf_memalign(heap, size, align)
         IN  /\ Owned(heap', live')
             /\ res.p # NULL => res.p \notin DOMAIN live
             /\ res.p = NULL => UNCHANGED live
             /\ res.p # NULL => res.p % align = 0
<1> DEFINE h == Ready(heap)
           res == sf_memalign(heap, size, align)
<1>1. PICK B : Settled(h, B) /\ Lets(h, Allocated(h, B), live)
  BY OwnedReady
<1>2. size \in Nat /\ align \in Nat
  BY AllocatorAssumption
<1>3. /\ res.p = NULL => heap' = res.h /\ live' = live
      /\ res.p # NULL => /\ heap' = Fill(res.h, res.p, 0, size - 1)
                         /\ live' = With(live, res.p, [rows |-> size, moved |-> FALSE])
  BY DEF Memalign, Obtain
<1>4. CASE align < M \/ size = 0
  <2>1. res.p = NULL /\ res.h = heap
    BY <1>4 DEF sf_memalign, Failed
  <2> HIDE DEF res
  <2>2. heap' = heap /\ live' = live
    BY <1>3, <2>1
  <2> QED BY <2>1, <2>2 DEF res
<1>5. CASE ~(align < M \/ size = 0)
  <2>1. size # 0 /\ align >= M /\ align % M = 0
    BY <1>2, <1>5, Unit DEF Clients
  <2>2. find_fit(h, BlockSize(size + M + align)) # NULL \/ HasWilderness(h)
    BY DEF Memalign, Clients, FindsRoom
  <2>3. Serving(h, B, BlockSize(size), res) /\ (res.p # NULL => res.p % align = 0)
    BY <1>1, <1>2, <2>1, <2>2, Memaligned
  <2> HIDE DEF h, res
  <2>4. Owned(heap', live') /\ (res.p # NULL => res.p \notin DOMAIN live)
    BY <1>1, <1>2, <1>3, <2>3, Obtained
  <2> QED BY <1>3, <2>3, <2>4 DEF res
<1> QED BY <1>4, <1>5

\* What sf_realloc returns takes the place of the region.
LEMMA ReallocServes ==
  ASSUME Clients, Owned(heap, live), NEW p \in DOMAIN live, NEW rsize \in Sizes,
         Realloc(p, rsize)
  PROVE  LET res == sf_realloc(heap, p, rsize)
         IN  /\ Owned(heap', live')
             /\ res.p # NULL => res.p \notin DOMAIN live \ {p}
<1> DEFINE res == sf_realloc(heap, p, rsize)
<1>1. PICK B : Settled(heap, B) /\ Lets(heap, Allocated(heap, B), live)
  BY DEF Owned
<1>2. PICK bp \in Allocated(heap, B) : p = bp + 2
  BY <1>1 DEF Lets
<1>3. p - 2 = bp /\ rsize \in Nat
  BY <1>1, <1>2, Addresses, AllocatorAssumption
<1>4. Ready(heap) = heap
  <2>1. heap.top # 0
    BY <1>1, Bounds, Unit DEF Settled
  <2> QED BY <2>1 DEF Ready
<1>5. rsize # get_size(heap, bp)
  BY <1>3 DEF Realloc, Clients
<1>6. rsize > get_size(heap, bp)
        => find_fit(heap, BlockSize(rsize)) # NULL \/ HasWilderness(heap)
  BY <1>3, <1>4 DEF Realloc, Clients, FindsRoom
<1>7. Exchanging(heap, B, bp, rsize, res)
  BY <1>1, <1>2, <1>3, <1>5, <1>6, Reallocated
<1>8. /\ res.p = NULL => heap' = res.h /\ live' = live
      /\ res.p # NULL =>
            /\ heap' = Fill(res.h, res.p, live[bp + 2].rows, rsize - 1)
            /\ live' = With([q \in DOMAIN live \ {bp + 2} |-> live[q]], res.p,
                            [rows |-> rsize, moved |-> live[bp + 2].moved \/ res.p # bp + 2])
  BY <1>2 DEF Realloc, Exchanged, Without
<1> HIDE DEF res
<1>9. Owned(heap', live') /\ (res.p # NULL => res.p \notin DOMAIN live \ {bp + 2})
  BY <1>1, <1>3, <1>7, <1>8, Swapped
<1> QED BY <1>2, <1>9 DEF res

-----------------------------------------------------------------------------
(* The theorems *)

\* The regions of l, as the abstract heap sees them.
RowsOf(l) == [p \in DOMAIN l |-> l[p].rows]

\* A new region beside others is one the abstract heap may give.
LEMMA GivenBeside ==
  ASSUME NEW g, NEW k, Owned(g, k), NEW others, NEW p, p \notin DOMAIN others,
         NEW r, k = With(others, p, r)
  PROVE  /\ p \in Regions!Places
         /\ RowsOf(k) = Regions!With(p, r.rows, RowsOf(others))
         /\ Regions!MayGive(p, r.rows, RowsOf(others))
<1>1. DOMAIN k = DOMAIN others \cup {p} /\ k[p] = r
      /\ \A q \in DOMAIN others : k[q] = others[q]
  BY DEF With
<1>2. /\ p \in Nat /\ p % M = 0 /\ r.rows \in Nat /\ p < MaxPages * PAGE_SZ
      /\ p + r.rows <= MaxPages * PAGE_SZ
  BY <1>1, RegionsLieApart
<1>3. \A q \in DOMAIN others :
         (p .. (p + r.rows - 1)) \cap (q .. (q + others[q].rows - 1)) = {}
  <2> TAKE q \in DOMAIN others
  <2>1. p \in DOMAIN k /\ q \in DOMAIN k /\ p # q /\ k[p] = r /\ k[q] = others[q]
    BY <1>1
  <2>2. (p .. (p + k[p].rows - 1)) \cap (q .. (q + k[q].rows - 1)) = {}
    BY <2>1, RegionsLieApart
  <2> QED BY <2>1, <2>2
<1>4. p \in Regions!Places
  <2>1. MaxPages * PAGE_SZ \in Nat
    BY AllocatorAssumption
  <2> QED BY <1>2, <2>1 DEF Regions!Places
<1>5. RowsOf(k) = Regions!With(p, r.rows, RowsOf(others))
  BY <1>1 DEF RowsOf, Regions!With
<1>6. Regions!MayGive(p, r.rows, RowsOf(others))
  BY <1>2, <1>3 DEF Regions!MayGive, Regions!Span, RowsOf
<1> QED BY <1>4, <1>5, <1>6

\* A region that was obtained, as the abstract heap sees it.
LEMMA AbstractObtain ==
  ASSUME Owned(heap', live'), NEW p, p \notin DOMAIN live, NEW n \in Sizes,
         live' = With(live, p, [rows |-> n, moved |-> FALSE])
  PROVE  Regions!Next
<1> DEFINE r == [rows |-> n, moved |-> FALSE]
<1>1. /\ p \in Regions!Places
      /\ RowsOf(live') = Regions!With(p, n, RowsOf(live))
      /\ Regions!MayGive(p, n, RowsOf(live))
  <2>1. r.rows = n /\ live' = With(live, p, r)
    OBVIOUS
  <2> HIDE DEF r
  <2> QED BY <2>1, GivenBeside
<1>2. Regions!Obtain(p, n)
  BY <1>1 DEF Regions!Obtain, RowsOf
<1> QED BY <1>1, <1>2 DEF Regions!Next

\* A region that was replaced, as the abstract heap sees it.
LEMMA AbstractReplace ==
  ASSUME Owned(heap', live'), NEW p \in DOMAIN live, NEW q, q \notin DOMAIN live \ {p},
         NEW n \in Sizes, NEW m, live' = With(Without(p), q, [rows |-> n, moved |-> m])
  PROVE  Regions!Next
<1> DEFINE r == [rows |-> n, moved |-> m]
<1>1. r.rows = n /\ live' = With(Without(p), q, r)
  OBVIOUS
<1> HIDE DEF r
<1>2. q \notin DOMAIN Without(p)
  BY DEF Without
<1>3. RowsOf(Without(p)) = Regions!Except(p)
  BY DEF RowsOf, Without, Regions!Except
<1>4. /\ q \in Regions!Places
      /\ RowsOf(live') = Regions!With(q, n, Regions!Except(p))
      /\ Regions!MayGive(q, n, Regions!Except(p))
  BY <1>1, <1>2, <1>3, GivenBeside
<1>5. Regions!Replace(p, q, n)
  BY <1>4 DEF Regions!Replace, RowsOf
<1>6. p \in DOMAIN RowsOf(live)
  BY DEF RowsOf
<1> QED BY <1>4, <1>5, <1>6 DEF Regions!Next, RowsOf

\* Every call keeps the heap in order, and does to the regions what an abstract heap may do.
LEMMA Step ==
  ASSUME Clients, Owned(heap, live), [Next]_vars
  PROVE  Owned(heap', live') /\ (Regions!Next \/ UNCHANGED RowsOf(live))
<1>1. ASSUME NEW size \in Sizes, Malloc(size)
      PROVE  Owned(heap', live') /\ (Regions!Next \/ UNCHANGED RowsOf(live))
  <2> DEFINE res == sf_malloc(heap, size)
  <2>1. /\ Owned(heap', live') /\ (res.p # NULL => res.p \notin DOMAIN live)
    BY <1>1, MallocServes
  <2>2. /\ res.p = NULL => live' = live
        /\ res.p # NULL => live' = With(live, res.p, [rows |-> size, moved |-> FALSE])
    BY <1>1 DEF Malloc, Obtain
  <2> HIDE DEF res
  <2>3. CASE res.p = NULL
    BY <2>1, <2>2, <2>3 DEF RowsOf
  <2>4. CASE res.p # NULL
    BY <2>1, <2>2, <2>4, AbstractObtain
  <2> QED BY <2>3, <2>4
<1>2. ASSUME NEW size \in Sizes, NEW align \in Aligns, Memalign(size, align)
      PROVE  Owned(heap', live') /\ (Regions!Next \/ UNCHANGED RowsOf(live))
  <2> DEFINE res == sf_memalign(heap, size, align)
  <2>1. /\ Owned(heap', live') /\ (res.p # NULL => res.p \notin DOMAIN live)
    BY <1>2, MemalignServes
  <2>2. /\ res.p = NULL => live' = live
        /\ res.p # NULL => live' = With(live, res.p, [rows |-> size, moved |-> FALSE])
    BY <1>2 DEF Memalign, Obtain
  <2> HIDE DEF res
  <2>3. CASE res.p = NULL
    BY <2>1, <2>2, <2>3 DEF RowsOf
  <2>4. CASE res.p # NULL
    BY <2>1, <2>2, <2>4, AbstractObtain
  <2> QED BY <2>3, <2>4
<1>3. ASSUME NEW p \in DOMAIN live, Free(p)
      PROVE  Owned(heap', live') /\ (Regions!Next \/ UNCHANGED RowsOf(live))
  <2>1. heap' = sf_free(heap, p) /\ live' = [q \in DOMAIN live \ {p} |-> live[q]]
    BY <1>3 DEF Free, Without
  <2>2. Owned(sf_free(heap, p), [q \in DOMAIN live \ {p} |-> live[q]])
    BY FreeOwned
  <2>3. Regions!Release(p)
    BY <2>1 DEF Regions!Release, Regions!Except
  <2>4. p \in DOMAIN RowsOf(live)
    BY DEF RowsOf
  <2> QED BY <2>1, <2>2, <2>3, <2>4 DEF Regions!Next, RowsOf
<1>4. ASSUME NEW p \in DOMAIN live, NEW rsize \in Sizes, Realloc(p, rsize)
      PROVE  Owned(heap', live') /\ (Regions!Next \/ UNCHANGED RowsOf(live))
  <2> DEFINE res == sf_realloc(heap, p, rsize)
  <2>1. /\ Owned(heap', live') /\ (res.p # NULL => res.p \notin DOMAIN live \ {p})
    BY <1>4, ReallocServes
  <2>2. /\ res.p = NULL => live' = live
        /\ res.p # NULL =>
              live' = With(Without(p), res.p,
                           [rows |-> rsize, moved |-> live[p].moved \/ res.p # p])
    BY <1>4 DEF Realloc, Exchanged
  <2> HIDE DEF res
  <2>3. CASE res.p = NULL
    BY <2>1, <2>2, <2>3 DEF RowsOf
  <2>4. CASE res.p # NULL
    BY <2>1, <2>2, <2>4, AbstractReplace
  <2> QED BY <2>3, <2>4
<1>5. ASSUME NEW p \in DOMAIN live, Refill(p)
      PROVE  Owned(heap', live') /\ (Regions!Next \/ UNCHANGED RowsOf(live))
  <2>1. heap' = Fill(heap, p, 0, live[p].rows - 1) /\ live' = [live EXCEPT ![p].moved = FALSE]
    BY <1>5 DEF Refill
  <2>2. Owned(Fill(heap, p, 0, live[p].rows - 1), [live EXCEPT ![p].moved = FALSE])
    BY RefillOwned
  <2>3. /\ DOMAIN live' = DOMAIN live
        /\ live'[p] = [live[p] EXCEPT !.moved = FALSE]
        /\ \A q \in DOMAIN live : q # p => live'[q] = live[q]
    BY <2>1
  <2>4. live[p] \in [rows : Nat, moved : BOOLEAN]
    <3>1. PICK B : Settled(heap, B) /\ Lets(heap, Allocated(heap, B), live)
      BY DEF Owned
    <3> QED BY <3>1 DEF Lets, Region
  <2>5. live'[p].rows = live[p].rows
    BY <2>3, <2>4
  <2>6. RowsOf(live') = RowsOf(live)
    BY <2>3, <2>5 DEF RowsOf
  <2> QED BY <2>1, <2>2, <2>6
<1>6. ASSUME UNCHANGED <<heap, live>>
      PROVE  Owned(heap', live') /\ (Regions!Next \/ UNCHANGED RowsOf(live))
  BY <1>6 DEF RowsOf
<1> QED BY <1>1, <1>2, <1>3, <1>4, <1>5, <1>6 DEF Next, vars, FreeInvalid

(***************************************************************************)
(* The inductive invariant.  Whatever a careful client calls, and in       *)
(* whatever order, there is a set of blocks that tile the heap with right  *)
(* flags and footers, of which the free ones are each in their list once   *)
(* and the allocated ones are the client's regions, with what it wrote.    *)
(***************************************************************************)
THEOREM HeapStaysInOrder ==
  ASSUME Clients
  PROVE  Spec => []Owned(heap, live)
<1>1. Init => Owned(heap, live)
  BY InitOwned
<1>2. Owned(heap, live) /\ [Next]_vars => Owned(heap, live)'
  BY Step
<1> QED BY <1>1, <1>2, PTL DEF Spec

\* The blocks that somebody holds are the blocks of the heap.
LEMMA AllHeld ==
  ASSUME NEW B, Settled(heap, B), Lets(heap, Allocated(heap, B), live)
  PROVE  /\ Held = Allocated(heap, B) /\ FreeBlocks = Unallocated(heap, B) /\ Blocks = B
<1>1. Held = Allocated(heap, B)
  <2>1. DOMAIN live = {b + 2 : b \in Allocated(heap, B)}
    BY DEF Lets
  <2>2. \A b \in Allocated(heap, B) : (b + 2) - 2 = b
    BY Addresses
  <2> QED BY <2>1, <2>2 DEF Held
<1>2. FreeBlocks = Unallocated(heap, B)
  <2>1. DOMAIN heap.lists = 0 .. WildernessList
    BY DEF Settled, Sound, Heaps
  <2>2. FreeBlocks \subseteq Unallocated(heap, B)
    <3> SUFFICES ASSUME NEW b \in FreeBlocks PROVE b \in Unallocated(heap, B)
      OBVIOUS
    <3>1. PICK i \in 0 .. WildernessList : b \in Range(heap.lists[i])
      BY <2>1 DEF FreeBlocks
    <3>2. PICK k \in DOMAIN heap.lists[i] : heap.lists[i][k] = b
      BY <3>1 DEF Range
    <3> QED BY <3>2, Listed
  <2>3. Unallocated(heap, B) \subseteq FreeBlocks
    <3> SUFFICES ASSUME NEW b \in Unallocated(heap, B) PROVE b \in FreeBlocks
      OBVIOUS
    <3>1. PICK i \in 0 .. WildernessList : \E k \in DOMAIN heap.lists[i] : heap.lists[i][k] = b
      BY Listed
    <3>2. b \in Range(heap.lists[i])
      BY <3>1 DEF Range
    <3> QED BY <2>1, <3>2 DEF FreeBlocks
  <2> QED BY <2>2, <2>3
<1>3. Allocated(heap, B) \cup Unallocated(heap, B) = B
  BY DEF Allocated, Unallocated
<1> QED BY <1>1, <1>2, <1>3 DEF Blocks

(***************************************************************************)
(* The blocks the client holds and those of the free lists tile the heap:  *)
(* none is lost and none overlaps another, and the flag and the footer     *)
(* sf_coalesce relies on are right, for every sequence of calls.           *)
(***************************************************************************)
THEOREM TagsTile ==
  ASSUME Clients
  PROVE  Spec => []TagsTileTheHeap
<1>1. ASSUME Owned(heap, live), Ready0 PROVE TagsTileTheHeap
  <2>1. PICK B : Settled(heap, B) /\ Lets(heap, Allocated(heap, B), live)
    BY <1>1 DEF Owned, Fresh, Ready0
  <2>2. Blocks = B
    BY <2>1, AllHeld
  <2>3. First \in B /\ get_palloc(heap, First) /\ Sound(heap) /\ Tiled(heap, B)
    BY <2>1 DEF Settled, Tiled, Flagged
  <2>4. ASSUME NEW bp \in B
        PROVE  LET nbp == next_blkp(heap, bp)
               IN  /\ get_size(heap, bp) >= M /\ get_size(heap, bp) % M = 0
                   /\ nbp \in B \cup {End}
                   /\ \A other \in B : bp < other => nbp <= other
                   /\ nbp # End => get_palloc(heap, nbp) = get_alloc(heap, bp)
                   /\ ~get_alloc(heap, bp) => prev_footer(heap, nbp) = header(heap, bp)
    <3>1. bp # NULL
      <4>1. bp \in Nat /\ First <= bp /\ First >= 6 /\ First \in Nat
        BY <2>3, BlockFacts, Bounds, Unit
      <4> QED BY <4>1 DEF NULL
    <3>2. /\ get_size(heap, bp) >= M /\ get_size(heap, bp) % M = 0
          /\ next_blkp(heap, bp) \in B \cup {End}
          /\ \A other \in B : bp < other => next_blkp(heap, bp) <= other
      BY <2>3 DEF Tiled, End
    <3>3. next_blkp(heap, bp) # End
            => get_palloc(heap, next_blkp(heap, bp)) = get_alloc(heap, bp)
      BY <2>1, <3>1 DEF Settled, Flagged, End
    <3>4. ~get_alloc(heap, bp)
            => prev_footer(heap, next_blkp(heap, bp)) = header(heap, bp)
      BY <2>1 DEF Settled, Flagged
    <3> QED BY <3>2, <3>3, <3>4
  <2> QED BY <2>2, <2>3, <2>4 DEF TagsTileTheHeap
<1>2. Owned(heap, live) => TagsTileTheHeap
  BY <1>1 DEF TagsTileTheHeap
<1> QED BY <1>2, HeapStaysInOrder, PTL

(***************************************************************************)
(* The free lists hold free blocks only, each once and in its own list.    *)
(***************************************************************************)
THEOREM ListsHoldFreeBlocks ==
  ASSUME Clients
  PROVE  Spec => []FreeListsHoldFreeBlocks
<1>1. ASSUME Owned(heap, live) PROVE FreeListsHoldFreeBlocks
  <2>1. CASE Fresh(heap)
    <3>1. DOMAIN heap.lists = 0 .. WildernessList
      BY <2>1 DEF Fresh, Heaps
    <3>2. \A i \in DOMAIN heap.lists : DOMAIN heap.lists[i] = {}
      BY <2>1, <3>1 DEF Fresh
    <3> QED BY <3>2 DEF FreeListsHoldFreeBlocks
  <2>2. CASE \E B : Settled(heap, B) /\ Lets(heap, Allocated(heap, B), live)
    <3>1. PICK B : Settled(heap, B)
      BY <2>2
    <3>2. DOMAIN heap.lists = 0 .. WildernessList
      BY <3>1 DEF Settled, Sound, Heaps
    <3> SUFFICES ASSUME NEW i \in 0 .. WildernessList, NEW k \in DOMAIN heap.lists[i]
                 PROVE  LET bp == heap.lists[i][k]
                        IN  /\ ~get_alloc(heap, bp)
                            /\ ListOf(bp) = i
                            /\ \A l \in DOMAIN heap.lists[i] : heap.lists[i][l] = bp => l = k
      BY <3>2 DEF FreeListsHoldFreeBlocks
    <3> DEFINE bp == heap.lists[i][k]
    <3>3. DOMAIN heap.lists[i] = 1 .. Len(heap.lists[i])
      BY <3>1, Listed
    <3>4. bp \in Unallocated(heap, B) /\ Home(heap, bp) = i
          /\ \A l \in 1 .. Len(heap.lists[i]) : heap.lists[i][l] = bp => l = k
      BY <3>1, <3>3 DEF Settled, Listing
    <3>5. ListOf(bp) = i
      BY <3>4 DEF ListOf, Home, End
    <3> QED BY <3>3, <3>4, <3>5 DEF Unallocated
  <2> QED BY <1>1, <2>1, <2>2 DEF Owned
<1> QED BY <1>1, HeapStaysInOrder, PTL

\* The checks of sf_free pass for an allocated block.
LEMMA Valid ==
  ASSUME NEW h, NEW B, Settled(h, B), NEW bp \in Allocated(h, B)
  PROVE  ValidPointer(h, bp + 2)
<1>1. /\ Sound(h) /\ Tiled(h, B) /\ Flagged(h, B, NULL) /\ bp \in B /\ get_alloc(h, bp)
  BY DEF Settled, Allocated
<1>2. /\ bp \in Nat /\ First <= bp /\ (bp + 2) - 2 = bp /\ (bp + 2) % M = 0 /\ bp + 2 # NULL
      /\ h.top \in Nat /\ bp < h.epilogue /\ bp + 1 > prologue
  <2>1. /\ bp \in Nat /\ First <= bp /\ (bp + 2) % M = 0 /\ bp < h.top - 2 /\ h.top \in Nat
        /\ h.epilogue = h.top - 1
    BY <1>1, BlockFacts, Bounds DEF Sound
  <2>2. First = prologue + M /\ prologue = M - 2 /\ M \in Nat /\ M >= 4
    BY Unit DEF First, prologue
  <2> QED BY <2>1, <2>2 DEF NULL
<1>3. ~get_palloc(h, bp) => ~prev_footer(h, bp)[3]
  <2> SUFFICES ASSUME ~get_palloc(h, bp) PROVE ~prev_footer(h, bp)[3]
    OBVIOUS
  <2>1. bp # First
    BY <1>1 DEF Flagged
  <2>2. PICK c \in B : next_blkp(h, c) = bp
    BY <1>1, <2>1 DEF Tiled
  <2>3. c # NULL /\ bp # h.top - 2
    <3>1. c \in Nat /\ First <= c /\ First >= 6 /\ First \in Nat
      BY <1>1, BlockFacts, Bounds, Unit
    <3>2. bp < h.top - 2
      BY <1>1, BlockFacts
    <3> QED BY <1>2, <3>1, <3>2 DEF NULL
  <2>4. get_palloc(h, bp) = get_alloc(h, c)
    BY <1>1, <2>2, <2>3 DEF Flagged
  <2>5. prev_footer(h, bp) = header(h, c)
    BY <1>1, <2>2, <2>4 DEF Flagged
  <2> QED BY <2>4, <2>5 DEF get_alloc
<1> QED BY <1>1, <1>2, <1>3 DEF ValidPointer

(***************************************************************************)
(* Every region is the payload of an allocated block large enough for it,  *)
(* and one that sf_free and sf_realloc accept: sf_free never calls abort() *)
(* on a pointer the client was given and has not given back.               *)
(***************************************************************************)
THEOREM RegionsAllocated ==
  ASSUME Clients
  PROVE  Spec => []RegionsAreAllocatedBlocks
<1>1. ASSUME Owned(heap, live), NEW p \in DOMAIN live
      PROVE  /\ get_alloc(heap, p - 2)
             /\ ValidPointer(heap, p)
             /\ live[p].rows <= get_size(heap, p - 2) - 1
  <2>1. PICK B : Settled(heap, B) /\ Lets(heap, Allocated(heap, B), live)
    BY <1>1 DEF Owned
  <2>2. PICK b \in Allocated(heap, B) : p = b + 2
    BY <2>1 DEF Lets
  <2>3. p - 2 = b /\ get_size(heap, b) \in Nat
    BY <2>1, <2>2, Addresses
  <2>4. Region(heap, b, live[p])
    BY <2>1, <2>2 DEF Lets
  <2>5. live[p].rows \in Nat /\ live[p].rows + 1 <= get_size(heap, b)
    BY <2>4 DEF Region
  <2> QED BY <2>1, <2>2, <2>3, <2>5, Valid DEF Allocated
<1>2. Owned(heap, live) => RegionsAreAllocatedBlocks
  BY <1>1 DEF RegionsAreAllocatedBlocks
<1> QED BY <1>2, HeapStaysInOrder, PTL

(***************************************************************************)
(* What the client wrote into a region stays there, but for the last row   *)
(* of the block, whatever is allocated, freed or resized around it.        *)
(***************************************************************************)
THEOREM ContentsKept ==
  ASSUME Clients
  PROVE  Spec => []ContentsStay
<1>1. ASSUME Owned(heap, live), NEW p \in DOMAIN live, ~live[p].moved,
             NEW r \in p .. (p + live[p].rows - 1)
      PROVE  heap.mem[r] = Word(r - p) \/ r = LastRow(p)
  <2>1. PICK B : Settled(heap, B) /\ Lets(heap, Allocated(heap, B), live)
    BY <1>1 DEF Owned
  <2>2. PICK b \in Allocated(heap, B) : p = b + 2
    BY <2>1 DEF Lets
  <2>3. p - 2 = b /\ b \in Nat
    BY <2>1, <2>2, Addresses
  <2>4. Region(heap, b, live[p])
    BY <2>1, <2>2 DEF Lets
  <2>5. live[p].rows \in Nat
    BY <2>4 DEF Region
  <2>6. r \in (b + 2) .. (b + 1 + live[p].rows)
    BY <1>1, <2>2, <2>3, <2>5
  <2>7. heap.mem[r] = Word(r - (b + 2)) \/ r = next_blkp(heap, b)
    BY <1>1, <2>4, <2>6 DEF Region
  <2> QED BY <2>2, <2>3, <2>7 DEF LastRow
<1>2. Owned(heap, live) => ContentsStay
  BY <1>1 DEF ContentsStay
<1> QED BY <1>2, HeapStaysInOrder, PTL

(***************************************************************************)
(* The allocator implements the abstract heap: every call obtains,         *)
(* releases or replaces one region, at a multiple of M and apart from the  *)
(* others, or leaves the regions as they are.                              *)
(***************************************************************************)
THEOREM AllocatorImplementsHeap ==
  ASSUME Clients
  PROVE  Spec => ImplementsHeap
<1>1. Init => Regions!Init
  BY DEF Init, Regions!Init
<1>2. Owned(heap, live) /\ [Next]_vars
        => [Regions!Next]_[p \in DOMAIN live |-> live[p].rows]
  BY Step DEF RowsOf
<1> QED BY <1>1, <1>2, HeapStaysInOrder, PTL DEF Spec, ImplementsHeap, Regions!Spec

(***************************************************************************)
(* The regions the client holds lie in the heap, begin at multiples of M   *)
(* and share no row: what an abstract heap promises, of the real one.      *)
(***************************************************************************)
THEOREM RegionsShareNoRow ==
  ASSUME Clients
  PROVE  Spec => []Regions!RegionsApart
<1>1. Owned(heap, live) => Regions!RegionsApart
  <2> SUFFICES ASSUME Owned(heap, live) PROVE Regions!RegionsApart
    OBVIOUS
  <2>1. MaxPages * PAGE_SZ \in Nat
    BY AllocatorAssumption
  <2>2. \A p \in DOMAIN live : /\ p \in Nat /\ p % M = 0 /\ live[p].rows \in Nat
                              /\ p < MaxPages * PAGE_SZ
                              /\ p + live[p].rows <= MaxPages * PAGE_SZ
    BY RegionsLieApart
  <2>3. \A p, q \in DOMAIN live :
           p # q => (p .. (p + live[p].rows - 1)) \cap (q .. (q + live[q].rows - 1)) = {}
    BY RegionsLieApart
  <2>4. \A p \in DOMAIN live : p \in Regions!Places
    BY <2>1, <2>2 DEF Regions!Places
  <2> QED BY <2>2, <2>3, <2>4 DEF Regions!RegionsApart, Regions!Span
<1> QED BY <1>1, HeapStaysInOrder, PTL

\* The search of sf_malloc finds a block for a request unless every block of the
\* free lists is too small.
SearchIsComplete ==
    Ready0 => \A asize \in Nat :
                 asize >= M => (find_fit(heap, asize) = NULL
                                    <=> \A bp \in FreeBlocks : get_size(heap, bp) < asize)

(***************************************************************************)
(* Before it grows the heap, sf_malloc has missed no block that would do,  *)
(* though it looks at the lists from one size class on only, and though    *)
(* the last block is listed apart, whatever its size.                      *)
(***************************************************************************)
THEOREM SearchMissesNothing ==
  ASSUME Clients
  PROVE  Spec => []SearchIsComplete
<1>1. Owned(heap, live) => SearchIsComplete
  <2> SUFFICES ASSUME Owned(heap, live), Ready0, NEW asize \in Nat, asize >= M
               PROVE  find_fit(heap, asize) = NULL
                        <=> \A bp \in FreeBlocks : get_size(heap, bp) < asize
    BY DEF SearchIsComplete
  <2>1. PICK B : Settled(heap, B) /\ Lets(heap, Allocated(heap, B), live)
    BY DEF Owned, Fresh, Ready0
  <2>2. FreeBlocks = Unallocated(heap, B)
    BY <2>1, AllHeld
  <2>3. \A b \in Unallocated(heap, B) : get_size(heap, b) \in Nat
    BY <2>1, BlockFacts DEF Settled, Unallocated
  <2>4. find_fit(heap, asize) # NULL =>
           /\ find_fit(heap, asize) \in Unallocated(heap, B)
           /\ asize <= get_size(heap, find_fit(heap, asize))
    BY <2>1, FitFound
  <2>5. (\E b \in Unallocated(heap, B) : asize <= get_size(heap, b))
           => find_fit(heap, asize) # NULL
    BY <2>1, FitFound
  <2> QED BY <2>2, <2>3, <2>4, <2>5
<1> QED BY <1>1, HeapStaysInOrder, PTL

\* A call of sf_memalign gives the client no region but one at a multiple of align.
AlignedAsAsked ==
    \A size \in Sizes, align \in Aligns :
       Memalign(size, align) => \A p \in DOMAIN live' \ DOMAIN live : p % align = 0

(***************************************************************************)
(* What sf_memalign returns is aligned as it was asked, whatever block it  *)
(* has cut the region from.                                                *)
(***************************************************************************)
THEOREM MemalignAligns ==
  ASSUME Clients
  PROVE  Spec => [][AlignedAsAsked]_vars
<1>1. Owned(heap, live) => AlignedAsAsked
  <2> SUFFICES ASSUME Owned(heap, live), NEW size \in Sizes, NEW align \in Aligns,
                      Memalign(size, align), NEW p \in DOMAIN live' \ DOMAIN live
               PROVE  p % align = 0
    BY DEF AlignedAsAsked
  <2> DEFINE res == sf_memalign(heap, size, align)
  <2>1. /\ res.p = NULL => live' = live
        /\ res.p # NULL => res.p % align = 0
    BY MemalignServes
  <2>2. res.p # NULL => live' = With(live, res.p, [rows |-> size, moved |-> FALSE])
    BY DEF Memalign, Obtain
  <2> HIDE DEF res
  <2>3. res.p # NULL /\ p = res.p
    BY <2>1, <2>2 DEF With
  <2> QED BY <2>1, <2>3
<1>2. Owned(heap, live) => [AlignedAsAsked]_vars
  BY <1>1
<1> QED BY <1>2, HeapStaysInOrder, PTL
=============================================================================
