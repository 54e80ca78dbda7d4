----------------------------- MODULE Allocator -----------------------------
(***************************************************************************)
(* The dynamic memory allocator of HW3 (src/sfmm.c and                     *)
(* src/sfhelperfunctions.c): a heap of blocks with boundary tags, free     *)
(* lists by size class, a wilderness block, and the client that holds the  *)
(* regions it was given.                                                   *)
(*                                                                         *)
(* Sizes and addresses are counted in rows of 8 bytes from sf_mem_start(). *)
(* As in the code, the address of a block is that of the row before its    *)
(* header, the last row of the block before it.  A row of memory is a tag  *)
(* (size, previous block allocated, this block allocated), a row of a      *)
(* client's data, or Junk: a row of a free block, or one never written, of *)
(* which nothing may be assumed.  A read of Junk as a tag stops TLC.       *)
(***************************************************************************)
EXTENDS Integers, Sequences, FiniteSets, SequencesExt

CONSTANTS
    M,          \* the rows of the smallest block (8 in the code)
    PAGE_SZ,    \* the rows sf_mem_grow() adds (512)
    MaxPages,   \* the pages sf_mem_grow() has to give (16)
    Sizes,      \* the rows clients ask for
    Aligns,     \* the alignments clients ask for, in rows
    MaxLive,    \* how many regions the client holds at a time
    Careful     \* TRUE: the client makes no call of those under CLIENT below

ASSUME AllocatorAssumption ==
    /\ M \in Nat /\ M >= 4
    /\ PAGE_SZ \in Nat /\ PAGE_SZ % M = 0 /\ PAGE_SZ >= 3 * M
    /\ MaxPages \in Nat \ {0}
    /\ Sizes \subseteq Nat
    /\ Aligns \subseteq Nat
    /\ MaxLive \in Nat
    /\ Careful \in BOOLEAN

VARIABLES
    heap,   \* [mem, top, epilogue, lists]: the memory and the allocator's pointers
    live,   \* the client's regions: first row -> [rows, moved]; moved after a
            \* sf_realloc that copied it and until the client has filled it again
    status  \* "running", or "aborted" once sf_free has called abort()

vars == <<heap, live, status>>

NULL == 0
NUM_FREE_LISTS == 10
WildernessList == NUM_FREE_LISTS - 1

Junk == <<>>
Word(i) == <<i>>                            \* row i of a client's region
PACK(size, palloc, alloc) == <<size, palloc, alloc>>
IsTag(word) == Len(word) = 3

-----------------------------------------------------------------------------
(* Reading and writing blocks: sfhelperfunctions.c *)

header(h, bp) == h.mem[bp + 1]
prev_footer(h, bp) == h.mem[bp]
get_size(h, bp) == header(h, bp)[1]
get_palloc(h, bp) == header(h, bp)[2]
get_alloc(h, bp) == header(h, bp)[3]
next_blkp(h, bp) == bp + get_size(h, bp)
prev_blkp(h, bp) == bp - prev_footer(h, bp)[1]

set_header(h, bp, tag) == [h EXCEPT !.mem[bp + 1] = tag]
set_footer(h, bp, tag) == [h EXCEPT !.mem[next_blkp(h, bp)] = tag]
SetTags(h, bp, tag) == set_footer(set_header(h, bp, tag), bp, tag)

\* Nothing may be assumed of what the inner rows of a free block held before.
Scrub(h, bp) ==
    LET inner == (bp + 2) .. (next_blkp(h, bp) - 1)
    IN  [h EXCEPT !.mem = [r \in DOMAIN @ |-> IF r \in inner THEN Junk ELSE @[r]]]
SetFree(h, bp, size, palloc) ==
    Scrub(SetTags(h, bp, PACK(size, palloc, FALSE)), bp)

\* MUTANT: the header of the next block is changed and its footer forgotten.
HeaderOnlyMutant(h, bp, palloc) ==
    LET nbp == next_blkp(h, bp)
    IN  IF nbp >= h.epilogue
        THEN h
        ELSE set_header(h, nbp, PACK(get_size(h, nbp), palloc, get_alloc(h, nbp)))

set_nextblkp_palloc(h, bp, palloc) ==
    LET nbp == next_blkp(h, bp)
    IN  IF nbp >= h.epilogue
        THEN h
        ELSE SetTags(h, nbp, PACK(get_size(h, nbp), palloc, get_alloc(h, nbp)))

\* get_min_fib returns 4 for every size: its loop, which runs for sizes up to
\* 5 M, does not change the result.
get_min_fib(n) == 4

get_class_size(asize) ==
    LET units == asize \div M
    IN  IF units <= 3 THEN units - 1
        ELSE IF get_min_fib(units) < NUM_FREE_LISTS - 1
             THEN get_min_fib(units) - 1 ELSE NUM_FREE_LISTS - 2

HasWilderness(h) == h.lists[WildernessList] # <<>>
Wilderness(h) == Head(h.lists[WildernessList])

\* The block to put into the list of the wilderness, merged with the one there.
sf_coalesce_wilderness(h, bp) ==
    IF ~HasWilderness(h) THEN [h |-> h, bp |-> bp]
    ELSE LET w == Wilderness(h)
             size == get_size(h, bp) + get_size(h, w)
             low == IF bp > w THEN w ELSE bp
             high == IF bp > w THEN bp ELSE w
             tag == PACK(size, get_palloc(h, low), FALSE)
             h1 == set_footer(h, high, tag)
         IN  [h |-> Scrub(set_header(h1, low, tag), low), bp |-> low]

insert_wilderness(h, bp) ==
    LET Only(c) == [c.h EXCEPT !.lists[WildernessList] = <<c.bp>>]
    IN  Only(sf_coalesce_wilderness(h, bp))

BecomesWilderness(h, bp) ==
    \/ ~HasWilderness(h) /\ next_blkp(h, bp) + 1 >= h.epilogue
    \/ HasWilderness(h) /\ next_blkp(h, bp) = Wilderness(h)

insert_to_free_list(h, bp) ==
    IF get_size(h, bp) < M THEN h
    ELSE IF BecomesWilderness(h, bp) THEN insert_wilderness(h, bp)
    ELSE LET class == get_class_size(get_size(h, bp))
         IN  set_nextblkp_palloc([h EXCEPT !.lists[class] = <<bp>> \o @], bp, FALSE)

\* MUTANT: a block is taken from the lists of free blocks only when it is first.
FirstOnlyMutant(h, bp) ==
    LET Rest(list) == IF list # <<>> /\ Head(list) = bp THEN Tail(list) ELSE list
    IN  IF get_alloc(h, bp) \/ get_size(h, bp) < M THEN h
        ELSE [h EXCEPT !.lists = [i \in DOMAIN h.lists |-> Rest(h.lists[i])]]

remove_from_free_list(h, bp) ==
    IF get_alloc(h, bp) \/ get_size(h, bp) < M THEN h
    ELSE [h EXCEPT !.lists = [i \in DOMAIN h.lists |-> RemoveFirst(h.lists[i], bp)]]

-----------------------------------------------------------------------------
(* sf_split and place *)

sf_split(h, bp, tot_size, data_size) ==
    IF tot_size - data_size >= M
    THEN LET h1 == SetTags(h, bp, PACK(data_size, get_palloc(h, bp), TRUE))
             nbp == next_blkp(h1, bp)
         IN  insert_to_free_list(SetFree(h1, nbp, tot_size - data_size, TRUE), nbp)
    ELSE set_nextblkp_palloc(
             SetTags(h, bp, PACK(tot_size, get_palloc(h, bp), TRUE)), bp, TRUE)

place(h, bp, asize) ==
    sf_split(remove_from_free_list(h, bp), bp, get_size(h, bp), asize)

-----------------------------------------------------------------------------
(* The heap's first page, and the pages sf_mem_grow() adds.  The header of the
   epilogue is written one row past the end of the heap, its prev_footer is the
   last row of the heap: the row that next_blkp finds as the header of the block
   after the last one, with size 0 and no flag. *)

set_epilogue(h) ==
    [h EXCEPT !.epilogue = h.top - 1,
              !.mem[h.top] = PACK(0, FALSE, TRUE),
              !.mem[h.top - 1] = PACK(0, FALSE, FALSE)]

prologue == M - 2

sf_mem_grow(h) == [h EXCEPT !.top = @ + PAGE_SZ]

initialize_heap(h) ==
    LET wilderness == prologue + M
        Rest(x) == SetFree(x, wilderness, x.epilogue - wilderness - 1, TRUE)
    IN  insert_wilderness(
            Rest(set_epilogue(SetTags(h, prologue, PACK(M, TRUE, TRUE)))), wilderness)

\* The heap when sf_malloc starts its search.
Ready(h) == IF h.top = 0 THEN initialize_heap(sf_mem_grow(h)) ELSE h

\* One turn of the loop that grows the heap for the block bp: the old epilogue
\* becomes the header of a block and joins the wilderness.
Grow(h, bp) ==
    LET Tag(x) == PACK(x.top - x.epilogue - 1, FALSE, FALSE)
        Join(x) == insert_wilderness(set_header(x, x.epilogue, Tag(x)), x.epilogue)
        Finish(x) == IF bp = NULL THEN x ELSE set_footer(x, bp, header(x, bp))
    IN  Finish(set_epilogue(Join(sf_mem_grow(h))))

\* The loop turns while the block that was first in the list of the wilderness
\* is too small.  Without one, that is the head of the list, whose size is 0.
Grown(h, asize) ==
    LET bp == IF HasWilderness(h) THEN Wilderness(h) ELSE NULL
        after[k \in 0 .. MaxPages] == IF k = 0 THEN h ELSE Grow(after[k - 1], bp)
        room == MaxPages - (h.top \div PAGE_SZ)
        Enough(x) == bp # NULL /\ get_size(x, bp) >= asize
        Stopped(heaps) == heaps[CHOOSE k \in 0 .. room :
                                    /\ Enough(heaps[k]) \/ k = room
                                    /\ \A j \in 0 .. (k - 1) : ~Enough(heaps[j])]
        Result(x) == [h |-> x, enough |-> Enough(x)]
    IN  Result(Stopped(after))

-----------------------------------------------------------------------------
(* sf_malloc *)

\* The size of the block for a region of size rows.
BlockSize(size) == M * ((size + 1 + M - 1) \div M)

\* MUTANT: a block one unit too small is taken.
FitsMutant(h, asize, bp) == ~get_alloc(h, bp) /\ asize <= get_size(h, bp) + M

Fits(h, asize, bp) == ~get_alloc(h, bp) /\ asize <= get_size(h, bp)

\* The blocks of list i that are large enough, and the lists that have any, from
\* the size class upwards.
Fitting(h, asize, i) == {k \in DOMAIN h.lists[i] : Fits(h, asize, h.lists[i][k])}
Classes(h, asize) ==
    {i \in get_class_size(asize) .. (NUM_FREE_LISTS - 1) : Fitting(h, asize, i) # {}}

\* The first block that fits, in the first list that has one; NULL if none does.
find_fit(h, asize) ==
    LET i == Min(Classes(h, asize))
    IN  IF Classes(h, asize) = {} THEN NULL ELSE h.lists[i][Min(Fitting(h, asize, i))]

Placed(h, bp, asize) == [h |-> place(h, bp, asize), p |-> bp + 2]
Failed(h) == [h |-> h, p |-> NULL]

sf_malloc(h0, size) ==
    LET asize == BlockSize(size)
        Grow1(x, h) == IF x.enough THEN Placed(x.h, Wilderness(h), asize) ELSE Failed(x.h)
        Search(h, bp) == IF bp # NULL THEN Placed(h, bp, asize)
                         ELSE Grow1(Grown(h, asize), h)
        Serve(h) == IF size = 0 THEN Failed(h) ELSE Search(h, find_fit(h, asize))
    IN  Serve(Ready(h0))

-----------------------------------------------------------------------------
(* sf_free *)

\* The checks that sf_free and sf_realloc make on a pointer.
ValidPointer(h, pp) ==
    LET bp == pp - 2
    IN  /\ pp # NULL
        /\ pp % M = 0
        /\ get_alloc(h, bp)
        /\ bp < h.epilogue
        /\ bp + 1 > prologue
        /\ ~get_palloc(h, bp) => ~prev_footer(h, bp)[3]

\* MUTANT: sf_coalesce does not look at the flag of the block before.
AlwaysDownMutant(h, pp) ==
    LET low == pp - M
        size == get_size(h, pp) + M
    IN  insert_to_free_list(SetFree(h, low, size, TRUE), low)

\* The four cases of sf_coalesce: with the previous block, the next, both or none.
sf_coalesce(h, pp) ==
    LET nbp == next_blkp(h, pp)
        down == ~get_palloc(h, pp) /\ prev_blkp(h, pp) > prologue
        up == ~get_alloc(h, nbp) /\ nbp < h.epilogue
        low == IF down THEN prev_blkp(h, pp) ELSE pp
        size == get_size(h, pp) + (IF down THEN get_size(h, low) ELSE 0)
                                + (IF up THEN get_size(h, nbp) ELSE 0)
        below == IF down THEN remove_from_free_list(h, low) ELSE h
        unlisted == IF up THEN remove_from_free_list(below, nbp) ELSE below
        Merge(x) == IF down \/ up THEN SetFree(x, low, size, get_palloc(x, low)) ELSE x
    IN  insert_to_free_list(Merge(unlisted), low)

\* sf_free of a pointer that passes the checks.
sf_free(h, pp) ==
    LET bp == pp - 2
    IN  sf_coalesce(SetFree(h, bp, get_size(h, bp), get_palloc(h, bp)), bp)

-----------------------------------------------------------------------------
(* sf_realloc of a valid pointer, and sf_memalign *)

\* memcpy of the rows from .. from + n - 1 to the rows from to on.
memcpy(h, to, from, n) ==
    [h EXCEPT !.mem = [r \in DOMAIN @ |->
                          IF r \in to .. (to + n - 1) THEN @[from + r - to] ELSE @[r]]]

\* MUTANT: the region that was copied to is freed, in place of the old one.
FreesNewMutant(h, pp, size, new) ==
    IF new.p = NULL THEN new
    ELSE [h |-> sf_free(memcpy(new.h, new.p + 2, pp, size - 1), new.p), p |-> new.p]

\* The copy goes to the payload of the sf_block at new_spot; but new_spot is the
\* payload itself, so that the data begins two rows further on.
Move(h, pp, size, new) ==
    IF new.p = NULL THEN new
    ELSE [h |-> sf_free(memcpy(new.h, new.p + 2, pp, size - 1), pp), p |-> new.p]

sf_realloc(h, pp, rsize) ==
    LET bp == pp - 2
        size == get_size(h, bp)
    IN  IF rsize > size THEN Move(h, pp, size, sf_malloc(h, rsize))
        ELSE [h |-> IF BlockSize(rsize) < size
                    THEN sf_split(h, bp, size, BlockSize(rsize)) ELSE h,
              p |-> pp]

\* The block found, m, is cut in two where the aligned region begins, and its
\* front is freed; then what is left behind the region.  (sf_free checks its pointer here
\* and in Move as well: that of a block the allocator has just given or been given passes.)
Cut(m, size, align) ==
    LET bp == m.p - 2
        diff == IF m.p % align = 0 THEN 0 ELSE align - (m.p % align)
        blksize == get_size(m.h, bp)
        front == set_header(m.h, bp, PACK(diff, get_palloc(m.h, bp), TRUE))
        both == set_header(front, bp + diff, PACK(blksize - diff, FALSE, TRUE))
    IN  IF m.p = NULL THEN m
        ELSE Placed(IF diff = 0 THEN m.h ELSE sf_free(both, m.p), bp + diff, BlockSize(size))

sf_memalign(h, size, align) ==
    IF align < M \/ size = 0 THEN Failed(h)
    ELSE Cut(sf_malloc(h, size + M + align), size, align)

-----------------------------------------------------------------------------
(* CLIENT.  The client fills each region it is given.  A careful client makes
   no call that finds no block large enough while there is no wilderness, and
   does not ask sf_realloc for as many rows as the block has. *)

FindsRoom(h0, size) ==
    LET h == Ready(h0)
    IN  find_fit(h, BlockSize(size)) # NULL \/ HasWilderness(h)

\* The client writes the rows first .. last of its region at p.
Fill(h, p, first, last) ==
    [h EXCEPT !.mem = [r \in DOMAIN @ |->
                          IF r \in (p + first) .. (p + last) THEN Word(r - p) ELSE @[r]]]

Running == status = "running" /\ UNCHANGED status

Without(p) == [q \in DOMAIN live \ {p} |-> live[q]]
With(others, p, region) ==
    [q \in DOMAIN others \cup {p} |-> IF q = p THEN region ELSE others[q]]

Obtain(result, size) ==
    IF result.p = NULL THEN heap' = result.h /\ UNCHANGED live
    ELSE /\ heap' = Fill(result.h, result.p, 0, size - 1)
         /\ live' = With(live, result.p, [rows |-> size, moved |-> FALSE])

Room == Cardinality(DOMAIN live) < MaxLive

Malloc(size) ==
    /\ Running /\ Room
    /\ Careful => FindsRoom(heap, size)
    /\ Obtain(sf_malloc(heap, size), size)

Memalign(size, align) ==
    /\ Running /\ Room
    /\ Careful => FindsRoom(heap, size + M + align)
    /\ Obtain(sf_memalign(heap, size, align), size)

Free(p) ==
    /\ Running
    /\ ValidPointer(heap, p)
    /\ heap' = sf_free(heap, p)
    /\ live' = Without(p)

\* A region that is moved holds what sf_realloc has copied, and the client
\* fills the rows it did not have before; one that stays is as it was.
Exchanged(p, result, rsize) ==
    LET q == result.p
    IN  IF q = NULL THEN heap' = result.h /\ UNCHANGED live
        ELSE /\ heap' = Fill(result.h, q, live[p].rows, rsize - 1)
             /\ live' = With(Without(p), q,
                             [rows |-> rsize, moved |-> live[p].moved \/ q # p])

Realloc(p, rsize) ==
    /\ Running
    /\ ValidPointer(heap, p)
    /\ Careful => /\ rsize # get_size(heap, p - 2)
                  /\ rsize > get_size(heap, p - 2) => FindsRoom(heap, rsize)
    /\ Exchanged(p, sf_realloc(heap, p, rsize), rsize)

\* The client fills a region that was moved.
Refill(p) ==
    /\ Running
    /\ live[p].moved
    /\ heap' = Fill(heap, p, 0, live[p].rows - 1)
    /\ live' = [live EXCEPT ![p].moved = FALSE]

\* Pointers sf_free was not given by the client before, or was given twice: NULL,
\* one into a region, and the payloads of the blocks of the free lists.
BadPointers ==
    {NULL} \cup {p + 1 : p \in DOMAIN live}
           \cup UNION {{bp + 2 : bp \in Range(heap.lists[i])} : i \in DOMAIN heap.lists}

FreeInvalid(p) ==
    /\ status = "running"
    /\ ~ValidPointer(heap, p)
    /\ status' = "aborted"
    /\ UNCHANGED <<heap, live>>

-----------------------------------------------------------------------------

Init == /\ heap = [mem |-> [r \in 0 .. (MaxPages * PAGE_SZ) |-> Junk],
                   top |-> 0, epilogue |-> 0,
                   lists |-> [i \in 0 .. (NUM_FREE_LISTS - 1) |-> <<>>]]
        /\ live = <<>>
        /\ status = "running"

Next == \/ \E size \in Sizes : Malloc(size)
        \/ \E size \in Sizes, align \in Aligns : Memalign(size, align)
        \/ \E p \in DOMAIN live : Free(p)
        \/ \E p \in DOMAIN live, rsize \in Sizes : Realloc(p, rsize)
        \/ \E p \in DOMAIN live : Refill(p)
        \/ \E p \in BadPointers \cup DOMAIN live : FreeInvalid(p)

Spec == Init /\ [][Next]_vars
=============================================================================
