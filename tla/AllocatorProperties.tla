------------------------ MODULE AllocatorProperties ------------------------
(***************************************************************************)
(* What the allocator of HW3 must keep true between calls.                 *)
(***************************************************************************)
EXTENDS Allocator

Ready0 == heap.top > 0          \* the heap has its first page
First == prologue + M           \* the first block
End == heap.top - 2             \* where the last block ends

\* The blocks that somebody holds: the client, or a free list.
Held == {p - 2 : p \in DOMAIN live}
FreeBlocks == UNION {Range(heap.lists[i]) : i \in DOMAIN heap.lists}
Blocks == Held \cup FreeBlocks

LastRow(p) == next_blkp(heap, p - 2)

\* The blocks tile the heap: the first begins behind the prologue, and wherever one
\* ends, after a multiple of M rows, another begins, up to the end of the heap; no two
\* overlap, so that no block is lost and none is given out twice.  The flag of each
\* block tells whether the block before it is allocated; the footer of a free block is
\* its header, as sf_coalesce needs to find it from behind.
TagsTileTheHeap ==
    Ready0 =>
        /\ First \in Blocks
        /\ get_palloc(heap, First)
        /\ \A bp \in Blocks :
              LET nbp == next_blkp(heap, bp)
              IN  /\ get_size(heap, bp) >= M /\ get_size(heap, bp) % M = 0
                  /\ nbp \in Blocks \cup {End}
                  /\ \A other \in Blocks : bp < other => nbp <= other
                  /\ nbp # End => get_palloc(heap, nbp) = get_alloc(heap, bp)
                  /\ ~get_alloc(heap, bp) => prev_footer(heap, nbp) = header(heap, bp)

\* The list of a free block: the last one is for the block at the end of the heap.
ListOf(bp) == IF next_blkp(heap, bp) = End THEN WildernessList
              ELSE get_class_size(get_size(heap, bp))

\* The free lists hold free blocks only, each of them once, in the list of its size
\* class, or in the last list if it ends the heap.
FreeListsHoldFreeBlocks ==
    \A i \in DOMAIN heap.lists : \A k \in DOMAIN heap.lists[i] :
        LET bp == heap.lists[i][k]
        IN  /\ ~get_alloc(heap, bp)
            /\ ListOf(bp) = i
            /\ \A l \in DOMAIN heap.lists[i] : heap.lists[i][l] = bp => l = k

\* The client's regions are the payloads of allocated blocks: sf_free and sf_realloc
\* accept every region, and all but the header is there for the client.
RegionsAreAllocatedBlocks ==
    \A p \in DOMAIN live : /\ get_alloc(heap, p - 2)
                           /\ ValidPointer(heap, p)
                           /\ live[p].rows <= get_size(heap, p - 2) - 1

\* What the client wrote into its regions stays there, whatever is allocated, freed
\* or resized around them, except in the last row of a block: sf_split and
\* insert_to_free_list write a footer there.  A region that sf_realloc has moved is
\* excepted until the client has filled it again.
ContentsStay ==
    \A p \in DOMAIN live :
       ~live[p].moved =>
           \A r \in p .. (p + live[p].rows - 1) :
              heap.mem[r] = Word(r - p) \/ r = LastRow(p)

\* The allocator implements the abstract heap: every call takes, gives back or
\* replaces one region, aligned and apart from all the others.
Regions == INSTANCE Heap WITH
               Rows <- MaxPages * PAGE_SZ,
               Unit <- M,
               Requests <- Sizes,
               regions <- [p \in DOMAIN live |-> live[p].rows]
ImplementsHeap == Regions!Spec
=============================================================================
