CONSTANTS
  M = 4
  PAGE_SZ = 16
  MaxPages = 2
  Sizes = {0, 3, 6}
  Aligns = {2, 8}
  MaxLive = 3
  Careful = TRUE
SPECIFICATION Spec
CHECK_DEADLOCK FALSE
INVARIANTS TagsTileTheHeap FreeListsHoldFreeBlocks RegionsAreAllocatedBlocks ContentsStay

PROPERTIES ImplementsHeap
