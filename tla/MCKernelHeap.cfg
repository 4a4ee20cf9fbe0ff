SPECIFICATION HeapFairSpec
CONSTANTS
  HEAP_SIZE = 80
  PAGE_SIZE = 32
  HDR = 16
  Requests <- MCRequests
  Frames = 3
  UserHeap = FALSE
  MaxBlocks = 4
INVARIANTS BlocksSound OverflowDrainsMemory
PROPERTY MallocReturns
