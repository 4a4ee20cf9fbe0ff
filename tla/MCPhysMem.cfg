SPECIFICATION Spec
CONSTANTS
  PAGE_SIZE = 2
  Memmaps <- MCMemmaps
  TABLE_SIZE = 1
  ENTRIES = 6
  HEAP_PAGE = 6
  Files <- MCFiles
  VIRT_SIZE = 14
INVARIANTS Accounted OnlyUsable SegmentsLoaded MapHeld
