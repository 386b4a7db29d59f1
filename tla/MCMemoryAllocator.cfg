CONSTANTS
  HeapSize = 31
  HEADER = 2
  MEM_BLOCK = 3
  PAGE = 4
  SizeMod = 64
  Requests <- SmallRequests
SPECIFICATION Spec
INVARIANTS
  HeapConsistent
  UsedPagesMapped
PROPERTIES
  ImplementsHeap
