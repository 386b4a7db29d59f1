\* The buddy allocator on a heap of 2^3 pages.
SPECIFICATION Spec
CONSTANTS
  MAX_ORDER = 3
  PAGE_SHIFT = 3
INVARIANTS
  PagesPartitioned
  BitmapMatchesLists
  NoFalseExhaustion
PROPERTIES
  ImplementsBlockPool
