\* The head of slabsFree after kmem_cache_shrink.
SPECIFICATION SpecWithShrink
CONSTANTS
  None = None
  small = small
  large = large
  Caches = {small, large}
  Slabs = {b1, b2, b3}
  objNum <- LongLists
INVARIANTS
  ListHeadsAreSlabs
