\* Two caches compete for three blocks, as the kernel uses them: lists have
\* a first, a middle and a last slab.
SPECIFICATION Spec
CONSTANTS
  None = None
  small = small
  large = large
  Caches = {small, large}
  Slabs = {b1, b2, b3}
  objNum <- LongLists
SYMMETRY Symmetry
INVARIANTS
  BlocksAccounted
  ListsLinkGroups
  GroupsMatchUse
  FreeListsExact
PROPERTIES
  ImplementsObjectPool
