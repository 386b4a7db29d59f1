---------------------------- MODULE MCSlabCache ----------------------------
(* Model checking of the object caches: two caches, one with a single      *)
(* object in a slab (a slab is then never partial), and fewer blocks than  *)
(* the caches want.  Blocks are interchangeable: the model picks any that  *)
(* is available, and the properties checked with the symmetry are safety   *)
(* properties.                                                             *)
EXTENDS SlabCache, TLC

CONSTANTS small, large     \* the caches

LongLists == (small :> 2) @@ (large :> 1)

Symmetry == Permutations(Slabs)
=============================================================================
