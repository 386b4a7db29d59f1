------------------------- MODULE MCMemoryAllocator --------------------------
(***************************************************************************)
(* A heap of a few pages; the sizes keep the proportions that matter: a    *)
(* header that may lie across two pages, requests of less than a page and  *)
(* of more, remainders too small to be cut off.                            *)
(***************************************************************************)
EXTENDS MemoryAllocator

SmallRequests == {2, 6, 7}
=============================================================================
