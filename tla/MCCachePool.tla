---------------------------- MODULE MCCachePool -----------------------------
(***************************************************************************)
(* Three records of two slots: one that goes from between two others, and  *)
(* a list of up to six caches.                                             *)
(***************************************************************************)
EXTENDS CachePool, TLC

CONSTANTS r1, r2, r3

MCRecords == {r1, r2, r3}
Sym == Permutations(MCRecords)
=============================================================================
