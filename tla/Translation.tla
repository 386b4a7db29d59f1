----------------------------- MODULE Translation -----------------------------
(***************************************************************************)
(* What the page tables are for: a partial map from pages to rights.       *)
(***************************************************************************)
EXTENDS Integers

CONSTANTS
  Pages,       \* a range of integers
  Rights,
  NoEntry      \* the right of a page that is not mapped

VARIABLE pt

(* The map t after the pages of S got the right r, or lost theirs.         *)
MapPages(t, S, r) == [p \in DOMAIN t |-> IF p \in S THEN r ELSE t[p]]
UnmapPages(t, S)  == MapPages(t, S, NoEntry)

TranslationInit == pt = [p \in Pages |-> NoEntry]

MapPage(p, r) == pt' = MapPages(pt, {p}, r)
UnmapRange(first, last) == pt' = UnmapPages(pt, first .. last)

TranslationNext ==
  \/ \E p \in Pages, r \in Rights : MapPage(p, r)
  \/ \E first, last \in Pages : UnmapRange(first, last)

TranslationSpec == TranslationInit /\ [][TranslationNext]_pt
=============================================================================
