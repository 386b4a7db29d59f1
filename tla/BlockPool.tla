------------------------------ MODULE BlockPool ------------------------------
(***************************************************************************)
(* What the buddy allocator promises to its callers (the slab caches, the  *)
(* cache pool and the page tables): a pool of pages out of which naturally *)
(* aligned extents of 2^order pages are handed out, never a page twice,    *)
(* and into which an extent is given back exactly as it was handed out.    *)
(* How free extents are kept is no part of the promise.                    *)
(***************************************************************************)
EXTENDS Integers

CONSTANT MAX_ORDER   \* the whole pool is one extent of this order

VARIABLE held        \* the extents that callers hold

Orders == 0 .. MAX_ORDER
Pages  == 0 .. 2^MAX_ORDER - 1

(* The extents the pool can hand out: their first page is a multiple of    *)
(* their size.                                                             *)
Extents ==
  {e \in [addr : Pages, order : Orders] : e.addr % 2^e.order = 0}

(* The pages of an extent.                                                 *)
Span(e) == e.addr .. e.addr + 2^e.order - 1

(* An extent none of whose pages is in a caller's hands.                   *)
Available(e) == \A h \in held : Span(h) \cap Span(e) = {}

PoolInit == held = {}

(* Some available extent of the order is handed out.                       *)
Take(order) ==
  \E e \in Extents :
    /\ e.order = order
    /\ Available(e)
    /\ held' = held \cup {e}

Give(e) ==
  /\ e \in held
  /\ held' = held \ {e}

PoolNext ==
  \/ \E order \in Orders : Take(order)
  \/ \E e \in held : Give(e)

PoolSpec == PoolInit /\ [][PoolNext]_held

=============================================================================
