-------------------------------- MODULE Heap --------------------------------
(***************************************************************************)
(* What mem_alloc and mem_free promise: blocks of the heap that do not     *)
(* overlap, each with room for its header and for the bytes that were      *)
(* asked, with less than a unit and at most the room of another header     *)
(* wasted; and that a request is refused only if no gap between the blocks *)
(* is large enough for the header and the units.                           *)
(***************************************************************************)
EXTENDS Naturals

CONSTANTS
  HeapSize,    \* in the units of the addresses
  HEADER,      \* the size of a header
  MEM_BLOCK,   \* the unit of the sizes of blocks
  Requests     \* the numbers of bytes asked for

VARIABLES
  blocks,      \* the blocks handed out: start, len, and what was asked
  refused      \* the request that was just refused, if one was

heapVars == <<blocks, refused>>

Span(b) == b.start .. b.start + b.len - 1
Occupied == UNION {Span(b) : b \in blocks}

(* A request needs a stretch of so many free places, whole units of them.  *)
Needs(n) == HEADER + ((n + MEM_BLOCK - 1) \div MEM_BLOCK) * MEM_BLOCK
Fits(n) == \E s \in 0 .. HeapSize - Needs(n) : s .. s + Needs(n) - 1 \cap Occupied = {}

HeapInit == blocks = {} /\ refused = {}

Alloc(n) ==
  \E s \in 0 .. HeapSize - Needs(n) : \E len \in Needs(n) .. Needs(n) + HEADER :
    /\ s + len <= HeapSize
    /\ s .. s + len - 1 \cap Occupied = {}
    /\ blocks' = blocks \cup {[start |-> s, len |-> len, asked |-> n]}
    /\ refused' = {}

Refuse(n) == ~Fits(n) /\ refused' = {n} /\ UNCHANGED blocks

Free(b) == b \in blocks /\ blocks' = blocks \ {b} /\ refused' = {}

HeapNext ==
  \/ \E n \in Requests : Alloc(n) \/ Refuse(n)
  \/ \E b \in blocks : Free(b)

HeapSpec == HeapInit /\ [][HeapNext]_heapVars
=============================================================================
