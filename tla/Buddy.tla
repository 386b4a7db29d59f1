------------------------------- MODULE Buddy -------------------------------
(***************************************************************************)
(* The buddy allocator of the kernel heap (buddy.cpp): one free list per   *)
(* order and one bit per pair of buddies.  The bit of a pair is the parity *)
(* of the number of changes of the two buddies between free and not free,  *)
(* so it is set exactly when one of the two is free.                       *)
(*                                                                         *)
(* Addresses are page numbers relative to KERNEL_START_ADDR.  A free list  *)
(* is the sequence of the addresses its FreeArea nodes link.               *)
(***************************************************************************)
EXTENDS Integers, Sequences, FiniteSets, SequencesExt

CONSTANTS
  MAX_ORDER,   \* the order of the whole heap, set once by getBlockNum
  PAGE_SHIFT   \* log2(BLOCK_SIZE)

(* getIndex shifts a byte offset by MAX_ORDER + order + 1, which is the    *)
(* number of the pair only if a page has 2^MAX_ORDER bytes.  That is the   *)
(* case for the 128 MB machine of the Makefile: 12.5% of its heap is       *)
(* between 2^11 and 2^12 pages of 2^12 bytes, so MAX_ORDER is 12.          *)
ASSUME BuddyAssumption ==
  /\ MAX_ORDER \in Nat
  /\ PAGE_SHIFT = MAX_ORDER

NULL == -1     \* the null address

VARIABLES
  blocks,      \* blocks[order]: the free list of the order
  bitmap,      \* bitmap[index]: the bit of a pair of buddies
  held         \* the blocks that callers hold: what alloc returned for
               \* which order and free has not taken back

vars == <<blocks, bitmap, held>>

Orders  == 0 .. MAX_ORDER
Pages   == 0 .. 2^MAX_ORDER - 1
Indices == 0 .. 2^MAX_ORDER - 1
Blocks  == [addr : Pages, order : Orders]

(* A mistake: the shift of a block number, not of the number of its pair.  *)
getIndexOfBlock(addr, order) ==
  2^MAX_ORDER - 2^(MAX_ORDER - order) + (addr * 2^PAGE_SHIFT) \div 2^(MAX_ORDER + order)

(* The number of the pair that the block addr is in at an order.           *)
getIndex(addr, order) ==
  LET entryIndex == 2^MAX_ORDER - 2^(MAX_ORDER - order)
      entryAddr  == addr * 2^PAGE_SHIFT
  IN  entryIndex + entryAddr \div 2^(MAX_ORDER + order + 1)

(* The bitmap after flipBit for each of the pairs.                         *)
flipBits(pairs) ==
  [i \in Indices |-> IF i \in pairs THEN 1 - bitmap[i] ELSE bitmap[i]]

(* The orders at which a block has a buddy, and a pair a bit.              *)
HasBuddy(order) == order < MAX_ORDER

-----------------------------------------------------------------------------
(* splitBlock: the right half that each splitting leaves over goes to the  *)
(* front of the list of its order, from upper - 1 down to lower.           *)
splitBlock(addr, upper, lower, lists) ==
  [k \in Orders |->
     IF k \in lower .. upper - 1 THEN <<addr + 2^k>> \o lists[k] ELSE lists[k]]

(* A mistake: the search starts at the smallest blocks.                    *)
ServesFromBelow(curSize, order) ==
  /\ blocks[curSize] # <<>>
  /\ \A k \in 0 .. curSize - 1 : blocks[k] = <<>>

(* The order whose list serves an allocation: the least one that is not    *)
(* empty.                                                                  *)
Serves(curSize, order) ==
  /\ curSize >= order
  /\ blocks[curSize] # <<>>
  /\ \A k \in order .. curSize - 1 : blocks[k] = <<>>

(* Buddy::alloc.  When no list can serve, it returns null and changes      *)
(* nothing.                                                                *)
alloc(order) ==
  \E curSize \in Orders :
    /\ Serves(curSize, order)
    /\ LET p == Head(blocks[curSize])
       IN  /\ blocks' = splitBlock(p, curSize, order,
                          [blocks EXCEPT ![curSize] = Tail(@)])
           /\ bitmap' = flipBits({getIndex(p, k) :
                                    k \in {j \in order .. curSize : HasBuddy(j)}})
           /\ held' = held \cup {[addr |-> p, order |-> order]}

-----------------------------------------------------------------------------
(* A mistake: the bit is read as it was before the flip.                   *)
isBuddyFreeBeforeFlip(addr, order) == bitmap[getIndex(addr, order)] = 0

(* isBuddyFree, after returnBlock flipped the bit of the pair.             *)
isBuddyFree(addr, order) == bitmap[getIndex(addr, order)] = 1

(* Where coalesceBuddy finds the buddy: the first node of the list that is *)
(* in the same pair, 0 if there is none.                                   *)
BuddyPosition(addr, order) ==
  SelectInSeq(blocks[order], LAMBDA a : getIndex(a, order) = getIndex(addr, order))

(* A mistake: the upper of the two addresses.                              *)
coalesceBuddyUpper(addr, order) ==
  LET pos == BuddyPosition(addr, order)
  IN  IF pos = 0 THEN NULL
      ELSE IF addr < blocks[order][pos] THEN blocks[order][pos] ELSE addr

(* coalesceBuddy returns the lower of the two addresses; without a buddy   *)
(* on the list that is null, and the block is on no list any more.         *)
coalesceBuddy(addr, order) ==
  LET pos == BuddyPosition(addr, order)
  IN  IF pos = 0 THEN NULL
      ELSE IF addr > blocks[order][pos] THEN blocks[order][pos] ELSE addr

(* The loop of Buddy::free: the address it carries to each order, null     *)
(* from the order on at which it stopped.                                  *)
Carried(b) ==
  LET carry[k \in b.order .. MAX_ORDER] ==
        IF k = b.order THEN b.addr
        ELSE LET a == carry[k - 1]
             IN  IF a = NULL \/ ~isBuddyFree(a, k - 1) THEN NULL
                 ELSE coalesceBuddy(a, k - 1)
  IN  carry

(* Buddy::free of a block that a caller holds, with the order it was       *)
(* allocated with, as every caller in the kernel does.                     *)
free(b) ==
  LET carry   == Carried(b)
      reached == {k \in b.order .. MAX_ORDER : carry[k] # NULL}
      merges(k) == HasBuddy(k) /\ isBuddyFree(carry[k], k)
  IN  /\ b \in held
      /\ held' = held \ {b}
      /\ bitmap' = flipBits({getIndex(carry[k], k) : k \in {j \in reached : HasBuddy(j)}})
      /\ blocks' = [k \in Orders |->
           IF k \notin reached THEN blocks[k]
           ELSE IF ~merges(k) THEN <<carry[k]>> \o blocks[k]
           ELSE IF BuddyPosition(carry[k], k) = 0 THEN blocks[k]
           ELSE RemoveAt(blocks[k], BuddyPosition(carry[k], k))]

-----------------------------------------------------------------------------
(* buddyInit: the heap is one free block of MAX_ORDER.                     *)
Init ==
  /\ blocks = [k \in Orders |-> IF k = MAX_ORDER THEN <<0>> ELSE <<>>]
  /\ bitmap = [i \in Indices |-> 0]
  /\ held   = {}

Next ==
  \/ \E order \in Orders : alloc(order)
  \/ \E b \in held : free(b)

Spec == Init /\ [][Next]_vars

-----------------------------------------------------------------------------
TypeOK ==
  /\ \A k \in Orders : \A i \in 1 .. Len(blocks[k]) : blocks[k][i] \in Pages
  /\ bitmap \in [Indices -> {0, 1}]
  /\ held \subseteq Blocks

Span(b) == b.addr .. b.addr + 2^b.order - 1

(* The blocks on the free lists, one for each node.                        *)
FreeNodes == {n \in Orders \X (1 .. 2^MAX_ORDER) : n[2] <= Len(blocks[n[1]])}
FreeBlock(n) == [addr |-> blocks[n[1]][n[2]], order |-> n[1]]
OnList(addr, order) == \E i \in 1 .. Len(blocks[order]) : blocks[order][i] = addr

(* No page is lost and none is in two places: after any sequence of        *)
(* splits and merges every page is in exactly one block, held by a caller  *)
(* or linked once on a free list.                                          *)
PagesPartitioned ==
  /\ TypeOK
  /\ \A page \in Pages :
       Cardinality({b \in held : page \in Span(b)})
         + Cardinality({n \in FreeNodes : page \in Span(FreeBlock(n))}) = 1

(* The bit of a pair says that exactly one of the two buddies is on the    *)
(* free list: this is what makes the single bit enough for                 *)
(* isBuddyFree to decide on a merge.                                       *)
BitmapMatchesLists ==
  \A order \in Orders \ {MAX_ORDER} : \A pair \in 0 .. 2^(MAX_ORDER - order - 1) - 1 :
    LET left  == pair * 2^(order + 1)
        right == left + 2^order
    IN  bitmap[getIndex(left, order)] = 1
          <=> (OnList(left, order) # OnList(right, order))

(* Allocation fails only for want of memory: when no list can serve an     *)
(* order, no aligned extent of that order is free.  Merging on free is     *)
(* what this rests on.                                                     *)
NoFalseExhaustion ==
  \A order \in Orders :
    (\A k \in order .. MAX_ORDER : blocks[k] = <<>>) =>
      \A i \in 0 .. 2^(MAX_ORDER - order) - 1 :
        \E b \in held :
          Span(b) \cap Span([addr |-> i * 2^order, order |-> order]) # {}

(* The allocator does what its callers rely on: BlockPool, with the blocks *)
(* in callers' hands as its extents.                                       *)
Pool == INSTANCE BlockPool
ImplementsBlockPool == Pool!PoolSpec

=============================================================================
