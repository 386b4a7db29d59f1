------------------------------- MODULE Slab -------------------------------
(***************************************************************************)
(* The data structures of the slab allocator (SlabAllocator.cpp and the    *)
(* list operations of cache.cpp): slabs, each with a free list threaded    *)
(* through the array freeArray, linked by next and prev into the three     *)
(* lists of their cache.  The operations are functions from a memory m to  *)
(* the memory after them, as the modules that use them call several of     *)
(* them in one step:                                                       *)
(*   m.slab[s]   the header of slab s                                      *)
(*   m.cache[c]  the descriptor of cache c                                 *)
(***************************************************************************)
EXTENDS Integers, FiniteSets

CONSTANTS
  Caches,    \* the cache descriptors
  Slabs,     \* the places where a slab header can be
  objNum,    \* objNum[c]: the number of objects in one slab of cache c
  None       \* the null pointer

ASSUME SlabAssumption ==
  /\ objNum \in [Caches -> Nat \ {0}]
  /\ None \notin Caches \cup Slabs
  /\ IsFiniteSet(Slabs)

End == -1    \* ends the free list of a slab

Groups   == {"FULL", "PARTIAL", "FREE"}
Slots(c) == 0 .. objNum[c] - 1

(* A header that is not one: the memory belongs to the buddy allocator,    *)
(* which keeps its list pointer where the field owner is.                  *)
BlankSlab ==
  [owner |-> None, next |-> None, prev |-> None, group |-> "FREE",
   free |-> End, freeArray |-> <<>>, numOfFreeSlots |-> 0]

(* What went wrong: a header, memory, or an object of another cache.       *)
Errors == {0, -1, -2, -3}

(* What the constructor of Cache leaves in the descriptor.                 *)
NewCache ==
  [list |-> [g \in Groups |-> None], numOfSlabs |-> 0, shrink |-> 1, error |-> 0]

-----------------------------------------------------------------------------
(* The first part of moveFree: the head of slabsFree is taken off.         *)
PopFree(m, c) ==
  LET rest   == m.slab[m.cache[c].list["FREE"]].next
      popped == [m EXCEPT !.cache[c].list["FREE"] = rest]
  IN  IF rest = None THEN popped
      ELSE [popped EXCEPT !.slab[rest].prev = None]

(* The first part of moveSlab: a slab without a predecessor is taken for   *)
(* the head of its list.                                                   *)
Unlink(m, c, s) ==
  LET g    == m.slab[s].group
      rest == m.slab[s].next
      curr == m.slab[m.cache[c].list[g]].next
  IN  IF m.slab[s].prev = None
      THEN LET popped == [m EXCEPT !.cache[c].list[g] = curr]
           IN  IF curr = None THEN popped
               ELSE [popped EXCEPT !.slab[curr].prev = None]
      ELSE LET bridged == [m EXCEPT !.slab[m.slab[s].prev].next = rest]
           IN  IF rest = None THEN bridged
               ELSE [bridged EXCEPT !.slab[rest].prev = m.slab[s].prev]

(* A mistake: the old head keeps a null prev.                              *)
PushFrontOneWay(m, c, s, g) ==
  [m EXCEPT !.slab[s].group = g, !.slab[s].prev = None,
            !.slab[s].next = m.cache[c].list[g], !.cache[c].list[g] = s]

(* The second part of both, and the beginning of initSlab: the slab        *)
(* becomes the head of the list of a group.                                *)
PushFront(m, c, s, g) ==
  LET header == m.cache[c].list[g]
      pushed == [m EXCEPT !.slab[s].group = g, !.slab[s].prev = None,
                          !.slab[s].next = header, !.cache[c].list[g] = s]
  IN  IF header = None THEN pushed
      ELSE [pushed EXCEPT !.slab[header].prev = s]

moveFree(m, c, s, g) == PushFront(PopFree(m, c), c, s, g)
moveSlab(m, c, s, g) == PushFront(Unlink(m, c, s), c, s, g)

(* The slabs that a walk along next meets: those that are in every set     *)
(* which has the first one and leads nowhere else.                         *)
Walk(m, from) ==
  LET linked == ({from} \cup {m.slab[s].next : s \in Slabs}) \ {None}
  IN  {s \in linked : from # None /\ \A S \in SUBSET linked :
         from \in S /\ (\A p \in S : m.slab[p].next \in S \cup {None}) => s \in S}

-----------------------------------------------------------------------------
(* The free list of a new slab: its slots in the order of their numbers.   *)
FreeChain(c) == [i \in Slots(c) |-> IF i = objNum[c] - 1 THEN End ELSE i + 1]

(* Slab::initSlab: all slots are free, and the slab becomes the first one  *)
(* of slabsFree.                                                           *)
initSlab(m, c, s) ==
  PushFront([m EXCEPT
    !.slab[s] = [BlankSlab EXCEPT !.owner = c, !.free = 0,
      !.numOfFreeSlots = objNum[c], !.freeArray = FreeChain(c)],
    !.cache[c].numOfSlabs = @ + 1], c, s, "FREE")

(* A cache of several slabs that just grew is spared by the next shrink.   *)
SpareFromShrink(m, c) ==
  IF m.cache[c].numOfSlabs > 1 THEN [m EXCEPT !.cache[c].shrink = 0] ELSE m

(* cacheAlloc with a new slab, which becomes partial before an object is   *)
(* taken from it.                                                          *)
Grown(m, c, s) ==
  SpareFromShrink(moveFree(initSlab(m, c, s), c, s, "PARTIAL"), c)

(* cacheAlloc when there is a slab with room: the first free slab becomes  *)
(* partial if no slab is.                                                  *)
NoSlabLeft(m, c) == m.cache[c].list["PARTIAL"] = None /\ m.cache[c].list["FREE"] = None
Stocked(m, c) ==
  IF m.cache[c].list["PARTIAL"] # None THEN m
  ELSE moveFree(m, c, m.cache[c].list["FREE"], "PARTIAL")

(* A mistake: the slot that was handed out stays the first.                *)
takeObjectAgain(m, s) == [m EXCEPT !.slab[s].numOfFreeSlots = @ - 1]

(* Slab::takeObject: the first slot of the free list is handed out.        *)
takeObject(m, s) ==
  [m EXCEPT !.slab[s].free = m.slab[s].freeArray[m.slab[s].free],
            !.slab[s].numOfFreeSlots = @ - 1]

(* The end of Cache::cacheAlloc: an object is taken from the first partial *)
(* slab, which moves to slabsFull with its last one.                       *)
takeFromPartial(m, c) ==
  LET s     == m.cache[c].list["PARTIAL"]
      taken == takeObject(m, s)
  IN  IF taken.slab[s].numOfFreeSlots = 0 THEN moveSlab(taken, c, s, "FULL") ELSE taken

(* A mistake: a full slab is always partial after a free.                  *)
updateSlabOfMany(m, s) ==
  LET c == m.slab[s].owner
      n == m.slab[s].numOfFreeSlots
      moved == IF n = 0 THEN moveSlab(m, c, s, "PARTIAL")
               ELSE IF n = objNum[c] - 1 THEN moveSlab(m, c, s, "FREE") ELSE m
  IN  [moved EXCEPT !.slab[s].numOfFreeSlots = n + 1]

(* Slab::updateSlab: one more slot is free, and a slab that was full, or   *)
(* that is now all free, changes its list.                                 *)
updateSlab(m, s) ==
  LET c == m.slab[s].owner
      n == m.slab[s].numOfFreeSlots
      moved == IF n = 0
               THEN moveSlab(m, c, s, IF objNum[c] = 1 THEN "FREE" ELSE "PARTIAL")
               ELSE IF n = objNum[c] - 1 THEN moveSlab(m, c, s, "FREE") ELSE m
  IN  [moved EXCEPT !.slab[s].numOfFreeSlots = n + 1]

(* A mistake: the two assignments are swapped.                             *)
linkSlotSwapped(m, s, i) ==
  [m EXCEPT !.slab[s].free = i, !.slab[s].freeArray[i] = i]

(* The end of putObject and putBuffer: the slot becomes the first of the   *)
(* free list.                                                              *)
linkSlot(m, s, i) ==
  [m EXCEPT !.slab[s].freeArray[i] = m.slab[s].free, !.slab[s].free = i]

=============================================================================
