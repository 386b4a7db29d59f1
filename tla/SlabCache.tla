----------------------------- MODULE SlabCache -----------------------------
(***************************************************************************)
(* Object caches (cache.cpp, slab.cpp, and SlabAllocator.cpp for slabs     *)
(* whose header is in their own block, type 0).  A slab is the buddy block *)
(* that holds its header and its objects; an object is a pair of a block   *)
(* and a slot of it.  Of the buddy allocator only the promise of BlockPool *)
(* is used: a block it hands out is in nobody else's hands.                *)
(***************************************************************************)
EXTENDS Slab

VARIABLES
  slab,      \* the headers in the blocks
  cache,     \* the descriptors of the caches
  created,   \* the caches between kmem_cache_create and kmem_cache_destroy
  avail,     \* the blocks the buddy allocator has left
  live,      \* the objects in their users' hands
  call       \* the last call of the interface, with its result

vars == <<slab, cache, created, avail, live, call>>

Memory     == [slab |-> slab, cache |-> cache]
Become(m)  == slab' = m.slab /\ cache' = m.cache

-----------------------------------------------------------------------------
(* kmem_cache_create.                                                      *)
create(c) ==
  /\ c \notin created
  /\ created' = created \cup {c}
  /\ cache' = [cache EXCEPT ![c] = NewCache]
  /\ call' = <<"create", c>>
  /\ UNCHANGED <<slab, avail, live>>

(* The object that the rest of cacheAlloc takes, and the cache after it.   *)
HandOut(m, c) ==
  LET s == m.cache[c].list["PARTIAL"]
  IN  /\ Become(takeFromPartial(m, c))
      /\ live' = live \cup {<<s, m.slab[s].free>>}
      /\ call' = <<"alloc", c, <<s, m.slab[s].free>>>>

(* Cache::cacheAlloc, by where the object comes from: a slab with room,    *)
allocFromSlab(c) ==
  /\ ~NoSlabLeft(Memory, c)
  /\ HandOut(Stocked(Memory, c), c)
  /\ UNCHANGED avail

(* a new slab (slabAlloc and createSlab),                                  *)
allocFromNewSlab(c) ==
  /\ NoSlabLeft(Memory, c)
  /\ \E b \in avail :
       /\ avail' = avail \ {b}
       /\ HandOut(Grown(Memory, c, b), c)

(* or nowhere, and the result is null.                                     *)
allocFails(c) ==
  /\ NoSlabLeft(Memory, c)
  /\ avail = {}
  /\ cache' = [cache EXCEPT ![c].error = -2]
  /\ call' = <<"alloc", c, None>>
  /\ UNCHANGED <<slab, avail, live>>

cacheAlloc(c) ==
  /\ c \in created
  /\ allocFromSlab(c) \/ allocFromNewSlab(c) \/ allocFails(c)
  /\ UNCHANGED created

-----------------------------------------------------------------------------
(* Cache::cacheFree of a live object; the caller may name the wrong cache, *)
(* and then nothing but the error of that cache changes.  The destructor   *)
(* and the constructor run on the object between updateSlab and linkSlot   *)
(* and do not touch this cache.                                            *)
cacheFree(c, obj) ==
  LET s == obj[1]
  IN  /\ c \in created
      /\ obj \in live
      /\ IF slab[s].owner # c
         THEN /\ cache' = [cache EXCEPT ![c].error = -3]
              /\ UNCHANGED <<slab, live>>
         ELSE /\ Become(linkSlot(updateSlab(Memory, s), s, obj[2]))
              /\ live' = live \ {obj}
      /\ call' = <<"free", c, obj>>
      /\ UNCHANGED <<created, avail>>

(* destroySlab for each of a set of slabs: their blocks go back to the     *)
(* buddy allocator.                                                        *)
destroySlabs(S) ==
  /\ slab' = [s \in Slabs |-> IF s \in S THEN BlankSlab ELSE slab[s]]
  /\ avail' = avail \cup S

(* A mistake: the full slabs are forgotten.                                *)
SlabsWithRoom(c) == UNION {Walk(Memory, cache[c].list[g]) : g \in Groups \ {"FULL"}}

(* The slabs on the three lists of a cache.                                *)
AllSlabs(c) == UNION {Walk(Memory, cache[c].list[g]) : g \in Groups}

(* kmem_cache_destroy: all slabs of the three lists are destroyed, with    *)
(* the objects that are still in use.                                      *)
destroy(c) ==
  LET gone == AllSlabs(c)
  IN  /\ c \in created
      /\ created' = created \ {c}
      /\ destroySlabs(gone)
      /\ cache' = [cache EXCEPT ![c] = NewCache]
      /\ live' = {obj \in live : obj[1] \notin gone}
      /\ call' = <<"destroy", c>>

(* Cache::cacheShrink: the slabs of slabsFree are destroyed, unless the    *)
(* cache grew since the last call.  The head of slabsFree stays what it    *)
(* was.                                                                    *)
cacheShrink(c) ==
  LET gone == Walk(Memory, cache[c].list["FREE"])
  IN  /\ c \in created
      /\ IF cache[c].shrink = 0
         THEN /\ cache' = [cache EXCEPT ![c].shrink = 1]
              /\ UNCHANGED <<slab, avail>>
         ELSE /\ destroySlabs(gone)
              /\ cache' = [cache EXCEPT ![c].numOfSlabs = @ - Cardinality(gone)]
      /\ call' = <<"shrink", c>>
      /\ UNCHANGED <<created, live>>

-----------------------------------------------------------------------------
Init ==
  /\ slab = [s \in Slabs |-> BlankSlab]
  /\ cache = [c \in Caches |-> NewCache]
  /\ created = {}
  /\ avail = Slabs
  /\ live = {}
  /\ call = None

(* What the kernel does with its caches: nothing in it calls               *)
(* kmem_cache_shrink.                                                      *)
Next ==
  \E c \in Caches :
    \/ create(c)
    \/ cacheAlloc(c)
    \/ \E obj \in live : cacheFree(c, obj)
    \/ destroy(c)

Spec == Init /\ [][Next]_vars

(* The same with kmem_cache_shrink, which the interface slab.h offers.     *)
NextWithShrink == Next \/ \E c \in Caches : cacheShrink(c)
SpecWithShrink == Init /\ [][NextWithShrink]_vars

-----------------------------------------------------------------------------
Owned(c)      == {s \in Slabs : slab[s].owner = c}
Members(c, g) == {s \in Owned(c) : slab[s].group = g}
FreeSlots(s)  == {i \in Slots(slab[s].owner) : <<s, i>> \notin live}

Headers(c) ==
  [owner : {c}, next : Slabs \cup {None}, prev : Slabs \cup {None}, group : Groups,
   free : Slots(c) \cup {End}, freeArray : [Slots(c) -> Slots(c) \cup {End}],
   numOfFreeSlots : 0 .. objNum[c]]

TypeOK ==
  /\ DOMAIN slab = Slabs
  /\ \A s \in Slabs : slab[s] = BlankSlab \/ \E c \in created : slab[s] \in Headers(c)
  /\ cache \in [Caches -> [list : [Groups -> Slabs \cup {None}], numOfSlabs : Nat,
                           shrink : {0, 1}, error : Errors]]
  /\ created \subseteq Caches
  /\ avail \subseteq Slabs
  /\ live \subseteq Slabs \X Nat

(* Every block is either with the buddy allocator or a slab of a cache     *)
(* that exists, so nothing leaks when caches go; and every object in       *)
(* use lies in such a slab.                                                *)
BlocksAccounted ==
  /\ TypeOK
  /\ avail = {s \in Slabs : slab[s].owner \notin created}
  /\ \A obj \in live : /\ slab[obj[1]].owner # None
                       /\ obj[2] \in Slots(slab[obj[1]].owner)

(* Each of the three lists of a cache links exactly the slabs of its       *)
(* group, and prev is the inverse of next along it: the shortcuts of       *)
(* moveFree and moveSlab, which take a slab without a predecessor for the  *)
(* head of the list it is moved from, rest on it.  numOfSlabs counts them. *)
ListsLinkGroups ==
  \A c \in created :
    /\ cache[c].numOfSlabs = Cardinality(Owned(c))
    /\ \A g \in Groups :
         /\ Walk(Memory, cache[c].list[g]) = Members(c, g)
         /\ \A s \in Members(c, g) :
              /\ slab[s].prev = None <=> cache[c].list[g] = s
              /\ slab[s].next # None => slab[slab[s].next].prev = s

(* A slab is in the group its use demands: full without a free slot, free  *)
(* without one in use, partial otherwise.                                  *)
GroupsMatchUse ==
  \A s \in Slabs : slab[s].owner # None =>
    LET used == Slots(slab[s].owner) \ FreeSlots(s)
    IN  slab[s].group = IF FreeSlots(s) = {} THEN "FULL"
                        ELSE IF used = {} THEN "FREE" ELSE "PARTIAL"

(* The free list of a slab is a chain without repetition through exactly   *)
(* the slots that are not in use, and numOfFreeSlots is its length; rank   *)
(* is the distance of a slot from the end of the chain.  So takeObject     *)
(* never hands out an object that somebody uses, and never fails to find   *)
(* one when the counter says there is one.                                 *)
FreeListsExact ==
  \A s \in Slabs : slab[s].owner # None =>
    LET h == slab[s]
    IN  /\ h.numOfFreeSlots = Cardinality(FreeSlots(s))
        /\ h.free = End <=> FreeSlots(s) = {}
        /\ \E rank \in [FreeSlots(s) -> 1 .. h.numOfFreeSlots] :
             /\ \A i, j \in FreeSlots(s) : rank[i] = rank[j] => i = j
             /\ h.free # End => h.free \in FreeSlots(s) /\ rank[h.free] = h.numOfFreeSlots
             /\ \A i \in FreeSlots(s) :
                  IF rank[i] = 1 THEN h.freeArray[i] = End
                  ELSE /\ h.freeArray[i] \in FreeSlots(s)
                       /\ rank[h.freeArray[i]] = rank[i] - 1

(* The users of the caches get what slab.h promises.                       *)
ObjectsOf(c) == {obj \in live : slab[obj[1]].owner = c}
Objects == {<<s, i>> : s \in Slabs, i \in UNION {Slots(c) : c \in Caches}}
Pool == INSTANCE ObjectPool WITH open <- created, inUse <- [c \in Caches |-> ObjectsOf(c)]
ImplementsObjectPool == Pool!PoolSpec

(* h/slab.h:10 offers kmem_cache_shrink to shrink a cache, after which the *)
(* cache must still be usable: the slab that cacheAlloc uses next, the     *)
(* head of a list, is a slab of the cache.                                 *)
ListHeadsAreSlabs ==
  \A c \in created : \A g \in Groups :
    cache[c].list[g] # None => slab[cache[c].list[g]].owner = c

=============================================================================
