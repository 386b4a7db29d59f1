------------------------------- MODULE Buffers -------------------------------
(***************************************************************************)
(* Small memory buffers: kmalloc and kfree (CachePool.cpp, and the parts   *)
(* of SlabAllocator.cpp for slabs of type 1).  There is a cache of buffers *)
(* for each power of two, made when the first size of its class is asked.  *)
(* The header of a slab of buffers is not in the memory of the slab but an *)
(* object of a second cache, one for each class, that SlabInit makes.      *)
(*                                                                         *)
(* Memory is counted in units of the least size that matters; page p       *)
(* begins at p * BLOCK_SIZE.  Of the buddy allocator only the promise of   *)
(* BlockPool is used; held are the extents that the slabs hold.            *)
(***************************************************************************)
EXTENDS BlockPool, FiniteSets, Sequences

CONSTANTS
  BLOCK_SIZE,
  MIN_BUFF_ORDER,
  MAX_BUFF_ORDER,
  Requests,      \* the sizes that are asked of kmalloc
  headersInSlab, \* the headers that fit into one slab of headers
  None           \* the null pointer

Classes == 0 .. MAX_BUFF_ORDER - MIN_BUFF_ORDER
Served  == 2^MIN_BUFF_ORDER .. 2^MAX_BUFF_ORDER

(* The class of a size: the least power of two that is not below it.       *)
getPowerOfTwo(x) ==
  (CHOOSE k \in 0 .. x : x <= 2^k /\ \A j \in 0 .. k - 1 : x > 2^j) - MIN_BUFF_ORDER

(* The order of an extent of a size.                                       *)
getOrder(x) ==
  CHOOSE k \in 0 .. x : x <= BLOCK_SIZE * 2^k /\ \A j \in 0 .. k - 1 : x > BLOCK_SIZE * 2^j

(* The caches: that of the headers of a class, and that of its buffers,    *)
(* which depends on the size that was asked first.                         *)
headerCache(i)    == <<"headers", i>>
bufferCache(size) == <<"buffers", size>>
HeaderCaches == {headerCache(i) : i \in Classes}
BufferCaches == {bufferCache(size) : size \in Requests \cap Served}

slotSize(c) == 2^(getPowerOfTwo(c[2]) + MIN_BUFF_ORDER)

(* A mistake: the order of a cache of buffers is left as it was.           *)
slabOrderZero(c) == 0

(* What bufferInit makes of the size that was asked first.                 *)
slabOrder(c) == getOrder(c[2])
ObjNum(c) ==
  IF c \in HeaderCaches THEN headersInSlab
  ELSE IF c[2] > BLOCK_SIZE THEN 1 ELSE BLOCK_SIZE \div c[2]

(* The number fits because the kernel asks for powers of two, which are    *)
(* what the slots are.  A first request of 40 bytes would make 102 slots   *)
(* of 64 in 4096 bytes.                                                    *)
ASSUME BuffersAssumption ==
  /\ MAX_ORDER \in Nat
  /\ BLOCK_SIZE \in Nat \ {0}
  /\ MIN_BUFF_ORDER \in Nat /\ MAX_BUFF_ORDER \in Nat
  /\ headersInSlab \in Nat \ {0}
  /\ \A c \in BufferCaches : ObjNum(c) * slotSize(c) <= BLOCK_SIZE * 2^getOrder(c[2])

(* The places of a header: the beginning of a page for a slab of headers,  *)
(* a slot of such a slab for a slab of buffers.                            *)
InPage(p)    == <<p>>
InSlot(s, i) == s \o <<i>>
Places == {InPage(p) : p \in Pages}
          \cup {InSlot(InPage(p), i) : p \in Pages, i \in 0 .. headersInSlab - 1}

AllCaches == HeaderCaches \cup BufferCaches

ASSUME NullAssumption == None \notin AllCaches /\ None \notin Places

INSTANCE Slab WITH
  Caches <- AllCaches, Slabs <- Places, objNum <- [c \in AllCaches |-> ObjNum(c)]

VARIABLES
  slab,           \* the headers
  mem,            \* mem[s]: the extent that header s stands for
  cache,          \* the descriptors
  memoryBuffers,  \* the cache of buffers of each class
  live,           \* the buffers in use: [addr, size]
  lost,           \* the headers that createBufferSlab took and did not use
  finalized       \* SlabFinalize was called

bufferVars == <<slab, mem, cache, memoryBuffers, held, live, lost, finalized>>

Now       == [slab |-> slab, cache |-> cache]
Become(m) == slab' = m.slab /\ cache' = m.cache

-----------------------------------------------------------------------------
(* What Buddy::alloc may return when the extents h are held.               *)
Pool(h) == INSTANCE BlockPool WITH held <- h
Room(h, order) == {e \in Pool(h)!Extents : e.order = order /\ Pool(h)!Available(e)}

(* The address of a slot of a slab of buffers.                             *)
Address(e, i, c) == e.addr * BLOCK_SIZE + i * slotSize(c)

(* The rest of cacheAlloc: the buffer is taken from the first partial slab.*)
HandOut(m, memory, c, size) ==
  LET s    == m.cache[c].list["PARTIAL"]
      addr == Address(memory[s], m.slab[s].free, c)
  IN  /\ Become(takeFromPartial(m, c))
      /\ mem' = memory
      /\ live' = live \cup {[addr |-> addr, size |-> size]}

(* A buffer of a slab there is.                                            *)
fromSlab(c, size) ==
  /\ ~NoSlabLeft(Now, c)
  /\ HandOut(Stocked(Now, c), mem, c, size)
  /\ UNCHANGED <<held, lost>>

(* How a cache of headers can get one to give out, with a page if it has   *)
(* no slab with room.                                                      *)
WithHeader(h) ==
  IF NoSlabLeft(Now, h)
  THEN {[m |-> Grown(Now, h, InPage(e.addr)), held |-> held \cup {e}] : e \in Room(held, 0)}
  ELSE {[m |-> Stocked(Now, h), held |-> held]}

(* createBufferSlab: a header is taken from the cache of headers, then the *)
(* memory of the slab.  Without memory the header is not given back.       *)
createBufferSlab(c, size) ==
  LET h == headerCache(getPowerOfTwo(size))
  IN  \E got \in WithHeader(h) :
        LET first == got.m.cache[h].list["PARTIAL"]
            s     == InSlot(first, got.m.slab[first].free)
            taken == takeFromPartial(got.m, h)
            space == Room(got.held, slabOrder(c))
        IN  \/ \E e \in space :
                 /\ held' = got.held \cup {e}
                 /\ HandOut(Grown(taken, c, s), [mem EXCEPT ![s] = e], c, size)
                 /\ UNCHANGED lost
            \/ /\ space = {}
               /\ held' = got.held
               /\ lost' = lost \cup {s}
               /\ Become([taken EXCEPT !.cache[c].error = -1])
               /\ UNCHANGED <<mem, live>>

fromNewSlab(c, size) == NoSlabLeft(Now, c) /\ createBufferSlab(c, size)

(* There is neither a header nor a page for one.                           *)
noHeader(c, size) ==
  LET h == headerCache(getPowerOfTwo(size))
  IN  /\ NoSlabLeft(Now, c)
      /\ WithHeader(h) = {}
      /\ Become([Now EXCEPT !.cache[h].error = -2, !.cache[c].error = -1])
      /\ UNCHANGED <<mem, held, live, lost>>

(* kmalloc.  The first size of a class makes its cache (bufferInit).       *)
kmalloc(size) ==
  LET i == getPowerOfTwo(size)
      c == IF memoryBuffers[i] = None THEN bufferCache(size) ELSE memoryBuffers[i]
  IN  /\ size \in Served
      /\ memoryBuffers' = [memoryBuffers EXCEPT ![i] = c]
      /\ fromSlab(c, size) \/ fromNewSlab(c, size) \/ noHeader(c, size)
      /\ UNCHANGED finalized

kmallocRefused(size) == size \notin Served /\ UNCHANGED bufferVars

-----------------------------------------------------------------------------
(* A mistake: full slabs are not searched.                                 *)
SearchedPartial == {"PARTIAL"}

(* The lists that putBuffer searches, and the slabs on lists of a cache.   *)
Searched == {"PARTIAL", "FULL"}
SlabsOn(c, groups) == UNION {Walk(Now, cache[c].list[g]) : g \in groups}

Open == {memoryBuffers[i] : i \in Classes} \ {None}
SlabsOfBuffers == UNION {SlabsOn(c, Groups) : c \in Open}

(* The slab that putBuffer finds for an address: its memory begins with    *)
(* the page of the address.                                                *)
HeadersOf(addr) ==
  {s \in UNION {SlabsOn(c, Searched) : c \in Open} : mem[s].addr = addr \div BLOCK_SIZE}

IndexIn(s, addr) == (addr - mem[s].addr * BLOCK_SIZE) \div slotSize(slab[s].owner)

(* kfree: of a buffer in use,                                              *)
kfree(b) ==
  /\ \E s \in HeadersOf(b.addr) :
       Become(linkSlot(updateSlab(Now, s), s, IndexIn(s, b.addr)))
  /\ live' = live \ {b}
  /\ UNCHANGED <<mem, memoryBuffers, held, lost, finalized>>

(* or of an address for which there is no slab, such as that of a buffer   *)
(* which was freed and is the last of its slab.                            *)
kfreeRefused(addr) == HeadersOf(addr) = {} /\ UNCHANGED bufferVars

(* A mistake: the slabs of headers are not destroyed.                      *)
FinalizedWithoutHeaders ==
  [slabs |-> SlabsOfBuffers, extents |-> {mem[s] : s \in SlabsOfBuffers}]

(* What SlabFinalize gives back: destroySlab frees the memory of a slab    *)
(* of buffers and its header; the caches of headers go after those of      *)
(* buffers, with the pages of all headers.                                 *)
Finalized ==
  LET pages == UNION {SlabsOn(h, Groups) : h \in HeaderCaches}
  IN  [slabs   |-> SlabsOfBuffers \cup pages,
       extents |-> {mem[s] : s \in SlabsOfBuffers}
                   \cup {[addr |-> s[1], order |-> 0] : s \in pages}]

(* SlabFinalize, in the end of main().                                     *)
SlabFinalize ==
  /\ finalized' = TRUE
  /\ held' = held \ Finalized.extents
  /\ slab' = [s \in Places |-> BlankSlab]
  /\ mem' = [s \in Places |-> None]
  /\ cache' = [c \in DOMAIN cache |-> NewCache]
  /\ live' = {}
  /\ UNCHANGED <<memoryBuffers, lost>>

-----------------------------------------------------------------------------
(* SlabInit has made the caches of headers.                                *)
BuffersInit ==
  /\ slab = [s \in Places |-> BlankSlab]
  /\ mem = [s \in Places |-> None]
  /\ cache = [c \in AllCaches |-> NewCache]
  /\ memoryBuffers = [i \in Classes |-> None]
  /\ PoolInit
  /\ live = {}
  /\ lost = {}
  /\ finalized = FALSE

BuffersNext ==
  /\ ~finalized
  /\ \/ \E size \in Requests : kmalloc(size) \/ kmallocRefused(size)
     \/ \E b \in live : kfree(b)
     \/ \E p \in Pages : kfreeRefused(p * BLOCK_SIZE)
     \/ SlabFinalize

BuffersSpec == BuffersInit /\ [][BuffersNext]_bufferVars

-----------------------------------------------------------------------------
BuffersTyped ==
  /\ DOMAIN slab = Places
  /\ mem \in [Places -> Extents \cup {None}]
  /\ \A c \in DOMAIN cache : cache[c].error \in Errors /\ cache[c].numOfSlabs \in Nat
  /\ \A i \in Classes : memoryBuffers[i] # None =>
       memoryBuffers[i] \in BufferCaches /\ getPowerOfTwo(memoryBuffers[i][2]) = i
  /\ held \subseteq Extents
  /\ lost \subseteq Places

(* The slots of a slab that are on its free list.                          *)
FreeSlotsOf(s) ==
  LET met[n \in Nat] ==
        IF n = 0 THEN {slab[s].free} \ {End}
        ELSE LET before == met[n - 1]
             IN  before \cup ({slab[s].freeArray[i] : i \in before} \ {End})
  IN  met[ObjNum(slab[s].owner)]
UsedSlots(s) == Slots(slab[s].owner) \ FreeSlotsOf(s)

HeaderSlabs == UNION {SlabsOn(h, Groups) : h \in HeaderCaches}

(* A header in use is that of a slab on a list of buffers, or was lost     *)
(* when there was no memory for its slab: no other way loses one, and no   *)
(* header is given out again while its slab is linked.  The extents held   *)
(* are those of the headers and of the slabs, each for one of them; and    *)
(* after the end none is, the headers that were lost included.             *)
HeadersMatchBlocks ==
  /\ BuffersTyped
  /\ IF finalized THEN held = {}
     ELSE /\ {InSlot(s, i) : s \in HeaderSlabs, i \in 0 .. headersInSlab - 1}
               \cap (SlabsOfBuffers \cup lost)
             = UNION {{InSlot(s, i) : i \in UsedSlots(s)} : s \in HeaderSlabs}
          /\ SlabsOfBuffers \cap lost = {}
          /\ held = {[addr |-> s[1], order |-> 0] : s \in HeaderSlabs}
                    \cup {mem[s] : s \in SlabsOfBuffers}
          /\ Cardinality(held) = Cardinality(HeaderSlabs) + Cardinality(SlabsOfBuffers)

(* kfree finds the slab of every buffer in use, and no other: the slab     *)
(* whose used slots are those of the buffers in its memory, in which each  *)
(* begins with its slot and ends before the next.                          *)
BuffersFound ==
  /\ \A b \in live :
       \E s \in SlabsOfBuffers :
         /\ HeadersOf(b.addr) = {s}
         /\ b.addr = mem[s].addr * BLOCK_SIZE + IndexIn(s, b.addr) * slotSize(slab[s].owner)
         /\ b.size <= slotSize(slab[s].owner)
         /\ b.addr + b.size <= (mem[s].addr + 2^mem[s].order) * BLOCK_SIZE
  /\ \A s \in SlabsOfBuffers :
       UsedSlots(s) = {IndexIn(s, b.addr) : b \in {l \in live : s \in HeadersOf(l.addr)}}

(* The users of kmalloc get what slab.h promises.                          *)
Buffering == INSTANCE BufferPool WITH
  Memory <- 0 .. 2^MAX_ORDER * BLOCK_SIZE - 1, buffers <- live
ImplementsBufferPool == Buffering!PoolSpec

=============================================================================
