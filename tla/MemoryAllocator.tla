-------------------------- MODULE MemoryAllocator ---------------------------
(***************************************************************************)
(* mem_alloc and mem_free (MemoryAllocator.cpp): the heap of the programs, *)
(* a list of free blocks in the order of their addresses, with a header in *)
(* front of every block, and the pages of the heap that are mapped.  A     *)
(* system call runs with interrupts off, so each is one step; the page     *)
(* faults that it takes on the headers of free blocks (riscv.cpp) are      *)
(* steps of their own.                                                     *)
(***************************************************************************)
EXTENDS Integers

CONSTANTS
  HeapSize,           \* HEAP_END_ADDR - HEAP_START_ADDR; the heap starts at 0
  HEADER, MEM_BLOCK, PAGE,
  SizeMod,            \* a size_t holds the numbers below
  Requests            \* the arguments of mem_alloc, in bytes

ASSUME HeapAssumption ==
  /\ {HeapSize, HEADER, MEM_BLOCK, PAGE, SizeMod} \subseteq Nat \ {0}
  /\ HEADER < HeapSize /\ HeapSize < SizeMod
  /\ Requests \subseteq Nat

(* An empty block would be put behind its right neighbour when it is freed *)
(* (MemoryAllocator.cpp:96), so that is not asked for; neither are units   *)
(* whose bytes overflow (MemoryAllocator.cpp:32).                          *)
ASSUME RequestsAssumption == \A n \in Requests : n > 0 /\ n + MEM_BLOCK < SizeMod

NULL == -1

VARIABLES
  init, fmem_head,
  hdr,                \* the headers: [next, prev, size] for each block's address
  used,               \* what was asked for each block that is handed out
  refused,            \* the request of the last call if it returned null
  pt                  \* the right of each page of the heap, and of the next one

vars == <<init, fmem_head, hdr, used, refused, pt>>

HeapPages == 0 .. HeapSize \div PAGE
PT == INSTANCE Translation WITH Pages <- HeapPages, Rights <- {"user", "kernel"}, NoEntry <- "none"

-----------------------------------------------------------------------------
(* Assignments through pointers that may be null.                          *)
SetNext(h, a, b) == IF a = NULL THEN h ELSE [h EXCEPT ![a].next = b]
SetPrev(h, a, b) == IF a = NULL THEN h ELSE [h EXCEPT ![a].prev = b]

End(h, a) == a + HEADER + h[a].size

(* mem_alloc asks the kernel for whole units, rounded up, and kmem_alloc   *)
(* makes them bytes again, as a size_t.                                    *)
blockSize(size) == size \div MEM_BLOCK + IF size % MEM_BLOCK # 0 THEN 1 ELSE 0
Bytes(n) == (n * MEM_BLOCK) % SizeMod

(* The first block from a on that is large enough.                         *)
(* A mistake: a block of exactly the size is passed over.                  *)
FirstLarger(h, a, size) ==
  LET From[b \in DOMAIN h \cup {NULL}] ==
        IF b = NULL THEN NULL ELSE IF h[b].size > size THEN b ELSE From[h[b].next]
  IN  From[a]
FirstFit(h, a, size) ==
  LET From[b \in DOMAIN h \cup {NULL}] ==
        IF b = NULL THEN NULL ELSE IF h[b].size >= size THEN b ELSE From[h[b].next]
  IN  From[a]

(* The function f with v at a, where it may have had no value.             *)
With(f, a, v) == [b \in DOMAIN f \cup {a} |-> IF b = a THEN v ELSE f[b]]

(* Block a is cut after size, and what is left of it takes its place in    *)
(* the list; or a is taken out as it is.                                   *)
CutOff(h, a, size) ==
  LET rest == a + HEADER + size
      new  == [next |-> h[a].next, prev |-> h[a].prev, size |-> h[a].size - size - HEADER]
  IN  SetPrev(SetNext(With([h EXCEPT ![a].size = size], rest, new), h[a].prev, rest),
              h[a].next, rest)
TakenOut(h, a) == SetPrev(SetNext(h, h[a].prev, h[a].next), h[a].next, h[a].prev)

Cuts(remainder) == remainder > HEADER

(* The pages of a block and its header, up to that of the first address    *)
(* behind it.                                                              *)
PagesOf(h, a) == a \div PAGE .. End(h, a) \div PAGE

-----------------------------------------------------------------------------
(* The first call makes the whole heap one free block.                     *)
StartHdr ==
  IF init THEN hdr ELSE [a \in {0} |-> [next |-> NULL, prev |-> NULL, size |-> HeapSize - HEADER]]
StartHead == IF init THEN fmem_head ELSE 0

(* The call of mem_alloc for that many bytes.                              *)
kmem_alloc(asked) ==
  LET h    == StartHdr
      size == Bytes(blockSize(asked))
      curr == FirstFit(h, StartHead, size)
      cut  == Cuts(h[curr].size - size)
      rest == curr + HEADER + size
      h1   == IF cut THEN CutOff(h, curr, size) ELSE TakenOut(h, curr)
  IN  /\ init' = TRUE
      /\ refused' = IF curr = NULL THEN {asked} ELSE {}
      /\ IF curr = NULL
         THEN hdr' = h /\ fmem_head' = StartHead /\ UNCHANGED <<used, pt>>
         ELSE /\ hdr' = [h1 EXCEPT ![curr].next = NULL, ![curr].prev = NULL]
              /\ fmem_head' = IF cut /\ (rest >= HeapSize \/ End(h1, rest) > HeapSize) THEN NULL
                              ELSE IF h[curr].prev # NULL THEN StartHead
                              ELSE IF cut THEN rest
                              ELSE h[curr].next
              /\ used' = With(used, curr, asked)
              /\ pt' = PT!MapPages(pt, PagesOf(h1, curr), "user")

-----------------------------------------------------------------------------
(* A block is joined with the next one in the list if that follows it.     *)
Joins(h, a) == a # NULL /\ h[a].next # NULL /\ End(h, a) = h[a].next
(* A mistake: the block behind the joined one keeps its prev.              *)
Absorbed(h, a, more) ==
  LET joined == [h EXCEPT ![a].size = @ + more, ![a].next = h[h[a].next].next]
  IN  [b \in DOMAIN h \ {h[a].next} |-> joined[b]]
tryToJoinOneWay(h, a) ==
  IF Joins(h, a) THEN Absorbed(h, a, h[h[a].next].size + HEADER) ELSE h
tryToJoin(h, a) ==
  IF Joins(h, a)
  THEN SetPrev(Absorbed(h, a, h[h[a].next].size + HEADER), h[h[a].next].next, a)
  ELSE h

(* The block of the list behind which a block at address a belongs.        *)
Predecessor(h, a) ==
  LET From[b \in DOMAIN h] ==
        IF h[b].next # NULL /\ a > h[b].next THEN From[h[b].next] ELSE b
  IN  IF fmem_head = NULL \/ a < fmem_head THEN NULL ELSE From[fmem_head]

(* tryToUnmap: the pages that lie wholly in a block.                       *)
(* A mistake: the first page is not rounded up.                            *)
WholePagesRoundedDown(h, a) ==
  {p \in HeapPages : p >= a \div PAGE /\ (p + 1) * PAGE <= End(h, a)}
WholePages(h, a) == {p \in HeapPages : p * PAGE >= a /\ (p + 1) * PAGE <= End(h, a)}

kmem_free(a) ==
  LET curr == Predecessor(hdr, a + HEADER)
      next == IF curr = NULL THEN fmem_head ELSE hdr[curr].next
      h1   == SetNext(SetPrev([hdr EXCEPT ![a].prev = curr, ![a].next = next], next, a), curr, a)
      h2   == tryToJoin(h1, a)
      h3   == tryToJoin(h2, curr)
      gone == WholePages(h1, a) \cup WholePages(h2, a)
                \cup IF Joins(h2, curr) THEN WholePages(h3, curr) ELSE {}
  IN  /\ a \in DOMAIN used
      /\ hdr' = h3
      /\ fmem_head' = IF curr = NULL THEN a ELSE fmem_head
      /\ used' = [b \in DOMAIN used \ {a} |-> used[b]]
      /\ pt' = PT!UnmapPages(pt, gone)
      /\ refused' = {}
      /\ UNCHANGED init

(* The kernel touches the header of a free block in a page that is not     *)
(* mapped, and the handler of the fault maps it.                           *)
headerFault(p) ==
  /\ pt[p] = "none"
  /\ \E a \in DOMAIN hdr \ DOMAIN used : p \in a \div PAGE .. (a + HEADER - 1) \div PAGE
  /\ pt' = PT!MapPages(pt, {p}, "kernel")
  /\ UNCHANGED <<init, fmem_head, hdr, used, refused>>

-----------------------------------------------------------------------------
Init ==
  /\ init = FALSE
  /\ fmem_head = NULL
  /\ hdr = <<>>
  /\ used = <<>>
  /\ refused = {}
  /\ pt = [p \in HeapPages |-> "none"]

Next ==
  \/ \E n \in Requests : kmem_alloc(n)
  \/ \E a \in DOMAIN used : kmem_free(a)
  \/ \E p \in HeapPages : headerFault(p)

Spec == Init /\ [][Next]_vars

-----------------------------------------------------------------------------
Addresses == 0 .. HeapSize - 1
FreeBlocks == DOMAIN hdr \ DOMAIN used

(* The type of the state; no block reaches over the end of the heap.       *)
TypeOK ==
  /\ init \in BOOLEAN
  /\ fmem_head \in Addresses \cup {NULL}
  /\ DOMAIN hdr \subseteq Addresses
  /\ \A a \in DOMAIN hdr :
       /\ hdr[a] \in [next : Addresses \cup {NULL}, prev : Addresses \cup {NULL}, size : Nat]
       /\ End(hdr, a) <= HeapSize
  /\ DOMAIN used \subseteq DOMAIN hdr
  /\ \A a \in DOMAIN used : used[a] \in Requests
  /\ refused = {} \/ \E n \in Requests : refused = {n}
  /\ pt \in [HeapPages -> {"none", "user", "kernel"}]

(* The blocks cover the heap without a gap and without an overlap, so no   *)
(* memory is lost by cutting and joining (MemoryAllocator.cpp:38-69, 8-18).*)
HeapTiled ==
  init => /\ 0 \in DOMAIN hdr
          /\ \A a \in DOMAIN hdr :
               /\ End(hdr, a) \in DOMAIN hdr \cup {HeapSize}
               /\ ~ \E b \in DOMAIN hdr : a < b /\ b < End(hdr, a)

(* The list holds exactly the free blocks, in the order of their           *)
(* addresses, linked both ways, and no two of them touch                   *)
(* (MemoryAllocator.cpp:94-118): whatever order blocks are freed in, free  *)
(* memory is in one piece wherever it can be.                              *)
LeastOf(S)    == IF S = {} THEN NULL ELSE CHOOSE a \in S : \A b \in S : a <= b
GreatestOf(S) == IF S = {} THEN NULL ELSE CHOOSE a \in S : \A b \in S : a >= b
FreeListExact ==
  /\ fmem_head = LeastOf(FreeBlocks)
  /\ \A a \in FreeBlocks :
       /\ hdr[a].next = LeastOf({b \in FreeBlocks : b > a})
       /\ hdr[a].prev = GreatestOf({b \in FreeBlocks : b < a})
       /\ End(hdr, a) # hdr[a].next

(* All of these: what is not in use is one block where it is in one piece. *)
HeapConsistent == TypeOK /\ HeapTiled /\ FreeListExact

(* Every page that a block in use touches is mapped for its user: freeing  *)
(* a neighbour in the same page does not unmap it                          *)
(* (MemoryAllocator.cpp:75-85, 123-141).                                   *)
UsedPagesMapped ==
  \A a \in DOMAIN used : \A p \in a \div PAGE .. (End(hdr, a) - 1) \div PAGE : pt[p] = "user"

(* The allocator implements the heap of Heap, its bound on waste and its   *)
(* promise not to refuse what fits included.                               *)
H == INSTANCE Heap WITH
  blocks <- {[start |-> a, len |-> HEADER + hdr[a].size, asked |-> used[a]] : a \in DOMAIN used}
ImplementsHeap == H!HeapSpec
=============================================================================
