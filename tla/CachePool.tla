------------------------------ MODULE CachePool ------------------------------
(***************************************************************************)
(* Where the cache descriptors themselves live (CachePool.cpp and the      *)
(* constructor of Cache): pages of the buddy allocator, called records,    *)
(* each with a header and some slots, in a list that grows when all slots  *)
(* are in use and from which a record goes when all of its slots are free; *)
(* and the list of all caches, linked through the descriptors.             *)
(*                                                                         *)
(* A slot is the pair of its record and its number.  Of the buddy          *)
(* allocator only the promise of BlockPool is used.                        *)
(***************************************************************************)
EXTENDS Integers, Sequences, FiniteSets

CONSTANTS
  Records,            \* the pages that may become records
  numOfSlots,         \* how many descriptors a record holds
  Null

ASSUME CachePoolAssumption ==
  /\ numOfSlots \in Nat \ {0}
  /\ Null \notin Records \cup (Records \X (0 .. numOfSlots - 1))

VARIABLES
  head, tail,         \* the list of records
  rec,                \* the records: next, the chain of free slots and its length
  cacheHead, cacheTail,
  handle,             \* the descriptors in use: next and prev
  avail,              \* the pages the buddy allocator has left
  failed,             \* history: a creation has failed for want of a page
  ended               \* CachePoolFinalize was called

vars == <<head, tail, rec, cacheHead, cacheTail, handle, avail, failed, ended>>

SlotsOf(r) == {r} \X (0 .. numOfSlots - 1)
HasFree(r) == rec[r].free # <<>>

(* A new record: all slots in the chain, in the order of their numbers.    *)
NewRecord(r) ==
  [next |-> Null, free |-> [i \in 1 .. numOfSlots |-> <<r, i - 1>>],
   numOfFreeSlots |-> numOfSlots]

With(f, x, v) == [y \in DOMAIN f \cup {x} |-> IF y = x THEN v ELSE f[y]]
Without(f, x) == [y \in DOMAIN f \ {x} |-> f[y]]

-----------------------------------------------------------------------------
(* The records that a walk from the first one meets after it reached r,    *)
(* and where allocateSlot stops: at the first one with a free slot, or at  *)
(* Null.                                                                   *)
Behind(r) ==
  {q \in DOMAIN rec : r # Null /\ \A S \in SUBSET DOMAIN rec :
     r \in S /\ (\A p \in S : rec[p].next \in S \cup {Null}) => q \in S}
FirstWithFree ==
  LET open == {r \in Behind(head) : HasFree(r)}
  IN  IF open = {} THEN Null ELSE CHOOSE r \in open : open \subseteq Behind(r)

(* A mistake: the slot stays in the chain.                                 *)
TakeSlotKept(record) == [record EXCEPT !.numOfFreeSlots = @ - 1]
TakeSlot(record) == [record EXCEPT !.free = Tail(@), !.numOfFreeSlots = @ - 1]

(* The constructor of Cache: the descriptor becomes the last one of the    *)
(* list of caches.                                                         *)
Enlist(s) ==
  /\ cacheTail' = s
  /\ IF cacheTail = Null
     THEN /\ cacheHead' = s
          /\ handle' = With(handle, s, [next |-> Null, prev |-> Null])
     ELSE /\ handle' = With([handle EXCEPT ![cacheTail].next = s], s,
                            [next |-> Null, prev |-> cacheTail])
          /\ UNCHANGED cacheHead

(* allocateSlot and the constructor: from a record with a free slot,       *)
createFromRecord ==
  /\ FirstWithFree # Null
  /\ rec' = [rec EXCEPT ![FirstWithFree] = TakeSlot(@)]
  /\ Enlist(Head(rec[FirstWithFree].free))
  /\ UNCHANGED <<head, tail, avail, failed>>

(* A mistake: the tail stays.                                              *)
TailKept(r) == tail
NewTail(r) == r

(* or from a new record, which becomes the last one,                       *)
createFromNewRecord ==
  /\ FirstWithFree = Null
  /\ \E r \in avail :
       /\ avail' = avail \ {r}
       /\ rec' = With(IF tail = Null THEN rec ELSE [rec EXCEPT ![tail].next = r],
                      r, TakeSlot(NewRecord(r)))
       /\ head' = IF tail = Null THEN r ELSE head
       /\ tail' = NewTail(r)
       /\ Enlist(Head(NewRecord(r).free))
  /\ UNCHANGED failed

(* or from nowhere: the result is null, the constructor is not called      *)
(* (-fcheck-new), and the null record becomes the last one all the same.   *)
createFails ==
  /\ FirstWithFree = Null
  /\ avail = {}
  /\ tail' = Null
  /\ head' = IF tail = Null THEN Null ELSE head
  /\ failed' = TRUE
  /\ UNCHANGED <<rec, cacheHead, cacheTail, handle, avail>>

-----------------------------------------------------------------------------
(* A mistake: the new last descriptor still points to the old one.         *)
CutKept(h, s) == h
CutBehind(h, s) == [h EXCEPT ![s].next = Null]

(* The first part of deallocateSlot: the descriptor leaves the list.       *)
Delist(s) ==
  LET h == handle[s]
      rest == Without(handle, s)
  IN  IF h.prev = Null
      THEN /\ cacheHead' = handle[cacheHead].next
           /\ cacheTail' = IF handle[cacheHead].next = Null THEN Null ELSE cacheTail
           /\ handle' = IF h.next = Null THEN rest ELSE [rest EXCEPT ![h.next].prev = Null]
      ELSE IF h.next = Null
      THEN /\ cacheTail' = handle[cacheTail].prev
           /\ handle' = CutBehind(rest, h.prev)
           /\ UNCHANGED cacheHead
      ELSE /\ handle' = [rest EXCEPT ![h.prev].next = h.next, ![h.next].prev = h.prev]
           /\ UNCHANGED <<cacheHead, cacheTail>>

PutSlot(record, s) == [record EXCEPT !.free = <<s>> \o @, !.numOfFreeSlots = @ + 1]

RecordGone(r, free) == free = numOfSlots /\ r # head

(* deallocateSlot after the destructor: the slot goes back to its record,  *)
(* and the record, if it is not the first one, to the buddy allocator with *)
(* its last slot.  The search for a record that is not in the list runs    *)
(* into a null pointer; there the model ends.                              *)
destroy(s) ==
  LET r    == s[1]
      rec1 == [rec EXCEPT ![r] = PutSlot(@, s)]
      pred == CHOOSE p \in DOMAIN rec : rec[p].next = r
  IN  /\ s \in DOMAIN handle
      /\ Delist(s)
      /\ IF RecordGone(r, rec1[r].numOfFreeSlots)
         THEN /\ r \in Behind(head)
              /\ rec' = Without([rec1 EXCEPT ![pred].next = rec[r].next], r)
              /\ tail' = IF r = tail THEN pred ELSE tail
              /\ avail' = avail \cup {r}
         ELSE rec' = rec1 /\ UNCHANGED <<tail, avail>>
      /\ UNCHANGED <<head, failed>>

-----------------------------------------------------------------------------
(* At the end of main(), when no cache is left: the records go back, the   *)
(* pointers to them stay.                                                  *)
CachePoolFinalize ==
  /\ DOMAIN handle = {}
  /\ avail' = avail \cup Behind(head)
  /\ rec' = [r \in DOMAIN rec \ Behind(head) |-> rec[r]]
  /\ ended' = TRUE
  /\ UNCHANGED <<head, tail, cacheHead, cacheTail, handle, failed>>

-----------------------------------------------------------------------------
(* After CachePoolInit.                                                    *)
Init ==
  \E r \in Records :
    /\ head = r /\ tail = r
    /\ rec = [q \in {r} |-> NewRecord(r)]
    /\ cacheHead = Null /\ cacheTail = Null
    /\ handle = [s \in {} |-> Null]
    /\ avail = Records \ {r}
    /\ failed = FALSE /\ ended = FALSE

Next ==
  /\ ~ended
  /\ \/ /\ \/ createFromRecord
           \/ createFromNewRecord
           \/ createFails
           \/ \E s \in DOMAIN handle : destroy(s)
        /\ UNCHANGED ended
     \/ CachePoolFinalize

Spec == Init /\ [][Next]_vars

-----------------------------------------------------------------------------
AllSlots == Records \X (0 .. numOfSlots - 1)

(* The type of the state.                                                  *)
TypeOK ==
  /\ ~ended => {head, tail} \subseteq DOMAIN rec \cup {Null}
  /\ DOMAIN rec \subseteq Records
  /\ \A r \in DOMAIN rec :
       rec[r] \in [next : Records \cup {Null}, free : Seq(SlotsOf(r)), numOfFreeSlots : 0 .. numOfSlots]
  /\ cacheHead \in AllSlots \cup {Null} /\ cacheTail \in AllSlots \cup {Null}
  /\ DOMAIN handle \subseteq AllSlots
  /\ \A s \in DOMAIN handle : handle[s] \in [next : AllSlots \cup {Null}, prev : AllSlots \cup {Null}]
  /\ avail \subseteq Records
  /\ failed \in BOOLEAN /\ ended \in BOOLEAN

(* The list of records leads to every page taken from the buddy allocator  *)
(* and ends in tail, which is where the next one is linked; no page but    *)
(* the first is kept when all its slots are free (CachePool.cpp:47-69,     *)
(* 97-115).  Only a creation that fails may break this: it leaves tail     *)
(* null, and the next new record then takes the place of the whole list.   *)
(* CachePoolFinalize, which follows the list, leaves no page taken.        *)
RecordsListed ==
  /\ TypeOK
  /\ DOMAIN rec = Records \ avail
  /\ ended /\ ~failed => avail = Records
  /\ ~failed /\ ~ended =>
       /\ Behind(head) = DOMAIN rec
       /\ \A r \in DOMAIN rec : rec[r].next = Null <=> r = tail
       /\ \A r \in DOMAIN rec \ {head} : Len(rec[r].free) < numOfSlots

(* Every slot of every record is either once in the chain of its record or *)
(* in use, and the counter, which decides when a page is given back, tells *)
(* the length of the chain: no descriptor lies in a page that was given    *)
(* back (CachePool.cpp:64-67, 91-99).                                      *)
SlotsExact ==
  /\ \A r \in DOMAIN rec :
       LET free == {rec[r].free[i] : i \in DOMAIN rec[r].free}
       IN  /\ Cardinality(free) = Len(rec[r].free)
           /\ rec[r].numOfFreeSlots = Len(rec[r].free)
           /\ DOMAIN handle \cap SlotsOf(r) = SlotsOf(r) \ free
  /\ \A s \in DOMAIN handle : s[1] \in DOMAIN rec

(* The caches in the order of their list.                                  *)
CacheAt ==
  LET at[i \in 1 .. Cardinality(DOMAIN handle)] ==
        IF i = 1 THEN cacheHead ELSE handle[at[i - 1]].next
  IN  at

(* The list of caches holds exactly the caches that exist, linked both     *)
(* ways between cacheHead and cacheTail, whichever of them go and in which *)
(* order (cache.cpp:7-16, CachePool.cpp:74-89).                            *)
CachesLinked ==
  LET n == Cardinality(DOMAIN handle)
  IN  IF n = 0 THEN cacheHead = Null /\ cacheTail = Null
      ELSE /\ handle[cacheHead].prev = Null
           /\ handle[cacheTail].next = Null
           /\ CacheAt[n] = cacheTail
           /\ \A i \in 2 .. n : CacheAt[i] \in DOMAIN handle /\ handle[CacheAt[i]].prev = CacheAt[i - 1]
=============================================================================
