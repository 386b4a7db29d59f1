--------------------------- MODULE CachePoolProofs ---------------------------
(***************************************************************************)
(* Proofs about CachePool.cpp: the cache pool, for any number of records   *)
(* and slots, and the small memory buffers, for any sizes of pages, slots  *)
(* and buffers.                                                            *)
(*                                                                         *)
(* The list of records is followed as the code follows it: what a walk     *)
(* meets is the least set that is closed under next, and what holds of it  *)
(* is shown with other closed sets.  The list of caches is a sequence of   *)
(* descriptors, each with its neighbours in it.  The first part is about   *)
(* chains of slots, then come the records, the list of records, the walk,  *)
(* the list of caches, and the inductive invariant with one lemma for      *)
(* every action.                                                           *)
(*                                                                         *)
(* The buffers are slots of the caches of SlabCache, and what is proved of *)
(* those is used here: each action maps a memory in which the caches are   *)
(* consistent to another one.  Added to it is where the headers are, which *)
(* extent each slab has and which slot each buffer.                        *)
(***************************************************************************)
EXTENDS CachePool, Buffers, QueueProofs, FiniteSetTheorems, TLAPS

-----------------------------------------------------------------------------
(* The slots of a record.                                                  *)
LEMMA SlotsOfRecord ==
  ASSUME NEW r \in Records
  PROVE  /\ SlotsOf(r) = {s \in AllSlots : s[1] = r}
         /\ IsFiniteSet(SlotsOf(r)) /\ Cardinality(SlotsOf(r)) = numOfSlots
<1>1. SlotsOf(r) = {s \in AllSlots : s[1] = r}
  BY DEF SlotsOf, AllSlots
<1>2. PICK n \in Nat \ {0} : n = numOfSlots
  BY CachePoolAssumption
<1>3. PICK N : N = 0 .. n - 1
  OBVIOUS
<1>4. IsFiniteSet(N) /\ Cardinality(N) = n
  <2>1. 0 \in Int /\ n - 1 \in Int /\ ~(0 > n - 1) /\ (n - 1) - 0 + 1 = n
    OBVIOUS
  <2> QED BY <1>3, <2>1, FS_Interval
<1>5. IsFiniteSet({r}) /\ Cardinality({r}) = 1
  BY FS_Singleton
<1>6. IsFiniteSet({r} \X N) /\ Cardinality({r} \X N) = 1 * n
  BY ONLY <1>4, <1>5, FS_Product
<1>7. SlotsOf(r) = {r} \X N /\ 1 * n = numOfSlots
  BY <1>2, <1>3 DEF SlotsOf
<1> QED BY <1>1, <1>6, <1>7

(* A chain of slots of a record.                                           *)
ChainIn(q, r) == q \in Seq(SlotsOf(r)) /\ Distinct(q)

(* It is no longer than the record and holds all slots if it is as long.   *)
LEMMA ChainLength ==
  ASSUME NEW r \in Records, NEW q, ChainIn(q, r)
  PROVE  /\ Len(q) \in 0 .. numOfSlots
         /\ Elements(q) \in SUBSET SlotsOf(r)
         /\ Len(q) = numOfSlots <=> Elements(q) = SlotsOf(r)
<1>1. q \in Seq(SlotsOf(r)) /\ Distinct(q)
  BY DEF ChainIn
<1>2. Elements(q) \in SUBSET SlotsOf(r)
  <2>1. \A i \in 1 .. Len(q) : q[i] \in SlotsOf(r)
    BY <1>1, ElementOfSeq
  <2> QED BY <2>1 DEF Elements
<1>3. IsFiniteSet(Elements(q)) /\ Cardinality(Elements(q)) = Len(q) /\ Len(q) \in Nat
  BY <1>1, DistinctCount, LenProperties
<1>4. IsFiniteSet(SlotsOf(r)) /\ Cardinality(SlotsOf(r)) = numOfSlots
  BY SlotsOfRecord
<1>5. Len(q) <= numOfSlots /\ (numOfSlots = Len(q) => SlotsOf(r) = Elements(q))
  BY <1>2, <1>3, <1>4, FS_Subset
<1> QED BY <1>2, <1>3, <1>4, <1>5, CachePoolAssumption

(* The chain of a new record.                                              *)
LEMMA NewChain ==
  ASSUME NEW r \in Records
  PROVE  ChainIn(NewRecord(r).free, r) /\ Len(NewRecord(r).free) = numOfSlots
<1>1. PICK q : q = [i \in 1 .. numOfSlots |-> <<r, i - 1>>]
  OBVIOUS
<1>2. numOfSlots \in Nat /\ \A i \in 1 .. numOfSlots : i - 1 \in 0 .. numOfSlots - 1
  BY CachePoolAssumption
<1>3. \A i \in 1 .. numOfSlots : q[i] = <<r, i - 1>> /\ q[i] \in SlotsOf(r)
  BY <1>1, <1>2 DEF SlotsOf
<1>4. q \in Seq(SlotsOf(r)) /\ Len(q) = numOfSlots
  BY <1>1, <1>2, <1>3, IsASeq
<1>5. \A i, j \in 1 .. numOfSlots : q[i] = q[j] => i = j
  BY <1>2, <1>3
<1> QED BY <1>1, <1>4, <1>5 DEF ChainIn, Distinct, NewRecord

-----------------------------------------------------------------------------
(* The records: what an update does to the chains and to the slots in use. *)
IsRecord(v) == v = [next |-> v.next, free |-> v.free, numOfFreeSlots |-> Len(v.free)]

Formed(f) ==
  \A r \in DOMAIN f :
    r \in Records /\ IsRecord(f[r]) /\ f[r].next \in Records \cup {Null} /\ ChainIn(f[r].free, r)

InUse(f) == {s \in AllSlots : s[1] \in DOMAIN f /\ s \notin Elements(f[s[1]].free)}

SameBut(f, g, D) == \A x \in D : g[x] = f[x]

LEMMA TakeSlotIs ==
  ASSUME NEW r \in Records, NEW v, IsRecord(v), ChainIn(v.free, r), v.free # <<>>,
         NEW w, w = TakeSlot(v)
  PROVE  /\ IsRecord(w) /\ w.next = v.next /\ ChainIn(w.free, r)
         /\ Len(w.free) = Len(v.free) - 1
         /\ Head(v.free) \in Elements(v.free)
         /\ Elements(w.free) = Elements(v.free) \ {Head(v.free)}
<1>1. PICK q : q = v.free
  OBVIOUS
<1>2. PICK n : n = v.next
  OBVIOUS
<1>3. v = [next |-> n, free |-> q, numOfFreeSlots |-> Len(q)]
  BY <1>1, <1>2 DEF IsRecord
<1>4. w = [next |-> n, free |-> Tail(q), numOfFreeSlots |-> Len(q) - 1]
  BY <1>3 DEF TakeSlot
<1>5. q \in Seq(SlotsOf(r)) /\ Distinct(q) /\ q # <<>>
  BY <1>1 DEF ChainIn
<1>6. /\ Tail(q) \in Seq(SlotsOf(r)) /\ Len(Tail(q)) = Len(q) - 1
      /\ Elements(q) = Elements(Tail(q)) \cup {Head(q)}
      /\ Distinct(Tail(q)) /\ Head(q) \notin Elements(Tail(q))
  BY <1>5, TailElements
<1>7. w.next = n /\ w.free = Tail(q) /\ w.numOfFreeSlots = Len(q) - 1
  BY <1>4
<1>8. IsRecord(w)
  BY <1>4, <1>6, <1>7 DEF IsRecord
<1> QED BY <1>1, <1>2, <1>6, <1>7, <1>8 DEF ChainIn

TakenFrom(s, v, r) ==
  IsRecord(v) /\ ChainIn(v.free, r) /\ s \in SlotsOf(r) /\ s \notin Elements(v.free)

GivenBack(s, v, r, w) ==
  /\ IsRecord(w) /\ w.next = v.next /\ ChainIn(w.free, r)
  /\ Elements(w.free) = Elements(v.free) \cup {s}

LEMMA PutSlotIs ==
  ASSUME NEW r, NEW v, NEW s, TakenFrom(s, v, r), NEW w, w = PutSlot(v, s)
  PROVE  GivenBack(s, v, r, w)
<1>1. PICK q : q = v.free
  OBVIOUS
<1>2. PICK n : n = v.next
  OBVIOUS
<1>3. v = [next |-> n, free |-> q, numOfFreeSlots |-> Len(q)]
  BY <1>1, <1>2 DEF IsRecord, TakenFrom
<1>4. w = [next |-> n, free |-> <<s>> \o q, numOfFreeSlots |-> Len(q) + 1]
  BY <1>3 DEF PutSlot
<1>5. q \in Seq(SlotsOf(r)) /\ Distinct(q) /\ s \notin Elements(q) /\ s \in SlotsOf(r)
  BY <1>1 DEF ChainIn, TakenFrom
<1>6. <<s>> \o q \in Seq(SlotsOf(r)) /\ Elements(<<s>> \o q) = Elements(q) \cup {s} /\ Distinct(<<s>> \o q)
  BY <1>5, PushElements
<1>7. Len(<<s>> \o q) = Len(q) + 1
  <2>1. <<s>> \in Seq(SlotsOf(r)) /\ Len(<<s>>) = 1 /\ Len(q) \in Nat
    BY <1>5, LenProperties
  <2>2. Len(<<s>> \o q) = Len(<<s>>) + Len(q)
    BY <1>5, <2>1, ConcatProperties
  <2> QED BY <2>1, <2>2
<1>8. w.next = n /\ w.free = <<s>> \o q /\ w.numOfFreeSlots = Len(q) + 1
  BY <1>4
<1>9. IsRecord(w)
  BY <1>4, <1>7, <1>8 DEF IsRecord
<1> QED BY <1>1, <1>2, <1>6, <1>8, <1>9 DEF ChainIn, GivenBack

(* The chains of one record change, those of the others stay.              *)
LEMMA InUseTaken ==
  ASSUME NEW f, NEW g, DOMAIN g = DOMAIN f, NEW r \in DOMAIN f, r \in Records, NEW s,
         SameBut(f, g, DOMAIN f \ {r}), ChainIn(f[r].free, r),
         s \in Elements(f[r].free), Elements(g[r].free) = Elements(f[r].free) \ {s}
  PROVE  s \in AllSlots /\ s \notin InUse(f) /\ InUse(g) = InUse(f) \cup {s}
<1>1. s \in AllSlots /\ s[1] = r
  BY ChainLength, SlotsOfRecord
<1>2. s \notin InUse(f)
  BY <1>1 DEF InUse
<1>3. ASSUME NEW t \in AllSlots PROVE t \in InUse(g) <=> t \in InUse(f) \/ t = s
  <2>1. CASE t[1] = r
    BY <1>1, <2>1 DEF InUse
  <2>2. CASE t[1] # r
    <3>1. t[1] \in DOMAIN f => g[t[1]] = f[t[1]]
      BY <2>2 DEF SameBut
    <3> QED BY <1>1, <2>2, <3>1 DEF InUse
  <2> QED BY <2>1, <2>2
<1>4. InUse(f) \subseteq AllSlots /\ InUse(g) \subseteq AllSlots
  BY DEF InUse
<1> QED BY <1>1, <1>2, <1>3, <1>4

LEMMA InUsePut ==
  ASSUME NEW f, NEW g, DOMAIN g = DOMAIN f, NEW s \in InUse(f), NEW r, r = s[1],
         SameBut(f, g, DOMAIN f \ {r}), Elements(g[r].free) = Elements(f[r].free) \cup {s}
  PROVE  InUse(g) = InUse(f) \ {s}
<1>1. s \in AllSlots /\ r \in DOMAIN f
  BY DEF InUse
<1>2. ASSUME NEW t \in AllSlots PROVE t \in InUse(g) <=> t \in InUse(f) /\ t # s
  <2>1. CASE t[1] = r
    BY <1>1, <2>1 DEF InUse
  <2>2. CASE t[1] # r
    <3>1. t[1] \in DOMAIN f => g[t[1]] = f[t[1]]
      BY <2>2 DEF SameBut
    <3> QED BY <1>1, <2>2, <3>1 DEF InUse
  <2> QED BY <2>1, <2>2
<1>3. InUse(f) \subseteq AllSlots /\ InUse(g) \subseteq AllSlots
  BY DEF InUse
<1> QED BY <1>2, <1>3

(* A record whose chain is complete adds nothing.                          *)
LEMMA InUseFull ==
  ASSUME NEW f, NEW g, NEW r \in Records, r \notin DOMAIN f, DOMAIN g = DOMAIN f \cup {r},
         \A x \in DOMAIN f : g[x].free = f[x].free,
         Elements(g[r].free) = SlotsOf(r)
  PROVE  InUse(g) = InUse(f)
<1>1. ASSUME NEW t \in AllSlots PROVE t \in InUse(g) <=> t \in InUse(f)
  <2>1. CASE t[1] = r
    <3>1. t \in SlotsOf(r)
      BY <2>1, SlotsOfRecord
    <3> QED BY <2>1, <3>1 DEF InUse
  <2>2. CASE t[1] # r
    BY <2>2 DEF InUse
  <2> QED BY <2>1, <2>2
<1>2. InUse(f) \subseteq AllSlots /\ InUse(g) \subseteq AllSlots
  BY DEF InUse
<1> QED BY <1>1, <1>2

-----------------------------------------------------------------------------
(* The list of records.  The links stay within S:                          *)
Closed(f, S) == \A p \in S : f[p].next \in S \cup {Null}

(* no record is the next one of two others,                                *)
Single(f) == \A p, q \in DOMAIN f : f[p].next = f[q].next /\ f[p].next # Null => p = q

(* and a walk from h meets all records.                                    *)
Whole(f, h) == \A S \in SUBSET DOMAIN f : h \in S /\ Closed(f, S) => S = DOMAIN f

(* The links when r is put behind t, or, if t is Null, beside the list.    *)
Appended(f, g, t, r) ==
  /\ DOMAIN g = DOMAIN f \cup {r}
  /\ g[r].next = Null
  /\ \A x \in DOMAIN f : g[x].next = IF x = t THEN r ELSE f[x].next

LEMMA LinksAppended ==
  ASSUME NEW f, NEW g, NEW t, NEW r, r \notin DOMAIN f, r # Null,
         Closed(f, DOMAIN f), Single(f), Appended(f, g, t, r)
  PROVE  /\ Closed(g, DOMAIN g) /\ Single(g)
         /\ \A h \in DOMAIN f : t \in DOMAIN f /\ f[t].next = Null /\ Whole(f, h) => Whole(g, h)
<1>1. Closed(g, DOMAIN g)
  BY DEF Closed, Appended
<1>2. \A x \in DOMAIN f : f[x].next # r
  BY DEF Closed
<1>3. Single(g)
  BY <1>2 DEF Single, Appended
<1>4. ASSUME NEW h \in DOMAIN f, t \in DOMAIN f, f[t].next = Null, Whole(f, h),
             NEW S \in SUBSET DOMAIN g, h \in S, Closed(g, S)
      PROVE  S = DOMAIN g
  <2>1. PICK R \in SUBSET DOMAIN f : R = S \ {r}
    BY <1>4 DEF Appended
  <2>2. ASSUME NEW p \in R PROVE f[p].next \in R \cup {Null}
    <3>1. p \in DOMAIN f /\ p \in S /\ g[p].next \in S \cup {Null}
      BY <1>4, <2>1 DEF Closed
    <3>2. CASE p = t
      BY <1>4, <3>2
    <3>3. CASE p # t
      <4>1. g[p].next = f[p].next /\ f[p].next # r
        BY <1>2, <3>1, <3>3 DEF Appended
      <4> QED BY <2>1, <3>1, <4>1
    <3> QED BY <3>2, <3>3
  <2>3. Closed(f, R) /\ h \in R
    BY <1>4, <2>1, <2>2 DEF Closed
  <2>4. R = DOMAIN f
    BY <1>4, <2>3 DEF Whole
  <2>5. t \in S /\ g[t].next = r
    BY <1>4, <2>1, <2>4 DEF Appended
  <2>6. r \in S
    BY <1>4, <2>5 DEF Closed
  <2> QED BY <2>1, <2>4, <2>6 DEF Appended
<1> QED BY <1>1, <1>3, <1>4 DEF Whole

(* The links when r is taken from behind p.                                *)
Unlinked(f, g, p, r) ==
  /\ DOMAIN g = DOMAIN f \ {r}
  /\ \A x \in DOMAIN g : g[x].next = IF x = p THEN f[r].next ELSE f[x].next

LEMMA LinksRemoved ==
  ASSUME NEW f, NEW g, NEW r \in DOMAIN f, r # Null, NEW p \in DOMAIN f, p # r, f[p].next = r,
         Closed(f, DOMAIN f), Single(f), Unlinked(f, g, p, r)
  PROVE  /\ Closed(g, DOMAIN g) /\ Single(g)
         /\ \A h \in DOMAIN g : Whole(f, h) => Whole(g, h)
<1>1. \A x \in DOMAIN f : f[x].next = r => x = p
  BY DEF Single
<1>2. f[r].next \in DOMAIN g \cup {Null}
  BY <1>1 DEF Closed, Unlinked
<1>3. Closed(g, DOMAIN g)
  BY <1>1, <1>2 DEF Closed, Unlinked
<1>4. Single(g)
  <2>1. ASSUME NEW x \in DOMAIN g, NEW y \in DOMAIN g, g[x].next = g[y].next, g[x].next # Null
        PROVE  x = y
    <3>1. x \in DOMAIN f /\ y \in DOMAIN f /\ x # r /\ y # r
      BY DEF Unlinked
    <3>2. g[x].next = (IF x = p THEN f[r].next ELSE f[x].next)
          /\ g[y].next = (IF y = p THEN f[r].next ELSE f[y].next)
      BY DEF Unlinked
    <3> QED BY <2>1, <3>1, <3>2 DEF Single
  <2> QED BY <2>1 DEF Single
<1>5. ASSUME NEW h \in DOMAIN g, Whole(f, h), NEW S \in SUBSET DOMAIN g, h \in S, Closed(g, S)
      PROVE  S = DOMAIN g
  <2>1. S \in SUBSET DOMAIN f /\ r \notin S
    BY DEF Unlinked
  <2>2. ASSUME NEW x \in S, x # p PROVE f[x].next \in S \cup {Null}
    <3>1. g[x].next = f[x].next /\ g[x].next \in S \cup {Null}
      BY <1>5, <2>2 DEF Unlinked, Closed
    <3> QED BY <3>1
  <2>3. p \in S
    <3>1. SUFFICES ASSUME p \notin S PROVE FALSE
      OBVIOUS
    <3>2. Closed(f, S)
      BY <2>2, <3>1 DEF Closed
    <3>3. S = DOMAIN f
      BY <1>5, <2>1, <3>2 DEF Whole
    <3> QED BY <3>1, <3>3
  <2>4. f[r].next \in S \cup {Null}
    <3>1. g[p].next = f[r].next /\ g[p].next \in S \cup {Null}
      BY <1>5, <2>3 DEF Unlinked, Closed
    <3> QED BY <3>1
  <2>5. PICK R \in SUBSET DOMAIN f : R = S \cup {r}
    BY <2>1
  <2>6. Closed(f, R)
    BY <2>2, <2>4, <2>5 DEF Closed
  <2>7. R = DOMAIN f
    BY <1>5, <2>5, <2>6 DEF Whole
  <2> QED BY <2>1, <2>5, <2>7 DEF Unlinked
<1> QED BY <1>3, <1>4, <1>5 DEF Whole

(* The links when they all stay.                                           *)
LEMMA LinksKept ==
  ASSUME NEW f, NEW g, DOMAIN g = DOMAIN f, \A x \in DOMAIN f : g[x].next = f[x].next
  PROVE  /\ Closed(f, DOMAIN f) => Closed(g, DOMAIN g)
         /\ Single(f) => Single(g)
         /\ \A h : Whole(f, h) => Whole(g, h)
<1>1. \A S \in SUBSET DOMAIN f : Closed(f, S) <=> Closed(g, S)
  BY DEF Closed
<1>2. \A h : Whole(f, h) => Whole(g, h)
  BY <1>1 DEF Whole
<1> QED BY <1>2 DEF Closed, Single

-----------------------------------------------------------------------------
(* What the walk along the list finds.                                     *)
LEMMA BehindIs ==
  ASSUME NEW r, r # Null
  PROVE  /\ Behind(r) \in SUBSET DOMAIN rec
         /\ \A q \in Behind(r) : \A S \in SUBSET DOMAIN rec : r \in S /\ Closed(rec, S) => q \in S
         /\ \A q \in DOMAIN rec :
              (\A S \in SUBSET DOMAIN rec : r \in S /\ Closed(rec, S) => q \in S) => q \in Behind(r)
BY DEF Behind, Closed

LEMMA BehindNull == Behind(Null) = {}
BY DEF Behind

(* It is itself closed,                                                    *)
LEMMA BehindClosed ==
  ASSUME NEW r, r # Null, Closed(rec, DOMAIN rec)
  PROVE  Closed(rec, Behind(r)) /\ (r \in DOMAIN rec => r \in Behind(r))
<1>1. ASSUME NEW p \in Behind(r), rec[p].next # Null PROVE rec[p].next \in Behind(r)
  <2>1. p \in DOMAIN rec /\ rec[p].next \in DOMAIN rec
    BY <1>1, BehindIs DEF Closed
  <2>2. ASSUME NEW S \in SUBSET DOMAIN rec, r \in S, Closed(rec, S) PROVE rec[p].next \in S
    <3>1. p \in S
      BY <2>2, BehindIs
    <3> QED BY <1>1, <2>2, <3>1 DEF Closed
  <2> QED BY <2>1, <2>2, BehindIs
<1>2. r \in DOMAIN rec => r \in Behind(r)
  BY BehindIs
<1> QED BY <1>1, <1>2 DEF Closed

(* and nothing is behind r but r and what is behind the next one.          *)
LEMMA BehindStep ==
  ASSUME NEW r \in DOMAIN rec, r # Null, Closed(rec, DOMAIN rec)
  PROVE  \A q \in Behind(r) : q = r \/ q \in Behind(rec[r].next)
<1>1. PICK n \in DOMAIN rec \cup {Null} : n = rec[r].next
  BY DEF Closed
<1>2. PICK S : S = {r} \cup Behind(n)
  OBVIOUS
<1>3. Closed(rec, S) /\ S \in SUBSET DOMAIN rec
  <2>1. CASE n = Null
    BY <1>1, <1>2, <2>1, BehindNull DEF Closed
  <2>2. CASE n # Null
    <3>1. Closed(rec, Behind(n)) /\ n \in Behind(n) /\ Behind(n) \in SUBSET DOMAIN rec
      BY <1>1, <2>2, BehindClosed, BehindIs
    <3> QED BY <1>1, <1>2, <3>1 DEF Closed
  <2> QED BY <2>1, <2>2
<1>4. r \in S
  BY <1>2
<1>5. \A q \in Behind(r) : q \in S
  BY <1>3, <1>4, BehindIs
<1> QED BY <1>1, <1>2, <1>5

(* The walk of allocateSlot stops at a record with a free slot, if it      *)
(* meets one.                                                              *)
LEMMA FirstFound ==
  ASSUME Closed(rec, DOMAIN rec), head \in DOMAIN rec \cup {Null}, Null \notin DOMAIN rec
  PROVE  /\ FirstWithFree # Null => FirstWithFree \in DOMAIN rec /\ HasFree(FirstWithFree)
         /\ FirstWithFree = Null => \A r \in Behind(head) : ~HasFree(r)
<1>1. PICK O : O = {r \in Behind(head) : HasFree(r)}
  OBVIOUS
<1>2. FirstWithFree = IF O = {} THEN Null ELSE CHOOSE r \in O : O \subseteq Behind(r)
  BY <1>1 DEF FirstWithFree
<1>3. O \in SUBSET Behind(head)
  BY <1>1
<1>4. ASSUME O # {} PROVE \E r \in O : O \subseteq Behind(r)
  <2>1. head # Null /\ head \in DOMAIN rec
    BY <1>3, <1>4, BehindNull
  <2>2. SUFFICES ASSUME \A r \in O : ~(O \subseteq Behind(r)) PROVE FALSE
    OBVIOUS
  <2>3. PICK T \in SUBSET DOMAIN rec : T = {q \in DOMAIN rec : O \subseteq Behind(q)}
    <3>1. {q \in DOMAIN rec : O \subseteq Behind(q)} \in SUBSET DOMAIN rec
      OBVIOUS
    <3> QED BY <3>1
  <2>4. head \in T
    BY <1>3, <2>1, <2>3
  <2>5. ASSUME NEW q \in T PROVE rec[q].next \in T \cup {Null}
    <3>1. q \in DOMAIN rec /\ q # Null /\ O \subseteq Behind(q) /\ q \notin O
      BY <2>2, <2>3
    <3>2. O \subseteq Behind(rec[q].next)
      BY <3>1, BehindStep
    <3>3. rec[q].next \in DOMAIN rec \cup {Null}
      BY <3>1 DEF Closed
    <3>4. CASE rec[q].next = Null
      BY <1>4, <3>2, <3>4, BehindNull
    <3>5. CASE rec[q].next \in DOMAIN rec
      BY <2>3, <3>2, <3>5
    <3> QED BY <3>3, <3>4, <3>5
  <2>6. Closed(rec, T)
    BY <2>5 DEF Closed
  <2>7. Behind(head) \subseteq T
    BY <2>1, <2>4, <2>6, BehindIs
  <2>8. PICK r \in O : r \in T
    BY <1>3, <1>4, <2>7
  <2> QED BY <2>2, <2>3, <2>8
<1>5. ASSUME O # {} PROVE FirstWithFree \in O
  BY <1>2, <1>4, <1>5
<1>6. ASSUME FirstWithFree \in O PROVE FirstWithFree \in DOMAIN rec /\ HasFree(FirstWithFree)
  <2>1. head # Null
    BY <1>3, <1>6, BehindNull
  <2> QED BY <1>1, <1>6, <2>1, BehindIs
<1>7. O = {} => FirstWithFree = Null
  BY <1>2
<1> QED BY <1>1, <1>5, <1>6, <1>7

(* A record behind the first one is the next one of exactly one other.     *)
LEMMA Predecessor ==
  ASSUME Closed(rec, DOMAIN rec), Single(rec), Null \notin DOMAIN rec, head \in DOMAIN rec \cup {Null},
         NEW r \in Behind(head), r # head, NEW pred, pred = CHOOSE p \in DOMAIN rec : rec[p].next = r
  PROVE  r \in DOMAIN rec /\ pred \in DOMAIN rec /\ pred # r /\ rec[pred].next = r
<1>1. head # Null /\ head \in DOMAIN rec
  BY BehindNull
<1>2. r \in DOMAIN rec
  BY <1>1, BehindIs
<1>3. PICK p \in DOMAIN rec : p # r /\ rec[p].next = r
  <2>1. SUFFICES ASSUME \A p \in DOMAIN rec : p # r => rec[p].next # r PROVE FALSE
    OBVIOUS
  <2>2. PICK S \in SUBSET DOMAIN rec : S = DOMAIN rec \ {r}
    OBVIOUS
  <2>3. Closed(rec, S) /\ head \in S
    BY <1>1, <2>1, <2>2 DEF Closed
  <2>4. r \in S
    BY <1>1, <2>3, BehindIs
  <2> QED BY <2>2, <2>4
<1>4. pred \in DOMAIN rec /\ rec[pred].next = r
  BY <1>3
<1>5. pred = p
  BY <1>1, <1>2, <1>3, <1>4 DEF Single
<1> QED BY <1>2, <1>3, <1>4, <1>5

-----------------------------------------------------------------------------
(* The list of caches: the sequence q of descriptors, linked both ways.    *)
Nth(q, i) == IF i \in 1 .. Len(q) THEN q[i] ELSE Null
Descriptor(n, p) == [next |-> n, prev |-> p]

CacheList(q, h, first, last) ==
  /\ q \in Seq(AllSlots) /\ Distinct(q) /\ Elements(q) = DOMAIN h
  /\ first = Nth(q, 1) /\ last = Nth(q, Len(q))
  /\ \A i \in 1 .. Len(q) : h[q[i]] = Descriptor(Nth(q, i + 1), Nth(q, i - 1))

Linked(h, first, last) == \E q \in Seq(AllSlots) : CacheList(q, h, first, last)

LEMMA CacheListIs ==
  ASSUME NEW q, NEW h, NEW first, NEW last, CacheList(q, h, first, last)
  PROVE  /\ Len(q) \in Nat /\ Null \notin DOMAIN h /\ DOMAIN h \subseteq AllSlots
         /\ \A i \in 1 .. Len(q) : q[i] \in DOMAIN h
         /\ \A x \in DOMAIN h : \E i \in 1 .. Len(q) : q[i] = x
         /\ \A x \in DOMAIN h : h[x] = Descriptor(h[x].next, h[x].prev)
         /\ first \in DOMAIN h \cup {Null} /\ last \in DOMAIN h \cup {Null}
         /\ first = Null <=> Len(q) = 0
         /\ last = Null <=> Len(q) = 0
<1>1. q \in Seq(AllSlots) /\ Elements(q) = DOMAIN h
  BY DEF CacheList
<1>2. PICK n \in Nat : n = Len(q)
  BY <1>1, LenProperties
<1>3. \A i \in 1 .. n : q[i] \in AllSlots
  BY <1>1, <1>2, ElementOfSeq
<1>4. Null \notin AllSlots
  BY CachePoolAssumption DEF AllSlots
<1>5. (\A i \in 1 .. n : q[i] \in DOMAIN h) /\ \A x \in DOMAIN h : \E i \in 1 .. n : q[i] = x
  BY <1>1, <1>2 DEF Elements
<1>6. DOMAIN h \subseteq AllSlots
  BY <1>3, <1>5
<1>7. ASSUME NEW x \in DOMAIN h PROVE h[x] = Descriptor(h[x].next, h[x].prev)
  <2>1. PICK i \in 1 .. n : q[i] = x
    BY <1>5
  <2>2. h[x] = Descriptor(Nth(q, i + 1), Nth(q, i - 1))
    BY <1>2, <2>1 DEF CacheList
  <2> QED BY <2>2 DEF Descriptor
<1>8. first = (IF n # 0 THEN q[1] ELSE Null) /\ last = (IF n # 0 THEN q[n] ELSE Null)
  BY <1>2 DEF CacheList, Nth
<1>9. n # 0 => 1 \in 1 .. n /\ n \in 1 .. n
  OBVIOUS
<1> QED BY <1>2, <1>4, <1>5, <1>6, <1>7, <1>8, <1>9

(* A new cache becomes the last one.                                       *)
LEMMA EnlistIs ==
  ASSUME NEW q, CacheList(q, handle, cacheHead, cacheTail), NEW s, Enlist(s)
  PROVE  /\ DOMAIN handle' = DOMAIN handle \cup {s}
         /\ handle'[s] = Descriptor(Null, cacheTail)
         /\ \A x \in DOMAIN handle : x # s =>
              handle'[x] = Descriptor(IF x = cacheTail THEN s ELSE handle[x].next, handle[x].prev)
         /\ cacheHead' = (IF cacheTail = Null THEN s ELSE cacheHead) /\ cacheTail' = s
<1>1. /\ Null \notin DOMAIN handle
      /\ cacheTail \in DOMAIN handle \cup {Null}
      /\ \A x \in DOMAIN handle : handle[x] = Descriptor(handle[x].next, handle[x].prev)
  BY CacheListIs
<1>2. CASE cacheTail = Null
  <2>1. PICK v : v = [next |-> Null, prev |-> Null]
    OBVIOUS
  <2>2. handle' = With(handle, s, v) /\ cacheHead' = s /\ cacheTail' = s
    BY <1>2, <2>1 DEF Enlist
  <2>3. /\ DOMAIN handle' = DOMAIN handle \cup {s} /\ handle'[s] = v
        /\ \A x \in DOMAIN handle : x # s => handle'[x] = handle[x]
    BY <2>2 DEF With
  <2> QED BY <1>1, <1>2, <2>1, <2>2, <2>3 DEF Descriptor
<1>3. CASE cacheTail # Null
  <2>1. PICK v : v = [next |-> Null, prev |-> cacheTail]
    OBVIOUS
  <2>2. PICK g : g = [handle EXCEPT ![cacheTail].next = s]
    OBVIOUS
  <2>3. handle' = With(g, s, v) /\ cacheHead' = cacheHead /\ cacheTail' = s
    BY <1>3, <2>1, <2>2 DEF Enlist
  <2>4. PICK n : n = handle[cacheTail].next
    OBVIOUS
  <2>5. PICK p : p = handle[cacheTail].prev
    OBVIOUS
  <2>6. cacheTail \in DOMAIN handle /\ handle[cacheTail] = [next |-> n, prev |-> p]
    BY <1>1, <1>3, <2>4, <2>5 DEF Descriptor
  <2>7. /\ DOMAIN g = DOMAIN handle /\ g[cacheTail] = [next |-> s, prev |-> p]
        /\ \A x \in DOMAIN handle : x # cacheTail => g[x] = handle[x]
    BY <2>2, <2>6
  <2>8. /\ DOMAIN handle' = DOMAIN handle \cup {s} /\ handle'[s] = v
        /\ \A x \in DOMAIN handle : x # s => handle'[x] = g[x]
    BY <2>3, <2>7 DEF With
  <2>9. ASSUME NEW x \in DOMAIN handle, x # s
        PROVE  handle'[x] = Descriptor(IF x = cacheTail THEN s ELSE handle[x].next, handle[x].prev)
    BY <1>1, <2>5, <2>7, <2>8, <2>9 DEF Descriptor
  <2> QED BY <1>3, <2>1, <2>3, <2>8, <2>9 DEF Descriptor
<1> QED BY <1>2, <1>3

LEMMA EnlistLinks ==
  ASSUME Linked(handle, cacheHead, cacheTail), NEW s \in AllSlots, s \notin DOMAIN handle, Enlist(s)
  PROVE  Linked(handle', cacheHead', cacheTail') /\ DOMAIN handle' = DOMAIN handle \cup {s}
<1>1. PICK q \in Seq(AllSlots) : CacheList(q, handle, cacheHead, cacheTail)
  BY DEF Linked
<1>2. PICK a : a = Append(q, s)
  OBVIOUS
<1>3. PICK n \in Nat : n = Len(q)
  BY LenProperties
<1>4. /\ Distinct(q) /\ Elements(q) = DOMAIN handle
      /\ cacheHead = Nth(q, 1) /\ cacheTail = Nth(q, n)
      /\ \A i \in 1 .. n : handle[q[i]] = Descriptor(Nth(q, i + 1), Nth(q, i - 1))
  BY <1>1, <1>3 DEF CacheList
<1>5. a \in Seq(AllSlots) /\ Len(a) = n + 1 /\ Distinct(a) /\ Elements(a) = DOMAIN handle \cup {s}
  BY <1>2, <1>3, <1>4, AppendElements
<1>6. a[n + 1] = s /\ \A i \in 1 .. n : a[i] = q[i]
  BY <1>2, <1>3, AppendProperties
<1>7. /\ Nth(a, n + 1) = s /\ Nth(a, n + 2) = Null /\ Nth(a, 0) = Null
      /\ \A i \in 0 .. n : Nth(a, i) = Nth(q, i)
  BY <1>3, <1>5, <1>6 DEF Nth
<1>8. \A i \in 1 .. n : q[i] \in DOMAIN handle /\ q[i] # s /\ (q[i] = cacheTail <=> i = n)
  <2>1. \A i \in 1 .. n : q[i] \in DOMAIN handle
    BY <1>1, <1>3, CacheListIs
  <2>2. n \in 1 .. n => cacheTail = q[n]
    BY <1>3, <1>4 DEF Nth
  <2>3. \A i \in 1 .. n : n \in 1 .. n /\ (q[i] = q[n] => i = n)
    BY <1>3, <1>4 DEF Distinct
  <2> QED BY <2>1, <2>2, <2>3
<1>9. /\ DOMAIN handle' = DOMAIN handle \cup {s}
      /\ handle'[s] = Descriptor(Null, cacheTail)
      /\ \A x \in DOMAIN handle : x # s =>
           handle'[x] = Descriptor(IF x = cacheTail THEN s ELSE handle[x].next, handle[x].prev)
      /\ cacheHead' = (IF cacheTail = Null THEN s ELSE cacheHead) /\ cacheTail' = s
  BY <1>1, EnlistIs
<1>10. ASSUME NEW i \in 1 .. n + 1
       PROVE  handle'[a[i]] = Descriptor(Nth(a, i + 1), Nth(a, i - 1))
  <2>1. CASE i = n + 1
    <3>1. i + 1 = n + 2 /\ i - 1 = n /\ n \in 0 .. n
      BY <2>1
    <3> QED BY <1>4, <1>6, <1>7, <1>9, <2>1, <3>1
  <2>2. CASE i # n + 1
    <3>1. i \in 1 .. n /\ i - 1 \in 0 .. n /\ (i = n => i + 1 = n + 1) /\ (i # n => i + 1 \in 0 .. n)
      BY <2>2
    <3>2. handle'[a[i]] = Descriptor(IF i = n THEN s ELSE handle[q[i]].next, handle[q[i]].prev)
      BY <1>6, <1>8, <1>9, <3>1
    <3>3. handle[q[i]] = Descriptor(Nth(q, i + 1), Nth(q, i - 1))
      BY <1>4, <3>1
    <3>4. handle[q[i]].next = Nth(q, i + 1) /\ handle[q[i]].prev = Nth(q, i - 1)
      BY <3>3 DEF Descriptor
    <3> QED BY <1>7, <3>1, <3>2, <3>4
  <2> QED BY <2>1, <2>2
<1>11. cacheHead' = Nth(a, 1)
  <2>1. CASE n = 0
    <3>1. cacheTail = Null
      BY <1>4, <1>3, <2>1 DEF Nth
    <3> QED BY <1>7, <1>9, <2>1, <3>1
  <2>2. CASE n # 0
    <3>1. cacheTail # Null
      BY <1>1, <1>3, <2>2, CacheListIs
    <3>2. 1 \in 0 .. n
      BY <2>2
    <3> QED BY <1>4, <1>7, <1>9, <3>1, <3>2
  <2> QED BY <2>1, <2>2
<1>12. CacheList(a, handle', cacheHead', cacheTail')
  BY <1>5, <1>7, <1>9, <1>10, <1>11 DEF CacheList
<1> QED BY <1>5, <1>9, <1>12 DEF Linked

(* A cache leaves the list: whatever pointed to it points past it.         *)
Between(s, p, n) ==
  /\ s \in DOMAIN handle /\ n = handle[s].next /\ p = handle[s].prev
  /\ n \in DOMAIN handle \cup {Null} /\ p \in DOMAIN handle \cup {Null}
  /\ n # s /\ p # s /\ (n = p => n = Null)
  /\ (p = Null => cacheHead = s) /\ (n = Null => cacheTail = s)

Bypassed(s, p, n) ==
  /\ DOMAIN handle' = DOMAIN handle \ {s}
  /\ \A x \in DOMAIN handle : x # s =>
       handle'[x] = Descriptor(IF x = p THEN n ELSE handle[x].next,
                               IF x = n THEN p ELSE handle[x].prev)
  /\ cacheHead' = (IF p = Null THEN n ELSE cacheHead)
  /\ cacheTail' = (IF n = Null THEN p ELSE cacheTail)

LEMMA DelistIs ==
  ASSUME NEW q, CacheList(q, handle, cacheHead, cacheTail),
         NEW s, Delist(s), NEW p, NEW n, Between(s, p, n)
  PROVE  Bypassed(s, p, n)
<1> USE DEF Between, Bypassed
<1>1. /\ Null \notin DOMAIN handle
      /\ \A x \in DOMAIN handle : handle[x] = Descriptor(handle[x].next, handle[x].prev)
  BY CacheListIs
<1>2. PICK rest : rest = Without(handle, s)
  OBVIOUS
<1>3. /\ DOMAIN rest = DOMAIN handle \ {s}
      /\ \A x \in DOMAIN handle : x # s => rest[x] = Descriptor(handle[x].next, handle[x].prev)
  BY <1>1, <1>2 DEF Without
<1>4. CASE p = Null
  <2>1. /\ cacheHead' = n
        /\ cacheTail' = IF n = Null THEN Null ELSE cacheTail
        /\ handle' = IF n = Null THEN rest ELSE [rest EXCEPT ![n].prev = Null]
    BY <1>2, <1>4 DEF Delist
  <2>2. CASE n = Null
    BY <1>1, <1>3, <1>4, <2>1, <2>2
  <2>3. CASE n # Null
    <3>1. handle' = [rest EXCEPT ![n].prev = Null]
      BY <2>1, <2>3
    <3>2. /\ DOMAIN handle' = DOMAIN rest
          /\ \A x \in DOMAIN rest : x # n => handle'[x] = rest[x]
          /\ handle'[n] = [rest[n] EXCEPT !.prev = Null]
      BY <1>3, <2>3, <3>1
    <3>3. handle'[n] = Descriptor(handle[n].next, Null)
      BY <1>3, <2>3, <3>2 DEF Descriptor
    <3> QED BY <1>1, <1>3, <1>4, <2>1, <2>3, <3>2, <3>3
  <2> QED BY <2>2, <2>3
<1>5. CASE p # Null /\ n = Null
  <2>1. /\ cacheTail' = p /\ cacheHead' = cacheHead
        /\ handle' = CutBehind(rest, p)
    BY <1>2, <1>5 DEF Delist
  <2>2. handle' = [rest EXCEPT ![p].next = Null]
    BY <2>1 DEF CutBehind
  <2>3. /\ DOMAIN handle' = DOMAIN rest
        /\ \A x \in DOMAIN rest : x # p => handle'[x] = rest[x]
        /\ handle'[p] = [rest[p] EXCEPT !.next = Null]
    BY <1>3, <1>5, <2>2
  <2>4. handle'[p] = Descriptor(Null, handle[p].prev)
    BY <1>3, <1>5, <2>3 DEF Descriptor
  <2> QED BY <1>1, <1>3, <1>5, <2>1, <2>3, <2>4
<1>6. CASE p # Null /\ n # Null
  <2>1. /\ cacheTail' = cacheTail /\ cacheHead' = cacheHead
        /\ handle' = [rest EXCEPT ![p].next = n, ![n].prev = p]
    BY <1>2, <1>6 DEF Delist
  <2>2. /\ DOMAIN handle' = DOMAIN rest
        /\ \A x \in DOMAIN rest : x # p /\ x # n => handle'[x] = rest[x]
        /\ handle'[p] = [rest[p] EXCEPT !.next = n]
        /\ handle'[n] = [rest[n] EXCEPT !.prev = p]
    BY <1>3, <1>6, <2>1
  <2>3. handle'[p] = Descriptor(n, handle[p].prev) /\ handle'[n] = Descriptor(handle[n].next, p)
    BY <1>3, <1>6, <2>2 DEF Descriptor
  <2> QED BY <1>1, <1>3, <1>6, <2>1, <2>2, <2>3
<1> QED BY <1>4, <1>5, <1>6

LEMMA DelistLinks ==
  ASSUME Linked(handle, cacheHead, cacheTail), NEW s \in DOMAIN handle, Delist(s)
  PROVE  Linked(handle', cacheHead', cacheTail') /\ DOMAIN handle' = DOMAIN handle \ {s}
<1>1. PICK q \in Seq(AllSlots) : CacheList(q, handle, cacheHead, cacheTail)
  BY DEF Linked
<1>2. PICK m \in Nat : m = Len(q)
  BY LenProperties
<1>3. /\ Distinct(q) /\ Elements(q) = DOMAIN handle
      /\ cacheHead = Nth(q, 1) /\ cacheTail = Nth(q, m)
      /\ \A j \in 1 .. m : handle[q[j]] = Descriptor(Nth(q, j + 1), Nth(q, j - 1))
  BY <1>1, <1>2 DEF CacheList
<1>4. /\ Null \notin DOMAIN handle
      /\ \A j \in 1 .. m : q[j] \in DOMAIN handle
      /\ \A x \in DOMAIN handle : \E j \in 1 .. m : q[j] = x
  BY <1>1, <1>2, CacheListIs
<1>5. PICK i \in 1 .. m : q[i] = s
  BY <1>4
<1>6. \A j, k \in 1 .. m : q[j] = q[k] => j = k
  BY <1>2, <1>3 DEF Distinct
<1>7. PICK c : c = WithoutNth(q, i)
  OBVIOUS
<1>8. /\ c \in Seq(AllSlots) /\ Distinct(c) /\ Elements(c) = DOMAIN handle \ {s}
      /\ Len(c) = m - 1
      /\ \A j \in 1 .. m - 1 : c[j] = IF j < i THEN q[j] ELSE q[j + 1]
  <2>1. i \in 1 .. Len(q) /\ Distinct(q)
    BY <1>2, <1>3
  <2>2. /\ c \in Seq(AllSlots) /\ Distinct(c) /\ Elements(c) = Elements(q) \ {q[i]}
        /\ Len(c) = Len(q) - 1
        /\ \A j \in 1 .. Len(c) : c[j] = IF j < i THEN q[j] ELSE q[j + 1]
    BY <1>7, <2>1, RemoveElement
  <2> QED BY <1>2, <1>3, <1>5, <2>2
<1>9. \A j \in 0 .. m : Nth(c, j) = IF j < i THEN Nth(q, j) ELSE Nth(q, j + 1)
  BY ONLY m \in Nat, i \in 1 .. m, <1>2, <1>5, <1>8 DEF Nth
<1>10. PICK n : n = handle[s].next
  OBVIOUS
<1>11. PICK p : p = handle[s].prev
  OBVIOUS
<1>12. n = Nth(q, i + 1) /\ p = Nth(q, i - 1)
  <2>1. handle[s] = Descriptor(Nth(q, i + 1), Nth(q, i - 1))
    BY <1>3, <1>5
  <2> QED BY <1>10, <1>11, <2>1 DEF Descriptor
<1>13. /\ n = IF i < m THEN q[i + 1] ELSE Null
       /\ p = IF 1 < i THEN q[i - 1] ELSE Null
       /\ i < m => i + 1 \in 1 .. m
       /\ 1 < i => i - 1 \in 1 .. m
  BY <1>2, <1>12 DEF Nth
<1>14. \A j \in 1 .. m : (q[j] = n <=> j = i + 1) /\ (q[j] = p <=> j = i - 1)
  <2>1. ASSUME NEW j \in 1 .. m PROVE q[j] = n <=> j = i + 1
    <3>1. CASE i < m
      BY <1>6, <1>13, <3>1
    <3>2. CASE ~(i < m)
      BY <1>4, <1>13, <3>2
    <3> QED BY <3>1, <3>2
  <2>2. ASSUME NEW j \in 1 .. m PROVE q[j] = p <=> j = i - 1
    <3>1. CASE 1 < i
      BY <1>6, <1>13, <3>1
    <3>2. CASE ~(1 < i)
      BY <1>4, <1>13, <3>2
    <3> QED BY <3>1, <3>2
  <2> QED BY <2>1, <2>2
<1>15. /\ n \in DOMAIN handle \cup {Null} /\ p \in DOMAIN handle \cup {Null}
       /\ n # s /\ p # s
       /\ n = Null <=> i = m
       /\ p = Null <=> i = 1
  <2>1. /\ n \in DOMAIN handle \cup {Null}
        /\ n = Null <=> i = m
    <3>1. CASE i < m
      <4>1. q[i + 1] \in DOMAIN handle
        BY <1>4, <1>13, <3>1
      <4> QED BY <1>4, <1>13, <3>1, <4>1
    <3>2. CASE ~(i < m)
      BY <1>13, <3>2
    <3> QED BY <3>1, <3>2
  <2>2. /\ p \in DOMAIN handle \cup {Null}
        /\ p = Null <=> i = 1
    <3>1. CASE 1 < i
      <4>1. q[i - 1] \in DOMAIN handle
        BY <1>4, <1>13, <3>1
      <4> QED BY <1>4, <1>13, <3>1, <4>1
    <3>2. CASE ~(1 < i)
      BY <1>13, <3>2
    <3> QED BY <3>1, <3>2
  <2>3. n # s /\ p # s
    <3>1. i # i + 1 /\ i # i - 1
      OBVIOUS
    <3> QED BY <1>5, <1>14, <3>1
  <2> QED BY <2>1, <2>2, <2>3
<1>16. n = p => n = Null
  <2>1. SUFFICES ASSUME n = p, n # Null PROVE FALSE
    OBVIOUS
  <2>2. i < m /\ i + 1 \in 1 .. m /\ q[i + 1] = n
    BY <1>13, <2>1
  <2>3. i + 1 = i - 1
    BY <1>14, <2>1, <2>2
  <2> QED BY <2>3
<1>17. (p = Null => cacheHead = s) /\ (n = Null => cacheTail = s)
  <2>1. 1 \in 1 .. m /\ m \in 1 .. m
    OBVIOUS
  <2> QED BY <1>2, <1>3, <1>5, <1>15, <2>1 DEF Nth
<1>18. Bypassed(s, p, n)
  <2>1. Between(s, p, n)
    BY <1>10, <1>11, <1>15, <1>16, <1>17 DEF Between
  <2> QED BY <1>1, <2>1, DelistIs
<1>19. ASSUME NEW j \in 1 .. m, j # i
       PROVE  handle'[q[j]] = Descriptor(IF j = i - 1 THEN n ELSE Nth(q, j + 1),
                                         IF j = i + 1 THEN p ELSE Nth(q, j - 1))
  <2>1. q[j] \in DOMAIN handle /\ q[j] # s
    BY <1>4, <1>5, <1>6, <1>19
  <2>2. handle[q[j]] = Descriptor(Nth(q, j + 1), Nth(q, j - 1))
    BY <1>3
  <2>3. handle[q[j]].next = Nth(q, j + 1) /\ handle[q[j]].prev = Nth(q, j - 1)
    BY <2>2 DEF Descriptor
  <2>4. handle'[q[j]] = Descriptor(IF q[j] = p THEN n ELSE handle[q[j]].next,
                                   IF q[j] = n THEN p ELSE handle[q[j]].prev)
    BY <1>18, <2>1 DEF Bypassed
  <2> QED BY <1>14, <2>3, <2>4
<1>20. ASSUME NEW k \in 1 .. m - 1
       PROVE  handle'[c[k]] = Descriptor(Nth(c, k + 1), Nth(c, k - 1))
  <2>1. k + 1 \in 0 .. m /\ k - 1 \in 0 .. m
    OBVIOUS
  <2>2. CASE k < i
    <3>1. k \in 1 .. m /\ k # i /\ c[k] = q[k] /\ k # i + 1
      BY <1>8, <2>2
    <3>2. handle'[c[k]] = Descriptor(IF k = i - 1 THEN n ELSE Nth(q, k + 1), Nth(q, k - 1))
      BY <1>19, <3>1
    <3>3. Nth(c, k - 1) = Nth(q, k - 1)
      BY <1>9, <2>1, <2>2
    <3>4. Nth(c, k + 1) = IF k = i - 1 THEN n ELSE Nth(q, k + 1)
      <4>1. CASE k = i - 1
        <5>1. ~(k + 1 < i) /\ (k + 1) + 1 = i + 1
          BY <4>1
        <5> QED BY <1>9, <1>12, <2>1, <4>1, <5>1
      <4>2. CASE k # i - 1
        <5>1. k + 1 < i
          BY <2>2, <4>2
        <5> QED BY <1>9, <2>1, <4>2, <5>1
      <4> QED BY <4>1, <4>2
    <3> QED BY <3>2, <3>3, <3>4
  <2>3. CASE ~(k < i)
    <3>1. k + 1 \in 1 .. m /\ k + 1 # i /\ c[k] = q[k + 1] /\ k + 1 # i - 1
      BY <1>8, <2>3
    <3>2. handle'[c[k]] = Descriptor(Nth(q, (k + 1) + 1), IF k + 1 = i + 1 THEN p ELSE Nth(q, (k + 1) - 1))
      BY <1>19, <3>1
    <3>3. Nth(c, k + 1) = Nth(q, (k + 1) + 1)
      <4>1. ~(k + 1 < i)
        BY <2>3
      <4> QED BY <1>9, <2>1, <4>1
    <3>4. Nth(c, k - 1) = IF k + 1 = i + 1 THEN p ELSE Nth(q, (k + 1) - 1)
      <4>1. CASE k = i
        <5>1. k - 1 < i /\ k - 1 = i - 1 /\ k + 1 = i + 1
          BY <4>1
        <5> QED BY <1>9, <1>12, <2>1, <5>1
      <4>2. CASE k # i
        <5>1. ~(k - 1 < i) /\ (k - 1) + 1 = (k + 1) - 1 /\ k + 1 # i + 1
          BY <2>3, <4>2
        <5> QED BY <1>9, <2>1, <5>1
      <4> QED BY <4>1, <4>2
    <3> QED BY <3>2, <3>3, <3>4
  <2> QED BY <2>2, <2>3
<1>21. cacheHead' = Nth(c, 1)
  <2>1. 1 \in 0 .. m
    OBVIOUS
  <2>2. CASE i = 1
    <3>1. ~(1 < i) /\ 1 + 1 = i + 1
      BY <2>2
    <3> QED BY <1>9, <1>12, <1>15, <1>18, <2>1, <2>2, <3>1 DEF Bypassed
  <2>3. CASE i # 1
    <3>1. 1 < i
      BY <2>3
    <3> QED BY <1>3, <1>9, <1>15, <1>18, <2>1, <2>3, <3>1 DEF Bypassed
  <2> QED BY <2>2, <2>3
<1>22. cacheTail' = Nth(c, m - 1)
  <2>1. m - 1 \in 0 .. m
    OBVIOUS
  <2>2. CASE i = m
    <3>1. m - 1 < i /\ m - 1 = i - 1
      BY <2>2
    <3> QED BY <1>9, <1>12, <1>15, <1>18, <2>1, <2>2, <3>1 DEF Bypassed
  <2>3. CASE i # m
    <3>1. ~(m - 1 < i) /\ (m - 1) + 1 = m
      BY <2>3
    <3> QED BY <1>3, <1>9, <1>15, <1>18, <2>1, <2>3, <3>1 DEF Bypassed
  <2> QED BY <2>2, <2>3
<1>23. CacheList(c, handle', cacheHead', cacheTail')
  BY <1>8, <1>18, <1>20, <1>21, <1>22 DEF CacheList, Bypassed
<1> QED BY <1>8, <1>18, <1>23 DEF Linked, Bypassed

-----------------------------------------------------------------------------
(* The inductive invariant.  The first conjuncts hold in every state, the  *)
(* links while the pool has not been given back, and the list is complete  *)
(* while no creation has failed.                                           *)
Listed(f, h, t) ==
  /\ h \in DOMAIN f /\ t \in DOMAIN f
  /\ Whole(f, h)
  /\ \A r \in DOMAIN f : f[r].next = Null <=> r = t
  /\ \A r \in DOMAIN f : r # h => Len(f[r].free) < numOfSlots

IInv ==
  /\ avail \subseteq Records /\ DOMAIN rec = Records \ avail
  /\ failed \in BOOLEAN /\ ended \in BOOLEAN
  /\ Formed(rec)
  /\ DOMAIN handle = InUse(rec)
  /\ Linked(handle, cacheHead, cacheTail)
  /\ ended /\ ~failed => avail = Records
  /\ ~ended => /\ Closed(rec, DOMAIN rec) /\ Single(rec)
               /\ head \in DOMAIN rec \cup {Null} /\ tail \in DOMAIN rec \cup {Null}
  /\ ~ended /\ ~failed => Listed(rec, head, tail)

LEMMA NullIsNoRecord == Null \notin Records
BY CachePoolAssumption

(* The pool starts with one record, all of whose slots are free.           *)
LEMMA InitHolds == Init => IInv
<1> SUFFICES ASSUME Init PROVE IInv
  OBVIOUS
<1>1. PICK r \in Records :
        /\ head = r /\ tail = r /\ rec = [q \in {r} |-> NewRecord(r)]
        /\ cacheHead = Null /\ cacheTail = Null /\ handle = [s \in {} |-> Null]
        /\ avail = Records \ {r} /\ failed = FALSE /\ ended = FALSE
  BY DEF Init
<1>2. DOMAIN rec = {r} /\ rec[r] = NewRecord(r) /\ r # Null
  BY <1>1, NullIsNoRecord
<1>3. ChainIn(NewRecord(r).free, r) /\ Len(NewRecord(r).free) = numOfSlots
  BY NewChain
<1>4. NewRecord(r).next = Null /\ IsRecord(NewRecord(r))
  BY <1>3 DEF NewRecord, IsRecord
<1>5. Formed(rec)
  BY <1>2, <1>3, <1>4 DEF Formed
<1>6. DOMAIN handle = {}
  BY <1>1
<1>7. InUse(rec) = {}
  <2>1. Elements(rec[r].free) = SlotsOf(r)
    BY <1>2, <1>3, ChainLength
  <2>2. ASSUME NEW s \in InUse(rec) PROVE FALSE
    <3>1. s \in AllSlots /\ s[1] = r /\ s \notin SlotsOf(r)
      BY <1>2, <2>1 DEF InUse
    <3> QED BY <3>1, SlotsOfRecord
  <2> QED BY <2>2
<1>8. Linked(handle, cacheHead, cacheTail)
  <2>1. PICK q : q = <<>>
    OBVIOUS
  <2>2. q \in Seq(AllSlots) /\ Len(q) = 0 /\ 1 .. 0 = {}
    BY <2>1
  <2>3. Elements(q) = {} /\ Distinct(q)
    BY <2>2 DEF Elements, Distinct
  <2>4. Nth(q, 1) = Null /\ Nth(q, Len(q)) = Null
    BY <2>2 DEF Nth
  <2> QED BY <1>1, <1>6, <2>2, <2>3, <2>4 DEF Linked, CacheList
<1>9. Closed(rec, DOMAIN rec) /\ Single(rec)
  BY <1>2, <1>4 DEF Closed, Single
<1>10. Listed(rec, head, tail)
  BY <1>1, <1>2, <1>4 DEF Listed, Whole
<1> QED BY <1>1, <1>2, <1>5, <1>6, <1>7, <1>8, <1>9, <1>10 DEF IInv

(* allocateSlot takes the first slot of a chain.                           *)
LEMMA createFromRecordKeeps ==
  ASSUME IInv, ~ended, createFromRecord, UNCHANGED ended
  PROVE  IInv'
<1>1. PICK r : r = FirstWithFree
  OBVIOUS
<1>2. r \in DOMAIN rec /\ rec[r].free # <<>> /\ r \in Records
  <2>1. Null \notin DOMAIN rec
    BY NullIsNoRecord DEF IInv
  <2>2. FirstWithFree # Null
    BY DEF createFromRecord
  <2> QED BY <1>1, <2>1, <2>2, FirstFound DEF IInv, HasFree
<1>3. PICK w : w = TakeSlot(rec[r])
  OBVIOUS
<1>4. PICK s : s = Head(rec[r].free)
  OBVIOUS
<1>5. rec' = [rec EXCEPT ![r] = w] /\ Enlist(s) /\ UNCHANGED <<head, tail, avail, failed, ended>>
  BY <1>1, <1>3, <1>4 DEF createFromRecord
<1>6. DOMAIN rec' = DOMAIN rec /\ rec'[r] = w /\ SameBut(rec, rec', DOMAIN rec \ {r})
  BY <1>2, <1>5 DEF SameBut
<1>7. IsRecord(rec[r]) /\ ChainIn(rec[r].free, r) /\ rec[r].next \in Records \cup {Null}
  BY <1>2 DEF IInv, Formed
<1>8. /\ IsRecord(w) /\ w.next = rec[r].next /\ ChainIn(w.free, r)
      /\ Len(w.free) = Len(rec[r].free) - 1
      /\ s \in Elements(rec[r].free)
      /\ Elements(w.free) = Elements(rec[r].free) \ {s}
  BY <1>2, <1>3, <1>4, <1>7, TakeSlotIs
<1>9. Formed(rec')
  BY <1>6, <1>7, <1>8 DEF IInv, Formed, SameBut
<1>10. s \in AllSlots /\ s \notin InUse(rec) /\ InUse(rec') = InUse(rec) \cup {s}
  BY <1>2, <1>6, <1>7, <1>8, InUseTaken
<1>11. Linked(handle', cacheHead', cacheTail') /\ DOMAIN handle' = DOMAIN handle \cup {s}
  BY <1>5, <1>10, EnlistLinks DEF IInv
<1>12. \A x \in DOMAIN rec : rec'[x].next = rec[x].next
  BY <1>6, <1>8 DEF SameBut
<1>13. Closed(rec', DOMAIN rec') /\ Single(rec') /\ \A h : Whole(rec, h) => Whole(rec', h)
  BY <1>6, <1>12, LinksKept DEF IInv
<1>14. \A x \in DOMAIN rec : Len(rec[x].free) < numOfSlots => Len(rec'[x].free) < numOfSlots
  <2>1. Len(rec[r].free) \in 0 .. numOfSlots /\ numOfSlots \in Nat
    BY <1>2, <1>7, ChainLength, CachePoolAssumption
  <2>2. Len(rec'[r].free) < numOfSlots
    BY <1>6, <1>8, <2>1
  <2> QED BY <1>6, <2>2 DEF SameBut
<1>15. ~failed => Listed(rec', head, tail)
  BY <1>6, <1>12, <1>13, <1>14 DEF IInv, Listed
<1>16. /\ avail' = avail /\ failed' = failed /\ ended' = ended /\ head' = head /\ tail' = tail
       /\ DOMAIN rec' = DOMAIN rec
  BY <1>5, <1>6
<1>17. DOMAIN handle' = InUse(rec')
  BY <1>10, <1>11 DEF IInv
<1> QED BY <1>9, <1>11, <1>13, <1>15, <1>16, <1>17 DEF IInv

(* A new record is linked behind the last one and loses its first slot at  *)
(* once.                                                                   *)
LinkedRecord(f, t, r) == IF t = Null THEN f ELSE [f EXCEPT ![t].next = r]

LEMMA LinkedRecordIs ==
  ASSUME NEW f, Formed(f), NEW t \in DOMAIN f \cup {Null}, Null \notin DOMAIN f, NEW r,
         NEW g, g = LinkedRecord(f, t, r)
  PROVE  /\ DOMAIN g = DOMAIN f
         /\ \A x \in DOMAIN f : /\ IsRecord(g[x]) /\ g[x].free = f[x].free
                                /\ g[x].next = IF x = t THEN r ELSE f[x].next
<1>1. \A x \in DOMAIN f : IsRecord(f[x])
  BY DEF Formed
<1>2. CASE t = Null
  BY <1>1, <1>2 DEF LinkedRecord
<1>3. CASE t # Null
  <2>1. g = [f EXCEPT ![t].next = r] /\ t \in DOMAIN f
    BY <1>3 DEF LinkedRecord
  <2>2. /\ DOMAIN g = DOMAIN f /\ g[t] = [f[t] EXCEPT !.next = r]
        /\ \A x \in DOMAIN f : x # t => g[x] = f[x]
    BY <2>1
  <2>3. g[t] = [next |-> r, free |-> f[t].free, numOfFreeSlots |-> Len(f[t].free)]
    <3>1. PICK n : n = f[t].next
      OBVIOUS
    <3>2. PICK q : q = f[t].free
      OBVIOUS
    <3>3. f[t] = [next |-> n, free |-> q, numOfFreeSlots |-> Len(q)]
      BY <1>1, <2>1, <3>1, <3>2 DEF IsRecord
    <3>4. [f[t] EXCEPT !.next = r] = [next |-> r, free |-> q, numOfFreeSlots |-> Len(q)]
      BY <3>3
    <3> QED BY <2>2, <3>2, <3>4
  <2>4. IsRecord(g[t]) /\ g[t].free = f[t].free /\ g[t].next = r
    BY <2>3 DEF IsRecord
  <2> QED BY <1>1, <2>2, <2>4
<1> QED BY <1>2, <1>3

LEMMA createFromNewRecordKeeps ==
  ASSUME IInv, ~ended, createFromNewRecord, UNCHANGED ended
  PROVE  IInv'
<1>1. PICK r \in avail :
        /\ avail' = avail \ {r}
        /\ rec' = With(LinkedRecord(rec, tail, r), r, TakeSlot(NewRecord(r)))
        /\ head' = (IF tail = Null THEN r ELSE head)
        /\ tail' = r
        /\ Enlist(Head(NewRecord(r).free))
  BY DEF createFromNewRecord, LinkedRecord, NewTail
<1>2. r \in Records /\ r \notin DOMAIN rec /\ r # Null /\ failed' = failed /\ ended' = ended
  BY <1>1, NullIsNoRecord DEF IInv, createFromNewRecord
<1>3. PICK v : v = NewRecord(r)
  OBVIOUS
<1>4. PICK w : w = TakeSlot(v)
  OBVIOUS
<1>5. PICK s : s = Head(v.free)
  OBVIOUS
<1>6. ChainIn(v.free, r) /\ Len(v.free) = numOfSlots /\ Elements(v.free) = SlotsOf(r)
  BY <1>2, <1>3, NewChain, ChainLength
<1>7. v.next = Null /\ IsRecord(v)
  BY <1>3, <1>6 DEF NewRecord, IsRecord
<1>8. v.free # <<>>
  BY <1>6, CachePoolAssumption
<1>9. /\ IsRecord(w) /\ w.next = Null /\ ChainIn(w.free, r) /\ Len(w.free) = numOfSlots - 1
      /\ s \in Elements(v.free) /\ Elements(w.free) = Elements(v.free) \ {s}
  BY <1>2, <1>4, <1>5, <1>6, <1>7, <1>8, TakeSlotIs
<1>10. PICK f : f = LinkedRecord(rec, tail, r)
  OBVIOUS
<1>11. Null \notin DOMAIN rec /\ tail \in DOMAIN rec \cup {Null} /\ Formed(rec)
  BY NullIsNoRecord DEF IInv
<1>12. /\ DOMAIN f = DOMAIN rec
       /\ \A x \in DOMAIN rec : /\ IsRecord(f[x]) /\ f[x].free = rec[x].free
                                /\ f[x].next = IF x = tail THEN r ELSE rec[x].next
  BY <1>10, <1>11, LinkedRecordIs
<1>13. /\ DOMAIN rec' = DOMAIN rec \cup {r} /\ rec'[r] = w
       /\ \A x \in DOMAIN rec : rec'[x] = f[x]
  <2>1. rec' = With(f, r, w)
    BY <1>1, <1>3, <1>4, <1>10
  <2> QED BY <1>2, <1>12, <2>1 DEF With
<1>14. Formed(rec')
  <2>1. ASSUME NEW x \in DOMAIN rec
        PROVE  x \in Records /\ IsRecord(rec'[x]) /\ rec'[x].next \in Records \cup {Null}
               /\ ChainIn(rec'[x].free, x)
    BY <1>2, <1>11, <1>12, <1>13 DEF Formed
  <2> QED BY <1>2, <1>9, <1>13, <2>1 DEF Formed
<1>15. s \in AllSlots /\ s \notin InUse(rec) /\ InUse(rec') = InUse(rec) \cup {s}
  <2>1. PICK g : g = With(f, r, v)
    OBVIOUS
  <2>2. DOMAIN g = DOMAIN rec \cup {r} /\ g[r] = v /\ \A x \in DOMAIN rec : g[x] = f[x]
    BY <1>2, <1>12, <2>1 DEF With
  <2>3. InUse(g) = InUse(rec)
    BY <1>2, <1>6, <1>12, <2>2, InUseFull
  <2>4. SameBut(g, rec', DOMAIN g \ {r}) /\ DOMAIN rec' = DOMAIN g /\ r \in DOMAIN g
    BY <1>13, <2>2 DEF SameBut
  <2>5. ChainIn(g[r].free, r) /\ s \in Elements(g[r].free)
        /\ Elements(rec'[r].free) = Elements(g[r].free) \ {s}
    BY <1>6, <1>9, <1>13, <2>2
  <2>6. s \in AllSlots /\ s \notin InUse(g) /\ InUse(rec') = InUse(g) \cup {s}
    BY <1>2, <2>4, <2>5, InUseTaken
  <2> QED BY <2>3, <2>6
<1>16. Linked(handle', cacheHead', cacheTail') /\ DOMAIN handle' = DOMAIN handle \cup {s}
  <2>1. Linked(handle, cacheHead, cacheTail) /\ DOMAIN handle = InUse(rec) /\ Enlist(s)
    BY <1>1, <1>3, <1>5 DEF IInv
  <2> QED BY <1>15, <2>1, EnlistLinks
<1>17. Appended(rec, rec', tail, r)
  BY <1>9, <1>12, <1>13 DEF Appended
<1>18. /\ Closed(rec', DOMAIN rec') /\ Single(rec')
       /\ \A h \in DOMAIN rec : tail \in DOMAIN rec /\ rec[tail].next = Null /\ Whole(rec, h)
            => Whole(rec', h)
  BY <1>2, <1>17, LinksAppended DEF IInv
<1>19. ASSUME ~failed PROVE Listed(rec', head', tail')
  <2>1. Listed(rec, head, tail)
    BY <1>19 DEF IInv
  <2>2. head' = head /\ tail' = r /\ head \in DOMAIN rec /\ tail \in DOMAIN rec /\ rec[tail].next = Null
    BY <1>1, <1>11, <2>1 DEF Listed
  <2>3. Whole(rec', head)
    BY <1>18, <2>1, <2>2 DEF Listed
  <2>4. \A x \in DOMAIN rec' : rec'[x].next = Null <=> x = r
    <3>1. \A x \in DOMAIN rec : rec'[x].next # Null /\ x # r
      BY <1>2, <1>12, <1>13, <2>1 DEF Listed
    <3> QED BY <1>9, <1>13, <3>1
  <2>5. \A x \in DOMAIN rec' : x # head => Len(rec'[x].free) < numOfSlots
    <3>1. Len(rec'[r].free) < numOfSlots
      BY <1>9, <1>13, CachePoolAssumption
    <3>2. \A x \in DOMAIN rec : x # head => Len(rec'[x].free) < numOfSlots
      BY <1>12, <1>13, <2>1 DEF Listed
    <3> QED BY <1>13, <3>1, <3>2
  <2> QED BY <1>13, <2>2, <2>3, <2>4, <2>5 DEF Listed
<1>20. /\ avail' \subseteq Records /\ DOMAIN rec' = Records \ avail'
       /\ head' \in DOMAIN rec' \cup {Null} /\ tail' \in DOMAIN rec' \cup {Null}
  BY <1>1, <1>2, <1>13 DEF IInv
<1>21. DOMAIN handle' = InUse(rec')
  BY <1>15, <1>16 DEF IInv
<1> QED BY <1>2, <1>14, <1>16, <1>18, <1>19, <1>20, <1>21 DEF IInv

(* The creation that fails touches head and tail only.                     *)
LEMMA createFailsKeeps ==
  ASSUME IInv, ~ended, createFails, UNCHANGED ended
  PROVE  IInv'
<1>1. /\ tail' = Null /\ head' = (IF tail = Null THEN Null ELSE head) /\ failed' = TRUE
      /\ rec' = rec /\ cacheHead' = cacheHead /\ cacheTail' = cacheTail
      /\ handle' = handle /\ avail' = avail /\ ended' = ended
  BY DEF createFails
<1>2. Formed(rec') /\ InUse(rec') = InUse(rec) /\ Linked(handle', cacheHead', cacheTail')
  BY <1>1 DEF IInv
<1>3. /\ Closed(rec', DOMAIN rec') /\ Single(rec')
      /\ head' \in DOMAIN rec' \cup {Null} /\ tail' \in DOMAIN rec' \cup {Null}
  BY <1>1 DEF IInv
<1>4. /\ avail' \subseteq Records /\ DOMAIN rec' = Records \ avail'
      /\ DOMAIN handle' = InUse(rec')
  BY <1>1, <1>2 DEF IInv
<1> QED BY <1>1, <1>2, <1>3, <1>4 DEF IInv

(* CachePoolFinalize gives back what the list leads to: without a failure, *)
(* everything.                                                             *)
LEMMA CachePoolFinalizeKeeps ==
  ASSUME IInv, ~ended, CachePoolFinalize
  PROVE  IInv'
<1>1. PICK B : B = Behind(head)
  OBVIOUS
<1>2. /\ DOMAIN handle = {} /\ avail' = avail \cup B /\ ended' = TRUE
      /\ rec' = [r \in DOMAIN rec \ B |-> rec[r]]
      /\ UNCHANGED <<head, tail, cacheHead, cacheTail, handle, failed>>
  BY <1>1 DEF CachePoolFinalize
<1>3. B \subseteq DOMAIN rec /\ DOMAIN rec = Records \ avail /\ avail \subseteq Records
  BY <1>1, BehindNull, BehindIs DEF IInv
<1>4. DOMAIN rec' = DOMAIN rec \ B /\ \A r \in DOMAIN rec \ B : rec'[r] = rec[r]
  BY <1>2
<1>5. Formed(rec')
  BY <1>4 DEF IInv, Formed
<1>6. InUse(rec') = {}
  <2>1. \A s \in InUse(rec') : s \in InUse(rec)
    BY <1>4 DEF InUse
  <2> QED BY <1>2, <2>1 DEF IInv
<1>7. ASSUME ~failed PROVE B = DOMAIN rec
  <2>1. head \in DOMAIN rec /\ Whole(rec, head) /\ head # Null /\ Closed(rec, DOMAIN rec)
    BY <1>7, NullIsNoRecord DEF IInv, Listed
  <2>2. head \in B /\ Closed(rec, B)
    BY <1>1, <2>1, BehindClosed
  <2> QED BY <1>3, <2>1, <2>2 DEF Whole
<1>8. /\ avail' \subseteq Records /\ DOMAIN rec' = Records \ avail'
      /\ ~failed => avail' = Records
  BY <1>2, <1>3, <1>4, <1>7
<1>9. /\ cacheHead' = cacheHead /\ cacheTail' = cacheTail /\ handle' = handle /\ failed' = failed
  BY <1>2
<1>10. DOMAIN handle' = InUse(rec') /\ Linked(handle', cacheHead', cacheTail')
  BY <1>2, <1>6, <1>9 DEF IInv
<1>11. failed' \in BOOLEAN /\ ended' \in BOOLEAN /\ ended'
  BY <1>2, <1>9 DEF IInv
<1> QED BY <1>5, <1>8, <1>9, <1>10, <1>11 DEF IInv

(* deallocateSlot: a slot goes back to the chain of its record,            *)
PutBack(f, s) == [f EXCEPT ![s[1]] = PutSlot(@, s)]

LEMMA SlotPut ==
  ASSUME IInv, NEW s \in InUse(rec), NEW r, r = s[1], NEW g, g = PutBack(rec, s)
  PROVE  /\ r \in DOMAIN rec /\ r \in Records
         /\ DOMAIN g = DOMAIN rec /\ Formed(g) /\ InUse(g) = InUse(rec) \ {s}
         /\ \A x \in DOMAIN rec : g[x].next = rec[x].next
         /\ \A x \in DOMAIN rec : x # r => g[x] = rec[x]
<1>1. s \in AllSlots /\ r \in DOMAIN rec /\ s \notin Elements(rec[r].free)
  BY DEF InUse
<1>2. r \in Records /\ IsRecord(rec[r]) /\ ChainIn(rec[r].free, r) /\ rec[r].next \in Records \cup {Null}
  BY <1>1 DEF IInv, Formed
<1>3. s \in SlotsOf(r)
  BY <1>1, <1>2, SlotsOfRecord
<1>4. PICK v : v = rec[r]
  OBVIOUS
<1>5. PICK w : w = PutSlot(v, s)
  OBVIOUS
<1>6. /\ IsRecord(w) /\ w.next = rec[r].next /\ ChainIn(w.free, r)
      /\ Elements(w.free) = Elements(rec[r].free) \cup {s}
  <2>1. TakenFrom(s, v, r)
    BY <1>1, <1>2, <1>3, <1>4 DEF TakenFrom
  <2>2. GivenBack(s, v, r, w)
    BY <1>5, <2>1, PutSlotIs
  <2> QED BY <1>4, <2>2 DEF GivenBack
<1>7. /\ DOMAIN g = DOMAIN rec /\ g[r] = w
      /\ \A x \in DOMAIN rec : x # r => g[x] = rec[x]
  BY <1>1, <1>4, <1>5 DEF PutBack
<1>8. Formed(g)
  <2>1. ASSUME NEW x \in DOMAIN rec
        PROVE  x \in Records /\ IsRecord(g[x]) /\ g[x].next \in Records \cup {Null}
               /\ ChainIn(g[x].free, x)
    BY <1>2, <1>6, <1>7 DEF IInv, Formed
  <2> QED BY <1>7, <2>1 DEF Formed
<1>9. InUse(g) = InUse(rec) \ {s}
  <2>1. SameBut(rec, g, DOMAIN rec \ {r})
    BY <1>7 DEF SameBut
  <2>2. DOMAIN g = DOMAIN rec /\ Elements(g[r].free) = Elements(rec[r].free) \cup {s}
    BY <1>6, <1>7
  <2> QED BY <2>1, <2>2, InUsePut
<1> QED BY <1>1, <1>2, <1>6, <1>7, <1>8, <1>9

(* and a record with its last slot to the buddy allocator.                 *)
TakenOut(f, p, r) == Without([f EXCEPT ![p].next = f[r].next], r)

Follows(f, p, r) == Formed(f) /\ r \in DOMAIN f /\ p \in DOMAIN f /\ p # r /\ Null \notin DOMAIN f

TakenBehind(f, p, r, g) ==
  /\ DOMAIN g = DOMAIN f \ {r}
  /\ \A x \in DOMAIN g : /\ IsRecord(g[x]) /\ g[x].free = f[x].free
                         /\ g[x].next = IF x = p THEN f[r].next ELSE f[x].next

LEMMA RecordTaken ==
  ASSUME NEW f, NEW p, NEW r, Follows(f, p, r), NEW g, g = TakenOut(f, p, r)
  PROVE  TakenBehind(f, p, r, g)
<1> USE DEF Follows
<1>1. PICK n : n = f[r].next
  OBVIOUS
<1>2. PICK e : e = LinkedRecord(f, p, n)
  OBVIOUS
<1>3. e = [f EXCEPT ![p].next = n]
  BY <1>2 DEF LinkedRecord
<1>4. /\ DOMAIN e = DOMAIN f
      /\ \A x \in DOMAIN f : /\ IsRecord(e[x]) /\ e[x].free = f[x].free
                             /\ e[x].next = IF x = p THEN n ELSE f[x].next
  BY <1>2, LinkedRecordIs
<1>5. g = Without(e, r)
  BY <1>1, <1>3 DEF TakenOut
<1>6. DOMAIN g = DOMAIN f \ {r} /\ \A x \in DOMAIN g : x \in DOMAIN f /\ g[x] = e[x]
  BY <1>4, <1>5 DEF Without
<1> QED BY <1>1, <1>4, <1>6 DEF TakenBehind

LEMMA destroyKeeps ==
  ASSUME IInv, ~ended, NEW s \in DOMAIN handle, destroy(s), UNCHANGED ended
  PROVE  IInv'
<1>1. PICK r : r = s[1]
  OBVIOUS
<1>2. PICK rec1 : rec1 = [rec EXCEPT ![r] = PutSlot(@, s)]
  OBVIOUS
<1>3. PICK pred : pred = CHOOSE p \in DOMAIN rec : rec[p].next = r
  OBVIOUS
<1>4. /\ Delist(s)
      /\ IF RecordGone(r, rec1[r].numOfFreeSlots)
         THEN /\ r \in Behind(head)
              /\ rec' = Without([rec1 EXCEPT ![pred].next = rec[r].next], r)
              /\ tail' = IF r = tail THEN pred ELSE tail
              /\ avail' = avail \cup {r}
         ELSE rec' = rec1 /\ UNCHANGED <<tail, avail>>
      /\ head' = head /\ failed' = failed /\ ended' = ended
  BY <1>1, <1>2, <1>3 DEF destroy
<1>5. s \in InUse(rec)
  BY DEF IInv
<1>6. /\ r \in DOMAIN rec /\ r \in Records
      /\ DOMAIN rec1 = DOMAIN rec /\ Formed(rec1) /\ InUse(rec1) = InUse(rec) \ {s}
      /\ \A x \in DOMAIN rec : rec1[x].next = rec[x].next
      /\ \A x \in DOMAIN rec : x # r => rec1[x] = rec[x]
  <2>1. rec1 = PutBack(rec, s)
    BY <1>1, <1>2 DEF PutBack
  <2> QED BY <1>1, <1>5, <2>1, SlotPut
<1>7. Linked(handle', cacheHead', cacheTail') /\ DOMAIN handle' = DOMAIN handle \ {s}
  BY <1>4, DelistLinks DEF IInv
<1>8. /\ rec1[r].numOfFreeSlots = Len(rec1[r].free) /\ Len(rec1[r].free) \in 0 .. numOfSlots
      /\ Len(rec1[r].free) = numOfSlots <=> Elements(rec1[r].free) = SlotsOf(r)
  <2>1. IsRecord(rec1[r]) /\ ChainIn(rec1[r].free, r)
    BY <1>6 DEF Formed
  <2> QED BY <1>6, <2>1, ChainLength DEF IsRecord
<1>9. /\ Closed(rec, DOMAIN rec) /\ Single(rec) /\ Null \notin DOMAIN rec
      /\ head \in DOMAIN rec \cup {Null} /\ tail \in DOMAIN rec \cup {Null}
      /\ DOMAIN handle = InUse(rec) /\ avail \subseteq Records /\ DOMAIN rec = Records \ avail
      /\ ~failed => Listed(rec, head, tail)
      /\ failed \in BOOLEAN /\ ended \in BOOLEAN
  BY NullIsNoRecord DEF IInv
<1>10. CASE RecordGone(r, rec1[r].numOfFreeSlots)
  <2>1. /\ r \in Behind(head) /\ r # head
        /\ rec' = Without([rec1 EXCEPT ![pred].next = rec[r].next], r)
        /\ tail' = (IF r = tail THEN pred ELSE tail)
        /\ avail' = avail \cup {r}
        /\ Elements(rec1[r].free) = SlotsOf(r)
    BY <1>4, <1>8, <1>10 DEF RecordGone
  <2>2. pred \in DOMAIN rec /\ pred # r /\ rec[pred].next = r
    BY <1>3, <1>9, <2>1, Predecessor
  <2>3. /\ DOMAIN rec' = DOMAIN rec \ {r}
        /\ \A x \in DOMAIN rec' : /\ IsRecord(rec'[x]) /\ rec'[x].free = rec1[x].free
                                  /\ rec'[x].next = IF x = pred THEN rec[r].next ELSE rec[x].next
    <3>1. rec1[r].next = rec[r].next
      BY <1>6
    <3>2. PICK g : g = rec'
      OBVIOUS
    <3>3. g = TakenOut(rec1, pred, r)
      BY <2>1, <3>1, <3>2 DEF TakenOut
    <3>4. Follows(rec1, pred, r)
      BY <1>6, <1>9, <2>2 DEF Follows
    <3>5. TakenBehind(rec1, pred, r, g)
      BY <3>3, <3>4, RecordTaken
    <3> QED BY <1>6, <3>2, <3>5 DEF TakenBehind
  <2>4. Formed(rec')
    <3>1. ASSUME NEW x \in DOMAIN rec'
          PROVE  x \in Records /\ IsRecord(rec'[x]) /\ rec'[x].next \in Records \cup {Null}
                 /\ ChainIn(rec'[x].free, x)
      <4>1. x \in DOMAIN rec1 /\ rec[r].next = rec1[r].next /\ rec[x].next = rec1[x].next
        BY <1>6, <2>3
      <4> QED BY <1>6, <2>3, <4>1 DEF Formed
    <3> QED BY <3>1 DEF Formed
  <2>5. InUse(rec') = InUse(rec) \ {s}
    <3>1. r \notin DOMAIN rec' /\ DOMAIN rec1 = DOMAIN rec' \cup {r}
          /\ \A x \in DOMAIN rec' : rec1[x].free = rec'[x].free
      BY <1>6, <2>3
    <3>2. InUse(rec1) = InUse(rec')
      BY <1>6, <2>1, <3>1, InUseFull
    <3> QED BY <1>6, <3>2
  <2>6. Unlinked(rec, rec', pred, r)
    BY <2>3 DEF Unlinked
  <2>7. /\ Closed(rec', DOMAIN rec') /\ Single(rec')
        /\ \A h \in DOMAIN rec' : Whole(rec, h) => Whole(rec', h)
    BY <1>6, <1>9, <2>2, <2>6, LinksRemoved
  <2>8. ASSUME ~failed PROVE Listed(rec', head, tail')
    <3>1. Listed(rec, head, tail)
      BY <1>9, <2>8
    <3>2. head \in DOMAIN rec' /\ tail' \in DOMAIN rec' /\ Whole(rec', head)
      BY <2>1, <2>2, <2>3, <2>7, <3>1 DEF Listed
    <3>3. r # Null
      BY <1>6, <1>9
    <3>4. ASSUME NEW x \in DOMAIN rec' PROVE rec'[x].next = Null <=> x = tail'
      <4>1. x \in DOMAIN rec /\ x # r
        BY <2>3
      <4>2. \A y \in DOMAIN rec : rec[y].next = Null <=> y = tail
        BY <3>1 DEF Listed
      <4>3. CASE x = pred
        BY <1>6, <2>1, <2>2, <2>3, <3>3, <4>1, <4>2, <4>3
      <4>4. CASE x # pred
        BY <2>1, <2>3, <4>1, <4>2, <4>4
      <4> QED BY <4>3, <4>4
    <3>5. ASSUME NEW x \in DOMAIN rec', x # head PROVE Len(rec'[x].free) < numOfSlots
      <4>1. x \in DOMAIN rec /\ x # r /\ rec'[x].free = rec[x].free
        BY <1>6, <2>3
      <4> QED BY <3>1, <3>5, <4>1 DEF Listed
    <3> QED BY <3>2, <3>4, <3>5 DEF Listed
  <2>9. /\ avail' \subseteq Records /\ DOMAIN rec' = Records \ avail'
        /\ head' \in DOMAIN rec' \cup {Null} /\ tail' \in DOMAIN rec' \cup {Null}
    BY <1>4, <1>6, <1>9, <2>1, <2>2, <2>3
  <2>10. DOMAIN handle' = InUse(rec')
    BY <1>7, <1>9, <2>5
  <2> QED BY <1>4, <1>7, <1>9, <2>4, <2>7, <2>8, <2>9, <2>10 DEF IInv
<1>11. CASE ~RecordGone(r, rec1[r].numOfFreeSlots)
  <2>1. rec' = rec1 /\ tail' = tail /\ avail' = avail /\ head' = head
        /\ (Len(rec1[r].free) < numOfSlots \/ r = head)
    BY <1>4, <1>8, <1>11, CachePoolAssumption DEF RecordGone
  <2>2. /\ Closed(rec', DOMAIN rec') /\ Single(rec')
        /\ \A h : Whole(rec, h) => Whole(rec', h)
    BY <1>6, <1>9, <2>1, LinksKept
  <2>3. ASSUME ~failed PROVE Listed(rec', head, tail)
    BY <1>6, <1>9, <2>1, <2>2, <2>3 DEF Listed
  <2>4. /\ DOMAIN handle' = InUse(rec') /\ Formed(rec') /\ DOMAIN rec' = DOMAIN rec
    BY <1>6, <1>7, <1>9, <2>1
  <2> QED BY <1>4, <1>7, <1>9, <2>1, <2>2, <2>3, <2>4 DEF IInv
<1> QED BY <1>10, <1>11

LEMMA NextKeeps ==
  ASSUME IInv, [Next]_vars
  PROVE  IInv'
<1>1. CASE createFromRecord /\ ~ended /\ UNCHANGED ended
  BY <1>1, createFromRecordKeeps
<1>2. CASE createFromNewRecord /\ ~ended /\ UNCHANGED ended
  BY <1>2, createFromNewRecordKeeps
<1>3. CASE createFails /\ ~ended /\ UNCHANGED ended
  BY <1>3, createFailsKeeps
<1>4. ASSUME NEW s \in DOMAIN handle, destroy(s), ~ended, UNCHANGED ended PROVE IInv'
  BY <1>4, destroyKeeps
<1>5. CASE CachePoolFinalize /\ ~ended
  BY <1>5, CachePoolFinalizeKeeps
<1>6. CASE UNCHANGED vars
  <2>1. /\ head' = head /\ tail' = tail /\ rec' = rec /\ cacheHead' = cacheHead
        /\ cacheTail' = cacheTail /\ handle' = handle /\ avail' = avail
        /\ failed' = failed /\ ended' = ended
    BY <1>6 DEF vars
  <2>2. InUse(rec') = InUse(rec)
    BY <2>1
  <2> QED BY <2>1, <2>2 DEF IInv
<1> QED BY <1>1, <1>2, <1>3, <1>4, <1>5, <1>6 DEF Next

-----------------------------------------------------------------------------
(* The invariant holds in every reachable state.                           *)
THEOREM Invariant == Spec => []IInv
<1>1. Init => IInv
  BY InitHolds
<1>2. IInv /\ [Next]_vars => IInv'
  BY NextKeeps
<1> QED BY <1>1, <1>2, PTL DEF Spec

LEMMA TypeFromInvariant == IInv => TypeOK
<1> SUFFICES ASSUME IInv PROVE TypeOK
  OBVIOUS
<1>1. ASSUME NEW r \in DOMAIN rec
      PROVE  rec[r] \in [next : Records \cup {Null}, free : Seq(SlotsOf(r)), numOfFreeSlots : 0 .. numOfSlots]
  <2>1. /\ r \in Records /\ IsRecord(rec[r]) /\ rec[r].next \in Records \cup {Null}
        /\ ChainIn(rec[r].free, r)
    BY DEF IInv, Formed
  <2>2. Len(rec[r].free) \in 0 .. numOfSlots /\ rec[r].free \in Seq(SlotsOf(r))
    BY <2>1, ChainLength DEF ChainIn
  <2> QED BY <2>1, <2>2 DEF IsRecord
<1>2. PICK q \in Seq(AllSlots) : CacheList(q, handle, cacheHead, cacheTail)
  BY DEF IInv, Linked
<1>3. /\ DOMAIN handle \subseteq AllSlots
      /\ cacheHead \in AllSlots \cup {Null} /\ cacheTail \in AllSlots \cup {Null}
  BY <1>2, CacheListIs
<1>4. \A i : Nth(q, i) \in AllSlots \cup {Null}
  BY ElementOfSeq DEF Nth
<1>5. ASSUME NEW s \in DOMAIN handle
      PROVE  handle[s] \in [next : AllSlots \cup {Null}, prev : AllSlots \cup {Null}]
  <2>1. PICK i \in 1 .. Len(q) : q[i] = s
    BY <1>2, CacheListIs
  <2>2. handle[s] = Descriptor(Nth(q, i + 1), Nth(q, i - 1))
    BY <1>2, <2>1 DEF CacheList
  <2> QED BY <1>4, <2>2 DEF Descriptor
<1>6. DOMAIN rec \subseteq Records /\ avail \subseteq Records /\ failed \in BOOLEAN /\ ended \in BOOLEAN
  BY DEF IInv
<1>7. ~ended => {head, tail} \subseteq DOMAIN rec \cup {Null}
  BY DEF IInv
<1> QED BY <1>1, <1>3, <1>5, <1>6, <1>7 DEF TypeOK

(* Every page taken from the buddy allocator is a record that the list     *)
(* leads to, the last one is tail, none but the first is kept without a    *)
(* slot in use, and CachePoolFinalize leaves no page taken, unless a       *)
(* creation has failed.                                                    *)
THEOREM RecordsListedHolds == Spec => []RecordsListed
<1>1. IInv => RecordsListed
  <2> SUFFICES ASSUME IInv PROVE RecordsListed
    OBVIOUS
  <2>1. TypeOK /\ DOMAIN rec = Records \ avail /\ (ended /\ ~failed => avail = Records)
    BY TypeFromInvariant DEF IInv
  <2>2. ASSUME ~failed, ~ended
        PROVE  /\ Behind(head) = DOMAIN rec
               /\ \A r \in DOMAIN rec : rec[r].next = Null <=> r = tail
               /\ \A r \in DOMAIN rec \ {head} : Len(rec[r].free) < numOfSlots
    <3>1. Listed(rec, head, tail) /\ Closed(rec, DOMAIN rec) /\ head # Null
      BY <2>2, NullIsNoRecord DEF IInv, Listed
    <3>2. Closed(rec, Behind(head)) /\ head \in Behind(head) /\ Behind(head) \in SUBSET DOMAIN rec
      BY <3>1, BehindClosed, BehindIs DEF Listed
    <3>3. Behind(head) = DOMAIN rec
      BY <3>1, <3>2 DEF Listed, Whole
    <3> QED BY <3>1, <3>3 DEF Listed
  <2> QED BY <2>1, <2>2 DEF RecordsListed
<1> QED BY <1>1, Invariant, PTL

(* Every slot of every record is either once in the chain of its record or *)
(* in use, the counter is the length of the chain, and no descriptor lies  *)
(* in a page that was given back.                                          *)
THEOREM SlotsExactHolds == Spec => []SlotsExact
<1>1. IInv => SlotsExact
  <2> SUFFICES ASSUME IInv PROVE SlotsExact
    OBVIOUS
  <2>1. ASSUME NEW r \in DOMAIN rec, NEW free, free = {rec[r].free[i] : i \in DOMAIN rec[r].free}
        PROVE  /\ Cardinality(free) = Len(rec[r].free)
               /\ rec[r].numOfFreeSlots = Len(rec[r].free)
               /\ DOMAIN handle \cap SlotsOf(r) = SlotsOf(r) \ free
    <3>1. r \in Records /\ IsRecord(rec[r]) /\ ChainIn(rec[r].free, r)
      BY DEF IInv, Formed
    <3>2. rec[r].numOfFreeSlots = Len(rec[r].free)
      BY <3>1 DEF IsRecord
    <3>3. rec[r].free \in Seq(SlotsOf(r)) /\ Distinct(rec[r].free)
      BY <3>1 DEF ChainIn
    <3>4. free = Elements(rec[r].free)
      BY <2>1, <3>3, LenProperties DEF Elements
    <3>5. Cardinality(free) = Len(rec[r].free)
      BY <3>3, <3>4, DistinctCount
    <3>6. ASSUME NEW s \in SlotsOf(r) PROVE s \in DOMAIN handle <=> s \notin free
      <4>1. s \in AllSlots /\ s[1] = r
        BY <3>1, SlotsOfRecord
      <4>2. s \in InUse(rec) <=> s \notin Elements(rec[r].free)
        BY <4>1 DEF InUse
      <4> QED BY <3>4, <4>2 DEF IInv
    <3> QED BY <3>2, <3>5, <3>6
  <2>2. \A s \in DOMAIN handle : s[1] \in DOMAIN rec
    BY DEF IInv, InUse
  <2> QED BY <2>1, <2>2 DEF SlotsExact
<1> QED BY <1>1, Invariant, PTL

(* The walk from cacheHead meets the caches in the order of the sequence.  *)
LEMMA CacheAtIs ==
  ASSUME NEW q, CacheList(q, handle, cacheHead, cacheTail), NEW n \in Nat, n = Len(q)
  PROVE  Cardinality(DOMAIN handle) = n /\ \A i \in 1 .. n : CacheAt[i] = q[i]
<1>1. /\ q \in Seq(AllSlots) /\ Distinct(q) /\ Elements(q) = DOMAIN handle
      /\ cacheHead = Nth(q, 1)
      /\ \A i \in 1 .. n : handle[q[i]] = Descriptor(Nth(q, i + 1), Nth(q, i - 1))
  BY DEF CacheList
<1>2. Cardinality(DOMAIN handle) = n
  BY <1>1, DistinctCount
<1>3. CacheAt = CHOOSE at : at = [i \in 1 .. n |-> IF i = 1 THEN cacheHead ELSE handle[at[i - 1]].next]
  BY <1>2 DEF CacheAt
<1>4. ASSUME NEW i \in 1 .. n, i # 1 PROVE i - 1 \in 1 .. n /\ handle[q[i - 1]].next = q[i]
  <2>1. i - 1 \in 1 .. n /\ (i - 1) + 1 = i
    BY <1>4
  <2>2. handle[q[i - 1]] = Descriptor(Nth(q, i), Nth(q, (i - 1) - 1))
    BY <1>1, <2>1
  <2>3. Nth(q, i) = q[i]
    BY DEF Nth
  <2> QED BY <2>1, <2>2, <2>3 DEF Descriptor
<1>5. \E at : at = [i \in 1 .. n |-> IF i = 1 THEN cacheHead ELSE handle[at[i - 1]].next]
  <2>1. PICK at : at = [i \in 1 .. n |-> q[i]]
    OBVIOUS
  <2>2. \A i \in 1 .. n : at[i] = q[i]
    BY <2>1
  <2>3. ASSUME NEW i \in 1 .. n PROVE q[i] = IF i = 1 THEN cacheHead ELSE handle[at[i - 1]].next
    <3>1. CASE i = 1
      BY <1>1, <3>1 DEF Nth
    <3>2. CASE i # 1
      BY <1>4, <2>2, <3>2
    <3> QED BY <3>1, <3>2
  <2>4. [i \in 1 .. n |-> q[i]] = [i \in 1 .. n |-> IF i = 1 THEN cacheHead ELSE handle[at[i - 1]].next]
    BY ONLY <2>3
  <2>5. at = [i \in 1 .. n |-> IF i = 1 THEN cacheHead ELSE handle[at[i - 1]].next]
    BY ONLY <2>1, <2>4, ZenonT(40)
  <2> QED BY ONLY <2>5
<1>6. CacheAt = [i \in 1 .. n |-> IF i = 1 THEN cacheHead ELSE handle[CacheAt[i - 1]].next]
  BY <1>3, <1>5
<1>7. \A i \in 1 .. n : CacheAt[i] = IF i = 1 THEN cacheHead ELSE handle[CacheAt[i - 1]].next
  BY <1>6
<1>8. PICK T : T = {i \in 1 .. n : CacheAt[i] = q[i]}
  OBVIOUS
<1>9. ASSUME 1 <= n PROVE 1 \in T
  <2>1. 1 \in 1 .. n
    BY <1>9
  <2>2. CacheAt[1] = cacheHead /\ cacheHead = q[1]
    BY <1>1, <1>7, <2>1 DEF Nth
  <2> QED BY <1>8, <2>1, <2>2
<1>10. ASSUME NEW k \in 1 .. n, k \in T, k < n PROVE k + 1 \in T
  <2>1. k + 1 \in 1 .. n /\ k + 1 # 1 /\ (k + 1) - 1 = k
    BY <1>10
  <2>2. CacheAt[k + 1] = handle[CacheAt[k]].next /\ handle[q[k]].next = q[k + 1]
    BY <1>4, <1>7, <2>1
  <2>3. CacheAt[k] = q[k]
    BY <1>8, <1>10
  <2> QED BY <1>8, <2>1, <2>2, <2>3
<1>11. \A i \in 1 .. n : i \in T
  <2>1. CASE 1 <= n
    BY <1>9, <1>10, <2>1, Up
  <2>2. CASE ~(1 <= n)
    BY <2>2
  <2> QED BY <2>1, <2>2
<1> QED BY <1>2, <1>8, <1>11

(* The caches that exist are linked both ways between cacheHead and        *)
(* cacheTail, and the list holds no other.                                 *)
THEOREM CachesLinkedHolds == Spec => []CachesLinked
<1>1. IInv => CachesLinked
  <2> SUFFICES ASSUME IInv PROVE CachesLinked
    OBVIOUS
  <2>1. PICK q \in Seq(AllSlots) : CacheList(q, handle, cacheHead, cacheTail)
    BY DEF IInv, Linked
  <2>2. PICK n \in Nat : n = Len(q)
    BY LenProperties
  <2>3. Cardinality(DOMAIN handle) = n /\ \A i \in 1 .. n : CacheAt[i] = q[i]
    BY <2>1, <2>2, CacheAtIs
  <2>4. /\ cacheHead = Nth(q, 1) /\ cacheTail = Nth(q, n)
        /\ \A i \in 1 .. n : handle[q[i]] = Descriptor(Nth(q, i + 1), Nth(q, i - 1))
        /\ \A i \in 1 .. n : q[i] \in DOMAIN handle
    BY <2>1, <2>2, CacheListIs DEF CacheList
  <2>5. CASE n = 0
    <3>1. cacheHead = Null /\ cacheTail = Null
      BY <2>2, <2>4, <2>5 DEF Nth
    <3> QED BY <2>3, <2>5, <3>1 DEF CachesLinked
  <2>6. CASE n # 0
    <3>1. 1 \in 1 .. n /\ n \in 1 .. n /\ 1 - 1 \notin 1 .. n /\ n + 1 \notin 1 .. n
      BY <2>6
    <3>2. cacheHead = q[1] /\ cacheTail = q[n] /\ Nth(q, 1 - 1) = Null /\ Nth(q, n + 1) = Null
      BY <2>2, <2>4, <3>1 DEF Nth
    <3>3. handle[cacheHead].prev = Null
      <4>1. handle[q[1]] = Descriptor(Nth(q, 1 + 1), Nth(q, 1 - 1))
        BY <2>4, <3>1
      <4> QED BY <3>2, <4>1 DEF Descriptor
    <3>4. handle[cacheTail].next = Null
      <4>1. handle[q[n]] = Descriptor(Nth(q, n + 1), Nth(q, n - 1))
        BY <2>4, <3>1
      <4> QED BY <3>2, <4>1 DEF Descriptor
    <3>5. ASSUME NEW i \in 2 .. n
          PROVE  CacheAt[i] \in DOMAIN handle /\ handle[CacheAt[i]].prev = CacheAt[i - 1]
      <4>1. i \in 1 .. n /\ i - 1 \in 1 .. n
        OBVIOUS
      <4>2. handle[q[i]] = Descriptor(Nth(q, i + 1), Nth(q, i - 1)) /\ Nth(q, i - 1) = q[i - 1]
        BY <2>2, <2>4, <4>1 DEF Nth
      <4> QED BY <2>3, <2>4, <4>1, <4>2 DEF Descriptor
    <3>6. CacheAt[n] = cacheTail
      BY <2>3, <3>1, <3>2
    <3> QED BY <2>3, <2>6, <3>3, <3>4, <3>5, <3>6 DEF CachesLinked
  <2> QED BY <2>5, <2>6
<1> QED BY <1>1, Invariant, PTL

-----------------------------------------------------------------------------
(***************************************************************************)
(* The small memory buffers.                                               *)
(***************************************************************************)

(* The caches of Buffers are those of SlabCache.  Of its proofs only what  *)
(* they say of a memory m is used, and so the other variables may be       *)
(* anything.                                                               *)
Obj == INSTANCE SlabCacheProofs WITH
  Caches <- AllCaches, Slabs <- Places, objNum <- [c \in AllCaches |-> ObjNum(c)],
  created <- AllCaches, avail <- {}, live <- {}, call <- None

(* The slabs of headers and of buffers in a memory m.                      *)
OwnerOf(m, s)  == m.slab[s].owner
PageSlabs(m)   == {s \in Places : OwnerOf(m, s) \in HeaderCaches}
BufferSlabs(m) == {s \in Places : OwnerOf(m, s) \in BufferCaches}
Unused(m)      == {s \in Places : OwnerOf(m, s) = None}

(* In use are the headers that stand for a slab or were lost (lo), and the *)
(* slots of the buffers in use (lv), when me are the extents of the slabs. *)
HeaderInUse(m, lo, s, i) ==
  /\ s \in PageSlabs(m) /\ i \in 0 .. headersInSlab - 1
  /\ InSlot(s, i) \in BufferSlabs(m) \cup lo
BufferInUse(m, me, lv, s, i) ==
  /\ s \in BufferSlabs(m) /\ i \in Slots(OwnerOf(m, s))
  /\ \E b \in lv : b.addr = Address(me[s], i, OwnerOf(m, s))
SlotsInUse(m, me, lv, lo) ==
  {o \in Places \X UNION {Slots(c) : c \in AllCaches} :
     HeaderInUse(m, lo, o[1], o[2]) \/ BufferInUse(m, me, lv, o[1], o[2])}

(* The extent of a slab.                                                   *)
ExtentOf(m, me, s) == IF s \in PageSlabs(m) THEN [addr |-> s[1], order |-> 0] ELSE me[s]

(* Slabs of headers are pages, and those of buffers have their header in   *)
(* one of them, as the headers have that were lost.                        *)
HeadersPlaced(m, lo) ==
  /\ \A s \in PageSlabs(m) : \E p \in Pages : s = InPage(p)
  /\ \A q \in BufferSlabs(m) \cup lo : \E p \in Pages, i \in 0 .. headersInSlab - 1 :
       q = InSlot(InPage(p), i) /\ InPage(p) \in PageSlabs(m)
  /\ BufferSlabs(m) \cap lo = {}

(* Every slab has an extent of its own, and no other is held.              *)
ExtentsHeld(m, me, h) ==
  /\ me \in [Places -> Extents \cup {None}]
  /\ \A s \in BufferSlabs(m) : me[s] \in Extents /\ me[s].order = slabOrder(OwnerOf(m, s))
  /\ h = {ExtentOf(m, me, s) : s \in PageSlabs(m) \cup BufferSlabs(m)}
  /\ \A s, t \in PageSlabs(m) \cup BufferSlabs(m) :
       s # t => Span(ExtentOf(m, me, s)) \cap Span(ExtentOf(m, me, t)) = {}

(* Each buffer has a slot of its own, which is large enough.               *)
HasSlot(m, me, b, s, i) ==
  /\ b.addr = Address(me[s], i, OwnerOf(m, s))
  /\ b.size <= slotSize(OwnerOf(m, s))
BuffersPlaced(m, me, lv) ==
  /\ lv \subseteq [addr : Nat, size : Requests \cap Served]
  /\ \A b \in lv : \E s \in BufferSlabs(m) : \E i \in Slots(OwnerOf(m, s)) : HasSlot(m, me, b, s, i)
  /\ \A b, d \in lv : b.addr = d.addr => b = d

(* A class that has a slab has a cache (mb are the caches of the classes). *)
ClassesTold(m, mb) ==
  /\ mb \in [Classes -> BufferCaches \cup {None}]
  /\ \A i \in Classes : mb[i] # None => getPowerOfTwo(mb[i][2]) = i
  /\ \A s \in BufferSlabs(m) : \E i \in Classes : mb[i] = OwnerOf(m, s)

Arranged(m, me, h, lv, lo, mb) ==
  HeadersPlaced(m, lo) /\ ExtentsHeld(m, me, h) /\ BuffersPlaced(m, me, lv) /\ ClassesTold(m, mb)

Working(m, me, h, lv, lo, mb) ==
  /\ Obj!Consistent(m, AllCaches, Unused(m), SlotsInUse(m, me, lv, lo))
  /\ Arranged(m, me, h, lv, lo, mb)

BuffersIInv ==
  /\ finalized \in BOOLEAN
  /\ lost \subseteq Places
  /\ IF finalized THEN /\ Now = [slab |-> [s \in Places |-> BlankSlab],
                                 cache |-> [c \in AllCaches |-> NewCache]]
                       /\ mem \in [Places -> Extents \cup {None}]
                       /\ held = {} /\ live = {} /\ ClassesTold(Now, memoryBuffers)
     ELSE Working(Now, mem, held, live, lost, memoryBuffers)

-----------------------------------------------------------------------------
(* The sizes: the class of a size and the order of a slab.                 *)
LEMMA BelowPower ==
  ASSUME NEW n \in Nat
  PROVE  n <= 2^n
<1>1. PICK T : T = {k \in Nat : k <= 2^k}
  OBVIOUS
<1>2. 0 \in T
  BY <1>1, PowerZero
<1>3. ASSUME NEW k \in 0 .. n, k \in T PROVE k + 1 \in T
  <2>1. 2^k \in Nat \ {0} /\ 2^(k + 1) = 2 * 2^k /\ k <= 2^k
    BY <1>1, <1>3, PowerPositive, PowerDoubles
  <2>2. k + 1 <= 2 * 2^k
    BY ONLY <2>1, k \in 0 .. n
  <2> QED BY <1>1, <2>1, <2>2
<1>4. \A k \in 0 .. n : k \in T
  BY <1>2, <1>3, Up
<1> QED BY <1>1, <1>4

LEMMA LeastPower ==
  ASSUME NEW x \in Nat, NEW d \in Nat \ {0}
  PROVE  \E k \in 0 .. x : x <= d * 2^k /\ \A j \in 0 .. k - 1 : x > d * 2^j
<1>1. PICK T : T = {k \in Nat : x <= d * 2^k}
  OBVIOUS
<1>2. x \in T
  <2>1. PICK p \in Nat : p = 2^x
    BY PowerPositive
  <2>2. x <= p
    BY <2>1, BelowPower
  <2>3. x <= d * p
    BY ONLY <2>2, x \in Nat, p \in Nat, d \in Nat \ {0}
  <2> QED BY <1>1, <2>1, <2>3
<1>3. PICK k \in T : \A j \in T : k <= j
  <2>1. T \in SUBSET Nat
    BY <1>1
  <2> QED BY <1>2, <2>1, Least
<1>4. k \in Nat /\ k <= x /\ x <= d * 2^k
  BY <1>1, <1>2, <1>3
<1>5. ASSUME NEW j \in 0 .. k - 1 PROVE x > d * 2^j
  <2>1. j \in Nat /\ ~(k <= j)
    BY <1>4
  <2>2. j \notin T
    BY <1>3, <2>1
  <2>3. PICK p \in Nat : p = d * 2^j
    BY <2>1, PowerPositive
  <2>4. ~(x <= p)
    BY <1>1, <2>1, <2>2, <2>3
  <2> QED BY <2>3, <2>4
<1> QED BY <1>4, <1>5

LEMMA OrderIs ==
  ASSUME NEW x \in Nat
  PROVE  /\ getOrder(x) \in Nat /\ x <= BLOCK_SIZE * 2^getOrder(x)
         /\ x <= BLOCK_SIZE => getOrder(x) = 0
<1>1. BLOCK_SIZE \in Nat \ {0}
  BY BuffersAssumption
<1>2. PICK k : k = getOrder(x)
  OBVIOUS
<1>3. k \in 0 .. x /\ x <= BLOCK_SIZE * 2^k /\ \A j \in 0 .. k - 1 : x > BLOCK_SIZE * 2^j
  BY <1>1, <1>2, LeastPower DEF getOrder
<1>4. ASSUME x <= BLOCK_SIZE, k # 0 PROVE FALSE
  <2>1. 0 \in 0 .. k - 1
    BY <1>3, <1>4
  <2>2. x > BLOCK_SIZE * 2^0
    BY <1>3, <2>1
  <2> QED BY <1>1, <1>4, <2>2, PowerZero
<1> QED BY <1>2, <1>3, <1>4

LEMMA ClassIs ==
  ASSUME NEW x \in Served
  PROVE  /\ x \in Nat \ {0} /\ getPowerOfTwo(x) \in Classes
         /\ getPowerOfTwo(x) + MIN_BUFF_ORDER \in Nat
         /\ x <= 2^(getPowerOfTwo(x) + MIN_BUFF_ORDER)
<1>1. MIN_BUFF_ORDER \in Nat /\ MAX_BUFF_ORDER \in Nat
  BY BuffersAssumption
<1>2. PICK lo \in Nat \ {0}, hi \in Nat \ {0} : lo = 2^MIN_BUFF_ORDER /\ hi = 2^MAX_BUFF_ORDER
  BY <1>1, PowerPositive
<1>3. x \in Nat \ {0} /\ lo <= x /\ x <= hi
  BY <1>2 DEF Served
<1>4. PICK k : k = CHOOSE j \in 0 .. x : x <= 2^j /\ \A i \in 0 .. j - 1 : x > 2^i
  OBVIOUS
<1>5. k \in 0 .. x /\ x <= 2^k /\ \A i \in 0 .. k - 1 : x > 2^i
  <2>1. PICK j \in 0 .. x : x <= 1 * 2^j /\ \A i \in 0 .. j - 1 : x > 1 * 2^i
    BY <1>3, LeastPower
  <2>2. \A i \in Nat : 1 * 2^i = 2^i
    BY PowerPositive
  <2>3. x <= 2^j /\ \A i \in 0 .. j - 1 : x > 2^i
    BY <1>3, <2>1, <2>2
  <2> QED BY <1>4, <2>3
<1>6. getPowerOfTwo(x) = k - MIN_BUFF_ORDER
  BY <1>4 DEF getPowerOfTwo
<1>7. MIN_BUFF_ORDER <= k
  <2>1. SUFFICES ASSUME k < MIN_BUFF_ORDER PROVE FALSE
    BY <1>1, <1>5
  <2>2. k \in Nat /\ k + 1 \in Nat /\ k + 1 <= MIN_BUFF_ORDER
    BY <1>1, <1>5, <2>1
  <2>3. 2^(k + 1) <= lo /\ 2^(k + 1) = 2 * 2^k /\ 2^k \in Nat \ {0}
    BY <1>1, <1>2, <2>2, PowerGrows, PowerDoubles, PowerPositive
  <2> QED BY <1>2, <1>3, <1>5, <2>3
<1>8. k <= MAX_BUFF_ORDER
  <2>1. SUFFICES ASSUME MAX_BUFF_ORDER < k PROVE FALSE
    BY <1>1, <1>5
  <2>2. MAX_BUFF_ORDER \in 0 .. k - 1
    BY <1>1, <1>5, <2>1
  <2>3. x > 2^MAX_BUFF_ORDER
    BY <1>5, <2>2
  <2> QED BY <1>2, <1>3, <2>3
<1>9. k \in Nat /\ (k - MIN_BUFF_ORDER) + MIN_BUFF_ORDER = k
      /\ k - MIN_BUFF_ORDER \in 0 .. MAX_BUFF_ORDER - MIN_BUFF_ORDER
  BY <1>1, <1>5, <1>7, <1>8
<1> QED BY <1>3, <1>5, <1>6, <1>9 DEF Classes

(* A cache of buffers.                                                     *)
LEMMA CacheSizes ==
  ASSUME NEW c \in BufferCaches
  PROVE  /\ c[2] \in Requests \cap Served /\ c = bufferCache(c[2])
         /\ slotSize(c) \in Nat \ {0} /\ ObjNum(c) \in Nat \ {0} /\ slabOrder(c) \in Nat
         /\ ObjNum(c) * slotSize(c) <= BLOCK_SIZE * 2^slabOrder(c)
         /\ \A i \in 0 .. ObjNum(c) - 1 :
              /\ i * slotSize(c) \in Nat /\ i * slotSize(c) < BLOCK_SIZE
              /\ i * slotSize(c) + slotSize(c) <= BLOCK_SIZE * 2^slabOrder(c)
         /\ c \notin HeaderCaches
<1>1. PICK x \in Requests \cap Served : c = bufferCache(x)
  BY DEF BufferCaches
<1>2. c = <<"buffers", x>> /\ c[2] = x /\ c[1] = "buffers"
  BY <1>1 DEF bufferCache
<1>3. c \notin HeaderCaches
  <2>1. \A i \in Classes : headerCache(i)[1] = "headers"
    BY DEF headerCache
  <2> QED BY <1>2, <2>1 DEF HeaderCaches
<1>4. PICK w \in Nat \ {0} : w = slotSize(c)
  <2>1. getPowerOfTwo(x) + MIN_BUFF_ORDER \in Nat
    BY ClassIs
  <2> QED BY <1>2, <2>1, PowerPositive DEF slotSize
<1>5. PICK B \in Nat \ {0} : B = BLOCK_SIZE
  BY BuffersAssumption
<1>6. PICK k \in Nat : k = slabOrder(c) /\ k = getOrder(c[2]) /\ (x <= B => k = 0)
  BY <1>2, <1>5, ClassIs, OrderIs DEF slabOrder
<1>7. PICK p \in Nat \ {0} : p = 2^k /\ (k = 0 => p = 1)
  BY PowerPositive, PowerZero
<1>8. ObjNum(c) = IF x > B THEN 1 ELSE B \div x
  BY <1>2, <1>3, <1>5 DEF ObjNum
<1>9. x \in Nat \ {0}
  BY ClassIs
<1>10. PICK n \in Nat \ {0} : n = ObjNum(c) /\ (x > B => n = 1)
  <2>1. x <= B => B \div x \in Nat \ {0}
    BY ONLY <1>5, <1>9
  <2> QED BY <1>8, <1>9, <2>1
<1>11. n * w <= B * p
  <2>1. ObjNum(c) * slotSize(c) <= BLOCK_SIZE * 2^getOrder(c[2])
    BY BuffersAssumption
  <2> QED BY <1>4, <1>5, <1>6, <1>7, <1>10, <2>1
<1>12. ASSUME NEW i \in 0 .. n - 1
       PROVE  i * w \in Nat /\ i * w < B /\ i * w + w <= B * p
  <2>1. i * w \in Nat /\ i * w + w = (i + 1) * w
    BY ONLY i \in 0 .. n - 1, n \in Nat \ {0}, w \in Nat \ {0}
  <2>2. (i + 1) * w <= n * w
    BY ONLY i \in 0 .. n - 1, n \in Nat \ {0}, w \in Nat \ {0}
  <2>3. i * w + w <= B * p
    BY ONLY <1>11, <2>1, <2>2, w \in Nat \ {0}, B \in Nat \ {0}, p \in Nat \ {0}, n \in Nat \ {0}, i \in 0 .. n - 1
  <2>4. CASE x > B
    <3>1. i = 0
      BY <1>10, <2>4
    <3>2. i * w = 0
      BY ONLY <3>1, w \in Nat \ {0}
    <3> QED BY <1>5, <2>1, <2>3, <3>2
  <2>5. CASE ~(x > B)
    <3>1. p = 1 /\ B * p = B
      BY <1>5, <1>6, <1>7, <1>9, <2>5
    <3> QED BY ONLY <2>1, <2>3, <3>1, w \in Nat \ {0}, B \in Nat \ {0}
  <2> QED BY <2>4, <2>5
<1> QED BY <1>1, <1>2, <1>3, <1>4, <1>5, <1>6, <1>7, <1>10, <1>11, <1>12

-----------------------------------------------------------------------------
(* What the proofs about SlabCache assume.                                 *)
LEMMA PlacesFinite ==
  /\ IsFiniteSet(Places)
  /\ \A p \in Pages : InPage(p) \in Places
  /\ \A p \in Pages, i \in 0 .. headersInSlab - 1 : InSlot(InPage(p), i) \in Places
<1>1. PICK n \in Nat, h \in Nat : n = 2^MAX_ORDER /\ h = headersInSlab
  BY BuffersAssumption, PowerPositive
<1>2. PICK P, I : P = 0 .. n - 1 /\ I = 0 .. h - 1
  OBVIOUS
<1>3. P = Pages /\ I = 0 .. headersInSlab - 1 /\ IsFiniteSet(P) /\ IsFiniteSet(I)
  BY <1>1, <1>2, FS_Interval DEF Pages
<1>4. PICK A : A = {InPage(p) : p \in P}
  OBVIOUS
<1>5. PICK B : B = {q \in Places : \E p \in P, i \in I : q = InSlot(InPage(p), i)}
  OBVIOUS
<1>6. Places = A \cup B /\ \A p \in P, i \in I : InSlot(InPage(p), i) \in B
  BY <1>3, <1>4, <1>5 DEF Places
<1>7. IsFiniteSet(A)
  <2>1. PICK f : f = [p \in P |-> InPage(p)]
    OBVIOUS
  <2>2. f \in [P -> A] /\ \A a \in A : \E p \in P : f[p] = a
    BY <1>4, <2>1
  <2>3. f \in Surjection(P, A)
    BY <2>2 DEF Surjection
  <2> QED BY <1>3, <2>3, FS_Surjection
<1>8. IsFiniteSet(B)
  <2>1. PICK f : f = [o \in P \X I |-> InSlot(InPage(o[1]), o[2])]
    OBVIOUS
  <2>2. \A p \in P, i \in I : <<p, i>> \in P \X I /\ f[<<p, i>>] = InSlot(InPage(p), i)
    BY <2>1
  <2>3. f \in [P \X I -> B] /\ \A b \in B : \E o \in P \X I : f[o] = b
    BY <1>5, <1>6, <2>1, <2>2
  <2>4. f \in Surjection(P \X I, B)
    BY <2>3 DEF Surjection
  <2>5. IsFiniteSet(P \X I)
    BY <1>3, FS_Product
  <2> QED BY <2>4, <2>5, FS_Surjection
<1>9. IsFiniteSet(Places)
  BY <1>6, <1>7, <1>8, FS_Union
<1> QED BY <1>3, <1>4, <1>6, <1>9

LEMMA ObjAssumption == Obj!SlabAssumption
<1>1. \A c \in AllCaches : ObjNum(c) \in Nat \ {0}
  BY BuffersAssumption, CacheSizes DEF AllCaches, ObjNum
<1>2. Obj!IsFiniteSet(Places)
  BY PlacesFinite DEF IsFiniteSet, Obj!IsFiniteSet
<1> QED BY <1>1, <1>2, NullAssumption DEF Obj!SlabAssumption

(* The operators of Slab are those of SlabCache.                           *)
LEMMA SameData ==
  /\ Groups = Obj!Groups /\ End = Obj!End /\ BlankSlab = Obj!BlankSlab
  /\ NewCache = Obj!NewCache /\ Errors = Obj!Errors
  /\ \A c : Slots(c) = Obj!Slots(c)
  /\ \A c \in HeaderCaches : Slots(c) = 0 .. headersInSlab - 1
  /\ \A c \in AllCaches : Slots(c) = 0 .. ObjNum(c) - 1
<1>1. \A c \in HeaderCaches : ObjNum(c) = headersInSlab /\ c \in AllCaches
  BY DEF ObjNum, AllCaches
<1>2. \A c \in AllCaches : Slots(c) = 0 .. ObjNum(c) - 1
  BY DEF Slots
<1>3. Groups = Obj!Groups /\ End = Obj!End /\ Errors = Obj!Errors
  BY DEF Groups, Obj!Groups, End, Obj!End, Errors, Obj!Errors
<1>4. BlankSlab = Obj!BlankSlab /\ NewCache = Obj!NewCache
  BY <1>3 DEF BlankSlab, Obj!BlankSlab, NewCache, Obj!NewCache
<1>5. \A c : Slots(c) = Obj!Slots(c)
  BY DEF Slots, Obj!Slots
<1> QED BY <1>1, <1>2, <1>3, <1>4, <1>5

LEMMA SameMoves ==
  ASSUME NEW m, NEW c, NEW s, NEW g
  PROVE  moveFree(m, c, s, g) = Obj!moveFree(m, c, s, g) /\ moveSlab(m, c, s, g) = Obj!moveSlab(m, c, s, g)
<1>1. \A x : PushFront(x, c, s, g) = Obj!PushFront(x, c, s, g)
  BY DEF PushFront, Obj!PushFront
<1>2. PopFree(m, c) = Obj!PopFree(m, c)
  BY DEF PopFree, Obj!PopFree
<1>3. Unlink(m, c, s) = Obj!Unlink(m, c, s)
  BY DEF Unlink, Obj!Unlink
<1> QED BY <1>1, <1>2, <1>3 DEF moveFree, Obj!moveFree, moveSlab, Obj!moveSlab

LEMMA SameCalls ==
  ASSUME NEW m, NEW c, NEW s, NEW i
  PROVE  /\ NoSlabLeft(m, c) = Obj!NoSlabLeft(m, c) /\ Stocked(m, c) = Obj!Stocked(m, c)
         /\ Grown(m, c, s) = Obj!Grown(m, c, s)
         /\ takeFromPartial(m, c) = Obj!takeFromPartial(m, c)
         /\ linkSlot(updateSlab(m, s), s, i) = Obj!linkSlot(Obj!updateSlab(m, s), s, i)
<1>1. NoSlabLeft(m, c) = Obj!NoSlabLeft(m, c)
  BY DEF NoSlabLeft, Obj!NoSlabLeft
<1>2. Stocked(m, c) = Obj!Stocked(m, c)
  BY SameMoves DEF Stocked, Obj!Stocked
<1>3. Grown(m, c, s) = Obj!Grown(m, c, s)
  <2>1. \A x : SpareFromShrink(x, c) = Obj!SpareFromShrink(x, c)
    BY DEF SpareFromShrink, Obj!SpareFromShrink
  <2>2. FreeChain(c) = Obj!FreeChain(c)
    BY SameData DEF FreeChain, Obj!FreeChain
  <2>3. \A x : PushFront(x, c, s, "FREE") = Obj!PushFront(x, c, s, "FREE")
    BY DEF PushFront, Obj!PushFront
  <2>4. initSlab(m, c, s) = Obj!initSlab(m, c, s)
    BY <2>2, <2>3, SameData DEF initSlab, Obj!initSlab
  <2> QED BY <2>1, <2>4, SameMoves DEF Grown, Obj!Grown
<1>4. takeFromPartial(m, c) = Obj!takeFromPartial(m, c)
  <2>1. \A q : takeObject(m, q) = Obj!takeObject(m, q)
    BY DEF takeObject, Obj!takeObject
  <2>2. PICK q, x : q = m.cache[c].list["PARTIAL"] /\ x = takeObject(m, q)
    OBVIOUS
  <2>3. moveSlab(x, c, q, "FULL") = Obj!moveSlab(x, c, q, "FULL")
    BY SameMoves
  <2>4. takeFromPartial(m, c) =
          IF x.slab[q].numOfFreeSlots = 0 THEN moveSlab(x, c, q, "FULL") ELSE x
    BY ONLY <2>2 DEF takeFromPartial
  <2>5. Obj!takeFromPartial(m, c) =
          IF x.slab[q].numOfFreeSlots = 0 THEN Obj!moveSlab(x, c, q, "FULL") ELSE x
    BY ONLY <2>1, <2>2 DEF Obj!takeFromPartial
  <2> QED BY ONLY <2>3, <2>4, <2>5
<1>5. linkSlot(updateSlab(m, s), s, i) = Obj!linkSlot(Obj!updateSlab(m, s), s, i)
  <2>1. updateSlab(m, s) = Obj!updateSlab(m, s)
    BY SameMoves DEF updateSlab, Obj!updateSlab
  <2>2. \A x : linkSlot(x, s, i) = Obj!linkSlot(x, s, i)
    BY DEF linkSlot, Obj!linkSlot
  <2> QED BY ONLY <2>1, <2>2, ZenonT(40)
<1> QED BY <1>1, <1>2, <1>3, <1>4, <1>5

LEMMA SameWalk ==
  ASSUME NEW m, NEW from
  PROVE  Walk(m, from) = Obj!Walk(m, from)
  BY DEF Walk, Obj!Walk

-----------------------------------------------------------------------------
(* Places, extents and addresses.                                          *)
LEMMA InSlotIs ==
  ASSUME NEW p, NEW i
  PROVE  InSlot(InPage(p), i) = <<p, i>>
<1>1. PICK a, b : a = <<p>> /\ b = <<i>>
  OBVIOUS
<1>2. PICK S : S = {p, i}
  OBVIOUS
<1>3. a \in Seq(S) /\ b \in Seq(S) /\ Len(a) = 1 /\ Len(b) = 1 /\ a[1] = p /\ b[1] = i
  BY <1>1, <1>2
<1>4. PICK c : c = a \o b
  OBVIOUS
<1>5. c \in Seq(S) /\ Len(c) = 2 /\ c[1] = p /\ c[2] = i
  <2>1. /\ c \in Seq(S) /\ Len(c) = 1 + 1
        /\ \A k \in 1 .. 1 + 1 : c[k] = IF k <= 1 THEN a[k] ELSE b[k - 1]
    BY <1>3, <1>4, ConcatProperties
  <2> QED BY <1>3, <2>1
<1>6. c = <<p, i>>
  BY <1>5
<1> QED BY <1>1, <1>4, <1>6 DEF InSlot, InPage

LEMMA PlacesApart ==
  ASSUME NEW p, NEW i, NEW q, NEW j
  PROVE  /\ InSlot(InPage(p), i) # InPage(q)
         /\ InSlot(InPage(p), i) = InSlot(InPage(q), j) => p = q /\ i = j
         /\ InPage(p) = InPage(q) => p = q
         /\ InPage(p)[1] = p
<1>1. InSlot(InPage(p), i) = <<p, i>> /\ InSlot(InPage(q), j) = <<q, j>>
  BY InSlotIs
<1>2. <<p, i>> # <<q>>
  OBVIOUS
<1> QED BY <1>1, <1>2 DEF InPage

LEMMA CachesApart ==
  /\ None \notin HeaderCaches /\ None \notin BufferCaches /\ None \notin Places
  /\ HeaderCaches \cap BufferCaches = {}
  /\ HeaderCaches \cup BufferCaches = AllCaches
  BY NullAssumption, CacheSizes DEF AllCaches

LEMMA ExtentIs ==
  ASSUME NEW e \in Extents
  PROVE  /\ e.addr \in Nat /\ e.addr \in Pages /\ e.order \in Nat /\ 2^e.order \in Nat \ {0}
         /\ e.addr \in Span(e) /\ e.addr + 2^e.order <= 2^MAX_ORDER
         /\ e = [addr |-> e.addr, order |-> e.order]
<1>1. e \in [addr : Pages, order : Orders] /\ e.addr % 2^e.order = 0
  BY DEF Extents
<1>2. MAX_ORDER \in Nat
  BY BuffersAssumption
<1>3. PICK top \in Nat \ {0} : top = 2^MAX_ORDER
  BY <1>2, PowerPositive
<1>4. PICK a \in Nat, o \in Nat : a = e.addr /\ o = e.order /\ a < top /\ o <= MAX_ORDER
  BY <1>1, <1>2, <1>3 DEF Pages, Orders
<1>5. PICK d \in Nat \ {0} : d = 2^o
  BY <1>4, PowerPositive
<1>6. PICK r \in Nat \ {0} : r = 2^(MAX_ORDER - o)
  BY <1>2, <1>4, PowerPositive
<1>7. top = d * r
  <2>1. MAX_ORDER - o \in Nat /\ o + (MAX_ORDER - o) = MAX_ORDER
    BY <1>2, <1>4
  <2>2. 2^(o + (MAX_ORDER - o)) = 2^o * 2^(MAX_ORDER - o)
    BY <1>4, <2>1, PowerSum
  <2> QED BY <1>3, <1>5, <1>6, <2>1, <2>2
<1>8. PICK q \in Nat : a = d * q
  <2>1. a \div d \in Nat /\ a % d \in 0 .. d - 1 /\ a = d * (a \div d) + (a % d)
    BY <1>4, <1>5, DivMod
  <2>2. a % d = 0
    BY <1>1, <1>4, <1>5
  <2>3. a = d * (a \div d)
    BY <1>5, <2>1, <2>2
  <2> QED BY <2>1, <2>3
<1>9. q < r
  <2>1. SUFFICES ASSUME r <= q PROVE FALSE
    OBVIOUS
  <2>2. d * r <= d * q
    BY ONLY <2>1, d \in Nat \ {0}, r \in Nat \ {0}, q \in Nat
  <2> QED BY <1>4, <1>7, <1>8, <2>2
<1>10. d * q + d <= d * r
  BY <1>9, TimesGrows
<1>11. a + d <= top
  BY <1>7, <1>8, <1>10
<1>12. a \in a .. a + d - 1
  BY <1>5
<1> QED BY <1>1, <1>3, <1>4, <1>5, <1>11, <1>12 DEF Span

LEMMA SpansApart ==
  ASSUME NEW e \in Extents, NEW f \in Extents, Span(e) \cap Span(f) = {}
  PROVE  e.addr + 2^e.order <= f.addr \/ f.addr + 2^f.order <= e.addr
<1>1. PICK a \in Nat, d \in Nat \ {0} : a = e.addr /\ d = 2^e.order
  BY ExtentIs
<1>2. PICK b \in Nat, c \in Nat \ {0} : b = f.addr /\ c = 2^f.order
  BY ExtentIs
<1>3. (a .. a + d - 1) \cap (b .. b + c - 1) = {}
  BY <1>1, <1>2 DEF Span
<1>4. SUFFICES ASSUME a + d > b, b + c > a PROVE FALSE
  BY <1>1, <1>2
<1>5. PICK x \in Nat : x = IF a > b THEN a ELSE b
  OBVIOUS
<1>6. x \in a .. a + d - 1 /\ x \in b .. b + c - 1
  BY <1>4, <1>5
<1> QED BY <1>3, <1>6

LEMMA AddressIs ==
  ASSUME NEW e \in Extents, NEW c \in BufferCaches, e.order = slabOrder(c),
         NEW i \in Slots(c), NEW a, a = Address(e, i, c)
  PROVE  /\ a \in Nat /\ a \div BLOCK_SIZE = e.addr
         /\ (a - e.addr * BLOCK_SIZE) \div slotSize(c) = i
         /\ e.addr * BLOCK_SIZE \in Nat /\ e.addr * BLOCK_SIZE <= a
         /\ a + slotSize(c) <= (e.addr + 2^e.order) * BLOCK_SIZE
<1>1. PICK w \in Nat \ {0}, B \in Nat \ {0} : w = slotSize(c) /\ B = BLOCK_SIZE
  BY CacheSizes, BuffersAssumption
<1>2. PICK p \in Nat, d \in Nat \ {0} : p = e.addr /\ d = 2^e.order
  BY ExtentIs
<1>3. i \in Nat /\ i * w \in Nat /\ i * w < B /\ i * w + w <= B * d
  <2>1. i \in 0 .. ObjNum(c) - 1 /\ ObjNum(c) \in Nat
    BY SameData, CachesApart, CacheSizes
  <2> QED BY <1>1, <1>2, <2>1, CacheSizes
<1>4. PICK r \in Nat : r = i * w
  BY <1>3
<1>5. PICK base \in Nat : base = p * B
  OBVIOUS
<1>6. a = base + r
  BY <1>1, <1>2, <1>4, <1>5 DEF Address
<1>7. a \div B = p
  <2>1. r \in 0 .. B - 1 /\ a \in Nat /\ a = B * p + r
    BY <1>3, <1>4, <1>5, <1>6
  <2> QED BY <2>1, DivUnique
<1>8. (a - base) \div w = i
  <2>1. a - base = r /\ r = w * i + 0
    BY <1>3, <1>4, <1>6
  <2> QED BY <1>3, <2>1, 0 \in 0 .. w - 1, DivUnique
<1>9. a + w <= (p + d) * B
  <2>1. PICK x \in Nat : x = B * d
    OBVIOUS
  <2>2. PICK y : y = (p + d) * B
    OBVIOUS
  <2>3. y = base + x
    BY <1>5, <2>1, <2>2
  <2>4. r + w <= x
    BY <1>3, <1>4, <2>1
  <2>5. a + w <= y
    BY ONLY <1>6, <2>3, <2>4, r \in Nat, w \in Nat, x \in Nat, base \in Nat
  <2> QED BY ONLY <2>2, <2>5, Zenon
<1>10. /\ a \in Nat /\ a \div B = p /\ (a - p * B) \div w = i
       /\ p * B \in Nat /\ p * B <= a
  BY <1>4, <1>5, <1>6, <1>7, <1>8
<1> QED BY ONLY <1>1, <1>2, <1>9, <1>10, Zenon

(* Different slots of a slab do not overlap.                               *)
LEMMA SlotsApart ==
  ASSUME NEW e \in Extents, NEW c \in BufferCaches, NEW i \in Slots(c), NEW j \in Slots(c), i # j
  PROVE  \/ Address(e, i, c) + slotSize(c) <= Address(e, j, c)
         \/ Address(e, j, c) + slotSize(c) <= Address(e, i, c)
<1>1. PICK w \in Nat \ {0}, B \in Nat \ {0} : w = slotSize(c) /\ B = BLOCK_SIZE
  BY CacheSizes, BuffersAssumption
<1>2. PICK base \in Nat : base = e.addr * B
  BY ExtentIs
<1>3. i \in Nat /\ j \in Nat
  <2>1. Slots(c) = 0 .. ObjNum(c) - 1 /\ ObjNum(c) \in Nat
    BY SameData, CachesApart, CacheSizes
  <2> QED BY <2>1
<1>4. PICK x \in Nat, y \in Nat : x = w * i /\ y = w * j
  BY <1>3
<1>5. Address(e, i, c) = base + x /\ Address(e, j, c) = base + y
  <2>1. i * w = w * i /\ j * w = w * j
    BY <1>3
  <2> QED BY <1>1, <1>2, <1>4, <2>1 DEF Address
<1>6. x + w <= y \/ y + w <= x
  <2>1. i < j => w * i + w <= w * j
    BY <1>3, TimesGrows
  <2>2. j < i => w * j + w <= w * i
    BY <1>3, TimesGrows
  <2> QED BY <1>3, <1>4, <2>1, <2>2
<1> QED BY <1>1, <1>5, <1>6

-----------------------------------------------------------------------------
(* What is in use, and where.                                              *)
Owned(m)         == \A q \in Places : OwnerOf(m, q) \in AllCaches \cup {None}
SameOwner(n, m)  == \A q \in Places : OwnerOf(n, q) = OwnerOf(m, q)
Has(use, s, i)   == <<s, i>> \in use
Plus(use, s, i)  == use \cup {<<s, i>>}
Minus(use, s, i) == use \ {<<s, i>>}
Pairs(use)       == \A o \in use : o = <<o[1], o[2]>>

LEMMA Kinds ==
  ASSUME NEW m
  PROVE  /\ PageSlabs(m) \cap BufferSlabs(m) = {} /\ PageSlabs(m) \subseteq Places
         /\ BufferSlabs(m) \subseteq Places
         /\ Owned(m) => Unused(m) = Places \ (PageSlabs(m) \cup BufferSlabs(m))
  BY CachesApart DEF PageSlabs, BufferSlabs, Unused, Owned

(* Pairs decide whether sets of slots are the same.                        *)
LEMMA SamePairs ==
  ASSUME NEW A, NEW B, Pairs(A), Pairs(B), \A s, i : Has(A, s, i) <=> Has(B, s, i)
  PROVE  A = B
<1>1. ASSUME NEW o \in A PROVE o \in B
  BY <1>1 DEF Pairs, Has
<1>2. ASSUME NEW o \in B PROVE o \in A
  BY <1>2 DEF Pairs, Has
<1> QED BY <1>1, <1>2

LEMMA PlusIs ==
  ASSUME NEW A, NEW B, Pairs(A), Pairs(B), NEW s, NEW i,
         \A x, j : Has(A, x, j) <=> Has(B, x, j) \/ (x = s /\ j = i)
  PROVE  A = Plus(B, s, i)
<1>1. PICK C : C = Plus(B, s, i)
  OBVIOUS
<1>2. Pairs(C)
  BY <1>1 DEF Pairs, Plus
<1>3. \A x, j : <<x, j>> = <<s, i>> <=> x = s /\ j = i
  OBVIOUS
<1>4. ASSUME NEW x, NEW j PROVE Has(C, x, j) <=> Has(B, x, j) \/ (x = s /\ j = i)
  BY <1>1, <1>3 DEF Has, Plus
<1> QED BY <1>1, <1>2, <1>4, SamePairs

LEMMA MinusIs ==
  ASSUME NEW A, NEW B, Pairs(A), Pairs(B), NEW s, NEW i,
         \A x, j : Has(A, x, j) <=> Has(B, x, j) /\ ~(x = s /\ j = i)
  PROVE  A = Minus(B, s, i)
<1>1. PICK C : C = Minus(B, s, i)
  OBVIOUS
<1>2. Pairs(C)
  BY <1>1 DEF Pairs, Minus
<1>3. \A x, j : <<x, j>> = <<s, i>> <=> x = s /\ j = i
  OBVIOUS
<1>4. ASSUME NEW x, NEW j PROVE Has(C, x, j) <=> Has(B, x, j) /\ ~(x = s /\ j = i)
  BY <1>1, <1>3 DEF Has, Minus
<1> QED BY <1>1, <1>2, <1>4, SamePairs

LEMMA InUseIs ==
  ASSUME NEW m, NEW me, NEW lv, NEW lo
  PROVE  /\ Pairs(SlotsInUse(m, me, lv, lo))
         /\ \A s, i : Has(SlotsInUse(m, me, lv, lo), s, i) <=>
                        HeaderInUse(m, lo, s, i) \/ BufferInUse(m, me, lv, s, i)
<1>1. PICK N : N = UNION {Slots(c) : c \in AllCaches}
  OBVIOUS
<1>2. PICK use : use = SlotsInUse(m, me, lv, lo)
  OBVIOUS
<1>3. /\ \A o \in use : o = <<o[1], o[2]>>
      /\ \A o \in Places \X N : o \in use <=> HeaderInUse(m, lo, o[1], o[2]) \/ BufferInUse(m, me, lv, o[1], o[2])
  BY <1>1, <1>2 DEF SlotsInUse
<1>4. ASSUME NEW s, NEW i
      PROVE  Has(use, s, i) <=> HeaderInUse(m, lo, s, i) \/ BufferInUse(m, me, lv, s, i)
  <2>1. PICK o : o = <<s, i>>
    OBVIOUS
  <2>2. o[1] = s /\ o[2] = i
    BY <2>1
  <2>3. HeaderInUse(m, lo, s, i) => s \in Places /\ i \in N
    <3>1. ASSUME HeaderInUse(m, lo, s, i) PROVE s \in Places /\ i \in N
      <4>1. s \in Places /\ OwnerOf(m, s) \in HeaderCaches /\ i \in 0 .. headersInSlab - 1
        BY <3>1 DEF HeaderInUse, PageSlabs
      <4> QED BY <1>1, <4>1, SameData, CachesApart
    <3> QED BY <3>1
  <2>4. BufferInUse(m, me, lv, s, i) => s \in Places /\ i \in N
    <3>1. ASSUME BufferInUse(m, me, lv, s, i) PROVE s \in Places /\ i \in N
      <4>1. s \in Places /\ OwnerOf(m, s) \in BufferCaches /\ i \in Slots(OwnerOf(m, s))
        BY <3>1 DEF BufferInUse, BufferSlabs
      <4> QED BY <1>1, <4>1, CachesApart
    <3> QED BY <3>1
  <2>5. o \in use => s \in Places /\ i \in N
    BY <1>1, <1>2, <2>2 DEF SlotsInUse
  <2>6. s \in Places /\ i \in N => o \in Places \X N
    BY <2>1
  <2>7. o \in use <=> HeaderInUse(m, lo, s, i) \/ BufferInUse(m, me, lv, s, i)
    BY <1>3, <2>2, <2>3, <2>4, <2>5, <2>6
  <2> QED BY <2>1, <2>7 DEF Has
<1> QED BY <1>2, <1>3, <1>4 DEF Pairs

LEMMA SameOwners ==
  ASSUME NEW m, NEW n, SameOwner(n, m),
         NEW me, NEW h, NEW lv, NEW lo, NEW mb
  PROVE  /\ PageSlabs(n) = PageSlabs(m) /\ BufferSlabs(n) = BufferSlabs(m)
         /\ Unused(n) = Unused(m) /\ SlotsInUse(n, me, lv, lo) = SlotsInUse(m, me, lv, lo)
         /\ Arranged(m, me, h, lv, lo, mb) => Arranged(n, me, h, lv, lo, mb)
<1>1. PageSlabs(n) = PageSlabs(m) /\ BufferSlabs(n) = BufferSlabs(m) /\ Unused(n) = Unused(m)
  BY DEF PageSlabs, BufferSlabs, Unused, SameOwner
<1>2. \A q \in BufferSlabs(m) : OwnerOf(n, q) = OwnerOf(m, q)
  BY DEF BufferSlabs, SameOwner
<1>3. SlotsInUse(n, me, lv, lo) = SlotsInUse(m, me, lv, lo)
  <2>1. ASSUME NEW s, NEW i PROVE HeaderInUse(n, lo, s, i) <=> HeaderInUse(m, lo, s, i)
    BY <1>1 DEF HeaderInUse
  <2>2. ASSUME NEW s, NEW i PROVE BufferInUse(n, me, lv, s, i) <=> BufferInUse(m, me, lv, s, i)
    <3>1. s \in BufferSlabs(m) => OwnerOf(n, s) = OwnerOf(m, s)
      BY <1>2
    <3> QED BY <1>1, <3>1 DEF BufferInUse
  <2> QED BY <2>1, <2>2, InUseIs, SamePairs
<1>4. \A s : ExtentOf(n, me, s) = ExtentOf(m, me, s)
  BY <1>1 DEF ExtentOf
<1>5. HeadersPlaced(m, lo) => HeadersPlaced(n, lo)
  BY <1>1 DEF HeadersPlaced
<1>6. ExtentsHeld(m, me, h) => ExtentsHeld(n, me, h)
  BY <1>1, <1>2, <1>4 DEF ExtentsHeld
<1>7. BuffersPlaced(m, me, lv) => BuffersPlaced(n, me, lv)
  BY <1>1, <1>2 DEF BuffersPlaced, HasSlot
<1>8. ClassesTold(m, mb) => ClassesTold(n, mb)
  BY <1>1, <1>2 DEF ClassesTold
<1> QED BY <1>1, <1>3, <1>5, <1>6, <1>7, <1>8 DEF Arranged

(* An address belongs to one slab and one slot of it.                      *)
LEMMA SlabOfAddress ==
  ASSUME NEW m, NEW me, NEW h, ExtentsHeld(m, me, h), NEW s \in BufferSlabs(m),
         NEW i \in Slots(OwnerOf(m, s)), NEW a, a = Address(me[s], i, OwnerOf(m, s))
  PROVE  /\ me[s] \in Extents /\ OwnerOf(m, s) \in BufferCaches
         /\ me[s].order = slabOrder(OwnerOf(m, s))
         /\ a \in Nat /\ a \div BLOCK_SIZE = me[s].addr
         /\ (a - me[s].addr * BLOCK_SIZE) \div slotSize(OwnerOf(m, s)) = i
         /\ \A t \in BufferSlabs(m) : me[t].addr = me[s].addr => t = s
         /\ \A t \in BufferSlabs(m) : \A j \in Slots(OwnerOf(m, t)) :
              a = Address(me[t], j, OwnerOf(m, t)) => t = s /\ j = i
<1>1. \A t \in BufferSlabs(m) : /\ me[t] \in Extents /\ me[t].order = slabOrder(OwnerOf(m, t))
                                /\ OwnerOf(m, t) \in BufferCaches
  BY DEF ExtentsHeld, BufferSlabs
<1>2. /\ a \in Nat /\ a \div BLOCK_SIZE = me[s].addr
      /\ (a - me[s].addr * BLOCK_SIZE) \div slotSize(OwnerOf(m, s)) = i
  BY <1>1, AddressIs
<1>3. ASSUME NEW t \in BufferSlabs(m), me[t].addr = me[s].addr PROVE t = s
  <2>1. ExtentOf(m, me, s) = me[s] /\ ExtentOf(m, me, t) = me[t]
    BY Kinds DEF ExtentOf
  <2>2. me[s].addr \in Span(me[s]) /\ me[s].addr \in Span(me[t])
    BY <1>1, <1>3, ExtentIs
  <2> QED BY <2>1, <2>2 DEF ExtentsHeld
<1>4. ASSUME NEW t \in BufferSlabs(m), NEW j \in Slots(OwnerOf(m, t)),
             a = Address(me[t], j, OwnerOf(m, t))
      PROVE  t = s /\ j = i
  <2>1. /\ a \div BLOCK_SIZE = me[t].addr
        /\ (a - me[t].addr * BLOCK_SIZE) \div slotSize(OwnerOf(m, t)) = j
    BY <1>1, <1>4, AddressIs
  <2>2. t = s
    BY <1>2, <1>3, <2>1
  <2> QED BY <1>2, <2>1, <2>2
<1> QED BY <1>1, <1>2, <1>3, <1>4

-----------------------------------------------------------------------------
(* What a call does to a memory m, the extents me of the slabs, the        *)
(* extents h held, the buffers lv in use, the headers lo lost and the      *)
(* caches mb of the classes.  A header that is taken counts as lost until  *)
(* a slab is made of it.                                                   *)
Took(r, av, use, c, q, i, n) ==
  /\ Obj!Ready(r, AllCaches, av, use, c)
  /\ q = r.cache[c].list["PARTIAL"] /\ i = r.slab[q].free /\ n = takeFromPartial(r, c)

LEMMA TakenIs ==
  ASSUME NEW r, NEW av, NEW use, NEW c \in AllCaches, NEW q, NEW i, NEW n,
         Took(r, av, use, c, q, i, n)
  PROVE  /\ q \in Places /\ OwnerOf(r, q) = c /\ i \in Slots(c) /\ ~Has(use, q, i)
         /\ Obj!Consistent(n, AllCaches, av, Plus(use, q, i)) /\ SameOwner(n, r)
<1>1. PICK cr : cr = AllCaches
  OBVIOUS
<1>2. Obj!Ready(r, cr, av, use, c) /\ c \in cr
  BY <1>1 DEF Took
<1>3. q = r.cache[c].list["PARTIAL"] /\ i = r.slab[q].free
  BY SMTT(20) DEF Took
<1>4. /\ q \in Places /\ r.slab[q].owner = c /\ i \in Obj!Slots(c) /\ <<q, i>> \notin use
      /\ Obj!Consistent(Obj!takeFromPartial(r, c), cr, av, use \cup {<<q, i>>})
      /\ \A s \in Places : Obj!takeFromPartial(r, c).slab[s].owner = r.slab[s].owner
  BY ONLY <1>2, <1>3, ObjAssumption, Obj!HandOutKeeps, SMTT(20)
<1>5. n = Obj!takeFromPartial(r, c)
  BY SameCalls DEF Took
<1> QED BY ONLY <1>1, <1>4, <1>5, SameData DEF OwnerOf, Has, Plus, SameOwner

LEMMA OwnersOf ==
  ASSUME NEW m, NEW av, NEW use, Obj!Consistent(m, AllCaches, av, use)
  PROVE  Owned(m) /\ av = Unused(m)
<1>1. /\ av = {s \in Places : m.slab[s].owner = None}
      /\ \A s \in Places : m.slab[s].owner # None => m.slab[s].owner \in AllCaches
  BY DEF Obj!Consistent, Obj!Listed
<1> QED BY <1>1 DEF Owned, Unused, OwnerOf

LEMMA HeaderTaken ==
  ASSUME NEW r, NEW me, NEW h, NEW lv, NEW lo, NEW mb, NEW c \in HeaderCaches,
         Arranged(r, me, h, lv, lo, mb), NEW q, NEW i, NEW n,
         Took(r, Unused(r), SlotsInUse(r, me, lv, lo), c, q, i, n),
         NEW s, s = InSlot(q, i)
  PROVE  /\ Working(n, me, h, lv, lo \cup {s}, mb) /\ SameOwner(n, r)
         /\ s \notin lo /\ s \in Unused(r)
<1>1. PICK use : use = SlotsInUse(r, me, lv, lo)
  OBVIOUS
<1>2. /\ q \in Places /\ OwnerOf(r, q) = c /\ i \in Slots(c) /\ ~Has(use, q, i)
      /\ Obj!Consistent(n, AllCaches, Unused(r), Plus(use, q, i)) /\ SameOwner(n, r)
  BY <1>1, TakenIs, CachesApart
<1>3. q \in PageSlabs(r) /\ i \in 0 .. headersInSlab - 1
  BY <1>2, SameData DEF PageSlabs
<1>4. PICK p \in Pages : q = InPage(p)
  BY <1>3 DEF Arranged, HeadersPlaced
<1>5. s \in Places
  BY <1>3, <1>4, PlacesFinite
<1>6. s \notin BufferSlabs(r) \cup lo
  BY <1>1, <1>2, <1>3, InUseIs DEF HeaderInUse
<1>7. PICK lo1 : lo1 = lo \cup {s}
  OBVIOUS
<1>8. SlotsInUse(r, me, lv, lo1) = Plus(use, q, i)
  <2>1. ASSUME NEW x, NEW j
        PROVE  HeaderInUse(r, lo1, x, j) <=> HeaderInUse(r, lo, x, j) \/ (x = q /\ j = i)
    <3>1. x \in PageSlabs(r) => (InSlot(x, j) = s <=> x = q /\ j = i)
      <4>1. x \in PageSlabs(r) => \E k \in Pages : x = InPage(k)
        BY DEF Arranged, HeadersPlaced
      <4> QED BY <1>4, <4>1, PlacesApart
    <3> QED BY <1>3, <1>7, <3>1 DEF HeaderInUse
  <2>2. \A x, j : Has(SlotsInUse(r, me, lv, lo1), x, j) <=> Has(use, x, j) \/ (x = q /\ j = i)
    BY <1>1, <2>1, InUseIs
  <2> QED BY <1>1, <2>2, InUseIs, PlusIs
<1>9. Arranged(r, me, h, lv, lo1, mb)
  <2>1. HeadersPlaced(r, lo1)
    BY <1>3, <1>4, <1>6, <1>7 DEF Arranged, HeadersPlaced
  <2> QED BY <2>1 DEF Arranged
<1>10. /\ Unused(n) = Unused(r) /\ SlotsInUse(n, me, lv, lo1) = Plus(use, q, i)
       /\ Arranged(n, me, h, lv, lo1, mb)
  BY <1>2, <1>8, <1>9, SameOwners
<1>11. s \in Unused(r)
  <2>1. Owned(n)
    BY <1>2, OwnersOf
  <2>2. Owned(r)
    BY <1>2, <2>1 DEF Owned, SameOwner
  <2>3. s \notin PageSlabs(r)
    <3>1. s \in PageSlabs(r) => \E k \in Pages : s = InPage(k)
      BY DEF Arranged, HeadersPlaced
    <3> QED BY <1>4, <3>1, PlacesApart
  <2> QED BY <1>5, <1>6, <2>2, <2>3, Kinds
<1> QED BY <1>2, <1>5, <1>6, <1>7, <1>10, <1>11 DEF Working

LEMMA BufferTaken ==
  ASSUME NEW r, NEW me, NEW h, NEW lv, NEW lo, NEW mb, NEW c \in BufferCaches,
         Arranged(r, me, h, lv, lo, mb), NEW q, NEW i, NEW n,
         Took(r, Unused(r), SlotsInUse(r, me, lv, lo), c, q, i, n),
         NEW x \in Requests \cap Served, x <= slotSize(c),
         NEW b, b = [addr |-> Address(me[q], i, c), size |-> x]
  PROVE  Working(n, me, h, lv \cup {b}, lo, mb) /\ \A d \in lv : d.addr # b.addr
<1>1. PICK use : use = SlotsInUse(r, me, lv, lo)
  OBVIOUS
<1>2. /\ q \in Places /\ OwnerOf(r, q) = c /\ i \in Slots(c) /\ ~Has(use, q, i)
      /\ Obj!Consistent(n, AllCaches, Unused(r), Plus(use, q, i)) /\ SameOwner(n, r)
  BY <1>1, TakenIs, CachesApart
<1>3. q \in BufferSlabs(r)
  BY <1>2 DEF BufferSlabs
<1>4. PICK a : a = Address(me[q], i, c)
  OBVIOUS
<1>5. b.addr = a /\ b.size = x
  BY <1>4
<1>6. /\ a \in Nat
      /\ \A t \in BufferSlabs(r) : \A j \in Slots(OwnerOf(r, t)) :
           a = Address(me[t], j, OwnerOf(r, t)) => t = q /\ j = i
  BY <1>2, <1>3, <1>4, SlabOfAddress DEF Arranged
<1>7. \A d \in lv : d.addr # a
  BY <1>1, <1>2, <1>3, <1>4, InUseIs DEF BufferInUse
<1>8. PICK lv1 : lv1 = lv \cup {b}
  OBVIOUS
<1>9. SlotsInUse(r, me, lv1, lo) = Plus(use, q, i)
  <2>1. ASSUME NEW t, NEW j
        PROVE  BufferInUse(r, me, lv1, t, j) <=> BufferInUse(r, me, lv, t, j) \/ (t = q /\ j = i)
    <3>1. t \in BufferSlabs(r) /\ j \in Slots(OwnerOf(r, t)) =>
            (b.addr = Address(me[t], j, OwnerOf(r, t)) <=> t = q /\ j = i)
      BY <1>2, <1>4, <1>5, <1>6
    <3> QED BY <1>2, <1>3, <1>8, <3>1 DEF BufferInUse
  <2>2. \A t, j : Has(SlotsInUse(r, me, lv1, lo), t, j) <=> Has(use, t, j) \/ (t = q /\ j = i)
    BY <1>1, <2>1, InUseIs
  <2> QED BY <1>1, <2>2, InUseIs, PlusIs
<1>10. Arranged(r, me, h, lv1, lo, mb)
  <2>1. lv1 \subseteq [addr : Nat, size : Requests \cap Served]
    BY <1>4, <1>6, <1>8 DEF Arranged, BuffersPlaced
  <2>2. HasSlot(r, me, b, q, i)
    BY <1>2, <1>4, <1>5 DEF HasSlot
  <2>3. BuffersPlaced(r, me, lv1)
    BY <1>2, <1>3, <1>5, <1>7, <1>8, <2>1, <2>2 DEF Arranged, BuffersPlaced
  <2> QED BY <2>3 DEF Arranged
<1>11. /\ Unused(n) = Unused(r) /\ SlotsInUse(n, me, lv1, lo) = Plus(use, q, i)
       /\ Arranged(n, me, h, lv1, lo, mb)
  BY <1>2, <1>9, <1>10, SameOwners
<1> QED BY <1>2, <1>5, <1>7, <1>8, <1>11 DEF Working


(* What is ready for an object of cache c to be taken.                     *)
Prepared(r, me, h, lv, lo, mb, c) ==
  /\ Obj!Ready(r, AllCaches, Unused(r), SlotsInUse(r, me, lv, lo), c)
  /\ Arranged(r, me, h, lv, lo, mb)

LEMMA StockedIs ==
  ASSUME NEW m, NEW me, NEW h, NEW lv, NEW lo, NEW mb, NEW c \in AllCaches,
         Working(m, me, h, lv, lo, mb), ~NoSlabLeft(m, c), NEW r, r = Stocked(m, c)
  PROVE  Prepared(r, me, h, lv, lo, mb, c) /\ SameOwner(r, m)
<1>1. PICK cr, av, use : cr = AllCaches /\ av = Unused(m) /\ use = SlotsInUse(m, me, lv, lo)
  OBVIOUS
<1>2. c \in cr /\ Obj!Consistent(m, cr, av, use) /\ ~Obj!NoSlabLeft(m, c) /\ r = Obj!Stocked(m, c)
  BY <1>1, SameCalls DEF Working
<1>3. Obj!Ready(r, cr, av, use, c) /\ \A q \in Places : r.slab[q].owner = m.slab[q].owner
  BY ONLY <1>2, ObjAssumption, Obj!StockedReady
<1>4. SameOwner(r, m)
  BY <1>3 DEF SameOwner, OwnerOf
<1>5. /\ Unused(r) = Unused(m) /\ SlotsInUse(r, me, lv, lo) = SlotsInUse(m, me, lv, lo)
      /\ Arranged(r, me, h, lv, lo, mb)
  BY <1>4, SameOwners DEF Working
<1> QED BY <1>1, <1>3, <1>4, <1>5 DEF Prepared

LEMMA RoomIs ==
  ASSUME NEW h, NEW k, NEW e \in Room(h, k)
  PROVE  e \in Extents /\ e.order = k /\ \A g \in h : Span(g) \cap Span(e) = {}
<1>1. Pool(h)!Extents = Extents
  BY DEF Extents, Pool!Extents, Pages, Pool!Pages, Orders, Pool!Orders
<1>2. \A g : Pool(h)!Span(g) = Span(g)
  BY DEF Span, Pool!Span
<1> QED BY <1>1, <1>2 DEF Room, Pool!Available

(* A slab is made in a place which has none.                               *)
BecameOwner(r, m, b, c) ==
  \A q \in Places : OwnerOf(r, q) = IF q = b THEN c ELSE OwnerOf(m, q)

LEMMA GrownIs ==
  ASSUME NEW m, NEW use, NEW c \in AllCaches, NEW b \in Unused(m),
         Obj!Consistent(m, AllCaches, Unused(m), use), NEW r, r = Grown(m, c, b)
  PROVE  /\ Obj!Ready(r, AllCaches, Unused(r), use, c) /\ BecameOwner(r, m, b, c)
         /\ Unused(r) = Unused(m) \ {b}
<1>1. PICK cr, av : cr = AllCaches /\ av = Unused(m)
  OBVIOUS
<1>2. c \in cr /\ b \in av /\ Obj!Consistent(m, cr, av, use) /\ r = Obj!Grown(m, c, b)
  BY <1>1, SameCalls
<1>3. /\ Obj!Ready(r, cr, av \ {b}, use, c)
      /\ \A q \in Places : r.slab[q].owner = IF q = b THEN c ELSE m.slab[q].owner
  BY ONLY <1>2, ObjAssumption, Obj!GrownReady
<1>4. BecameOwner(r, m, b, c)
  BY <1>3 DEF BecameOwner, OwnerOf
<1>5. Unused(r) = Unused(m) \ {b}
  BY <1>4, CachesApart DEF Unused, BecameOwner
<1> QED BY <1>1, <1>3, <1>4, <1>5


LEMMA PageGrown ==
  ASSUME NEW m, NEW me, NEW h, NEW lv, NEW lo, NEW mb, NEW c \in HeaderCaches,
         Working(m, me, h, lv, lo, mb), NEW e \in Room(h, 0),
         NEW r, r = Grown(m, c, InPage(e.addr))
  PROVE  /\ Prepared(r, me, h \cup {e}, lv, lo, mb, c)
         /\ BecameOwner(r, m, InPage(e.addr), c)
<1>1. PICK p, q : p = e.addr /\ q = InPage(p)
  OBVIOUS
<1>2. e \in Extents /\ e.order = 0 /\ p \in Pages /\ \A g \in h : Span(g) \cap Span(e) = {}
  BY <1>1, RoomIs, ExtentIs
<1>3. /\ HeadersPlaced(m, lo) /\ ExtentsHeld(m, me, h) /\ BuffersPlaced(m, me, lv)
      /\ ClassesTold(m, mb) /\ Owned(m)
  BY OwnersOf DEF Working, Arranged
<1>4. q \in Places /\ q \notin BufferSlabs(m)
  <2>1. q \in BufferSlabs(m) => \E k \in Pages, i \in 0 .. headersInSlab - 1 : q = InSlot(InPage(k), i)
    BY <1>3 DEF HeadersPlaced
  <2> QED BY <1>1, <1>2, <2>1, PlacesFinite, PlacesApart
<1>5. q \notin PageSlabs(m)
  <2>1. SUFFICES ASSUME q \in PageSlabs(m) PROVE FALSE
    OBVIOUS
  <2>2. ExtentOf(m, me, q) = e
    <3>1. q[1] = p
      BY <1>1, PlacesApart
    <3> QED BY <1>1, <1>2, <2>1, <3>1, ExtentIs DEF ExtentOf
  <2>3. e \in h
    BY <1>3, <2>1, <2>2 DEF ExtentsHeld
  <2> QED BY <1>2, <2>3, ExtentIs
<1>6. q \in Unused(m)
  BY <1>3, <1>4, <1>5, Kinds
<1>7. /\ Obj!Ready(r, AllCaches, Unused(r), SlotsInUse(m, me, lv, lo), c)
      /\ BecameOwner(r, m, q, c)
  BY <1>1, <1>6, CachesApart, GrownIs DEF Working
<1>8. PageSlabs(r) = PageSlabs(m) \cup {q} /\ BufferSlabs(r) = BufferSlabs(m)
  BY <1>4, <1>7, CachesApart DEF PageSlabs, BufferSlabs, BecameOwner
<1>9. \A s \in BufferSlabs(m) : OwnerOf(r, s) = OwnerOf(m, s)
  BY <1>4, <1>7 DEF BufferSlabs, BecameOwner
<1>10. SlotsInUse(r, me, lv, lo) = SlotsInUse(m, me, lv, lo)
  <2>1. ASSUME NEW s, NEW i PROVE HeaderInUse(r, lo, s, i) <=> HeaderInUse(m, lo, s, i)
    <3>1. InSlot(q, i) \notin BufferSlabs(m) \cup lo
      <4>1. SUFFICES ASSUME InSlot(q, i) \in BufferSlabs(m) \cup lo PROVE FALSE
        OBVIOUS
      <4>2. PICK k \in Pages, j \in 0 .. headersInSlab - 1 :
              InSlot(q, i) = InSlot(InPage(k), j) /\ InPage(k) \in PageSlabs(m)
        BY <1>3, <4>1 DEF HeadersPlaced
      <4> QED BY <1>1, <1>5, <4>2, PlacesApart
    <3> QED BY <1>8, <3>1 DEF HeaderInUse
  <2>2. ASSUME NEW s, NEW i PROVE BufferInUse(r, me, lv, s, i) <=> BufferInUse(m, me, lv, s, i)
    <3>1. s \in BufferSlabs(m) => OwnerOf(r, s) = OwnerOf(m, s)
      BY <1>9
    <3> QED BY <1>8, <3>1 DEF BufferInUse
  <2> QED BY <2>1, <2>2, InUseIs, SamePairs
<1>11. HeadersPlaced(r, lo)
  <2>1. \A s \in PageSlabs(r) : \E k \in Pages : s = InPage(k)
    BY <1>1, <1>2, <1>3, <1>8 DEF HeadersPlaced
  <2> QED BY <1>3, <1>8, <2>1 DEF HeadersPlaced
<1>12. ExtentsHeld(r, me, h \cup {e})
  <2>1. PICK all : all = PageSlabs(m) \cup BufferSlabs(m)
    OBVIOUS
  <2>2. q \notin all /\ PageSlabs(r) \cup BufferSlabs(r) = all \cup {q}
    BY <1>4, <1>5, <1>8, <2>1
  <2>3. /\ h = {ExtentOf(m, me, s) : s \in all}
        /\ \A s, t \in all : s # t => Span(ExtentOf(m, me, s)) \cap Span(ExtentOf(m, me, t)) = {}
        /\ me \in [Places -> Extents \cup {None}]
        /\ \A s \in BufferSlabs(m) : me[s] \in Extents /\ me[s].order = slabOrder(OwnerOf(m, s))
    BY <1>3, <2>1 DEF ExtentsHeld
  <2>4. \A s \in all : ExtentOf(r, me, s) = ExtentOf(m, me, s)
    BY <1>8, <2>1, <2>2 DEF ExtentOf
  <2>5. ExtentOf(r, me, q) = e
    <3>1. q[1] = p /\ q \in PageSlabs(r)
      BY <1>1, <1>8, PlacesApart
    <3> QED BY <1>1, <1>2, <3>1, ExtentIs DEF ExtentOf
  <2>6. h \cup {e} = {ExtentOf(r, me, s) : s \in all \cup {q}}
    BY <2>3, <2>4, <2>5
  <2>7. \A s, t \in all \cup {q} :
          s # t => Span(ExtentOf(r, me, s)) \cap Span(ExtentOf(r, me, t)) = {}
    <3>1. \A s \in all : Span(ExtentOf(r, me, s)) \cap Span(e) = {}
      BY <1>2, <2>3, <2>4
    <3>2. \A s, t \in all :
            s # t => Span(ExtentOf(r, me, s)) \cap Span(ExtentOf(r, me, t)) = {}
      BY <2>3, <2>4
    <3> QED BY <2>5, <3>1, <3>2
  <2>8. \A s \in BufferSlabs(r) : me[s] \in Extents /\ me[s].order = slabOrder(OwnerOf(r, s))
    BY <1>8, <1>9, <2>3
  <2> QED BY <2>2, <2>3, <2>6, <2>7, <2>8 DEF ExtentsHeld
<1>13. BuffersPlaced(r, me, lv)
  BY <1>3, <1>8, <1>9 DEF BuffersPlaced, HasSlot
<1>14. ClassesTold(r, mb)
  BY <1>3, <1>8, <1>9 DEF ClassesTold
<1> QED BY <1>1, <1>7, <1>10, <1>11, <1>12, <1>13, <1>14 DEF Prepared, Arranged

LEMMA SlabGrown ==
  ASSUME NEW m, NEW me, NEW h, NEW lv, NEW lo, NEW mb, NEW c \in BufferCaches,
         NEW q, q \notin lo, Working(m, me, h, lv, lo \cup {q}, mb),
         NEW e \in Room(h, slabOrder(c)), \E i \in Classes : mb[i] = c,
         NEW r, r = Grown(m, c, q), NEW me1, me1 = [me EXCEPT ![q] = e]
  PROVE  Prepared(r, me1, h \cup {e}, lv, lo, mb, c) /\ BecameOwner(r, m, q, c)
<1>1. PICK lo1 : lo1 = lo \cup {q}
  OBVIOUS
<1>2. e \in Extents /\ e.order = slabOrder(c) /\ \A g \in h : Span(g) \cap Span(e) = {}
  BY RoomIs
<1>3. /\ HeadersPlaced(m, lo1) /\ ExtentsHeld(m, me, h) /\ BuffersPlaced(m, me, lv)
      /\ ClassesTold(m, mb) /\ Owned(m)
  BY <1>1, OwnersOf DEF Working, Arranged
<1>4. PICK p \in Pages, n \in 0 .. headersInSlab - 1 : q = InSlot(InPage(p), n) /\ InPage(p) \in PageSlabs(m)
  BY <1>1, <1>3 DEF HeadersPlaced
<1>5. q \in Places /\ q \notin PageSlabs(m) /\ q \notin BufferSlabs(m)
  <2>1. q \in PageSlabs(m) => \E k \in Pages : q = InPage(k)
    BY <1>3 DEF HeadersPlaced
  <2>2. q \notin BufferSlabs(m)
    BY <1>1, <1>3 DEF HeadersPlaced
  <2> QED BY <1>4, <2>1, <2>2, PlacesFinite, PlacesApart
<1>6. q \in Unused(m)
  BY <1>3, <1>5, Kinds
<1>7. /\ Obj!Ready(r, AllCaches, Unused(r), SlotsInUse(m, me, lv, lo1), c)
      /\ BecameOwner(r, m, q, c)
  BY <1>1, <1>6, CachesApart, GrownIs DEF Working
<1>8. PageSlabs(r) = PageSlabs(m) /\ BufferSlabs(r) = BufferSlabs(m) \cup {q}
  BY <1>5, <1>7, CachesApart DEF PageSlabs, BufferSlabs, BecameOwner
<1>9. /\ \A s \in BufferSlabs(m) : OwnerOf(r, s) = OwnerOf(m, s) /\ s # q
      /\ OwnerOf(r, q) = c
  BY <1>5, <1>7 DEF BufferSlabs, BecameOwner
<1>10. /\ me \in [Places -> Extents \cup {None}]
       /\ \A s \in BufferSlabs(m) : me[s] \in Extents /\ me[s].order = slabOrder(OwnerOf(m, s))
  BY <1>3 DEF ExtentsHeld
<1>11. /\ me1 \in [Places -> Extents \cup {None}] /\ me1[q] = e
       /\ \A s \in BufferSlabs(m) : me1[s] = me[s]
  BY <1>2, <1>5, <1>9, <1>10
<1>12. \A s \in BufferSlabs(m) : ExtentOf(m, me, s) = me[s] /\ me[s] \in h
  BY <1>3, Kinds DEF ExtentOf, ExtentsHeld
<1>13. SlotsInUse(r, me1, lv, lo) = SlotsInUse(m, me, lv, lo1)
  <2>1. ASSUME NEW s, NEW i PROVE HeaderInUse(r, lo, s, i) <=> HeaderInUse(m, lo1, s, i)
    BY <1>1, <1>8 DEF HeaderInUse
  <2>2. ASSUME NEW i \in Slots(c), NEW b \in lv PROVE b.addr # Address(e, i, c)
    <3>1. SUFFICES ASSUME b.addr = Address(e, i, c) PROVE FALSE
      OBVIOUS
    <3>2. b.addr \div BLOCK_SIZE = e.addr
      BY <1>2, <3>1, AddressIs
    <3>3. PICK t \in BufferSlabs(m) : \E j \in Slots(OwnerOf(m, t)) : HasSlot(m, me, b, t, j)
      BY <1>3 DEF BuffersPlaced
    <3>4. PICK j \in Slots(OwnerOf(m, t)) : b.addr = Address(me[t], j, OwnerOf(m, t))
      BY <3>3 DEF HasSlot
    <3>5. OwnerOf(m, t) \in BufferCaches
      BY DEF BufferSlabs
    <3>6. b.addr \div BLOCK_SIZE = me[t].addr
      BY <1>10, <3>4, <3>5, AddressIs
    <3>7. e.addr \in Span(e) /\ e.addr \in Span(me[t])
      BY <1>2, <1>10, <3>2, <3>6, ExtentIs
    <3> QED BY <1>2, <1>12, <3>7
  <2>3. ASSUME NEW s, NEW i PROVE BufferInUse(r, me1, lv, s, i) <=> BufferInUse(m, me, lv, s, i)
    <3>1. CASE s = q
      BY <1>5, <1>9, <1>11, <2>2, <3>1 DEF BufferInUse
    <3>2. CASE s # q
      <4>1. s \in BufferSlabs(m) => OwnerOf(r, s) = OwnerOf(m, s) /\ me1[s] = me[s]
        BY <1>9, <1>11
      <4> QED BY <1>8, <3>2, <4>1 DEF BufferInUse
    <3> QED BY <3>1, <3>2
  <2> QED BY ONLY <2>1, <2>3, InUseIs, SamePairs
<1>14. HeadersPlaced(r, lo)
  BY <1>1, <1>3, <1>8 DEF HeadersPlaced
<1>15. ExtentsHeld(r, me1, h \cup {e})
  <2>1. PICK all : all = PageSlabs(m) \cup BufferSlabs(m)
    OBVIOUS
  <2>2. q \notin all /\ PageSlabs(r) \cup BufferSlabs(r) = all \cup {q}
    BY <1>5, <1>8, <2>1
  <2>3. /\ h = {ExtentOf(m, me, s) : s \in all}
        /\ \A s, t \in all : s # t => Span(ExtentOf(m, me, s)) \cap Span(ExtentOf(m, me, t)) = {}
    BY <1>3, <2>1 DEF ExtentsHeld
  <2>4. \A s \in all : ExtentOf(r, me1, s) = ExtentOf(m, me, s)
    BY <1>8, <1>11, <2>1 DEF ExtentOf
  <2>5. ExtentOf(r, me1, q) = e
    BY <1>5, <1>8, <1>11 DEF ExtentOf
  <2>6. h \cup {e} = {ExtentOf(r, me1, s) : s \in all \cup {q}}
    BY <2>3, <2>4, <2>5
  <2>7. \A s, t \in all \cup {q} :
          s # t => Span(ExtentOf(r, me1, s)) \cap Span(ExtentOf(r, me1, t)) = {}
    <3>1. \A s \in all : Span(ExtentOf(r, me1, s)) \cap Span(e) = {}
      BY <1>2, <2>3, <2>4
    <3>2. \A s, t \in all :
            s # t => Span(ExtentOf(r, me1, s)) \cap Span(ExtentOf(r, me1, t)) = {}
      BY <2>3, <2>4
    <3> QED BY <2>5, <3>1, <3>2
  <2>8. \A s \in BufferSlabs(r) : me1[s] \in Extents /\ me1[s].order = slabOrder(OwnerOf(r, s))
    BY <1>2, <1>8, <1>9, <1>10, <1>11
  <2> QED BY <1>11, <2>2, <2>6, <2>7, <2>8 DEF ExtentsHeld
<1>16. BuffersPlaced(r, me1, lv)
  BY <1>3, <1>8, <1>9, <1>11 DEF BuffersPlaced, HasSlot
<1>17. ClassesTold(r, mb)
  BY <1>3, <1>8, <1>9 DEF ClassesTold
<1> QED BY <1>7, <1>13, <1>14, <1>15, <1>16, <1>17 DEF Prepared, Arranged

(* An error is noted in a descriptor.                                      *)
LEMMA ErrorIs ==
  ASSUME NEW m, NEW me, NEW h, NEW lv, NEW lo, NEW mb, Working(m, me, h, lv, lo, mb),
         NEW c \in AllCaches, NEW e \in Errors, NEW n, n = [m EXCEPT !.cache[c].error = e]
  PROVE  Working(n, me, h, lv, lo, mb)
<1>1. PICK cr, av, use : cr = AllCaches /\ av = Unused(m) /\ use = SlotsInUse(m, me, lv, lo)
  OBVIOUS
<1>2. c \in AllCaches /\ e \in Obj!Errors /\ Obj!Consistent(m, cr, av, use) /\ Obj!ErrorNoted(n, m, c, e)
  BY <1>1, SameData DEF Working, Obj!ErrorNoted
<1>3. Obj!Consistent(n, cr, av, use) /\ n.slab = m.slab
  BY ONLY <1>2, ObjAssumption, Obj!ErrorSet
<1>4. SameOwner(n, m)
  BY <1>3 DEF SameOwner, OwnerOf
<1>5. /\ Unused(n) = Unused(m) /\ SlotsInUse(n, me, lv, lo) = SlotsInUse(m, me, lv, lo)
      /\ Arranged(n, me, h, lv, lo, mb)
  BY <1>4, SameOwners DEF Working
<1> QED BY <1>1, <1>3, <1>5 DEF Working

(* A buffer is given back.                                                 *)
LEMMA PutIs ==
  ASSUME NEW m, NEW me, NEW h, NEW lv, NEW lo, NEW mb, Working(m, me, h, lv, lo, mb),
         NEW b \in lv, NEW s \in BufferSlabs(m), NEW i \in Slots(OwnerOf(m, s)),
         HasSlot(m, me, b, s, i), NEW n, n = linkSlot(updateSlab(m, s), s, i)
  PROVE  Working(n, me, h, lv \ {b}, lo, mb)
<1>1. PICK cr, av, use : cr = AllCaches /\ av = Unused(m) /\ use = SlotsInUse(m, me, lv, lo)
  OBVIOUS
<1>2. PICK a : a = b.addr /\ a = Address(me[s], i, OwnerOf(m, s))
  BY DEF HasSlot
<1>3. Has(use, s, i)
  BY <1>1, <1>2, InUseIs DEF BufferInUse
<1>4. Obj!Consistent(m, cr, av, use) /\ <<s, i>> \in use /\ n = Obj!linkSlot(Obj!updateSlab(m, s), s, i)
  BY <1>1, <1>3, SameCalls DEF Working, Has
<1>5. /\ Obj!Consistent(n, cr, av, use \ {<<s, i>>})
      /\ \A q \in Places : n.slab[q].owner = m.slab[q].owner
  BY ONLY <1>4, ObjAssumption, Obj!PutKeeps
<1>6. Obj!Consistent(n, cr, av, Minus(use, s, i)) /\ SameOwner(n, m)
  BY ONLY <1>5 DEF Minus, SameOwner, OwnerOf
<1>7. ExtentsHeld(m, me, h) /\ BuffersPlaced(m, me, lv)
  BY DEF Working, Arranged
<1>8. \A t \in BufferSlabs(m) : \A j \in Slots(OwnerOf(m, t)) :
        a = Address(me[t], j, OwnerOf(m, t)) => t = s /\ j = i
  <2>1. \A t \in BufferSlabs(m) : \A j \in Slots(OwnerOf(m, t)) :
          Address(me[s], i, OwnerOf(m, s)) = Address(me[t], j, OwnerOf(m, t)) => t = s /\ j = i
    BY ONLY <1>7, s \in BufferSlabs(m), i \in Slots(OwnerOf(m, s)), SlabOfAddress
  <2> QED BY <1>2, <2>1
<1>9. \A d \in lv : d.addr = a => d = b
  BY <1>2, <1>7 DEF BuffersPlaced
<1>10. PICK lv1 : lv1 = lv \ {b}
  OBVIOUS
<1>11. SlotsInUse(m, me, lv1, lo) = Minus(use, s, i)
  <2>1. ASSUME NEW t, NEW j
        PROVE  BufferInUse(m, me, lv1, t, j) <=> BufferInUse(m, me, lv, t, j) /\ ~(t = s /\ j = i)
    BY <1>2, <1>8, <1>9, <1>10 DEF BufferInUse
  <2>2. ASSUME NEW t, NEW j
        PROVE  HeaderInUse(m, lo, t, j) => ~(t = s /\ j = i)
    BY Kinds DEF HeaderInUse
  <2>3. \A t, j : Has(SlotsInUse(m, me, lv1, lo), t, j) <=> Has(use, t, j) /\ ~(t = s /\ j = i)
    BY <1>1, <2>1, <2>2, InUseIs
  <2> QED BY <1>1, <2>3, InUseIs, MinusIs
<1>12. Arranged(m, me, h, lv1, lo, mb)
  BY <1>10 DEF Working, Arranged, BuffersPlaced
<1>13. /\ Unused(n) = Unused(m) /\ SlotsInUse(n, me, lv1, lo) = Minus(use, s, i)
       /\ Arranged(n, me, h, lv1, lo, mb)
  BY <1>6, <1>11, <1>12, SameOwners
<1> QED BY <1>1, <1>6, <1>10, <1>13 DEF Working

(* The memory of a class gets its cache.                                   *)
CacheOf(mb, x)  == IF mb[getPowerOfTwo(x)] = None THEN bufferCache(x) ELSE mb[getPowerOfTwo(x)]
Opened(mb1, mb, x) == mb1 = [mb EXCEPT ![getPowerOfTwo(x)] = CacheOf(mb, x)]

LEMMA ClassOpened ==
  ASSUME NEW m, NEW me, NEW h, NEW lv, NEW lo, NEW mb, Working(m, me, h, lv, lo, mb),
         NEW x \in Requests \cap Served, NEW c, c = CacheOf(mb, x), NEW mb1, Opened(mb1, mb, x)
  PROVE  /\ c \in BufferCaches /\ x <= slotSize(c) /\ \E k \in Classes : mb1[k] = c
         /\ Working(m, me, h, lv, lo, mb1)
<1>1. PICK k : k = getPowerOfTwo(x)
  OBVIOUS
<1>2. c = (IF mb[k] = None THEN bufferCache(x) ELSE mb[k]) /\ mb1 = [mb EXCEPT ![k] = c]
  BY <1>1 DEF CacheOf, Opened
<1>3. ClassesTold(m, mb)
  BY DEF Working, Arranged
<1>4. k \in Classes /\ x <= 2^(k + MIN_BUFF_ORDER)
  BY <1>1, ClassIs
<1>5. c \in BufferCaches /\ getPowerOfTwo(c[2]) = k
  <2>1. CASE mb[k] = None
    <3>1. c = bufferCache(x) /\ c[2] = x
      BY <1>2, <2>1 DEF bufferCache
    <3> QED BY <1>1, <3>1 DEF BufferCaches
  <2>2. CASE mb[k] # None
    BY <1>3, <1>4, <1>2, <2>2 DEF ClassesTold
  <2> QED BY <2>1, <2>2
<1>6. x <= slotSize(c)
  BY <1>4, <1>5 DEF slotSize
<1>7. mb1 \in [Classes -> BufferCaches \cup {None}] /\ mb1[k] = c
  BY <1>3, <1>4, <1>5, <1>2 DEF ClassesTold
<1>8. ClassesTold(m, mb1)
  <2>1. ASSUME NEW j \in Classes, mb1[j] # None PROVE getPowerOfTwo(mb1[j][2]) = j
    BY <1>3, <1>4, <1>5, <1>7, <1>2, <2>1 DEF ClassesTold
  <2>2. ASSUME NEW s \in BufferSlabs(m) PROVE \E j \in Classes : mb1[j] = OwnerOf(m, s)
    <3>1. PICK j \in Classes : mb[j] = OwnerOf(m, s)
      BY <1>3 DEF ClassesTold
    <3>2. mb[j] # None
      BY <3>1, CachesApart DEF BufferSlabs
    <3>3. j = k => mb1[j] = mb[j]
      BY <1>7, <1>2, <3>2
    <3>4. j # k => mb1[j] = mb[j]
      BY <1>3, <1>2, <3>1 DEF ClassesTold
    <3> QED BY <3>1, <3>3, <3>4
  <2> QED BY <1>7, <2>1, <2>2 DEF ClassesTold
<1> QED BY <1>4, <1>5, <1>6, <1>7, <1>8 DEF Working, Arranged

-----------------------------------------------------------------------------
(* The steps.                                                              *)
Here == Working(Now, mem, held, live, lost, memoryBuffers)

(* A memory is its headers and descriptors.                                *)
LEMMA BecomeIs ==
  ASSUME NEW n, NEW av, NEW use, Obj!Consistent(n, AllCaches, av, use), Become(n)
  PROVE  Now' = n
<1>1. n \in Obj!Memories
  BY DEF Obj!Consistent, Obj!Listed
<1>2. n = [slab |-> n.slab, cache |-> n.cache]
  BY <1>1 DEF Obj!Memories
<1> QED BY <1>2 DEF Become, Now

LEMMA NowIs ==
  /\ Now.slab = slab /\ Now.cache = cache
  /\ \A s : OwnerOf(Now, s) = slab[s].owner
  /\ \A c, g : SlabsOn(c, g) = UNION {Walk(Now, Now.cache[c].list[k]) : k \in g}
<1>1. Now.slab = slab /\ Now.cache = cache
  BY DEF Now
<1> QED BY <1>1 DEF OwnerOf, SlabsOn

(* A buffer of a size was handed out.                                      *)
Handed(x) ==
  \E a : LET b == [addr |-> a, size |-> x] IN b \notin live /\ live' = live \cup {b}

LEMMA HandOutIs ==
  ASSUME NEW r, NEW me, NEW h, NEW lo, NEW mb, NEW c \in BufferCaches,
         Prepared(r, me, h, live, lo, mb, c), NEW x \in Requests \cap Served, x <= slotSize(c),
         HandOut(r, me, c, x), held' = h, lost' = lo, memoryBuffers' = mb
  PROVE  Here' /\ Handed(x)
<1>1. PICK q : q = r.cache[c].list["PARTIAL"]
  OBVIOUS
<1>2. PICK i : i = r.slab[q].free
  OBVIOUS
<1>3. PICK n : n = takeFromPartial(r, c)
  OBVIOUS
<1>4. PICK b : b = [addr |-> Address(me[q], i, c), size |-> x]
  OBVIOUS
<1>5. Took(r, Unused(r), SlotsInUse(r, me, live, lo), c, q, i, n) /\ Arranged(r, me, h, live, lo, mb)
  BY <1>1, <1>2, <1>3 DEF Took, Prepared
<1>6. Working(n, me, h, live \cup {b}, lo, mb) /\ \A d \in live : d.addr # b.addr
  BY <1>4, <1>5, BufferTaken, SMTT(20)
<1>7. Become(n) /\ mem' = me /\ live' = live \cup {b}
  BY <1>1, <1>2, <1>3, <1>4 DEF HandOut
<1>8. Now' = n
  BY <1>6, <1>7, BecomeIs DEF Working
<1>9. Handed(x)
  BY <1>4, <1>6, <1>7 DEF Handed
<1> QED BY <1>6, <1>7, <1>8, <1>9 DEF Here

(* What createBufferSlab may start from: the header it will take.          *)
LEMMA WithHeaderIs ==
  ASSUME NEW mb, NEW d \in HeaderCaches,
         Working(Now, mem, held, live, lost, mb), NEW got \in WithHeader(d)
  PROVE  Prepared(got.m, mem, got.held, live, lost, mb, d)
<1>1. PICK m, h : m = Now /\ h = held
  OBVIOUS
<1>2. CASE NoSlabLeft(m, d)
  <2>1. PICK e \in Room(h, 0) :
          got = [m |-> Grown(m, d, InPage(e.addr)), held |-> h \cup {e}]
    BY <1>1, <1>2 DEF WithHeader
  <2>2. got.m = Grown(m, d, InPage(e.addr)) /\ got.held = h \cup {e}
    BY <2>1
  <2> QED BY <1>1, <2>2, PageGrown
<1>3. CASE ~NoSlabLeft(m, d)
  <2>1. got = [m |-> Stocked(m, d), held |-> h]
    BY <1>1, <1>3 DEF WithHeader
  <2>2. got.m = Stocked(m, d) /\ got.held = h
    BY <2>1
  <2> QED BY <1>1, <1>3, <2>2, StockedIs, CachesApart
<1> QED BY <1>2, <1>3

LEMMA CreateKeeps ==
  ASSUME NEW mb, Working(Now, mem, held, live, lost, mb), NEW c \in BufferCaches,
         \E k \in Classes : mb[k] = c, NEW x \in Requests \cap Served, x <= slotSize(c),
         createBufferSlab(c, x), memoryBuffers' = mb
  PROVE  Here' /\ (Handed(x) \/ live' = live)
<1>1. PICK d : d = headerCache(getPowerOfTwo(x))
  OBVIOUS
<1>2. d \in HeaderCaches
  BY <1>1, ClassIs DEF HeaderCaches
<1>3. PICK got \in WithHeader(d) :
        LET first == got.m.cache[d].list["PARTIAL"]
            s     == InSlot(first, got.m.slab[first].free)
            taken == takeFromPartial(got.m, d)
            space == Room(got.held, slabOrder(c))
        IN  \/ \E e \in space :
                 /\ held' = got.held \cup {e}
                 /\ HandOut(Grown(taken, c, s), [mem EXCEPT ![s] = e], c, x)
                 /\ UNCHANGED lost
            \/ /\ space = {}
               /\ held' = got.held
               /\ lost' = lost \cup {s}
               /\ Become([taken EXCEPT !.cache[c].error = -1])
               /\ UNCHANGED <<mem, live>>
  BY <1>1 DEF createBufferSlab
<1>4. PICK r, h : r = got.m /\ h = got.held
  OBVIOUS
<1>5. PICK q : q = r.cache[d].list["PARTIAL"]
  OBVIOUS
<1>6. PICK i : i = r.slab[q].free
  OBVIOUS
<1>7. PICK n : n = takeFromPartial(r, d)
  OBVIOUS
<1>8. PICK s : s = InSlot(q, i)
  BY ONLY ZenonT(40)
<1>9. \/ \E e \in Room(h, slabOrder(c)) :
           /\ held' = h \cup {e}
           /\ HandOut(Grown(n, c, s), [mem EXCEPT ![s] = e], c, x)
           /\ lost' = lost
      \/ /\ held' = h /\ lost' = lost \cup {s}
         /\ Become([n EXCEPT !.cache[c].error = -1])
         /\ mem' = mem /\ live' = live
  BY <1>3, <1>4, <1>5, <1>6, <1>7, <1>8
<1>10. Prepared(r, mem, h, live, lost, mb, d)
  BY <1>2, <1>4, WithHeaderIs
<1>11. Took(r, Unused(r), SlotsInUse(r, mem, live, lost), d, q, i, n)
       /\ Arranged(r, mem, h, live, lost, mb)
  BY <1>5, <1>6, <1>7, <1>10 DEF Took, Prepared
<1>12. Working(n, mem, h, live, lost \cup {s}, mb) /\ s \notin lost
  BY ONLY <1>2, <1>8, <1>11, HeaderTaken
<1>13. ASSUME NEW e \in Room(h, slabOrder(c)), held' = h \cup {e}, lost' = lost,
              HandOut(Grown(n, c, s), [mem EXCEPT ![s] = e], c, x)
       PROVE  Here' /\ (Handed(x) \/ live' = live)
  <2>1. PICK r1, me1 : r1 = Grown(n, c, s) /\ me1 = [mem EXCEPT ![s] = e]
    OBVIOUS
  <2>2. Prepared(r1, me1, h \cup {e}, live, lost, mb, c)
    BY <1>12, <2>1, SlabGrown
  <2>3. HandOut(r1, me1, c, x)
    BY <1>13, <2>1
  <2>4. PICK h1 : h1 = h \cup {e}
    OBVIOUS
  <2> QED BY <1>13, <2>2, <2>3, <2>4, HandOutIs
<1>14. ASSUME held' = h, lost' = lost \cup {s}, Become([n EXCEPT !.cache[c].error = -1]),
              mem' = mem, live' = live
       PROVE  Here' /\ (Handed(x) \/ live' = live)
  <2>1. PICK n1 : n1 = [n EXCEPT !.cache[c].error = -1]
    OBVIOUS
  <2>2. c \in AllCaches /\ -1 \in Errors
    BY CachesApart DEF Errors
  <2>3. Working(n1, mem, h, live, lost \cup {s}, mb)
    BY <1>12, <2>1, <2>2, ErrorIs
  <2>4. Now' = n1
    BY <1>14, <2>1, <2>3, BecomeIs DEF Working
  <2> QED BY <1>14, <2>3, <2>4 DEF Here
<1> QED BY <1>9, <1>13, <1>14

LEMMA KmallocKeeps ==
  ASSUME BuffersIInv, ~finalized, NEW x \in Requests, kmalloc(x)
  PROVE  BuffersIInv' /\ Here' /\ (Handed(x) \/ live' = live)
<1>1. x \in Requests \cap Served
  BY DEF kmalloc
<1>2. PICK c : c = CacheOf(memoryBuffers, x)
  OBVIOUS
<1>3. PICK mb : mb = memoryBuffers'
  OBVIOUS
<1>4. Opened(mb, memoryBuffers, x)
  BY <1>3 DEF kmalloc, Opened, CacheOf
<1>5. memoryBuffers' = mb /\ finalized' = finalized
      /\ (fromSlab(c, x) \/ fromNewSlab(c, x) \/ noHeader(c, x))
  BY <1>2, <1>3 DEF kmalloc, CacheOf
<1>6. Working(Now, mem, held, live, lost, memoryBuffers)
  BY DEF BuffersIInv
<1>7. /\ c \in BufferCaches /\ x <= slotSize(c) /\ \E k \in Classes : mb[k] = c
      /\ Working(Now, mem, held, live, lost, mb)
  BY <1>1, <1>2, <1>4, <1>6, ClassOpened
<1>8. ASSUME fromSlab(c, x) PROVE Here' /\ (Handed(x) \/ live' = live)
  <2>1. PICK r : r = Stocked(Now, c)
    OBVIOUS
  <2>2. Prepared(r, mem, held, live, lost, mb, c)
    BY <1>7, <1>8, <2>1, CachesApart, StockedIs DEF fromSlab
  <2>3. HandOut(r, mem, c, x) /\ held' = held /\ lost' = lost
    BY <1>8, <2>1 DEF fromSlab
  <2> QED BY <1>1, <1>5, <1>7, <2>2, <2>3, HandOutIs
<1>9. ASSUME fromNewSlab(c, x) PROVE Here' /\ (Handed(x) \/ live' = live)
  <2>1. createBufferSlab(c, x)
    BY <1>9 DEF fromNewSlab
  <2> QED BY <1>1, <1>5, <1>7, <2>1, CreateKeeps
<1>10. ASSUME noHeader(c, x) PROVE Here' /\ (Handed(x) \/ live' = live)
  <2>1. PICK d : d = headerCache(getPowerOfTwo(x))
    OBVIOUS
  <2>2. PICK n1 : n1 = [Now EXCEPT !.cache[d].error = -2]
    OBVIOUS
  <2>3. PICK n2 : n2 = [n1 EXCEPT !.cache[c].error = -1]
    OBVIOUS
  <2>4. c \in AllCaches /\ d \in AllCaches /\ -1 \in Errors /\ -2 \in Errors
    BY <1>1, <1>7, <2>1, CachesApart, ClassIs DEF Errors, HeaderCaches
  <2>5. Working(n1, mem, held, live, lost, mb)
    BY <1>7, <2>2, <2>4, ErrorIs
  <2>6. Working(n2, mem, held, live, lost, mb)
    BY <2>3, <2>4, <2>5, ErrorIs
  <2>7. Become(n2) /\ mem' = mem /\ held' = held /\ live' = live /\ lost' = lost
    BY <1>10, <2>1, <2>2, <2>3 DEF noHeader
  <2>8. Now' = n2
    BY <2>6, <2>7, BecomeIs DEF Working
  <2> QED BY <1>5, <2>6, <2>7, <2>8 DEF Here
<1>11. Here' /\ (Handed(x) \/ live' = live)
  BY <1>5, <1>8, <1>9, <1>10
<1>12. lost' \subseteq Places
  <2>1. HeadersPlaced(Now', lost')
    BY <1>11 DEF Here, Working, Arranged
  <2>2. \A q \in lost' : \E p \in Pages, i \in 0 .. headersInSlab - 1 : q = InSlot(InPage(p), i)
    BY <2>1 DEF HeadersPlaced
  <2> QED BY <2>2, PlacesFinite
<1> QED BY <1>5, <1>11, <1>12 DEF BuffersIInv, Here

(* The walks meet the slabs of a cache, by their groups.                   *)
LEMMA SlabsMet ==
  ASSUME Here, NEW c \in AllCaches
  PROVE  /\ SlabsOn(c, Groups) = {s \in Places : OwnerOf(Now, s) = c}
         /\ SlabsOn(c, Searched) =
              {s \in Places : OwnerOf(Now, s) = c /\ slab[s].group \in Searched}
<1>1. PICK m : m = Now /\ m.slab = slab /\ m.cache = cache
  BY NowIs
<1>2. /\ m \in Obj!Memories /\ Obj!Lists(m, Places)
      /\ \A s \in Places : m.slab[s].owner # None => m.slab[s].owner \in AllCaches
  BY <1>1 DEF Here, Working, Obj!Consistent, Obj!Listed
<1>3. \A g \in Obj!Groups : Obj!Walk(m, m.cache[c].list[g]) = Obj!Grouped(m, c, g, Places)
  BY ONLY <1>2, c \in AllCaches, ObjAssumption, Obj!WalkMeetsGroup
<1>4. \A g \in Groups : Walk(Now, cache[c].list[g]) = {s \in Places : OwnerOf(Now, s) = c /\ slab[s].group = g}
  BY <1>1, <1>3, SameData, SameWalk DEF Obj!Grouped, OwnerOf
<1>5. \A s \in Places : slab[s].group \in Groups
  BY <1>1, <1>2, SameData DEF Obj!Memories, Obj!AnyHeader
<1>6. Searched \subseteq Groups
  BY DEF Searched, Groups
<1>7. SlabsOn(c, Groups) = {s \in Places : OwnerOf(Now, s) = c}
  BY <1>4, <1>5 DEF SlabsOn
<1>8. SlabsOn(c, Searched) = {s \in Places : OwnerOf(Now, s) = c /\ slab[s].group \in Searched}
  BY <1>4, <1>6 DEF SlabsOn
<1> QED BY <1>7, <1>8

LEMMA SlabsAre ==
  ASSUME Here
  PROVE  /\ SlabsOfBuffers = BufferSlabs(Now) /\ HeaderSlabs = PageSlabs(Now)
         /\ UNION {SlabsOn(c, Searched) : c \in Open} =
              {s \in BufferSlabs(Now) : slab[s].group \in Searched}
<1>1. ClassesTold(Now, memoryBuffers)
  BY DEF Here, Working, Arranged
<1>2. Open \subseteq BufferCaches /\ \A s \in BufferSlabs(Now) : OwnerOf(Now, s) \in Open
  BY <1>1, CachesApart DEF ClassesTold, Open, BufferSlabs
<1>3. \A c \in Open : /\ SlabsOn(c, Groups) = {s \in Places : OwnerOf(Now, s) = c}
                      /\ SlabsOn(c, Searched) =
                           {s \in Places : OwnerOf(Now, s) = c /\ slab[s].group \in Searched}
  BY <1>2, SlabsMet, CachesApart
<1>4. SlabsOfBuffers = BufferSlabs(Now)
  BY <1>2, <1>3 DEF SlabsOfBuffers, BufferSlabs
<1>5. UNION {SlabsOn(c, Searched) : c \in Open} =
              {s \in BufferSlabs(Now) : slab[s].group \in Searched}
  BY <1>2, <1>3 DEF BufferSlabs
<1>6. HeaderSlabs = PageSlabs(Now)
  <2>1. \A c \in HeaderCaches : SlabsOn(c, Groups) = {s \in Places : OwnerOf(Now, s) = c}
    BY SlabsMet, CachesApart
  <2> QED BY <2>1 DEF HeaderSlabs, PageSlabs
<1> QED BY <1>4, <1>5, <1>6

(* putBuffer finds the slab of a buffer, and its slot.                     *)
LEMMA FoundIs ==
  ASSUME Here, NEW b \in live
  PROVE  \E s \in BufferSlabs(Now) : \E i \in Slots(OwnerOf(Now, s)) :
           /\ HasSlot(Now, mem, b, s, i) /\ HeadersOf(b.addr) = {s} /\ IndexIn(s, b.addr) = i
<1>1. ExtentsHeld(Now, mem, held) /\ BuffersPlaced(Now, mem, live)
  BY DEF Here, Working, Arranged
<1>2. PICK s \in BufferSlabs(Now) : \E i \in Slots(OwnerOf(Now, s)) : HasSlot(Now, mem, b, s, i)
  BY <1>1 DEF BuffersPlaced
<1>3. PICK c : c = OwnerOf(Now, s)
  OBVIOUS
<1>4. PICK i \in Slots(c) : HasSlot(Now, mem, b, s, i)
  BY <1>2, <1>3
<1>5. PICK a : a = b.addr
  OBVIOUS
<1>6. Address(mem[s], i, OwnerOf(Now, s)) = a
  BY <1>3, <1>4, <1>5 DEF HasSlot
<1>7. /\ a \div BLOCK_SIZE = mem[s].addr
      /\ (a - mem[s].addr * BLOCK_SIZE) \div slotSize(c) = i
      /\ \A t \in BufferSlabs(Now) : mem[t].addr = mem[s].addr => t = s
  BY ONLY <1>1, <1>3, <1>6, i \in Slots(c), s \in BufferSlabs(Now), SlabOfAddress
<1>8. slab[s].group \in Searched
  <2>1. PICK m, use : m = Now /\ use = SlotsInUse(Now, mem, live, lost)
    OBVIOUS
  <2>2. Has(use, s, i)
    BY <1>2, <1>3, <1>5, <1>6, <2>1, InUseIs DEF BufferInUse
  <2>3. s \in Places /\ m.slab[s].owner = c /\ c # None
    BY <1>2, <1>3, <2>1, CachesApart DEF BufferSlabs, OwnerOf
  <2>4. Obj!Fits(m, use, s)
    BY <2>1, <2>3 DEF Here, Working, Obj!Consistent
  <2>5. i \in Obj!Slots(m.slab[s].owner) /\ i \notin Obj!FreeOf(m, use, s)
    BY <1>4, <2>2, <2>3, SameData DEF Obj!FreeOf, Has
  <2>6. m.slab[s].group \in {"FULL", "PARTIAL"}
    BY <2>4, <2>5 DEF Obj!Fits
  <2> QED BY <2>1, <2>6, NowIs DEF Searched
<1>9. HeadersOf(a) = {s}
  BY <1>2, <1>7, <1>8, SlabsAre DEF HeadersOf
<1>10. IndexIn(s, a) = i
  BY <1>3, <1>7, NowIs DEF IndexIn
<1> QED BY <1>2, <1>3, <1>4, <1>5, <1>9, <1>10

LEMMA KfreeKeeps ==
  ASSUME BuffersIInv, ~finalized, NEW b \in live, kfree(b)
  PROVE  BuffersIInv'
<1>1. Here
  BY DEF BuffersIInv, Here
<1>2. PICK s \in BufferSlabs(Now) : \E j \in Slots(OwnerOf(Now, s)) :
        HasSlot(Now, mem, b, s, j) /\ HeadersOf(b.addr) = {s} /\ IndexIn(s, b.addr) = j
  BY <1>1, FoundIs
<1>3. PICK i \in Slots(OwnerOf(Now, s)) :
        HasSlot(Now, mem, b, s, i) /\ HeadersOf(b.addr) = {s} /\ IndexIn(s, b.addr) = i
  BY <1>2
<1>4. PICK n : n = linkSlot(updateSlab(Now, s), s, i)
  OBVIOUS
<1>5. /\ Become(n) /\ live' = live \ {b} /\ mem' = mem /\ held' = held /\ lost' = lost
      /\ memoryBuffers' = memoryBuffers /\ finalized' = finalized
  BY <1>3, <1>4 DEF kfree
<1>6. Working(n, mem, held, live \ {b}, lost, memoryBuffers)
  BY <1>1, <1>3, <1>4, PutIs DEF Here
<1>7. Now' = n
  BY <1>5, <1>6, BecomeIs DEF Working
<1> QED BY <1>5, <1>6, <1>7 DEF BuffersIInv

(* A memory without slabs.                                                 *)
EmptyMemory == [slab |-> [s \in Places |-> BlankSlab], cache |-> [c \in AllCaches |-> NewCache]]

LEMMA EmptyIs ==
  /\ Obj!Consistent(EmptyMemory, AllCaches, Places, {})
  /\ PageSlabs(EmptyMemory) = {} /\ BufferSlabs(EmptyMemory) = {} /\ Unused(EmptyMemory) = Places
<1>1. PICK m : m = EmptyMemory
  OBVIOUS
<1>2. m = [slab |-> [s \in Places |-> Obj!BlankSlab], cache |-> [c \in AllCaches |-> Obj!NewCache]]
  BY <1>1, SameData DEF EmptyMemory
<1>3. PICK cr : cr = AllCaches
  OBVIOUS
<1>4. Obj!Consistent(m, cr, Places, {})
  BY ONLY <1>2, <1>3, ObjAssumption, Obj!NewMemory
<1>5. \A s \in Places : OwnerOf(m, s) = None
  BY <1>2 DEF OwnerOf, Obj!BlankSlab
<1>6. PageSlabs(m) = {} /\ BufferSlabs(m) = {} /\ Unused(m) = Places
  BY <1>5, CachesApart DEF PageSlabs, BufferSlabs, Unused
<1> QED BY <1>1, <1>3, <1>4, <1>6

LEMMA BuffersInitHolds == BuffersInit => BuffersIInv
<1>1. SUFFICES ASSUME BuffersInit PROVE BuffersIInv
  OBVIOUS
<1>2. PICK m : m = Now
  OBVIOUS
<1>3. m = EmptyMemory
  BY <1>1, <1>2 DEF BuffersInit, Now, EmptyMemory
<1>4. /\ mem \in [Places -> Extents \cup {None}] /\ held = {} /\ live = {} /\ lost = {}
      /\ memoryBuffers = [i \in Classes |-> None] /\ finalized = FALSE
  BY <1>1 DEF BuffersInit, PoolInit
<1>5. SlotsInUse(m, mem, live, lost) = {}
  <2>1. \A s, i : ~Has(SlotsInUse(m, mem, live, lost), s, i)
    BY <1>3, EmptyIs, InUseIs DEF HeaderInUse, BufferInUse
  <2>2. Pairs({}) /\ \A s, i : ~Has({}, s, i)
    BY DEF Pairs, Has
  <2> QED BY <2>1, <2>2, InUseIs, SamePairs
<1>6. Obj!Consistent(m, AllCaches, Unused(m), SlotsInUse(m, mem, live, lost))
  BY <1>3, <1>5, EmptyIs
<1>7. Arranged(m, mem, held, live, lost, memoryBuffers)
  <2>1. HeadersPlaced(m, lost)
    BY <1>3, <1>4, EmptyIs DEF HeadersPlaced
  <2>2. ExtentsHeld(m, mem, held)
    BY <1>3, <1>4, EmptyIs DEF ExtentsHeld
  <2>3. BuffersPlaced(m, mem, live)
    BY <1>4 DEF BuffersPlaced
  <2>4. ClassesTold(m, memoryBuffers)
    BY <1>3, <1>4, EmptyIs DEF ClassesTold
  <2> QED BY <2>1, <2>2, <2>3, <2>4 DEF Arranged
<1> QED BY <1>2, <1>4, <1>6, <1>7 DEF BuffersIInv, Working

LEMMA FinalizeKeeps ==
  ASSUME BuffersIInv, ~finalized, SlabFinalize
  PROVE  BuffersIInv'
<1>1. Here /\ lost \subseteq Places
  BY DEF BuffersIInv, Here
<1>2. /\ finalized' = TRUE /\ held' = held \ Finalized.extents
      /\ slab' = [s \in Places |-> BlankSlab] /\ mem' = [s \in Places |-> None]
      /\ cache' = [c \in DOMAIN cache |-> NewCache] /\ live' = {}
      /\ memoryBuffers' = memoryBuffers /\ lost' = lost
  BY DEF SlabFinalize
<1>3. DOMAIN cache = AllCaches
  <2>1. Now \in Obj!Memories
    BY <1>1 DEF Here, Working, Obj!Consistent, Obj!Listed
  <2>2. Now.cache \in [AllCaches -> Obj!Descriptor]
    BY <2>1 DEF Obj!Memories
  <2> QED BY <2>2, NowIs
<1>4. Now' = EmptyMemory
  BY <1>2, <1>3 DEF Now, EmptyMemory
<1>5. held' = {}
  <2>1. PICK B, P : B = BufferSlabs(Now) /\ P = PageSlabs(Now)
    OBVIOUS
  <2>2. SlabsOfBuffers = B /\ UNION {SlabsOn(c, Groups) : c \in HeaderCaches} = P
    BY <1>1, <2>1, SlabsAre DEF HeaderSlabs
  <2>3. Finalized.extents = {mem[s] : s \in B} \cup {[addr |-> s[1], order |-> 0] : s \in P}
    BY <2>2 DEF Finalized
  <2>4. held = {ExtentOf(Now, mem, s) : s \in P \cup B}
    BY <1>1, <2>1 DEF Here, Working, Arranged, ExtentsHeld
  <2>5. /\ \A s \in B : ExtentOf(Now, mem, s) = mem[s]
        /\ \A s \in P : ExtentOf(Now, mem, s) = [addr |-> s[1], order |-> 0]
    BY <2>1, Kinds DEF ExtentOf
  <2>6. held \subseteq Finalized.extents
    BY <2>3, <2>4, <2>5
  <2> QED BY <1>2, <2>6
<1>6. ClassesTold(Now', memoryBuffers')
  <2>1. ClassesTold(Now, memoryBuffers)
    BY <1>1 DEF Here, Working, Arranged
  <2> QED BY <1>2, <1>4, <2>1, EmptyIs DEF ClassesTold
<1>7. mem' \in [Places -> Extents \cup {None}]
  BY <1>2
<1> QED BY <1>1, <1>2, <1>4, <1>5, <1>6, <1>7 DEF BuffersIInv, EmptyMemory

LEMMA BuffersSame ==
  ASSUME BuffersIInv, UNCHANGED bufferVars
  PROVE  BuffersIInv'
<1>1. Now' = Now
  BY DEF bufferVars, Now
<1>2. /\ finalized' = finalized /\ lost' = lost /\ mem' = mem /\ held' = held /\ live' = live
      /\ memoryBuffers' = memoryBuffers
  BY DEF bufferVars
<1> QED BY <1>1, <1>2 DEF BuffersIInv

LEMMA BuffersNextKeeps == BuffersIInv /\ [BuffersNext]_bufferVars => BuffersIInv'
<1>1. SUFFICES ASSUME BuffersIInv, [BuffersNext]_bufferVars PROVE BuffersIInv'
  OBVIOUS
<1>2. CASE UNCHANGED bufferVars
  BY <1>1, <1>2, BuffersSame
<1>3. ASSUME NEW size \in Requests, ~finalized, kmalloc(size) PROVE BuffersIInv'
  BY <1>1, <1>3, KmallocKeeps
<1>4. ASSUME NEW size \in Requests, kmallocRefused(size) PROVE BuffersIInv'
  BY <1>1, <1>4, BuffersSame DEF kmallocRefused
<1>5. ASSUME NEW b \in live, ~finalized, kfree(b) PROVE BuffersIInv'
  BY <1>1, <1>5, KfreeKeeps
<1>6. ASSUME NEW p \in Pages, kfreeRefused(p * BLOCK_SIZE) PROVE BuffersIInv'
  BY <1>1, <1>6, BuffersSame DEF kfreeRefused
<1>7. ASSUME ~finalized, SlabFinalize PROVE BuffersIInv'
  BY <1>1, <1>7, FinalizeKeeps
<1> QED BY <1>1, <1>2, <1>3, <1>4, <1>5, <1>6, <1>7 DEF BuffersNext

(* Every slab has an extent of its own, the headers in use are those of    *)
(* the slabs and those that were lost, and each buffer has a slot: for any *)
(* sizes of pages, slots and buffers (cacheAlloc, createBufferSlab,        *)
(* putBuffer, SlabFinalize).                                               *)
THEOREM BuffersInvariant == BuffersSpec => []BuffersIInv
<1>1. BuffersInit => BuffersIInv
  BY BuffersInitHolds
<1>2. BuffersIInv /\ [BuffersNext]_bufferVars => BuffersIInv'
  BY BuffersNextKeeps
<1> QED BY <1>1, <1>2, PTL DEF BuffersSpec

-----------------------------------------------------------------------------
(* The slots that a walk along the free list meets are those of the chain. *)
MetFrom(free, link) ==
  LET met[n \in Nat] ==
        IF n = 0 THEN {free} \ {End}
        ELSE LET before == met[n - 1]
             IN  before \cup ({link[i] : i \in before} \ {End})
  IN  met

LEMMA SameCount == \A S : Obj!Cardinality(S) = Cardinality(S)
  BY DEF Obj!Cardinality, Cardinality

LEMMA MetIs ==
  ASSUME NEW free, NEW link, NEW F, IsFiniteSet(F), End \notin F, NEW rank,
         NEW N \in Nat, N = Cardinality(F), free = End <=> F = {},
         Obj!Ranked(free, link, F, rank), NEW k \in Nat, N <= k
  PROVE  MetFrom(free, link)[k] = F
<1>1. /\ rank \in [F -> 1 .. N] /\ \A i, j \in F : rank[i] = rank[j] => i = j
      /\ free # End => free \in F /\ rank[free] = N
      /\ \A i \in F : IF rank[i] = 1 THEN link[i] = End
                      ELSE link[i] \in F /\ rank[link[i]] = rank[i] - 1
  BY SameCount, SameData DEF Obj!Ranked
<1>2. ASSUME NEW r \in 1 .. N PROVE \E i \in F : rank[i] = r
  <2>1. PICK R : R = 1 .. N
    OBVIOUS
  <2>2. IsFiniteSet(R) /\ Cardinality(R) = N
    <3>1. IsFiniteSet(1 .. N) /\ Cardinality(1 .. N) = N
      BY ONLY N \in Nat, FS_Interval
    <3> QED BY ONLY <2>1, <3>1
  <2>3. rank \in Injection(F, R)
    BY <1>1, <2>1 DEF Injection, IsInjective
  <2>4. rank \in Surjection(F, R)
    BY <2>2, <2>3, FS_Injection
  <2> QED BY <1>2, <2>1, <2>4 DEF Surjection
<1>3. PICK E : E = [n \in Nat |-> {i \in F : rank[i] > N - 1 - n}]
  OBVIOUS
<1>4. PICK met : met = MetFrom(free, link)
  OBVIOUS
<1>5. ASSUME NEW n \in Nat
      PROVE  E[n] = IF n = 0 THEN {free} \ {End}
                    ELSE E[n - 1] \cup ({link[i] : i \in E[n - 1]} \ {End})
  <2>1. CASE n = 0
    <3>1. E[n] = {i \in F : rank[i] > N - 1}
      BY <1>3, <2>1
    <3>2. \A i \in F : rank[i] > N - 1 <=> rank[i] = N
      BY <1>1
    <3>3. \A i \in F : free # End /\ (rank[i] = N <=> i = free)
      BY <1>1
    <3>4. {i \in F : rank[i] > N - 1} = {free} \ {End}
      BY <1>1, <3>2, <3>3
    <3> QED BY <2>1, <3>1, <3>4
  <2>2. CASE n # 0
    <3>1. PICK B : B = E[n - 1]
      OBVIOUS
    <3>2. n - 1 \in Nat
      BY <2>2
    <3>3. B = {i \in F : rank[i] > N - n}
      <4>1. B = {i \in F : rank[i] > N - 1 - (n - 1)}
        BY <1>3, <3>1, <3>2
      <4>2. N - 1 - (n - 1) = N - n
        OBVIOUS
      <4> QED BY <4>1, <4>2
    <3>4. E[n] = {i \in F : rank[i] > N - 1 - n}
      BY <1>3
    <3>5. ASSUME NEW i \in E[n] PROVE i \in B \/ (i # End /\ \E j \in B : link[j] = i)
      <4>1. i \in F /\ rank[i] \in 1 .. N /\ rank[i] > N - 1 - n
        BY <1>1, <3>4, <3>5
      <4>2. SUFFICES ASSUME i \notin B PROVE \E j \in B : link[j] = i
        BY <4>1
      <4>3. rank[i] = N - n /\ rank[i] + 1 \in 1 .. N
        BY <2>2, <3>3, <4>1, <4>2
      <4>4. PICK j \in F : rank[j] = rank[i] + 1
        BY <1>2, <4>3
      <4>5. j \in B
        BY <3>3, <4>3, <4>4
      <4>6. link[j] \in F /\ rank[link[j]] = rank[i]
        BY <1>1, <4>1, <4>4
      <4> QED BY <1>1, <4>1, <4>5, <4>6
    <3>6. ASSUME NEW i, i \in B \/ (i # End /\ \E j \in B : link[j] = i) PROVE i \in E[n]
      <4>1. CASE i \in B
        BY <1>1, <3>3, <3>4, <4>1
      <4>2. CASE i # End /\ \E j \in B : link[j] = i
        <5>1. PICK j \in B : link[j] = i
          BY <4>2
        <5>2. j \in F /\ rank[j] \in 1 .. N /\ rank[j] > N - n
          BY <1>1, <3>3
        <5>3. i \in F /\ rank[i] = rank[j] - 1
          BY <1>1, <4>2, <5>1, <5>2
        <5> QED BY <3>4, <5>2, <5>3
      <4> QED BY <3>6, <4>1, <4>2
    <3>7. E[n] = B \cup ({link[j] : j \in B} \ {End})
      BY <3>5, <3>6
    <3> QED BY <2>2, <3>1, <3>7
  <2> QED BY <2>1, <2>2
<1>6. E = [n \in Nat |-> IF n = 0 THEN {free} \ {End}
                         ELSE E[n - 1] \cup ({link[i] : i \in E[n - 1]} \ {End})]
  BY <1>3, <1>5
<1>7. met = [n \in Nat |-> IF n = 0 THEN {free} \ {End}
                           ELSE met[n - 1] \cup ({link[i] : i \in met[n - 1]} \ {End})]
  BY <1>4, <1>6 DEF MetFrom
<1>8. PICK T : T = {n \in Nat : met[n] = E[n]}
  OBVIOUS
<1>9. 0 \in T
  BY <1>5, <1>7, <1>8
<1>10. ASSUME NEW n \in 0 .. k, n \in T PROVE n + 1 \in T
  <2>1. n \in Nat /\ n + 1 \in Nat /\ n + 1 # 0 /\ (n + 1) - 1 = n
    OBVIOUS
  <2>2. met[n + 1] = met[n] \cup ({link[i] : i \in met[n]} \ {End})
    BY <1>7, <2>1
  <2>3. E[n + 1] = E[n] \cup ({link[i] : i \in E[n]} \ {End})
    BY <1>5, <2>1
  <2> QED BY <1>8, <1>10, <2>1, <2>2, <2>3
<1>11. k \in T
  <2>1. \A n \in 0 .. k : n \in T
    BY ONLY <1>9, <1>10, k \in Nat, 0 \in Nat, Up
  <2> QED BY <2>1
<1>12. E[k] = F
  <2>1. E[k] = {i \in F : rank[i] > N - 1 - k}
    BY <1>3
  <2>2. \A i \in F : rank[i] > N - 1 - k
    BY <1>1
  <2> QED BY <2>1, <2>2
<1> QED BY <1>4, <1>8, <1>11, <1>12

(* The used slots of a slab.                                               *)
LEMMA UsedAre ==
  ASSUME Here, NEW s \in Places, OwnerOf(Now, s) # None
  PROVE  \A i : i \in UsedSlots(s) <=> /\ i \in Slots(OwnerOf(Now, s))
                                       /\ Has(SlotsInUse(Now, mem, live, lost), s, i)
<1>1. PICK m, use, c : m = Now /\ use = SlotsInUse(Now, mem, live, lost) /\ c = OwnerOf(Now, s)
  OBVIOUS
<1>2. m.slab[s].owner = c /\ slab[s] = m.slab[s] /\ c # None
  BY <1>1, NowIs DEF OwnerOf
<1>3. c \in AllCaches
  BY <1>1, <1>2, OwnersOf DEF Here, Working, Owned
<1>4. PICK k \in Nat : k = ObjNum(c) /\ Slots(c) = 0 .. k - 1
  <2>1. ObjNum(c) \in Nat
    BY <1>3, BuffersAssumption, CacheSizes DEF AllCaches, ObjNum
  <2> QED BY <1>3, <2>1, SameData
<1>5. PICK F : F = Obj!FreeOf(m, use, s)
  OBVIOUS
<1>6. F \subseteq Slots(c) /\ \A i \in Slots(c) : i \in F <=> ~Has(use, s, i)
  BY <1>2, <1>5, SameData DEF Obj!FreeOf, Has
<1>7. PICK free, link : free = slab[s].free /\ link = slab[s].freeArray
  OBVIOUS
<1>8. Obj!Intact(m, use, s)
  BY <1>1, <1>2 DEF Here, Working, Obj!Consistent
<1>9. Obj!Chained(free, link, F)
  BY <1>2, <1>5, <1>7, <1>8 DEF Obj!Intact
<1>10. PICK rank : Obj!Ranked(free, link, F, rank)
  BY <1>9 DEF Obj!Chained
<1>11. free = End <=> F = {}
  BY <1>9, SameData DEF Obj!Chained
<1>12. IsFiniteSet(Slots(c)) /\ Cardinality(Slots(c)) = k
  <2>1. IsFiniteSet(0 .. k - 1) /\ Cardinality(0 .. k - 1) = IF 0 > k - 1 THEN 0 ELSE (k - 1) - 0 + 1
    BY ONLY 0 \in Int, k \in Nat, FS_Interval
  <2> QED BY <1>4, <2>1
<1>13. IsFiniteSet(F) /\ Cardinality(F) \in Nat /\ Cardinality(F) <= k
  BY <1>6, <1>12, FS_Subset, FS_CardinalityType
<1>14. PICK N \in Nat : N = Cardinality(F) /\ N <= k
  BY <1>13
<1>15. End \notin F
  BY <1>4, <1>6 DEF End
<1>16. MetFrom(free, link)[k] = F
  BY <1>10, <1>11, <1>13, <1>14, <1>15, MetIs
<1>17. FreeSlotsOf(s) = MetFrom(free, link)[ObjNum(slab[s].owner)]
  BY ONLY <1>7 DEF FreeSlotsOf, MetFrom
<1>18. UsedSlots(s) = Slots(c) \ F
  BY <1>2, <1>4, <1>16, <1>17 DEF UsedSlots
<1> QED BY <1>1, <1>6, <1>18

LEMMA ExtentsAre ==
  ASSUME NEW m, NEW me, NEW h, NEW lo, ExtentsHeld(m, me, h), HeadersPlaced(m, lo)
  PROVE  /\ \A s \in PageSlabs(m) : ExtentOf(m, me, s) \in Extents /\ ExtentOf(m, me, s) = [addr |-> s[1], order |-> 0]
         /\ \A s \in BufferSlabs(m) : ExtentOf(m, me, s) \in Extents /\ ExtentOf(m, me, s) = me[s]
<1>1. ASSUME NEW s \in PageSlabs(m)
      PROVE  ExtentOf(m, me, s) \in Extents /\ ExtentOf(m, me, s) = [addr |-> s[1], order |-> 0]
  <2>1. PICK p \in Pages : s = InPage(p)
    BY DEF HeadersPlaced
  <2>2. s[1] = p
    BY <2>1, PlacesApart
  <2>3. PICK e : e = [addr |-> p, order |-> 0]
    OBVIOUS
  <2>4. p \in Nat /\ 0 \in Orders
    <3>1. MAX_ORDER \in Nat
      BY BuffersAssumption
    <3>2. PICK top \in Nat : top = 2^MAX_ORDER
      BY <3>1, PowerPositive
    <3>3. p \in 0 .. top - 1
      BY <3>2 DEF Pages
    <3> QED BY <3>1, <3>3 DEF Orders
  <2>5. p % 2^0 = 0
    <3>1. p % 1 = 0
      BY <2>4
    <3> QED BY <3>1, PowerZero
  <2>6. e \in [addr : Pages, order : Orders] /\ e.addr % 2^e.order = 0
    BY <2>3, <2>4, <2>5
  <2>7. ExtentOf(m, me, s) = e
    BY <2>2, <2>3 DEF ExtentOf
  <2>8. [addr |-> s[1], order |-> 0] = e
    BY <2>2, <2>3
  <2> QED BY ONLY <2>6, <2>7, <2>8 DEF Extents
<1>2. ASSUME NEW s \in BufferSlabs(m) PROVE ExtentOf(m, me, s) \in Extents /\ ExtentOf(m, me, s) = me[s]
  BY Kinds DEF ExtentOf, ExtentsHeld
<1> QED BY <1>1, <1>2

LEMMA BuffersTypedHere == BuffersIInv => BuffersTyped
<1>1. SUFFICES ASSUME BuffersIInv PROVE BuffersTyped
  OBVIOUS
<1>2. PICK m : m = Now /\ m.slab = slab /\ m.cache = cache
  BY NowIs
<1>3. m \in Obj!Memories
  <2>1. finalized => m \in Obj!Memories
    BY <1>1, <1>2, EmptyIs DEF BuffersIInv, EmptyMemory, Obj!Consistent, Obj!Listed
  <2>2. ~finalized => m \in Obj!Memories
    BY <1>1, <1>2 DEF BuffersIInv, Working, Obj!Consistent, Obj!Listed
  <2> QED BY <2>1, <2>2
<1>4. slab \in [Places -> Obj!AnyHeader] /\ cache \in [AllCaches -> Obj!Descriptor]
  BY <1>2, <1>3 DEF Obj!Memories
<1>5. \A c \in DOMAIN cache : cache[c].error \in Errors /\ cache[c].numOfSlabs \in Nat
  BY <1>4, SameData DEF Obj!Descriptor
<1>6. ClassesTold(m, memoryBuffers)
  BY <1>1, <1>2 DEF BuffersIInv, Working, Arranged
<1>7. \A i \in Classes : memoryBuffers[i] # None =>
        memoryBuffers[i] \in BufferCaches /\ getPowerOfTwo(memoryBuffers[i][2]) = i
  BY <1>6 DEF ClassesTold
<1>8. mem \in [Places -> Extents \cup {None}] /\ held \subseteq Extents
  <2>1. CASE finalized
    BY <1>1, <2>1 DEF BuffersIInv
  <2>2. CASE ~finalized
    <3>1. ExtentsHeld(m, mem, held) /\ HeadersPlaced(m, lost)
      BY <1>1, <1>2, <2>2 DEF BuffersIInv, Working, Arranged
    <3>2. held = {ExtentOf(m, mem, s) : s \in PageSlabs(m) \cup BufferSlabs(m)}
      BY <3>1 DEF ExtentsHeld
    <3>3. \A s \in PageSlabs(m) \cup BufferSlabs(m) : ExtentOf(m, mem, s) \in Extents
      BY <3>1, ExtentsAre
    <3>4. held \subseteq Extents
      BY <3>2, <3>3
    <3> QED BY <3>1, <3>4 DEF ExtentsHeld
  <2> QED BY <2>1, <2>2
<1>9. lost \subseteq Places
  BY <1>1 DEF BuffersIInv
<1> QED BY <1>4, <1>5, <1>7, <1>8, <1>9 DEF BuffersTyped

(* The extents of the slabs are as many as the slabs.                      *)
LEMMA AsManyExtents ==
  ASSUME Here
  PROVE  /\ held = {[addr |-> s[1], order |-> 0] : s \in PageSlabs(Now)}
                   \cup {mem[s] : s \in BufferSlabs(Now)}
         /\ Cardinality(held) = Cardinality(PageSlabs(Now)) + Cardinality(BufferSlabs(Now))
<1>1. PICK B, P : B = BufferSlabs(Now) /\ P = PageSlabs(Now)
  OBVIOUS
<1>2. PICK all : all = P \cup B
  OBVIOUS
<1>3. P \subseteq Places /\ B \subseteq Places /\ P \cap B = {}
  BY <1>1, Kinds
<1>4. ExtentsHeld(Now, mem, held) /\ HeadersPlaced(Now, lost)
  BY DEF Here, Working, Arranged
<1>5. PICK f : f = [s \in all |-> ExtentOf(Now, mem, s)]
  OBVIOUS
<1>6. /\ \A s \in P : f[s] \in Extents /\ f[s] = [addr |-> s[1], order |-> 0]
      /\ \A s \in B : f[s] \in Extents /\ f[s] = mem[s]
  BY <1>1, <1>2, <1>4, <1>5, ExtentsAre
<1>7. held = {f[s] : s \in all} /\ \A s, t \in all : s # t => Span(f[s]) \cap Span(f[t]) = {}
  BY <1>1, <1>2, <1>4, <1>5 DEF ExtentsHeld
<1>8. held = {[addr |-> s[1], order |-> 0] : s \in P} \cup {mem[s] : s \in B}
  <2>1. {f[s] : s \in all} = {f[s] : s \in P} \cup {f[s] : s \in B}
    BY <1>2
  <2>2. {f[s] : s \in P} = {[addr |-> s[1], order |-> 0] : s \in P}
    <3>1. PICK g : g = [s \in P |-> [addr |-> s[1], order |-> 0]]
      OBVIOUS
    <3>2. \A s \in P : f[s] = g[s]
      BY <1>6, <3>1
    <3>3. {f[s] : s \in P} = {g[s] : s \in P}
      BY <3>2
    <3>4. {g[s] : s \in P} = {[addr |-> s[1], order |-> 0] : s \in P}
      BY <3>1
    <3> QED BY ONLY <3>3, <3>4
  <2>3. {f[s] : s \in B} = {mem[s] : s \in B}
    BY <1>6
  <2> QED BY ONLY <1>7, <2>1, <2>2, <2>3
<1>9. f \in Bijection(all, held)
  <2>1. \A s, t \in all : f[s] = f[t] => s = t
    <3>1. \A s \in all : f[s] \in Extents /\ f[s].addr \in Span(f[s])
      BY <1>2, <1>6, ExtentIs
    <3> QED BY <1>7, <3>1
  <2>2. f \in [all -> held]
    BY <1>5, <1>7
  <2>3. \A e \in held : \E s \in all : f[s] = e
    BY <1>7
  <2> QED BY <2>1, <2>2, <2>3 DEF Bijection, Injection, Surjection, IsInjective
<1>10. IsFiniteSet(P) /\ IsFiniteSet(B) /\ IsFiniteSet(all)
       /\ Cardinality(all) = Cardinality(P) + Cardinality(B)
  <2>1. IsFiniteSet(P) /\ IsFiniteSet(B)
    BY <1>3, PlacesFinite, FS_Subset
  <2>2. IsFiniteSet(all) /\ Cardinality(all) = Cardinality(P) + Cardinality(B) - Cardinality(P \cap B)
    BY <1>2, <2>1, FS_Union
  <2>3. Cardinality(P \cap B) = 0 /\ Cardinality(P) \in Nat /\ Cardinality(B) \in Nat
    BY <1>3, <2>1, FS_EmptySet, FS_CardinalityType
  <2> QED BY <2>1, <2>2, <2>3
<1>11. Cardinality(held) = Cardinality(all)
  BY <1>9, <1>10, FS_Bijection DEF ExistsBijection
<1> QED BY <1>1, <1>8, <1>10, <1>11

(* HeadersMatchBlocks of Buffers, for any sizes.                           *)
LEMMA HeadersMatchHere == BuffersIInv => HeadersMatchBlocks
<1>1. SUFFICES ASSUME BuffersIInv PROVE HeadersMatchBlocks
  OBVIOUS
<1>2. BuffersTyped
  BY <1>1, BuffersTypedHere
<1>3. CASE finalized
  BY <1>1, <1>2, <1>3 DEF HeadersMatchBlocks, BuffersIInv
<1>4. CASE ~finalized
  <2>1. Here
    BY <1>1, <1>4 DEF BuffersIInv, Here
  <2>2. PICK B, P : B = BufferSlabs(Now) /\ P = PageSlabs(Now)
    OBVIOUS
  <2>3. SlabsOfBuffers = B /\ HeaderSlabs = P
    BY <2>1, <2>2, SlabsAre
  <2>4. B \cap lost = {}
    BY <2>1, <2>2 DEF Here, Working, Arranged, HeadersPlaced
  <2>5. ASSUME NEW s \in P
        PROVE  \A i : i \in UsedSlots(s) <=> i \in 0 .. headersInSlab - 1 /\ InSlot(s, i) \in B \cup lost
    <3>1. s \in Places /\ OwnerOf(Now, s) \in HeaderCaches /\ s \notin B
      BY <2>2, Kinds DEF PageSlabs
    <3>2. Slots(OwnerOf(Now, s)) = 0 .. headersInSlab - 1 /\ OwnerOf(Now, s) # None
      BY <3>1, SameData, CachesApart
    <3>3. \A i : Has(SlotsInUse(Now, mem, live, lost), s, i) <=>
                   i \in 0 .. headersInSlab - 1 /\ InSlot(s, i) \in B \cup lost
      BY <2>2, <2>5, <3>1, InUseIs DEF HeaderInUse, BufferInUse
    <3> QED BY <2>1, <3>1, <3>2, <3>3, UsedAre
  <2>6. {InSlot(s, i) : s \in P, i \in 0 .. headersInSlab - 1} \cap (B \cup lost)
        = UNION {{InSlot(s, i) : i \in UsedSlots(s)} : s \in P}
    BY <2>5
  <2>7. /\ held = {[addr |-> s[1], order |-> 0] : s \in P} \cup {mem[s] : s \in B}
        /\ Cardinality(held) = Cardinality(P) + Cardinality(B)
    BY <2>1, <2>2, AsManyExtents
  <2> QED BY <1>2, <1>4, <2>3, <2>4, <2>6, <2>7 DEF HeadersMatchBlocks
<1> QED BY <1>3, <1>4

(* BuffersFound of Buffers, for any sizes.                                 *)
LEMMA FoundHere == BuffersIInv => BuffersFound
<1>1. SUFFICES ASSUME BuffersIInv PROVE BuffersFound
  OBVIOUS
<1>2. CASE finalized
  <2>1. Now = EmptyMemory /\ live = {} /\ ClassesTold(Now, memoryBuffers)
    BY <1>1, <1>2 DEF BuffersIInv, EmptyMemory
  <2>2. cache = [c \in AllCaches |-> NewCache]
    BY <2>1, NowIs DEF EmptyMemory
  <2>3. ASSUME NEW c \in Open PROVE SlabsOn(c, Groups) = {}
    <3>1. c \in AllCaches
      BY <2>1, CachesApart DEF Open, ClassesTold
    <3>2. \A g \in Groups : cache[c].list[g] = None
      BY <2>2, <3>1 DEF NewCache
    <3>3. Walk(Now, None) = {}
      BY DEF Walk
    <3> QED BY <3>2, <3>3 DEF SlabsOn
  <2>4. SlabsOfBuffers = {}
    BY <2>3 DEF SlabsOfBuffers
  <2> QED BY <2>1, <2>4 DEF BuffersFound
<1>3. CASE ~finalized
  <2>1. Here /\ SlabsOfBuffers = BufferSlabs(Now)
    BY <1>1, <1>3, SlabsAre DEF BuffersIInv, Here
  <2>2. \A s : OwnerOf(Now, s) = slab[s].owner
    BY NowIs
  <2>3. ExtentsHeld(Now, mem, held)
    BY <2>1 DEF Here, Working, Arranged
  <2>4. ASSUME NEW b \in live
        PROVE  \E s \in SlabsOfBuffers :
                 /\ HeadersOf(b.addr) = {s}
                 /\ b.addr = mem[s].addr * BLOCK_SIZE + IndexIn(s, b.addr) * slotSize(slab[s].owner)
                 /\ b.size <= slotSize(slab[s].owner)
                 /\ b.addr + b.size <= (mem[s].addr + 2^mem[s].order) * BLOCK_SIZE
    <3>1. PICK s \in BufferSlabs(Now) : \E i \in Slots(OwnerOf(Now, s)) :
            HasSlot(Now, mem, b, s, i) /\ HeadersOf(b.addr) = {s} /\ IndexIn(s, b.addr) = i
      BY <2>1, FoundIs
    <3>2. PICK c : c = OwnerOf(Now, s)
      OBVIOUS
    <3>3. PICK i \in Slots(c) :
            HasSlot(Now, mem, b, s, i) /\ HeadersOf(b.addr) = {s} /\ IndexIn(s, b.addr) = i
      BY <3>1, <3>2
    <3>4. c \in BufferCaches /\ mem[s] \in Extents /\ mem[s].order = slabOrder(c)
      BY <2>3, <3>2 DEF ExtentsHeld, BufferSlabs
    <3>5. PICK e : e = mem[s]
      OBVIOUS
    <3>6. PICK a, z, w : a = b.addr /\ z = b.size /\ w = slotSize(c)
      OBVIOUS
    <3>7. Address(e, i, c) = a /\ z <= w
      BY <3>2, <3>3, <3>5, <3>6 DEF HasSlot
    <3>8. a \in Nat /\ a + w <= (e.addr + 2^e.order) * BLOCK_SIZE
      BY <3>4, <3>5, <3>6, <3>7, AddressIs
    <3>9. w \in Nat /\ z \in Nat
      <4>1. b.size \in Requests \cap Served
        BY <2>1 DEF Here, Working, Arranged, BuffersPlaced
      <4> QED BY <3>4, <3>6, <4>1, ClassIs, CacheSizes
    <3>10. PICK top \in Nat : top = (e.addr + 2^e.order) * BLOCK_SIZE
      <4>1. e.addr + 2^e.order \in Nat /\ BLOCK_SIZE \in Nat
        BY <3>4, <3>5, ExtentIs, BuffersAssumption
      <4> QED BY <4>1
    <3>11. a + z <= top
      BY <3>7, <3>8, <3>9, <3>10
    <3>12. a = e.addr * BLOCK_SIZE + i * w
      BY <3>6, <3>7 DEF Address
    <3> QED BY <2>1, <2>2, <3>2, <3>3, <3>5, <3>6, <3>7, <3>10, <3>11, <3>12
  <2>5. ASSUME NEW s \in SlabsOfBuffers
        PROVE  UsedSlots(s) = {IndexIn(s, b.addr) : b \in {l \in live : s \in HeadersOf(l.addr)}}
    <3>1. s \in BufferSlabs(Now) /\ s \in Places /\ OwnerOf(Now, s) # None
      BY <2>1, CachesApart DEF BufferSlabs
    <3>2. s \notin PageSlabs(Now)
      BY <3>1, Kinds
    <3>3. \A i : i \in UsedSlots(s) <=> BufferInUse(Now, mem, live, s, i)
      BY <2>1, <3>1, <3>2, UsedAre, InUseIs DEF HeaderInUse, BufferInUse
    <3>4. ASSUME NEW b \in live, NEW i \in Slots(OwnerOf(Now, s)),
                 b.addr = Address(mem[s], i, OwnerOf(Now, s))
          PROVE  s \in HeadersOf(b.addr) /\ IndexIn(s, b.addr) = i
      <4>1. PICK t \in BufferSlabs(Now) : \E j \in Slots(OwnerOf(Now, t)) :
              HasSlot(Now, mem, b, t, j) /\ HeadersOf(b.addr) = {t} /\ IndexIn(t, b.addr) = j
        BY <2>1, FoundIs
      <4>2. PICK j \in Slots(OwnerOf(Now, t)) :
              HasSlot(Now, mem, b, t, j) /\ HeadersOf(b.addr) = {t} /\ IndexIn(t, b.addr) = j
        BY <4>1
      <4>3. Address(mem[s], i, OwnerOf(Now, s)) = Address(mem[t], j, OwnerOf(Now, t))
        BY <3>4, <4>2 DEF HasSlot
      <4>4. t = s /\ j = i
        BY ONLY <2>3, <3>1, <4>3, i \in Slots(OwnerOf(Now, s)), j \in Slots(OwnerOf(Now, t)),
                t \in BufferSlabs(Now), SlabOfAddress
      <4> QED BY <4>2, <4>4
    <3>5. ASSUME NEW b \in live, s \in HeadersOf(b.addr)
          PROVE  BufferInUse(Now, mem, live, s, IndexIn(s, b.addr))
      <4>1. PICK t \in BufferSlabs(Now) : \E j \in Slots(OwnerOf(Now, t)) :
              HasSlot(Now, mem, b, t, j) /\ HeadersOf(b.addr) = {t} /\ IndexIn(t, b.addr) = j
        BY <2>1, FoundIs
      <4>2. t = s
        BY <3>5, <4>1
      <4> QED BY <4>1, <4>2 DEF HasSlot, BufferInUse
    <3>6. PICK L : L = {l \in live : s \in HeadersOf(l.addr)}
      OBVIOUS
    <3>7. ASSUME NEW i, i \in UsedSlots(s) PROVE \E b \in L : i = IndexIn(s, b.addr)
      BY <3>3, <3>4, <3>6, <3>7 DEF BufferInUse
    <3>8. ASSUME NEW b \in L PROVE IndexIn(s, b.addr) \in UsedSlots(s)
      BY <3>3, <3>5, <3>6
    <3>9. UsedSlots(s) = {IndexIn(s, b.addr) : b \in L}
      BY <3>7, <3>8
    <3> QED BY ONLY <3>6, <3>9
  <2> QED BY <2>4, <2>5 DEF BuffersFound
<1> QED BY <1>2, <1>3

-----------------------------------------------------------------------------
(* The buffers in use do not overlap, which slab.h promises.               *)
AreaOf(b) == b.addr .. b.addr + b.size - 1
Heap(x)   == 0 .. 2^x * BLOCK_SIZE - 1

(* The slot of a buffer: where it is, and what of it the buffer uses.      *)
LEMMA BufferAt ==
  ASSUME NEW m, NEW me, NEW h, ExtentsHeld(m, me, h), NEW lv, BuffersPlaced(m, me, lv), NEW b \in lv
  PROVE  \E s \in BufferSlabs(m) : \E i \in Slots(OwnerOf(m, s)) :
           /\ me[s] \in Extents /\ OwnerOf(m, s) \in BufferCaches
           /\ slotSize(OwnerOf(m, s)) \in Nat
           /\ b.addr = Address(me[s], i, OwnerOf(m, s))
           /\ b.addr \in Nat /\ b.size \in Nat \ {0} /\ b.size <= slotSize(OwnerOf(m, s))
           /\ me[s].addr * BLOCK_SIZE \in Nat /\ (me[s].addr + 2^me[s].order) * BLOCK_SIZE \in Nat
           /\ me[s].addr * BLOCK_SIZE <= b.addr
           /\ b.addr + slotSize(OwnerOf(m, s)) <= (me[s].addr + 2^me[s].order) * BLOCK_SIZE
<1>1. PICK s \in BufferSlabs(m) : \E i \in Slots(OwnerOf(m, s)) : HasSlot(m, me, b, s, i)
  BY DEF BuffersPlaced
<1>2. PICK i \in Slots(OwnerOf(m, s)) : HasSlot(m, me, b, s, i)
  BY <1>1
<1>3. PICK c, e, a : c = OwnerOf(m, s) /\ e = me[s] /\ a = b.addr
  OBVIOUS
<1>4. c \in BufferCaches /\ e \in Extents /\ e.order = slabOrder(c)
  BY <1>3 DEF ExtentsHeld, BufferSlabs
<1>5. i \in Slots(c) /\ a = Address(e, i, c) /\ b.size <= slotSize(c)
  BY <1>2, <1>3 DEF HasSlot
<1>6. /\ a \in Nat /\ e.addr * BLOCK_SIZE \in Nat /\ e.addr * BLOCK_SIZE <= a
      /\ a + slotSize(c) <= (e.addr + 2^e.order) * BLOCK_SIZE
  BY <1>4, <1>5, AddressIs
<1>7. b.size \in Nat \ {0} /\ slotSize(c) \in Nat
  <2>1. b.size \in Served
    BY DEF BuffersPlaced
  <2> QED BY <1>4, <2>1, ClassIs, CacheSizes
<1>8. (e.addr + 2^e.order) * BLOCK_SIZE \in Nat
  <2>1. e.addr + 2^e.order \in Nat /\ BLOCK_SIZE \in Nat
    BY <1>4, ExtentIs, BuffersAssumption
  <2> QED BY <2>1
<1> QED BY <1>3, <1>4, <1>5, <1>6, <1>7, <1>8

LEMMA AreaInHeap ==
  ASSUME NEW m, NEW me, NEW h, ExtentsHeld(m, me, h), NEW lv, BuffersPlaced(m, me, lv), NEW b \in lv
  PROVE  b.addr \in Heap(MAX_ORDER) /\ AreaOf(b) \subseteq Heap(MAX_ORDER)
<1>1. PICK s \in BufferSlabs(m) : \E i \in Slots(OwnerOf(m, s)) :
        /\ me[s] \in Extents /\ slotSize(OwnerOf(m, s)) \in Nat
        /\ b.addr \in Nat /\ b.size \in Nat \ {0} /\ b.size <= slotSize(OwnerOf(m, s))
        /\ (me[s].addr + 2^me[s].order) * BLOCK_SIZE \in Nat
        /\ b.addr + slotSize(OwnerOf(m, s)) <= (me[s].addr + 2^me[s].order) * BLOCK_SIZE
  BY BufferAt
<1>2. PICK e \in Extents : e = me[s]
  BY <1>1
<1>3. PICK q \in Nat, top \in Nat, B \in Nat : q = e.addr + 2^e.order /\ top = 2^MAX_ORDER /\ B = BLOCK_SIZE
  <2>1. 2^MAX_ORDER \in Nat /\ BLOCK_SIZE \in Nat
    BY BuffersAssumption, PowerPositive
  <2> QED BY <1>2, <2>1, ExtentIs
<1>4. q <= top
  BY <1>2, <1>3, ExtentIs
<1>5. PICK y \in Nat, z \in Nat : y = q * B /\ z = top * B
  BY <1>3
<1>6. y <= z
  BY ONLY <1>3, <1>4, <1>5
<1>7. PICK a \in Nat, x \in Nat \ {0}, w \in Nat :
        a = b.addr /\ x = b.size /\ w = slotSize(OwnerOf(m, s)) /\ x <= w /\ a + w <= y
  BY <1>1, <1>2, <1>3, <1>5
<1>8. a \in 0 .. z - 1 /\ a .. a + x - 1 \subseteq 0 .. z - 1
  BY <1>6, <1>7
<1> QED BY <1>3, <1>5, <1>7, <1>8 DEF AreaOf, Heap

LEMMA AreasApart ==
  ASSUME NEW m, NEW me, NEW h, ExtentsHeld(m, me, h), NEW lv, BuffersPlaced(m, me, lv),
         NEW b \in lv, NEW d \in lv, b # d
  PROVE  AreaOf(b) \cap AreaOf(d) = {}
<1>1. PICK s \in BufferSlabs(m) : \E i \in Slots(OwnerOf(m, s)) :
        /\ me[s] \in Extents /\ OwnerOf(m, s) \in BufferCaches
        /\ slotSize(OwnerOf(m, s)) \in Nat
        /\ b.addr = Address(me[s], i, OwnerOf(m, s))
        /\ b.addr \in Nat /\ b.size \in Nat \ {0} /\ b.size <= slotSize(OwnerOf(m, s))
        /\ me[s].addr * BLOCK_SIZE \in Nat /\ (me[s].addr + 2^me[s].order) * BLOCK_SIZE \in Nat
        /\ me[s].addr * BLOCK_SIZE <= b.addr
        /\ b.addr + slotSize(OwnerOf(m, s)) <= (me[s].addr + 2^me[s].order) * BLOCK_SIZE
  BY BufferAt
<1>2. PICK t \in BufferSlabs(m) : \E j \in Slots(OwnerOf(m, t)) :
        /\ me[t] \in Extents /\ OwnerOf(m, t) \in BufferCaches
        /\ slotSize(OwnerOf(m, t)) \in Nat
        /\ d.addr = Address(me[t], j, OwnerOf(m, t))
        /\ d.addr \in Nat /\ d.size \in Nat \ {0} /\ d.size <= slotSize(OwnerOf(m, t))
        /\ me[t].addr * BLOCK_SIZE \in Nat /\ (me[t].addr + 2^me[t].order) * BLOCK_SIZE \in Nat
        /\ me[t].addr * BLOCK_SIZE <= d.addr
        /\ d.addr + slotSize(OwnerOf(m, t)) <= (me[t].addr + 2^me[t].order) * BLOCK_SIZE
  BY BufferAt
<1>3. PICK a \in Nat, x \in Nat, w \in Nat :
        a = b.addr /\ x = b.size /\ w = slotSize(OwnerOf(m, s)) /\ x <= w
  BY <1>1
<1>4. PICK g \in Nat, y \in Nat, v \in Nat :
        g = d.addr /\ y = d.size /\ v = slotSize(OwnerOf(m, t)) /\ y <= v
  BY <1>2
<1>5. a + w <= g \/ g + v <= a
  <2>1. CASE s = t
    <3>1. PICK c, e : c = OwnerOf(m, s) /\ e = me[s]
      OBVIOUS
    <3>2. e \in Extents /\ c \in BufferCaches
      BY <1>1, <3>1
    <3>3. PICK i \in Slots(c) : a = Address(e, i, c)
      BY <1>1, <1>3, <3>1
    <3>4. PICK j \in Slots(c) : g = Address(e, j, c)
      BY <1>2, <1>4, <2>1, <3>1
    <3>5. i # j
      BY <1>3, <1>4, <3>3, <3>4 DEF BuffersPlaced
    <3>6. v = slotSize(c) /\ w = slotSize(c)
      BY <1>3, <1>4, <2>1, <3>1
    <3> QED BY <3>2, <3>3, <3>4, <3>5, <3>6, SlotsApart
  <2>2. CASE s # t
    <3>1. PICK e \in Extents, f \in Extents : e = me[s] /\ f = me[t]
      BY <1>1, <1>2
    <3>2. Span(e) \cap Span(f) = {}
      <4>1. ExtentOf(m, me, s) = me[s] /\ ExtentOf(m, me, t) = me[t]
        BY Kinds DEF ExtentOf
      <4> QED BY <2>2, <3>1, <4>1 DEF ExtentsHeld
    <3>3. PICK p \in Nat, p1 \in Nat, q \in Nat, q1 \in Nat, B \in Nat :
            /\ p = e.addr /\ p1 = e.addr + 2^e.order /\ q = f.addr /\ q1 = f.addr + 2^f.order
            /\ B = BLOCK_SIZE
      BY ExtentIs, BuffersAssumption
    <3>4. p1 <= q \/ q1 <= p
      BY <3>2, <3>3, SpansApart
    <3>5. PICK k \in Nat, k1 \in Nat, l \in Nat, l1 \in Nat : k = p * B /\ k1 = p1 * B /\ l = q * B /\ l1 = q1 * B
      BY <3>3
    <3>6. k1 <= l \/ l1 <= k
      <4>1. p1 <= q => p1 * B <= q * B
        BY ONLY p1 \in Nat, q \in Nat, B \in Nat
      <4>2. q1 <= p => q1 * B <= p * B
        BY ONLY q1 \in Nat, p \in Nat, B \in Nat
      <4> QED BY <3>4, <3>5, <4>1, <4>2
    <3>7. k <= a /\ a + w <= k1
      BY <1>1, <1>3, <3>1, <3>3, <3>5
    <3>8. l <= g /\ g + v <= l1
      BY <1>2, <1>4, <3>1, <3>3, <3>5
    <3> QED BY ONLY <3>6, <3>7, <3>8, a \in Nat, g \in Nat, w \in Nat, v \in Nat,
               k \in Nat, k1 \in Nat, l \in Nat, l1 \in Nat
  <2> QED BY <2>1, <2>2
<1>6. (a .. a + x - 1) \cap (g .. g + y - 1) = {}
  BY ONLY <1>3, <1>4, <1>5, a \in Nat, x \in Nat, w \in Nat, g \in Nat, y \in Nat, v \in Nat
<1> QED BY <1>3, <1>4, <1>6 DEF AreaOf

LEMMA KmallocImplements ==
  ASSUME BuffersIInv, ~finalized, NEW x \in Requests, kmalloc(x)
  PROVE  Buffering!Kmalloc(x) \/ live' = live
<1>1. Here' /\ (Handed(x) \/ live' = live)
  BY KmallocKeeps
<1>2. SUFFICES ASSUME Handed(x) PROVE Buffering!Kmalloc(x)
  BY <1>1
<1>3. PICK a : [addr |-> a, size |-> x] \notin live
               /\ live' = live \cup {[addr |-> a, size |-> x]}
  BY <1>2 DEF Handed
<1>4. PICK b : b = [addr |-> a, size |-> x]
  OBVIOUS
<1>5. PICK m, me, h, lv : m = Now' /\ me = mem' /\ h = held' /\ lv = live'
  OBVIOUS
<1>6. ExtentsHeld(m, me, h) /\ BuffersPlaced(m, me, lv)
  BY <1>1, <1>5 DEF Here, Working, Arranged
<1>7. b \notin live /\ lv = live \cup {b} /\ b \in lv
  BY <1>3, <1>4, <1>5
<1>8. b.addr \in Heap(MAX_ORDER) /\ AreaOf(b) \subseteq Heap(MAX_ORDER)
  BY <1>6, <1>7, AreaInHeap
<1>9. \A d \in live : AreaOf(d) \cap AreaOf(b) = {}
  BY <1>6, <1>7, AreasApart
<1>10. a \in 0 .. 2^MAX_ORDER * BLOCK_SIZE - 1
  BY <1>4, <1>8 DEF Heap
<1>11. x \in Served
  BY DEF kmalloc
<1>12. \A d : Buffering!Area(d) = AreaOf(d)
  BY DEF Buffering!Area, AreaOf
<1>13. /\ Buffering!Area(b) \subseteq 0 .. 2^MAX_ORDER * BLOCK_SIZE - 1
       /\ \A d \in live : Buffering!Area(d) \cap Buffering!Area(b) = {}
  BY <1>8, <1>9, <1>12 DEF Heap
<1>14. live' = live \cup {b}
  BY <1>5, <1>7
<1> QED BY <1>4, <1>10, <1>11, <1>13, <1>14 DEF Buffering!Kmalloc

LEMMA StepImplementsBuffers == BuffersIInv /\ [BuffersNext]_bufferVars => [Buffering!PoolNext]_live
<1>1. SUFFICES ASSUME BuffersIInv, [BuffersNext]_bufferVars PROVE Buffering!PoolNext \/ live' = live
  OBVIOUS
<1>2. CASE UNCHANGED bufferVars
  BY <1>2 DEF bufferVars
<1>3. ASSUME NEW size \in Requests, ~finalized, kmalloc(size)
      PROVE  Buffering!PoolNext \/ live' = live
  BY <1>1, <1>3, KmallocImplements DEF Buffering!PoolNext
<1>4. ASSUME NEW size \in Requests, kmallocRefused(size) PROVE live' = live
  BY <1>4 DEF kmallocRefused, bufferVars
<1>5. ASSUME NEW b \in live, kfree(b) PROVE Buffering!PoolNext
  BY <1>5 DEF kfree, Buffering!PoolNext, Buffering!Kfree
<1>6. ASSUME NEW p \in Pages, kfreeRefused(p * BLOCK_SIZE) PROVE live' = live
  BY <1>6 DEF kfreeRefused, bufferVars
<1>7. ASSUME SlabFinalize PROVE Buffering!PoolNext
  BY <1>7 DEF SlabFinalize, Buffering!PoolNext, Buffering!Finalize
<1> QED BY <1>1, <1>2, <1>3, <1>4, <1>5, <1>6, <1>7 DEF BuffersNext

(* No header is lost but when there is no memory for its slab, no extent   *)
(* without a slab, and after SlabFinalize none is held, however many       *)
(* calls of kmalloc and kfree came before.                                 *)
THEOREM HeadersMatchBlocksHolds == BuffersSpec => []HeadersMatchBlocks
<1>1. BuffersIInv => HeadersMatchBlocks
  BY HeadersMatchHere
<1> QED BY <1>1, BuffersInvariant, PTL

(* kfree finds the slab of every buffer in use by its address, and no      *)
(* other slab, and its slot: putBuffer divides an address by sizes, for    *)
(* any sizes of pages and of buffers.                                      *)
THEOREM BuffersFoundHolds == BuffersSpec => []BuffersFound
<1>1. BuffersIInv => BuffersFound
  BY FoundHere
<1> QED BY <1>1, BuffersInvariant, PTL

(* kmalloc and kfree do what slab.h promises of them: buffers of the size  *)
(* that was asked, in the heap of the kernel, no two of which overlap.     *)
THEOREM ImplementsBufferPoolHolds == BuffersSpec => ImplementsBufferPool
<1>1. BuffersInit => Buffering!PoolInit
  BY DEF BuffersInit, Buffering!PoolInit
<1>2. BuffersIInv /\ [BuffersNext]_bufferVars => [Buffering!PoolNext]_live
  BY StepImplementsBuffers
<1> QED BY <1>1, <1>2, BuffersInvariant, PTL
        DEF BuffersSpec, ImplementsBufferPool, Buffering!PoolSpec

=============================================================================
