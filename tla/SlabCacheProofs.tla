-------------------------- MODULE SlabCacheProofs --------------------------
(***************************************************************************)
(* The invariants of the object caches, and that the caches give their     *)
(* users what ObjectPool promises, for any caches, blocks and numbers of   *)
(* objects in a slab.                                                      *)
(*                                                                         *)
(* The operations of Slab are functions from a memory to a memory, called  *)
(* one after the other in a step.  So the inductive invariant is about a   *)
(* memory m, and it is taken through each operation in turn: first what    *)
(* each assignment writes, then what that does to the lists, to the free   *)
(* list of a slab, and to the whole.                                       *)
(***************************************************************************)
EXTENDS SlabCache, FiniteSetTheorems, TLAPS

Pointers == Slabs \cup {None}
Arrays   == {<<>>} \cup UNION {[Slots(c) -> Slots(c) \cup {End}] : c \in Caches}

AnyHeader ==
  [owner : Caches \cup {None}, next : Pointers, prev : Pointers, group : Groups,
   free : Int, freeArray : Arrays, numOfFreeSlots : Int]

Descriptor ==
  [list : [Groups -> Pointers], numOfSlabs : Nat, shrink : {0, 1}, error : Errors]

Memories == [slab : [Slabs -> AnyHeader], cache : [Caches -> Descriptor]]

(* The list of group g of cache c links exactly the slabs of M, both ways, *)
(* and there is no other way to be closed under next.                      *)
Linked(m, c, g, M) ==
  LET head == m.cache[c].list[g]
  IN  /\ head \in M \cup {None}
      /\ \A s \in M :
           /\ m.slab[s].next \in M \cup {None}
           /\ m.slab[s].prev \in M \cup {None}
           /\ m.slab[s].prev = None <=> head = s
           /\ m.slab[s].next # None => m.slab[m.slab[s].next].prev = s
           /\ m.slab[s].prev # None => m.slab[m.slab[s].prev].next = s
      /\ \A S \in SUBSET M :
           head \in S \cup {None} /\ (\A s \in S : m.slab[s].next \in S \cup {None}) => S = M

(* The slabs of a group, among those of the set S that are linked at all.  *)
Grouped(m, c, g, S) == {s \in S : m.slab[s].owner = c /\ m.slab[s].group = g}

Lists(m, S) == \A c \in Caches, g \in Groups : Linked(m, c, g, Grouped(m, c, g, S))

-----------------------------------------------------------------------------
(* What the assignments write.                                             *)

(* What the operations on the lists leave alone.                           *)
SameUse(n, m) ==
  /\ n \in Memories
  /\ \A q \in Slabs :
       /\ n.slab[q].owner = m.slab[q].owner /\ n.slab[q].free = m.slab[q].free
       /\ n.slab[q].freeArray = m.slab[q].freeArray
       /\ n.slab[q].numOfFreeSlots = m.slab[q].numOfFreeSlots
  /\ \A d \in Caches :
       /\ n.cache[d].numOfSlabs = m.cache[d].numOfSlabs
       /\ n.cache[d].shrink = m.cache[d].shrink /\ n.cache[d].error = m.cache[d].error

UnlinkedFrom(n, m, c, s) ==
  LET p == m.slab[s].prev
      x == m.slab[s].next
  IN  /\ \A q \in Slabs :
           /\ n.slab[q].group = m.slab[q].group
           /\ n.slab[q].next = IF q = p THEN x ELSE m.slab[q].next
           /\ n.slab[q].prev = IF q = x THEN p ELSE m.slab[q].prev
      /\ \A d \in Caches, k \in Groups : n.cache[d].list[k] =
           IF p = None /\ d = c /\ k = m.slab[s].group THEN x ELSE m.cache[d].list[k]

PushedTo(n, m, c, s, g) ==
  LET h == m.cache[c].list[g]
  IN  /\ \A q \in Slabs :
           /\ n.slab[q].group = IF q = s THEN g ELSE m.slab[q].group
           /\ n.slab[q].next = IF q = s THEN h ELSE m.slab[q].next
           /\ n.slab[q].prev = IF q = s THEN None ELSE IF q = h THEN s ELSE m.slab[q].prev
      /\ \A d \in Caches, k \in Groups : n.cache[d].list[k] =
           IF d = c /\ k = g THEN s ELSE m.cache[d].list[k]

LEMMA Parts ==
  ASSUME NEW m \in Memories
  PROVE  /\ \A q \in Slabs : m.slab[q] \in AnyHeader
         /\ \A d \in Caches : m.cache[d] \in Descriptor
         /\ None \notin Caches /\ None \notin Slabs
  BY SlabAssumption DEF Memories

LEMMA HeaderFields ==
  ASSUME NEW m \in Memories, NEW n \in Memories, NEW q \in Slabs,
         n.slab[q].owner = m.slab[q].owner, n.slab[q].free = m.slab[q].free,
         n.slab[q].freeArray = m.slab[q].freeArray,
         n.slab[q].numOfFreeSlots = m.slab[q].numOfFreeSlots,
         n.slab[q].next = m.slab[q].next, n.slab[q].prev = m.slab[q].prev,
         n.slab[q].group = m.slab[q].group
  PROVE  n.slab[q] = m.slab[q]
<1>1. PICK v \in AnyHeader, w \in AnyHeader : v = n.slab[q] /\ w = m.slab[q]
  BY Parts
<1>2. /\ v.owner = w.owner /\ v.free = w.free /\ v.freeArray = w.freeArray
      /\ v.numOfFreeSlots = w.numOfFreeSlots
      /\ v.next = w.next /\ v.prev = w.prev /\ v.group = w.group
  BY <1>1
<1>3. v = w
  BY ONLY v \in AnyHeader, w \in AnyHeader, <1>2 DEF AnyHeader
<1> QED BY ONLY <1>1, <1>3

LEMMA SetNext ==
  ASSUME NEW m \in Memories, NEW s \in Slabs, NEW v \in Pointers
  PROVE  LET n == [m EXCEPT !.slab[s].next = v]
         IN  /\ SameUse(n, m)
             /\ \A q \in Slabs :
                  /\ n.slab[q].group = m.slab[q].group /\ n.slab[q].prev = m.slab[q].prev
                  /\ n.slab[q].next = IF q = s THEN v ELSE m.slab[q].next
             /\ \A d \in Caches, k \in Groups : n.cache[d].list[k] = m.cache[d].list[k]
<1>1. PICK h \in AnyHeader : h = m.slab[s]
  BY Parts
<1>2. PICK x \in AnyHeader : x = [h EXCEPT !.next = v]
  BY DEF AnyHeader
<1>3. /\ x.owner = h.owner /\ x.free = h.free /\ x.freeArray = h.freeArray
      /\ x.numOfFreeSlots = h.numOfFreeSlots
      /\ x.group = h.group /\ x.prev = h.prev /\ x.next = v
  BY ONLY h \in AnyHeader, <1>2 DEF AnyHeader
<1>4. PICK n : n = [m EXCEPT !.slab[s].next = v]
  OBVIOUS
<1>5. n \in Memories
  BY <1>1, <1>2, <1>4 DEF Memories
<1>6. n.cache = m.cache /\ \A q \in Slabs : n.slab[q] = IF q = s THEN x ELSE m.slab[q]
  BY <1>1, <1>2, <1>4 DEF Memories
<1> QED BY ONLY <1>1, <1>3, <1>4, <1>5, <1>6 DEF SameUse

LEMMA SetPrev ==
  ASSUME NEW m \in Memories, NEW s \in Slabs, NEW v \in Pointers
  PROVE  LET n == [m EXCEPT !.slab[s].prev = v]
         IN  /\ SameUse(n, m)
             /\ \A q \in Slabs :
                  /\ n.slab[q].group = m.slab[q].group /\ n.slab[q].next = m.slab[q].next
                  /\ n.slab[q].prev = IF q = s THEN v ELSE m.slab[q].prev
             /\ \A d \in Caches, k \in Groups : n.cache[d].list[k] = m.cache[d].list[k]
<1>1. PICK h \in AnyHeader : h = m.slab[s]
  BY Parts
<1>2. PICK x \in AnyHeader : x = [h EXCEPT !.prev = v]
  BY DEF AnyHeader
<1>3. /\ x.owner = h.owner /\ x.free = h.free /\ x.freeArray = h.freeArray
      /\ x.numOfFreeSlots = h.numOfFreeSlots
      /\ x.group = h.group /\ x.next = h.next /\ x.prev = v
  BY ONLY h \in AnyHeader, <1>2 DEF AnyHeader
<1>4. PICK n : n = [m EXCEPT !.slab[s].prev = v]
  OBVIOUS
<1>5. n \in Memories
  BY <1>1, <1>2, <1>4 DEF Memories
<1>6. n.cache = m.cache /\ \A q \in Slabs : n.slab[q] = IF q = s THEN x ELSE m.slab[q]
  BY <1>1, <1>2, <1>4 DEF Memories
<1> QED BY ONLY <1>1, <1>3, <1>4, <1>5, <1>6 DEF SameUse

LEMMA SetList ==
  ASSUME NEW m \in Memories, NEW c \in Caches, NEW g \in Groups, NEW v \in Pointers
  PROVE  LET n == [m EXCEPT !.cache[c].list[g] = v]
         IN  /\ SameUse(n, m) /\ n.slab = m.slab
             /\ \A d \in Caches, k \in Groups : n.cache[d].list[k] =
                  IF d = c /\ k = g THEN v ELSE m.cache[d].list[k]
  BY DEF Memories, Descriptor, SameUse

Headed(m, s, c, g, v) ==
  [m EXCEPT !.slab[s].group = g, !.slab[s].prev = None,
            !.slab[s].next = v, !.cache[c].list[g] = s]

LEMMA SetHead ==
  ASSUME NEW m \in Memories, NEW s \in Slabs, NEW c \in Caches, NEW g \in Groups,
         NEW v \in Pointers
  PROVE  LET n == Headed(m, s, c, g, v)
         IN  /\ SameUse(n, m)
             /\ \A q \in Slabs :
                  /\ n.slab[q].group = IF q = s THEN g ELSE m.slab[q].group
                  /\ n.slab[q].next = IF q = s THEN v ELSE m.slab[q].next
                  /\ n.slab[q].prev = IF q = s THEN None ELSE m.slab[q].prev
             /\ \A d \in Caches, k \in Groups : n.cache[d].list[k] =
                  IF d = c /\ k = g THEN s ELSE m.cache[d].list[k]
<1> DEFINE n1 == [m EXCEPT !.slab[s].group = g]
           n2 == [n1 EXCEPT !.slab[s].prev = None]
           n3 == [n2 EXCEPT !.slab[s].next = v]
           n4 == [n3 EXCEPT !.cache[c].list[g] = s]
<1>1. /\ SameUse(n1, m) /\ n1.cache = m.cache
      /\ \A q \in Slabs :
           /\ n1.slab[q].group = IF q = s THEN g ELSE m.slab[q].group
           /\ n1.slab[q].next = m.slab[q].next /\ n1.slab[q].prev = m.slab[q].prev
  BY DEF Memories, AnyHeader, SameUse
<1>2. n4 = Headed(m, s, c, g, v)
  BY DEF Headed
<1>3. None \in Pointers /\ s \in Pointers
  BY DEF Pointers
<1> HIDE DEF n1
<1>4. /\ SameUse(n2, n1) /\ n1 \in Memories /\ n2 \in Memories
      /\ \A q \in Slabs :
           /\ n2.slab[q].group = n1.slab[q].group /\ n2.slab[q].next = n1.slab[q].next
           /\ n2.slab[q].prev = IF q = s THEN None ELSE n1.slab[q].prev
      /\ \A d \in Caches, k \in Groups : n2.cache[d].list[k] = n1.cache[d].list[k]
  <2>1. n1 \in Memories
    BY <1>1 DEF SameUse
  <2> QED BY <2>1, <1>3, SetPrev DEF SameUse
<1> HIDE DEF n2
<1>5. /\ SameUse(n3, n2) /\ n3 \in Memories
      /\ \A q \in Slabs :
           /\ n3.slab[q].group = n2.slab[q].group /\ n3.slab[q].prev = n2.slab[q].prev
           /\ n3.slab[q].next = IF q = s THEN v ELSE n2.slab[q].next
      /\ \A d \in Caches, k \in Groups : n3.cache[d].list[k] = n2.cache[d].list[k]
  BY <1>4, SetNext DEF SameUse
<1> HIDE DEF n3
<1>6. /\ SameUse(n4, n3) /\ n4.slab = n3.slab
      /\ \A d \in Caches, k \in Groups : n4.cache[d].list[k] =
           IF d = c /\ k = g THEN s ELSE n3.cache[d].list[k]
  BY <1>3, <1>5, SetList
<1> HIDE DEF n4
<1>7. SameUse(n4, m)
  BY <1>1, <1>4, <1>5, <1>6 DEF SameUse
<1>8. /\ \A q \in Slabs :
           /\ n4.slab[q].group = IF q = s THEN g ELSE m.slab[q].group
           /\ n4.slab[q].next = IF q = s THEN v ELSE m.slab[q].next
           /\ n4.slab[q].prev = IF q = s THEN None ELSE m.slab[q].prev
      /\ \A d \in Caches, k \in Groups : n4.cache[d].list[k] =
           IF d = c /\ k = g THEN s ELSE m.cache[d].list[k]
  BY <1>1, <1>4, <1>5, <1>6
<1> QED BY <1>2, <1>7, <1>8

LEMMA UnlinkWrites ==
  ASSUME NEW m \in Memories, NEW c \in Caches, NEW s \in Slabs,
         m.slab[s].prev = None => m.cache[c].list[m.slab[s].group] = s
  PROVE  SameUse(Unlink(m, c, s), m) /\ UnlinkedFrom(Unlink(m, c, s), m, c, s)
<1>1. PICK p \in Pointers : p = m.slab[s].prev
  BY Parts DEF AnyHeader
<1>2. PICK x \in Pointers : x = m.slab[s].next
  BY Parts DEF AnyHeader
<1>3. PICK g \in Groups : g = m.slab[s].group
  BY Parts DEF AnyHeader
<1>4. /\ None \in Pointers /\ \A q \in Pointers : q # None => q \in Slabs
      /\ None \notin Slabs
  BY Parts DEF Pointers
<1>5. CASE p = None
  <2>1. PICK l : l = [m EXCEPT !.cache[c].list[g] = x]
    OBVIOUS
  <2>2. /\ SameUse(l, m) /\ l.slab = m.slab
        /\ \A d \in Caches, k \in Groups : l.cache[d].list[k] =
             IF d = c /\ k = g THEN x ELSE m.cache[d].list[k]
    BY <2>1, SetList
  <2>3. Unlink(m, c, s) = IF x = None THEN l ELSE [l EXCEPT !.slab[x].prev = None]
    BY <1>1, <1>2, <1>3, <1>5, <2>1 DEF Unlink
  <2>4. ASSUME x = None PROVE SameUse(l, m) /\ UnlinkedFrom(l, m, c, s)
    BY <1>1, <1>2, <1>3, <1>4, <1>5, <2>2, <2>4 DEF UnlinkedFrom
  <2>5. ASSUME x # None, NEW n, n = [l EXCEPT !.slab[x].prev = None]
        PROVE  SameUse(n, m) /\ UnlinkedFrom(n, m, c, s)
    <3>1. x \in Slabs /\ l \in Memories
      BY <1>4, <2>2, <2>5 DEF SameUse
    <3>2. /\ SameUse(n, l)
          /\ \A q \in Slabs :
               /\ n.slab[q].group = l.slab[q].group /\ n.slab[q].next = l.slab[q].next
               /\ n.slab[q].prev = IF q = x THEN None ELSE l.slab[q].prev
          /\ \A d \in Caches, k \in Groups : n.cache[d].list[k] = l.cache[d].list[k]
      BY <1>4, <2>5, <3>1, SetPrev
    <3>3. SameUse(n, m)
      BY <2>2, <3>2 DEF SameUse
    <3> QED BY <1>1, <1>2, <1>3, <1>4, <1>5, <2>2, <3>2, <3>3 DEF UnlinkedFrom
  <2> QED BY <2>3, <2>4, <2>5
<1>6. CASE p # None
  <2>1. PICK l : l = [m EXCEPT !.slab[p].next = x]
    OBVIOUS
  <2>2. /\ SameUse(l, m)
        /\ \A q \in Slabs :
             /\ l.slab[q].group = m.slab[q].group /\ l.slab[q].prev = m.slab[q].prev
             /\ l.slab[q].next = IF q = p THEN x ELSE m.slab[q].next
        /\ \A d \in Caches, k \in Groups : l.cache[d].list[k] = m.cache[d].list[k]
    BY <1>4, <1>6, <2>1, SetNext
  <2>3. Unlink(m, c, s) = IF x = None THEN l ELSE [l EXCEPT !.slab[x].prev = p]
    BY <1>1, <1>2, <1>6, <2>1 DEF Unlink
  <2>4. ASSUME x = None PROVE SameUse(l, m) /\ UnlinkedFrom(l, m, c, s)
    BY <1>1, <1>2, <1>3, <1>4, <1>6, <2>2, <2>4 DEF UnlinkedFrom
  <2>5. ASSUME x # None, NEW n, n = [l EXCEPT !.slab[x].prev = p]
        PROVE  SameUse(n, m) /\ UnlinkedFrom(n, m, c, s)
    <3>1. x \in Slabs /\ l \in Memories
      BY <1>4, <2>2, <2>5 DEF SameUse
    <3>2. /\ SameUse(n, l)
          /\ \A q \in Slabs :
               /\ n.slab[q].group = l.slab[q].group /\ n.slab[q].next = l.slab[q].next
               /\ n.slab[q].prev = IF q = x THEN p ELSE l.slab[q].prev
          /\ \A d \in Caches, k \in Groups : n.cache[d].list[k] = l.cache[d].list[k]
      BY <2>5, <3>1, SetPrev
    <3>3. SameUse(n, m)
      BY <2>2, <3>2 DEF SameUse
    <3> QED BY <1>1, <1>2, <1>3, <1>4, <1>6, <2>2, <3>2, <3>3 DEF UnlinkedFrom
  <2> QED BY <2>3, <2>4, <2>5
<1> QED BY <1>5, <1>6

LEMMA PushWrites ==
  ASSUME NEW m \in Memories, NEW c \in Caches, NEW s \in Slabs, NEW g \in Groups,
         m.cache[c].list[g] # s
  PROVE  SameUse(PushFront(m, c, s, g), m) /\ PushedTo(PushFront(m, c, s, g), m, c, s, g)
<1>1. PICK h \in Pointers : h = m.cache[c].list[g]
  BY Parts DEF Descriptor
<1>2. /\ s \in Pointers /\ \A q \in Pointers : q # None => q \in Slabs
      /\ None \notin Slabs
  BY Parts DEF Pointers
<1>3. PICK l : l = Headed(m, s, c, g, h)
  OBVIOUS
<1>4. /\ SameUse(l, m)
      /\ \A q \in Slabs :
           /\ l.slab[q].group = IF q = s THEN g ELSE m.slab[q].group
           /\ l.slab[q].next = IF q = s THEN h ELSE m.slab[q].next
           /\ l.slab[q].prev = IF q = s THEN None ELSE m.slab[q].prev
      /\ \A d \in Caches, k \in Groups : l.cache[d].list[k] =
           IF d = c /\ k = g THEN s ELSE m.cache[d].list[k]
  BY <1>3, SetHead
<1>5. PushFront(m, c, s, g) = IF h = None THEN l ELSE [l EXCEPT !.slab[h].prev = s]
  BY <1>1, <1>3 DEF PushFront, Headed
<1>6. ASSUME h = None PROVE SameUse(l, m) /\ PushedTo(l, m, c, s, g)
  BY <1>1, <1>2, <1>4, <1>6 DEF PushedTo
<1>7. ASSUME h # None, NEW n, n = [l EXCEPT !.slab[h].prev = s]
      PROVE  SameUse(n, m) /\ PushedTo(n, m, c, s, g)
  <2>1. h \in Slabs /\ l \in Memories
    BY <1>2, <1>4, <1>7 DEF SameUse
  <2>2. /\ SameUse(n, l)
        /\ \A q \in Slabs :
             /\ n.slab[q].group = l.slab[q].group /\ n.slab[q].next = l.slab[q].next
             /\ n.slab[q].prev = IF q = h THEN s ELSE l.slab[q].prev
        /\ \A d \in Caches, k \in Groups : n.cache[d].list[k] = l.cache[d].list[k]
    BY <1>2, <1>7, <2>1, SetPrev
  <2>3. SameUse(n, m)
    BY <1>4, <2>2 DEF SameUse
  <2> QED BY <1>1, <1>2, <1>4, <2>2, <2>3 DEF PushedTo
<1>8. CASE h = None
  BY <1>5, <1>6, <1>8
<1>9. CASE h # None
  <2>1. PushFront(m, c, s, g) = [l EXCEPT !.slab[h].prev = s]
    BY <1>5, <1>9
  <2> QED BY <1>7, <1>9, <2>1
<1> QED BY <1>8, <1>9

-----------------------------------------------------------------------------
(* The lists after them.                                                   *)
LEMMA LinkedSame ==
  ASSUME NEW m, NEW n, NEW c, NEW g, NEW M, Linked(m, c, g, M), None \notin M,
         \A q \in M : n.slab[q].next = m.slab[q].next /\ n.slab[q].prev = m.slab[q].prev,
         n.cache[c].list[g] = m.cache[c].list[g]
  PROVE  Linked(n, c, g, M)
<1>1. \A q \in M : /\ m.slab[q].next \in M \cup {None}
                   /\ m.slab[q].prev \in M \cup {None}
  BY DEF Linked
<1>2. \A S \in SUBSET M : (\A s \in S : n.slab[s].next \in S \cup {None})
                          <=> (\A s \in S : m.slab[s].next \in S \cup {None})
  OBVIOUS
<1> QED BY <1>1, <1>2 DEF Linked

(* An element is taken out of a list.                                      *)
LEMMA LinkedWithout ==
  ASSUME NEW m, NEW n, NEW c \in Caches, NEW M \in SUBSET Slabs, NEW s \in M,
         NEW g \in Groups, g = m.slab[s].group,
         Linked(m, c, g, M), UnlinkedFrom(n, m, c, s)
  PROVE  Linked(n, c, g, M \ {s})
<1>1. PICK next : next = [q \in M |-> m.slab[q].next]
  OBVIOUS
<1>2. PICK prev : prev = [q \in M |-> m.slab[q].prev]
  OBVIOUS
<1>3. PICK head : head = m.cache[c].list[g]
  OBVIOUS
<1>4. PICK p, x : p = prev[s] /\ x = next[s]
  BY Zenon
<1>5. PICK next1 : next1 = [q \in M |-> IF q = p THEN x ELSE next[q]]
  OBVIOUS
<1>6. PICK prev1 : prev1 = [q \in M |-> IF q = x THEN p ELSE prev[q]]
  OBVIOUS
<1>7. PICK head1 : head1 = IF p = None THEN x ELSE head
  OBVIOUS
<1>8. /\ None \notin M /\ head \in M \cup {None}
      /\ \A q \in M : /\ next[q] \in M \cup {None} /\ prev[q] \in M \cup {None}
                      /\ prev[q] = None <=> head = q
                      /\ next[q] # None => prev[next[q]] = q
                      /\ prev[q] # None => next[prev[q]] = q
  BY <1>1, <1>2, <1>3, SlabAssumption DEF Linked
<1>9. \A S \in SUBSET M :
        head \in S \cup {None} /\ (\A q \in S : next[q] \in S \cup {None}) => S = M
  BY <1>1, <1>3 DEF Linked
<1>10. /\ \A q \in M : n.slab[q].next = next1[q] /\ n.slab[q].prev = prev1[q]
       /\ n.cache[c].list[g] = head1
  BY <1>1, <1>2, <1>3, <1>4, <1>5, <1>6, <1>7 DEF UnlinkedFrom
<1>11. head1 \in (M \ {s}) \cup {None}
  BY <1>4, <1>7, <1>8
<1>12. ASSUME NEW q \in M \ {s}
       PROVE  /\ next1[q] \in (M \ {s}) \cup {None}
              /\ prev1[q] \in (M \ {s}) \cup {None}
              /\ prev1[q] = None <=> head1 = q
              /\ next1[q] # None => prev1[next1[q]] = q
              /\ prev1[q] # None => next1[prev1[q]] = q
  BY <1>4, <1>5, <1>6, <1>7, <1>8
<1>13. ASSUME NEW S \in SUBSET (M \ {s}), head1 \in S \cup {None},
              \A q \in S : next1[q] \in S \cup {None}
       PROVE  S = M \ {s}
  <2>1. CASE p = None \/ p \in S
    <3>1. PICK T : T = S \cup {s}
      OBVIOUS
    <3>2. head \in T \cup {None}
      BY <1>4, <1>7, <1>8, <1>13, <2>1, <3>1
    <3>3. x \in S \cup {None}
      <4>1. CASE p = None
        BY <1>7, <1>13, <4>1
      <4>2. CASE p \in S
        BY <1>5, <1>13, <4>2
      <4> QED BY <2>1, <4>1, <4>2
    <3>4. ASSUME NEW q \in S PROVE next[q] \in T \cup {None}
      <4>1. CASE q = p
        BY <1>4, <1>8, <3>1, <4>1
      <4>2. CASE q # p
        <5>1. q \in M /\ next1[q] = next[q] /\ next1[q] \in S \cup {None}
          BY <1>5, <1>13, <4>2
        <5> QED BY <3>1, <5>1
      <4> QED BY <4>1, <4>2
    <3>5. \A q \in T : next[q] \in T \cup {None}
      BY <1>4, <3>1, <3>3, <3>4
    <3>6. T \in SUBSET M
      BY <3>1
    <3>7. T = M
      BY ONLY <1>9, <3>2, <3>5, <3>6
    <3> QED BY <3>1, <3>7
  <2>2. CASE p # None /\ p \notin S
    BY <1>5, <1>7, <1>9, <1>13, <2>2
  <2> QED BY <2>1, <2>2
<1>14. \A S \in SUBSET (M \ {s}) : (\A q \in S : n.slab[q].next \in S \cup {None})
                                  <=> (\A q \in S : next1[q] \in S \cup {None})
  BY <1>10
<1> QED BY <1>8, <1>10, <1>11, <1>12, <1>13, <1>14 DEF Linked

(* An element becomes the head of a list.                                  *)
LEMMA LinkedWith ==
  ASSUME NEW m, NEW n, NEW c \in Caches, NEW M \in SUBSET Slabs, NEW s \in Slabs \ M,
         NEW g \in Groups, Linked(m, c, g, M), PushedTo(n, m, c, s, g)
  PROVE  Linked(n, c, g, M \cup {s})
<1>1. PICK next : next = [q \in M |-> m.slab[q].next]
  OBVIOUS
<1>2. PICK prev : prev = [q \in M |-> m.slab[q].prev]
  OBVIOUS
<1>3. PICK head : head = m.cache[c].list[g]
  OBVIOUS
<1>4. PICK M1 : M1 = M \cup {s}
  OBVIOUS
<1>5. PICK next1 : next1 = [q \in M1 |-> IF q = s THEN head ELSE next[q]]
  OBVIOUS
<1>6. PICK prev1 : prev1 = [q \in M1 |-> IF q = s THEN None ELSE IF q = head THEN s ELSE prev[q]]
  OBVIOUS
<1>7. /\ None \notin M1 /\ head \in M \cup {None}
      /\ \A q \in M : /\ next[q] \in M \cup {None} /\ prev[q] \in M \cup {None}
                      /\ prev[q] = None <=> head = q
                      /\ next[q] # None => prev[next[q]] = q
                      /\ prev[q] # None => next[prev[q]] = q
  BY <1>1, <1>2, <1>3, <1>4, SlabAssumption DEF Linked
<1>8. \A S \in SUBSET M :
        head \in S \cup {None} /\ (\A q \in S : next[q] \in S \cup {None}) => S = M
  BY <1>1, <1>3 DEF Linked
<1>9. /\ \A q \in M1 : n.slab[q].next = next1[q] /\ n.slab[q].prev = prev1[q]
      /\ n.cache[c].list[g] = s
  BY <1>1, <1>2, <1>3, <1>4, <1>5, <1>6 DEF PushedTo
<1>10. ASSUME NEW q \in M1
       PROVE  /\ next1[q] \in M1 \cup {None}
              /\ prev1[q] \in M1 \cup {None}
              /\ prev1[q] = None <=> s = q
              /\ next1[q] # None => prev1[next1[q]] = q
              /\ prev1[q] # None => next1[prev1[q]] = q
  BY <1>4, <1>5, <1>6, <1>7
<1>11. ASSUME NEW S \in SUBSET M1, s \in S \cup {None},
              \A q \in S : next1[q] \in S \cup {None}
       PROVE  S = M1
  <2>1. PICK T : T = S \ {s}
    OBVIOUS
  <2>2. s \in S /\ T \in SUBSET M
    BY <1>4, <1>7, <1>11, <2>1
  <2>3. head \in T \cup {None}
    <3>1. next1[s] = head /\ next1[s] \in S \cup {None}
      BY <1>4, <1>5, <1>11, <2>2
    <3> QED BY <1>7, <2>1, <3>1
  <2>4. ASSUME NEW q \in T PROVE next[q] \in T \cup {None}
    <3>1. q \in M /\ q \in S /\ q # s
      BY <2>1, <2>2
    <3>2. next1[q] = next[q] /\ next1[q] \in S \cup {None}
      BY <1>4, <1>5, <1>11, <3>1
    <3> QED BY <1>7, <2>1, <3>1, <3>2
  <2>5. T = M
    BY <1>8, <2>2, <2>3, <2>4
  <2> QED BY <1>4, <2>1, <2>2, <2>5
<1>12. \A S \in SUBSET M1 : (\A q \in S : n.slab[q].next \in S \cup {None})
                            <=> (\A q \in S : next1[q] \in S \cup {None})
  BY <1>9
<1>13. Linked(n, c, g, M1)
  BY <1>4, <1>7, <1>9, <1>10, <1>11, <1>12 DEF Linked
<1> QED BY <1>4, <1>13

(* All the lists at once: a slab is taken off or becomes the first of one, *)
(* and the slabs of other caches are left alone.                           *)
TakenOff(n, m, c) ==
  /\ SameUse(n, m)
  /\ \A q \in Slabs : n.slab[q].group = m.slab[q].group
  /\ \A q \in Slabs : m.slab[q].owner # c => n.slab[q] = m.slab[q]

PutOn(n, m, c, s, g) ==
  /\ SameUse(n, m)
  /\ \A q \in Slabs : n.slab[q].group = IF q = s THEN g ELSE m.slab[q].group
  /\ \A q \in Slabs : m.slab[q].owner # c => n.slab[q] = m.slab[q]
  /\ n.cache[c].list[g] = s

LEMMA ListsWithout ==
  ASSUME NEW m \in Memories, NEW S \in SUBSET Slabs, NEW s \in S, NEW c \in Caches,
         m.slab[s].owner = c, Lists(m, S)
  PROVE  TakenOff(Unlink(m, c, s), m, c) /\ Lists(Unlink(m, c, s), S \ {s})
<1>1. PICK n : n = Unlink(m, c, s)
  OBVIOUS
<1>2. PICK g \in Groups : g = m.slab[s].group
  BY Parts DEF AnyHeader
<1>3. PICK M \in SUBSET Slabs : M = Grouped(m, c, g, S)
  BY DEF Grouped
<1>4. Linked(m, c, g, M) /\ s \in M
  BY <1>2, <1>3 DEF Lists, Grouped
<1>5. m.slab[s].prev = None => m.cache[c].list[g] = s
  BY <1>4 DEF Linked
<1>6. SameUse(n, m) /\ UnlinkedFrom(n, m, c, s)
  BY <1>1, <1>2, <1>5, UnlinkWrites
<1>7. /\ \A q \in Slabs : n.slab[q].group = m.slab[q].group
      /\ \A d \in Caches, k \in Groups :
           Grouped(n, d, k, S \ {s}) = Grouped(m, d, k, S) \ {s}
  BY <1>6 DEF SameUse, UnlinkedFrom, Grouped
<1>8. ASSUME NEW d \in Caches, NEW k \in Groups
      PROVE  Linked(n, d, k, Grouped(n, d, k, S \ {s}))
  <2>1. CASE d = c /\ k = g
    <3>1. Linked(n, c, g, M \ {s})
      BY <1>2, <1>4, <1>6, LinkedWithout
    <3> QED BY <1>3, <1>7, <2>1, <3>1
  <2>2. CASE ~(d = c /\ k = g)
    <3>1. PICK K \in SUBSET Slabs : K = Grouped(m, d, k, S)
      BY DEF Grouped
    <3>2. s \notin K /\ K \cap M = {} /\ None \notin K
      BY <1>2, <1>3, <2>2, <3>1, SlabAssumption DEF Grouped
    <3>3. m.slab[s].next \in M \cup {None} /\ m.slab[s].prev \in M \cup {None}
      BY <1>4 DEF Linked
    <3>4. /\ \A q \in K : n.slab[q].next = m.slab[q].next /\ n.slab[q].prev = m.slab[q].prev
          /\ n.cache[d].list[k] = m.cache[d].list[k]
      BY <1>2, <1>6, <2>2, <3>2, <3>3 DEF UnlinkedFrom
    <3>5. Linked(n, d, k, K)
      BY <3>1, <3>2, <3>4, LinkedSame DEF Lists
    <3>6. Grouped(n, d, k, S \ {s}) = K
      <4>1. K \ {s} = K
        BY <3>2
      <4> QED BY <1>7, <3>1, <4>1
    <3> QED BY <3>5, <3>6
  <2> QED BY <2>1, <2>2
<1>9. Lists(n, S \ {s})
  BY <1>8 DEF Lists
<1>10. ASSUME NEW q \in Slabs, m.slab[q].owner # c PROVE n.slab[q] = m.slab[q]
  <2>1. q # m.slab[s].next /\ q # m.slab[s].prev
    BY <1>3, <1>4, <1>10, Parts DEF Linked, Grouped
  <2>2. n \in Memories
    BY <1>6 DEF SameUse
  <2> QED BY <1>6, <2>1, <2>2, HeaderFields DEF SameUse, UnlinkedFrom
<1> QED BY <1>1, <1>6, <1>7, <1>9, <1>10 DEF TakenOff

LEMMA ListsWith ==
  ASSUME NEW m \in Memories, NEW S \in SUBSET Slabs, NEW s \in Slabs \ S, NEW c \in Caches,
         NEW g \in Groups, m.slab[s].owner = c, Lists(m, S)
  PROVE  PutOn(PushFront(m, c, s, g), m, c, s, g) /\ Lists(PushFront(m, c, s, g), S \cup {s})
<1>1. PICK n : n = PushFront(m, c, s, g)
  OBVIOUS
<1>2. PICK M \in SUBSET Slabs : M = Grouped(m, c, g, S)
  BY DEF Grouped
<1>3. Linked(m, c, g, M) /\ s \notin M
  BY <1>2 DEF Lists, Grouped
<1>4. m.cache[c].list[g] \in M \cup {None} /\ None \notin Slabs
  BY <1>3, SlabAssumption DEF Linked
<1>5. SameUse(n, m) /\ PushedTo(n, m, c, s, g)
  BY <1>1, <1>3, <1>4, PushWrites
<1>6. /\ \A q \in Slabs : n.slab[q].group = IF q = s THEN g ELSE m.slab[q].group
      /\ \A d \in Caches, k \in Groups :
           Grouped(n, d, k, S \cup {s}) =
             Grouped(m, d, k, S) \cup (IF d = c /\ k = g THEN {s} ELSE {})
  BY <1>5 DEF SameUse, PushedTo, Grouped
<1>7. ASSUME NEW d \in Caches, NEW k \in Groups
      PROVE  Linked(n, d, k, Grouped(n, d, k, S \cup {s}))
  <2>1. CASE d = c /\ k = g
    <3>1. Linked(n, c, g, M \cup {s})
      BY <1>3, <1>5, LinkedWith
    <3> QED BY <1>2, <1>6, <2>1, <3>1
  <2>2. CASE ~(d = c /\ k = g)
    <3>1. PICK K \in SUBSET Slabs : K = Grouped(m, d, k, S)
      BY DEF Grouped
    <3>2. s \notin K /\ K \cap M = {} /\ None \notin K
      BY <1>2, <2>2, <3>1, SlabAssumption DEF Grouped
    <3>3. /\ \A q \in K : n.slab[q].next = m.slab[q].next /\ n.slab[q].prev = m.slab[q].prev
          /\ n.cache[d].list[k] = m.cache[d].list[k]
      BY <1>4, <1>5, <2>2, <3>2 DEF PushedTo
    <3>4. Linked(n, d, k, K)
      BY <3>1, <3>2, <3>3, LinkedSame DEF Lists
    <3> QED BY <1>6, <2>2, <3>1, <3>4
  <2> QED BY <2>1, <2>2
<1>8. Lists(n, S \cup {s})
  BY <1>7 DEF Lists
<1>9. ASSUME NEW q \in Slabs, m.slab[q].owner # c PROVE n.slab[q] = m.slab[q]
  <2>1. q # s /\ q # m.cache[c].list[g]
    BY <1>2, <1>4, <1>9, Parts DEF Grouped
  <2>2. n \in Memories
    BY <1>5 DEF SameUse
  <2> QED BY <1>5, <2>1, <2>2, HeaderFields DEF SameUse, PushedTo
<1> QED BY <1>1, <1>5, <1>6, <1>8, <1>9 DEF PushedTo, PutOn

LEMMA Heads ==
  ASSUME NEW m \in Memories, NEW c \in Caches, NEW g \in Groups, Lists(m, Slabs)
  PROVE  LET head == m.cache[c].list[g]
         IN  /\ head = None => Grouped(m, c, g, Slabs) = {}
             /\ head # None => /\ head \in Slabs /\ m.slab[head].prev = None
                               /\ m.slab[head].owner = c /\ m.slab[head].group = g
<1>1. PICK M : M = Grouped(m, c, g, Slabs)
  OBVIOUS
<1>2. PICK head : head = m.cache[c].list[g]
  OBVIOUS
<1>3. Linked(m, c, g, M)
  BY <1>1 DEF Lists
<1>4. ASSUME head = None PROVE M = {}
  <2>1. {} \in SUBSET M /\ head \in {} \cup {None}
    BY <1>4
  <2> QED BY <1>2, <1>3, <2>1 DEF Linked
<1>5. ASSUME head # None PROVE head \in M /\ m.slab[head].prev = None
  BY <1>2, <1>3, <1>5 DEF Linked
<1> QED BY <1>1, <1>2, <1>4, <1>5 DEF Grouped

LEMMA SlabMoves ==
  ASSUME NEW m \in Memories, NEW s \in Slabs, NEW c \in Caches, NEW g \in Groups,
         m.slab[s].owner = c, Lists(m, Slabs)
  PROVE  PutOn(moveSlab(m, c, s, g), m, c, s, g) /\ Lists(moveSlab(m, c, s, g), Slabs)
<1>1. PICK l : l = Unlink(m, c, s)
  OBVIOUS
<1>2. PICK R \in SUBSET Slabs : R = Slabs \ {s}
  OBVIOUS
<1>3. TakenOff(l, m, c) /\ Lists(l, R)
  BY <1>1, <1>2, ListsWithout
<1>4. l \in Memories /\ l.slab[s].owner = c /\ s \in Slabs \ R
  BY <1>2, <1>3 DEF SameUse, TakenOff
<1>5. PICK n : n = PushFront(l, c, s, g)
  OBVIOUS
<1>6. PutOn(n, l, c, s, g) /\ Lists(n, R \cup {s})
  BY <1>3, <1>4, <1>5, ListsWith
<1>7. PutOn(n, m, c, s, g)
  BY <1>3, <1>6 DEF TakenOff, PutOn, SameUse
<1>8. n = moveSlab(m, c, s, g) /\ R \cup {s} = Slabs
  BY <1>1, <1>2, <1>5 DEF moveSlab
<1> QED BY <1>6, <1>7, <1>8

(* The head of slabsFree: moveFree does what moveSlab does.                *)
LEMMA FreeMoves ==
  ASSUME NEW m \in Memories, NEW s \in Slabs, NEW c \in Caches, NEW g \in Groups,
         m.cache[c].list["FREE"] = s, Lists(m, Slabs)
  PROVE  /\ m.slab[s].owner = c
         /\ PutOn(moveFree(m, c, s, g), m, c, s, g) /\ Lists(moveFree(m, c, s, g), Slabs)
<1>1. "FREE" \in Groups /\ s # None
  BY SlabAssumption DEF Groups
<1>2. m.slab[s].prev = None /\ m.slab[s].owner = c /\ m.slab[s].group = "FREE"
  BY <1>1, Heads
<1>3. PopFree(m, c) = Unlink(m, c, s)
  BY ONLY <1>2, m.cache[c].list["FREE"] = s DEF PopFree, Unlink
<1>4. moveFree(m, c, s, g) = moveSlab(m, c, s, g)
  BY <1>3 DEF moveFree, moveSlab
<1> QED BY <1>2, <1>4, SlabMoves

-----------------------------------------------------------------------------
(* The free list of a slab, whose slots are F: a chain from free along     *)
(* link, in which a slot's rank is its distance from the end.              *)
Ranked(free, link, F, rank) ==
  /\ rank \in [F -> 1 .. Cardinality(F)]
  /\ \A i, j \in F : rank[i] = rank[j] => i = j
  /\ free # End => free \in F /\ rank[free] = Cardinality(F)
  /\ \A i \in F : IF rank[i] = 1 THEN link[i] = End
                  ELSE link[i] \in F /\ rank[link[i]] = rank[i] - 1

Chained(free, link, F) ==
  /\ free = End <=> F = {}
  /\ \E rank \in [F -> 1 .. Cardinality(F)] : Ranked(free, link, F, rank)

(* The first slot is taken.                                                *)
LEMMA ChainTaken ==
  ASSUME NEW F \in SUBSET Nat, IsFiniteSet(F), NEW free, NEW link,
         Chained(free, link, F), F # {}
  PROVE  /\ free \in F /\ Cardinality(F \ {free}) = Cardinality(F) - 1
         /\ Chained(link[free], link, F \ {free})
<1>1. PICK rank : Ranked(free, link, F, rank)
  BY DEF Chained
<1>2. free \in F
  BY <1>1 DEF Chained, Ranked
<1>3. PICK size \in Nat : size = Cardinality(F)
  BY FS_CardinalityType
<1>4. PICK G : G = F \ {free}
  OBVIOUS
<1>5. /\ IsFiniteSet(G) /\ Cardinality(G) = size - 1
  BY <1>2, <1>3, <1>4, FS_RemoveElement
<1>6. PICK rest : rest = [i \in G |-> rank[i]]
  OBVIOUS
<1>7. \A i \in F : rank[i] \in 1 .. size /\ (rank[i] = size => i = free)
  BY <1>1, <1>2, <1>3 DEF Ranked, End
<1>8. rest \in [G -> 1 .. size - 1]
  <2>1. ASSUME NEW i \in G PROVE rank[i] \in 1 .. size - 1
    BY <1>3, <1>4, <1>7
  <2> QED BY <1>6, <2>1
<1>9. link[free] = End <=> G = {}
  <2>1. rank[free] = size
    BY <1>1, <1>2, <1>3 DEF Ranked, End
  <2>2. CASE size = 1
    <3>1. link[free] = End
      BY <1>1, <1>2, <2>1, <2>2 DEF Ranked
    <3>2. G = {}
      BY <1>5, <2>2, FS_EmptySet
    <3> QED BY <3>1, <3>2
  <2>3. CASE size # 1
    <3>1. link[free] \in F /\ rank[link[free]] = size - 1
      BY <1>1, <1>2, <2>1, <2>3 DEF Ranked
    <3>2. link[free] # free /\ link[free] # End
      BY <1>3, <2>1, <3>1 DEF End
    <3> QED BY <1>4, <3>1, <3>2
  <2> QED BY <2>2, <2>3
<1>10. Ranked(link[free], link, G, rest)
  <2>1. \A i, j \in G : rest[i] = rest[j] => i = j
    BY <1>1, <1>4, <1>6 DEF Ranked
  <2>2. ASSUME link[free] # End PROVE link[free] \in G /\ rest[link[free]] = size - 1
    <3>1. rank[free] = size /\ link[free] \in F /\ rank[link[free]] = size - 1
      BY <1>1, <1>2, <1>3, <2>2 DEF Ranked, End, Chained
    <3>2. link[free] \in G
      BY <1>3, <1>4, <3>1
    <3> QED BY <1>6, <3>1, <3>2
  <2>3. ASSUME NEW i \in G
        PROVE  IF rest[i] = 1 THEN link[i] = End
               ELSE link[i] \in G /\ rest[link[i]] = rest[i] - 1
    <3>1. i \in F /\ rest[i] = rank[i] /\ rank[i] \in 1 .. size /\ rank[i] # size
      BY <1>4, <1>6, <1>7
    <3>2. CASE rank[i] = 1
      BY <1>1, <3>1, <3>2 DEF Ranked
    <3>3. CASE rank[i] # 1
      <4>1. link[i] \in F /\ rank[link[i]] = rank[i] - 1
        BY <1>1, <3>1, <3>3 DEF Ranked
      <4>2. rank[free] = size
        BY <1>1, <1>2, <1>3 DEF Ranked, End
      <4>3. link[i] \in G
        BY <1>3, <1>4, <3>1, <4>1, <4>2
      <4> QED BY <1>6, <3>1, <3>3, <4>1, <4>3
    <3> QED BY <3>2, <3>3
  <2> QED BY <1>5, <1>8, <2>1, <2>2, <2>3 DEF Ranked
<1> QED BY <1>2, <1>3, <1>4, <1>5, <1>8, <1>9, <1>10 DEF Chained

(* A slot becomes the first.                                               *)
Put(link, i, free) == [link EXCEPT ![i] = free]

LEMMA ChainPut ==
  ASSUME NEW D \in SUBSET Nat, NEW F \in SUBSET D, IsFiniteSet(F), NEW free,
         NEW link, DOMAIN link = D, NEW i \in D \ F, Chained(free, link, F),
         NEW G, G = F \cup {i}, NEW link1, link1 = Put(link, i, free)
  PROVE  Cardinality(G) = Cardinality(F) + 1 /\ Chained(i, link1, G)
<1>1. PICK rank : Ranked(free, link, F, rank)
  BY DEF Chained
<1>2. PICK size \in Nat : size = Cardinality(F)
  BY FS_CardinalityType
<1>3. G = F \cup {i}
  OBVIOUS
<1>4. Cardinality(G) = size + 1
  BY <1>2, <1>3, FS_AddElement
<1>5. PICK more : more = [j \in G |-> IF j = i THEN size + 1 ELSE rank[j]]
  OBVIOUS
<1>6. link1 = [link EXCEPT ![i] = free]
  BY DEF Put
<1>7. link1[i] = free /\ \A j \in F : link1[j] = link[j]
  BY <1>6
<1>8. \A j \in F : rank[j] \in 1 .. size /\ more[j] = rank[j] /\ j # i
  BY <1>1, <1>2, <1>3, <1>5 DEF Ranked
<1>9. more[i] = size + 1
  BY <1>3, <1>5
<1>10. more \in [G -> 1 .. size + 1]
  BY <1>3, <1>5, <1>8
<1>11. i # End /\ i \in G
  BY <1>3 DEF End
<1>12. size = 0 <=> F = {}
  BY <1>2, FS_EmptySet
<1>13. Ranked(i, link1, G, more)
  <2>1. \A j, k \in G : more[j] = more[k] => j = k
    <3>1. \A j, k \in F : rank[j] = rank[k] => j = k
      BY <1>1 DEF Ranked
    <3>2. \A j \in F : more[j] # more[i]
      BY <1>2, <1>8, <1>9
    <3> QED BY <1>3, <1>8, <3>1, <3>2
  <2>2. ASSUME NEW j \in G
        PROVE  IF more[j] = 1 THEN link1[j] = End
               ELSE link1[j] \in G /\ more[link1[j]] = more[j] - 1
    <3>1. CASE j = i
      <4>1. CASE F = {}
        BY <1>7, <1>9, <1>12, <3>1, <4>1 DEF Chained
      <4>2. CASE F # {}
        <5>1. free \in F /\ rank[free] = size /\ size # 0
          BY <1>1, <1>2, <1>12, <4>2 DEF Ranked, Chained
        <5>2. free \in G /\ more[free] = size /\ more[j] # 1
          BY <1>2, <1>3, <1>8, <1>9, <3>1, <5>1
        <5> QED BY <1>2, <1>7, <1>9, <3>1, <5>2
      <4> QED BY <4>1, <4>2
    <3>2. CASE j # i
      <4>1. j \in F /\ more[j] = rank[j] /\ link1[j] = link[j]
        BY <1>3, <1>7, <1>8, <2>2, <3>2
      <4>2. CASE rank[j] = 1
        BY <1>1, <4>1, <4>2 DEF Ranked
      <4>3. CASE rank[j] # 1
        <5>1. link[j] \in F /\ rank[link[j]] = rank[j] - 1
          BY <1>1, <4>1, <4>3 DEF Ranked
        <5> QED BY <1>3, <1>8, <4>1, <4>3, <5>1
      <4> QED BY <4>2, <4>3
    <3> QED BY <3>1, <3>2
  <2> QED BY <1>4, <1>9, <1>10, <1>11, <2>1, <2>2 DEF Ranked
<1> QED BY <1>2, <1>4, <1>10, <1>11, <1>13 DEF Chained

(* What initSlab makes.                                                    *)
LEMMA ChainNew ==
  ASSUME NEW c \in Caches
  PROVE  /\ IsFiniteSet(Slots(c)) /\ Cardinality(Slots(c)) = objNum[c]
         /\ 0 \in Slots(c) /\ FreeChain(c) \in [Slots(c) -> Slots(c) \cup {End}]
         /\ Chained(0, FreeChain(c), Slots(c))
<1>1. PICK size \in Nat \ {0} : size = objNum[c]
  BY SlabAssumption
<1>2. Slots(c) = 0 .. size - 1
  BY <1>1 DEF Slots
<1>3. IsFiniteSet(Slots(c)) /\ Cardinality(Slots(c)) = size
  BY <1>2, FS_Interval
<1>4. PICK rank : rank = [i \in 0 .. size - 1 |-> size - i]
  OBVIOUS
<1>5. PICK link : link = FreeChain(c)
  OBVIOUS
<1>6. \A i \in 0 .. size - 1 : /\ link[i] = IF i = size - 1 THEN End ELSE i + 1
                               /\ link[i] \in Slots(c) \cup {End}
  BY <1>1, <1>2, <1>5 DEF FreeChain
<1>7. rank \in [Slots(c) -> 1 .. size]
  BY <1>2, <1>4
<1>8. Ranked(0, link, Slots(c), rank)
  BY <1>2, <1>3, <1>4, <1>6, <1>7 DEF Ranked
<1>9. 0 \in Slots(c) /\ 0 # End
  BY <1>2 DEF End
<1>10. FreeChain(c) \in [Slots(c) -> Slots(c) \cup {End}]
  BY <1>2, <1>5, <1>6 DEF FreeChain
<1> QED BY <1>1, <1>3, <1>5, <1>7, <1>8, <1>9, <1>10 DEF Chained

-----------------------------------------------------------------------------
(* The whole: m is the memory, cr the caches created, av the blocks        *)
(* available, lv the objects in use.                                       *)
OwnedIn(m, c)     == {s \in Slabs : m.slab[s].owner = c}
FreeOf(m, lv, s)  == {i \in Slots(m.slab[s].owner) : <<s, i>> \notin lv}

Listed(m, cr, av) ==
  /\ m \in Memories /\ cr \subseteq Caches
  /\ av = {s \in Slabs : m.slab[s].owner = None}
  /\ \A s \in Slabs : m.slab[s].owner = None => m.slab[s] = BlankSlab
  /\ \A s \in Slabs : m.slab[s].owner # None => m.slab[s].owner \in cr
  /\ Lists(m, Slabs)
  /\ \A c \in cr : m.cache[c].numOfSlabs = Cardinality(OwnedIn(m, c))

Accounted(m, lv) ==
  /\ lv \subseteq Slabs \X Nat
  /\ \A o \in lv : m.slab[o[1]].owner # None /\ o[2] \in Slots(m.slab[o[1]].owner)

Intact(m, lv, s) ==
  LET h == m.slab[s]
  IN  /\ h.freeArray \in [Slots(h.owner) -> Slots(h.owner) \cup {End}]
      /\ h.numOfFreeSlots = Cardinality(FreeOf(m, lv, s))
      /\ Chained(h.free, h.freeArray, FreeOf(m, lv, s))

Fits(m, lv, s) ==
  m.slab[s].group = IF FreeOf(m, lv, s) = {} THEN "FULL"
                    ELSE IF FreeOf(m, lv, s) = Slots(m.slab[s].owner) THEN "FREE"
                    ELSE "PARTIAL"

Consistent(m, cr, av, lv) ==
  /\ Listed(m, cr, av) /\ Accounted(m, lv)
  /\ \A s \in Slabs : m.slab[s].owner # None => Intact(m, lv, s) /\ Fits(m, lv, s)

(* Before takeFromPartial: the group of the slab that it takes from may    *)
(* not be right yet.                                                       *)
Ready(m, cr, av, lv, c) ==
  LET first == m.cache[c].list["PARTIAL"]
  IN  /\ Listed(m, cr, av) /\ Accounted(m, lv)
      /\ first \in Slabs /\ m.slab[first].owner = c /\ FreeOf(m, lv, first) # {}
      /\ \A s \in Slabs : m.slab[s].owner # None =>
           Intact(m, lv, s) /\ (s # first => Fits(m, lv, s))

LEMMA GroupNames == Groups = {"FULL", "PARTIAL", "FREE"}
  BY DEF Groups

LEMMA ListedMoved ==
  ASSUME NEW m, NEW n, NEW cr, NEW av, NEW c \in cr, NEW s \in Slabs, NEW g,
         m.slab[s].owner = c, Listed(m, cr, av), PutOn(n, m, c, s, g), Lists(n, Slabs)
  PROVE  Listed(n, cr, av)
<1>1. n \in Memories /\ \A q \in Slabs : n.slab[q].owner = m.slab[q].owner
  BY DEF PutOn, SameUse
<1>2. c # None
  BY Parts DEF Listed
<1>3. \A q \in Slabs : n.slab[q].owner = None => n.slab[q] = BlankSlab
  BY <1>1, <1>2 DEF Listed, PutOn
<1>4. \A d \in cr : OwnedIn(n, d) = OwnedIn(m, d) /\ n.cache[d].numOfSlabs = m.cache[d].numOfSlabs
  BY <1>1 DEF OwnedIn, PutOn, SameUse, Listed
<1>5. av = {q \in Slabs : n.slab[q].owner = None}
  BY <1>1 DEF Listed
<1> QED BY <1>1, <1>3, <1>4, <1>5 DEF Listed

LEMMA UseKept ==
  ASSUME NEW m, NEW n, NEW lv, SameUse(n, m)
  PROVE  /\ Accounted(m, lv) => Accounted(n, lv)
         /\ \A q \in Slabs : /\ FreeOf(n, lv, q) = FreeOf(m, lv, q)
                             /\ Intact(m, lv, q) => Intact(n, lv, q)
                             /\ n.slab[q].group = m.slab[q].group /\ Fits(m, lv, q) => Fits(n, lv, q)
<1>1. \A q \in Slabs : FreeOf(n, lv, q) = FreeOf(m, lv, q)
  BY DEF FreeOf, SameUse
<1>2. Accounted(m, lv) => Accounted(n, lv)
  BY DEF Accounted, SameUse
<1>3. \A q \in Slabs : Intact(m, lv, q) => Intact(n, lv, q)
  BY <1>1 DEF Intact, SameUse
<1>4. \A q \in Slabs : n.slab[q].group = m.slab[q].group /\ Fits(m, lv, q) => Fits(n, lv, q)
  BY <1>1 DEF Fits, SameUse
<1> QED BY <1>1, <1>2, <1>3, <1>4

LEMMA SlabKept ==
  ASSUME NEW m, NEW n, NEW lv, SameUse(n, m), NEW q \in Slabs
  PROVE  /\ FreeOf(n, lv, q) = FreeOf(m, lv, q) /\ n.slab[q].owner = m.slab[q].owner
         /\ Intact(m, lv, q) => Intact(n, lv, q)
<1>1. /\ n.slab[q].owner = m.slab[q].owner /\ n.slab[q].free = m.slab[q].free
      /\ n.slab[q].freeArray = m.slab[q].freeArray
      /\ n.slab[q].numOfFreeSlots = m.slab[q].numOfFreeSlots
  BY DEF SameUse
<1>2. FreeOf(n, lv, q) = FreeOf(m, lv, q)
  BY ONLY <1>1 DEF FreeOf
<1> QED BY ONLY <1>1, <1>2 DEF Intact

(* There is a slab with room.                                              *)
LEMMA StockedReady ==
  ASSUME NEW m, NEW cr, NEW av, NEW lv, NEW c \in cr,
         Consistent(m, cr, av, lv), ~NoSlabLeft(m, c)
  PROVE  /\ Ready(Stocked(m, c), cr, av, lv, c)
         /\ \A q \in Slabs : Stocked(m, c).slab[q].owner = m.slab[q].owner
<1>1. /\ m \in Memories /\ c \in Caches /\ Lists(m, Slabs) /\ Listed(m, cr, av)
      /\ Accounted(m, lv)
  BY DEF Consistent, Listed
<1>2. None \notin Slabs /\ None \notin Caches /\ {"PARTIAL", "FREE"} \subseteq Groups
  BY Parts, <1>1 DEF Groups
<1>3. CASE m.cache[c].list["PARTIAL"] # None
  <2>1. PICK s : s = m.cache[c].list["PARTIAL"]
    OBVIOUS
  <2>2. s \in Slabs /\ m.slab[s].owner = c /\ m.slab[s].group = "PARTIAL"
    BY <1>1, <1>2, <1>3, <2>1, Heads
  <2>3. Fits(m, lv, s)
    BY <1>1, <1>2, <2>2 DEF Consistent
  <2>4. FreeOf(m, lv, s) # {}
    BY <2>2, <2>3 DEF Fits
  <2>5. Stocked(m, c) = m
    BY <1>3 DEF Stocked
  <2> QED BY <1>1, <2>1, <2>2, <2>4, <2>5 DEF Ready, Consistent
<1>4. CASE m.cache[c].list["PARTIAL"] = None
  <2>1. PICK s : s = m.cache[c].list["FREE"]
    OBVIOUS
  <2>2. s # None
    BY <1>4, <2>1 DEF NoSlabLeft
  <2>3. s \in Slabs /\ m.slab[s].owner = c /\ m.slab[s].group = "FREE"
    BY <1>1, <1>2, <2>1, <2>2, Heads
  <2>4. PICK n : n = moveFree(m, c, s, "PARTIAL")
    OBVIOUS
  <2>5. Stocked(m, c) = n
    BY <1>4, <2>1, <2>4 DEF Stocked
  <2>6. PutOn(n, m, c, s, "PARTIAL") /\ Lists(n, Slabs)
    BY <1>1, <1>2, <2>1, <2>3, <2>4, FreeMoves
  <2>7. Listed(n, cr, av)
    BY <1>1, <2>3, <2>6, ListedMoved
  <2>8. SameUse(n, m) /\ n.cache[c].list["PARTIAL"] = s
        /\ \A q \in Slabs : q # s => n.slab[q].group = m.slab[q].group
    BY <2>6 DEF PutOn
  <2>9. \A q \in Slabs : n.slab[q].owner = m.slab[q].owner
    BY <2>8 DEF SameUse
  <2>10. FreeOf(n, lv, s) # {}
    <3>1. Fits(m, lv, s) /\ FreeOf(m, lv, s) = FreeOf(n, lv, s)
      BY <1>2, <1>1, <2>3, <2>8, UseKept DEF Consistent
    <3> QED BY <2>3, <3>1 DEF Fits
  <2>11. \A q \in Slabs : n.slab[q].owner # None =>
           Intact(n, lv, q) /\ (q # s => Fits(n, lv, q))
    BY <2>8, <2>9, UseKept DEF Consistent
  <2>12. Accounted(n, lv)
    BY <1>1, <2>8, UseKept
  <2> QED BY <2>3, <2>5, <2>7, <2>8, <2>9, <2>10, <2>11, <2>12 DEF Ready
<1> QED BY <1>3, <1>4

(* There is none, and a new one is made of the block b.                    *)
Entered(m, c, b) ==
  [m EXCEPT
    !.slab[b] = [BlankSlab EXCEPT !.owner = c, !.free = 0,
      !.numOfFreeSlots = objNum[c], !.freeArray = FreeChain(c)],
    !.cache[c].numOfSlabs = @ + 1]

NewSlab(h, c) ==
  /\ h.owner = c /\ h.free = 0 /\ h.freeArray = FreeChain(c) /\ h.numOfFreeSlots = objNum[c]

LEMMA EnteredWrites ==
  ASSUME NEW m \in Memories, NEW c \in Caches, NEW b \in Slabs
  PROVE  LET n == Entered(m, c, b)
         IN  /\ n \in Memories /\ NewSlab(n.slab[b], c)
             /\ \A q \in Slabs : q # b => n.slab[q] = m.slab[q]
             /\ \A d \in Caches :
                  /\ n.cache[d].list = m.cache[d].list
                  /\ n.cache[d].numOfSlabs = m.cache[d].numOfSlabs + (IF d = c THEN 1 ELSE 0)
<1>1. FreeChain(c) \in Arrays /\ objNum[c] \in Int
  <2>1. FreeChain(c) \in [Slots(c) -> Slots(c) \cup {End}]
    BY ChainNew
  <2>2. FreeChain(c) \in Arrays
    BY <2>1 DEF Arrays
  <2> QED BY <2>2, SlabAssumption
<1>2. PICK h : h = [BlankSlab EXCEPT !.owner = c, !.free = 0,
                      !.numOfFreeSlots = objNum[c], !.freeArray = FreeChain(c)]
  OBVIOUS
<1>3. /\ h.owner = c /\ h.free = 0 /\ h.freeArray = FreeChain(c)
      /\ h.numOfFreeSlots = objNum[c] /\ h \in AnyHeader
  <2>1. h = [owner |-> c, next |-> None, prev |-> None, group |-> "FREE",
             free |-> 0, freeArray |-> FreeChain(c), numOfFreeSlots |-> objNum[c]]
    BY <1>2 DEF BlankSlab
  <2> QED BY <1>1, <2>1 DEF AnyHeader, Pointers, Groups
<1>4. PICK n : n = [m EXCEPT !.slab[b] = h, !.cache[c].numOfSlabs = @ + 1]
  OBVIOUS
<1>5. n = Entered(m, c, b)
  BY <1>2, <1>4 DEF Entered
<1>6. /\ n \in Memories /\ n.slab = [m.slab EXCEPT ![b] = h]
      /\ n.cache = [m.cache EXCEPT ![c].numOfSlabs = @ + 1]
  <2>1. /\ n.slab = [m.slab EXCEPT ![b] = h]
        /\ n.cache = [m.cache EXCEPT ![c].numOfSlabs = @ + 1]
        /\ n = [slab |-> n.slab, cache |-> n.cache]
    BY <1>4 DEF Memories
  <2>2. n.slab \in [Slabs -> AnyHeader]
    BY <1>3, <2>1 DEF Memories
  <2>3. n.cache \in [Caches -> Descriptor]
    <3>1. PICK d : d = [m.cache[c] EXCEPT !.numOfSlabs = @ + 1]
      OBVIOUS
    <3>2. d \in Descriptor
      BY <3>1, Parts DEF Descriptor
    <3>3. n.cache = [m.cache EXCEPT ![c] = d]
      BY <2>1, <3>1
    <3> QED BY <3>2, <3>3 DEF Memories
  <2> QED BY <2>1, <2>2, <2>3 DEF Memories
<1>7. /\ n.slab[b] = h /\ \A q \in Slabs : q # b => n.slab[q] = m.slab[q]
  BY <1>6 DEF Memories
<1>8. \A d \in Caches :
        /\ n.cache[d].list = m.cache[d].list
        /\ n.cache[d].numOfSlabs = m.cache[d].numOfSlabs + (IF d = c THEN 1 ELSE 0)
  BY <1>6 DEF Memories, Descriptor
<1> QED BY <1>3, <1>5, <1>6, <1>7, <1>8 DEF NewSlab

LEMMA SpareWrites ==
  ASSUME NEW m \in Memories, NEW c \in Caches
  PROVE  LET n == SpareFromShrink(m, c)
         IN  /\ n \in Memories /\ n.slab = m.slab
             /\ \A d \in Caches : /\ n.cache[d].list = m.cache[d].list
                                  /\ n.cache[d].numOfSlabs = m.cache[d].numOfSlabs
  BY DEF Memories, Descriptor, SpareFromShrink

(* Descriptors that differ in shrink and error only.                       *)
LEMMA ListedAnyway ==
  ASSUME NEW m, NEW n \in Memories, NEW cr, NEW av, Listed(m, cr, av), n.slab = m.slab,
         \A d \in Caches : /\ n.cache[d].list = m.cache[d].list
                           /\ n.cache[d].numOfSlabs = m.cache[d].numOfSlabs
  PROVE  Listed(n, cr, av)
<1>1. ASSUME NEW d \in Caches, NEW k \in Groups
      PROVE  Linked(n, d, k, Grouped(n, d, k, Slabs))
  <2>1. PICK K : K = Grouped(m, d, k, Slabs)
    OBVIOUS
  <2>2. Linked(m, d, k, K) /\ None \notin K
    BY <2>1, SlabAssumption DEF Listed, Lists, Grouped
  <2>3. n.cache[d].list[k] = m.cache[d].list[k]
    OBVIOUS
  <2>4. Linked(n, d, k, K)
    BY <2>2, <2>3, LinkedSame
  <2> QED BY <2>1, <2>4 DEF Grouped
<1>2. Lists(n, Slabs)
  BY <1>1 DEF Lists
<1>3. \A d \in cr : OwnedIn(n, d) = OwnedIn(m, d) /\ d \in Caches
  BY DEF OwnedIn, Listed
<1> QED BY <1>2, <1>3 DEF Listed

LEMMA UseAnyway ==
  ASSUME NEW m, NEW n, NEW lv, n.slab = m.slab
  PROVE  /\ Accounted(m, lv) => Accounted(n, lv)
         /\ \A q \in Slabs : /\ FreeOf(n, lv, q) = FreeOf(m, lv, q)
                             /\ Intact(m, lv, q) => Intact(n, lv, q)
                             /\ Fits(m, lv, q) => Fits(n, lv, q)
<1>1. \A q \in Slabs : FreeOf(n, lv, q) = FreeOf(m, lv, q)
  BY DEF FreeOf
<1> QED BY <1>1 DEF Accounted, Intact, Fits

LEMMA GrownReady ==
  ASSUME NEW m, NEW cr, NEW av, NEW lv, NEW c \in cr, NEW b \in av,
         Consistent(m, cr, av, lv)
  PROVE  /\ Ready(Grown(m, c, b), cr, av \ {b}, lv, c)
         /\ \A q \in Slabs : Grown(m, c, b).slab[q].owner =
                               IF q = b THEN c ELSE m.slab[q].owner
<1>1. /\ m \in Memories /\ c \in Caches /\ Lists(m, Slabs) /\ Listed(m, cr, av)
      /\ Accounted(m, lv) /\ b \in Slabs /\ m.slab[b].owner = None
  BY DEF Consistent, Listed
<1>2. None \notin Slabs /\ None \notin Caches /\ {"PARTIAL", "FREE"} \subseteq Groups
  BY Parts, <1>1 DEF Groups
<1>3. PICK m0 : m0 = Entered(m, c, b)
  OBVIOUS
<1>4. /\ m0 \in Memories /\ NewSlab(m0.slab[b], c)
      /\ \A q \in Slabs : q # b => m0.slab[q] = m.slab[q]
      /\ \A d \in Caches :
           /\ m0.cache[d].list = m.cache[d].list
           /\ m0.cache[d].numOfSlabs = m.cache[d].numOfSlabs + (IF d = c THEN 1 ELSE 0)
  BY <1>1, <1>3, EnteredWrites
<1>5. PICK R \in SUBSET Slabs : R = Slabs \ {b}
  OBVIOUS
<1>6. Lists(m0, R)
  <2>1. ASSUME NEW d \in Caches, NEW k \in Groups
        PROVE  Linked(m0, d, k, Grouped(m0, d, k, R))
    <3>1. PICK K : K = Grouped(m, d, k, Slabs)
      OBVIOUS
    <3>2. Linked(m, d, k, K) /\ None \notin K /\ b \notin K /\ K \subseteq Slabs
      BY <1>1, <1>2, <3>1 DEF Lists, Grouped
    <3>3. \A q \in K : m0.slab[q] = m.slab[q]
      BY <1>4, <3>2
    <3>4. Linked(m0, d, k, K)
      BY <1>4, <3>2, <3>3, LinkedSame
    <3>5. Grouped(m0, d, k, R) = K
      BY <1>1, <1>2, <1>4, <1>5, <3>1 DEF Grouped
    <3> QED BY <3>4, <3>5
  <2> QED BY <2>1 DEF Lists
<1>7. PICK m1 : m1 = PushFront(m0, c, b, "FREE")
  OBVIOUS
<1>8. PutOn(m1, m0, c, b, "FREE") /\ Lists(m1, Slabs)
  <2>1. b \in Slabs \ R /\ m0.slab[b].owner = c /\ R \cup {b} = Slabs
    BY <1>1, <1>4, <1>5 DEF NewSlab
  <2>2. PutOn(m1, m0, c, b, "FREE") /\ Lists(m1, R \cup {b})
    BY <1>1, <1>2, <1>4, <1>6, <1>7, <2>1, ListsWith
  <2> QED BY <2>1, <2>2
<1>9. m1 \in Memories /\ m1.cache[c].list["FREE"] = b
  BY <1>8 DEF PutOn, SameUse
<1>10. PICK m2 : m2 = moveFree(m1, c, b, "PARTIAL")
  OBVIOUS
<1>11. PutOn(m2, m1, c, b, "PARTIAL") /\ Lists(m2, Slabs)
  BY <1>1, <1>2, <1>8, <1>9, <1>10, FreeMoves
<1>12. /\ m2 \in Memories /\ NewSlab(m2.slab[b], c)
       /\ m2.cache[c].list["PARTIAL"] = b
       /\ \A d \in Caches : m2.cache[d].numOfSlabs =
            m.cache[d].numOfSlabs + (IF d = c THEN 1 ELSE 0)
  BY <1>1, <1>4, <1>8, <1>11 DEF PutOn, SameUse, NewSlab
<1>13. ASSUME NEW q \in Slabs \ {b}
       PROVE  /\ m2.slab[q].owner = m.slab[q].owner /\ m2.slab[q].free = m.slab[q].free
              /\ m2.slab[q].freeArray = m.slab[q].freeArray
              /\ m2.slab[q].numOfFreeSlots = m.slab[q].numOfFreeSlots
              /\ m2.slab[q].group = m.slab[q].group
              /\ m.slab[q].owner # c => m2.slab[q] = m.slab[q]
  BY <1>4, <1>8, <1>11 DEF PutOn, SameUse
<1>14. m2.slab[b].owner = c
  BY <1>12 DEF NewSlab
<1>15. Listed(m2, cr, av \ {b})
  <2>1. av \ {b} = {q \in Slabs : m2.slab[q].owner = None}
    BY <1>1, <1>2, <1>13, <1>14 DEF Listed
  <2>2. \A q \in Slabs : m2.slab[q].owner = None => m2.slab[q] = BlankSlab
    BY <1>1, <1>2, <1>13, <1>14 DEF Listed
  <2>3. \A q \in Slabs : m2.slab[q].owner # None => m2.slab[q].owner \in cr
    BY <1>1, <1>13, <1>14 DEF Listed
  <2>4. ASSUME NEW d \in cr PROVE m2.cache[d].numOfSlabs = Cardinality(OwnedIn(m2, d))
    <3>1. /\ d \in Caches /\ m.cache[d].numOfSlabs = Cardinality(OwnedIn(m, d))
          /\ m2.cache[d].numOfSlabs = m.cache[d].numOfSlabs + (IF d = c THEN 1 ELSE 0)
      BY <1>1, <1>12 DEF Listed
    <3>2. IsFiniteSet(OwnedIn(m, d)) /\ b \notin OwnedIn(m, d)
      <4>1. OwnedIn(m, d) \in SUBSET Slabs /\ b \notin OwnedIn(m, d)
        BY <1>1, <1>2, <3>1 DEF OwnedIn
      <4> QED BY <4>1, SlabAssumption, FS_Subset
    <3>3. CASE d = c
      <4>1. OwnedIn(m2, d) = OwnedIn(m, d) \cup {b}
        BY <1>1, <1>13, <1>14, <3>3 DEF OwnedIn
      <4>2. Cardinality(OwnedIn(m2, d)) = Cardinality(OwnedIn(m, d)) + 1
        BY <3>2, <4>1, FS_AddElement
      <4> QED BY <3>1, <3>3, <4>2
    <3>4. CASE d # c
      <4>1. OwnedIn(m2, d) = OwnedIn(m, d)
        BY <1>1, <1>2, <1>13, <1>14, <3>1, <3>4 DEF OwnedIn
      <4>2. m.cache[d].numOfSlabs \in Int
        BY <1>1, <3>1, Parts DEF Descriptor
      <4> QED BY <3>1, <3>4, <4>1, <4>2
    <3> QED BY <3>3, <3>4
  <2> QED BY <1>1, <1>11, <1>12, <2>1, <2>2, <2>3, <2>4 DEF Listed
<1>16. \A o \in lv : o[1] \in Slabs \ {b}
  BY ONLY <1>1 DEF Accounted
<1>17. Accounted(m2, lv)
  BY ONLY <1>1, <1>13, <1>16 DEF Accounted
<1>18. FreeOf(m2, lv, b) = Slots(c)
  BY <1>14, <1>16 DEF FreeOf
<1>19. FreeOf(m2, lv, b) # {} /\ Intact(m2, lv, b)
  BY <1>1, <1>12, <1>18, ChainNew DEF Intact, NewSlab
<1>20. ASSUME NEW q \in Slabs \ {b}, m2.slab[q].owner # None
       PROVE  Intact(m2, lv, q) /\ Fits(m2, lv, q)
  <2>1. FreeOf(m2, lv, q) = FreeOf(m, lv, q)
    BY <1>13 DEF FreeOf
  <2>2. Intact(m, lv, q) /\ Fits(m, lv, q)
    BY <1>13, <1>20 DEF Consistent
  <2> QED BY <1>13, <2>1, <2>2 DEF Intact, Fits
<1>21. PICK n : n = SpareFromShrink(m2, c)
  OBVIOUS
<1>22. /\ n \in Memories /\ n.slab = m2.slab
       /\ \A d \in Caches : /\ n.cache[d].list = m2.cache[d].list
                            /\ n.cache[d].numOfSlabs = m2.cache[d].numOfSlabs
  BY <1>1, <1>12, <1>21, SpareWrites
<1>23. Grown(m, c, b) = n
  BY <1>3, <1>7, <1>10, <1>21 DEF Grown, initSlab, Entered
<1>24. Listed(n, cr, av \ {b})
  BY <1>15, <1>22, ListedAnyway
<1>25. n.cache[c].list["PARTIAL"] = b
  BY <1>1, <1>12, <1>22
<1>26. Ready(n, cr, av \ {b}, lv, c)
  <2>0. n.slab = m2.slab
    BY ONLY <1>22
  <2>1. Accounted(n, lv) /\ FreeOf(n, lv, b) # {}
    <3>1. FreeOf(n, lv, b) = FreeOf(m2, lv, b)
      BY ONLY <2>0 DEF FreeOf
    <3>2. Accounted(n, lv)
      BY ONLY <1>17, <2>0 DEF Accounted
    <3> QED BY ONLY <1>19, <3>1, <3>2
  <2>2. ASSUME NEW q \in Slabs, n.slab[q].owner # None
        PROVE  Intact(n, lv, q) /\ (q # b => Fits(n, lv, q))
    <3>1. Intact(m2, lv, q) /\ (q # b => Fits(m2, lv, q))
      BY ONLY <1>19, <1>20, <2>0, <2>2
    <3>2. FreeOf(n, lv, q) = FreeOf(m2, lv, q)
      BY ONLY <2>0 DEF FreeOf
    <3> QED BY ONLY <2>0, <3>1, <3>2 DEF Intact, Fits
  <2> QED BY ONLY <1>1, <1>14, <1>22, <1>24, <1>25, <2>1, <2>2 DEF Ready
<1>27. \A q \in Slabs : n.slab[q].owner = IF q = b THEN c ELSE m.slab[q].owner
  BY <1>13, <1>14, <1>22
<1> QED BY <1>23, <1>26, <1>27

-----------------------------------------------------------------------------
(* The use of a slab changes, and not its place.                           *)
Reused(n, m, s) ==
  /\ n \in Memories /\ n.cache = m.cache
  /\ \A q \in Slabs : q # s => n.slab[q] = m.slab[q]
  /\ n.slab[s].owner = m.slab[s].owner /\ n.slab[s].group = m.slab[s].group
  /\ n.slab[s].next = m.slab[s].next /\ n.slab[s].prev = m.slab[s].prev

LEMMA ListedReused ==
  ASSUME NEW m, NEW n, NEW cr, NEW av, NEW s \in Slabs, m.slab[s].owner # None,
         Listed(m, cr, av), Reused(n, m, s)
  PROVE  Listed(n, cr, av)
<1>1. \A q \in Slabs :
        /\ n.slab[q].owner = m.slab[q].owner /\ n.slab[q].group = m.slab[q].group
        /\ n.slab[q].next = m.slab[q].next /\ n.slab[q].prev = m.slab[q].prev
  BY DEF Reused
<1>2. ASSUME NEW d \in Caches, NEW k \in Groups
      PROVE  Linked(n, d, k, Grouped(n, d, k, Slabs))
  <2>1. PICK K : K = Grouped(m, d, k, Slabs)
    OBVIOUS
  <2>2. Linked(m, d, k, K) /\ None \notin K /\ K \subseteq Slabs
    BY <2>1, SlabAssumption DEF Listed, Lists, Grouped
  <2>3. n.cache[d].list[k] = m.cache[d].list[k]
    BY DEF Reused
  <2>4. Linked(n, d, k, K)
    BY <1>1, <2>2, <2>3, LinkedSame
  <2>5. Grouped(n, d, k, Slabs) = K
    BY <1>1, <2>1 DEF Grouped
  <2> QED BY <2>4, <2>5
<1>3. Lists(n, Slabs)
  BY <1>2 DEF Lists
<1>4. \A d \in cr : OwnedIn(n, d) = OwnedIn(m, d)
  BY <1>1 DEF OwnedIn
<1>5. /\ n \in Memories /\ av = {q \in Slabs : n.slab[q].owner = None}
      /\ \A q \in Slabs : n.slab[q].owner = None => n.slab[q] = BlankSlab
      /\ \A q \in Slabs : n.slab[q].owner # None => n.slab[q].owner \in cr
  BY <1>1 DEF Listed, Reused
<1> QED BY <1>3, <1>4, <1>5 DEF Listed, Reused

LEMMA TakeWrites ==
  ASSUME NEW m \in Memories, NEW s \in Slabs, m.slab[s].freeArray[m.slab[s].free] \in Int
  PROVE  LET n == takeObject(m, s)
         IN  /\ Reused(n, m, s)
             /\ n.slab[s].free = m.slab[s].freeArray[m.slab[s].free]
             /\ n.slab[s].freeArray = m.slab[s].freeArray
             /\ n.slab[s].numOfFreeSlots = m.slab[s].numOfFreeSlots - 1
<1>1. PICK v \in Int : v = m.slab[s].freeArray[m.slab[s].free]
  OBVIOUS
<1>2. PICK h : h = [m.slab[s] EXCEPT !.free = v, !.numOfFreeSlots = @ - 1]
  OBVIOUS
<1>3. /\ h \in AnyHeader /\ h.free = v /\ h.freeArray = m.slab[s].freeArray
      /\ h.numOfFreeSlots = m.slab[s].numOfFreeSlots - 1
      /\ h.owner = m.slab[s].owner /\ h.group = m.slab[s].group
      /\ h.next = m.slab[s].next /\ h.prev = m.slab[s].prev
  <2>1. PICK r \in AnyHeader : r = m.slab[s]
    BY Parts
  <2>2. h = [r EXCEPT !.free = v, !.numOfFreeSlots = @ - 1]
    BY <1>2, <2>1
  <2>3. /\ h \in AnyHeader /\ h.free = v /\ h.freeArray = r.freeArray
        /\ h.numOfFreeSlots = r.numOfFreeSlots - 1 /\ h.owner = r.owner
        /\ h.group = r.group /\ h.next = r.next /\ h.prev = r.prev
    <3>1. h = [owner |-> r.owner, next |-> r.next, prev |-> r.prev, group |-> r.group,
               free |-> v, freeArray |-> r.freeArray, numOfFreeSlots |-> r.numOfFreeSlots - 1]
      BY ONLY <2>2, r \in AnyHeader DEF AnyHeader
    <3>2. /\ r.owner \in Caches \cup {None} /\ r.next \in Pointers /\ r.prev \in Pointers
          /\ r.group \in Groups /\ r.freeArray \in Arrays /\ r.numOfFreeSlots - 1 \in Int
      BY ONLY r \in AnyHeader DEF AnyHeader
    <3> QED BY ONLY <3>1, <3>2, v \in Int DEF AnyHeader
  <2> QED BY <2>1, <2>3
<1>4. PICK n : n = [m EXCEPT !.slab[s] = h]
  OBVIOUS
<1>5. n = takeObject(m, s)
  BY <1>1, <1>2, <1>4 DEF takeObject, Memories
<1>6. /\ n \in Memories /\ n.cache = m.cache /\ n.slab[s] = h
      /\ \A q \in Slabs : q # s => n.slab[q] = m.slab[q]
  BY <1>3, <1>4 DEF Memories
<1> QED BY <1>1, <1>3, <1>5, <1>6 DEF Reused

(* A cache gives out the first free object of its first partial slab.      *)
LEMMA HandOutKeeps ==
  ASSUME NEW m, NEW cr, NEW av, NEW lv, NEW c \in cr, Ready(m, cr, av, lv, c),
         NEW s, s = m.cache[c].list["PARTIAL"], NEW i, i = m.slab[s].free
  PROVE  /\ s \in Slabs /\ m.slab[s].owner = c /\ i \in Slots(c) /\ <<s, i>> \notin lv
         /\ Consistent(takeFromPartial(m, c), cr, av, lv \cup {<<s, i>>})
         /\ \A q \in Slabs : takeFromPartial(m, c).slab[q].owner = m.slab[q].owner
<1>1. /\ s \in Slabs /\ m.slab[s].owner = c /\ Listed(m, cr, av) /\ Accounted(m, lv)
      /\ FreeOf(m, lv, s) # {}
      /\ \A q \in Slabs : m.slab[q].owner # None =>
           Intact(m, lv, q) /\ (q # s => Fits(m, lv, q))
  BY DEF Ready
<1>2. m \in Memories /\ c \in Caches /\ Lists(m, Slabs)
  BY <1>1 DEF Listed
<1>3. None \notin Slabs /\ None \notin Caches /\ {"PARTIAL", "FULL"} \subseteq Groups
  BY Parts, <1>2 DEF Groups
<1>4. m.slab[s].group = "PARTIAL"
  BY <1>1, <1>2, <1>3, Heads
<1>5. PICK F \in SUBSET Slots(c) : F = FreeOf(m, lv, s)
  BY <1>1 DEF FreeOf
<1>6. PICK link : link = m.slab[s].freeArray
  OBVIOUS
<1>7. /\ link \in [Slots(c) -> Slots(c) \cup {End}] /\ Chained(i, link, F)
      /\ m.slab[s].numOfFreeSlots = Cardinality(F)
  BY <1>1, <1>2, <1>3, <1>5, <1>6 DEF Intact
<1>8. IsFiniteSet(F) /\ F \in SUBSET Nat /\ Slots(c) \subseteq Nat
  <2>1. Slots(c) \subseteq Nat
    BY <1>2, SlabAssumption DEF Slots
  <2> QED BY <1>2, <1>5, <2>1, ChainNew, FS_Subset
<1>9. PICK G : G = F \ {i}
  OBVIOUS
<1>10. /\ i \in F /\ Cardinality(G) = Cardinality(F) - 1 /\ Chained(link[i], link, G)
  <2>1. F # {}
    BY ONLY <1>1, <1>5
  <2> QED BY ONLY <1>7, <1>8, <1>9, <2>1, ChainTaken
<1>11. i \in Slots(c) /\ <<s, i>> \notin lv
  BY <1>1, <1>5, <1>10 DEF FreeOf
<1>12. PICK lv1 : lv1 = lv \cup {<<s, i>>}
  OBVIOUS
<1>13. \A q, j : <<q, j>> \in lv1 <=> <<q, j>> \in lv \/ (q = s /\ j = i)
  BY ONLY <1>12
<1>14. PICK t : t = takeObject(m, s)
  OBVIOUS
<1>15. /\ Reused(t, m, s) /\ t.slab[s].free = link[i] /\ t.slab[s].freeArray = link
       /\ t.slab[s].numOfFreeSlots = Cardinality(G)
  <2>1. link[i] \in Int
    <3>1. link[i] \in Slots(c) \cup {End}
      BY ONLY <1>7, <1>11
    <3>2. End \in Int /\ \A k \in Nat : k \in Int
      BY DEF End
    <3> QED BY ONLY <1>8, <3>1, <3>2
  <2>2. i \in Slots(c) /\ i = m.slab[s].free /\ m.slab[s].freeArray[m.slab[s].free] = link[i]
    BY ONLY <1>6, <1>11, i = m.slab[s].free
  <2>3. /\ Reused(t, m, s) /\ t.slab[s].free = link[i]
        /\ t.slab[s].freeArray = link
        /\ t.slab[s].numOfFreeSlots = m.slab[s].numOfFreeSlots - 1
    <3>1. m \in Memories /\ s \in Slabs
      BY ONLY <1>1, <1>2
    <3> QED BY ONLY <1>6, <1>14, <2>1, <2>2, <3>1, TakeWrites
  <2> QED BY ONLY <1>7, <1>10, <2>3
<1>16. Listed(t, cr, av) /\ t \in Memories /\ Lists(t, Slabs) /\ t.slab[s].owner = c
       /\ t.slab[s].group = "PARTIAL"
  <2>1. Listed(t, cr, av)
    <3>1. s \in Slabs /\ m.slab[s].owner # None /\ Listed(m, cr, av) /\ Reused(t, m, s)
      BY ONLY <1>1, <1>2, <1>3, <1>15
    <3> QED BY ONLY <3>1, ListedReused
  <2>2. t \in Memories /\ Lists(t, Slabs)
    BY ONLY <2>1 DEF Listed
  <2>3. t.slab[s].owner = m.slab[s].owner /\ t.slab[s].group = m.slab[s].group
    BY ONLY <1>15 DEF Reused
  <2> QED BY ONLY <1>1, <1>4, <2>1, <2>2, <2>3
<1>17. \A q \in Slabs : t.slab[q].owner = m.slab[q].owner
  BY ONLY <1>15 DEF Reused
<1>18. Accounted(t, lv1)
  <2>1. lv \subseteq Slabs \X Nat /\ <<s, i>> \in Slabs \X Nat
    BY ONLY <1>1, <1>8, <1>11 DEF Accounted
  <2>2. lv1 \subseteq Slabs \X Nat
    BY ONLY <1>12, <2>1
  <2>3. ASSUME NEW o \in lv
        PROVE  t.slab[o[1]].owner # None /\ o[2] \in Slots(t.slab[o[1]].owner)
    <3>1. o[1] \in Slabs
      BY ONLY o \in lv, <2>1
    <3>2. m.slab[o[1]].owner # None /\ o[2] \in Slots(m.slab[o[1]].owner)
      BY ONLY o \in lv, <1>1 DEF Accounted
    <3> QED BY ONLY <1>17, <3>1, <3>2
  <2>4. t.slab[s].owner = c /\ c # None /\ i \in Slots(c)
    BY ONLY <1>1, <1>2, <1>3, <1>11, <1>17
  <2>5. \A o \in lv1 : t.slab[o[1]].owner # None /\ o[2] \in Slots(t.slab[o[1]].owner)
    BY ONLY <1>12, <2>3, <2>4
  <2> QED BY ONLY <2>2, <2>5 DEF Accounted
<1>19. FreeOf(t, lv1, s) = G
  BY ONLY <1>1, <1>5, <1>9, <1>13, <1>16 DEF FreeOf
<1>20. Intact(t, lv1, s)
  BY ONLY <1>7, <1>10, <1>15, <1>16, <1>19 DEF Intact
<1>21. ASSUME NEW q \in Slabs, q # s, t.slab[q].owner # None
       PROVE  Intact(t, lv1, q) /\ Fits(t, lv1, q)
  <2>1. t.slab[q] = m.slab[q]
    BY ONLY <1>15, <1>21 DEF Reused
  <2>2. FreeOf(t, lv1, q) = FreeOf(m, lv, q)
    BY ONLY <1>13, <1>21, <2>1 DEF FreeOf
  <2>3. Intact(m, lv, q) /\ Fits(m, lv, q)
    BY ONLY <1>1, <1>21, <2>1
  <2> QED BY ONLY <2>1, <2>2, <2>3 DEF Intact, Fits
<1>22. IsFiniteSet(G)
  BY ONLY <1>8, <1>9, FS_RemoveElement
<1>23. Cardinality(G) = 0 <=> G = {}
  BY ONLY <1>22, FS_EmptySet
<1>24. PICK n : n = takeFromPartial(m, c)
  BY Zenon
<1>25. n = IF Cardinality(G) = 0 THEN moveSlab(t, c, s, "FULL") ELSE t
  BY ONLY <1>14, <1>15, <1>24, s = m.cache[c].list["PARTIAL"] DEF takeFromPartial
<1>26. CASE G # {}
  <2>1. n = t
    BY ONLY <1>23, <1>25, <1>26
  <2>2. Fits(t, lv1, s)
    BY ONLY <1>9, <1>11, <1>16, <1>19, <1>26 DEF Fits
  <2>3. Consistent(n, cr, av, lv1)
    BY ONLY <1>16, <1>18, <1>20, <1>21, <2>1, <2>2 DEF Consistent
  <2> QED BY ONLY <1>1, <1>11, <1>12, <1>17, <1>24, <2>1, <2>3
<1>27. CASE G = {}
  <2>1. n = moveSlab(t, c, s, "FULL")
    BY ONLY <1>23, <1>25, <1>27
  <2>2. PutOn(n, t, c, s, "FULL") /\ Lists(n, Slabs)
    <3>1. t \in Memories /\ s \in Slabs /\ c \in Caches /\ "FULL" \in Groups
      BY ONLY <1>1, <1>2, <1>3, <1>16
    <3> QED BY ONLY <1>16, <2>1, <3>1, SlabMoves
  <2>3. Listed(n, cr, av)
    BY ONLY c \in cr, <1>1, <1>16, <2>2, ListedMoved
  <2>4. SameUse(n, t) /\ n.slab[s].group = "FULL"
        /\ \A q \in Slabs : q # s => n.slab[q].group = t.slab[q].group
    BY ONLY <1>1, <2>2 DEF PutOn
  <2>5. \A q \in Slabs : n.slab[q].owner = t.slab[q].owner
    BY ONLY <2>4 DEF SameUse
  <2>6. Accounted(n, lv1)
    BY ONLY <1>18, <2>4, UseKept
  <2>7. Intact(n, lv1, s) /\ FreeOf(n, lv1, s) = {}
    <3>1. FreeOf(n, lv1, s) = FreeOf(t, lv1, s) /\ (Intact(t, lv1, s) => Intact(n, lv1, s))
      <4>1. SameUse(n, t) /\ s \in Slabs
        BY ONLY <1>1, <2>4
      <4> QED BY ONLY <4>1, SlabKept
    <3> QED BY ONLY <1>19, <1>20, <1>27, <3>1
  <2>8. \A q \in Slabs : n.slab[q].owner # None => Intact(n, lv1, q) /\ Fits(n, lv1, q)
    <3>1. ASSUME NEW q \in Slabs, n.slab[q].owner # None, q # s
          PROVE  Intact(n, lv1, q) /\ Fits(n, lv1, q)
      BY ONLY <1>21, <2>4, <2>5, <3>1, UseKept
    <3>2. Fits(n, lv1, s)
      BY ONLY <2>4, <2>7 DEF Fits
    <3> QED BY ONLY <2>7, <3>1, <3>2
  <2>9. Consistent(n, cr, av, lv1)
    BY ONLY <2>3, <2>6, <2>8 DEF Consistent
  <2>10. \A q \in Slabs : n.slab[q].owner = m.slab[q].owner
    BY ONLY <1>17, <2>5
  <2> QED BY ONLY <1>1, <1>11, <1>12, <1>24, <2>9, <2>10
<1> QED BY <1>26, <1>27

-----------------------------------------------------------------------------
(* An object comes back.                                                   *)
Counted(m, s, k) == [m EXCEPT !.slab[s].numOfFreeSlots = k]

LEMMA PutWrites ==
  ASSUME NEW m \in Memories, NEW s \in Slabs, NEW i \in Int, NEW k \in Int,
         NEW link \in Arrays, link = Put(m.slab[s].freeArray, i, m.slab[s].free),
         NEW n, n = linkSlot(Counted(m, s, k), s, i)
  PROVE  /\ Reused(n, m, s) /\ n.slab[s].free = i /\ n.slab[s].freeArray = link
         /\ n.slab[s].numOfFreeSlots = k
<1>1. PICK r \in AnyHeader : r = m.slab[s]
  BY Parts
<1>2. PICK h : h = [owner |-> r.owner, next |-> r.next, prev |-> r.prev, group |-> r.group,
                    free |-> i, freeArray |-> link, numOfFreeSlots |-> k]
  OBVIOUS
<1>3. h \in AnyHeader
  <2>1. /\ r.owner \in Caches \cup {None} /\ r.next \in Pointers /\ r.prev \in Pointers
        /\ r.group \in Groups
    BY ONLY r \in AnyHeader DEF AnyHeader
  <2> QED BY ONLY <1>2, <2>1, i \in Int, k \in Int, link \in Arrays DEF AnyHeader
<1>4. PICK l : l = Counted(m, s, k)
  OBVIOUS
<1>5. PICK r1 : r1 = [r EXCEPT !.numOfFreeSlots = k]
  OBVIOUS
<1>6. /\ l.slab = [m.slab EXCEPT ![s] = r1] /\ l.cache = m.cache
      /\ l = [slab |-> l.slab, cache |-> l.cache] /\ l.slab[s] = r1
  BY <1>1, <1>4, <1>5 DEF Counted, Memories
<1>7. n = linkSlot(l, s, i)
  BY <1>4
<1>8. r1.free = r.free /\ r1.freeArray = r.freeArray
  BY <1>5 DEF AnyHeader
<1>9. [r1 EXCEPT !.freeArray[i] = r.free, !.free = i] = h
  <2>1. link = [r1.freeArray EXCEPT ![i] = r.free]
    BY <1>1, <1>8 DEF Put
  <2>2. r1 = [owner |-> r.owner, next |-> r.next, prev |-> r.prev, group |-> r.group,
              free |-> r.free, freeArray |-> r.freeArray, numOfFreeSlots |-> k]
    BY ONLY <1>5, r \in AnyHeader DEF AnyHeader
  <2>3. PICK r2 : r2 = [r1 EXCEPT !.freeArray = link]
    OBVIOUS
  <2>4. r2 = [owner |-> r.owner, next |-> r.next, prev |-> r.prev, group |-> r.group,
              free |-> r.free, freeArray |-> link, numOfFreeSlots |-> k]
    BY ONLY <2>2, <2>3
  <2>5. [r2 EXCEPT !.free = i] = h
    BY ONLY <1>2, <2>4
  <2> QED BY ONLY <2>1, <2>3, <2>5
<1>10. n = [l EXCEPT !.slab[s] = h]
  <2>1. n = [l EXCEPT !.slab[s].freeArray[i] = r.free, !.slab[s].free = i]
    BY ONLY <1>6, <1>7, <1>8 DEF linkSlot
  <2>2. s \in DOMAIN l.slab
    BY <1>6 DEF Memories
  <2> QED BY ONLY <1>6, <1>9, <2>1, <2>2
<1>11. /\ n \in Memories /\ n.cache = m.cache /\ n.slab[s] = h
       /\ \A q \in Slabs : q # s => n.slab[q] = m.slab[q]
  BY <1>3, <1>6, <1>10 DEF Memories
<1> QED BY <1>1, <1>2, <1>4, <1>7, <1>11 DEF Reused

(* The group for one more free slot is the one that updateSlab chooses.    *)
LEMMA UpdateMoves ==
  ASSUME NEW m, NEW cr, NEW av, NEW lv, Consistent(m, cr, av, lv),
         NEW s \in Slabs, NEW c, c = m.slab[s].owner, c # None,
         NEW i \in Slots(c), i \notin FreeOf(m, lv, s),
         NEW n, n = m.slab[s].numOfFreeSlots
  PROVE  \E v : /\ Listed(v, cr, av) /\ SameUse(v, m)
                /\ \A q \in Slabs : q # s => v.slab[q].group = m.slab[q].group
                /\ v.slab[s].group = IF FreeOf(m, lv, s) \cup {i} = Slots(c)
                                     THEN "FREE" ELSE "PARTIAL"
                /\ updateSlab(m, s) = Counted(v, s, n + 1)
<1>1. /\ Listed(m, cr, av) /\ m \in Memories /\ c \in cr /\ c \in Caches /\ Lists(m, Slabs)
      /\ Intact(m, lv, s) /\ Fits(m, lv, s)
  BY DEF Consistent, Listed
<1>2. PICK F \in SUBSET Slots(c) : F = FreeOf(m, lv, s)
  BY DEF FreeOf
<1>3. PICK size \in Nat \ {0} : size = objNum[c]
  BY <1>1, SlabAssumption
<1>4. /\ IsFiniteSet(Slots(c)) /\ Cardinality(Slots(c)) = size /\ 0 \in Slots(c)
      /\ IsFiniteSet(F)
  BY <1>1, <1>2, <1>3, ChainNew, FS_Subset
<1>5. n = Cardinality(F) /\ n \in Nat
  BY <1>1, <1>2, <1>4, FS_CardinalityType DEF Intact
<1>6. F \cup {i} \in SUBSET Slots(c) /\ Cardinality(F \cup {i}) = n + 1
  <2>1. i \notin F
    BY <1>2
  <2>2. Cardinality(F \cup {i}) = IF i \in F THEN Cardinality(F) ELSE Cardinality(F) + 1
    BY ONLY <1>4, FS_AddElement
  <2> QED BY <1>5, <2>1, <2>2
<1>7. F \cup {i} = Slots(c) <=> n = size - 1
  BY <1>3, <1>4, <1>5, <1>6, FS_Subset
<1>8. n = 0 <=> F = {}
  BY <1>4, <1>5, FS_EmptySet
<1>9. {"FREE", "PARTIAL"} \subseteq Groups
  BY DEF Groups
<1>10. ASSUME NEW g \in Groups, NEW v, v = moveSlab(m, c, s, g)
       PROVE  /\ Listed(v, cr, av) /\ SameUse(v, m)
              /\ \A q \in Slabs : q # s => v.slab[q].group = m.slab[q].group
              /\ v.slab[s].group = g
  <2>1. PutOn(v, m, c, s, g) /\ Lists(v, Slabs)
    BY <1>1, <1>10, SlabMoves
  <2>2. Listed(v, cr, av)
    BY <1>1, <2>1, ListedMoved
  <2> QED BY <2>1, <2>2 DEF PutOn
<1>11. PICK v : v = IF n = 0
                    THEN moveSlab(m, c, s, IF size = 1 THEN "FREE" ELSE "PARTIAL")
                    ELSE IF n = size - 1 THEN moveSlab(m, c, s, "FREE") ELSE m
  OBVIOUS
<1>12. updateSlab(m, s) = Counted(v, s, n + 1)
  BY <1>3, <1>11 DEF updateSlab, Counted
<1>13. CASE n = 0
  <2>1. PICK g \in Groups : g = IF size = 1 THEN "FREE" ELSE "PARTIAL"
    BY <1>9
  <2>2. v = moveSlab(m, c, s, g)
    BY ONLY <1>11, <1>13, <2>1
  <2>3. g = IF F \cup {i} = Slots(c) THEN "FREE" ELSE "PARTIAL"
    BY ONLY <1>3, <1>7, <1>13, <2>1
  <2> QED BY <1>2, <1>10, <1>12, <2>2, <2>3
<1>14. CASE n # 0 /\ n = size - 1
  <2>1. v = moveSlab(m, c, s, "FREE") /\ "FREE" \in Groups
    BY <1>9, <1>11, <1>14
  <2> QED BY <1>2, <1>7, <1>10, <1>12, <1>14, <2>1
<1>15. CASE n # 0 /\ n # size - 1
  <2>1. v = m
    BY ONLY <1>11, <1>15
  <2>2. F # {} /\ F # Slots(c)
    BY <1>2, <1>8, <1>15
  <2>3. m.slab[s].group = "PARTIAL"
    BY <1>1, <1>2, <2>2 DEF Fits
  <2>4. SameUse(m, m)
    BY <1>1 DEF SameUse
  <2> QED BY <1>1, <1>2, <1>7, <1>12, <1>15, <2>1, <2>3, <2>4
<1> QED BY <1>13, <1>14, <1>15

LEMMA PutKeeps ==
  ASSUME NEW m, NEW cr, NEW av, NEW lv, Consistent(m, cr, av, lv),
         NEW s, NEW i, <<s, i>> \in lv, NEW n, n = linkSlot(updateSlab(m, s), s, i)
  PROVE  /\ Consistent(n, cr, av, lv \ {<<s, i>>})
         /\ \A q \in Slabs : n.slab[q].owner = m.slab[q].owner
<1>1. PICK c : c = m.slab[s].owner
  OBVIOUS
<1>2. /\ s \in Slabs /\ i \in Slots(c) /\ c \in cr /\ c \in Caches /\ c # None
      /\ m \in Memories /\ Intact(m, lv, s)
  BY <1>1 DEF Consistent, Accounted, Listed
<1>3. PICK F \in SUBSET Slots(c) : F = FreeOf(m, lv, s)
  BY <1>1 DEF FreeOf
<1>4. i \notin F
  BY <1>3 DEF FreeOf
<1>5. PICK lv1 : lv1 = lv \ {<<s, i>>}
  OBVIOUS
<1>6. \A q, j : <<q, j>> \in lv1 <=> <<q, j>> \in lv /\ ~(q = s /\ j = i)
  BY ONLY <1>5
<1>7. PICK G : G = F \cup {i}
  OBVIOUS
<1>8. IsFiniteSet(F) /\ Slots(c) \in SUBSET Nat
  <2>1. Slots(c) \in SUBSET Nat
    BY <1>2, SlabAssumption DEF Slots
  <2> QED BY <1>2, <1>3, <2>1, ChainNew, FS_Subset
<1>9. PICK link, free, size :
        link = m.slab[s].freeArray /\ free = m.slab[s].free /\ size = m.slab[s].numOfFreeSlots
  OBVIOUS
<1>10. /\ link \in [Slots(c) -> Slots(c) \cup {End}] /\ Chained(free, link, F)
       /\ size = Cardinality(F)
  BY <1>1, <1>2, <1>3, <1>9 DEF Intact
<1>11. PICK link1 : link1 = Put(link, i, free)
  OBVIOUS
<1>12. Cardinality(G) = size + 1 /\ Chained(i, link1, G) /\ size \in Nat
  <2>1. DOMAIN link = Slots(c) /\ i \in Slots(c) \ F
    BY <1>2, <1>4, <1>10
  <2>2. size \in Nat
    BY <1>8, <1>10, FS_CardinalityType
  <2>3. Cardinality(G) = Cardinality(F) + 1 /\ Chained(i, link1, G)
    BY ONLY <1>7, <1>8, <1>10, <1>11, <2>1, F \in SUBSET Slots(c), ChainPut
  <2> QED BY <1>10, <2>2, <2>3
<1>13. link1 \in [Slots(c) -> Slots(c) \cup {End}]
  <2>1. free \in Slots(c) \cup {End}
    BY <1>10 DEF Chained, Ranked
  <2> QED BY <1>10, <1>11, <2>1 DEF Put
<1>14. PICK v : /\ Listed(v, cr, av) /\ SameUse(v, m)
                /\ \A q \in Slabs : q # s => v.slab[q].group = m.slab[q].group
                /\ v.slab[s].group = IF G = Slots(c) THEN "FREE" ELSE "PARTIAL"
                /\ updateSlab(m, s) = Counted(v, s, size + 1)
  BY <1>1, <1>2, <1>3, <1>4, <1>7, <1>9, UpdateMoves
<1>15. /\ v \in Memories /\ v.slab[s].freeArray = link /\ v.slab[s].free = free
       /\ v.slab[s].owner = c
  BY <1>1, <1>2, <1>9, <1>14 DEF SameUse
<1>16. n = linkSlot(Counted(v, s, size + 1), s, i)
  BY <1>14
<1>17. /\ Reused(n, v, s) /\ n.slab[s].free = i /\ n.slab[s].freeArray = link1
       /\ n.slab[s].numOfFreeSlots = size + 1
  <2>1. link1 \in Arrays
    BY <1>2, <1>13 DEF Arrays
  <2>2. i \in Int /\ size + 1 \in Int
    BY <1>2, <1>8, <1>12
  <2>3. link1 = Put(v.slab[s].freeArray, i, v.slab[s].free)
    BY ONLY <1>11, <1>15
  <2> QED BY ONLY <1>2, <1>15, <1>16, <2>1, <2>2, <2>3, PutWrites
<1>18. Listed(n, cr, av)
  BY <1>2, <1>14, <1>15, <1>17, ListedReused
<1>19. \A q \in Slabs : n.slab[q].owner = m.slab[q].owner
  BY <1>14, <1>17 DEF Reused, SameUse
<1>20. Accounted(n, lv1)
  BY <1>5, <1>19 DEF Accounted, Consistent
<1>21. FreeOf(n, lv1, s) = G /\ n.slab[s].owner = c
  <2>1. n.slab[s].owner = c
    BY <1>1, <1>2, <1>19
  <2> QED BY ONLY <1>1, <1>2, <1>3, <1>6, <1>7, <2>1 DEF FreeOf
<1>22. Intact(n, lv1, s)
  BY <1>12, <1>13, <1>17, <1>21 DEF Intact
<1>23. Fits(n, lv1, s)
  <2>1. n.slab[s].group = IF G = Slots(c) THEN "FREE" ELSE "PARTIAL"
    BY <1>14, <1>17 DEF Reused
  <2>2. G # {}
    BY <1>7
  <2> QED BY <1>21, <2>1, <2>2 DEF Fits
<1>24. ASSUME NEW q \in Slabs, q # s, n.slab[q].owner # None
       PROVE  Intact(n, lv1, q) /\ Fits(n, lv1, q)
  <2>1. n.slab[q] = v.slab[q] /\ v.slab[q].group = m.slab[q].group
    BY <1>14, <1>17, <1>24 DEF Reused
  <2>2. Intact(m, lv, q) /\ Fits(m, lv, q)
    BY <1>19, <1>24 DEF Consistent
  <2>3. Intact(v, lv, q) /\ Fits(v, lv, q)
    BY <1>14, <2>1, <2>2, UseKept
  <2>4. FreeOf(n, lv1, q) = FreeOf(v, lv, q)
    BY ONLY <1>6, <1>24, <2>1 DEF FreeOf
  <2> QED BY ONLY <2>1, <2>3, <2>4 DEF Intact, Fits
<1>25. Consistent(n, cr, av, lv1)
  BY <1>18, <1>20, <1>22, <1>23, <1>24 DEF Consistent
<1> QED BY <1>5, <1>19, <1>25

-----------------------------------------------------------------------------
(* A cache is created or destroyed.                                        *)
Renewed(m, c, gone) ==
  [slab  |-> [s \in Slabs |-> IF s \in gone THEN BlankSlab ELSE m.slab[s]],
   cache |-> [m.cache EXCEPT ![c] = NewCache]]

LEMMA Blanks ==
  /\ BlankSlab \in AnyHeader /\ BlankSlab.owner = None
  /\ NewCache \in Descriptor /\ NewCache.numOfSlabs = 0
  /\ \A g \in Groups : NewCache.list[g] = None
<1>1. <<>> \in Arrays /\ None \in Pointers
  BY DEF Arrays, Pointers
<1>2. BlankSlab \in AnyHeader /\ BlankSlab.owner = None
  BY <1>1 DEF BlankSlab, AnyHeader, Groups, End
<1>3. /\ NewCache \in Descriptor /\ NewCache.numOfSlabs = 0
      /\ \A g \in Groups : NewCache.list[g] = None
  BY <1>1 DEF NewCache, Descriptor, Errors
<1> QED BY <1>2, <1>3

(* Before the first call, whatever caches there are.                       *)
LEMMA NewMemory ==
  ASSUME NEW cr \in SUBSET Caches, NEW m,
         m = [slab |-> [s \in Slabs |-> BlankSlab], cache |-> [c \in Caches |-> NewCache]]
  PROVE  Consistent(m, cr, Slabs, {})
<1>1. m.slab = [s \in Slabs |-> BlankSlab] /\ m.cache = [c \in Caches |-> NewCache]
  OBVIOUS
<1>2. /\ m \in Memories /\ \A s \in Slabs : m.slab[s] = BlankSlab /\ m.slab[s].owner = None
      /\ \A c \in Caches : m.cache[c] = NewCache
  BY <1>1, Blanks DEF Memories
<1>3. ASSUME NEW c \in Caches, NEW g \in Groups
      PROVE  Linked(m, c, g, Grouped(m, c, g, Slabs))
  <2>1. Grouped(m, c, g, Slabs) = {}
    BY <1>2, Parts DEF Grouped
  <2>2. m.cache[c].list[g] = None
    BY <1>2, Blanks
  <2> QED BY <2>1, <2>2 DEF Linked
<1>4. Lists(m, Slabs)
  BY <1>3 DEF Lists
<1>5. ASSUME NEW c \in cr PROVE m.cache[c].numOfSlabs = Cardinality(OwnedIn(m, c))
  <2>1. OwnedIn(m, c) = {}
    BY <1>2, Parts DEF OwnedIn
  <2>2. c \in Caches
    OBVIOUS
  <2> QED BY <1>2, <2>1, <2>2, Blanks, FS_EmptySet
<1>6. Listed(m, cr, Slabs)
  BY <1>2, <1>4, <1>5 DEF Listed
<1>7. Accounted(m, {})
  BY DEF Accounted
<1> QED BY <1>2, <1>6, <1>7 DEF Consistent

LEMMA RenewedWrites ==
  ASSUME NEW m \in Memories, NEW c \in Caches, NEW gone, NEW n, n = Renewed(m, c, gone)
  PROVE  /\ n \in Memories
         /\ \A s \in Slabs : n.slab[s] = IF s \in gone THEN BlankSlab ELSE m.slab[s]
         /\ \A d \in Caches : n.cache[d] = IF d = c THEN NewCache ELSE m.cache[d]
<1>1. /\ n.slab = [s \in Slabs |-> IF s \in gone THEN BlankSlab ELSE m.slab[s]]
      /\ n.cache = [m.cache EXCEPT ![c] = NewCache]
      /\ n = [slab |-> n.slab, cache |-> n.cache]
  BY DEF Renewed
<1>2. m.slab \in [Slabs -> AnyHeader] /\ m.cache \in [Caches -> Descriptor]
  BY DEF Memories
<1>3. n.slab \in [Slabs -> AnyHeader]
  <2>1. ASSUME NEW s \in Slabs
        PROVE  (IF s \in gone THEN BlankSlab ELSE m.slab[s]) \in AnyHeader
    BY <1>2, Blanks
  <2> QED BY <1>1, <2>1
<1>4. n.cache \in [Caches -> Descriptor]
  BY <1>1, <1>2, Blanks
<1> QED BY <1>1, <1>2, <1>3, <1>4 DEF Memories

LEMMA RenewedKeeps ==
  ASSUME NEW m, NEW cr, NEW av, NEW lv, Consistent(m, cr, av, lv),
         NEW c \in Caches, NEW gone, gone = OwnedIn(m, c),
         NEW cr1 \in SUBSET Caches, cr1 \ {c} = cr \ {c},
         NEW n, n = Renewed(m, c, gone)
  PROVE  Consistent(n, cr1, av \cup gone, {o \in lv : o[1] \notin gone})
<1>1. /\ Listed(m, cr, av) /\ Accounted(m, lv) /\ m \in Memories /\ Lists(m, Slabs)
      /\ \A s \in Slabs : m.slab[s].owner # None => Intact(m, lv, s) /\ Fits(m, lv, s)
  BY DEF Consistent, Listed
<1>2. None \notin Slabs /\ None \notin Caches /\ c # None
  BY Parts, <1>1
<1>3. /\ n \in Memories
      /\ \A s \in Slabs : n.slab[s] = IF s \in gone THEN BlankSlab ELSE m.slab[s]
      /\ \A d \in Caches : n.cache[d] = IF d = c THEN NewCache ELSE m.cache[d]
  BY <1>1, RenewedWrites
<1>4. \A s \in Slabs : s \in gone <=> m.slab[s].owner = c
  BY DEF OwnedIn
<1>5. \A s \in Slabs : n.slab[s].owner = IF m.slab[s].owner = c THEN None ELSE m.slab[s].owner
  BY <1>3, <1>4, Blanks
<1>6. ASSUME NEW d \in Caches, NEW k \in Groups
      PROVE  Linked(n, d, k, Grouped(n, d, k, Slabs))
  <2>1. CASE d = c
    <3>1. Grouped(n, d, k, Slabs) = {}
      BY <1>2, <1>5, <2>1 DEF Grouped
    <3>2. n.cache[d].list[k] = None
      BY <1>3, <2>1, Blanks
    <3> QED BY <3>1, <3>2 DEF Linked
  <2>2. CASE d # c
    <3>1. PICK K : K = Grouped(m, d, k, Slabs)
      OBVIOUS
    <3>2. Linked(m, d, k, K) /\ None \notin K
      BY <1>1, <1>2, <3>1 DEF Lists, Grouped
    <3>3. \A q \in K : q \in Slabs /\ n.slab[q] = m.slab[q]
      BY <1>3, <1>4, <2>2, <3>1 DEF Grouped
    <3>4. n.cache[d].list[k] = m.cache[d].list[k]
      BY <1>3, <2>2
    <3>5. Linked(n, d, k, K)
      BY <3>2, <3>3, <3>4, LinkedSame
    <3>6. d # None
      BY <1>2
    <3>7. Grouped(n, d, k, Slabs) = K
      BY <1>3, <1>4, <1>5, <2>2, <3>1, <3>6 DEF Grouped
    <3> QED BY <3>5, <3>7
  <2> QED BY <2>1, <2>2
<1>7. Lists(n, Slabs)
  BY <1>6 DEF Lists
<1>8. ASSUME NEW d \in cr1 PROVE n.cache[d].numOfSlabs = Cardinality(OwnedIn(n, d))
  <2>1. d # None /\ d \in Caches
    BY <1>2
  <2>2. CASE d = c
    <3>1. OwnedIn(n, d) = {}
      BY <1>2, <1>5, <2>2 DEF OwnedIn
    <3>2. n.cache[d].numOfSlabs = 0
      BY <1>3, <2>2, Blanks
    <3> QED BY <3>1, <3>2, FS_EmptySet
  <2>3. CASE d # c
    <3>1. OwnedIn(n, d) = OwnedIn(m, d)
      BY <1>5, <2>1, <2>3 DEF OwnedIn
    <3>2. d \in cr /\ n.cache[d] = m.cache[d]
      BY <1>3, <2>1, <2>3
    <3> QED BY <1>1, <3>1, <3>2 DEF Listed
  <2> QED BY <2>2, <2>3
<1>9. av \cup gone = {s \in Slabs : n.slab[s].owner = None}
  <2>1. av = {s \in Slabs : m.slab[s].owner = None} /\ gone \subseteq Slabs
    BY <1>1 DEF Listed, OwnedIn
  <2> QED BY <1>2, <1>4, <1>5, <2>1
<1>10. \A s \in Slabs : n.slab[s].owner = None => n.slab[s] = BlankSlab
  BY <1>1, <1>2, <1>3, <1>4, <1>5 DEF Listed
<1>11. \A s \in Slabs : n.slab[s].owner # None => n.slab[s].owner \in cr1
  BY <1>1, <1>5 DEF Listed
<1>12. Listed(n, cr1, av \cup gone)
  BY <1>3, <1>7, <1>8, <1>9, <1>10, <1>11 DEF Listed
<1>13. PICK lv1 : lv1 = {o \in lv : o[1] \notin gone}
  OBVIOUS
<1>14. lv1 \subseteq lv /\ \A s, i : s \notin gone => (<<s, i>> \in lv1 <=> <<s, i>> \in lv)
  BY <1>13
<1>15. Accounted(n, lv1)
  BY <1>1, <1>3, <1>13, <1>14 DEF Accounted
<1>16. ASSUME NEW s \in Slabs, n.slab[s].owner # None PROVE Intact(n, lv1, s) /\ Fits(n, lv1, s)
  <2>1. s \notin gone /\ n.slab[s] = m.slab[s]
    BY <1>3, <1>4, <1>5, <1>16
  <2>2. FreeOf(n, lv1, s) = FreeOf(m, lv, s)
    BY ONLY <1>14, <2>1 DEF FreeOf
  <2>3. Intact(m, lv, s) /\ Fits(m, lv, s)
    BY <1>1, <1>16, <2>1
  <2> QED BY ONLY <2>1, <2>2, <2>3 DEF Intact, Fits
<1> QED BY <1>12, <1>13, <1>15, <1>16 DEF Consistent

(* What kmem_cache_destroy walks through are the slabs of the cache.       *)
LEMMA WalkMeetsGroup ==
  ASSUME NEW m \in Memories, NEW c \in Caches, NEW g \in Groups, Lists(m, Slabs)
  PROVE  Walk(m, m.cache[c].list[g]) = Grouped(m, c, g, Slabs)
<1>1. PICK M \in SUBSET Slabs : M = Grouped(m, c, g, Slabs)
  BY DEF Grouped
<1>2. PICK head : head = m.cache[c].list[g]
  OBVIOUS
<1>3. Linked(m, c, g, M) /\ None \notin M
  BY <1>1, Parts DEF Lists
<1>4. PICK next : next = [s \in Slabs |-> m.slab[s].next]
  OBVIOUS
<1>5. PICK linked : linked = ({head} \cup {m.slab[s].next : s \in Slabs}) \ {None}
  OBVIOUS
<1>6. /\ head \in M \cup {None}
      /\ \A s \in M : next[s] \in M \cup {None}
      /\ \A S \in SUBSET M :
           head \in S \cup {None} /\ (\A s \in S : next[s] \in S \cup {None}) => S = M
  BY <1>2, <1>3, <1>4 DEF Linked
<1>7. M \subseteq linked
  <2>1. ASSUME NEW s \in M, head # s PROVE \E p \in Slabs : m.slab[p].next = s
    BY <1>2, <1>3, <2>1 DEF Linked
  <2> QED BY <1>3, <1>5, <2>1
<1>8. ASSUME NEW s \in Walk(m, head) PROVE s \in M
  <2>1. head # None
    BY <1>8 DEF Walk
  <2>2. M \in SUBSET linked /\ head \in M /\ \A p \in M : m.slab[p].next \in M \cup {None}
    BY <1>4, <1>6, <1>7, <2>1
  <2> QED BY <1>5, <1>8, <2>2 DEF Walk
<1>9. ASSUME NEW s \in M PROVE s \in Walk(m, head)
  <2>1. head # None
    BY <1>6, {} \in SUBSET M
  <2>2. ASSUME NEW S \in SUBSET linked, head \in S,
               \A p \in S : m.slab[p].next \in S \cup {None}
        PROVE  s \in S
    <3>1. PICK T \in SUBSET M : T = S \cap M
      OBVIOUS
    <3>2. head \in T
      BY <1>6, <2>1, <2>2, <3>1
    <3>3. \A p \in T : next[p] \in T \cup {None}
      BY <1>4, <1>6, <2>2, <3>1
    <3>4. T = M
      BY <1>6, <3>2, <3>3
    <3> QED BY <3>1, <3>4
  <2> QED BY <1>5, <1>7, <2>1, <2>2 DEF Walk
<1> QED BY <1>1, <1>2, <1>8, <1>9

LEMMA WalksMeetOwned ==
  ASSUME NEW m \in Memories, NEW c \in Caches, Lists(m, Slabs)
  PROVE  UNION {Walk(m, m.cache[c].list[g]) : g \in Groups} = OwnedIn(m, c)
<1>1. \A g \in Groups : Walk(m, m.cache[c].list[g]) = Grouped(m, c, g, Slabs)
  BY WalkMeetsGroup
<1>2. UNION {Walk(m, m.cache[c].list[g]) : g \in Groups}
        = UNION {Grouped(m, c, g, Slabs) : g \in Groups}
  BY <1>1
<1>3. \A s \in Slabs : m.slab[s].group \in Groups
  BY Parts DEF AnyHeader
<1> QED BY <1>2, <1>3 DEF Grouped, OwnedIn

-----------------------------------------------------------------------------
(* The steps.  A call does three things to the memory, the blocks and the  *)
(* objects, and Consistent survives each.                                  *)
IInv == Consistent(Memory, created, avail, live)

LEMMA InitHolds == Init => IInv
<1> SUFFICES ASSUME Init PROVE IInv
  OBVIOUS
<1>1. Memory = [slab |-> [s \in Slabs |-> BlankSlab], cache |-> [c \in Caches |-> NewCache]]
  BY DEF Init, Memory
<1>2. Consistent(Memory, {}, Slabs, {})
  BY <1>1, {} \in SUBSET Caches, NewMemory
<1> QED BY <1>2 DEF Init, IInv

LEMMA CreateKeeps ==
  ASSUME IInv, NEW c \in Caches, create(c)
  PROVE  IInv' /\ \A q \in Slabs : slab[q].owner # c
<1>1. PICK m : m = Memory
  OBVIOUS
<1>2. /\ m = [slab |-> slab, cache |-> cache] /\ m.slab = slab /\ m.cache = cache
  BY <1>1 DEF Memory
<1>3. PICK n : n = [slab |-> slab', cache |-> cache']
  OBVIOUS
<1>4. Consistent(m, created, avail, live) /\ Listed(m, created, avail) /\ m \in Memories
  BY <1>1 DEF IInv, Consistent, Listed
<1>5. /\ c \notin created /\ created' = created \cup {c} /\ slab' = slab
      /\ cache' = [cache EXCEPT ![c] = NewCache] /\ avail' = avail /\ live' = live
  BY DEF create
<1>6. c # None
  BY <1>4, Parts
<1>7. \A q \in Slabs : m.slab[q].owner # c
  BY <1>4, <1>5, <1>6 DEF Listed
<1>8. OwnedIn(m, c) = {}
  BY <1>7 DEF OwnedIn
<1>9. n = Renewed(m, c, {})
  <2>1. slab = [s \in Slabs |-> slab[s]]
    BY <1>2, <1>4 DEF Memories
  <2> QED BY <1>2, <1>3, <1>5, <2>1 DEF Renewed
<1>10. created' \in SUBSET Caches /\ created' \ {c} = created \ {c}
  BY <1>4, <1>5 DEF Listed
<1>11. Consistent(n, created', avail \cup {}, {o \in live : o[1] \notin {}})
  <2>1. PICK gone : gone = {}
    OBVIOUS
  <2>2. gone = OwnedIn(m, c) /\ n = Renewed(m, c, gone)
    BY ONLY <1>8, <1>9, <2>1
  <2>3. Consistent(n, created', avail \cup gone, {o \in live : o[1] \notin gone})
    BY ONLY <1>4, <1>10, <2>2, c \in Caches, RenewedKeeps
  <2> QED BY <2>1, <2>3
<1>12. Consistent(n, created', avail', live')
  BY <1>5, <1>11
<1> QED BY <1>2, <1>3, <1>7, <1>12 DEF IInv, Memory

LEMMA DestroyKeeps ==
  ASSUME IInv, NEW c \in Caches, destroy(c)
  PROVE  /\ IInv'
         /\ \A q \in Slabs : slab'[q].owner = IF slab[q].owner = c THEN None ELSE slab[q].owner
         /\ live' = {obj \in live : slab[obj[1]].owner # c}
<1>1. PICK m : m = Memory
  OBVIOUS
<1>2. /\ m = [slab |-> slab, cache |-> cache] /\ m.slab = slab /\ m.cache = cache
  BY <1>1 DEF Memory
<1>3. PICK n : n = [slab |-> slab', cache |-> cache']
  OBVIOUS
<1>4. /\ Consistent(m, created, avail, live) /\ Listed(m, created, avail) /\ m \in Memories
      /\ Accounted(m, live) /\ Lists(m, Slabs)
  BY <1>1 DEF IInv, Consistent, Listed
<1>5. PICK gone : gone = OwnedIn(m, c)
  OBVIOUS
<1>6. AllSlabs(c) = gone
  BY <1>1, <1>2, <1>4, <1>5, WalksMeetOwned DEF AllSlabs
<1>7. /\ created' = created \ {c} /\ cache' = [cache EXCEPT ![c] = NewCache]
      /\ slab' = [s \in Slabs |-> IF s \in gone THEN BlankSlab ELSE slab[s]]
      /\ avail' = avail \cup gone /\ live' = {obj \in live : obj[1] \notin gone}
  BY <1>6 DEF destroy, destroySlabs
<1>8. n = Renewed(m, c, gone)
  BY <1>2, <1>3, <1>7 DEF Renewed
<1>9. created' \in SUBSET Caches /\ created' \ {c} = created \ {c}
  BY <1>4, <1>7 DEF Listed
<1>10. Consistent(n, created', avail', live')
  BY <1>4, <1>5, <1>7, <1>8, <1>9, RenewedKeeps
<1>11. \A q \in Slabs : slab'[q].owner = IF slab[q].owner = c THEN None ELSE slab[q].owner
  BY <1>2, <1>5, <1>7, Blanks DEF OwnedIn
<1>12. live' = {obj \in live : slab[obj[1]].owner # c}
  <2>1. \A obj \in live : obj[1] \in Slabs
    BY <1>4 DEF Accounted
  <2> QED BY <1>2, <1>5, <1>7, <2>1 DEF OwnedIn
<1> QED BY <1>3, <1>10, <1>11, <1>12 DEF IInv, Memory

(* Only the error of a descriptor changes.                                 *)
ErrorNoted(n, m, c, e) == n = [m EXCEPT !.cache[c].error = e]

LEMMA ErrorSet ==
  ASSUME NEW m, NEW cr, NEW av, NEW lv, Consistent(m, cr, av, lv),
         NEW c \in Caches, NEW e \in Errors, NEW n, ErrorNoted(n, m, c, e)
  PROVE  Consistent(n, cr, av, lv) /\ n.slab = m.slab
<1>1. /\ Listed(m, cr, av) /\ Accounted(m, lv) /\ m \in Memories
      /\ \A s \in Slabs : m.slab[s].owner # None => Intact(m, lv, s) /\ Fits(m, lv, s)
  BY DEF Consistent, Listed
<1>2. m.cache \in [Caches -> Descriptor]
  BY <1>1 DEF Memories
<1>3. PICK d : d = [m.cache[c] EXCEPT !.error = e]
  OBVIOUS
<1>4. d \in Descriptor /\ d.list = m.cache[c].list /\ d.numOfSlabs = m.cache[c].numOfSlabs
  BY <1>1, <1>3, Parts DEF Descriptor
<1>5. n = [slab |-> m.slab, cache |-> [m.cache EXCEPT ![c] = d]]
  BY <1>1, <1>3 DEF Memories, ErrorNoted
<1>6. n.slab = m.slab /\ n.cache = [m.cache EXCEPT ![c] = d]
  BY <1>5
<1>7. n \in Memories
  BY <1>1, <1>2, <1>4, <1>5 DEF Memories
<1>8. \A q \in Caches : /\ n.cache[q].list = m.cache[q].list
                        /\ n.cache[q].numOfSlabs = m.cache[q].numOfSlabs
  BY <1>2, <1>4, <1>6
<1>9. Listed(n, cr, av)
  BY <1>1, <1>6, <1>7, <1>8, ListedAnyway
<1>10. /\ Accounted(n, lv)
       /\ \A s \in Slabs : n.slab[s].owner # None => Intact(n, lv, s) /\ Fits(n, lv, s)
  BY <1>1, <1>6, UseAnyway
<1>11. Consistent(n, cr, av, lv)
  BY <1>9, <1>10 DEF Consistent
<1> QED BY <1>6, <1>11

LEMMA ErrorKeeps ==
  ASSUME IInv, NEW c \in Caches, NEW e \in Errors, cache' = [cache EXCEPT ![c].error = e],
         UNCHANGED <<slab, created, avail, live>>
  PROVE  IInv'
<1>1. PICK m : m = Memory
  OBVIOUS
<1>2. m = [slab |-> slab, cache |-> cache] /\ m.slab = slab /\ m.cache = cache
  BY <1>1 DEF Memory
<1>3. PICK n : n = [m EXCEPT !.cache[c].error = e]
  OBVIOUS
<1>4. n = [slab |-> slab', cache |-> cache']
  BY <1>2, <1>3
<1>5. Consistent(n, created, avail, live)
  BY <1>1, <1>3, ErrorSet DEF IInv, ErrorNoted
<1> QED BY <1>4, <1>5 DEF IInv, Memory

(* An object that is given out was in nobody's hands.                      *)
LEMMA AllocKeeps ==
  ASSUME IInv, NEW c \in Caches, cacheAlloc(c), ~allocFails(c)
  PROVE  /\ IInv'
         /\ \E s \in Slabs, i \in Slots(c) :
              /\ <<s, i>> \notin live /\ live' = live \cup {<<s, i>>}
              /\ call' = <<"alloc", c, <<s, i>>>>
              /\ slab'[s].owner = c
              /\ \A o \in live : slab'[o[1]].owner = slab[o[1]].owner
<1>1. PICK m : m = Memory
  OBVIOUS
<1>2. m.slab = slab
  BY <1>1 DEF Memory
<1>3. /\ Consistent(m, created, avail, live) /\ Accounted(m, live)
      /\ avail = {s \in Slabs : m.slab[s].owner = None}
  BY <1>1 DEF IInv, Consistent, Listed
<1>4. c \in created /\ created' = created
  BY DEF cacheAlloc
<1>5. ASSUME NEW r, NEW av, Ready(r, created, av, live, c), HandOut(r, c), avail' = av,
             \A o \in live : r.slab[o[1]].owner = slab[o[1]].owner
      PROVE  /\ IInv'
             /\ \E s \in Slabs, i \in Slots(c) :
                  /\ <<s, i>> \notin live /\ live' = live \cup {<<s, i>>}
                  /\ call' = <<"alloc", c, <<s, i>>>>
                  /\ slab'[s].owner = c
                  /\ \A o \in live : slab'[o[1]].owner = slab[o[1]].owner
  <2>1. PICK s : s = r.cache[c].list["PARTIAL"]
    OBVIOUS
  <2>2. PICK i : i = r.slab[s].free
    OBVIOUS
  <2>3. PICK n : n = takeFromPartial(r, c)
    BY Zenon
  <2>4. /\ slab' = n.slab /\ cache' = n.cache /\ live' = live \cup {<<s, i>>}
        /\ call' = <<"alloc", c, <<s, i>>>>
    BY ONLY <1>5, <2>1, <2>2, <2>3 DEF HandOut, Become
  <2>5. /\ s \in Slabs /\ r.slab[s].owner = c /\ i \in Slots(c) /\ <<s, i>> \notin live
        /\ Consistent(n, created, av, live \cup {<<s, i>>})
        /\ \A q \in Slabs : n.slab[q].owner = r.slab[q].owner
    <3>1. c \in created /\ Ready(r, created, av, live, c)
      BY <1>4, <1>5
    <3>2. /\ s \in Slabs /\ r.slab[s].owner = c /\ i \in Slots(c) /\ <<s, i>> \notin live
          /\ Consistent(takeFromPartial(r, c), created, av, live \cup {<<s, i>>})
          /\ \A q \in Slabs : takeFromPartial(r, c).slab[q].owner = r.slab[q].owner
      BY ONLY <2>1, <2>2, <3>1, HandOutKeeps
    <3> QED BY ONLY <2>3, <3>2
  <2>6. n = [slab |-> n.slab, cache |-> n.cache]
    BY <2>5 DEF Consistent, Listed, Memories
  <2>7. IInv'
    BY <1>4, <1>5, <2>4, <2>5, <2>6 DEF IInv, Memory
  <2>8. \A o \in live : o[1] \in Slabs
    BY <1>3 DEF Accounted
  <2>9. slab'[s].owner = c /\ \A o \in live : slab'[o[1]].owner = slab[o[1]].owner
    BY <1>5, <2>4, <2>5, <2>8
  <2> QED BY <2>4, <2>5, <2>7, <2>9
<1>6. CASE allocFromSlab(c)
  <2>1. ~NoSlabLeft(m, c) /\ HandOut(Stocked(m, c), c) /\ avail' = avail
    BY <1>1, <1>6 DEF allocFromSlab
  <2>2. /\ Ready(Stocked(m, c), created, avail, live, c)
        /\ \A q \in Slabs : Stocked(m, c).slab[q].owner = m.slab[q].owner
    BY <1>3, <1>4, <2>1, StockedReady
  <2>3. \A o \in live : Stocked(m, c).slab[o[1]].owner = slab[o[1]].owner
    BY <1>2, <1>3, <2>2 DEF Accounted
  <2> QED BY <1>5, <2>1, <2>2, <2>3
<1>7. CASE allocFromNewSlab(c)
  <2>1. PICK b \in avail : avail' = avail \ {b} /\ HandOut(Grown(m, c, b), c)
    BY <1>1, <1>7 DEF allocFromNewSlab
  <2>2. /\ Ready(Grown(m, c, b), created, avail \ {b}, live, c)
        /\ \A q \in Slabs : Grown(m, c, b).slab[q].owner = IF q = b THEN c ELSE m.slab[q].owner
    BY <1>3, <1>4, GrownReady
  <2>3. \A o \in live : Grown(m, c, b).slab[o[1]].owner = slab[o[1]].owner
    <3>1. m.slab[b].owner = None
      BY <1>3
    <3> QED BY <1>2, <1>3, <2>2, <3>1 DEF Accounted
  <2> QED BY <1>5, <2>1, <2>2, <2>3
<1> QED BY <1>6, <1>7 DEF cacheAlloc

LEMMA FreeKeeps ==
  ASSUME IInv, NEW c \in Caches, NEW obj \in live, cacheFree(c, obj),
         slab[obj[1]].owner = c
  PROVE  /\ IInv' /\ live' = live \ {obj}
         /\ \A q \in Slabs : slab'[q].owner = slab[q].owner
<1>1. PICK m : m = Memory
  OBVIOUS
<1>2. m.slab = slab /\ Consistent(m, created, avail, live) /\ live \subseteq Slabs \X Nat
  BY <1>1 DEF Memory, IInv, Consistent, Accounted
<1>3. PICK s, i : obj = <<s, i>>
  BY <1>2
<1>4. PICK n : n = linkSlot(updateSlab(m, s), s, i)
  OBVIOUS
<1>5. /\ slab' = n.slab /\ cache' = n.cache /\ live' = live \ {obj}
      /\ created' = created /\ avail' = avail
  BY <1>1, <1>3, <1>4 DEF cacheFree, Become
<1>6. /\ Consistent(n, created, avail, live \ {obj})
      /\ \A q \in Slabs : n.slab[q].owner = m.slab[q].owner
  BY <1>2, <1>3, <1>4, PutKeeps
<1>7. n = [slab |-> n.slab, cache |-> n.cache]
  BY <1>6 DEF Consistent, Listed, Memories
<1> QED BY <1>2, <1>5, <1>6, <1>7 DEF IInv, Memory

LEMMA RefusedKeeps ==
  ASSUME IInv, NEW c \in Caches, NEW obj \in live, cacheFree(c, obj),
         slab[obj[1]].owner # c
  PROVE  IInv' /\ UNCHANGED <<slab, live, created>>
<1>1. /\ cache' = [cache EXCEPT ![c].error = -3]
      /\ UNCHANGED <<slab, created, avail, live>>
  BY DEF cacheFree
<1> QED BY <1>1, -3 \in Errors, ErrorKeeps DEF Errors

LEMMA NextKeeps == IInv /\ [Next]_vars => IInv'
<1> SUFFICES ASSUME IInv, [Next]_vars PROVE IInv'
  OBVIOUS
<1>1. CASE UNCHANGED vars
  BY <1>1 DEF vars, IInv, Memory
<1>2. ASSUME NEW c \in Caches, create(c) PROVE IInv'
  BY <1>2, CreateKeeps
<1>3. ASSUME NEW c \in Caches, cacheAlloc(c) PROVE IInv'
  <2>1. CASE allocFails(c)
    <3>1. cache' = [cache EXCEPT ![c].error = -2] /\ UNCHANGED <<slab, created, avail, live>>
      BY <1>3, <2>1 DEF allocFails, cacheAlloc
    <3> QED BY <3>1, -2 \in Errors, ErrorKeeps DEF Errors
  <2>2. CASE ~allocFails(c)
    BY <1>3, <2>2, AllocKeeps
  <2> QED BY <2>1, <2>2
<1>4. ASSUME NEW c \in Caches, NEW obj \in live, cacheFree(c, obj) PROVE IInv'
  BY <1>4, FreeKeeps, RefusedKeeps
<1>5. ASSUME NEW c \in Caches, destroy(c) PROVE IInv'
  BY <1>5, DestroyKeeps
<1> QED BY <1>1, <1>2, <1>3, <1>4, <1>5 DEF Next

(* The inductive invariant: every list, free list and counter is right     *)
(* between any two calls.                                                  *)
THEOREM Invariant == Spec => []IInv
BY InitHolds, NextKeeps, PTL DEF Spec

-----------------------------------------------------------------------------
(* The invariants of SlabCache.                                            *)
LEMMA IInvFacts ==
  ASSUME IInv
  PROVE  /\ Memory \in Memories /\ Memory.slab = slab /\ Memory.cache = cache
         /\ created \subseteq Caches /\ None \notin created
         /\ Lists(Memory, Slabs) /\ Listed(Memory, created, avail) /\ Accounted(Memory, live)
         /\ \A s \in Slabs : slab[s].owner # None =>
              /\ slab[s].owner \in created
              /\ Intact(Memory, live, s) /\ Fits(Memory, live, s)
              /\ FreeOf(Memory, live, s) = FreeSlots(s)
<1>1. /\ Memory \in Memories /\ Memory.slab = slab /\ Memory.cache = cache
      /\ created \subseteq Caches /\ Listed(Memory, created, avail)
      /\ Lists(Memory, Slabs) /\ Accounted(Memory, live)
  BY DEF IInv, Consistent, Listed, Memory
<1>2. None \notin created
  BY <1>1, Parts
<1>3. \A s \in Slabs : slab[s].owner # None =>
        /\ slab[s].owner \in created
        /\ Intact(Memory, live, s) /\ Fits(Memory, live, s)
  BY <1>1 DEF IInv, Consistent, Listed
<1>4. \A s : FreeOf(Memory, live, s) = FreeSlots(s)
  BY ONLY <1>1 DEF FreeOf, FreeSlots
<1> QED BY <1>1, <1>2, <1>3, <1>4

LEMMA HeadersTyped ==
  ASSUME IInv, NEW s \in Slabs, slab[s].owner # None
  PROVE  slab[s] \in Headers(slab[s].owner)
<1>1. PICK r \in AnyHeader : r = slab[s]
  BY IInvFacts, Parts
<1>2. PICK c \in Caches : c = r.owner
  BY <1>1, IInvFacts
<1>3. PICK F \in SUBSET Slots(c) : F = FreeOf(Memory, live, s)
  BY <1>1, <1>2, IInvFacts DEF FreeOf
<1>4. /\ r.freeArray \in [Slots(c) -> Slots(c) \cup {End}]
      /\ r.numOfFreeSlots = Cardinality(F) /\ Chained(r.free, r.freeArray, F)
  BY <1>1, <1>2, <1>3, IInvFacts DEF Intact
<1>5. r.free \in Slots(c) \cup {End}
  BY <1>4 DEF Chained, Ranked
<1>6. r.numOfFreeSlots \in 0 .. objNum[c]
  <2>1. IsFiniteSet(Slots(c)) /\ Cardinality(Slots(c)) = objNum[c] /\ objNum[c] \in Nat
    BY ChainNew, SlabAssumption
  <2>2. Cardinality(F) \in Nat /\ Cardinality(F) <= Cardinality(Slots(c))
    BY <2>1, FS_Subset, FS_CardinalityType
  <2> QED BY <1>4, <2>1, <2>2
<1>7. r.next \in Slabs \cup {None} /\ r.prev \in Slabs \cup {None} /\ r.group \in Groups
  BY DEF AnyHeader, Pointers
<1>8. r = [owner |-> r.owner, next |-> r.next, prev |-> r.prev, group |-> r.group,
           free |-> r.free, freeArray |-> r.freeArray, numOfFreeSlots |-> r.numOfFreeSlots]
  BY ONLY r \in AnyHeader DEF AnyHeader
<1>9. r \in Headers(c)
  BY ONLY <1>2, <1>4, <1>5, <1>6, <1>7, <1>8 DEF Headers
<1> QED BY <1>1, <1>2, <1>9

(* No block leaks, whatever caches come and go, and every object in use    *)
(* lies in a slab of a cache that exists.                                  *)
LEMMA AccountedHere == IInv => BlocksAccounted
<1> SUFFICES ASSUME IInv PROVE BlocksAccounted
  OBVIOUS
<1>1. avail = {s \in Slabs : slab[s].owner = None}
      /\ \A s \in Slabs : slab[s].owner = None => slab[s] = BlankSlab
  BY IInvFacts DEF Listed
<1>2. DOMAIN slab = Slabs
  BY IInvFacts DEF Memories
<1>3. cache \in [Caches -> [list : [Groups -> Slabs \cup {None}], numOfSlabs : Nat,
                            shrink : {0, 1}, error : Errors]]
  BY IInvFacts DEF Memories, Descriptor, Pointers
<1>4. \A s \in Slabs : slab[s] = BlankSlab \/ \E c \in created : slab[s] \in Headers(c)
  BY <1>1, IInvFacts, HeadersTyped
<1>5. /\ live \subseteq Slabs \X Nat
      /\ \A obj \in live : slab[obj[1]].owner # None /\ obj[2] \in Slots(slab[obj[1]].owner)
  BY IInvFacts DEF Accounted
<1>6. avail = {s \in Slabs : slab[s].owner \notin created}
  BY <1>1, IInvFacts
<1>7. TypeOK
  BY <1>1, <1>2, <1>3, <1>4, <1>5, IInvFacts DEF TypeOK
<1> QED BY <1>5, <1>6, <1>7 DEF BlocksAccounted

LEMMA ListsHere == IInv => ListsLinkGroups
<1> SUFFICES ASSUME IInv PROVE ListsLinkGroups
  OBVIOUS
<1> SUFFICES ASSUME NEW c \in created, NEW g \in Groups
             PROVE  /\ cache[c].numOfSlabs = Cardinality(Owned(c))
                    /\ Walk(Memory, cache[c].list[g]) = Members(c, g)
                    /\ \A s \in Members(c, g) :
                         /\ slab[s].prev = None <=> cache[c].list[g] = s
                         /\ slab[s].next # None => slab[slab[s].next].prev = s
  BY "FREE" \in Groups DEF ListsLinkGroups, Groups
<1>1. PICK m : m = Memory
  OBVIOUS
<1>2. /\ m \in Memories /\ c \in Caches /\ Lists(m, Slabs) /\ Listed(m, created, avail)
      /\ m.slab = slab /\ m.cache = cache
  BY <1>1, IInvFacts
<1>3. Members(c, g) = Grouped(m, c, g, Slabs) /\ Owned(c) = OwnedIn(m, c)
  BY <1>2 DEF Members, Owned, Grouped, OwnedIn
<1>4. Linked(m, c, g, Members(c, g))
  BY <1>2, <1>3 DEF Lists
<1>5. Walk(m, m.cache[c].list[g]) = Members(c, g)
  BY <1>2, <1>3, WalkMeetsGroup
<1>6. m.cache[c].numOfSlabs = Cardinality(Owned(c))
  BY <1>2, <1>3 DEF Listed
<1> QED BY <1>1, <1>2, <1>4, <1>5, <1>6 DEF Linked

LEMMA GroupsHere == IInv => GroupsMatchUse
<1> SUFFICES ASSUME IInv, NEW s \in Slabs, slab[s].owner # None
             PROVE  slab[s].group = IF FreeSlots(s) = {} THEN "FULL"
                                    ELSE IF Slots(slab[s].owner) \ FreeSlots(s) = {} THEN "FREE"
                                    ELSE "PARTIAL"
  BY DEF GroupsMatchUse
<1>1. Slots(slab[s].owner) \ FreeSlots(s) = {} <=> FreeSlots(s) = Slots(slab[s].owner)
  BY DEF FreeSlots
<1>2. slab[s].group = IF FreeSlots(s) = {} THEN "FULL"
                      ELSE IF FreeSlots(s) = Slots(slab[s].owner) THEN "FREE" ELSE "PARTIAL"
  BY IInvFacts DEF Fits
<1> QED BY ONLY <1>1, <1>2

LEMMA FreeListsHere == IInv => FreeListsExact
<1> SUFFICES ASSUME IInv, NEW s \in Slabs, slab[s].owner # None, NEW h, h = slab[s],
                    NEW F, F = FreeSlots(s)
             PROVE  /\ h.numOfFreeSlots = Cardinality(F)
                    /\ h.free = End <=> F = {}
                    /\ \E rank \in [F -> 1 .. h.numOfFreeSlots] :
                         /\ \A i, j \in F : rank[i] = rank[j] => i = j
                         /\ h.free # End => h.free \in F /\ rank[h.free] = h.numOfFreeSlots
                         /\ \A i \in F :
                              IF rank[i] = 1 THEN h.freeArray[i] = End
                              ELSE h.freeArray[i] \in F /\ rank[h.freeArray[i]] = rank[i] - 1
  BY DEF FreeListsExact
<1>1. h.numOfFreeSlots = Cardinality(F) /\ Chained(h.free, h.freeArray, F)
  BY IInvFacts DEF Intact
<1>2. PICK rank \in [F -> 1 .. Cardinality(F)] : Ranked(h.free, h.freeArray, F, rank)
  BY <1>1 DEF Chained
<1> QED BY ONLY <1>1, <1>2 DEF Chained, Ranked

(* A block is with the buddy allocator or in a slab of a cache that        *)
(* exists, for any caches and blocks: nothing leaks when caches go.        *)
THEOREM BlocksAccountedHolds == Spec => []BlocksAccounted
BY Invariant, AccountedHere, PTL

(* The three lists of each cache link exactly the slabs of their groups,   *)
(* both ways, so moveSlab and moveFree may take a slab without a           *)
(* predecessor for the head of its list.                                   *)
THEOREM ListsLinkGroupsHolds == Spec => []ListsLinkGroups
BY Invariant, ListsHere, PTL

(* cacheAlloc and updateSlab leave every slab in the group that the number *)
(* of its objects in use demands.                                          *)
THEOREM GroupsMatchUseHolds == Spec => []GroupsMatchUse
BY Invariant, GroupsHere, PTL

(* The free list of a slab runs once through the slots that nobody uses:   *)
(* takeObject never gives out an object twice, and finds one whenever      *)
(* numOfFreeSlots says so.                                                 *)
THEOREM FreeListsExactHolds == Spec => []FreeListsExact
BY Invariant, FreeListsHere, PTL

-----------------------------------------------------------------------------
(* The steps are those of ObjectPool.                                      *)
InUse == [c \in Caches |-> ObjectsOf(c)]

LEMMA InitIsPool == Init => Pool!PoolInit
BY DEF Init, ObjectsOf, Pool!PoolInit

LEMMA CreateIsPool ==
  ASSUME IInv, NEW c \in Caches, create(c)
  PROVE  Pool!Create(c)
<1>1. UNCHANGED InUse
  BY DEF create, InUse, ObjectsOf
<1> QED BY <1>1 DEF create, InUse, Pool!Create

LEMMA AllocIsPool ==
  ASSUME IInv, NEW c \in Caches, cacheAlloc(c), ~allocFails(c)
  PROVE  \E o \in Objects : Pool!Alloc(c, o)
<1>1. PICK s \in Slabs, i \in Slots(c) :
        /\ <<s, i>> \notin live /\ live' = live \cup {<<s, i>>}
        /\ call' = <<"alloc", c, <<s, i>>>>
        /\ slab'[s].owner = c
        /\ \A o \in live : slab'[o[1]].owner = slab[o[1]].owner
  BY AllocKeeps
<1>2. PICK obj : obj = <<s, i>>
  OBVIOUS
<1>3. obj \in Objects /\ obj[1] = s
  BY <1>2 DEF Objects
<1>4. \A d \in Caches : obj \notin ObjectsOf(d)
  BY <1>1, <1>2 DEF ObjectsOf
<1>5. ASSUME NEW d \in Caches
      PROVE  ObjectsOf(d)' = IF d = c THEN ObjectsOf(d) \cup {obj} ELSE ObjectsOf(d)
  BY <1>1, <1>2, <1>3 DEF ObjectsOf
<1>6. InUse' = [InUse EXCEPT ![c] = @ \cup {obj}]
  BY <1>5 DEF InUse
<1>7. Pool!Idle(obj)
  BY <1>4 DEF Pool!Idle
<1>8. c \in created /\ created' = created
  BY DEF cacheAlloc
<1> QED BY <1>1, <1>2, <1>3, <1>6, <1>7, <1>8 DEF InUse, Pool!Alloc

LEMMA AllocFailsIsPool ==
  ASSUME NEW c \in Caches, cacheAlloc(c), allocFails(c)
  PROVE  Pool!AllocFails(c)
<1>1. UNCHANGED InUse
  BY DEF allocFails, InUse, ObjectsOf
<1> QED BY <1>1 DEF allocFails, cacheAlloc, InUse, Pool!AllocFails

LEMMA FreeIsPool ==
  ASSUME IInv, NEW c \in Caches, NEW obj \in live, cacheFree(c, obj)
  PROVE  obj \in Objects /\ (Pool!Free(c, obj) \/ Pool!FreeRefused(c, obj))
<1>1. /\ obj \in Slabs \X Nat /\ slab[obj[1]].owner \in Caches
      /\ obj[2] \in Slots(slab[obj[1]].owner)
  BY IInvFacts DEF Accounted
<1>2. obj \in Objects
  BY <1>1 DEF Objects
<1>3. c \in created /\ created' = created /\ call' = <<"free", c, obj>>
  BY DEF cacheFree
<1>4. CASE slab[obj[1]].owner = c
  <2>1. live' = live \ {obj} /\ \A q \in Slabs : slab'[q].owner = slab[q].owner
    BY <1>4, FreeKeeps
  <2>2. \A o \in live : o[1] \in Slabs
    BY IInvFacts DEF Accounted
  <2>3. ASSUME NEW d \in Caches
        PROVE  ObjectsOf(d)' = IF d = c THEN ObjectsOf(d) \ {obj} ELSE ObjectsOf(d)
    BY <1>4, <2>1, <2>2 DEF ObjectsOf
  <2>4. InUse' = [InUse EXCEPT ![c] = @ \ {obj}]
    BY <2>3 DEF InUse
  <2>5. obj \in InUse[c]
    BY <1>4 DEF InUse, ObjectsOf
  <2>6. Pool!Free(c, obj)
    BY <1>3, <2>4, <2>5 DEF InUse, Pool!Free
  <2> QED BY <1>2, <2>6
<1>5. CASE slab[obj[1]].owner # c
  <2>1. UNCHANGED <<slab, live>>
    BY <1>5, RefusedKeeps
  <2>2. UNCHANGED InUse
    BY <2>1 DEF InUse, ObjectsOf
  <2>3. obj \notin InUse[c]
    BY <1>5 DEF InUse, ObjectsOf
  <2>4. Pool!FreeRefused(c, obj)
    BY <1>3, <2>2, <2>3 DEF InUse, Pool!FreeRefused
  <2> QED BY <1>2, <2>4
<1> QED BY <1>4, <1>5

LEMMA DestroyIsPool ==
  ASSUME IInv, NEW c \in Caches, destroy(c)
  PROVE  Pool!Destroy(c)
<1>1. /\ \A q \in Slabs : slab'[q].owner = IF slab[q].owner = c THEN None ELSE slab[q].owner
      /\ live' = {obj \in live : slab[obj[1]].owner # c}
  BY DestroyKeeps
<1>2. \A o \in live : o[1] \in Slabs
  BY IInvFacts DEF Accounted
<1>3. ASSUME NEW d \in Caches PROVE ObjectsOf(d)' = IF d = c THEN {} ELSE ObjectsOf(d)
  BY <1>1, <1>2 DEF ObjectsOf
<1>4. InUse' = [InUse EXCEPT ![c] = {}]
  BY <1>3 DEF InUse
<1> QED BY <1>4 DEF destroy, InUse, Pool!Destroy

LEMMA StepsArePool == IInv /\ [Next]_vars => [Pool!PoolNext]_(Pool!poolVars)
<1> SUFFICES ASSUME IInv, [Next]_vars PROVE Pool!PoolNext \/ UNCHANGED Pool!poolVars
  OBVIOUS
<1>1. CASE UNCHANGED vars
  <2>1. UNCHANGED InUse
    BY <1>1 DEF vars, InUse, ObjectsOf
  <2> QED BY <1>1, <2>1 DEF vars, InUse, Pool!poolVars
<1>2. ASSUME NEW c \in Caches, create(c) PROVE Pool!PoolNext
  BY <1>2, CreateIsPool DEF Pool!PoolNext
<1>3. ASSUME NEW c \in Caches, cacheAlloc(c) PROVE Pool!PoolNext
  BY <1>3, AllocIsPool, AllocFailsIsPool DEF Pool!PoolNext
<1>4. ASSUME NEW c \in Caches, NEW obj \in live, cacheFree(c, obj) PROVE Pool!PoolNext
  BY <1>4, FreeIsPool DEF Pool!PoolNext
<1>5. ASSUME NEW c \in Caches, destroy(c) PROVE Pool!PoolNext
  BY <1>5, DestroyIsPool DEF Pool!PoolNext
<1> QED BY <1>1, <1>2, <1>3, <1>4, <1>5 DEF Next

(* The users of the caches get what slab.h promises, for any number of     *)
(* caches, blocks and objects in a slab: an object given out is in nobody  *)
(* else's hands until it is freed into its cache or the cache goes.        *)
THEOREM ImplementsObjectPoolHolds == Spec => ImplementsObjectPool
BY InitIsPool, StepsArePool, Invariant, PTL DEF Spec, ImplementsObjectPool, Pool!PoolSpec
=============================================================================
