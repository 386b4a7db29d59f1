---------------------------- MODULE ConsoleProofs ----------------------------
(***************************************************************************)
(* Proofs about the console, for any number of users and any sizes of the  *)
(* buffers and of the receiver.                                            *)
(*                                                                         *)
(* How many characters a buffer holds is told by a semaphore and by the    *)
(* threads that have passed it: its value and the number of threads that   *)
(* are at the place behind its wait, whether it holds them or not.  The    *)
(* first part is about a buffer, the second about a semaphore with these   *)
(* threads, and then come the inductive invariant with a lemma for every   *)
(* action, and the refinement of Terminal.                                 *)
(***************************************************************************)
EXTENDS Console, QueueProofs

-----------------------------------------------------------------------------
(* Positions in a buffer.                                                  *)
Positions == 0 .. MAX_SIZE - 1
Cells     == [Positions -> Chars \cup {NoChar}]

LEMMA SizeIs == MAX_SIZE \in Nat \ {0}
BY ConsoleAssumption

LEMMA Remainder ==
  ASSUME NEW n \in Nat \ {0}, NEW a \in Int
  PROVE  /\ a >= 0 /\ a < n => a % n = a
         /\ a >= n /\ a < n + n => a % n = a - n
         /\ a < 0 /\ a >= -n => a % n = a + n
  OBVIOUS

Place(h, i) == (h + i) % MAX_SIZE

LEMMA PlaceIs ==
  ASSUME NEW h \in Positions, NEW i \in 0 .. MAX_SIZE
  PROVE  /\ Place(h, i) \in Positions
         /\ Place(h, i) = IF h + i < MAX_SIZE THEN h + i ELSE h + i - MAX_SIZE
<1>1. PICK n \in Nat \ {0} : n = MAX_SIZE
  BY SizeIs
<1>2. h \in Int /\ i \in Int /\ h + i \in Int /\ h + i >= 0 /\ h + i < n + n
  BY <1>1 DEF Positions
<1>3. Place(h, i) = IF h + i < n THEN h + i ELSE h + i - n
  <2>1. PICK a \in Int : a = h + i /\ a >= 0 /\ a < n + n
    BY <1>2
  <2>2. a % n = IF a < n THEN a ELSE a - n
    <3>1. CASE a < n
      BY <2>1, <3>1, Remainder
    <3>2. CASE a >= n
      BY <2>1, <3>2, Remainder
    <3> QED BY <2>1, <3>1, <3>2
  <2>3. Place(h, i) = a % n
    BY Zenon, <1>1, <2>1 DEF Place
  <2> QED BY <1>1, <1>2, <2>1, <2>2, <2>3
<1>4. h \in 0 .. n - 1 /\ i \in 0 .. n
  BY <1>1 DEF Positions
<1>5. Place(h, i) \in 0 .. n - 1
  BY <1>3, <1>4
<1> QED BY <1>1, <1>3, <1>5 DEF Positions

LEMMA AdvancedIs ==
  ASSUME NEW h \in Positions
  PROVE  /\ Advanced(h) \in Positions /\ Advanced(h) = Place(h, 1)
         /\ Advanced(h) = IF h + 1 < MAX_SIZE THEN h + 1 ELSE 0
<1>1. Advanced(h) = Place(h, 1) /\ 1 \in 0 .. MAX_SIZE
  BY SizeIs DEF Advanced, Place
<1>2. Place(h, 1) \in Positions
      /\ Place(h, 1) = IF h + 1 < MAX_SIZE THEN h + 1 ELSE h + 1 - MAX_SIZE
  BY <1>1, PlaceIs
<1> QED BY <1>1, <1>2, SizeIs DEF Positions

(* A buffer b with n characters from h on.                                 *)
Ring(b, h, t, n) ==
  /\ b \in Cells /\ h \in Positions /\ t \in Positions /\ n \in 0 .. MAX_SIZE
  /\ t = Place(h, n)
  /\ \A i \in 0 .. n - 1 : b[Place(h, i)] \in Chars

LEMMA ContentIs ==
  ASSUME NEW b, NEW h, NEW t, NEW n, Ring(b, h, t, n), NEW q, q = Content(b, h, n)
  PROVE  /\ q \in Seq(Chars) /\ Len(q) = n
         /\ \A i \in 1 .. n : q[i] = b[Place(h, i - 1)]
<1>1. n \in Nat /\ h \in Int /\ \A i \in 0 .. n - 1 : b[Place(h, i)] \in Chars
  BY SizeIs DEF Ring, Positions
<1>2. \A i \in 1 .. n : (h + i - 1) % MAX_SIZE = Place(h, i - 1)
  <2>1. \A i \in 1 .. n : h + i - 1 = h + (i - 1)
    BY <1>1
  <2> QED BY <2>1 DEF Place
<1>3. q = [i \in 1 .. n |-> b[Place(h, i - 1)]]
  BY <1>2 DEF Content
<1>4. \A i \in 1 .. n : b[Place(h, i - 1)] \in Chars
  BY <1>1
<1>5. q \in [1 .. n -> Chars]
  BY <1>3, <1>4
<1>6. q \in Seq(Chars)
  BY <1>1, <1>5, SeqDef
<1>7. DOMAIN q = 1 .. n /\ DOMAIN q = 1 .. Len(q) /\ Len(q) \in Nat
  BY <1>3, <1>6, LenProperties
<1>8. Len(q) = n
  BY <1>1, <1>7
<1> QED BY <1>3, <1>6, <1>8

(* Two places behind the same head are different ones.                     *)
LEMMA PlacesDiffer ==
  ASSUME NEW h \in Positions, NEW n \in 0 .. MAX_SIZE - 1, NEW i \in 0 .. n - 1
  PROVE  Place(h, i) # Place(h, n)
<1>1. i \in 0 .. MAX_SIZE /\ n \in 0 .. MAX_SIZE /\ h \in 0 .. MAX_SIZE - 1
      /\ i < n /\ n < MAX_SIZE
  BY SizeIs DEF Positions
<1>2. /\ Place(h, i) = IF h + i < MAX_SIZE THEN h + i ELSE h + i - MAX_SIZE
      /\ Place(h, n) = IF h + n < MAX_SIZE THEN h + n ELSE h + n - MAX_SIZE
  BY <1>1, PlaceIs DEF Positions
<1> QED BY <1>1, <1>2, SizeIs

(* A character stored at the tail of a buffer that is not full.            *)
LEMMA RingStore ==
  ASSUME NEW b, NEW h, NEW t, NEW n, Ring(b, h, t, n), n < MAX_SIZE, NEW c \in Chars,
         NEW d, d = Stored(b, h, t, c)
  PROVE  /\ Ring(d, h, Advanced(t), n + 1)
         /\ Content(d, h, n + 1) = Append(Content(b, h, n), c)
<1>1. /\ b \in Cells /\ h \in Positions /\ t \in Positions /\ n \in 0 .. MAX_SIZE - 1
      /\ t = Place(h, n) /\ \A i \in 0 .. n - 1 : b[Place(h, i)] \in Chars
  BY SizeIs DEF Ring
<1>2. d \in Cells /\ d[t] = c /\ \A p \in Positions \ {t} : d[p] = b[p]
  BY <1>1 DEF Stored, Cells
<1>3. \A i \in 0 .. n - 1 : Place(h, i) \in Positions \ {t}
  <2>1. \A i \in 0 .. n - 1 : i \in 0 .. MAX_SIZE
    BY <1>1, SizeIs
  <2> QED BY <1>1, <2>1, PlaceIs, PlacesDiffer
<1>4. \A i \in 0 .. n - 1 : d[Place(h, i)] = b[Place(h, i)]
  BY <1>2, <1>3
<1>5. \A i \in 0 .. n : i \in 0 .. n - 1 \/ i = n
  BY <1>1
<1>6. \A i \in 0 .. n : d[Place(h, i)] \in Chars
  BY <1>1, <1>2, <1>4, <1>5
<1>7. Advanced(t) \in Positions /\ Advanced(t) = Place(h, n + 1)
  <2>1. Advanced(t) \in Positions /\ Advanced(t) = IF t + 1 < MAX_SIZE THEN t + 1 ELSE 0
    BY <1>1, AdvancedIs
  <2>2. n \in 0 .. MAX_SIZE /\ n + 1 \in 0 .. MAX_SIZE
    BY <1>1, SizeIs
  <2>3. /\ t = IF h + n < MAX_SIZE THEN h + n ELSE h + n - MAX_SIZE
        /\ Place(h, n + 1) =
             IF h + (n + 1) < MAX_SIZE THEN h + (n + 1) ELSE h + (n + 1) - MAX_SIZE
    BY <1>1, <2>2, PlaceIs
  <2>4. h \in 0 .. MAX_SIZE - 1
    BY <1>1 DEF Positions
  <2> QED BY <1>1, <2>1, <2>3, <2>4, SizeIs
<1>8. n + 1 \in 0 .. MAX_SIZE /\ (n + 1) - 1 = n
  BY <1>1, SizeIs
<1>9. Ring(d, h, Advanced(t), n + 1)
  BY <1>1, <1>2, <1>6, <1>7, <1>8 DEF Ring
<1>10. PICK q, r : q = Content(b, h, n) /\ r = Content(d, h, n + 1)
  OBVIOUS
<1>11. /\ q \in Seq(Chars) /\ Len(q) = n
       /\ \A i \in 1 .. n : q[i] = b[Place(h, i - 1)]
  BY <1>10, ContentIs
<1>12. /\ r \in Seq(Chars) /\ Len(r) = n + 1
       /\ \A i \in 1 .. n + 1 : r[i] = d[Place(h, i - 1)]
  BY <1>9, <1>10, ContentIs
<1>13. PICK a : a = Append(q, c)
  OBVIOUS
<1>14. /\ a \in Seq(Chars) /\ Len(a) = n + 1
       /\ \A i \in 1 .. n : a[i] = q[i]
       /\ a[n + 1] = c
  BY <1>11, <1>13, AppendProperties
<1>15. \A i \in 1 .. n + 1 : r[i] = a[i]
  <2>1. ASSUME NEW i \in 1 .. n PROVE r[i] = a[i]
    <3>1. i - 1 \in 0 .. n - 1 /\ i \in 1 .. n + 1
      BY <1>1
    <3>2. r[i] = d[Place(h, i - 1)] /\ a[i] = b[Place(h, i - 1)]
      BY <1>11, <1>12, <1>14, <3>1
    <3> QED BY <1>4, <3>1, <3>2
  <2>2. r[n + 1] = a[n + 1]
    <3>1. n + 1 \in 1 .. n + 1 /\ (n + 1) - 1 = n
      BY <1>1
    <3>2. r[n + 1] = d[Place(h, n)]
      BY <1>12, <3>1
    <3> QED BY <1>1, <1>2, <1>14, <3>2
  <2>3. \A i \in 1 .. n + 1 : i \in 1 .. n \/ i = n + 1
    BY <1>1
  <2> QED BY <2>1, <2>2, <2>3
<1>16. r = a
  BY <1>12, <1>14, <1>15, SeqEqual
<1> QED BY <1>9, <1>10, <1>13, <1>16

(* The character at the head of a buffer that is not empty taken out.      *)
LEMMA RingTake ==
  ASSUME NEW b, NEW h, NEW t, NEW n, Ring(b, h, t, n), n > 0
  PROVE  /\ Ring(b, Advanced(h), t, n - 1)
         /\ Content(b, h, n) # <<>> /\ b[h] \in Chars
         /\ Head(Content(b, h, n)) = b[h]
         /\ Tail(Content(b, h, n)) = Content(b, Advanced(h), n - 1)
<1>1. /\ b \in Cells /\ h \in Positions /\ t \in Positions /\ n \in 1 .. MAX_SIZE
      /\ t = Place(h, n) /\ \A i \in 0 .. n - 1 : b[Place(h, i)] \in Chars
  BY SizeIs DEF Ring
<1>2. PICK g \in Positions : g = Advanced(h)
  BY <1>1, AdvancedIs
<1>3. \A i \in 0 .. n - 1 : Place(g, i) = Place(h, i + 1)
  <2>1. SUFFICES ASSUME NEW i \in 0 .. n - 1 PROVE Place(g, i) = Place(h, i + 1)
    OBVIOUS
  <2>2. i \in 0 .. MAX_SIZE /\ i + 1 \in 0 .. MAX_SIZE /\ h \in 0 .. MAX_SIZE - 1
    BY <1>1, SizeIs DEF Positions
  <2>3. /\ Place(g, i) = IF g + i < MAX_SIZE THEN g + i ELSE g + i - MAX_SIZE
        /\ Place(h, i + 1) =
             IF h + (i + 1) < MAX_SIZE THEN h + (i + 1) ELSE h + (i + 1) - MAX_SIZE
    BY <1>1, <1>2, <2>2, PlaceIs
  <2>4. g = IF h + 1 < MAX_SIZE THEN h + 1 ELSE 0
    BY <1>1, <1>2, AdvancedIs
  <2> QED BY <2>2, <2>3, <2>4, SizeIs
<1>4. n - 1 \in 0 .. n - 1 /\ n - 1 \in 0 .. MAX_SIZE /\ (n - 1) + 1 = n
  BY <1>1, SizeIs
<1>5. t = Place(g, n - 1)
  BY <1>1, <1>3, <1>4
<1>6. \A i \in 0 .. (n - 1) - 1 : b[Place(g, i)] \in Chars
  <2>1. \A i \in 0 .. (n - 1) - 1 : i \in 0 .. n - 1 /\ i + 1 \in 0 .. n - 1
    BY <1>1
  <2> QED BY <1>1, <1>3, <2>1
<1>7. Ring(b, g, t, n - 1)
  BY <1>1, <1>2, <1>4, <1>5, <1>6 DEF Ring
<1>8. Place(h, 0) = h
  <2>1. 0 \in 0 .. MAX_SIZE /\ h + 0 < MAX_SIZE /\ h + 0 = h
    BY <1>1, SizeIs DEF Positions
  <2> QED BY <1>1, <2>1, PlaceIs
<1>9. PICK q, r : q = Content(b, h, n) /\ r = Content(b, g, n - 1)
  OBVIOUS
<1>10. /\ q \in Seq(Chars) /\ Len(q) = n
       /\ \A i \in 1 .. n : q[i] = b[Place(h, i - 1)]
  BY <1>9, ContentIs
<1>11. /\ r \in Seq(Chars) /\ Len(r) = n - 1
       /\ \A i \in 1 .. n - 1 : r[i] = b[Place(g, i - 1)]
  BY <1>7, <1>9, ContentIs
<1>12. q # <<>> /\ q[1] = b[h] /\ b[h] \in Chars
  <2>1. 1 \in 1 .. n /\ 1 - 1 = 0 /\ 0 \in 0 .. n - 1 /\ n # 0
    BY <1>1
  <2>2. q # <<>>
    BY <1>10, <2>1, EmptySeq
  <2> QED BY <1>1, <1>8, <1>10, <2>1, <2>2
<1>13. PICK u, v : u = Tail(q) /\ v = Head(q)
  OBVIOUS
<1>14. /\ u \in Seq(Chars) /\ Len(u) = n - 1
       /\ \A i \in 1 .. n - 1 : u[i] = q[i + 1]
       /\ v = q[1]
  BY <1>10, <1>12, <1>13, HeadTailProperties
<1>15. \A i \in 1 .. n - 1 : u[i] = r[i]
  <2>1. SUFFICES ASSUME NEW i \in 1 .. n - 1 PROVE u[i] = r[i]
    OBVIOUS
  <2>2. i + 1 \in 1 .. n /\ (i + 1) - 1 = i /\ i - 1 \in 0 .. n - 1 /\ (i - 1) + 1 = i
    BY <1>1
  <2>3. u[i] = b[Place(h, i)] /\ r[i] = b[Place(g, i - 1)]
    BY <1>10, <1>11, <1>14, <2>2
  <2> QED BY <1>3, <2>2, <2>3
<1>16. u = r
  BY <1>11, <1>14, <1>15, SeqEqual
<1> QED BY <1>2, <1>7, <1>9, <1>12, <1>13, <1>14, <1>16

(* What the positions tell of the number of characters.                    *)
LEMMA RingAgrees ==
  ASSUME NEW b, NEW h, NEW t, NEW n, Ring(b, h, t, n)
  PROVE  /\ (t - h) % MAX_SIZE = n % MAX_SIZE
         /\ h = t => n \in {0, MAX_SIZE}
<1>1. /\ h \in 0 .. MAX_SIZE - 1 /\ t \in 0 .. MAX_SIZE - 1 /\ n \in 0 .. MAX_SIZE
      /\ t = IF h + n < MAX_SIZE THEN h + n ELSE h + n - MAX_SIZE
  <2>1. h \in Positions /\ t \in Positions /\ n \in 0 .. MAX_SIZE /\ t = Place(h, n)
    BY DEF Ring
  <2> QED BY <2>1, PlaceIs DEF Positions
<1>2. PICK m \in Nat \ {0} : m = MAX_SIZE
  BY SizeIs
<1>3. h = t => n \in {0, m}
  BY <1>1, <1>2
<1>4. t - h \in Int /\ n \in Nat /\ n <= m /\ t - h \in {n, n - m}
  BY <1>1, <1>2
<1>5. PICK d \in Int : d = t - h
  BY <1>4
<1>6. d % m = n % m
  <2>1. CASE d = n
    BY <2>1
  <2>2. CASE d = n - m /\ n < m
    <3>1. d < 0 /\ d >= -m /\ d + m = n /\ n >= 0 /\ n \in Int
      BY <1>2, <1>4, <2>2
    <3>2. d % m = d + m /\ n % m = n
      BY <1>2, <2>2, <3>1, Remainder
    <3> QED BY <3>1, <3>2
  <2>3. CASE d = n - m /\ n = m
    <3>1. d = 0 /\ n \in Int /\ n >= m /\ n < m + m /\ 0 < m /\ n - m = 0
      BY <1>2, <1>4, <2>3
    <3>2. 0 % m = 0 /\ n % m = n - m
      BY <1>2, <3>1, Remainder
    <3> QED BY <3>1, <3>2
  <2> QED BY <1>2, <1>4, <1>5, <2>1, <2>2, <2>3
<1> QED BY <1>2, <1>3, <1>5, <1>6

-----------------------------------------------------------------------------
(* A semaphore f, and the set W of the threads that are behind its wait.   *)
(* It holds some of them: as many as its value is below zero.              *)
SemType == [val : Int, queue : Seq(Threads)]

Sound(f, W) ==
  /\ f \in SemType /\ IsFiniteSet(W) /\ W \subseteq Threads
  /\ Distinct(f.queue) /\ Elements(f.queue) \subseteq W
  /\ f.val >= 0 => f.queue = <<>>
  /\ f.val < 0 => Len(f.queue) = -f.val

(* What is left to those that have not passed it yet.                      *)
Room(f, W) == f.val + Cardinality(W)

LEMMA RoomIs ==
  ASSUME NEW f, NEW W, Sound(f, W)
  PROVE  /\ Room(f, W) \in Nat /\ Cardinality(W) \in Nat
         /\ \A t \in W : t \notin Elements(f.queue) => Room(f, W) > 0
<1>1. /\ f.val \in Int /\ f.queue \in Seq(Threads) /\ IsFiniteSet(W)
      /\ Distinct(f.queue) /\ Elements(f.queue) \subseteq W
  BY DEF Sound, SemType
<1>2. Cardinality(Elements(f.queue)) = Len(f.queue) /\ IsFiniteSet(Elements(f.queue))
  BY <1>1, DistinctCount
<1>3. Cardinality(W) \in Nat /\ Len(f.queue) <= Cardinality(W)
  BY <1>1, <1>2, FS_Subset, FS_CardinalityType
<1>4. f.val >= 0 \/ Len(f.queue) = -f.val
  BY <1>1 DEF Sound
<1>5. Room(f, W) \in Nat
  BY <1>1, <1>3, <1>4 DEF Room
<1>6. ASSUME NEW t \in W, t \notin Elements(f.queue) PROVE Room(f, W) > 0
  <2>1. Elements(f.queue) # W /\ Cardinality(W) # 0
    BY <1>1, <1>6, FS_EmptySet
  <2>2. Len(f.queue) # Cardinality(W)
    BY <1>1, <1>2, <2>1, FS_Subset
  <2>3. Len(f.queue) \in Nat /\ Len(f.queue) < Cardinality(W)
    BY <1>1, <1>3, <2>2, LenProperties
  <2> QED BY <1>1, <1>3, <1>4, <2>1, <2>3 DEF Room
<1> QED BY <1>3, <1>5, <1>6

(* A thread that it does not hold comes behind the wait, or leaves.        *)
LEMMA ComeAndGo ==
  ASSUME NEW f, NEW W, Sound(f, W), NEW t \in Threads, t \notin Elements(f.queue)
  PROVE  /\ Sound(f, W \cup {t}) /\ Sound(f, W \ {t})
         /\ Room(f, W \cup {t}) = IF t \in W THEN Room(f, W) ELSE Room(f, W) + 1
         /\ Room(f, W \ {t}) = IF t \in W THEN Room(f, W) - 1 ELSE Room(f, W)
<1>1. /\ f \in SemType /\ f.val \in Int /\ IsFiniteSet(W) /\ Cardinality(W) \in Nat
      /\ W \subseteq Threads /\ Elements(f.queue) \subseteq W
  BY RoomIs DEF Sound, SemType
<1>2. /\ IsFiniteSet(W \cup {t}) /\ IsFiniteSet(W \ {t})
      /\ Cardinality(W \cup {t}) = IF t \in W THEN Cardinality(W) ELSE Cardinality(W) + 1
      /\ Cardinality(W \ {t}) = IF t \in W THEN Cardinality(W) - 1 ELSE Cardinality(W)
  BY <1>1, FS_AddElement, FS_RemoveElement
<1>3. Elements(f.queue) \subseteq W \cup {t} /\ Elements(f.queue) \subseteq W \ {t}
      /\ W \cup {t} \subseteq Threads /\ W \ {t} \subseteq Threads
  BY <1>1
<1>4. Sound(f, W \cup {t}) /\ Sound(f, W \ {t})
  BY <1>2, <1>3 DEF Sound
<1> QED BY <1>1, <1>2, <1>4 DEF Room

(* A wait of a thread that is behind it, or that need not be as it passes. *)
LEMMA WaitSound ==
  ASSUME NEW f, NEW W, Sound(f, W), NEW t \in Threads,
         f.val > 0 \/ (t \in W /\ t \notin Elements(f.queue)),
         NEW g, g = Waited(f, t)
  PROVE  Sound(g, W) /\ Room(g, W) = Room(f, W) - 1
<1>1. PICK v, q : v = f.val /\ q = f.queue
  OBVIOUS
<1>2. /\ v \in Int /\ q \in Seq(Threads) /\ IsFiniteSet(W) /\ W \subseteq Threads
      /\ Distinct(q) /\ Elements(q) \subseteq W /\ (v >= 0 => q = <<>>)
      /\ (v < 0 => Len(q) = -v) /\ Cardinality(W) \in Nat
  BY <1>1, RoomIs DEF Sound, SemType
<1>3. /\ Append(q, t) \in Seq(Threads) /\ Len(Append(q, t)) = Len(q) + 1
      /\ Elements(Append(q, t)) = Elements(q) \cup {t}
      /\ t \notin Elements(q) => Distinct(Append(q, t))
  BY <1>2, AppendElements
<1>4. PICK r : r = IF v - 1 < 0 THEN Append(q, t) ELSE q
  OBVIOUS
<1>5. g = [val |-> v - 1, queue |-> r]
  BY <1>1, <1>4 DEF Waited
<1>6. g.val = v - 1 /\ g.queue = r
  BY <1>5
<1>7. r \in Seq(Threads) /\ Distinct(r) /\ Elements(r) \subseteq W
  <2>1. CASE v - 1 < 0
    <3>1. t \in W /\ t \notin Elements(q)
      BY <1>1, <1>2, <2>1
    <3> QED BY <1>2, <1>3, <1>4, <2>1, <3>1
  <2>2. CASE ~(v - 1 < 0)
    BY <1>2, <1>4, <2>2
  <2> QED BY <2>1, <2>2
<1>8. v - 1 >= 0 => r = <<>>
  BY <1>2, <1>4
<1>9. v - 1 < 0 => Len(r) = -(v - 1)
  <2>1. ASSUME v - 1 < 0 PROVE Len(r) = -(v - 1)
    <3>1. Len(q) = -v
      BY <1>2, <2>1, EmptySeq
    <3> QED BY <1>2, <1>3, <1>4, <2>1, <3>1
  <2> QED BY <2>1
<1>10. g \in SemType
  BY <1>2, <1>5, <1>7 DEF SemType
<1>11. Sound(g, W)
  BY <1>2, <1>6, <1>7, <1>8, <1>9, <1>10 DEF Sound
<1>12. Room(g, W) = Room(f, W) - 1
  BY <1>1, <1>2, <1>6 DEF Room
<1> QED BY <1>11, <1>12

LEMMA SignalSound ==
  ASSUME NEW f, NEW W, Sound(f, W), NEW g, g = Signalled(f)
  PROVE  Sound(g, W) /\ Room(g, W) = Room(f, W) + 1
<1>1. PICK v, q : v = f.val /\ q = f.queue
  OBVIOUS
<1>2. /\ v \in Int /\ q \in Seq(Threads) /\ IsFiniteSet(W) /\ W \subseteq Threads
      /\ Distinct(q) /\ Elements(q) \subseteq W /\ (v >= 0 => q = <<>>)
      /\ (v < 0 => Len(q) = -v) /\ Cardinality(W) \in Nat
  BY <1>1, RoomIs DEF Sound, SemType
<1>3. PICK r : r = IF v < 0 THEN Tail(q) ELSE q
  OBVIOUS
<1>4. g = [val |-> v + 1, queue |-> r]
  BY <1>1, <1>3 DEF Signalled
<1>5. g.val = v + 1 /\ g.queue = r
  BY <1>4
<1>6. CASE v < 0
  <2>1. q # <<>>
    BY <1>2, <1>6, EmptySeq
  <2>2. /\ r \in Seq(Threads) /\ Len(r) = Len(q) - 1 /\ Distinct(r)
        /\ Elements(r) \subseteq Elements(q)
    BY <1>2, <1>3, <1>6, <2>1, TailElements
  <2>3. Len(r) = -(v + 1)
    BY <1>2, <1>6, <2>2
  <2>4. v + 1 >= 0 => r = <<>>
    BY <1>2, <1>6, <2>2, <2>3, EmptySeq
  <2>5. g \in SemType
    BY <1>2, <1>4, <2>2 DEF SemType
  <2>6. Sound(g, W)
    BY <1>2, <1>5, <2>2, <2>3, <2>4, <2>5 DEF Sound
  <2> QED BY <1>1, <1>2, <1>5, <2>6 DEF Room
<1>7. CASE ~(v < 0)
  <2>1. r = q /\ q = <<>> /\ v + 1 >= 0
    BY <1>2, <1>3, <1>7
  <2>2. g \in SemType
    BY <1>2, <1>4, <2>1 DEF SemType
  <2>3. Sound(g, W)
    BY <1>2, <1>5, <2>1, <2>2 DEF Sound
  <2> QED BY <1>1, <1>2, <1>5, <2>3 DEF Room
<1> QED BY <1>6, <1>7

-----------------------------------------------------------------------------
(* Who waits for a semaphore, and where a thread is that is behind the     *)
(* wait.                                                                   *)
Who(s) ==
  IF s \in {"txBuff", "rxBuff"} THEN Users
  ELSE IF s \in {"txFull", "uartTransmit"} THEN {putcThread} ELSE {getcThread}
Behind(s) ==
  CASE s = "txBuff" -> "put"
    [] s = "rxBuff" -> "get"
    [] s = "txFull" -> "write"
    [] s = "rxEmpty" -> "read"
    [] OTHER -> "ready"
Held(p, s) == {t \in Who(s) : p[t] = Behind(s)}

PlacesOf(t) ==
  IF t = putcThread THEN {"loop", "ready", "write"}
  ELSE IF t = getcThread THEN {"loop", "ready", "read"}
  ELSE {"user", "put", "get", "finished"}
Placed(p) == p = [t \in Threads |-> p[t]] /\ \A t \in Threads : p[t] \in PlacesOf(t)

(* The semaphores e while the threads are at the places p.                 *)
Semaphores(e, p) ==
  /\ e = [s \in Sems |-> e[s]]
  /\ Placed(p)
  /\ \A s \in Sems : Sound(e[s], Held(p, s))

Count(e, p, s) == Room(e[s], Held(p, s))

LEMMA Counts ==
  ASSUME NEW e, NEW p, Semaphores(e, p), NEW s \in Sems
  PROVE  Count(e, p, s) \in Nat
  BY RoomIs DEF Semaphores, Count

(* The steps on places and semaphores, and who can take one.               *)
Goes(p, q, t, l)     == q = [p EXCEPT ![t] = l]
WaitsFor(e, d, s, t) == d = [e EXCEPT ![s] = Waited(@, t)]
Signals(e, d, s)     == d = [e EXCEPT ![s] = Signalled(@)]
Free(e, t) == \A s \in Sems : t \notin Elements(e[s].queue)
Is(p, t, s) == IF t \in Who(s) /\ p[t] = Behind(s) THEN 1 ELSE 0

(* A thread that no semaphore holds goes from one place to another.        *)
LEMMA MoveThread ==
  ASSUME NEW e, NEW p, Semaphores(e, p), NEW t \in Threads, Free(e, t),
         NEW l \in PlacesOf(t), NEW q, Goes(p, q, t, l)
  PROVE  /\ Semaphores(e, q) /\ q[t] = l
         /\ \A u \in Threads \ {t} : q[u] = p[u]
         /\ \A s \in Sems : Count(e, q, s) = Count(e, p, s) - Is(p, t, s) + Is(q, t, s)
<1>1. p = [u \in Threads |-> p[u]] /\ \A u \in Threads : p[u] \in PlacesOf(u)
  BY DEF Semaphores, Placed
<1>2. /\ q = [u \in Threads |-> q[u]] /\ q[t] = l
      /\ \A u \in Threads \ {t} : q[u] = p[u]
  BY <1>1 DEF Goes
<1>3. Placed(q)
  BY <1>1, <1>2 DEF Placed
<1>4. ASSUME NEW s \in Sems
      PROVE  /\ Sound(e[s], Held(q, s))
             /\ Count(e, q, s) = Count(e, p, s) - Is(p, t, s) + Is(q, t, s)
  <2>1. PICK W, V : W = Held(p, s) /\ V = Held(q, s)
    OBVIOUS
  <2>2. Who(s) \subseteq Threads
    BY DEF Who, Threads
  <2>3. t \in W <=> t \in Who(s) /\ p[t] = Behind(s)
    BY <2>1 DEF Held
  <2>4. t \in V <=> t \in Who(s) /\ q[t] = Behind(s)
    BY <2>1 DEF Held
  <2>5. \A u \in Threads \ {t} : u \in V <=> u \in W
    BY <1>2, <2>1 DEF Held
  <2>6. W \subseteq Threads /\ V \subseteq Threads
    BY <2>1, <2>2 DEF Held
  <2>7. V = IF t \in V THEN W \cup {t} ELSE W \ {t}
    BY <2>5, <2>6
  <2>8. Sound(e[s], W) /\ t \notin Elements(e[s].queue)
    BY <2>1 DEF Semaphores, Free
  <2>9. /\ Sound(e[s], W \cup {t}) /\ Sound(e[s], W \ {t})
        /\ Room(e[s], W \cup {t}) = IF t \in W THEN Room(e[s], W) ELSE Room(e[s], W) + 1
        /\ Room(e[s], W \ {t}) = IF t \in W THEN Room(e[s], W) - 1 ELSE Room(e[s], W)
    BY <2>8, ComeAndGo
  <2>10. Room(e[s], W) \in Nat
    BY <2>8, RoomIs
  <2>11. Is(p, t, s) = (IF t \in W THEN 1 ELSE 0) /\ Is(q, t, s) = (IF t \in V THEN 1 ELSE 0)
    BY <2>3, <2>4 DEF Is
  <2>12. Sound(e[s], V)
    BY <2>7, <2>9
  <2>13. Room(e[s], V) = Room(e[s], W) - Is(p, t, s) + Is(q, t, s)
    <3>1. CASE t \in V /\ t \in W
      <4>1. Room(e[s], V) = Room(e[s], W) /\ Is(p, t, s) = 1 /\ Is(q, t, s) = 1
        BY <2>7, <2>9, <2>11, <3>1
      <4> QED BY <2>10, <4>1
    <3>2. CASE t \in V /\ t \notin W
      <4>1. Room(e[s], V) = Room(e[s], W) + 1 /\ Is(p, t, s) = 0 /\ Is(q, t, s) = 1
        BY <2>7, <2>9, <2>11, <3>2
      <4> QED BY <2>10, <4>1
    <3>3. CASE t \notin V /\ t \in W
      <4>1. Room(e[s], V) = Room(e[s], W) - 1 /\ Is(p, t, s) = 1 /\ Is(q, t, s) = 0
        BY <2>7, <2>9, <2>11, <3>3
      <4> QED BY <2>10, <4>1
    <3>4. CASE t \notin V /\ t \notin W
      <4>1. Room(e[s], V) = Room(e[s], W) /\ Is(p, t, s) = 0 /\ Is(q, t, s) = 0
        BY <2>7, <2>9, <2>11, <3>4
      <4> QED BY <2>10, <4>1
    <3> QED BY <3>1, <3>2, <3>3, <3>4
  <2> QED BY <2>1, <2>12, <2>13 DEF Count
<1>5. Semaphores(e, q)
  BY <1>3, <1>4 DEF Semaphores
<1> QED BY <1>2, <1>4, <1>5

(* A thread waits for s: it passes, or is behind the wait by now.          *)
LEMMA WaitFor ==
  ASSUME NEW e, NEW p, Semaphores(e, p), NEW s \in Sems, NEW t \in Threads,
         e[s].val > 0 \/ (t \in Held(p, s) /\ Free(e, t)),
         NEW d, WaitsFor(e, d, s, t)
  PROVE  /\ Semaphores(d, p) /\ Count(d, p, s) = Count(e, p, s) - 1
         /\ \A r \in Sems \ {s} : d[r] = e[r] /\ Count(d, p, r) = Count(e, p, r)
<1>1. e = [r \in Sems |-> e[r]] /\ Placed(p) /\ \A r \in Sems : Sound(e[r], Held(p, r))
  BY DEF Semaphores
<1>2. /\ d = [r \in Sems |-> d[r]] /\ d[s] = Waited(e[s], t)
      /\ \A r \in Sems \ {s} : d[r] = e[r]
  BY <1>1 DEF WaitsFor
<1>3. e[s].val > 0 \/ (t \in Held(p, s) /\ t \notin Elements(e[s].queue))
  BY DEF Free
<1>4. Sound(d[s], Held(p, s)) /\ Room(d[s], Held(p, s)) = Room(e[s], Held(p, s)) - 1
  BY <1>1, <1>2, <1>3, WaitSound
<1>5. \A r \in Sems : Sound(d[r], Held(p, r))
  BY <1>1, <1>2, <1>4
<1>6. Semaphores(d, p)
  BY <1>1, <1>2, <1>5 DEF Semaphores
<1> QED BY <1>2, <1>4, <1>6 DEF Count

LEMMA SignalTo ==
  ASSUME NEW e, NEW p, Semaphores(e, p), NEW s \in Sems,
         NEW d, Signals(e, d, s)
  PROVE  /\ Semaphores(d, p) /\ Count(d, p, s) = Count(e, p, s) + 1
         /\ \A r \in Sems \ {s} : d[r] = e[r] /\ Count(d, p, r) = Count(e, p, r)
<1>1. e = [r \in Sems |-> e[r]] /\ Placed(p) /\ \A r \in Sems : Sound(e[r], Held(p, r))
  BY DEF Semaphores
<1>2. /\ d = [r \in Sems |-> d[r]] /\ d[s] = Signalled(e[s])
      /\ \A r \in Sems \ {s} : d[r] = e[r]
  BY <1>1 DEF Signals
<1>3. Sound(d[s], Held(p, s)) /\ Room(d[s], Held(p, s)) = Room(e[s], Held(p, s)) + 1
  BY <1>1, <1>2, SignalSound
<1>4. \A r \in Sems : Sound(d[r], Held(p, r))
  BY <1>1, <1>2, <1>3
<1>5. Semaphores(d, p)
  BY <1>1, <1>2, <1>4 DEF Semaphores
<1> QED BY <1>2, <1>3, <1>5 DEF Count

(* The four semaphores that count places, and the one that is signalled    *)
(* behind each of them.                                                    *)
Four == {"txFull", "txBuff", "rxBuff", "rxEmpty"}
Other(s) ==
  CASE s = "txFull" -> "txBuff"
    [] s = "txBuff" -> "txFull"
    [] s = "rxBuff" -> "rxEmpty"
    [] OTHER -> "rxBuff"

Waiting == {"put", "get", "write", "read"}

LEMMA Names ==
  /\ putcThread # getcThread /\ putcThread \notin Users /\ getcThread \notin Users
  /\ Threads = Users \cup {putcThread, getcThread}
  /\ \A t \in Users : PlacesOf(t) = {"user", "put", "get", "finished"}
  /\ PlacesOf(putcThread) = {"loop", "ready", "write"}
  /\ PlacesOf(getcThread) = {"loop", "ready", "read"}
  BY ConsoleAssumption DEF Threads, PlacesOf

LEMMA SemNames ==
  /\ Four \subseteq Sems
  /\ \A s \in Sems : Who(s) \subseteq Threads /\ \A t \in Who(s) : Behind(s) \in PlacesOf(t)
  /\ \A s \in Four : Behind(s) \in Waiting
  /\ \A s \in Sems \ Four : Behind(s) = "ready"
  /\ \A r, s \in Four : Behind(r) = Behind(s) => r = s
  /\ \A s \in Four : Other(s) \in Four \ {s}
<1>1. Four \subseteq Sems
  BY DEF Four, Sems
<1>2. \A s \in Sems : Who(s) \subseteq Threads /\ \A t \in Who(s) : Behind(s) \in PlacesOf(t)
  BY Names DEF Who, Behind, Sems
<1>3. \A s \in Four : Behind(s) \in Waiting /\ Other(s) \in Four \ {s}
  BY DEF Four, Behind, Waiting, Other
<1>4. \A s \in Sems \ Four : Behind(s) = "ready"
  BY DEF Four, Behind, Sems
<1>5. \A r, s \in Four : Behind(r) = Behind(s) => r = s
  BY DEF Four, Behind
<1> QED BY <1>1, <1>2, <1>3, <1>4, <1>5

(* Whether or not a thread is held by a semaphore, it is not counted with  *)
(* those that went by until it goes on; waiting leaves the counts alone.   *)
SameCounts(e, p, d, q) ==
  Semaphores(d, q) /\ \A r \in Four : Count(d, q, r) = Count(e, p, r)

(* A character handed over by a thread behind s.                           *)
Handed(e, p, d, q, s) ==
  /\ Semaphores(d, q)
  /\ Count(d, q, s) = Count(e, p, s) - 1
  /\ Count(d, q, Other(s)) = Count(e, p, Other(s)) + 1
  /\ \A r \in Four \ {s, Other(s)} : Count(d, q, r) = Count(e, p, r)

LEMMA GoToWait ==
  ASSUME NEW e, NEW p, Semaphores(e, p), NEW s \in Sems, NEW t \in Who(s), Free(e, t),
         p[t] \notin Waiting,
         NEW q, Goes(p, q, t, Behind(s)), NEW d, WaitsFor(e, d, s, t)
  PROVE  SameCounts(e, p, d, q)
<1>1. t \in Threads /\ Behind(s) \in PlacesOf(t)
  BY SemNames
<1>2. /\ Semaphores(e, q) /\ q[t] = Behind(s)
      /\ \A r \in Sems : Count(e, q, r) = Count(e, p, r) - Is(p, t, r) + Is(q, t, r)
  BY <1>1, MoveThread
<1>3. t \in Held(q, s)
  BY <1>2 DEF Held
<1>4. /\ Semaphores(d, q) /\ Count(d, q, s) = Count(e, q, s) - 1
      /\ \A r \in Sems \ {s} : Count(d, q, r) = Count(e, q, r)
  BY <1>1, <1>2, <1>3, WaitFor
<1>5. ASSUME NEW r \in Four PROVE Count(d, q, r) = Count(e, p, r)
  <2>1. r \in Sems /\ Is(p, t, r) = 0 /\ Is(q, t, r) = IF r = s THEN 1 ELSE 0
    <3>1. r \in Sems /\ Is(p, t, r) = 0
      BY SemNames DEF Is
    <3>2. CASE s \in Four
      BY <1>2, <3>1, <3>2, SemNames DEF Is
    <3>3. CASE s \notin Four
      BY <1>2, <3>1, <3>3, SemNames DEF Is, Waiting
    <3> QED BY <3>2, <3>3
  <2>2. Count(e, p, r) \in Nat
    BY <2>1, Counts
  <2>3. PICK n \in Nat : n = Count(e, p, r)
    BY <2>2
  <2>4. CASE r = s
    <3>1. Count(e, q, r) = n - 0 + 1
      BY <1>2, <2>1, <2>3, <2>4
    <3>2. Count(d, q, r) = Count(e, q, r) - 1
      BY <1>4, <2>4
    <3> QED BY <2>3, <3>1, <3>2
  <2>5. CASE r # s
    <3>1. Count(e, q, r) = n - 0 + 0
      BY <1>2, <2>1, <2>3, <2>5
    <3>2. Count(d, q, r) = Count(e, q, r)
      BY <1>4, <2>1, <2>5
    <3> QED BY <2>3, <3>1, <3>2
  <2> QED BY <2>4, <2>5
<1> QED BY <1>4, <1>5 DEF SameCounts

(* consoleput and consoleget find nothing to do; a program ends.           *)
LEMMA GoBack ==
  ASSUME NEW e, NEW p, Semaphores(e, p), NEW t \in Threads, Free(e, t), p[t] \notin Waiting,
         NEW l \in PlacesOf(t) \ Waiting, NEW q, Goes(p, q, t, l)
  PROVE  SameCounts(e, p, e, q)
<1>2. /\ Semaphores(e, q) /\ q[t] = l
      /\ \A r \in Sems : Count(e, q, r) = Count(e, p, r) - Is(p, t, r) + Is(q, t, r)
  BY MoveThread
<1>3. ASSUME NEW r \in Four PROVE Count(e, q, r) = Count(e, p, r)
  <2>1. r \in Sems /\ Is(p, t, r) = 0 /\ Is(q, t, r) = 0
    BY <1>2, SemNames DEF Is
  <2>2. PICK n \in Nat : n = Count(e, p, r)
    BY <2>1, Counts
  <2>3. Count(e, q, r) = n - 0 + 0
    BY <1>2, <2>1, <2>2
  <2> QED BY <2>2, <2>3
<1> QED BY <1>2, <1>3 DEF SameCounts

(* A thread goes on from behind s and signals the other semaphore.         *)
LEMMA HandOver ==
  ASSUME NEW e, NEW p, Semaphores(e, p), NEW s \in Four, NEW t \in Who(s), Free(e, t),
         p[t] = Behind(s), NEW l \in PlacesOf(t) \ Waiting,
         NEW q, Goes(p, q, t, l), NEW d, Signals(e, d, Other(s))
  PROVE  Handed(e, p, d, q, s) /\ Count(e, p, s) > 0
<1>1. t \in Threads /\ s \in Sems /\ Other(s) \in Sems /\ Other(s) # s
  BY SemNames
<1>2. /\ Semaphores(e, q) /\ q[t] = l
      /\ \A r \in Sems : Count(e, q, r) = Count(e, p, r) - Is(p, t, r) + Is(q, t, r)
  BY <1>1, MoveThread
<1>3. /\ Semaphores(d, q) /\ Count(d, q, Other(s)) = Count(e, q, Other(s)) + 1
      /\ \A r \in Sems \ {Other(s)} : Count(d, q, r) = Count(e, q, r)
  BY <1>1, <1>2, SignalTo
<1>4. \A r \in Four : r \in Sems /\ Is(q, t, r) = 0 /\ Is(p, t, r) = IF r = s THEN 1 ELSE 0
  <2>1. \A r \in Four : r \in Sems /\ Is(q, t, r) = 0
    BY <1>2, SemNames DEF Is
  <2>2. \A r \in Four \ {s} : Is(p, t, r) = 0
    BY SemNames DEF Is
  <2> QED BY <2>1, <2>2 DEF Is
<1>5. PICK n \in Nat : n = Count(e, p, s)
  BY <1>1, Counts
<1>6. Count(e, q, s) = n - 1
  <2>1. Count(e, q, s) = n - 1 + 0
    BY <1>1, <1>2, <1>4, <1>5
  <2> QED BY <1>5, <2>1
<1>7. ASSUME NEW r \in Four \ {s} PROVE Count(e, q, r) = Count(e, p, r)
  <2>1. r \in Sems /\ Is(p, t, r) = 0 /\ Is(q, t, r) = 0
    BY <1>4
  <2>2. PICK m \in Nat : m = Count(e, p, r)
    BY <2>1, Counts
  <2>3. Count(e, q, r) = m - 0 + 0
    BY <1>2, <2>1, <2>2
  <2> QED BY <2>2, <2>3
<1>8. Count(d, q, s) = Count(e, p, s) - 1
  BY <1>1, <1>3, <1>5, <1>6
<1>9. Count(d, q, Other(s)) = Count(e, p, Other(s)) + 1
  BY <1>3, <1>7, SemNames
<1>10. \A r \in Four \ {s, Other(s)} : Count(d, q, r) = Count(e, p, r)
  BY <1>3, <1>7, SemNames
<1>11. Count(e, p, s) > 0
  <2>1. Sound(e[s], Held(p, s)) /\ t \in Held(p, s) /\ t \notin Elements(e[s].queue)
    BY <1>1 DEF Semaphores, Held, Free
  <2> QED BY <2>1, RoomIs DEF Count
<1> QED BY <1>3, <1>8, <1>9, <1>10, <1>11 DEF Handed

(* A user passes s without waiting, and signals the other semaphore.       *)
LEMMA PassOver ==
  ASSUME NEW e, NEW p, Semaphores(e, p), NEW s \in Four, NEW t \in Users, Free(e, t),
         p[t] = "user", e[s].val > 0, NEW q, Goes(p, q, t, "user"),
         NEW f, WaitsFor(e, f, s, t), NEW d, Signals(f, d, Other(s))
  PROVE  Handed(e, p, d, q, s) /\ Count(e, p, s) > 0
<1>1. t \in Threads /\ s \in Sems /\ Other(s) \in Sems /\ Other(s) # s
  BY SemNames, Names
<1>2. q = p
  BY DEF Goes, Semaphores, Placed
<1>3. /\ Semaphores(f, p) /\ Count(f, p, s) = Count(e, p, s) - 1
      /\ \A r \in Sems \ {s} : Count(f, p, r) = Count(e, p, r)
  BY <1>1, WaitFor
<1>4. /\ Semaphores(d, p) /\ Count(d, p, Other(s)) = Count(f, p, Other(s)) + 1
      /\ \A r \in Sems \ {Other(s)} : Count(d, p, r) = Count(f, p, r)
  BY <1>1, <1>3, SignalTo
<1>5. Count(e, p, s) > 0
  <2>1. Sound(e[s], Held(p, s))
    BY <1>1 DEF Semaphores
  <2>2. e[s].val \in Int /\ Cardinality(Held(p, s)) \in Nat
    BY <2>1, RoomIs DEF Sound, SemType
  <2> QED BY <2>2 DEF Count, Room
<1>6. Handed(e, p, d, p, s)
  BY <1>1, <1>3, <1>4, SemNames DEF Handed
<1> QED BY <1>2, <1>5, <1>6

(* The interrupt tells those that count no places.                         *)
LEMMA TellBoth ==
  ASSUME NEW e, NEW p, Semaphores(e, p),
         NEW f, Signals(e, f, "uartReceive"), NEW d, Signals(f, d, "uartTransmit")
  PROVE  SameCounts(e, p, d, p)
<1>1. "uartReceive" \in Sems \ Four /\ "uartTransmit" \in Sems \ Four
  BY DEF Sems, Four
<1>2. Semaphores(f, p) /\ \A r \in Sems \ {"uartReceive"} : Count(f, p, r) = Count(e, p, r)
  BY <1>1, SignalTo
<1>3. Semaphores(d, p) /\ \A r \in Sems \ {"uartTransmit"} : Count(d, p, r) = Count(f, p, r)
  BY <1>1, <1>2, SignalTo
<1>4. ASSUME NEW r \in Four PROVE Count(d, p, r) = Count(e, p, r)
  <2>1. r \in Sems \ {"uartReceive"} /\ r \in Sems \ {"uartTransmit"}
    BY <1>1, SemNames
  <2> QED BY <1>2, <1>3, <2>1
<1> QED BY <1>3, <1>4 DEF SameCounts

-----------------------------------------------------------------------------
(* The inductive invariant.  The places that are free and those that are   *)
(* filled make up each buffer; and a thread that is going to store or to   *)
(* transmit a character has it, and finds room for it.                     *)
Sums(e, p) ==
  /\ Count(e, p, "txFull") + Count(e, p, "txBuff") = MAX_SIZE
  /\ Count(e, p, "rxBuff") + Count(e, p, "rxEmpty") = MAX_SIZE

(* The characters in the buffers, oldest first.                            *)
Out == Content(output_buff, outpHead, Count(sem, pc, "txFull"))
Inp == Content(input_buff, inpHead, Count(sem, pc, "rxBuff"))

Rings ==
  /\ Ring(output_buff, outpHead, outpTail, Count(sem, pc, "txFull"))
  /\ Ring(input_buff, inpHead, inpTail, Count(sem, pc, "rxBuff"))

Device ==
  /\ arg \in [Users -> Chars \cup {NoChar}] /\ result \in [Users -> Chars \cup {NoChar}]
  /\ thr \in Chars \cup {NoChar} /\ shown \in Chars \cup {NoChar}
  /\ fifo \in Seq(Chars) /\ Len(fifo) <= FifoSize
  /\ irq \in BOOLEAN
  /\ puts \in 0 .. MaxChars /\ typed \in 0 .. Len(Text)

Carried ==
  /\ \A t \in Users : pc[t] = "put" => arg[t] \in Chars
  /\ pc[putcThread] = "write" => thr = NoChar
  /\ pc[getcThread] = "read" => fifo # <<>>

(* What main() has loaded of the positions.  As long as nothing is stored, *)
(* the tail stays where it was, and the head comes nearer to it.           *)
Looked ==
  /\ {headSeen, tailSeen} \subseteq {Unread} \cup Positions
  /\ undisturbed \in BOOLEAN /\ ended \in BOOLEAN

Watched ==
  undisturbed =>
    LET n == Count(sem, pc, "txFull")
    IN  /\ n < MAX_SIZE /\ (ended => n = 0)
        /\ tailSeen # Unread => tailSeen = outpTail
        /\ headSeen # Unread => \E c \in n .. MAX_SIZE - 1 : outpTail = Place(headSeen, c)

IInv ==
  Semaphores(sem, pc) /\ Sums(sem, pc) /\ Rings /\ Device /\ Carried /\ Looked /\ Watched

LEMMA SameSums ==
  ASSUME NEW e, NEW p, Sums(e, p), NEW d, NEW q, SameCounts(e, p, d, q)
  PROVE  /\ Semaphores(d, q) /\ Sums(d, q)
         /\ Count(d, q, "txFull") = Count(e, p, "txFull")
         /\ Count(d, q, "rxBuff") = Count(e, p, "rxBuff")
  BY DEF SameCounts, Sums, Four

LEMMA HandedSums ==
  ASSUME NEW e, NEW p, Semaphores(e, p), Sums(e, p), NEW d, NEW q,
         NEW s \in Four, Handed(e, p, d, q, s), Count(e, p, s) > 0
  PROVE  Semaphores(d, q) /\ Sums(d, q) /\ Count(e, p, Other(s)) < MAX_SIZE
<1>1. /\ Count(e, p, "txFull") \in Nat /\ Count(e, p, "txBuff") \in Nat
      /\ Count(e, p, "rxBuff") \in Nat /\ Count(e, p, "rxEmpty") \in Nat
      /\ Semaphores(d, q)
  BY SemNames, Counts DEF Four, Handed
<1>2. CASE s = "txFull"
  BY <1>1, <1>2 DEF Handed, Other, Sums, Four
<1>3. CASE s = "txBuff"
  BY <1>1, <1>3 DEF Handed, Other, Sums, Four
<1>4. CASE s = "rxBuff"
  BY <1>1, <1>4 DEF Handed, Other, Sums, Four
<1>5. CASE s = "rxEmpty"
  BY <1>1, <1>5 DEF Handed, Other, Sums, Four
<1> QED BY <1>2, <1>3, <1>4, <1>5 DEF Four

(* Where the threads are after one of them has moved.                      *)
LEMMA Gone ==
  ASSUME NEW e, NEW p, Semaphores(e, p), NEW t \in Threads, NEW l, NEW q, Goes(p, q, t, l)
  PROVE  q[t] = l /\ \A u \in Threads \ {t} : q[u] = p[u]
  BY DEF Semaphores, Placed, Goes

LEMMA RunsFree ==
  ASSUME NEW t \in Threads, NEW l, At(t, l)
  PROVE  Free(sem, t) /\ pc[t] = l /\ ~ended
  BY DEF At, Runs, Waits, Free

(* A step that moves one thread and no character keeps the invariant.      *)
LEMMA NothingMoves ==
  ASSUME IInv, SameCounts(sem, pc, sem', pc'), Device', Carried',
         UNCHANGED <<bufVars, mainVars, undisturbed>>
  PROVE  IInv' /\ Out' = Out /\ Inp' = Inp
<1>1. /\ Semaphores(sem', pc') /\ Sums(sem', pc')
      /\ Count(sem', pc', "txFull") = Count(sem, pc, "txFull")
      /\ Count(sem', pc', "rxBuff") = Count(sem, pc, "rxBuff")
  BY SameSums DEF IInv
<1>2. Rings'
  BY <1>1 DEF IInv, Rings, bufVars
<1>3. Looked' /\ Watched'
  BY <1>1 DEF IInv, Looked, Watched, mainVars, bufVars
<1>4. Out' = Out /\ Inp' = Inp
  BY <1>1 DEF Out, Inp, bufVars
<1> QED BY <1>1, <1>2, <1>3, <1>4 DEF IInv

(* put() from where it has a place.                                        *)
LEMMA PutIntoKeeps ==
  ASSUME IInv, NEW t \in Users, NEW c \in Chars, ~ended,
         Handed(sem, pc, sem', pc', "txBuff"), Count(sem, pc, "txBuff") > 0,
         Goes(pc, pc', t, "user"),
         output_buff' = Stored(output_buff, outpHead, outpTail, c),
         outpTail' = Advanced(outpTail), UNCHANGED <<outpHead, input_buff, inpHead, inpTail>>,
         arg' = [arg EXCEPT ![t] = NoChar], result' = [result EXCEPT ![t] = NoChar],
         undisturbed' = FALSE, UNCHANGED <<devVars, mainVars>>, puts' \in 0 .. MaxChars
  PROVE  IInv' /\ Out' = Append(Out, c) /\ Inp' = Inp
<1>1. /\ Semaphores(sem, pc) /\ Sums(sem, pc) /\ Rings /\ Device /\ Carried /\ t \in Threads
      /\ "txBuff" \in Four /\ Other("txBuff") = "txFull"
  BY Names DEF IInv, Four, Other
<1>2. /\ Semaphores(sem', pc') /\ Sums(sem', pc') /\ Count(sem, pc, "txFull") < MAX_SIZE
  BY <1>1, HandedSums
<1>3. /\ Count(sem', pc', "txFull") = Count(sem, pc, "txFull") + 1
      /\ Count(sem', pc', "rxBuff") = Count(sem, pc, "rxBuff")
  BY <1>1 DEF Handed, Four
<1>4. /\ Ring(output_buff', outpHead', outpTail', Count(sem', pc', "txFull"))
      /\ Content(output_buff', outpHead', Count(sem', pc', "txFull"))
           = Append(Content(output_buff, outpHead, Count(sem, pc, "txFull")), c)
  BY <1>1, <1>2, <1>3, RingStore DEF Rings
<1>5. Rings'
  BY <1>1, <1>3, <1>4 DEF Rings
<1>6. Device'
  BY <1>1 DEF Device, devVars
<1>7. pc'[t] = "user" /\ \A u \in Threads \ {t} : pc'[u] = pc[u]
  BY <1>1, Gone
<1>8. Carried'
  <2>1. \A u \in Users \ {t} : pc'[u] = pc[u] /\ arg'[u] = arg[u]
    BY <1>1, <1>7, Names DEF Device
  <2>2. pc'[putcThread] = pc[putcThread] /\ pc'[getcThread] = pc[getcThread]
    BY <1>7, Names
  <2> QED BY <1>1, <1>7, <2>1, <2>2 DEF Carried, devVars
<1>9. Looked' /\ Watched'
  BY DEF IInv, Looked, Watched, mainVars
<1>10. Out' = Append(Out, c) /\ Inp' = Inp
  BY <1>3, <1>4 DEF Out, Inp
<1> QED BY <1>2, <1>5, <1>6, <1>8, <1>9, <1>10 DEF IInv

(* get() from where there is a character.                                  *)
LEMMA GetFromKeeps ==
  ASSUME IInv, NEW t \in Users, ~ended,
         Handed(sem, pc, sem', pc', "rxBuff"), Count(sem, pc, "rxBuff") > 0,
         Goes(pc, pc', t, "user"),
         result' = [result EXCEPT ![t] = input_buff[inpHead]], inpHead' = Advanced(inpHead),
         UNCHANGED <<output_buff, outpHead, outpTail, input_buff, inpTail, arg, devVars,
                     mainVars, undisturbed, puts>>
  PROVE  /\ IInv' /\ Out' = Out
         /\ Inp # <<>> /\ input_buff[inpHead] = Head(Inp) /\ Inp' = Tail(Inp)
<1>1. /\ Semaphores(sem, pc) /\ Sums(sem, pc) /\ Rings /\ Device /\ Carried /\ t \in Threads
      /\ "rxBuff" \in Four /\ Other("rxBuff") = "rxEmpty"
  BY Names DEF IInv, Four, Other
<1>2. /\ Semaphores(sem', pc') /\ Sums(sem', pc')
  BY <1>1, HandedSums
<1>3. /\ Count(sem', pc', "rxBuff") = Count(sem, pc, "rxBuff") - 1
      /\ Count(sem', pc', "txFull") = Count(sem, pc, "txFull")
  BY <1>1 DEF Handed, Four
<1>4. PICK n, q : n = Count(sem, pc, "rxBuff") /\ q = Content(input_buff, inpHead, n)
  OBVIOUS
<1>5. /\ Ring(input_buff, inpHead', inpTail, n - 1)
      /\ q # <<>> /\ input_buff[inpHead] \in Chars /\ input_buff[inpHead] = Head(q)
      /\ Content(input_buff, inpHead', n - 1) = Tail(q)
  BY <1>1, <1>4, RingTake DEF Rings
<1>6. Rings'
  BY <1>1, <1>3, <1>4, <1>5 DEF Rings
<1>7. Device'
  BY <1>1, <1>5 DEF Device, devVars
<1>8. pc'[t] = "user" /\ \A u \in Threads \ {t} : pc'[u] = pc[u]
  BY <1>1, Gone
<1>9. Carried'
  <2>1. \A u \in Users \ {t} : pc'[u] = pc[u]
    BY <1>8, Names
  <2>2. pc'[putcThread] = pc[putcThread] /\ pc'[getcThread] = pc[getcThread]
    BY <1>8, Names
  <2> QED BY <1>1, <1>8, <2>1, <2>2 DEF Carried, devVars
<1>10. Looked' /\ Watched'
  BY <1>3 DEF IInv, Looked, Watched, mainVars
<1>11. q = Inp /\ Inp' = Content(input_buff, inpHead', n - 1) /\ Out' = Out
  BY <1>3, <1>4 DEF Out, Inp
<1> QED BY <1>2, <1>5, <1>6, <1>7, <1>9, <1>10, <1>11 DEF IInv

-----------------------------------------------------------------------------
(* The actions, one by one: what they keep, and what they do to the        *)
(* characters in the buffers.                                              *)
LEMMA PutcKeeps ==
  ASSUME IInv, NEW t \in Users, NEW c \in CharsOf[t], putc(t, c)
  PROVE  /\ IInv' /\ Inp' = Inp /\ c \in Chars
         /\ Out' = IF sem["txBuff"].val > 0 THEN Append(Out, c) ELSE Out
<1>1. /\ c \in Chars /\ t \in Threads /\ puts' \in 0 .. MaxChars
      /\ Semaphores(sem, pc) /\ Sums(sem, pc) /\ Device /\ Carried
  <2>1. c \in Chars /\ MaxChars \in Nat /\ Len(Text) \in Nat
    BY ConsoleAssumption, LenProperties
  <2>2. puts \in Nat /\ typed \in Nat /\ puts + typed < MaxChars /\ puts' = puts + 1
    BY <2>1 DEF putc, IInv, Device
  <2> QED BY <2>1, <2>2, Names DEF IInv
<1>2. Free(sem, t) /\ pc[t] = "user" /\ ~ended /\ UNCHANGED <<devVars, mainVars>>
  BY <1>1, RunsFree DEF putc
<1>3. CASE sem["txBuff"].val > 0
  <2>1. PICK f : WaitsFor(sem, f, "txBuff", t) /\ f = [sem EXCEPT !["txBuff"] = Waited(@, t)]
    BY DEF WaitsFor
  <2>2. PutInto(f, t, c)
    BY <1>3, <2>1 DEF putc
  <2>3. Signals(f, sem', "txFull") /\ Goes(pc, pc', t, "user")
    BY <2>2 DEF PutInto, PutAnnounced, Signals, Goes
  <2>4. "txBuff" \in Four /\ Other("txBuff") = "txFull"
    BY DEF Four, Other
  <2>5. Handed(sem, pc, sem', pc', "txBuff") /\ Count(sem, pc, "txBuff") > 0
    BY <1>1, <1>2, <1>3, <2>1, <2>3, <2>4, PassOver
  <2>6. /\ output_buff' = Stored(output_buff, outpHead, outpTail, c)
        /\ outpTail' = Advanced(outpTail) /\ UNCHANGED <<outpHead, input_buff, inpHead, inpTail>>
        /\ arg' = [arg EXCEPT ![t] = NoChar] /\ result' = [result EXCEPT ![t] = NoChar]
        /\ undisturbed' = FALSE
    BY <2>2 DEF PutInto
  <2> QED BY <1>1, <1>2, <1>3, <2>3, <2>5, <2>6, PutIntoKeeps
<1>4. CASE ~(sem["txBuff"].val > 0)
  <2>1. /\ WaitsFor(sem, sem', "txBuff", t) /\ Goes(pc, pc', t, "put")
        /\ arg' = [arg EXCEPT ![t] = c] /\ result' = [result EXCEPT ![t] = NoChar]
        /\ UNCHANGED <<bufVars, undisturbed>>
    BY <1>4 DEF putc, WaitThen, WaitsFor, Goes
  <2>2. "txBuff" \in Sems /\ t \in Who("txBuff") /\ Behind("txBuff") = "put"
    BY DEF Sems, Who, Behind
  <2>3. SameCounts(sem, pc, sem', pc')
    BY <1>1, <1>2, <2>1, <2>2, GoToWait DEF Waiting
  <2>4. pc'[t] = "put" /\ \A u \in Threads \ {t} : pc'[u] = pc[u]
    BY <1>1, <2>1, Gone
  <2>5. Device'
    BY <1>1, <1>2, <2>1 DEF Device, devVars
  <2>6. Carried'
    <3>1. arg'[t] = c /\ \A u \in Users \ {t} : pc'[u] = pc[u] /\ arg'[u] = arg[u]
      BY <1>1, <2>1, <2>4, Names DEF Device
    <3>2. pc'[putcThread] = pc[putcThread] /\ pc'[getcThread] = pc[getcThread]
      BY <2>4, Names
    <3> QED BY <1>1, <1>2, <3>1, <3>2 DEF Carried, devVars
  <2> QED BY <1>1, <1>2, <1>4, <2>1, <2>3, <2>5, <2>6, NothingMoves
<1> QED BY <1>3, <1>4

LEMMA PutcResumedKeeps ==
  ASSUME IInv, NEW t \in Users, putcResumed(t)
  PROVE  IInv' /\ Inp' = Inp /\ arg[t] \in Chars /\ Out' = Append(Out, arg[t])
<1>1. /\ t \in Threads /\ Semaphores(sem, pc) /\ Device /\ Carried
  BY Names DEF IInv
<1>2. Free(sem, t) /\ pc[t] = "put" /\ ~ended /\ UNCHANGED <<devVars, mainVars>>
      /\ PutInto(sem, t, arg[t]) /\ puts' \in 0 .. MaxChars
  BY <1>1, RunsFree DEF putcResumed, Device
<1>3. arg[t] \in Chars
  BY <1>1, <1>2 DEF Carried
<1>4. Signals(sem, sem', "txFull") /\ Goes(pc, pc', t, "user")
  BY <1>2 DEF PutInto, PutAnnounced, Signals, Goes
<1>5. /\ "txBuff" \in Four /\ Other("txBuff") = "txFull" /\ t \in Who("txBuff")
      /\ Behind("txBuff") = "put" /\ "user" \in PlacesOf(t) \ Waiting
  BY Names DEF Four, Other, Who, Behind, Waiting
<1>6. Handed(sem, pc, sem', pc', "txBuff") /\ Count(sem, pc, "txBuff") > 0
  BY <1>1, <1>2, <1>4, <1>5, HandOver
<1>7. /\ output_buff' = Stored(output_buff, outpHead, outpTail, arg[t])
      /\ outpTail' = Advanced(outpTail) /\ UNCHANGED <<outpHead, input_buff, inpHead, inpTail>>
      /\ arg' = [arg EXCEPT ![t] = NoChar] /\ result' = [result EXCEPT ![t] = NoChar]
      /\ undisturbed' = FALSE
  BY <1>2 DEF PutInto
<1> QED BY <1>2, <1>3, <1>4, <1>6, <1>7, PutIntoKeeps

LEMMA GetcKeeps ==
  ASSUME IInv, NEW t \in Users, getc(t)
  PROVE  /\ IInv' /\ Out' = Out
         /\ IF sem["rxBuff"].val > 0
            THEN Inp # <<>> /\ input_buff[inpHead] = Head(Inp) /\ Inp' = Tail(Inp)
            ELSE Inp' = Inp
<1>1. t \in Threads /\ Semaphores(sem, pc) /\ Device /\ Carried
  BY Names DEF IInv
<1>2. Free(sem, t) /\ pc[t] = "user" /\ ~ended
      /\ UNCHANGED <<arg, devVars, mainVars, undisturbed, puts>>
  BY <1>1, RunsFree DEF getc
<1>3. CASE sem["rxBuff"].val > 0
  <2>1. PICK f : WaitsFor(sem, f, "rxBuff", t) /\ f = [sem EXCEPT !["rxBuff"] = Waited(@, t)]
    BY DEF WaitsFor
  <2>2. GetFrom(f, t)
    BY <1>3, <2>1 DEF getc
  <2>3. Signals(f, sem', "rxEmpty") /\ Goes(pc, pc', t, "user")
    BY <2>2 DEF GetFrom, Signals, Goes
  <2>4. "rxBuff" \in Four /\ Other("rxBuff") = "rxEmpty"
    BY DEF Four, Other
  <2>5. Handed(sem, pc, sem', pc', "rxBuff") /\ Count(sem, pc, "rxBuff") > 0
    BY <1>1, <1>2, <1>3, <2>1, <2>3, <2>4, PassOver
  <2>6. /\ result' = [result EXCEPT ![t] = input_buff[inpHead]] /\ inpHead' = Advanced(inpHead)
        /\ UNCHANGED <<output_buff, outpHead, outpTail, input_buff, inpTail, arg, devVars,
                       mainVars, undisturbed, puts>>
    BY <1>2, <2>2 DEF GetFrom
  <2> QED BY <1>2, <1>3, <2>3, <2>5, <2>6, GetFromKeeps
<1>4. CASE ~(sem["rxBuff"].val > 0)
  <2>1. /\ WaitsFor(sem, sem', "rxBuff", t) /\ Goes(pc, pc', t, "get")
        /\ result' = [result EXCEPT ![t] = NoChar] /\ UNCHANGED bufVars
    BY <1>4 DEF getc, WaitThen, WaitsFor, Goes
  <2>2. "rxBuff" \in Sems /\ t \in Who("rxBuff") /\ Behind("rxBuff") = "get"
    BY DEF Sems, Who, Behind
  <2>3. SameCounts(sem, pc, sem', pc')
    BY <1>1, <1>2, <2>1, <2>2, GoToWait DEF Waiting
  <2>4. pc'[t] = "get" /\ \A u \in Threads \ {t} : pc'[u] = pc[u]
    BY <1>1, <2>1, Gone
  <2>5. Device'
    BY <1>1, <1>2, <2>1 DEF Device, devVars
  <2>6. Carried'
    <3>1. \A u \in Users \ {t} : pc'[u] = pc[u]
      BY <2>4, Names
    <3>2. pc'[putcThread] = pc[putcThread] /\ pc'[getcThread] = pc[getcThread]
      BY <2>4, Names
    <3> QED BY <1>1, <1>2, <2>4, <3>1, <3>2 DEF Carried, devVars
  <2> QED BY <1>1, <1>2, <1>4, <2>1, <2>3, <2>5, <2>6, NothingMoves
<1> QED BY <1>3, <1>4

LEMMA GetcResumedKeeps ==
  ASSUME IInv, NEW t \in Users, getcResumed(t)
  PROVE  /\ IInv' /\ Out' = Out
         /\ Inp # <<>> /\ input_buff[inpHead] = Head(Inp) /\ Inp' = Tail(Inp)
<1>1. t \in Threads /\ Semaphores(sem, pc)
  BY Names DEF IInv
<1>2. Free(sem, t) /\ pc[t] = "get" /\ ~ended
      /\ UNCHANGED <<arg, devVars, mainVars, undisturbed, puts>>
      /\ GetFrom(sem, t)
  BY <1>1, RunsFree DEF getcResumed
<1>3. Signals(sem, sem', "rxEmpty") /\ Goes(pc, pc', t, "user")
  BY <1>2 DEF GetFrom, Signals, Goes
<1>4. /\ "rxBuff" \in Four /\ Other("rxBuff") = "rxEmpty" /\ t \in Who("rxBuff")
      /\ Behind("rxBuff") = "get" /\ "user" \in PlacesOf(t) \ Waiting
  BY Names DEF Four, Other, Who, Behind, Waiting
<1>5. Handed(sem, pc, sem', pc', "rxBuff") /\ Count(sem, pc, "rxBuff") > 0
  BY <1>1, <1>2, <1>3, <1>4, HandOver
<1>6. /\ result' = [result EXCEPT ![t] = input_buff[inpHead]] /\ inpHead' = Advanced(inpHead)
      /\ UNCHANGED <<output_buff, outpHead, outpTail, input_buff, inpTail, arg, devVars,
                     mainVars, undisturbed, puts>>
  BY <1>2 DEF GetFrom
<1> QED BY <1>2, <1>3, <1>5, <1>6, GetFromKeeps

(* One of the two threads of the kernel goes on to wait, or back.          *)
LEMMA KernelWaits ==
  ASSUME IInv, NEW t \in {putcThread, getcThread}, At(t, pc[t]), pc[t] \notin Waiting,
         NEW l \in PlacesOf(t), Goes(pc, pc', t, l),
         \/ l = "loop" /\ sem' = sem
         \/ \E s \in Sems : t \in Who(s) /\ l = Behind(s) /\ WaitsFor(sem, sem', s, t),
         l = "write" => thr = NoChar,
         l = "read" => fifo # <<>>,
         UNCHANGED <<arg, result, bufVars, devVars, mainVars, undisturbed, puts>>
  PROVE  IInv' /\ Out' = Out /\ Inp' = Inp
<1>1. t \in Threads /\ Semaphores(sem, pc) /\ Device /\ Carried
  BY Names DEF IInv
<1>2. Free(sem, t) /\ ~ended
  BY <1>1, RunsFree
<1>3. SameCounts(sem, pc, sem', pc')
  <2>1. CASE l = "loop" /\ sem' = sem
    <3>1. l \in PlacesOf(t) \ Waiting
      BY <2>1 DEF Waiting
    <3> QED BY <1>1, <1>2, <2>1, <3>1, GoBack
  <2>2. ASSUME NEW s \in Sems, t \in Who(s), l = Behind(s), WaitsFor(sem, sem', s, t)
        PROVE  SameCounts(sem, pc, sem', pc')
    BY <1>1, <1>2, <2>2, GoToWait
  <2> QED BY <2>1, <2>2
<1>4. pc'[t] = l /\ \A u \in Threads \ {t} : pc'[u] = pc[u]
  BY <1>1, Gone
<1>5. Device'
  BY <1>1 DEF Device, devVars
<1>6. Carried'
  <2>1. \A u \in Users : pc'[u] = pc[u]
    BY <1>4, Names
  <2>2. \A u \in {putcThread, getcThread} : pc'[u] = IF u = t THEN l ELSE pc[u]
    BY <1>4, Names
  <2>3. pc'[putcThread] = "write" => thr = NoChar
    <3>1. CASE t = putcThread
      BY <2>2, <3>1
    <3>2. CASE t # putcThread
      BY <1>1, <2>2, <3>2 DEF Carried
    <3> QED BY <3>1, <3>2
  <2>4. pc'[getcThread] = "read" => fifo # <<>>
    <3>1. CASE t = getcThread
      BY <2>2, <3>1
    <3>2. CASE t # getcThread
      BY <1>1, <2>2, <3>2 DEF Carried
    <3> QED BY <3>1, <3>2
  <2> QED BY <1>1, <2>1, <2>3, <2>4 DEF Carried, devVars
<1> QED BY <1>3, <1>5, <1>6, NothingMoves

LEMMA ConsoleWaitsKeep ==
  ASSUME IInv, consoleputWait \/ consoleputReady \/ consolegetWait \/ consolegetReady
  PROVE  IInv' /\ Out' = Out /\ Inp' = Inp
<1>1. /\ PlacesOf(putcThread) = {"loop", "ready", "write"}
      /\ PlacesOf(getcThread) = {"loop", "ready", "read"}
  BY Names
<1>2. \A s \in {"uartTransmit", "txFull"} : s \in Sems /\ putcThread \in Who(s)
  BY DEF Sems, Who
<1>3. \A s \in {"uartReceive", "rxEmpty"} : s \in Sems /\ getcThread \in Who(s)
  BY DEF Sems, Who
<1>4. /\ Behind("uartTransmit") = "ready" /\ Behind("txFull") = "write"
      /\ Behind("uartReceive") = "ready" /\ Behind("rxEmpty") = "read"
      /\ "loop" \notin Waiting /\ "ready" \notin Waiting
  BY DEF Behind, Waiting
<1>5. CASE consoleputWait
  <2>1. /\ At(putcThread, pc[putcThread]) /\ pc[putcThread] = "loop"
        /\ WaitsFor(sem, sem', "uartTransmit", putcThread) /\ Goes(pc, pc', putcThread, "ready")
        /\ UNCHANGED <<arg, result, bufVars, devVars, mainVars, undisturbed, puts>>
    BY <1>5 DEF consoleputWait, WaitThen, At, WaitsFor, Goes
  <2> QED BY <1>1, <1>2, <1>4, <2>1, KernelWaits
<1>6. CASE consoleputReady
  <2>1. /\ At(putcThread, pc[putcThread]) /\ pc[putcThread] = "ready"
        /\ UNCHANGED <<arg, result, bufVars, devVars, mainVars, undisturbed, puts>>
    BY <1>6 DEF consoleputReady, At
  <2>2. CASE thr = NoChar
    <3>1. WaitsFor(sem, sem', "txFull", putcThread) /\ Goes(pc, pc', putcThread, "write")
      BY <1>6, <2>2 DEF consoleputReady, WRITE_READY, WaitThen, WaitsFor, Goes
    <3> QED BY <1>1, <1>2, <1>4, <2>1, <2>2, <3>1, KernelWaits
  <2>3. CASE thr # NoChar
    <3>1. sem' = sem /\ Goes(pc, pc', putcThread, "loop")
      BY <1>6, <2>3 DEF consoleputReady, WRITE_READY, Goes
    <3> QED BY <1>1, <1>4, <2>1, <3>1, KernelWaits
  <2> QED BY <2>2, <2>3
<1>7. CASE consolegetWait
  <2>1. /\ At(getcThread, pc[getcThread]) /\ pc[getcThread] = "loop"
        /\ WaitsFor(sem, sem', "uartReceive", getcThread) /\ Goes(pc, pc', getcThread, "ready")
        /\ UNCHANGED <<arg, result, bufVars, devVars, mainVars, undisturbed, puts>>
    BY <1>7 DEF consolegetWait, WaitThen, At, WaitsFor, Goes
  <2> QED BY <1>1, <1>3, <1>4, <2>1, KernelWaits
<1>8. CASE consolegetReady
  <2>1. /\ At(getcThread, pc[getcThread]) /\ pc[getcThread] = "ready"
        /\ UNCHANGED <<arg, result, bufVars, devVars, mainVars, undisturbed, puts>>
    BY <1>8 DEF consolegetReady, At
  <2>2. CASE fifo # <<>>
    <3>1. WaitsFor(sem, sem', "rxEmpty", getcThread) /\ Goes(pc, pc', getcThread, "read")
      BY <1>8, <2>2 DEF consolegetReady, READ_READY, WaitThen, WaitsFor, Goes
    <3> QED BY <1>1, <1>3, <1>4, <2>1, <2>2, <3>1, KernelWaits
  <2>3. CASE fifo = <<>>
    <3>1. sem' = sem /\ Goes(pc, pc', getcThread, "loop")
      BY <1>8, <2>3 DEF consolegetReady, READ_READY, Goes
    <3> QED BY <1>1, <1>4, <2>1, <3>1, KernelWaits
  <2> QED BY <2>2, <2>3
<1> QED BY <1>5, <1>6, <1>7, <1>8

LEMMA ConsoleputWriteKeeps ==
  ASSUME IInv, consoleputWrite
  PROVE  /\ IInv' /\ Inp' = Inp /\ thr = NoChar /\ thr' \in Chars
         /\ Out # <<>> /\ thr' = Head(Out) /\ Out' = Tail(Out)
<1>1. /\ Semaphores(sem, pc) /\ Sums(sem, pc) /\ Rings /\ Device /\ Carried
      /\ putcThread \in Threads
  BY Names DEF IInv
<1>2. /\ Free(sem, putcThread) /\ pc[putcThread] = "write" /\ ~ended
      /\ Signals(sem, sem', "txBuff") /\ Goes(pc, pc', putcThread, "ready")
      /\ thr' = output_buff[outpHead] /\ outpHead' = Advanced(outpHead)
      /\ UNCHANGED <<arg, result, output_buff, outpTail, input_buff, inpHead, inpTail,
                     fifo, irq, shown, puts, typed, mainVars, undisturbed>>
  BY <1>1, RunsFree DEF consoleputWrite, Signals, Goes
<1>3. /\ "txFull" \in Four /\ Other("txFull") = "txBuff" /\ putcThread \in Who("txFull")
      /\ Behind("txFull") = "write" /\ "ready" \in PlacesOf(putcThread) \ Waiting
  BY Names DEF Four, Other, Who, Behind, Waiting
<1>4. Handed(sem, pc, sem', pc', "txFull") /\ Count(sem, pc, "txFull") > 0
  BY <1>1, <1>2, <1>3, HandOver
<1>5. Semaphores(sem', pc') /\ Sums(sem', pc')
  BY <1>1, <1>3, <1>4, HandedSums
<1>6. /\ Count(sem', pc', "txFull") = Count(sem, pc, "txFull") - 1
      /\ Count(sem', pc', "rxBuff") = Count(sem, pc, "rxBuff")
  BY <1>3, <1>4 DEF Handed, Four
<1>7. PICK n, q : n = Count(sem, pc, "txFull") /\ q = Content(output_buff, outpHead, n)
  OBVIOUS
<1>8. /\ Ring(output_buff, outpHead', outpTail, n - 1)
      /\ q # <<>> /\ output_buff[outpHead] \in Chars /\ Head(q) = output_buff[outpHead]
      /\ Tail(q) = Content(output_buff, outpHead', n - 1)
  BY <1>1, <1>2, <1>4, <1>7, RingTake DEF Rings
<1>9. Rings'
  BY <1>1, <1>2, <1>6, <1>7, <1>8 DEF Rings
<1>10. Device'
  BY <1>1, <1>2, <1>8 DEF Device
<1>11. pc'[putcThread] = "ready" /\ \A u \in Threads \ {putcThread} : pc'[u] = pc[u]
  BY <1>1, <1>2, Gone
<1>12. Carried'
  <2>1. (\A u \in Users : pc'[u] = pc[u]) /\ pc'[getcThread] = pc[getcThread]
    BY <1>11, Names
  <2> QED BY <1>1, <1>2, <1>11, <2>1 DEF Carried
<1>13. Looked' /\ Watched'
  <2>1. Looked' /\ ~ended'
    BY <1>2 DEF IInv, Looked, mainVars
  <2>2. n \in 0 .. MAX_SIZE /\ MAX_SIZE \in Nat
    BY <1>1, <1>7, SizeIs DEF Rings, Ring
  <2>3. \A c \in n .. MAX_SIZE - 1 : c \in n - 1 .. MAX_SIZE - 1
    BY <2>2
  <2>4. ASSUME undisturbed'
        PROVE  /\ n - 1 < MAX_SIZE
               /\ tailSeen' # Unread => tailSeen' = outpTail'
               /\ headSeen' # Unread =>
                    \E c \in n - 1 .. MAX_SIZE - 1 : outpTail' = Place(headSeen', c)
    BY <1>2, <1>7, <2>2, <2>3, <2>4 DEF IInv, Watched, mainVars
  <2> QED BY <1>6, <1>7, <2>1, <2>4 DEF Watched
<1>14. q = Out /\ Out' = Content(output_buff, outpHead', n - 1) /\ Inp' = Inp
  BY <1>2, <1>6, <1>7 DEF Out, Inp
<1>15. thr = NoChar
  BY <1>1, <1>2 DEF Carried
<1> QED BY <1>2, <1>5, <1>8, <1>9, <1>10, <1>12, <1>13, <1>14, <1>15 DEF IInv

LEMMA ConsolegetReadKeeps ==
  ASSUME IInv, consolegetRead
  PROVE  /\ IInv' /\ Out' = Out /\ fifo # <<>> /\ fifo' = Tail(fifo)
         /\ Inp' = Append(Inp, Head(fifo))
<1>1. /\ Semaphores(sem, pc) /\ Sums(sem, pc) /\ Rings /\ Device /\ Carried
      /\ getcThread \in Threads
  BY Names DEF IInv
<1>2. /\ Free(sem, getcThread) /\ pc[getcThread] = "read" /\ ~ended
      /\ Signals(sem, sem', "rxBuff") /\ Goes(pc, pc', getcThread, "loop")
      /\ input_buff' = Stored(input_buff, inpHead, inpTail, Head(fifo))
      /\ inpTail' = Advanced(inpTail) /\ fifo' = Tail(fifo)
      /\ irq' = (irq \/ Tail(fifo) # <<>>)
      /\ UNCHANGED <<arg, result, output_buff, outpHead, outpTail, inpHead, thr, shown, puts,
                     typed, mainVars, undisturbed>>
  BY <1>1, RunsFree DEF consolegetRead, Signals, Goes
<1>3. /\ "rxEmpty" \in Four /\ Other("rxEmpty") = "rxBuff" /\ getcThread \in Who("rxEmpty")
      /\ Behind("rxEmpty") = "read" /\ "loop" \in PlacesOf(getcThread) \ Waiting
  BY Names DEF Four, Other, Who, Behind, Waiting
<1>4. Handed(sem, pc, sem', pc', "rxEmpty") /\ Count(sem, pc, "rxEmpty") > 0
  BY <1>1, <1>2, <1>3, HandOver
<1>5. Semaphores(sem', pc') /\ Sums(sem', pc') /\ Count(sem, pc, "rxBuff") < MAX_SIZE
  BY <1>1, <1>3, <1>4, HandedSums
<1>6. /\ Count(sem', pc', "rxBuff") = Count(sem, pc, "rxBuff") + 1
      /\ Count(sem', pc', "txFull") = Count(sem, pc, "txFull")
  BY <1>3, <1>4 DEF Handed, Four
<1>7. fifo # <<>> /\ fifo \in Seq(Chars)
  BY <1>1, <1>2 DEF Carried, Device
<1>8. /\ Head(fifo) \in Chars /\ Tail(fifo) \in Seq(Chars)
      /\ Len(Tail(fifo)) = Len(fifo) - 1 /\ Len(fifo) \in Nat
  BY <1>7, HeadTailProperties, LenProperties
<1>9. /\ Ring(input_buff', inpHead', inpTail', Count(sem', pc', "rxBuff"))
      /\ Content(input_buff', inpHead', Count(sem', pc', "rxBuff"))
           = Append(Content(input_buff, inpHead, Count(sem, pc, "rxBuff")), Head(fifo))
  BY <1>1, <1>2, <1>5, <1>6, <1>8, RingStore DEF Rings
<1>10. Rings'
  BY <1>1, <1>2, <1>6, <1>9 DEF Rings
<1>11. Device'
  <2>1. FifoSize \in Nat
    BY ConsoleAssumption
  <2>2. fifo' \in Seq(Chars) /\ Len(fifo') <= FifoSize /\ irq' \in BOOLEAN
    BY <1>1, <1>2, <1>8, <2>1 DEF Device
  <2> QED BY <1>1, <1>2, <2>2 DEF Device
<1>12. pc'[getcThread] = "loop" /\ \A u \in Threads \ {getcThread} : pc'[u] = pc[u]
  BY <1>1, <1>2, Gone
<1>13. Carried'
  <2>1. (\A u \in Users : pc'[u] = pc[u]) /\ pc'[putcThread] = pc[putcThread]
    BY <1>12, Names
  <2> QED BY <1>1, <1>2, <1>12, <2>1 DEF Carried
<1>14. Looked' /\ Watched'
  BY <1>2, <1>6 DEF IInv, Looked, Watched, mainVars
<1>15. Out' = Out /\ Inp' = Append(Inp, Head(fifo))
  BY <1>2, <1>6, <1>9 DEF Out, Inp
<1> QED BY <1>2, <1>5, <1>7, <1>10, <1>11, <1>13, <1>14, <1>15 DEF IInv

LEMMA InterruptKeeps ==
  ASSUME IInv, consoleInterrupt
  PROVE  IInv' /\ Out' = Out /\ Inp' = Inp
<1>1. Semaphores(sem, pc) /\ Device /\ Carried
  BY DEF IInv
<1>2. /\ ~ended /\ irq' = FALSE /\ sem' = ToldBoth
      /\ UNCHANGED <<pc, arg, result, bufVars, thr, fifo, shown, puts, typed, mainVars,
                     undisturbed>>
  BY DEF consoleInterrupt
<1>3. PICK f : Signals(sem, f, "uartReceive") /\ f = [sem EXCEPT !["uartReceive"] = Signalled(@)]
  BY DEF Signals
<1>4. f["uartTransmit"] = sem["uartTransmit"]
  BY <1>1, <1>3 DEF Semaphores, Sems
<1>5. Signals(f, sem', "uartTransmit")
  BY <1>2, <1>3, <1>4 DEF Signals, ToldBoth
<1>6. SameCounts(sem, pc, sem', pc')
  BY <1>1, <1>2, <1>3, <1>5, TellBoth
<1>7. Device' /\ Carried'
  BY <1>1, <1>2 DEF Device, Carried
<1> QED BY <1>2, <1>6, <1>7, NothingMoves

LEMMA TransmitKeeps ==
  ASSUME IInv, transmit
  PROVE  /\ IInv' /\ Out' = Out /\ Inp' = Inp
         /\ thr \in Chars /\ shown' = thr /\ thr' = NoChar
<1>1. Semaphores(sem, pc) /\ Device /\ Carried
  BY DEF IInv
<1>2. /\ ~ended /\ thr # NoChar /\ shown' = thr /\ thr' = NoChar /\ irq' = TRUE
      /\ UNCHANGED <<sem, pc, arg, result, bufVars, fifo, puts, typed, mainVars, undisturbed>>
  BY DEF transmit
<1>3. SameCounts(sem, pc, sem', pc')
  BY <1>1, <1>2 DEF SameCounts
<1>4. Device' /\ Carried' /\ thr \in Chars
  BY <1>1, <1>2 DEF Device, Carried
<1> QED BY <1>2, <1>3, <1>4, NothingMoves

LEMMA ReceiveKeeps ==
  ASSUME IInv, receive
  PROVE  /\ IInv' /\ Out' = Out /\ Inp' = Inp
         /\ \E c \in Chars : fifo' = Append(fifo, c)
<1>1. Semaphores(sem, pc) /\ Device /\ Carried
  BY DEF IInv
<1>2. /\ typed < Len(Text) /\ ~ended /\ Len(fifo) < FifoSize
      /\ typed' = typed + 1 /\ fifo' = Append(fifo, Text[typed + 1]) /\ irq' = TRUE
      /\ UNCHANGED <<sem, pc, arg, result, bufVars, thr, shown, puts, mainVars, undisturbed>>
  BY DEF receive
<1>3. Text \in Seq(Chars) /\ Len(Text) \in Nat /\ FifoSize \in Nat
  BY ConsoleAssumption, LenProperties
<1>4. typed + 1 \in 1 .. Len(Text) /\ typed' \in 0 .. Len(Text)
  BY <1>1, <1>2, <1>3 DEF Device
<1>5. PICK c \in Chars : c = Text[typed + 1]
  BY <1>3, <1>4, ElementOfSeq
<1>6. /\ fifo' \in Seq(Chars) /\ Len(fifo') = Len(fifo) + 1 /\ Len(fifo) \in Nat
      /\ fifo' # <<>>
  <2>1. fifo \in Seq(Chars) /\ Len(fifo) \in Nat
    BY <1>1, LenProperties DEF Device
  <2>2. fifo' = Append(fifo, c) /\ Append(fifo, c) \in Seq(Chars)
        /\ Len(Append(fifo, c)) = Len(fifo) + 1
    BY <1>2, <1>5, <2>1, AppendElements
  <2> QED BY <2>1, <2>2, EmptySeq
<1>7. SameCounts(sem, pc, sem', pc')
  BY <1>1, <1>2 DEF SameCounts
<1>8. Device'
  <2>1. Len(fifo') <= FifoSize
    BY <1>2, <1>3, <1>6
  <2> QED BY <1>1, <1>2, <1>4, <1>6, <2>1 DEF Device
<1>9. Carried'
  BY <1>1, <1>2, <1>6 DEF Carried
<1> QED BY <1>2, <1>5, <1>7, <1>8, <1>9, NothingMoves

(* The counts are those that the properties speak of.                      *)
LEMMA CountsTold ==
  ASSUME NEW e, NEW p
  PROVE  /\ Count(e, p, "txFull") = e["txFull"].val + IF p[putcThread] = "write" THEN 1 ELSE 0
         /\ Count(e, p, "rxEmpty") = e["rxEmpty"].val + IF p[getcThread] = "read" THEN 1 ELSE 0
         /\ Count(e, p, "txBuff") = e["txBuff"].val + Cardinality({t \in Users : p[t] = "put"})
         /\ Count(e, p, "rxBuff") = e["rxBuff"].val + Cardinality({t \in Users : p[t] = "get"})
<1>1. /\ Held(p, "txFull") = {t \in {putcThread} : p[t] = "write"}
      /\ Held(p, "rxEmpty") = {t \in {getcThread} : p[t] = "read"}
      /\ Held(p, "txBuff") = {t \in Users : p[t] = "put"}
      /\ Held(p, "rxBuff") = {t \in Users : p[t] = "get"}
  BY DEF Held, Who, Behind
<1>2. Held(p, "txFull") = IF p[putcThread] = "write" THEN {putcThread} ELSE {}
  BY <1>1
<1>3. Held(p, "rxEmpty") = IF p[getcThread] = "read" THEN {getcThread} ELSE {}
  BY <1>1
<1>4. Cardinality({}) = 0 /\ \A t \in Threads : Cardinality({t}) = 1
  BY FS_EmptySet, FS_Singleton
<1>5. Cardinality(Held(p, "txFull")) = IF p[putcThread] = "write" THEN 1 ELSE 0
  BY <1>2, <1>4, Names
<1>6. Cardinality(Held(p, "rxEmpty")) = IF p[getcThread] = "read" THEN 1 ELSE 0
  BY <1>3, <1>4, Names
<1> QED BY <1>1, <1>5, <1>6 DEF Count, Room

(* The end of main(): the thread of the program ends, main() looks at the  *)
(* positions, again and again, and disables interrupts.                    *)
LEMMA ExitKeeps ==
  ASSUME IInv, exit
  PROVE  IInv' /\ Out' = Out /\ Inp' = Inp
<1>1. /\ Semaphores(sem, pc) /\ Device /\ Carried
      /\ usermainThread \in Users /\ usermainThread \in Threads
  BY Names, ConsoleAssumption DEF IInv
<1>2. /\ Free(sem, usermainThread) /\ pc[usermainThread] = "user"
      /\ Goes(pc, pc', usermainThread, "finished")
      /\ UNCHANGED <<sem, arg, result, bufVars, devVars, mainVars, undisturbed, puts>>
  BY <1>1, RunsFree DEF exit, Goes
<1>3. "finished" \in PlacesOf(usermainThread) \ Waiting /\ "user" \notin Waiting
  BY <1>1, Names DEF Waiting
<1>4. SameCounts(sem, pc, sem', pc')
  BY <1>1, <1>2, <1>3, GoBack
<1>5. /\ pc'[usermainThread] = "finished"
      /\ \A u \in Threads \ {usermainThread} : pc'[u] = pc[u]
  BY <1>1, <1>2, Gone
<1>6. Device'
  BY <1>1, <1>2 DEF Device, devVars
<1>7. Carried'
  <2>1. \A u \in Users \ {usermainThread} : pc'[u] = pc[u] /\ arg'[u] = arg[u]
    BY <1>2, <1>5, Names
  <2>2. pc'[putcThread] = pc[putcThread] /\ pc'[getcThread] = pc[getcThread]
    BY <1>1, <1>5, Names
  <2> QED BY <1>1, <1>2, <1>5, <2>1, <2>2 DEF Carried, devVars
<1> QED BY <1>2, <1>4, <1>6, <1>7, NothingMoves

LEMMA MainKeeps ==
  ASSUME IInv, UNCHANGED <<sem, pc, arg, result, bufVars, devVars, puts>>, Looked', Watched'
  PROVE  IInv' /\ Out' = Out /\ Inp' = Inp
<1>1. Rings' /\ Device' /\ Carried' /\ Out' = Out /\ Inp' = Inp
  BY DEF IInv, Rings, Device, Carried, Out, Inp, bufVars, devVars
<1> QED BY <1>1 DEF IInv

LEMMA FlushLoadKeeps ==
  ASSUME IInv, flushLoad
  PROVE  IInv' /\ Out' = Out /\ Inp' = Inp
<1>1. PICK n : n = Count(sem, pc, "txFull")
  OBVIOUS
<1>2. /\ outpHead \in Positions /\ outpTail \in Positions /\ n \in 0 .. MAX_SIZE
      /\ MAX_SIZE \in Nat /\ outpTail = Place(outpHead, n) /\ n = OutCount
      /\ Unread \notin Positions
  <2>1. Ring(output_buff, outpHead, outpTail, n) /\ MAX_SIZE \in Nat
    BY <1>1, SizeIs DEF IInv, Rings
  <2>2. n = OutCount
    BY <1>1, CountsTold DEF OutCount, InState
  <2>3. Unread \notin Positions
    BY <2>1 DEF Unread, Positions
  <2> QED BY <2>1, <2>2, <2>3 DEF Ring
<1>3. /\ \/ headSeen = Unread /\ headSeen' = outpHead /\ tailSeen' = tailSeen
         \/ tailSeen = Unread /\ tailSeen' = outpTail /\ headSeen' = headSeen
      /\ undisturbed' = IF headSeen = Unread /\ tailSeen = Unread
                          THEN OutCount # MAX_SIZE ELSE undisturbed
      /\ ~ended /\ UNCHANGED <<sem, pc, arg, result, bufVars, devVars, ended, puts>>
  BY DEF flushLoad, InFlush
<1>4. Looked'
  BY <1>2, <1>3 DEF IInv, Looked
<1>5. Watched'
  <2>1. SUFFICES ASSUME undisturbed'
                 PROVE  /\ n < MAX_SIZE
                        /\ tailSeen' # Unread => tailSeen' = outpTail
                        /\ headSeen' # Unread =>
                             \E c \in n .. MAX_SIZE - 1 : outpTail = Place(headSeen', c)
    BY <1>1, <1>3 DEF Watched, bufVars
  <2>2. n < MAX_SIZE
    <3>1. CASE headSeen = Unread /\ tailSeen = Unread
      <4>1. OutCount # MAX_SIZE
        BY Zenon, <1>3, <2>1, <3>1
      <4> QED BY <1>2, <4>1
    <3>2. CASE ~(headSeen = Unread /\ tailSeen = Unread)
      <4>1. undisturbed
        BY Zenon, <1>3, <2>1, <3>2
      <4> QED BY <1>1, <4>1 DEF IInv, Watched
    <3> QED BY <3>1, <3>2
  <2>3. /\ tailSeen # Unread => tailSeen = outpTail
        /\ headSeen # Unread => \E c \in n .. MAX_SIZE - 1 : outpTail = Place(headSeen, c)
    <3>1. CASE headSeen = Unread /\ tailSeen = Unread
      BY <3>1
    <3>2. CASE ~(headSeen = Unread /\ tailSeen = Unread)
      <4>1. undisturbed
        BY Zenon, <1>3, <2>1, <3>2
      <4> QED BY <1>1, <4>1 DEF IInv, Watched
    <3> QED BY <3>1, <3>2
  <2>4. n \in n .. MAX_SIZE - 1
    BY <1>2, <2>2
  <2> QED BY <1>2, <1>3, <2>2, <2>3, <2>4
<1> QED BY <1>3, <1>4, <1>5, MainKeeps

LEMMA FlushAgainKeeps ==
  ASSUME IInv, flushAgain
  PROVE  IInv' /\ Out' = Out /\ Inp' = Inp
<1>1. /\ headSeen' = Unread /\ tailSeen' = Unread /\ undisturbed' = FALSE
      /\ UNCHANGED <<sem, pc, arg, result, bufVars, devVars, ended, puts>>
  BY DEF flushAgain
<1>2. Looked' /\ Watched'
  BY <1>1 DEF IInv, Looked, Watched
<1> QED BY <1>1, <1>2, MainKeeps

(* The head that main() saw was never behind the one there is, and the     *)
(* tail that it saw is the one there is: if they are equal, nothing is in  *)
(* between.                                                                *)
LEMMA EndKeeps ==
  ASSUME IInv, mc_sstatus
  PROVE  IInv' /\ Out' = Out /\ Inp' = Inp
<1>1. PICK n : n = Count(sem, pc, "txFull")
  OBVIOUS
<1>2. /\ headSeen # Unread /\ tailSeen # Unread /\ headSeen = tailSeen /\ ended' = TRUE
      /\ headSeen' = Unread /\ tailSeen' = Unread
      /\ UNCHANGED <<sem, pc, arg, result, bufVars, devVars, undisturbed, puts>>
  BY DEF mc_sstatus, Flushed, Loaded
<1>3. Looked'
  BY <1>2 DEF IInv, Looked
<1>4. Watched'
  <2>1. SUFFICES ASSUME undisturbed PROVE n < MAX_SIZE /\ n = 0
    BY <1>1, <1>2 DEF Watched
  <2>2. /\ n < MAX_SIZE /\ tailSeen = outpTail
        /\ \E c \in n .. MAX_SIZE - 1 : outpTail = Place(headSeen, c)
    BY <1>1, <1>2, <2>1 DEF IInv, Watched
  <2>3. headSeen \in Positions /\ n \in 0 .. MAX_SIZE /\ MAX_SIZE \in Nat
    BY <1>1, <1>2, SizeIs DEF IInv, Looked, Rings, Ring
  <2>4. PICK c \in 0 .. MAX_SIZE - 1 : c >= n /\ headSeen = Place(headSeen, c)
    BY <1>2, <2>2, <2>3
  <2>5. c = 0
    <3>1. c \in 0 .. MAX_SIZE
      BY <2>3, <2>4
    <3>2. headSeen = IF headSeen + c < MAX_SIZE THEN headSeen + c ELSE headSeen + c - MAX_SIZE
      BY <2>3, <2>4, <3>1, PlaceIs
    <3> QED BY <2>3, <2>4, <3>2 DEF Positions
  <2> QED BY <2>2, <2>3, <2>4, <2>5
<1> QED BY <1>2, <1>3, <1>4, MainKeeps

-----------------------------------------------------------------------------
LEMMA InitHolds == Init => IInv
<1> SUFFICES ASSUME Init PROVE IInv
  OBVIOUS
<1>1. MAX_SIZE \in Nat \ {0} /\ FifoSize \in Nat /\ MaxChars \in Nat /\ Len(Text) \in Nat
  BY ConsoleAssumption, LenProperties
<1>2. \A s \in Sems : /\ sem[s].val = IF s \in {"txBuff", "rxEmpty"} THEN MAX_SIZE ELSE 0
                      /\ sem[s].queue = <<>> /\ sem[s] \in SemType
  <2>1. <<>> \in Seq(Threads)
    BY EmptySeq
  <2> QED BY <1>1, <2>1 DEF Init, SemType
<1>3. /\ \A t \in Users : pc[t] = "user"
      /\ pc[putcThread] = "loop" /\ pc[getcThread] = "loop"
  BY Names DEF Init
<1>4. \A s \in Sems : Held(pc, s) = {}
  <2>1. \A s \in Sems : \A t \in Who(s) : pc[t] # Behind(s)
    BY <1>3 DEF Sems, Who, Behind
  <2> QED BY <2>1 DEF Held
<1>5. Placed(pc)
  BY <1>3, Names DEF Init, Placed
<1>6. \A s \in Sems : Sound(sem[s], Held(pc, s))
  <2>1. IsFiniteSet({}) /\ Len(<<>>) = 0
    BY FS_EmptySet
  <2>2. \A s \in Sems : Distinct(sem[s].queue) /\ Elements(sem[s].queue) = {}
    BY <1>2, <2>1 DEF Distinct, Elements
  <2>3. \A s \in Sems : ~(sem[s].val < 0)
    BY <1>1, <1>2
  <2>4. ASSUME NEW s \in Sems PROVE Sound(sem[s], Held(pc, s))
    <3>1. /\ sem[s] \in SemType /\ IsFiniteSet({}) /\ {} \subseteq Threads
          /\ Distinct(sem[s].queue) /\ Elements(sem[s].queue) \subseteq {}
          /\ sem[s].queue = <<>> /\ ~(sem[s].val < 0)
      BY <1>2, <2>1, <2>2, <2>3
    <3> QED BY <1>4, <3>1 DEF Sound
  <2> QED BY <2>4
<1>7. Semaphores(sem, pc)
  BY <1>5, <1>6 DEF Init, Semaphores
<1>8. \A s \in Sems : Count(sem, pc, s) = IF s \in {"txBuff", "rxEmpty"} THEN MAX_SIZE ELSE 0
  <2>1. Cardinality({}) = 0
    BY FS_EmptySet
  <2>2. \A s \in Sems : Count(sem, pc, s) = sem[s].val + 0
    BY <1>4, <2>1 DEF Count, Room
  <2> QED BY <1>1, <1>2, <2>2
<1>9. Sums(sem, pc)
  BY <1>1, <1>8 DEF Sums, Sems
<1>10. Place(0, 0) = 0 /\ 0 \in Positions
  <2>1. 0 \in Positions /\ 0 \in 0 .. MAX_SIZE /\ 0 + 0 < MAX_SIZE /\ 0 + 0 = 0
    BY <1>1 DEF Positions
  <2> QED BY <2>1, PlaceIs
<1>11. Rings
  <2>1. Count(sem, pc, "txFull") = 0 /\ Count(sem, pc, "rxBuff") = 0
    BY <1>8 DEF Sems
  <2>2. output_buff \in Cells /\ input_buff \in Cells
    BY DEF Init, Cells, Positions
  <2>3. 0 \in 0 .. MAX_SIZE /\ \A i \in 0 .. 0 - 1 : FALSE
    BY <1>1
  <2> QED BY <1>10, <2>1, <2>2, <2>3 DEF Init, Rings, Ring
<1>12. Device
  <2>1. <<>> \in Seq(Chars) /\ Len(<<>>) = 0
    BY EmptySeq
  <2>2. 0 \in 0 .. MaxChars /\ 0 \in 0 .. Len(Text) /\ 0 <= FifoSize
    BY <1>1
  <2>3. fifo \in Seq(Chars) /\ Len(fifo) <= FifoSize
    BY <2>1, <2>2 DEF Init
  <2>4. puts \in 0 .. MaxChars /\ typed \in 0 .. Len(Text)
    BY <2>2 DEF Init
  <2> QED BY <2>3, <2>4 DEF Init, Device
<1>13. Carried /\ Looked /\ Watched
  BY <1>3 DEF Init, Carried, Looked, Watched
<1> QED BY <1>7, <1>9, <1>11, <1>12, <1>13 DEF IInv

LEMMA NextKeeps == IInv /\ [Next]_vars => IInv'
<1> SUFFICES ASSUME IInv, [Next]_vars PROVE IInv'
  OBVIOUS
<1>1. ASSUME NEW t \in Users, NEW c \in CharsOf[t], putc(t, c) PROVE IInv'
  BY <1>1, PutcKeeps
<1>2. ASSUME NEW t \in Users, putcResumed(t) PROVE IInv'
  BY <1>2, PutcResumedKeeps
<1>3. ASSUME NEW t \in Users, getc(t) PROVE IInv'
  BY <1>3, GetcKeeps
<1>4. ASSUME NEW t \in Users, getcResumed(t) PROVE IInv'
  BY <1>4, GetcResumedKeeps
<1>5. CASE consoleputWait \/ consoleputReady \/ consolegetWait \/ consolegetReady
  BY <1>5, ConsoleWaitsKeep
<1>6. CASE consoleputWrite
  BY <1>6, ConsoleputWriteKeeps
<1>7. CASE consolegetRead
  BY <1>7, ConsolegetReadKeeps
<1>8. CASE consoleInterrupt
  BY <1>8, InterruptKeeps
<1>9. CASE transmit
  BY <1>9, TransmitKeeps
<1>10. CASE receive
  BY <1>10, ReceiveKeeps
<1>11. CASE exit
  BY <1>11, ExitKeeps
<1>12. CASE flushLoad \/ flushAgain \/ mc_sstatus
  BY <1>12, FlushLoadKeeps, FlushAgainKeeps, EndKeeps
<1>13. CASE UNCHANGED vars
  BY <1>13, MainKeeps DEF IInv, Looked, Watched, vars, bufVars, mainVars
<1> QED
  BY <1>1, <1>2, <1>3, <1>4, <1>5, <1>6, <1>7, <1>8, <1>9, <1>10, <1>11, <1>12, <1>13 DEF Next

(* The inductive invariant: the two semaphores of a buffer, and the        *)
(* threads that have passed them, count its free and its filled places     *)
(* (kernelcons.cpp:41-76, 98-103).                                         *)
THEOREM Invariant == Spec => []IInv
<1> QED BY InitHolds, NextKeeps, PTL DEF Spec

LEMMA BuffersFollow == IInv => BuffersAgree /\ EndsFlushed
<1> SUFFICES ASSUME IInv PROVE BuffersAgree /\ EndsFlushed
  OBVIOUS
<1>1. Semaphores(sem, pc) /\ Sums(sem, pc) /\ Rings /\ Device /\ Looked /\ Watched
  BY DEF IInv
<1>2. /\ OutCount = Count(sem, pc, "txFull") /\ InCount = Count(sem, pc, "rxBuff")
      /\ Count(sem, pc, "txBuff") = sem["txBuff"].val + In("put")
      /\ Count(sem, pc, "rxEmpty") = sem["rxEmpty"].val + InState(getcThread, "read")
  BY CountsTold DEF OutCount, InCount, In, InState
<1>3. /\ sem["txBuff"].val \in Int /\ sem["rxEmpty"].val \in Int
      /\ In("put") \in Nat /\ InState(getcThread, "read") \in Nat
  <2>1. \A s \in {"txBuff", "rxEmpty"} : s \in Sems /\ Sound(sem[s], Held(pc, s))
    BY <1>1 DEF Semaphores, Sems
  <2>2. \A s \in {"txBuff", "rxEmpty"} :
          sem[s].val \in Int /\ Cardinality(Held(pc, s)) \in Nat
    BY <2>1, RoomIs DEF Sound, SemType
  <2>3. Held(pc, "txBuff") = {t \in Users : pc[t] = "put"}
    BY DEF Held, Who, Behind
  <2> QED BY <2>2, <2>3 DEF In, InState
<1>4. /\ OutCount \in 0 .. MAX_SIZE /\ (outpTail - outpHead) % MAX_SIZE = OutCount % MAX_SIZE
      /\ InCount \in 0 .. MAX_SIZE /\ (inpTail - inpHead) % MAX_SIZE = InCount % MAX_SIZE
  <2>1. /\ Ring(output_buff, outpHead, outpTail, OutCount)
        /\ Ring(input_buff, inpHead, inpTail, InCount)
    BY <1>1, <1>2 DEF Rings
  <2>2. OutCount \in 0 .. MAX_SIZE /\ InCount \in 0 .. MAX_SIZE
    BY <2>1 DEF Ring
  <2> QED BY <2>1, <2>2, RingAgrees
<1>5. /\ OutCount = MAX_SIZE - sem["txBuff"].val - In("put")
      /\ InCount = MAX_SIZE - sem["rxEmpty"].val - InState(getcThread, "read")
  <2>1. MAX_SIZE \in Nat
    BY SizeIs
  <2>2. /\ OutCount + (sem["txBuff"].val + In("put")) = MAX_SIZE
        /\ InCount + (sem["rxEmpty"].val + InState(getcThread, "read")) = MAX_SIZE
    BY <1>1, <1>2 DEF Sums
  <2>3. OutCount \in Nat /\ InCount \in Nat
    BY <1>4, <2>1
  <2> QED BY <1>3, <2>1, <2>2, <2>3
<1>6. TypeOK
  <2>1. sem \in [Sems -> [val : Int, queue : Seq(Threads)]]
    <3>1. \A s \in Sems : sem[s] \in SemType
      BY <1>1 DEF Semaphores, Sound
    <3> QED BY <1>1, <3>1 DEF Semaphores, SemType
  <2>2. pc \in [Threads -> {"user", "put", "get", "loop", "ready", "write", "read", "finished"}]
    <3>1. \A t \in Threads :
            pc[t] \in {"user", "put", "get", "loop", "ready", "write", "read", "finished"}
      BY <1>1 DEF Semaphores, Placed, PlacesOf
    <3> QED BY <1>1, <3>1 DEF Semaphores, Placed
  <2>3. /\ output_buff \in [0 .. MAX_SIZE - 1 -> Chars \cup {NoChar}]
        /\ input_buff \in [0 .. MAX_SIZE - 1 -> Chars \cup {NoChar}]
        /\ {outpHead, outpTail, inpHead, inpTail} \subseteq 0 .. MAX_SIZE - 1
    BY <1>1 DEF Rings, Ring, Cells, Positions
  <2> QED BY <1>1, <2>1, <2>2, <2>3 DEF TypeOK, Device, Looked, Positions
<1>7. EndsFlushed
  BY <1>1, <1>2 DEF Watched, EndsFlushed
<1> QED BY <1>4, <1>5, <1>6, <1>7 DEF BuffersAgree

(* The semaphores agree with the positions of both buffers, whoever is     *)
(* between its wait and its signal.                                        *)
THEOREM BuffersAgreeHolds == Spec => []BuffersAgree
<1>1. IInv => BuffersAgree
  BY BuffersFollow
<1> QED BY <1>1, Invariant, PTL

(* main() ends with nothing in the output buffer, unless a program stores  *)
(* a character while main() compares the positions for the last time, or   *)
(* the buffer was full then (kernelcons.cpp:89-92, main.cpp:70-74).        *)
THEOREM EndsFlushedHolds == Spec => []EndsFlushed
<1>1. IInv => EndsFlushed
  BY BuffersFollow
<1> QED BY <1>1, Invariant, PTL

-----------------------------------------------------------------------------
(* What the refinement needs of sequences.                                 *)
LEMMA JoinAppend ==
  ASSUME NEW S, NEW p \in Seq(S), NEW q \in Seq(S), NEW c \in S
  PROVE  p \o Append(q, c) = Append(p \o q, c)
<1>1. PICK a, b, d : a = Append(q, c) /\ b = p \o q /\ d = Append(b, c)
  OBVIOUS
<1>2. /\ a \in Seq(S) /\ Len(a) = Len(q) + 1 /\ a[Len(q) + 1] = c
      /\ \A i \in 1 .. Len(q) : a[i] = q[i]
  BY <1>1, AppendProperties
<1>3. /\ b \in Seq(S) /\ Len(b) = Len(p) + Len(q)
      /\ \A i \in 1 .. Len(p) + Len(q) : b[i] = IF i <= Len(p) THEN p[i] ELSE q[i - Len(p)]
  BY <1>1, ConcatProperties
<1>4. /\ d \in Seq(S) /\ Len(d) = Len(b) + 1 /\ d[Len(b) + 1] = c
      /\ \A i \in 1 .. Len(b) : d[i] = b[i]
  BY <1>1, <1>3, AppendProperties
<1>5. PICK e : e = p \o a
  OBVIOUS
<1>6. /\ e \in Seq(S) /\ Len(e) = Len(p) + Len(a)
      /\ \A i \in 1 .. Len(p) + Len(a) : e[i] = IF i <= Len(p) THEN p[i] ELSE a[i - Len(p)]
  <2>1. a \in Seq(S)
    BY <1>2
  <2> QED BY <1>5, <2>1, ConcatProperties
<1>7. PICK m \in Nat, n \in Nat : m = Len(p) /\ n = Len(q)
  <2>1. Len(p) \in Nat /\ Len(q) \in Nat
    BY LenProperties
  <2> QED BY <2>1
<1>8. Len(e) = m + n + 1 /\ Len(d) = m + n + 1
  BY <1>2, <1>3, <1>4, <1>6, <1>7
<1>9. ASSUME NEW i \in 1 .. m + n + 1 PROVE e[i] = d[i]
  <2>1. CASE i <= m
    <3>1. i \in 1 .. m + (n + 1) /\ i \in 1 .. m + n
      BY <1>7, <2>1
    <3>2. e[i] = p[i]
      BY <1>2, <1>6, <1>7, <2>1, <3>1
    <3>3. d[i] = b[i] /\ b[i] = p[i]
      BY <1>3, <1>4, <1>7, <2>1, <3>1
    <3> QED BY <3>2, <3>3
  <2>2. CASE i > m /\ i <= m + n
    <3>1. i - m \in 1 .. n /\ ~(i <= m)
      BY <1>7, <2>2
    <3>2. e[i] = a[i - m] /\ d[i] = b[i] /\ b[i] = q[i - m]
      BY <1>2, <1>3, <1>4, <1>6, <1>7, <2>2, <3>1
    <3> QED BY <1>2, <1>7, <3>1, <3>2
  <2>3. CASE i = m + n + 1
    <3>1. i - m = n + 1 /\ ~(i <= m)
      BY <1>7, <2>3
    <3>2. e[i] = a[n + 1]
      BY <1>2, <1>6, <1>7, <3>1
    <3>3. d[i] = c
      BY <1>3, <1>4, <1>7, <2>3
    <3> QED BY <1>2, <1>7, <3>2, <3>3
  <2> QED BY <1>7, <2>1, <2>2, <2>3
<1>10. e = d
  BY <1>4, <1>6, <1>8, <1>9, SeqEqual
<1> QED BY <1>1, <1>5, <1>10

LEMMA JoinTail ==
  ASSUME NEW S, NEW p \in Seq(S), NEW q \in Seq(S), p # <<>>
  PROVE  p \o q # <<>> /\ Head(p \o q) = Head(p) /\ Tail(p \o q) = Tail(p) \o q
<1>1. PICK a, t, b, d : a = p \o q /\ t = Tail(p) /\ b = Tail(a) /\ d = t \o q
  OBVIOUS
<1>2. PICK m \in Nat \ {0}, n \in Nat : m = Len(p) /\ n = Len(q)
  BY LenProperties, EmptySeq
<1>3. /\ a \in Seq(S) /\ Len(a) = m + n
      /\ \A i \in 1 .. m + n : a[i] = IF i <= m THEN p[i] ELSE q[i - m]
  BY <1>1, <1>2, ConcatProperties
<1>4. /\ t \in Seq(S) /\ Len(t) = m - 1 /\ Head(p) = p[1]
      /\ \A i \in 1 .. m - 1 : t[i] = p[i + 1]
  BY <1>1, <1>2, HeadTailProperties
<1>5. a # <<>>
  BY <1>2, <1>3, EmptySeq
<1>6. /\ b \in Seq(S) /\ Len(b) = m + n - 1 /\ Head(a) = a[1]
      /\ \A i \in 1 .. m + n - 1 : b[i] = a[i + 1]
  BY <1>1, <1>3, <1>5, HeadTailProperties
<1>7. /\ d \in Seq(S) /\ Len(d) = m - 1 + n
      /\ \A i \in 1 .. m - 1 + n : d[i] = IF i <= m - 1 THEN t[i] ELSE q[i - (m - 1)]
  BY <1>1, <1>2, <1>4, ConcatProperties
<1>8. ASSUME NEW i \in 1 .. m + n - 1 PROVE b[i] = d[i]
  <2>1. i \in 1 .. m - 1 + n /\ i + 1 \in 1 .. m + n /\ (i + 1) - m = i - (m - 1)
    BY <1>2
  <2>2. CASE i <= m - 1
    <3>1. i \in 1 .. m - 1 /\ i + 1 <= m
      BY <1>2, <2>2
    <3>2. b[i] = p[i + 1] /\ t[i] = p[i + 1]
      BY <1>3, <1>4, <1>6, <2>1, <3>1
    <3>3. d[i] = t[i]
      BY ONLY <1>7, <2>1, <2>2
    <3> QED BY ONLY <3>2, <3>3
  <2>3. CASE ~(i <= m - 1)
    <3>1. ~(i + 1 <= m)
      BY <1>2, <2>3
    <3>2. a[i + 1] = q[(i + 1) - m]
      BY ONLY <1>3, <2>1, <3>1
    <3>3. d[i] = q[i - (m - 1)]
      BY ONLY <1>7, <2>1, <2>3
    <3> QED BY ONLY <1>6, <2>1, <3>2, <3>3
  <2> QED BY <2>2, <2>3
<1>9. Len(b) = Len(d) /\ \A i \in 1 .. Len(b) : b[i] = d[i]
  <2>1. m + n - 1 = m - 1 + n
    BY <1>2
  <2> QED BY ONLY <1>6, <1>7, <1>8, <2>1
<1>10. b = d
  BY <1>6, <1>7, <1>9, SeqEqual
<1>11. a[1] = p[1]
  BY <1>2, <1>3
<1> QED BY <1>1, <1>4, <1>5, <1>6, <1>10, <1>11

One(c) == <<c>>

LEMMA OneIs ==
  ASSUME NEW S, NEW c \in S
  PROVE  /\ One(c) \in Seq(S) /\ Len(One(c)) = 1 /\ One(c)[1] = c /\ One(c) # <<>>
         /\ Head(One(c)) = c /\ Tail(One(c)) = <<>> /\ Append(<<>>, c) = One(c)
<1>1. One(c) \in Seq(S) /\ Len(One(c)) = 1 /\ One(c)[1] = c
  BY DEF One
<1>2. One(c) # <<>>
  BY <1>1, EmptySeq
<1>3. Head(One(c)) = c
  BY DEF One
<1>4. Tail(One(c)) = <<>>
  <2>1. PICK o, t : o = One(c) /\ t = Tail(o)
    BY <1>1
  <2>2. o \in Seq(S) /\ o # <<>> /\ Len(o) = 1
    BY <1>1, <1>2, <2>1
  <2>3. t \in Seq(S) /\ Len(t) = 0
    BY <2>1, <2>2, HeadTailProperties
  <2> QED BY <2>1, <2>3, EmptySeq
<1>5. Append(<<>>, c) = One(c)
  <2>1. PICK a : a = Append(<<>>, c)
    OBVIOUS
  <2>2. <<>> \in Seq(S) /\ Len(<<>>) = 0
    BY EmptySeq
  <2>3. a \in Seq(S) /\ Len(a) = 0 + 1 /\ a[0 + 1] = c
    BY <2>1, <2>2, AppendProperties
  <2>4. Len(a) = Len(One(c)) /\ \A i \in 1 .. Len(a) : a[i] = One(c)[i]
    BY <1>1, <2>3
  <2> QED BY <1>1, <2>1, <2>3, <2>4, SeqEqual
<1> QED BY <1>1, <1>2, <1>3, <1>4, <1>5

(* The first of the second sequence becomes the last of the first one.     *)
LEMMA JoinMove ==
  ASSUME NEW S, NEW p \in Seq(S), NEW q \in Seq(S), q # <<>>
  PROVE  One(Head(q)) \o Tail(q) = q /\ Append(p, Head(q)) \o Tail(q) = p \o q
<1>1. PICK h, t : h = Head(q) /\ t = Tail(q)
  OBVIOUS
<1>2. PICK n \in Nat \ {0} : n = Len(q)
  BY EmptySeq
<1>3. /\ h \in S /\ t \in Seq(S) /\ Len(t) = n - 1 /\ h = q[1]
      /\ \A i \in 1 .. n - 1 : t[i] = q[i + 1]
  BY <1>1, <1>2, HeadTailProperties
<1>4. One(h) \in Seq(S) /\ Len(One(h)) = 1 /\ One(h)[1] = h
  BY <1>3, OneIs
<1>5. PICK r : r = One(h) \o t
  OBVIOUS
<1>6. /\ r \in Seq(S) /\ Len(r) = 1 + (n - 1)
      /\ \A i \in 1 .. 1 + (n - 1) : r[i] = IF i <= 1 THEN One(h)[i] ELSE t[i - 1]
  <2>1. PICK o \in Seq(S) : o = One(h)
    BY <1>4
  <2>2. t \in Seq(S) /\ r = o \o t /\ Len(o) = 1 /\ Len(t) = n - 1
    BY <1>3, <1>4, <1>5, <2>1
  <2>3. /\ r \in Seq(S) /\ Len(r) = Len(o) + Len(t)
        /\ \A i \in 1 .. Len(o) + Len(t) : r[i] = IF i <= Len(o) THEN o[i] ELSE t[i - Len(o)]
    BY <2>2, ConcatProperties
  <2> QED BY <2>1, <2>2, <2>3
<1>7. ASSUME NEW i \in 1 .. n PROVE r[i] = q[i]
  <2>1. CASE i = 1
    BY <1>2, <1>3, <1>4, <1>6, <2>1
  <2>2. CASE i # 1
    <3>1. i - 1 \in 1 .. n - 1 /\ (i - 1) + 1 = i /\ ~(i <= 1) /\ i \in 1 .. 1 + (n - 1)
      BY <1>2, <2>2
    <3> QED BY <1>3, <1>6, <3>1
  <2> QED BY <2>1, <2>2
<1>8. r = q
  <2>1. Len(r) = Len(q) /\ \A i \in 1 .. Len(r) : r[i] = q[i]
    BY <1>2, <1>6, <1>7
  <2> QED BY <1>6, <2>1, SeqEqual
<1>9. Append(p, h) \o t = p \o q
  <2>1. Append(p, h) = p \o One(h)
    <3>1. p \o Append(<<>>, h) = Append(p \o <<>>, h) /\ <<>> \in Seq(S)
      BY <1>3, EmptySeq, JoinAppend
    <3>2. p \o <<>> = p /\ One(h) = Append(<<>>, h)
      BY <1>3, OneIs, ConcatEmptySeq
    <3> QED BY ONLY <3>1, <3>2
  <2>2. (p \o One(h)) \o t = p \o (One(h) \o t)
    <3>1. p \in Seq(S) /\ One(h) \in Seq(S) /\ t \in Seq(S)
      BY ONLY p \in Seq(S), <1>3, <1>4
    <3> QED BY ONLY <3>1, ConcatAssociative, SMTT(30)
  <2> QED BY ONLY <1>5, <1>8, <2>1, <2>2
<1> QED BY <1>1, <1>5, <1>8, <1>9

-----------------------------------------------------------------------------
(* The refinement: what a thread is in, and what the kernel holds.         *)
NoCall     == <<"none">>
GetCall    == <<"get">>
PutCall(c) == <<"put", c>>
Said(l, c) == CASE l = "put" -> PutCall(c)
                [] l = "get" -> GetCall
                [] OTHER     -> NoCall
Calls      == [t \in Users |-> Said(pc[t], arg[t])]
Sent(c)    == IF c = NoChar THEN <<>> ELSE One(c)

LEMMA SaidIs ==
  ASSUME NEW c
  PROVE  Said("user", c) = NoCall /\ Said("put", c) = PutCall(c) /\ Said("get", c) = GetCall
  BY DEF Said

(* Only the calls of a thread that steps change.                           *)
LEMMA CallsMove ==
  ASSUME NEW t \in Users, \A u \in Users \ {t} : pc'[u] = pc[u] /\ arg'[u] = arg[u]
  PROVE  Calls' = [Calls EXCEPT ![t] = Said(pc'[t], arg'[t])]
  BY DEF Calls

LEMMA CallsStay ==
  ASSUME \A u \in Users : pc'[u] = pc[u] /\ arg'[u] = arg[u]
  PROVE  Calls' = Calls
  BY DEF Calls

LEMMA HoldsAre ==
  /\ Outgoing = Sent(thr) \o Out /\ Incoming = Inp \o fifo
  /\ Outgoing' = Sent(thr') \o Out' /\ Incoming' = Inp' \o fifo'
<1>1. /\ OutCount = Count(sem, pc, "txFull") /\ InCount = Count(sem, pc, "rxBuff")
      /\ OutCount' = Count(sem', pc', "txFull") /\ InCount' = Count(sem', pc', "rxBuff")
  BY CountsTold DEF OutCount, InCount, InState, In
<1>2. Outgoing = Sent(thr) \o Out /\ Incoming = Inp \o fifo
  BY <1>1 DEF Outgoing, Incoming, Out, Inp, Sent, One
<1>3. Outgoing' = Sent(thr') \o Out' /\ Incoming' = Inp' \o fifo'
  BY <1>1 DEF Outgoing, Incoming, Out, Inp, Sent, One
<1> QED BY <1>2, <1>3

LEMMA HoldsTyped ==
  ASSUME IInv
  PROVE  /\ Out \in Seq(Chars) /\ Inp \in Seq(Chars) /\ fifo \in Seq(Chars)
         /\ Sent(thr) \in Seq(Chars)
<1>1. Out \in Seq(Chars) /\ Inp \in Seq(Chars)
  BY ContentIs DEF IInv, Rings, Out, Inp
<1>2. Sent(thr) \in Seq(Chars)
  BY OneIs, EmptySeq DEF IInv, Device, Sent
<1> QED BY <1>1, <1>2 DEF IInv, Device

(* The steps of the terminal.                                              *)
LEMMA IsCall ==
  ASSUME NEW t \in Users, Calls[t] = NoCall,
         NEW c \in {GetCall} \cup {PutCall(d) : d \in Chars}, Calls' = [Calls EXCEPT ![t] = c],
         result' = [result EXCEPT ![t] = NoChar],
         Outgoing' = Outgoing, shown' = shown, Incoming' = Incoming
  PROVE  Term!TerminalNext
<1>1. Term!Call(t)
  BY DEF Term!Call, Term!None, Calls, InCall, Said, NoCall, GetCall, PutCall
<1> QED BY <1>1 DEF Term!TerminalNext

LEMMA IsAccept ==
  ASSUME NEW t \in Users, NEW c \in Chars, Calls[t] \in {NoCall, PutCall(c)},
         Calls' = [Calls EXCEPT ![t] = NoCall], result' = [result EXCEPT ![t] = NoChar],
         Outgoing' = Append(Outgoing, c), shown' = shown, Incoming' = Incoming
  PROVE  Term!TerminalNext
<1>1. Term!Accept(t)
  BY DEF Term!Accept, Term!None, Calls, InCall, Said, NoCall, GetCall, PutCall
<1> QED BY <1>1 DEF Term!TerminalNext

LEMMA IsHandOut ==
  ASSUME NEW t \in Users, Calls[t] \in {NoCall, GetCall}, Incoming # <<>>,
         Calls' = [Calls EXCEPT ![t] = NoCall],
         result' = [result EXCEPT ![t] = Head(Incoming)], Incoming' = Tail(Incoming),
         Outgoing' = Outgoing, shown' = shown
  PROVE  Term!TerminalNext
<1>1. Term!HandOut(t)
  BY DEF Term!HandOut, Term!None, Calls, InCall, Said, NoCall, GetCall, PutCall
<1> QED BY <1>1 DEF Term!TerminalNext

LEMMA IsShow ==
  ASSUME Outgoing # <<>>, shown' = Head(Outgoing), Outgoing' = Tail(Outgoing),
         Calls' = Calls, result' = result, Incoming' = Incoming
  PROVE  Term!TerminalNext
<1>1. Term!Show
  BY DEF Term!Show, Calls, InCall, Said, NoCall, GetCall, PutCall
<1> QED BY <1>1 DEF Term!TerminalNext

LEMMA IsType ==
  ASSUME NEW c \in Chars, Incoming' = Append(Incoming, c),
         Calls' = Calls, result' = result, Outgoing' = Outgoing, shown' = shown
  PROVE  Term!TerminalNext
<1>1. Term!Type
  BY DEF Term!Type, Calls, InCall, Said, NoCall, GetCall, PutCall
<1> QED BY <1>1 DEF Term!TerminalNext

LEMMA IsStutter ==
  ASSUME Calls' = Calls, result' = result, Outgoing' = Outgoing, shown' = shown,
         Incoming' = Incoming
  PROVE  UNCHANGED Term!terminalVars
  BY DEF Term!terminalVars, Calls, InCall, Said, NoCall, GetCall, PutCall

-----------------------------------------------------------------------------
(* Every step of the console is one of the terminal, or none.              *)
LEMMA PutsAccept ==
  ASSUME IInv, NEW t \in Users, NEW c \in Chars, Calls[t] \in {NoCall, PutCall(c)},
         Goes(pc, pc', t, "user"), arg' = [arg EXCEPT ![t] = NoChar],
         result' = [result EXCEPT ![t] = NoChar], UNCHANGED devVars,
         Out' = Append(Out, c), Inp' = Inp
  PROVE  Term!TerminalNext
<1>1. /\ Semaphores(sem, pc) /\ Device /\ t \in Threads
  BY Names DEF IInv
<1>2. pc'[t] = "user" /\ \A u \in Users \ {t} : pc'[u] = pc[u] /\ arg'[u] = arg[u]
  BY <1>1, Gone, Names DEF Device
<1>3. Calls' = [Calls EXCEPT ![t] = NoCall]
  BY <1>2, CallsMove, SaidIs
<1>4. thr' = thr /\ fifo' = fifo /\ shown' = shown
  BY DEF devVars
<1>5. Outgoing' = Append(Outgoing, c) /\ Incoming' = Incoming
  <2>1. Sent(thr) \o Append(Out, c) = Append(Sent(thr) \o Out, c)
    BY HoldsTyped, JoinAppend
  <2> QED BY <1>4, <2>1, HoldsAre
<1> QED BY <1>3, <1>4, <1>5, IsAccept

LEMMA PutcIs ==
  ASSUME IInv, NEW t \in Users, NEW c \in CharsOf[t], putc(t, c)
  PROVE  Term!TerminalNext
<1>1. /\ Semaphores(sem, pc) /\ Device /\ t \in Threads /\ c \in Chars
  BY Names, PutcKeeps DEF IInv
<1>2. pc[t] = "user" /\ UNCHANGED devVars /\ Inp' = Inp
  BY <1>1, RunsFree, PutcKeeps DEF putc
<1>3. Calls[t] = NoCall
  BY <1>2, SaidIs DEF Calls
<1>4. CASE sem["txBuff"].val > 0
  <2>1. /\ Goes(pc, pc', t, "user") /\ arg' = [arg EXCEPT ![t] = NoChar]
        /\ result' = [result EXCEPT ![t] = NoChar]
    BY <1>4 DEF putc, PutInto, Goes
  <2>2. Out' = Append(Out, c)
    BY <1>4, PutcKeeps
  <2> QED BY <1>1, <1>2, <1>3, <2>1, <2>2, PutsAccept
<1>5. CASE ~(sem["txBuff"].val > 0)
  <2>1. /\ Goes(pc, pc', t, "put") /\ arg' = [arg EXCEPT ![t] = c]
        /\ result' = [result EXCEPT ![t] = NoChar]
    BY <1>5 DEF putc, WaitThen, Goes
  <2>2. Out' = Out
    BY <1>5, PutcKeeps
  <2>3. /\ pc'[t] = "put" /\ arg'[t] = c
        /\ \A u \in Users \ {t} : pc'[u] = pc[u] /\ arg'[u] = arg[u]
    BY <1>1, <2>1, Gone, Names DEF Device
  <2>4. Calls' = [Calls EXCEPT ![t] = PutCall(c)]
    BY <2>3, CallsMove, SaidIs
  <2>5. Outgoing' = Outgoing /\ Incoming' = Incoming /\ shown' = shown
    BY <1>2, <2>2, HoldsAre DEF devVars
  <2> QED BY <1>1, <1>3, <2>1, <2>4, <2>5, IsCall
<1> QED BY <1>4, <1>5

LEMMA PutcResumedIs ==
  ASSUME IInv, NEW t \in Users, putcResumed(t)
  PROVE  Term!TerminalNext
<1>1. arg[t] \in Chars /\ Out' = Append(Out, arg[t]) /\ Inp' = Inp
  BY PutcResumedKeeps
<1>2. /\ Goes(pc, pc', t, "user") /\ arg' = [arg EXCEPT ![t] = NoChar]
      /\ result' = [result EXCEPT ![t] = NoChar] /\ UNCHANGED devVars
  BY DEF putcResumed, PutInto, Goes
<1>3. pc[t] = "put"
  BY Names, RunsFree DEF putcResumed
<1>4. Calls[t] = PutCall(arg[t])
  BY <1>3, SaidIs DEF Calls
<1> QED BY <1>1, <1>2, <1>4, PutsAccept

LEMMA GetsHandOut ==
  ASSUME IInv, NEW t \in Users, Calls[t] \in {NoCall, GetCall}, Goes(pc, pc', t, "user"),
         UNCHANGED <<arg, devVars>>, Inp # <<>>,
         result' = [result EXCEPT ![t] = Head(Inp)], Inp' = Tail(Inp), Out' = Out
  PROVE  Term!TerminalNext
<1>1. Semaphores(sem, pc) /\ t \in Threads
  BY Names DEF IInv
<1>2. pc'[t] = "user" /\ \A u \in Users \ {t} : pc'[u] = pc[u] /\ arg'[u] = arg[u]
  BY <1>1, Gone, Names
<1>3. Calls' = [Calls EXCEPT ![t] = NoCall]
  BY <1>2, CallsMove, SaidIs
<1>4. thr' = thr /\ fifo' = fifo /\ shown' = shown
  BY DEF devVars
<1>5. Outgoing' = Outgoing
  BY <1>4, HoldsAre
<1>6. Incoming # <<>> /\ Head(Inp) = Head(Incoming) /\ Incoming' = Tail(Incoming)
  BY <1>4, HoldsAre, HoldsTyped, JoinTail
<1> QED BY <1>3, <1>4, <1>5, <1>6, IsHandOut

LEMMA GetcIs ==
  ASSUME IInv, NEW t \in Users, getc(t)
  PROVE  Term!TerminalNext
<1>1. /\ Semaphores(sem, pc) /\ t \in Threads
  BY Names DEF IInv
<1>2. pc[t] = "user" /\ UNCHANGED <<arg, devVars>> /\ Out' = Out
  BY <1>1, RunsFree, GetcKeeps DEF getc
<1>3. Calls[t] = NoCall
  BY <1>2, SaidIs DEF Calls
<1>4. CASE sem["rxBuff"].val > 0
  <2>1. /\ Goes(pc, pc', t, "user") /\ result' = [result EXCEPT ![t] = input_buff[inpHead]]
    BY <1>4 DEF getc, GetFrom, Goes
  <2>2. Inp # <<>> /\ input_buff[inpHead] = Head(Inp) /\ Inp' = Tail(Inp)
    BY <1>4, GetcKeeps
  <2> QED BY <1>2, <1>3, <2>1, <2>2, GetsHandOut
<1>5. CASE ~(sem["rxBuff"].val > 0)
  <2>1. Goes(pc, pc', t, "get") /\ result' = [result EXCEPT ![t] = NoChar]
    BY <1>5 DEF getc, WaitThen, Goes
  <2>2. Inp' = Inp
    BY <1>5, GetcKeeps
  <2>3. pc'[t] = "get" /\ \A u \in Users \ {t} : pc'[u] = pc[u] /\ arg'[u] = arg[u]
    BY <1>1, <1>2, <2>1, Gone, Names
  <2>4. Calls' = [Calls EXCEPT ![t] = GetCall]
    BY <2>3, CallsMove, SaidIs
  <2>5. Outgoing' = Outgoing /\ Incoming' = Incoming /\ shown' = shown
    BY <1>2, <2>2, HoldsAre DEF devVars
  <2> QED BY <1>3, <2>1, <2>4, <2>5, IsCall
<1> QED BY <1>4, <1>5

LEMMA GetcResumedIs ==
  ASSUME IInv, NEW t \in Users, getcResumed(t)
  PROVE  Term!TerminalNext
<1>1. /\ Out' = Out /\ Inp # <<>> /\ input_buff[inpHead] = Head(Inp) /\ Inp' = Tail(Inp)
  BY GetcResumedKeeps
<1>2. /\ Goes(pc, pc', t, "user") /\ result' = [result EXCEPT ![t] = input_buff[inpHead]]
      /\ UNCHANGED <<arg, devVars>>
  BY DEF getcResumed, GetFrom, Goes
<1>3. pc[t] = "get"
  BY Names, RunsFree DEF getcResumed
<1>4. Calls[t] = GetCall
  BY <1>3, SaidIs DEF Calls
<1> QED BY <1>1, <1>2, <1>4, GetsHandOut

(* The threads of the kernel: what they move stays in its order.           *)
LEMMA KernelStays ==
  ASSUME IInv, NEW t \in {putcThread, getcThread}, NEW l, Goes(pc, pc', t, l),
         UNCHANGED <<arg, result, shown>>,
         Outgoing' = Outgoing, Incoming' = Incoming
  PROVE  UNCHANGED Term!terminalVars
<1>1. Semaphores(sem, pc) /\ t \in Threads /\ t \notin Users
  BY Names DEF IInv
<1>2. \A u \in Users : pc'[u] = pc[u] /\ arg'[u] = arg[u]
  BY <1>1, Gone, Names
<1>3. Calls' = Calls
  BY <1>2, CallsStay
<1> QED BY <1>3, IsStutter

LEMMA ConsoleWaitsStutter ==
  ASSUME IInv, consoleputWait \/ consoleputReady \/ consolegetWait \/ consolegetReady
  PROVE  UNCHANGED Term!terminalVars
<1>1. Out' = Out /\ Inp' = Inp
  BY ConsoleWaitsKeep
<1>2. UNCHANGED <<arg, result, shown>> /\ thr' = thr /\ fifo' = fifo
  BY DEF consoleputWait, consoleputReady, consolegetWait, consolegetReady, devVars
<1>3. Outgoing' = Outgoing /\ Incoming' = Incoming
  BY <1>1, <1>2, HoldsAre
<1>4. CASE consoleputWait \/ consoleputReady
  <2>1. PICK l : Goes(pc, pc', putcThread, l)
    BY <1>4 DEF consoleputWait, consoleputReady, WaitThen, Goes
  <2> QED BY <1>2, <1>3, <2>1, KernelStays
<1>5. CASE consolegetWait \/ consolegetReady
  <2>1. PICK l : Goes(pc, pc', getcThread, l)
    BY <1>5 DEF consolegetWait, consolegetReady, WaitThen, Goes
  <2> QED BY <1>2, <1>3, <2>1, KernelStays
<1> QED BY <1>4, <1>5

LEMMA ConsoleputWriteStutters ==
  ASSUME IInv, consoleputWrite
  PROVE  UNCHANGED Term!terminalVars
<1>1. /\ Inp' = Inp /\ thr = NoChar /\ thr' \in Chars
      /\ Out # <<>> /\ thr' = Head(Out) /\ Out' = Tail(Out)
  BY ConsoleputWriteKeeps
<1>2. UNCHANGED <<arg, result, shown>> /\ fifo' = fifo /\ Goes(pc, pc', putcThread, "ready")
  BY DEF consoleputWrite, Goes
<1>3. Sent(thr) = <<>> /\ Sent(thr') = One(Head(Out))
  BY <1>1, ConsoleAssumption DEF Sent
<1>4. Outgoing' = Outgoing
  <2>1. One(Head(Out)) \o Tail(Out) = Out
    BY <1>1, HoldsTyped, JoinMove
  <2>2. <<>> \o Out = Out
    BY HoldsTyped, ConcatEmptySeq
  <2> QED BY <1>1, <1>3, <2>1, <2>2, HoldsAre
<1>5. Incoming' = Incoming
  BY <1>1, <1>2, HoldsAre
<1> QED BY <1>2, <1>4, <1>5, KernelStays

LEMMA ConsolegetReadStutters ==
  ASSUME IInv, consolegetRead
  PROVE  UNCHANGED Term!terminalVars
<1>1. /\ Out' = Out /\ fifo # <<>> /\ fifo' = Tail(fifo) /\ Inp' = Append(Inp, Head(fifo))
  BY ConsolegetReadKeeps
<1>2. UNCHANGED <<arg, result, shown>> /\ thr' = thr /\ Goes(pc, pc', getcThread, "loop")
  BY DEF consolegetRead, Goes
<1>3. Incoming' = Incoming
  <2>1. Append(Inp, Head(fifo)) \o Tail(fifo) = Inp \o fifo
    BY <1>1, HoldsTyped, JoinMove
  <2> QED BY <1>1, <2>1, HoldsAre
<1>4. Outgoing' = Outgoing
  BY <1>1, <1>2, HoldsAre
<1> QED BY <1>2, <1>3, <1>4, KernelStays

(* The end of a program, and steps of none.                                *)
LEMMA ExitStutters ==
  ASSUME IInv, exit
  PROVE  UNCHANGED Term!terminalVars
<1>1. Out' = Out /\ Inp' = Inp
  BY ExitKeeps
<1>2. UNCHANGED <<arg, result, shown>> /\ thr' = thr /\ fifo' = fifo
  BY DEF exit, devVars
<1>3. Outgoing' = Outgoing /\ Incoming' = Incoming
  BY <1>1, <1>2, HoldsAre
<1>4. /\ Semaphores(sem, pc) /\ usermainThread \in Threads
      /\ pc[usermainThread] = "user" /\ Goes(pc, pc', usermainThread, "finished")
  BY Names, ConsoleAssumption, RunsFree DEF IInv, exit, Goes
<1>5. \A u \in Users : Said(pc'[u], arg'[u]) = Said(pc[u], arg[u])
  BY <1>2, <1>4, Gone, Names DEF Said
<1>6. Calls' = Calls
  BY <1>5 DEF Calls
<1> QED BY <1>2, <1>3, <1>6, IsStutter

LEMMA InterruptStutters ==
  ASSUME IInv, consoleInterrupt \/ flushLoad \/ flushAgain \/ mc_sstatus
  PROVE  UNCHANGED Term!terminalVars
<1>1. Out' = Out /\ Inp' = Inp
  BY InterruptKeeps, FlushLoadKeeps, FlushAgainKeeps, EndKeeps
<1>2. UNCHANGED <<pc, arg, result, shown>> /\ thr' = thr /\ fifo' = fifo
  BY DEF consoleInterrupt, flushLoad, flushAgain, mc_sstatus, devVars
<1>3. Outgoing' = Outgoing /\ Incoming' = Incoming
  BY <1>1, <1>2, HoldsAre
<1>4. Calls' = Calls
  BY <1>2, CallsStay
<1> QED BY <1>2, <1>3, <1>4, IsStutter

LEMMA TransmitShows ==
  ASSUME IInv, transmit
  PROVE  Term!TerminalNext
<1>1. Out' = Out /\ Inp' = Inp /\ thr \in Chars /\ shown' = thr /\ thr' = NoChar
  BY TransmitKeeps
<1>2. UNCHANGED <<pc, arg, result>> /\ fifo' = fifo
  BY DEF transmit
<1>3. Sent(thr) = One(thr) /\ Sent(thr') = <<>>
  BY <1>1, ConsoleAssumption DEF Sent
<1>4. Incoming' = Incoming /\ Calls' = Calls
  BY <1>1, <1>2, HoldsAre, CallsStay
<1>5. /\ One(thr) # <<>> /\ Head(One(thr)) = thr /\ Tail(One(thr)) = <<>>
      /\ One(thr) \in Seq(Chars)
  BY <1>1, OneIs
<1>6. Outgoing # <<>> /\ shown' = Head(Outgoing) /\ Outgoing' = Tail(Outgoing)
  <2>1. PICK p \in Seq(Chars) : p = One(thr)
    BY <1>5
  <2>2. p \o Out # <<>> /\ Head(p \o Out) = Head(p) /\ Tail(p \o Out) = Tail(p) \o Out
    BY <1>5, <2>1, HoldsTyped, JoinTail
  <2> QED BY <1>1, <1>3, <1>5, <2>1, <2>2, HoldsAre
<1> QED BY <1>2, <1>4, <1>6, IsShow

LEMMA ReceiveTypes ==
  ASSUME IInv, receive
  PROVE  Term!TerminalNext
<1>1. Out' = Out /\ Inp' = Inp
  BY ReceiveKeeps
<1>2. PICK c \in Chars : fifo' = Append(fifo, c)
  BY ReceiveKeeps
<1>3. UNCHANGED <<pc, arg, result, shown>> /\ thr' = thr
  BY DEF receive
<1>4. Outgoing' = Outgoing /\ Calls' = Calls
  BY <1>1, <1>3, HoldsAre, CallsStay
<1>5. Incoming' = Append(Incoming, c)
  <2>1. Inp \o Append(fifo, c) = Append(Inp \o fifo, c)
    BY HoldsTyped, JoinAppend
  <2> QED BY <1>1, <1>2, <2>1, HoldsAre
<1> QED BY <1>3, <1>4, <1>5, IsType

LEMMA InitIsTerminal == Init => Term!TerminalInit
<1> SUFFICES ASSUME Init PROVE Term!TerminalInit
  OBVIOUS
<1>1. IInv
  BY InitHolds
<1>2. Count(sem, pc, "txFull") = 0 /\ Count(sem, pc, "rxBuff") = 0
  <2>1. sem["txFull"].val = 0 /\ sem["rxBuff"].val = 0
    BY DEF Init, Sems
  <2>2. pc[putcThread] = "loop" /\ \A t \in Users : pc[t] = "user"
    BY Names DEF Init
  <2>3. {t \in Users : pc[t] = "get"} = {} /\ Cardinality({}) = 0
    BY <2>2, FS_EmptySet
  <2>4. Cardinality({t \in Users : pc[t] = "get"}) = 0
    BY Zenon, <2>3
  <2>5. /\ Count(sem, pc, "txFull") = sem["txFull"].val + InState(putcThread, "write")
        /\ Count(sem, pc, "rxBuff") = sem["rxBuff"].val
                                       + Cardinality({t \in Users : pc[t] = "get"})
    BY CountsTold DEF InState
  <2>6. InState(putcThread, "write") = 0
    BY <2>2 DEF InState
  <2> QED BY <2>1, <2>4, <2>5, <2>6
<1>3. Out = <<>> /\ Inp = <<>>
  <2>1. Out \in Seq(Chars) /\ Len(Out) = 0 /\ Inp \in Seq(Chars) /\ Len(Inp) = 0
    BY <1>1, <1>2, ContentIs DEF IInv, Rings, Out, Inp
  <2> QED BY <2>1, EmptySeq
<1>4. Outgoing = <<>> /\ Incoming = <<>>
  <2>1. Sent(thr) = <<>> /\ fifo = <<>> /\ <<>> \in Seq(Chars)
    BY EmptySeq DEF Init, Sent
  <2> QED BY <1>3, <2>1, HoldsAre, ConcatEmptySeq
<1>5. \A t \in Users : pc[t] = "user"
  BY Names DEF Init
<1> QED BY <1>4, <1>5 DEF Init, Term!TerminalInit, Term!None, InCall

LEMMA StepsAreTerminal == IInv /\ [Next]_vars => [Term!TerminalNext]_(Term!terminalVars)
<1> SUFFICES ASSUME IInv, [Next]_vars PROVE Term!TerminalNext \/ UNCHANGED Term!terminalVars
  OBVIOUS
<1>1. ASSUME NEW t \in Users, NEW c \in CharsOf[t], putc(t, c) PROVE Term!TerminalNext
  BY <1>1, PutcIs
<1>2. ASSUME NEW t \in Users, putcResumed(t) PROVE Term!TerminalNext
  BY <1>2, PutcResumedIs
<1>3. ASSUME NEW t \in Users, getc(t) PROVE Term!TerminalNext
  BY <1>3, GetcIs
<1>4. ASSUME NEW t \in Users, getcResumed(t) PROVE Term!TerminalNext
  BY <1>4, GetcResumedIs
<1>5. CASE consoleputWait \/ consoleputReady \/ consolegetWait \/ consolegetReady
  BY <1>5, ConsoleWaitsStutter
<1>6. CASE consoleputWrite
  BY <1>6, ConsoleputWriteStutters
<1>7. CASE consolegetRead
  BY <1>7, ConsolegetReadStutters
<1>8. CASE consoleInterrupt \/ flushLoad \/ flushAgain \/ mc_sstatus
  BY <1>8, InterruptStutters
<1>9. CASE transmit
  BY <1>9, TransmitShows
<1>10. CASE receive
  BY <1>10, ReceiveTypes
<1>11. CASE exit
  BY <1>11, ExitStutters
<1>12. CASE UNCHANGED vars
  <2>1. Calls' = Calls
    BY <1>12, CallsStay DEF vars
  <2>2. Outgoing' = Outgoing /\ Incoming' = Incoming
    BY <1>12 DEF vars, bufVars, devVars, Outgoing, Incoming, OutCount, InCount, InState, In
  <2> QED BY <1>12, <2>1, <2>2, IsStutter DEF vars, devVars
<1> QED
  BY <1>1, <1>2, <1>3, <1>4, <1>5, <1>6, <1>7, <1>8, <1>9, <1>10, <1>11, <1>12 DEF Next

(* putc and getc are a terminal: no character is lost, doubled or          *)
(* overtaken, on its way out or in (kernelcons.cpp:41-105).                *)
THEOREM ImplementsTerminalHolds == Spec => ImplementsTerminal
BY InitIsTerminal, StepsAreTerminal, Invariant, PTL DEF Spec, ImplementsTerminal, Term!TerminalSpec
=============================================================================
