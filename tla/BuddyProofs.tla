---------------------------- MODULE BuddyProofs ----------------------------
(***************************************************************************)
(* Proofs about the buddy allocator, for a heap of any order.              *)
(*                                                                         *)
(* A block of order k is known by its number: the page q is in the block   *)
(* with the number q \div 2^k.  With numbers, splitting and merging are    *)
(* facts about halves: two blocks of order k are buddies if they have the  *)
(* same number at order k + 1, and a page that shares a block of order k   *)
(* with another shares all larger ones.  The first part proves these facts *)
(* (induction and the powers of two are in QueueProofs); the second part is *)
(* what getIndex and the list operations do; the third the invariant, one  *)
(* lemma for alloc and one for free; the last what follows from it.        *)
(***************************************************************************)
EXTENDS Buddy, QueueProofs, FiniteSetTheorems, TLAPS

-----------------------------------------------------------------------------
(* Division.  Num(q, k) is the number of the block of order k that has the *)
(* page q, when the blocks of that order are counted from the left.        *)
Num(q, k)     == q \div 2^k
Aligned(a, k) == \E n \in Nat : a = n * 2^k

LEMMA Quotient ==
  ASSUME NEW a \in Nat, NEW d \in Nat \ {0}
  PROVE  /\ a \div d \in Nat /\ (a \div d) * d <= a /\ a < (a \div d + 1) * d
         /\ \A q \in Nat : q * d <= a /\ a < (q + 1) * d => a \div d = q
<1>1. a \div d \in Nat
  OBVIOUS
<1>2. d * (a \div d) <= a
  OBVIOUS
<1>3. a < d * ((a \div d) + 1)
  OBVIOUS
<1>4. ASSUME NEW q \in Nat, q * d <= a, a < (q + 1) * d PROVE a \div d = q
  BY <1>4
<1>5. \A x \in Nat : d * x = x * d
  OBVIOUS
<1> QED BY <1>1, <1>2, <1>3, <1>4, <1>5

LEMMA Halves ==
  ASSUME NEW a \in Nat
  PROVE  /\ a \div 2 \in Nat /\ a \in {2 * (a \div 2), 2 * (a \div 2) + 1}
         /\ \A b \in Nat : (2 * b) \div 2 = b /\ (2 * b + 1) \div 2 = b
<1>1. a \div 2 \in Nat
  OBVIOUS
<1>2. 2 * (a \div 2) <= a
  OBVIOUS
<1>3. a < 2 * (a \div 2) + 2
  OBVIOUS
<1>4. ASSUME NEW b \in Nat PROVE (2 * b) \div 2 = b /\ (2 * b + 1) \div 2 = b
  OBVIOUS
<1> QED BY <1>1, <1>2, <1>3, <1>4

LEMMA NumIsNat ==
  ASSUME NEW q \in Nat, NEW k \in Nat
  PROVE  /\ Num(q, k) \in Nat
         /\ Num(q, k) * 2^k <= q /\ q < (Num(q, k) + 1) * 2^k
         /\ \A n \in Nat : n * 2^k <= q /\ q < (n + 1) * 2^k => Num(q, k) = n
<1>1. PICK d \in Nat \ {0} : d = 2^k
  BY PowerPositive
<1> QED BY <1>1, Quotient DEF Num

(* Two blocks of an order make one of the next.                            *)
LEMMA NumHalves ==
  ASSUME NEW q \in Nat, NEW k \in Nat
  PROVE  Num(q, k + 1) = Num(q, k) \div 2
<1>1. PICK d \in Nat \ {0} : d = 2^k
  BY PowerPositive
<1>2. 2^(k + 1) = 2 * d
  BY <1>1, PowerDoubles
<1>3. PICK n \in Nat : n = Num(q, k)
  BY NumIsNat
<1>4. n * d <= q /\ q < (n + 1) * d
  BY <1>1, <1>3, NumIsNat
<1>5. PICK m \in Nat : m = n \div 2 /\ n \in {2 * m, 2 * m + 1}
  BY Halves
<1>6. (2 * m) * d = m * (2 * d) /\ (2 * m + 1) * d = m * (2 * d) + d
      /\ (2 * m + 2) * d = (m + 1) * (2 * d) /\ (m + 1) * (2 * d) = m * (2 * d) + 2 * d
  OBVIOUS
<1>7. m * (2 * d) \in Nat
  OBVIOUS
<1>8. m * (2 * d) <= q /\ q < (m + 1) * (2 * d)
  <2>1. CASE n = 2 * m
    <3>1. (n + 1) * d = m * (2 * d) + d
      BY <1>6, <2>1
    <3> QED BY <1>4, <1>6, <1>7, <2>1, <3>1
  <2>2. CASE n = 2 * m + 1
    <3>1. n * d = m * (2 * d) + d /\ n + 1 = 2 * m + 2
      BY <1>6, <2>2
    <3> QED BY <1>4, <1>6, <1>7, <3>1
  <2> QED BY <1>5, <2>1, <2>2
<1>9. Num(q, k + 1) = m
  <2>1. k + 1 \in Nat
    OBVIOUS
  <2> QED BY <1>2, <1>8, <2>1, NumIsNat
<1> QED BY <1>3, <1>5, <1>9

LEMMA AlignedSpan ==
  ASSUME NEW a \in Nat, NEW k \in Nat, Aligned(a, k)
  PROVE  /\ a = Num(a, k) * 2^k
         /\ \A q \in Nat : q \in a .. a + 2^k - 1 <=> Num(q, k) = Num(a, k)
<1>1. PICK d \in Nat \ {0} : d = 2^k
  BY PowerPositive
<1>2. PICK n \in Nat : a = n * d
  BY <1>1 DEF Aligned
<1>3. (n + 1) * d = n * d + d
  OBVIOUS
<1>4. Num(a, k) = n
  BY <1>1, <1>2, <1>3, NumIsNat
<1>5. ASSUME NEW q \in Nat, q \in a .. a + d - 1 PROVE Num(q, k) = n
  <2>1. n * d <= q /\ q < (n + 1) * d
    BY <1>2, <1>3, <1>5
  <2> QED BY <1>1, <2>1, NumIsNat
<1>6. ASSUME NEW q \in Nat, Num(q, k) = n PROVE q \in a .. a + d - 1
  <2>1. n * d <= q /\ q < (n + 1) * d
    BY <1>1, <1>6, NumIsNat
  <2> QED BY <1>2, <1>3, <2>1
<1> QED BY <1>1, <1>2, <1>4, <1>5, <1>6

(* An aligned block of order k + 1 in two.                                 *)
LEMMA LeftAndRight ==
  ASSUME NEW a \in Nat, NEW k \in Nat, Aligned(a, k + 1)
  PROVE  /\ Aligned(a, k) /\ Num(a, k) = 2 * Num(a, k + 1)
         /\ a + 2^k \in Nat /\ Aligned(a + 2^k, k) /\ Num(a + 2^k, k) = 2 * Num(a, k + 1) + 1
         /\ Num(a + 2^k, k + 1) = Num(a, k + 1)
<1>1. PICK d \in Nat \ {0} : d = 2^k
  BY PowerPositive
<1>2. 2^(k + 1) = 2 * d
  BY <1>1, PowerDoubles
<1>3. PICK n \in Nat : a = n * (2 * d)
  BY <1>2 DEF Aligned
<1>4. /\ n * (2 * d) = (2 * n) * d /\ (2 * n + 1) * d = (2 * n) * d + d
      /\ (2 * n + 2) * d = (2 * n) * d + 2 * d /\ 2 * n \in Nat /\ 2 * n + 1 \in Nat
      /\ a + d \in Nat
  OBVIOUS
<1>5. Aligned(a, k) /\ Aligned(a + d, k)
  BY <1>1, <1>3, <1>4 DEF Aligned
<1>6. Num(a, k) = 2 * n
  <2>1. (2 * n) * d <= a /\ a < (2 * n + 1) * d
    BY <1>3, <1>4
  <2> QED BY <1>1, <1>4, <2>1, NumIsNat
<1>7. Num(a + d, k) = 2 * n + 1
  <2>1. (2 * n + 1) * d <= a + d /\ a + d < (2 * n + 2) * d /\ (2 * n + 1) + 1 = 2 * n + 2
    BY <1>3, <1>4
  <2> QED BY <1>1, <1>4, <2>1, NumIsNat
<1>8. Num(a, k + 1) = n /\ Num(a + d, k + 1) = n
  <2>1. Num(a, k + 1) = Num(a, k) \div 2 /\ Num(a + d, k + 1) = Num(a + d, k) \div 2
    BY <1>4, NumHalves
  <2>2. (2 * n) \div 2 = n /\ (2 * n + 1) \div 2 = n
    BY Halves
  <2> QED BY ONLY <1>6, <1>7, <2>1, <2>2
<1> QED BY <1>1, <1>4, <1>5, <1>6, <1>7, <1>8

(* Two aligned buddies in one: the lower address is that of the whole.     *)
LEMMA Buddies ==
  ASSUME NEW a \in Nat, NEW b \in Nat, NEW k \in Nat, Aligned(a, k), Aligned(b, k),
         a < b, Num(a, k + 1) = Num(b, k + 1)
  PROVE  /\ Aligned(a, k + 1) /\ Num(a, k) # Num(b, k) /\ b = a + 2^k
         /\ \A q \in Nat : Num(q, k + 1) = Num(a, k + 1) <=>
                             Num(q, k) = Num(a, k) \/ Num(q, k) = Num(b, k)
<1>1. PICK d \in Nat \ {0} : d = 2^k
  BY PowerPositive
<1>2. 2^(k + 1) = 2 * d
  BY <1>1, PowerDoubles
<1>3. PICK n \in Nat, l \in Nat : n = Num(a, k) /\ l = Num(b, k)
  BY NumIsNat
<1>4. a = n * d /\ b = l * d
  BY <1>1, <1>3, AlignedSpan
<1>5. n < l
  <2>1. ~(l <= n)
    <3>1. l <= n => l * d <= n * d
      OBVIOUS
    <3> QED BY <1>4, <3>1
  <2> QED BY <2>1
<1>6. PICK m \in Nat : m = Num(a, k + 1)
  BY k + 1 \in Nat, NumIsNat
<1>7. n \div 2 = m /\ l \div 2 = m
  BY <1>3, <1>6, NumHalves
<1>8. n = 2 * m /\ l = 2 * m + 1
  BY <1>5, <1>7, Halves
<1>9. (2 * m) * d = m * (2 * d) /\ (2 * m + 1) * d = (2 * m) * d + d
  OBVIOUS
<1>10. ASSUME NEW q \in Nat
       PROVE  Num(q, k + 1) = m <=> Num(q, k) = n \/ Num(q, k) = l
  <2>1. Num(q, k) \in Nat /\ Num(q, k + 1) = Num(q, k) \div 2
    BY NumIsNat, NumHalves
  <2>2. PICK r \in Nat : r = Num(q, k)
    BY <2>1
  <2>3. r \in {2 * (r \div 2), 2 * (r \div 2) + 1} /\ r \div 2 \in Nat
    BY Halves
  <2>4. (2 * m) \div 2 = m /\ (2 * m + 1) \div 2 = m
    BY Halves
  <2>5. r \div 2 = m <=> r = 2 * m \/ r = 2 * m + 1
    BY ONLY <2>3, <2>4
  <2>6. Num(q, k + 1) = r \div 2
    BY ONLY <2>1, <2>2
  <2> QED BY <1>8, <2>2, <2>5, <2>6
<1>11. a = m * (2 * d) /\ b = a + d
  BY <1>4, <1>8, <1>9
<1>12. Aligned(a, k + 1)
  BY <1>2, <1>11 DEF Aligned
<1>13. Num(a, k) # Num(b, k)
  BY <1>3, <1>5
<1> QED BY <1>1, <1>3, <1>6, <1>10, <1>11, <1>12, <1>13

(* The blocks of higher orders are unions of those of lower ones.          *)
LEMMA SameAbove ==
  ASSUME NEW p \in Nat, NEW q \in Nat, NEW j \in Nat, NEW k \in Nat, j <= k,
         Num(p, j) = Num(q, j)
  PROVE  Num(p, k) = Num(q, k)
<1>1. PICK T : T = {i \in j .. k : Num(p, i) = Num(q, i)}
  OBVIOUS
<1>2. j \in T
  BY <1>1
<1>3. ASSUME NEW i \in j .. k, i \in T, i < k PROVE i + 1 \in T
  <2>1. i \in Nat /\ i + 1 \in j .. k
    BY <1>3
  <2> QED BY <1>1, <1>3, <2>1, NumHalves
<1>4. \A i \in j .. k : i \in T
  BY <1>2, <1>3, Up
<1> QED BY <1>1, <1>4

(* The heap has 2^(MAX_ORDER - k) blocks of order k.                       *)
LEMMA NumBound ==
  ASSUME NEW q \in Pages, NEW k \in Orders
  PROVE  /\ q \in Nat /\ k \in Nat /\ MAX_ORDER - k \in Nat
         /\ Num(q, k) \in 0 .. 2^(MAX_ORDER - k) - 1
         /\ Aligned(q, k) => q + 2^k <= 2^MAX_ORDER
<1>1. PICK d \in Nat \ {0} : d = 2^k
  BY PowerPositive DEF Orders
<1>2. MAX_ORDER \in Nat /\ k \in Nat /\ MAX_ORDER - k \in Nat /\ k + (MAX_ORDER - k) = MAX_ORDER
  BY BuddyAssumption DEF Orders
<1>3. PICK e \in Nat \ {0} : e = 2^(MAX_ORDER - k)
  BY <1>2, PowerPositive
<1>4. 2^MAX_ORDER = d * e
  BY <1>1, <1>2, <1>3, PowerSum
<1>5. q \in Nat /\ q < d * e
  BY <1>4 DEF Pages
<1>6. PICK n \in Nat : n = Num(q, k) /\ n * d <= q
  BY <1>1, <1>2, <1>5, NumIsNat
<1>7. n < e
  <2>1. e <= n => d * e <= n * d
    OBVIOUS
  <2> QED BY <1>5, <1>6, <2>1
<1>8. ASSUME Aligned(q, k) PROVE q + d <= d * e
  <2>1. q = n * d
    BY <1>1, <1>2, <1>5, <1>6, <1>8, AlignedSpan
  <2>2. (n + 1) * d = n * d + d /\ (n + 1) * d <= d * e
    BY <1>7
  <2> QED BY <2>1, <2>2
<1> QED BY <1>1, <1>2, <1>3, <1>4, <1>5, <1>6, <1>7, <1>8

-----------------------------------------------------------------------------
(* The number that getIndex gives a pair of buddies.                       *)
LEMMA IndexIs ==
  ASSUME NEW a \in Pages, NEW k \in Orders, HasBuddy(k)
  PROVE  getIndex(a, k) = 2^MAX_ORDER - 2^(MAX_ORDER - k) + Num(a, k + 1)
<1>1. MAX_ORDER \in Nat /\ PAGE_SHIFT = MAX_ORDER /\ k \in Nat /\ a \in Nat /\ k + 1 \in Nat
  BY BuddyAssumption, NumBound
<1>2. PICK c \in Nat \ {0}, d \in Nat \ {0} : c = 2^MAX_ORDER /\ d = 2^(k + 1)
  BY <1>1, PowerPositive
<1>3. 2^(MAX_ORDER + k + 1) = c * d
  <2>1. MAX_ORDER + k + 1 = MAX_ORDER + (k + 1)
    BY <1>1
  <2> QED BY <1>1, <1>2, <2>1, PowerSum
<1>4. PICK n \in Nat : n = Num(a, k + 1) /\ n * d <= a /\ a < (n + 1) * d
  BY <1>1, <1>2, NumIsNat
<1>5. n * (c * d) <= a * c /\ a * c < (n + 1) * (c * d)
  <2>1. n * (c * d) = (n * d) * c /\ (n + 1) * (c * d) = ((n + 1) * d) * c
    OBVIOUS
  <2>2. PICK l \in Nat, r \in Nat : l = n * d /\ r = (n + 1) * d
    OBVIOUS
  <2>3. l <= a /\ a < r
    BY <1>4, <2>2
  <2>4. l * c <= a * c
    BY <1>1, <2>3
  <2>5. a * c < r * c
    BY <1>1, <2>3
  <2> QED BY <2>1, <2>2, <2>4, <2>5
<1>6. (a * c) \div (c * d) = n
  <2>1. c * d \in Nat \ {0} /\ a * c \in Nat
    BY <1>1
  <2> QED BY <1>5, <2>1, Quotient
<1>7. getIndex(a, k) = 2^MAX_ORDER - 2^(MAX_ORDER - k)
                         + (a * 2^PAGE_SHIFT) \div 2^(MAX_ORDER + k + 1)
  BY DEF getIndex
<1> QED BY <1>1, <1>2, <1>3, <1>4, <1>6, <1>7

LEMMA IndexBounds ==
  ASSUME NEW a \in Pages, NEW k \in Orders, HasBuddy(k)
  PROVE  /\ 2^MAX_ORDER - 2^(MAX_ORDER - k) \in Nat
         /\ getIndex(a, k) \in 2^MAX_ORDER - 2^(MAX_ORDER - k)
                               .. 2^MAX_ORDER - 2^(MAX_ORDER - (k + 1)) - 1
<1>1. /\ MAX_ORDER \in Nat /\ k \in Nat /\ k + 1 \in Orders
      /\ MAX_ORDER - k \in Nat /\ MAX_ORDER - (k + 1) \in Nat
      /\ (MAX_ORDER - (k + 1)) + 1 = MAX_ORDER - k
  BY BuddyAssumption DEF HasBuddy, Orders
<1>2. PICK e \in Nat \ {0}, c \in Nat \ {0} : e = 2^(MAX_ORDER - (k + 1)) /\ c = 2^MAX_ORDER
  BY <1>1, PowerPositive
<1>3. 2^(MAX_ORDER - k) = 2 * e
  BY <1>1, <1>2, PowerDoubles
<1>4. 2 * e <= c
  BY <1>1, <1>2, <1>3, PowerGrows
<1>5. Num(a, k + 1) \in 0 .. e - 1
  BY <1>1, <1>2, NumBound
<1>6. getIndex(a, k) = c - 2 * e + Num(a, k + 1)
  BY <1>2, <1>3, IndexIs
<1> QED BY <1>2, <1>3, <1>4, <1>5, <1>6

LEMMA IndexTells ==
  ASSUME NEW a \in Pages, NEW k \in Orders, HasBuddy(k)
  PROVE  /\ getIndex(a, k) \in Indices
         /\ \A b \in Pages, j \in Orders : HasBuddy(j) =>
              (getIndex(a, k) = getIndex(b, j) <=> k = j /\ Num(a, k + 1) = Num(b, k + 1))
<1> DEFINE low(j) == 2^MAX_ORDER - 2^(MAX_ORDER - j)
<1>1. MAX_ORDER \in Nat /\ \A j \in Orders : j \in Nat /\ MAX_ORDER - j \in Nat
  BY BuddyAssumption DEF Orders
<1>2. \A j \in Orders : low(j) \in Int /\ 2^(MAX_ORDER - j) \in Nat \ {0} /\ 2^MAX_ORDER \in Nat
  BY <1>1, PowerPositive
<1>3. \A i, j \in Orders : i <= j => low(i) <= low(j)
  <2>1. ASSUME NEW i \in Orders, NEW j \in Orders, i <= j
        PROVE  2^(MAX_ORDER - j) <= 2^(MAX_ORDER - i)
    BY <1>1, <2>1, PowerGrows
  <2> QED BY <1>2, <2>1
<1>4. \A b \in Pages, j \in Orders : HasBuddy(j) =>
        /\ j + 1 \in Orders /\ low(j) \in Nat /\ getIndex(b, j) \in low(j) .. low(j + 1) - 1
        /\ getIndex(b, j) = low(j) + Num(b, j + 1) /\ Num(b, j + 1) \in Int
  <2>1. ASSUME NEW b \in Pages, NEW j \in Orders, HasBuddy(j)
        PROVE  /\ j + 1 \in Orders /\ low(j) \in Nat
               /\ getIndex(b, j) \in low(j) .. low(j + 1) - 1
               /\ getIndex(b, j) = low(j) + Num(b, j + 1) /\ Num(b, j + 1) \in Int
    <3>1. j + 1 \in Orders
      BY <1>1, <2>1 DEF HasBuddy, Orders
    <3>2. Num(b, j + 1) \in Int
      BY <3>1, NumBound, NumIsNat
    <3> QED BY <2>1, <3>1, <3>2, IndexIs, IndexBounds
  <2> QED BY <2>1
<1> HIDE DEF low
<1>5. getIndex(a, k) \in Indices
  <2>1. k + 1 \in Orders /\ low(k) \in Nat /\ getIndex(a, k) \in low(k) .. low(k + 1) - 1
    BY <1>4
  <2>2. low(k + 1) <= 2^MAX_ORDER
    BY <1>2, <2>1 DEF low
  <2> QED BY <1>2, <2>1, <2>2 DEF Indices
<1>6. ASSUME NEW b \in Pages, NEW j \in Orders, HasBuddy(j), getIndex(a, k) = getIndex(b, j)
      PROVE  k = j /\ Num(a, k + 1) = Num(b, k + 1)
  <2>1. /\ k \in Nat /\ j \in Nat /\ k + 1 \in Orders /\ j + 1 \in Orders
        /\ low(k) \in Int /\ low(j) \in Int /\ low(k + 1) \in Int /\ low(j + 1) \in Int
    BY <1>1, <1>2, <1>4, <1>6
  <2>2. /\ getIndex(a, k) \in low(k) .. low(k + 1) - 1
        /\ getIndex(a, k) \in low(j) .. low(j + 1) - 1
    BY <1>4, <1>6
  <2>3. ~(k < j)
    <3>1. k < j => low(k + 1) <= low(j)
      BY <1>3, <2>1
    <3> QED BY <2>1, <2>2, <3>1
  <2>4. ~(j < k)
    <3>1. j < k => low(j + 1) <= low(k)
      BY <1>3, <2>1
    <3> QED BY <2>1, <2>2, <3>1
  <2>5. k = j
    BY <2>1, <2>3, <2>4
  <2>6. /\ getIndex(a, k) = low(k) + Num(a, k + 1) /\ getIndex(b, k) = low(k) + Num(b, k + 1)
        /\ Num(a, k + 1) \in Int /\ Num(b, k + 1) \in Int
    BY <1>4, <2>5
  <2>7. PICK x \in Int, y \in Int, l \in Int :
          x = Num(a, k + 1) /\ y = Num(b, k + 1) /\ l = low(k)
    BY <2>1, <2>6
  <2>8. l + x = l + y
    BY <1>6, <2>5, <2>6, <2>7
  <2>9. x = y
    BY ONLY x \in Int, y \in Int, l \in Int, <2>8
  <2> QED BY ONLY <2>5, <2>7, <2>9
<1>7. ASSUME NEW b \in Pages, Num(a, k + 1) = Num(b, k + 1)
      PROVE  getIndex(a, k) = getIndex(b, k)
  BY <1>4, <1>7
<1> QED BY <1>5, <1>6, <1>7

-----------------------------------------------------------------------------
(* The node that coalesceBuddy stops at: one in the same pair, if the list *)
(* has one.                                                                *)
LEMMA PositionFound ==
  ASSUME NEW a, NEW k, NEW n \in Nat, n = Len(blocks[k])
  PROVE  LET pos == BuddyPosition(a, k)
         IN  \/ pos = 0 /\ \A i \in 1 .. n : getIndex(blocks[k][i], k) # getIndex(a, k)
             \/ pos \in 1 .. n /\ getIndex(blocks[k][pos], k) = getIndex(a, k)
<1>1. PICK I \in SUBSET Nat :
        I = {i \in 1 .. n : getIndex(blocks[k][i], k) = getIndex(a, k)}
  <2>1. {i \in 1 .. n : getIndex(blocks[k][i], k) = getIndex(a, k)} \subseteq Nat
    OBVIOUS
  <2> QED BY <2>1
<1>2. BuddyPosition(a, k) = IF I # {} THEN Min(I) ELSE 0
  BY <1>1 DEF BuddyPosition, SelectInSeq
<1>3. ASSUME I # {} PROVE Min(I) \in I
  <2>1. PICK l \in I : \A i \in I : l <= i
    BY <1>1, <1>3, Least
  <2>2. Min(I) \in I /\ \A i \in I : Min(I) <= i
    BY <2>1 DEF Min
  <2> QED BY <2>2
<1> QED BY <1>1, <1>2, <1>3

-----------------------------------------------------------------------------
(* Blocks, free or held, as sets of pages: a block of order k has the      *)
(* pages with its number.  A tiling is a set of blocks in which every page *)
(* has its one block.                                                      *)
Blk(a, k) == [addr |-> a, order |-> k]
Tiles     == {b \in Blocks : Aligned(b.addr, b.order)}
In(q, b)  == Num(q, b.order) = Num(b.addr, b.order)

Tiling(S) ==
  /\ S \subseteq Tiles
  /\ \A q \in Pages : \E b \in S : In(q, b) /\ \A c \in S : In(q, c) => c = b

(* The blocks on free lists.                                               *)
FreeSet(lists) == {b \in Blocks : b.addr \in Elements(lists[b.order])}

(* Some block of F is the n-th pair's at the order.                        *)
Half(F, k, n) == \E x \in Pages : Blk(x, k) \in F /\ Num(x, k + 1) = n

(* No two buddies in F.                                                    *)
Merged(F) ==
  \A k \in Orders : HasBuddy(k) =>
    \A x, y \in Pages :
      Blk(x, k) \in F /\ Blk(y, k) \in F /\ Num(x, k + 1) = Num(y, k + 1) => x = y

Bits(F, bits) ==
  \A k \in Orders : HasBuddy(k) =>
    \A a \in Pages : bits[getIndex(a, k)] = 1 <=> Half(F, k, Num(a, k + 1))

LEMMA BlkIs ==
  /\ \A a, k : Blk(a, k).addr = a /\ Blk(a, k).order = k
  /\ \A a \in Pages, k \in Orders : Blk(a, k) \in Blocks
  /\ \A b \in Blocks : b = Blk(b.addr, b.order) /\ b.addr \in Pages /\ b.order \in Orders
  /\ \A a, k, q : In(q, Blk(a, k)) <=> Num(q, k) = Num(a, k)
  /\ \A a \in Pages, k \in Orders : Blk(a, k) \in Tiles <=> Aligned(a, k)
  /\ \A a, k, x, j : Blk(a, k) = Blk(x, j) <=> a = x /\ k = j
<1>1. \A a, k : Blk(a, k).addr = a /\ Blk(a, k).order = k
  BY DEF Blk
<1>2. \A a \in Pages, k \in Orders : Blk(a, k) \in Blocks
  BY DEF Blk, Blocks
<1>3. \A b \in Blocks : b = Blk(b.addr, b.order) /\ b.addr \in Pages /\ b.order \in Orders
  BY DEF Blk, Blocks
<1>4. \A a, k, q : In(q, Blk(a, k)) <=> Num(q, k) = Num(a, k)
  BY <1>1 DEF In
<1>5. \A a \in Pages, k \in Orders : Blk(a, k) \in Tiles <=> Aligned(a, k)
  BY <1>1, <1>2 DEF Tiles
<1>6. \A a, k, x, j : Blk(a, k) = Blk(x, j) <=> a = x /\ k = j
  BY <1>1
<1> QED BY <1>1, <1>2, <1>3, <1>4, <1>5, <1>6

LEMMA Numbers ==
  /\ MAX_ORDER \in Nat /\ MAX_ORDER \in Orders
  /\ \A k \in Orders : k \in Nat /\ k + 1 \in Nat /\ k <= MAX_ORDER
  /\ \A k \in Orders : HasBuddy(k) => k + 1 \in Orders
  /\ \A q \in Pages : q \in Nat
<1>1. MAX_ORDER \in Nat
  BY BuddyAssumption
<1> QED BY <1>1, NumBound DEF Orders, HasBuddy, Pages

(* A page has one block in a tiling.                                       *)
LEMMA OneBlock ==
  ASSUME NEW S, Tiling(S), NEW q \in Pages
  PROVE  /\ \E b \in S : In(q, b)
         /\ \A b, c \in S : In(q, b) /\ In(q, c) => b = c
BY DEF Tiling

(* Some blocks of a tiling replaced by others with the same pages.         *)
LEMMA Retile ==
  ASSUME NEW S, Tiling(S), NEW R \in SUBSET S, NEW A \in SUBSET Tiles,
         \A q \in Pages : (\E b \in R : In(q, b)) <=> (\E b \in A : In(q, b)),
         \A q \in Pages : \A b, c \in A : In(q, b) /\ In(q, c) => b = c
  PROVE  Tiling((S \ R) \cup A) /\ \A b \in A : b \in S => b \in R
<1>1. (S \ R) \cup A \subseteq Tiles
  BY DEF Tiling
<1>2. ASSUME NEW q \in Pages
      PROVE  \E b \in (S \ R) \cup A : In(q, b) /\ \A c \in (S \ R) \cup A : In(q, c) => c = b
  <2>1. PICK b \in S : In(q, b) /\ \A c \in S : In(q, c) => c = b
    BY DEF Tiling
  <2>2. CASE b \in R
    <3>1. PICK d \in A : In(q, d)
      BY <2>1, <2>2
    <3>2. ASSUME NEW c \in (S \ R) \cup A, In(q, c) PROVE c = d
      <4>1. c \in A
        BY <2>1, <2>2, <3>2
      <4> QED BY <3>1, <3>2, <4>1
    <3> QED BY <3>1, <3>2
  <2>3. CASE b \notin R
    <3>1. ~ \E d \in A : In(q, d)
      BY <2>1, <2>3
    <3>2. b \in (S \ R) \cup A /\ \A c \in (S \ R) \cup A : In(q, c) => c = b
      BY <2>1, <2>3, <3>1
    <3> QED BY <2>1, <3>2
  <2> QED BY <2>2, <2>3
<1>3. ASSUME NEW b \in A, b \in S PROVE b \in R
  <2>1. b.addr \in Pages /\ In(b.addr, b)
    BY BlkIs DEF In, Tiles
  <2>2. PICK c \in R : In(b.addr, c)
    BY <2>1
  <2>3. c = b
    BY <1>3, <2>1, <2>2, OneBlock
  <2> QED BY <2>2, <2>3
<1> QED BY <1>1, <1>2, <1>3 DEF Tiling

(* The right half of an aligned block has the pages of the block that the  *)
(* left half has not.                                                      *)
LEMMA RightHalf ==
  ASSUME NEW p \in Pages, NEW k \in Orders, HasBuddy(k), Aligned(p, k + 1)
  PROVE  /\ p + 2^k \in Pages /\ Aligned(p + 2^k, k) /\ Num(p + 2^k, k + 1) = Num(p, k + 1)
         /\ \A q \in Pages : Num(q, k) = Num(p + 2^k, k) <=>
                               Num(q, k + 1) = Num(p, k + 1) /\ Num(q, k) # Num(p, k)
<1>1. p \in Nat /\ k \in Nat /\ k + 1 \in Nat /\ k + 1 \in Orders
  BY Numbers
<1>2. PICK d \in Nat \ {0} : d = 2^k
  BY <1>1, PowerPositive
<1>3. Aligned(p, k) /\ p + d \in Nat /\ Aligned(p + d, k) /\ Num(p + d, k + 1) = Num(p, k + 1)
  BY <1>1, <1>2, LeftAndRight
<1>4. p + d \in Pages
  <2>1. p + 2^(k + 1) <= 2^MAX_ORDER /\ 2^(k + 1) = 2 * d
    BY <1>1, <1>2, NumBound, PowerDoubles
  <2>2. 2^MAX_ORDER \in Nat
    BY Numbers, PowerDoubles
  <2> QED BY <1>1, <2>1, <2>2 DEF Pages
<1>5. p < p + d
  BY <1>1
<1>6. /\ Num(p, k) # Num(p + d, k)
      /\ \A q \in Nat : Num(q, k + 1) = Num(p, k + 1) <=>
                          Num(q, k) = Num(p, k) \/ Num(q, k) = Num(p + d, k)
  BY <1>1, <1>3, <1>5, Buddies
<1> QED BY <1>2, <1>3, <1>4, <1>6, Numbers

(* What separates a page from a block of order j in the block of order k   *)
(* around it: the order of the largest half that has the one but not the   *)
(* other.                                                                  *)
LEMMA LastSplit ==
  ASSUME NEW p \in Pages, NEW q \in Pages, NEW j \in Orders, NEW k \in Orders, j <= k,
         Num(q, k) = Num(p, k), Num(q, j) # Num(p, j)
  PROVE  \E i \in j .. k - 1 :
           i \in Orders /\ HasBuddy(i) /\ Num(q, i + 1) = Num(p, i + 1) /\ Num(q, i) # Num(p, i)
<1>1. j \in Nat /\ k \in Nat /\ k <= MAX_ORDER /\ MAX_ORDER \in Nat
  BY Numbers
<1>2. PICK D \in SUBSET Nat : D = {n \in j .. k : Num(q, n) = Num(p, n)}
  <2>1. {n \in j .. k : Num(q, n) = Num(p, n)} \subseteq Nat
    BY <1>1
  <2> QED BY <2>1
<1>3. k \in D
  BY <1>1, <1>2
<1>4. PICK n \in D : \A l \in D : n <= l
  BY <1>3, Least
<1>5. n \in j .. k /\ n # j /\ n \in Nat
  BY <1>2, <1>4
<1>6. n - 1 \in j .. k - 1 /\ (n - 1) + 1 = n /\ n - 1 \in j .. k /\ ~(n <= n - 1)
  BY <1>1, <1>5
<1>7. n - 1 \in Orders /\ HasBuddy(n - 1)
  BY <1>1, <1>6 DEF Orders, HasBuddy
<1>8. Num(q, n - 1) # Num(p, n - 1)
  BY <1>2, <1>4, <1>6
<1>9. Num(q, (n - 1) + 1) = Num(p, (n - 1) + 1)
  BY <1>2, <1>4, <1>6
<1> QED BY <1>6, <1>7, <1>8, <1>9

(* Two blocks that are each the other half of the one with p.              *)
LEMMA OtherHalf ==
  ASSUME NEW p \in Pages, NEW q \in Pages, NEW r \in Pages, NEW k \in Orders,
         Num(q, k + 1) = Num(p, k + 1), Num(r, k + 1) = Num(p, k + 1),
         Num(q, k) # Num(p, k), Num(r, k) # Num(p, k)
  PROVE  Num(q, k) = Num(r, k)
<1>1. p \in Nat /\ q \in Nat /\ r \in Nat /\ k \in Nat
  BY Numbers
<1>2. PICK x \in Nat, y \in Nat, z \in Nat :
        x = Num(p, k) /\ y = Num(q, k) /\ z = Num(r, k)
  BY <1>1, NumIsNat
<1>3. y \div 2 = x \div 2 /\ z \div 2 = x \div 2
  BY <1>1, <1>2, NumHalves
<1>4. /\ x \in {2 * (x \div 2), 2 * (x \div 2) + 1}
      /\ y \in {2 * (y \div 2), 2 * (y \div 2) + 1}
      /\ z \in {2 * (z \div 2), 2 * (z \div 2) + 1}
  BY Halves
<1>5. PICK m : m = x \div 2
  OBVIOUS
<1>6. x \in {2 * m, 2 * m + 1} /\ y \in {2 * m, 2 * m + 1} /\ z \in {2 * m, 2 * m + 1}
  BY <1>3, <1>4, <1>5
<1> QED BY <1>2, <1>6

(* The blocks into which splitBlock cuts: the one asked for and one right  *)
(* half of every order above.                                              *)
Rests(p, lower, upper) ==
  {d \in Blocks : d.order \in lower .. upper - 1 /\ d.addr = p + 2^d.order}

LEMMA RestsAre ==
  ASSUME NEW p \in Pages, NEW j \in Orders, NEW c \in Orders, j <= c, Aligned(p, c)
  PROVE  /\ \A k \in j .. c : k \in Orders /\ Aligned(p, k)
         /\ \A k \in j .. c - 1 :
              /\ k \in Orders /\ HasBuddy(k) /\ k + 1 \in j .. c /\ Aligned(p, k + 1)
              /\ Blk(p + 2^k, k) \in Rests(p, j, c) \cap Tiles
         /\ \A d \in Rests(p, j, c) : d = Blk(p + 2^d.order, d.order) /\ d.order \in j .. c - 1
<1>1. j \in Nat /\ c \in Nat /\ c <= MAX_ORDER /\ MAX_ORDER \in Nat /\ p \in Nat
  BY Numbers
<1>2. PICK T : T = {k \in j .. c : Aligned(p, k)}
  OBVIOUS
<1>3. c \in T
  BY <1>1, <1>2
<1>4. ASSUME NEW k \in j .. c, k \in T, k > j PROVE k - 1 \in T
  <2>1. k - 1 \in Nat /\ (k - 1) + 1 = k /\ k - 1 \in j .. c
    BY <1>1, <1>4
  <2>2. Aligned(p, (k - 1) + 1)
    BY <1>2, <1>4, <2>1
  <2>3. Aligned(p, k - 1)
    BY <1>1, <2>1, <2>2, LeftAndRight
  <2> QED BY <1>2, <2>1, <2>3
<1>5. \A k \in j .. c : k \in T
  BY <1>1, <1>3, <1>4, Down
<1>6. \A k \in j .. c : k \in Orders /\ Aligned(p, k)
  BY <1>1, <1>2, <1>5 DEF Orders
<1>7. ASSUME NEW k \in j .. c - 1
      PROVE  /\ k \in Orders /\ HasBuddy(k) /\ k + 1 \in j .. c /\ Aligned(p, k + 1)
             /\ Blk(p + 2^k, k) \in Rests(p, j, c) \cap Tiles
  <2>1. k \in j .. c /\ k + 1 \in j .. c /\ HasBuddy(k)
    BY <1>1, <1>7 DEF HasBuddy
  <2>2. p + 2^k \in Pages /\ Aligned(p + 2^k, k)
    BY <1>6, <2>1, RightHalf
  <2>3. Blk(p + 2^k, k) \in Tiles /\ Blk(p + 2^k, k) \in Blocks
    BY <1>6, <2>1, <2>2, BlkIs
  <2>4. Blk(p + 2^k, k) \in Rests(p, j, c)
    BY <2>3, BlkIs DEF Rests
  <2> QED BY <1>6, <2>1, <2>3, <2>4
<1>8. ASSUME NEW d \in Rests(p, j, c)
      PROVE  d = Blk(p + 2^d.order, d.order) /\ d.order \in j .. c - 1
  <2>1. d \in Blocks /\ d.order \in j .. c - 1 /\ d.addr = p + 2^d.order
    BY DEF Rests
  <2>2. d = Blk(d.addr, d.order)
    BY <2>1, BlkIs
  <2> QED BY <2>1, <2>2
<1> QED BY <1>6, <1>7, <1>8

LEMMA Splitting ==
  ASSUME NEW S, Tiling(S), NEW p \in Pages, NEW j \in Orders, NEW c \in Orders, j <= c,
         Blk(p, c) \in S
  PROVE  /\ Tiling((S \ {Blk(p, c)}) \cup ({Blk(p, j)} \cup Rests(p, j, c)))
         /\ \A b \in {Blk(p, j)} \cup Rests(p, j, c) : b \in S => b = Blk(p, c)
         /\ Blk(p, j) \in Tiles \ Rests(p, j, c)
<1> DEFINE A == {Blk(p, j)} \cup Rests(p, j, c)
<1>1. Aligned(p, c)
  BY BlkIs DEF Tiling
<1>2. j \in Nat /\ c \in Nat /\ p \in Nat
  BY Numbers
<1>3. A \subseteq Tiles
  <2>1. j \in j .. c
    BY <1>2
  <2>2. Blk(p, j) \in Tiles
    BY <1>1, <2>1, RestsAre, BlkIs
  <2>3. Rests(p, j, c) \subseteq Tiles
    BY <1>1, RestsAre
  <2> QED BY <2>2, <2>3
<1>4. ASSUME NEW k \in j .. c - 1
      PROVE  \A q \in Pages : In(q, Blk(p + 2^k, k)) <=>
                                Num(q, k + 1) = Num(p, k + 1) /\ Num(q, k) # Num(p, k)
  <2>1. k \in Orders /\ HasBuddy(k) /\ Aligned(p, k + 1)
    BY <1>1, RestsAre
  <2> QED BY <2>1, RightHalf, BlkIs
<1>5. ASSUME NEW q \in Pages
      PROVE  In(q, Blk(p, c)) <=> (\E b \in A : In(q, b))
  <2>1. ASSUME Num(q, c) = Num(p, c) PROVE \E b \in A : In(q, b)
    <3>1. CASE Num(q, j) = Num(p, j)
      <4>1. In(q, Blk(p, j)) /\ Blk(p, j) \in A
        BY <3>1, BlkIs
      <4> QED BY <4>1
    <3>2. CASE Num(q, j) # Num(p, j)
      <4>1. PICK i \in j .. c - 1 : Num(q, i + 1) = Num(p, i + 1) /\ Num(q, i) # Num(p, i)
        BY <2>1, <3>2, LastSplit
      <4>2. In(q, Blk(p + 2^i, i))
        BY <1>4, <4>1
      <4>3. Blk(p + 2^i, i) \in A
        BY <1>1, RestsAre
      <4> QED BY <4>2, <4>3
    <3> QED BY <3>1, <3>2
  <2>2. ASSUME NEW b \in A, In(q, b) PROVE Num(q, c) = Num(p, c)
    <3>1. CASE b = Blk(p, j)
      <4>1. Num(q, j) = Num(p, j) /\ q \in Nat
        BY <2>2, <3>1, BlkIs, Numbers
      <4> QED BY <1>2, <4>1, SameAbove
    <3>2. CASE b \in Rests(p, j, c)
      <4>1. PICK k \in j .. c - 1 : b = Blk(p + 2^k, k)
        BY <1>1, <3>2, RestsAre
      <4>2. Num(q, k + 1) = Num(p, k + 1) /\ q \in Nat
        BY <1>4, <2>2, <4>1, Numbers
      <4>3. k + 1 \in Nat /\ k + 1 <= c
        BY <1>2
      <4> QED BY <1>2, <4>2, <4>3, SameAbove
    <3> QED BY <3>1, <3>2
  <2> QED BY <2>1, <2>2, BlkIs
<1>6. ASSUME NEW q \in Pages, NEW k \in j .. c - 1, NEW i \in j .. c - 1, i < k,
             In(q, Blk(p + 2^k, k)), In(q, Blk(p + 2^i, i))
      PROVE  FALSE
  <2>1. Num(q, k) # Num(p, k) /\ Num(q, i + 1) = Num(p, i + 1) /\ q \in Nat
    BY <1>4, <1>6, Numbers
  <2>2. i + 1 \in Nat /\ k \in Nat /\ i + 1 <= k
    BY <1>2, <1>6
  <2> QED BY <1>2, <2>1, <2>2, SameAbove
<1>7. ASSUME NEW q \in Pages, NEW k \in j .. c - 1, In(q, Blk(p, j)), In(q, Blk(p + 2^k, k))
      PROVE  FALSE
  <2>1. Num(q, k) # Num(p, k) /\ Num(q, j) = Num(p, j) /\ q \in Nat
    BY <1>4, <1>7, Numbers, BlkIs
  <2>2. k \in Nat /\ j <= k
    BY <1>2
  <2> QED BY <1>2, <2>1, <2>2, SameAbove
<1>8. ASSUME NEW q \in Pages, NEW b \in A, NEW d \in A, In(q, b), In(q, d)
      PROVE  b = d
  <2>1. \A e \in A : e = Blk(p, j) \/ \E k \in j .. c - 1 : e = Blk(p + 2^k, k)
    BY <1>1, RestsAre
  <2>2. CASE b = Blk(p, j) \/ d = Blk(p, j)
    BY <1>7, <1>8, <2>1, <2>2
  <2>3. CASE b # Blk(p, j) /\ d # Blk(p, j)
    <3>1. PICK k \in j .. c - 1 : b = Blk(p + 2^k, k)
      BY <2>1, <2>3
    <3>2. PICK i \in j .. c - 1 : d = Blk(p + 2^i, i)
      BY <2>1, <2>3
    <3>3. ~(i < k) /\ ~(k < i)
      BY <1>6, <1>8, <3>1, <3>2
    <3>4. i = k
      BY <1>2, <3>3
    <3> QED BY <3>1, <3>2, <3>4
  <2> QED BY <2>2, <2>3
<1>9. Blk(p, j) \notin Rests(p, j, c)
  <2>1. SUFFICES ASSUME Blk(p, j) \in Rests(p, j, c) PROVE FALSE
    OBVIOUS
  <2>2. PICK k \in j .. c - 1 : Blk(p, j) = Blk(p + 2^k, k)
    BY <1>1, <2>1, RestsAre
  <2>3. In(p, Blk(p, j))
    BY BlkIs
  <2> QED BY <1>7, <2>2, <2>3
<1>10. PICK R \in SUBSET S : R = {Blk(p, c)}
  OBVIOUS
<1> HIDE DEF A
<1>11. Tiling((S \ R) \cup A) /\ \A b \in A : b \in S => b \in R
  <2>1. \A q \in Pages : (\E b \in R : In(q, b)) <=> (\E b \in A : In(q, b))
    BY <1>5, <1>10
  <2>2. \A q \in Pages : \A b, d \in A : In(q, b) /\ In(q, d) => b = d
    BY <1>8
  <2> QED BY <1>3, <2>1, <2>2, Retile
<1>12. j \in j .. c
  BY <1>2
<1>13. Blk(p, j) \in Tiles
  BY <1>1, <1>12, RestsAre, BlkIs
<1> QED BY <1>9, <1>10, <1>11, <1>13 DEF A

-----------------------------------------------------------------------------
(* The inductive invariant.  The free lists link pages, none twice; the    *)
(* blocks on them and those held tile the heap; no two buddies are both    *)
(* free; and the bit of a pair is set exactly when one of the two is.      *)
Linked(lists) ==
  /\ lists \in [Orders -> Seq(Pages)]
  /\ \A k \in Orders : Distinct(lists[k])

Apart(F, h) == h \cap F = {} /\ Tiling(h \cup F)

IInv ==
  /\ Linked(blocks)
  /\ bitmap \in [Indices -> {0, 1}]
  /\ Apart(FreeSet(blocks), held)
  /\ Merged(FreeSet(blocks))
  /\ Bits(FreeSet(blocks), bitmap)

LEMMA OnFreeList ==
  ASSUME NEW lists
  PROVE  /\ FreeSet(lists) \subseteq Blocks
         /\ \A x \in Pages, k \in Orders : Blk(x, k) \in FreeSet(lists) <=> x \in Elements(lists[k])
BY BlkIs DEF FreeSet

(* Elements of the lists as a set of blocks: what two families of lists    *)
(* that agree order by order have in common.                               *)
LEMMA FreeSetIs ==
  ASSUME NEW lists, NEW F \in SUBSET Blocks,
         \A k \in Orders, x \in Pages : x \in Elements(lists[k]) <=> Blk(x, k) \in F
  PROVE  FreeSet(lists) = F
<1>1. \A b \in Blocks : b \in FreeSet(lists) <=> b \in F
  <2>1. ASSUME NEW b \in Blocks PROVE b \in FreeSet(lists) <=> b \in F
    <3>1. PICK x \in Pages, k \in Orders : b = Blk(x, k)
      BY BlkIs
    <3> QED BY <3>1, OnFreeList
  <2> QED BY <2>1
<1> QED BY <1>1, OnFreeList

(* A set of pairs flipped that are the pairs of the page p at some orders. *)
Pairs(f, K) == {getIndex(f[k], k) : k \in K}

(* They are such pairs; and one of a pair is free after, or both or none   *)
(* of it, as it was not before, for these pairs and no others.             *)
PairsOf(f, K, p) ==
  \A k \in K : HasBuddy(k) /\ f[k] \in Pages /\ Num(f[k], k + 1) = Num(p, k + 1)
HalvesFlip(F, G, K, p) ==
  \A k \in Orders, a \in Pages : HasBuddy(k) =>
    (Half(G, k, Num(a, k + 1)) <=>
       ~(k \in K /\ Num(a, k + 1) = Num(p, k + 1) <=> Half(F, k, Num(a, k + 1))))

LEMMA FlippedBits ==
  ASSUME NEW F, NEW G, Bits(F, bitmap), bitmap \in [Indices -> {0, 1}],
         NEW p \in Pages, NEW K \in SUBSET Orders, NEW c, PairsOf(c, K, p),
         HalvesFlip(F, G, K, p), NEW bits, bits = flipBits(Pairs(c, K))
  PROVE  bits \in [Indices -> {0, 1}] /\ Bits(G, bits)
<1>1. PICK I : I = {getIndex(c[k], k) : k \in K}
  OBVIOUS
<1>2. bits = [i \in Indices |-> IF i \in I THEN 1 - bitmap[i] ELSE bitmap[i]]
  BY <1>1 DEF flipBits, Pairs
<1>3. bits \in [Indices -> {0, 1}]
  BY <1>2
<1>4. ASSUME NEW k \in Orders, HasBuddy(k), NEW a \in Pages
      PROVE  bits[getIndex(a, k)] = 1 <=> Half(G, k, Num(a, k + 1))
  <2>1. getIndex(a, k) \in Indices
    BY <1>4, IndexTells
  <2>2. bitmap[getIndex(a, k)] \in {0, 1}
    BY <2>1
  <2>3. bitmap[getIndex(a, k)] = 1 <=> Half(F, k, Num(a, k + 1))
    BY <1>4 DEF Bits
  <2>4. getIndex(a, k) \in I <=> k \in K /\ Num(a, k + 1) = Num(p, k + 1)
    <3>1. ASSUME NEW l \in K, getIndex(a, k) = getIndex(c[l], l)
          PROVE  k \in K /\ Num(a, k + 1) = Num(p, k + 1)
      <4>1. l \in Orders /\ HasBuddy(l) /\ c[l] \in Pages /\ Num(c[l], l + 1) = Num(p, l + 1)
        BY DEF PairsOf
      <4>2. k = l /\ Num(a, k + 1) = Num(c[l], k + 1)
        BY <1>4, <3>1, <4>1, IndexTells
      <4> QED BY <4>1, <4>2
    <3>2. ASSUME k \in K, Num(a, k + 1) = Num(p, k + 1)
          PROVE  getIndex(a, k) = getIndex(c[k], k)
      <4>1. c[k] \in Pages /\ Num(a, k + 1) = Num(c[k], k + 1)
        BY <3>2 DEF PairsOf
      <4> QED BY <1>4, <4>1, IndexTells
    <3> QED BY <1>1, <3>1, <3>2
  <2>5. bits[getIndex(a, k)] = 1 <=> ~(getIndex(a, k) \in I <=> bitmap[getIndex(a, k)] = 1)
    BY <1>2, <2>1, <2>2
  <2>6. Half(G, k, Num(a, k + 1)) <=>
          ~(k \in K /\ Num(a, k + 1) = Num(p, k + 1) <=> Half(F, k, Num(a, k + 1)))
    BY <1>4 DEF HalvesFlip
  <2> QED BY ONLY <2>3, <2>4, <2>5, <2>6
<1> QED BY <1>3, <1>4 DEF Bits

-----------------------------------------------------------------------------
(* What alloc makes of the lists.                                          *)
Split(p, c, j) == splitBlock(p, c, j, [blocks EXCEPT ![c] = Tail(@)])

LEMMA SplitLists ==
  ASSUME Linked(blocks), NEW j \in Orders, NEW c \in Orders, Serves(c, j),
         NEW p \in Pages, p = Head(blocks[c]), Aligned(p, c),
         NEW lists, lists = Split(p, c, j)
  PROVE  /\ Linked(lists) /\ j <= c /\ Blk(p, c) \in FreeSet(blocks)
         /\ \A k \in j .. c - 1, x \in Pages : Blk(x, k) \notin FreeSet(blocks)
         /\ FreeSet(lists) = (FreeSet(blocks) \ {Blk(p, c)}) \cup Rests(p, j, c)
<1>1. /\ j \in Nat /\ c \in Nat /\ j <= c /\ c <= MAX_ORDER /\ blocks[c] # <<>>
      /\ \A k \in j .. c - 1 : blocks[k] = <<>>
  BY Numbers DEF Serves
<1>2. blocks \in [Orders -> Seq(Pages)] /\ \A k \in Orders : Distinct(blocks[k])
  BY DEF Linked
<1>3. \A k \in j .. c - 1 : k \in Orders /\ p + 2^k \in Pages /\ Elements(blocks[k]) = {}
  <2>1. ASSUME NEW k \in j .. c - 1
        PROVE  k \in Orders /\ p + 2^k \in Pages /\ Elements(blocks[k]) = {}
    <3>1. k \in Orders /\ HasBuddy(k) /\ Aligned(p, k + 1)
      BY <1>1, RestsAre
    <3>2. blocks[k] = <<>> /\ Elements(<<>>) = {}
      BY <1>1 DEF Elements
    <3> QED BY <3>1, <3>2, RightHalf
  <2> QED BY <2>1
<1>4. /\ lists = [k \in Orders |-> lists[k]]
      /\ \A k \in j .. c - 1 : lists[k] = <<p + 2^k>> \o blocks[k]
      /\ lists[c] = Tail(blocks[c])
      /\ \A k \in Orders : k \notin j .. c => lists[k] = blocks[k]
  <2>1. PICK m : m = [blocks EXCEPT ![c] = Tail(@)]
    OBVIOUS
  <2>2. m[c] = Tail(blocks[c]) /\ \A k \in Orders : k # c => m[k] = blocks[k]
    BY <1>2, <2>1
  <2>3. lists = [k \in Orders |->
                   IF k \in j .. c - 1 THEN <<p + 2^k>> \o m[k] ELSE m[k]]
    BY <2>1 DEF Split, splitBlock
  <2>4. c \notin j .. c - 1 /\ \A k \in j .. c - 1 : k # c /\ k \in j .. c
    BY <1>1
  <2>5. \A k \in j .. c : k = c \/ k \in j .. c - 1
    BY <1>1
  <2>6. c \in j .. c
    BY <1>1
  <2>7. lists[c] = Tail(blocks[c])
    BY <2>2, <2>3, <2>4
  <2>8. \A k \in j .. c - 1 : lists[k] = <<p + 2^k>> \o blocks[k]
    BY <1>3, <2>2, <2>3, <2>4
  <2>9. \A k \in Orders : k \notin j .. c => lists[k] = blocks[k]
    BY <2>2, <2>3, <2>4, <2>6
  <2> QED BY <2>3, <2>7, <2>8, <2>9
<1>5. ASSUME NEW k \in j .. c - 1
      PROVE  lists[k] \in Seq(Pages) /\ Distinct(lists[k]) /\ Elements(lists[k]) = {p + 2^k}
  <2>1. /\ blocks[k] \in Seq(Pages) /\ Distinct(blocks[k]) /\ Elements(blocks[k]) = {}
        /\ p + 2^k \in Pages
    BY <1>2, <1>3
  <2>2. /\ <<p + 2^k>> \o blocks[k] \in Seq(Pages) /\ Distinct(<<p + 2^k>> \o blocks[k])
        /\ Elements(<<p + 2^k>> \o blocks[k]) = Elements(blocks[k]) \cup {p + 2^k}
    BY <2>1, PushElements
  <2> QED BY <1>4, <2>1, <2>2
<1>6. /\ lists[c] \in Seq(Pages) /\ Distinct(lists[c])
      /\ Elements(lists[c]) = Elements(blocks[c]) \ {p} /\ p \in Elements(blocks[c])
  <2>1. blocks[c] \in Seq(Pages) /\ Distinct(blocks[c])
    BY <1>2
  <2>2. /\ Tail(blocks[c]) \in Seq(Pages) /\ Distinct(Tail(blocks[c]))
        /\ Elements(blocks[c]) = Elements(Tail(blocks[c])) \cup {p}
        /\ p \notin Elements(Tail(blocks[c]))
    BY <1>1, <2>1, TailElements
  <2> QED BY <1>4, <2>2
<1>7. Linked(lists)
  <2>1. ASSUME NEW k \in Orders PROVE lists[k] \in Seq(Pages) /\ Distinct(lists[k])
    <3>1. CASE k \in j .. c - 1
      BY <1>5, <3>1
    <3>2. CASE k = c
      BY <1>6, <3>2
    <3>3. CASE k \notin j .. c
      BY <1>2, <1>4, <3>3
    <3> QED BY <1>1, <3>1, <3>2, <3>3
  <2>2. lists \in [Orders -> Seq(Pages)]
    BY <1>4, <2>1
  <2> QED BY <2>1, <2>2 DEF Linked
<1>8. Blk(p, c) \in FreeSet(blocks)
  BY <1>6, OnFreeList
<1>9. \A k \in j .. c - 1, x \in Pages : Blk(x, k) \notin FreeSet(blocks)
  BY <1>3, OnFreeList
<1>10. PICK F \in SUBSET Blocks : F = (FreeSet(blocks) \ {Blk(p, c)}) \cup Rests(p, j, c)
  <2>1. Rests(p, j, c) \subseteq Blocks
    BY DEF Rests
  <2> QED BY <2>1, OnFreeList
<1>11. \A k \in Orders, x \in Pages :
         Blk(x, k) \in Rests(p, j, c) <=> k \in j .. c - 1 /\ x = p + 2^k
  BY BlkIs DEF Rests
<1>12. ASSUME NEW k \in Orders, NEW x \in Pages
       PROVE  x \in Elements(lists[k]) <=> Blk(x, k) \in F
  <2>1. Blk(x, k) \in FreeSet(blocks) <=> x \in Elements(blocks[k])
    BY OnFreeList
  <2>2. Blk(x, k) = Blk(p, c) <=> x = p /\ k = c
    BY BlkIs
  <2>3. CASE k \in j .. c - 1
    <3>1. k # c /\ x \notin Elements(blocks[k]) /\ Elements(lists[k]) = {p + 2^k}
      BY <1>1, <1>3, <1>5, <2>3
    <3> QED BY <1>10, <1>11, <2>1, <2>2, <2>3, <3>1
  <2>4. CASE k = c
    <3>1. k \notin j .. c - 1
      BY <1>1, <2>4
    <3> QED BY <1>6, <1>10, <1>11, <2>1, <2>2, <2>4, <3>1
  <2>5. CASE k \notin j .. c
    <3>1. k \notin j .. c - 1 /\ k # c
      BY <1>1, <2>5
    <3> QED BY <1>4, <1>10, <1>11, <2>1, <2>2, <2>5, <3>1
  <2> QED BY <1>1, <2>3, <2>4, <2>5
<1>13. FreeSet(lists) = F
  BY <1>12, FreeSetIs
<1> QED BY <1>1, <1>7, <1>8, <1>9, <1>10, <1>13

(* alloc keeps the invariant.  On the way the facts that the refinement    *)
(* needs: the block that is handed out is aligned and none of its pages    *)
(* was held.                                                               *)
LEMMA AllocPreserves ==
  ASSUME IInv, NEW order \in Orders, alloc(order)
  PROVE  /\ IInv'
         /\ \E p \in Pages :
              /\ held' = held \cup {Blk(p, order)} /\ Blk(p, order) \in Tiles
              /\ \A q \in Pages, b \in held : In(q, Blk(p, order)) => ~In(q, b)
<1>1. PICK c \in Orders :
        /\ Serves(c, order)
        /\ blocks' = splitBlock(Head(blocks[c]), c, order, [blocks EXCEPT ![c] = Tail(@)])
        /\ bitmap' = flipBits({getIndex(Head(blocks[c]), k) :
                                 k \in {j \in order .. c : HasBuddy(j)}})
        /\ held' = held \cup {[addr |-> Head(blocks[c]), order |-> order]}
  BY DEF alloc
<1>2. PICK F, G : F = FreeSet(blocks) /\ G = FreeSet(blocks')
  OBVIOUS
<1>3. /\ Linked(blocks) /\ bitmap \in [Indices -> {0, 1}]
      /\ held \cap F = {} /\ Tiling(held \cup F) /\ Merged(F) /\ Bits(F, bitmap)
  BY <1>2 DEF IInv, Apart
<1>4. PICK p \in Pages : p = Head(blocks[c]) /\ Blk(p, c) \in F /\ Aligned(p, c)
  <2>1. blocks[c] \in Seq(Pages) /\ blocks[c] # <<>>
    BY <1>1, <1>3 DEF Linked, Serves
  <2>2. PICK p \in Pages : p = Head(blocks[c]) /\ p \in Elements(blocks[c])
    BY <2>1, TailElements
  <2>3. Blk(p, c) \in F
    BY <1>2, <2>2, OnFreeList
  <2>4. Aligned(p, c)
    BY <1>3, <2>3, BlkIs DEF Tiling
  <2> QED BY <2>2, <2>3, <2>4
<1>5. /\ Linked(blocks') /\ order <= c
      /\ \A k \in order .. c - 1, x \in Pages : Blk(x, k) \notin F
      /\ G = (F \ {Blk(p, c)}) \cup Rests(p, order, c)
  <2>1. PICK lists : lists = blocks'
    OBVIOUS
  <2>2. lists = Split(p, c, order) /\ Serves(c, order)
    BY <1>1, <1>4, <2>1 DEF Split
  <2>3. /\ Linked(lists) /\ order <= c
        /\ \A k \in order .. c - 1, x \in Pages : Blk(x, k) \notin FreeSet(blocks)
        /\ FreeSet(lists) = (FreeSet(blocks) \ {Blk(p, c)}) \cup Rests(p, order, c)
    <3>1. p = Head(blocks[c]) /\ Aligned(p, c) /\ Linked(blocks) /\ Serves(c, order)
      BY <1>3, <1>4, <2>2
    <3>2. lists = Split(p, c, order)
      BY <2>2
    <3> QED BY ONLY <3>1, <3>2, order \in Orders, c \in Orders, p \in Pages, SplitLists
  <2> QED BY <1>2, <2>1, <2>3
<1>6. held' = held \cup {Blk(p, order)}
  BY <1>1, <1>4 DEF Blk
<1>7. PICK S : S = held \cup F
  OBVIOUS
<1>8. /\ Tiling((S \ {Blk(p, c)}) \cup ({Blk(p, order)} \cup Rests(p, order, c)))
      /\ \A b \in {Blk(p, order)} \cup Rests(p, order, c) : b \in S => b = Blk(p, c)
      /\ Blk(p, order) \in Tiles \ Rests(p, order, c)
  BY <1>3, <1>4, <1>5, <1>7, Splitting
<1>9. Apart(G, held')
  <2>1. held' \cup G = (S \ {Blk(p, c)}) \cup ({Blk(p, order)} \cup Rests(p, order, c))
    BY <1>3, <1>4, <1>5, <1>6, <1>7
  <2>2. held' \cap G = {}
    BY <1>3, <1>4, <1>5, <1>6, <1>7, <1>8
  <2> QED BY <1>8, <2>1, <2>2 DEF Apart
<1>10. \A k \in Orders, x \in Pages :
         Blk(x, k) \in Rests(p, order, c) <=> k \in order .. c - 1 /\ x = p + 2^k
  BY BlkIs DEF Rests
<1>11. \A k \in Orders, x \in Pages :
         Blk(x, k) \in G <=>
           IF k \in order .. c - 1 THEN x = p + 2^k ELSE Blk(x, k) \in F /\ ~(k = c /\ x = p)
  BY <1>5, <1>10, BlkIs
<1>12. \A k \in order .. c - 1 :
         /\ k \in Orders /\ HasBuddy(k)
         /\ p + 2^k \in Pages /\ Num(p + 2^k, k + 1) = Num(p, k + 1)
  BY <1>4, <1>5, RestsAre, RightHalf
<1>13. Merged(G)
  <2>1. ASSUME NEW k \in Orders, HasBuddy(k), NEW x \in Pages, NEW y \in Pages,
               Blk(x, k) \in G, Blk(y, k) \in G, Num(x, k + 1) = Num(y, k + 1)
        PROVE  x = y
    <3>1. CASE k \in order .. c - 1
      BY <1>11, <2>1, <3>1
    <3>2. CASE k \notin order .. c - 1
      <4>1. Blk(x, k) \in F /\ Blk(y, k) \in F
        BY <1>11, <2>1, <3>2
      <4> QED BY <1>3, <2>1, <4>1 DEF Merged
    <3> QED BY <3>1, <3>2
  <2> QED BY <2>1 DEF Merged
<1>14. bitmap' \in [Indices -> {0, 1}] /\ Bits(G, bitmap')
  <2>1. PICK K \in SUBSET Orders : K = {j \in order .. c : HasBuddy(j)}
    <3>1. order .. c \subseteq Orders
      BY <1>4, <1>5, RestsAre
    <3> QED BY <3>1
  <2>2. PICK f : f = [k \in K |-> p]
    OBVIOUS
  <2>3. PairsOf(f, K, p)
    BY <2>1, <2>2 DEF PairsOf
  <2>4. bitmap' = flipBits({getIndex(f[k], k) : k \in K})
    <3>1. {getIndex(f[k], k) : k \in K} = {getIndex(p, k) : k \in K}
      BY <2>2
    <3> QED BY <1>1, <1>4, <2>1, <3>1
  <2>5. ASSUME NEW k \in Orders, NEW a \in Pages, HasBuddy(k)
        PROVE  Half(G, k, Num(a, k + 1)) <=>
                 ~(k \in K /\ Num(a, k + 1) = Num(p, k + 1) <=> Half(F, k, Num(a, k + 1)))
    <3>1. PICK n : n = Num(a, k + 1)
      OBVIOUS
    <3>2. CASE k \in order .. c - 1
      <4>1. k \in K
        BY <1>5, <2>1, <2>5, <3>2, Numbers
      <4>2. ~Half(F, k, n)
        BY <1>5, <3>2 DEF Half
      <4>3. Half(G, k, n) <=> n = Num(p, k + 1)
        BY <1>11, <1>12, <3>2 DEF Half
      <4> QED BY <3>1, <4>1, <4>2, <4>3
    <3>3. CASE k = c
      <4>1. k \in K /\ k \notin order .. c - 1
        BY <1>5, <2>1, <2>5, <3>3, Numbers
      <4>2. \A x \in Pages : Blk(x, k) \in G <=> Blk(x, k) \in F /\ x # p
        BY <1>11, <3>3, <4>1
      <4>3. Blk(p, k) \in F /\ \A x \in Pages : Blk(x, k) \in F /\ Num(x, k + 1) = Num(p, k + 1) => x = p
        BY <1>3, <1>4, <2>5, <3>3 DEF Merged
      <4>4. CASE n = Num(p, k + 1)
        <5>1. Half(F, k, n)
          BY <4>3, <4>4 DEF Half
        <5>2. ~Half(G, k, n)
          BY <4>2, <4>3, <4>4 DEF Half
        <5> QED BY <3>1, <4>1, <4>4, <5>1, <5>2
      <4>5. CASE n # Num(p, k + 1)
        <5>1. Half(G, k, n) <=> Half(F, k, n)
          BY <4>2, <4>5 DEF Half
        <5> QED BY <3>1, <4>5, <5>1
      <4> QED BY <4>4, <4>5
    <3>4. CASE k \notin order .. c
      <4>1. k \notin K /\ k \notin order .. c - 1 /\ k # c
        BY <1>5, <2>1, <3>4, Numbers
      <4>2. \A x \in Pages : Blk(x, k) \in G <=> Blk(x, k) \in F
        BY <1>11, <4>1
      <4>3. Half(G, k, n) <=> Half(F, k, n)
        BY <4>2 DEF Half
      <4> QED BY <3>1, <4>1, <4>3
    <3>5. k \in order .. c - 1 \/ k = c \/ k \notin order .. c
      <4>1. k \in Nat /\ c \in Nat /\ order \in Nat
        BY Numbers
      <4> QED BY <4>1
    <3> QED BY <3>2, <3>3, <3>4, <3>5
  <2>6. HalvesFlip(F, G, K, p)
    BY ONLY <2>5 DEF HalvesFlip
  <2>7. PICK bits : bits = bitmap'
    OBVIOUS
  <2>8. bits = flipBits(Pairs(f, K)) /\ Bits(F, bitmap)
    BY <1>3, <2>4, <2>7 DEF Pairs
  <2>9. bits \in [Indices -> {0, 1}] /\ Bits(G, bits)
    BY ONLY <1>3, <2>3, <2>6, <2>8, p \in Pages, K \in SUBSET Orders, FlippedBits
  <2> QED BY <2>7, <2>9
<1>15. ASSUME NEW q \in Pages, NEW b \in held, In(q, Blk(p, order)), In(q, b) PROVE FALSE
  <2>1. Num(q, order) = Num(p, order) /\ q \in Nat /\ p \in Nat /\ order \in Nat /\ c \in Nat
    BY <1>15, BlkIs, Numbers
  <2>2. Num(q, c) = Num(p, c)
    BY <1>5, <2>1, SameAbove
  <2>3. In(q, Blk(p, c))
    BY <2>2, BlkIs
  <2>4. b = Blk(p, c)
    BY <1>3, <1>4, <1>15, <2>3, OneBlock
  <2> QED BY <1>3, <1>4, <2>4
<1>16. IInv'
  BY <1>2, <1>5, <1>9, <1>13, <1>14 DEF IInv
<1>17. /\ held' = held \cup {Blk(p, order)} /\ Blk(p, order) \in Tiles
       /\ \A q \in Pages, b \in held : In(q, Blk(p, order)) => ~In(q, b)
  BY <1>6, <1>8, <1>15
<1> QED BY <1>16, <1>17

-----------------------------------------------------------------------------
(* The loop of free.  Carry(a, k) is what it carries to order k from a at  *)
(* the order below.                                                        *)
Carry(a, k) == IF a = NULL \/ ~isBuddyFree(a, k - 1) THEN NULL ELSE coalesceBuddy(a, k - 1)

LEMMA CarriedExists ==
  ASSUME NEW b \in Blocks
  PROVE  \E g : g = [k \in b.order .. MAX_ORDER |->
                       IF k = b.order THEN b.addr ELSE Carry(g[k - 1], k)]
<1>1. PICK o \in Nat : o = b.order /\ o <= MAX_ORDER /\ MAX_ORDER \in Nat
  BY BlkIs, Numbers
<1>2. PICK T : T = {n \in o .. MAX_ORDER :
        \E g : DOMAIN g = o .. n /\ g[o] = b.addr
               /\ \A k \in o .. n : k # o => g[k] = Carry(g[k - 1], k)}
  OBVIOUS
<1>3. o \in T
  <2>1. PICK g : g = [k \in o .. o |-> b.addr]
    OBVIOUS
  <2>2. DOMAIN g = o .. o /\ g[o] = b.addr /\ \A k \in o .. o : k = o
    BY <2>1
  <2>3. o \in o .. MAX_ORDER
    BY <1>1
  <2>4. \A k \in o .. o : k # o => g[k] = Carry(g[k - 1], k)
    BY <2>2
  <2> QED BY <1>2, <2>2, <2>3, <2>4
<1>4. ASSUME NEW n \in o .. MAX_ORDER, n \in T, n < MAX_ORDER PROVE n + 1 \in T
  <2>1. PICK g : /\ DOMAIN g = o .. n /\ g[o] = b.addr
                 /\ \A k \in o .. n : k # o => g[k] = Carry(g[k - 1], k)
    BY <1>2, <1>4
  <2>2. PICK h : h = [k \in o .. n + 1 |-> IF k = n + 1 THEN Carry(g[n], n + 1) ELSE g[k]]
    OBVIOUS
  <2>3. n \in Nat /\ n + 1 \in o .. MAX_ORDER /\ o \in o .. n /\ o # n + 1 /\ n + 1 \in o .. n + 1
    BY <1>1, <1>4
  <2>4. \A k \in o .. n + 1 : k \in Nat /\ (k # n + 1 => k \in o .. n) /\ (k # o => k - 1 \in o .. n)
    BY <1>1, <2>3
  <2>5. \A k \in o .. n : k # n + 1 /\ k \in o .. n + 1
    BY <1>1, <2>3
  <2>6. (n + 1) - 1 = n
    BY <2>3
  <2>7. \A k \in o .. n : h[k] = g[k]
    BY <2>2, <2>5
  <2>8. h[n + 1] = Carry(g[n], n + 1)
    BY <2>2, <2>3
  <2>9. ASSUME NEW k \in o .. n + 1, k # o PROVE h[k] = Carry(h[k - 1], k)
    <3>1. k - 1 \in o .. n
      BY <2>4, <2>9
    <3>2. h[k - 1] = g[k - 1]
      BY <2>7, <3>1
    <3>3. CASE k = n + 1
      BY <2>6, <2>8, <3>2, <3>3
    <3>4. CASE k # n + 1
      BY <2>1, <2>4, <2>7, <2>9, <3>2, <3>4
    <3> QED BY <3>3, <3>4
  <2>10. DOMAIN h = o .. n + 1 /\ h[o] = b.addr
    BY <2>1, <2>2, <2>3, <2>7
  <2> QED BY <1>2, <2>3, <2>9, <2>10
<1>5. \A n \in o .. MAX_ORDER : n \in T
  BY <1>1, <1>3, <1>4, Up
<1>6. PICK g : /\ DOMAIN g = o .. MAX_ORDER /\ g[o] = b.addr
               /\ \A k \in o .. MAX_ORDER : k # o => g[k] = Carry(g[k - 1], k)
  <2>1. MAX_ORDER \in o .. MAX_ORDER
    BY <1>1
  <2> QED BY <1>2, <1>5, <2>1
<1>7. PICK h : h = [k \in o .. MAX_ORDER |-> IF k = o THEN b.addr ELSE Carry(g[k - 1], k)]
  OBVIOUS
<1>8. \A k \in o .. MAX_ORDER : h[k] = g[k] /\ (k # o => k - 1 \in o .. MAX_ORDER)
  BY <1>1, <1>6, <1>7
<1>9. h = [k \in o .. MAX_ORDER |-> IF k = o THEN b.addr ELSE Carry(h[k - 1], k)]
  BY <1>7, <1>8
<1> QED BY <1>1, <1>9

LEMMA CarriedIs ==
  ASSUME NEW b \in Blocks, NEW g, g = Carried(b)
  PROVE  /\ g[b.order] = b.addr
         /\ \A k \in b.order .. MAX_ORDER : k # b.order => g[k] = Carry(g[k - 1], k)
<1>1. Carried(b) = CHOOSE h : h = [k \in b.order .. MAX_ORDER |->
                                     IF k = b.order THEN b.addr ELSE Carry(h[k - 1], k)]
  BY DEF Carried, Carry
<1>2. g = [k \in b.order .. MAX_ORDER |-> IF k = b.order THEN b.addr ELSE Carry(g[k - 1], k)]
  BY <1>1, CarriedExists
<1>3. b.order \in b.order .. MAX_ORDER
  <2>1. PICK o \in Nat : o = b.order /\ o <= MAX_ORDER /\ MAX_ORDER \in Nat
    BY BlkIs, Numbers
  <2>2. o \in o .. MAX_ORDER
    BY <2>1
  <2> QED BY <2>1, <2>2
<1> QED BY <1>2, <1>3

(* The buddy at order k of the block that free is called with, or rather   *)
(* of the block grown around it, is on the free list.                      *)
Full(b, F, k) == HasBuddy(k) /\ Half(F, k, Num(b.addr, k + 1))

(* The loop of free stops at order t.                                      *)
Stops(b, F, t) == ~Full(b, F, t) /\ \A k \in b.order .. t - 1 : Full(b, F, k)

(* The free blocks that are merged with b before order t.                  *)
Eaten(b, F, t) ==
  {d \in F : d.order \in b.order .. t - 1 /\ Num(d.addr, d.order + 1) = Num(b.addr, d.order + 1)}

(* The order at which the loop of free stops.                              *)
LEMMA StopOrder ==
  ASSUME NEW b \in Blocks, NEW F
  PROVE  \E t \in b.order .. MAX_ORDER :
           ~Full(b, F, t) /\ \A k \in b.order .. t - 1 : Full(b, F, k)
<1>1. PICK o \in Nat : o = b.order /\ o <= MAX_ORDER /\ MAX_ORDER \in Nat
  BY BlkIs, Numbers
<1>2. PICK D \in SUBSET Nat : D = {k \in o .. MAX_ORDER : ~Full(b, F, k)}
  <2>1. {k \in o .. MAX_ORDER : ~Full(b, F, k)} \subseteq Nat
    BY <1>1
  <2> QED BY <2>1
<1>3. MAX_ORDER \in D
  <2>1. ~HasBuddy(MAX_ORDER)
    BY <1>1 DEF HasBuddy
  <2>2. MAX_ORDER \in o .. MAX_ORDER
    BY <1>1
  <2> QED BY <1>2, <2>1, <2>2 DEF Full
<1>4. PICK t \in D : \A k \in D : t <= k
  BY <1>3, Least
<1>5. t \in o .. MAX_ORDER /\ ~Full(b, F, t)
  BY <1>2
<1>6. ASSUME NEW k \in o .. t - 1 PROVE Full(b, F, k)
  <2>1. k \in o .. MAX_ORDER /\ ~(t <= k)
    BY <1>1, <1>5
  <2> QED BY <1>2, <1>4, <2>1
<1> QED BY <1>1, <1>5, <1>6

(* A block that is freed has none of the pages of free blocks.             *)
LEMMA OutsideFree ==
  ASSUME NEW F, NEW h, Apart(F, h), NEW b \in h, NEW d \in F
  PROVE  /\ b \in Tiles /\ d \in Tiles
         /\ d.order >= b.order => Num(b.addr, d.order) # Num(d.addr, d.order)
<1>1. b \in h \cup F /\ d \in h \cup F /\ b # d /\ Tiling(h \cup F)
  BY DEF Apart
<1>2. b \in Tiles /\ d \in Tiles
  BY <1>1 DEF Tiling
<1>3. b.addr \in Pages /\ In(b.addr, b)
  BY <1>2, BlkIs DEF In, Tiles
<1>4. ~In(b.addr, d)
  BY <1>1, <1>3, OneBlock
<1> QED BY <1>2, <1>4 DEF In

(* The node of a list in the pair of b, if the list has one, is the buddy  *)
(* of what free carries there.                                             *)
LEMMA CarriedUp ==
  ASSUME IInv, NEW b \in held, NEW a \in Pages, NEW k \in Orders, b.order <= k, HasBuddy(k),
         Aligned(a, k), Num(a, k) = Num(b.addr, k)
  PROVE  /\ b \in Blocks
         /\ isBuddyFree(a, k) <=> Full(b, FreeSet(blocks), k)
         /\ isBuddyFree(a, k) =>
              \E y \in Pages :
                /\ Blk(y, k) \in FreeSet(blocks) /\ Num(y, k + 1) = Num(b.addr, k + 1)
                /\ BuddyPosition(a, k) \in 1 .. Len(blocks[k])
                /\ blocks[k][BuddyPosition(a, k)] = y
                /\ coalesceBuddy(a, k) \in Pages /\ Aligned(coalesceBuddy(a, k), k + 1)
                /\ Num(coalesceBuddy(a, k), k + 1) = Num(b.addr, k + 1)
<1>1. PICK F : F = FreeSet(blocks)
  OBVIOUS
<1>2. /\ Apart(F, held) /\ Bits(F, bitmap) /\ Merged(F)
      /\ blocks[k] \in Seq(Pages) /\ Distinct(blocks[k])
  BY <1>1 DEF IInv, Linked
<1>3. held \subseteq Tiles /\ F \subseteq Tiles
  BY <1>2 DEF Apart, Tiling
<1>4. b \in Blocks /\ b.addr \in Pages /\ b.order \in Orders
  BY <1>3, BlkIs DEF Tiles
<1>5. k \in Nat /\ k + 1 \in Nat /\ a \in Nat /\ b.addr \in Nat /\ k + 1 \in Orders
  BY <1>4, Numbers
<1>6. Num(a, k + 1) = Num(b.addr, k + 1)
  BY <1>5, SameAbove
<1>7. isBuddyFree(a, k) <=> Full(b, F, k)
  BY <1>2, <1>6 DEF isBuddyFree, Full, Bits
<1>8. ASSUME isBuddyFree(a, k)
      PROVE  \E y \in Pages :
                /\ Blk(y, k) \in F /\ Num(y, k + 1) = Num(b.addr, k + 1)
                /\ BuddyPosition(a, k) \in 1 .. Len(blocks[k])
                /\ blocks[k][BuddyPosition(a, k)] = y
                /\ coalesceBuddy(a, k) \in Pages /\ Aligned(coalesceBuddy(a, k), k + 1)
                /\ Num(coalesceBuddy(a, k), k + 1) = Num(b.addr, k + 1)
  <2>1. PICK x \in Pages : Blk(x, k) \in F /\ Num(x, k + 1) = Num(b.addr, k + 1)
    BY <1>7, <1>8 DEF Full, Half
  <2>2. PICK n \in Nat : n = Len(blocks[k])
    BY <1>2, LenProperties
  <2>3. \A i \in 1 .. n : blocks[k][i] \in Pages
    BY <1>2, <2>2, ElementOfSeq
  <2>4. PICK i \in 1 .. n : blocks[k][i] = x
    <3>1. x \in Elements(blocks[k])
      BY <1>1, <2>1, OnFreeList
    <3> QED BY <2>2, <3>1 DEF Elements
  <2>5. getIndex(x, k) = getIndex(a, k)
    BY <1>6, <2>1, IndexTells
  <2>6. PICK pos : pos = BuddyPosition(a, k)
    OBVIOUS
  <2>7. pos \in 1 .. n /\ getIndex(blocks[k][pos], k) = getIndex(a, k)
    BY <2>2, <2>4, <2>5, <2>6, PositionFound
  <2>8. PICK y \in Pages : y = blocks[k][pos]
    BY <2>3, <2>7
  <2>9. Num(y, k + 1) = Num(b.addr, k + 1)
    BY <1>6, <2>7, <2>8, IndexTells
  <2>10. Blk(y, k) \in F
    <3>1. y \in Elements(blocks[k])
      BY <2>2, <2>7, <2>8 DEF Elements
    <3> QED BY <1>1, <3>1, OnFreeList
  <2>11. Aligned(y, k) /\ Num(y, k) # Num(a, k) /\ y \in Nat
    <3>1. Aligned(y, k)
      BY <1>3, <2>10, BlkIs
    <3>2. Blk(y, k).order = k /\ Blk(y, k).addr = y
      BY BlkIs
    <3>3. k >= b.order
      BY <1>4, <1>5, Numbers
    <3>4. Num(b.addr, k) # Num(y, k)
      BY <1>2, <2>10, <3>2, <3>3, OutsideFree
    <3> QED BY <3>1, <3>4, Numbers
  <2>12. coalesceBuddy(a, k) = IF a > y THEN y ELSE a
    <3>1. pos # 0
      BY <2>7
    <3> QED BY <2>6, <2>8, <3>1 DEF coalesceBuddy
  <2>13. Num(a, k + 1) = Num(y, k + 1) /\ a # y
    BY <1>6, <2>9, <2>11
  <2>14. CASE a > y
    <3>1. y < a
      BY <1>5, <2>11, <2>14
    <3>2. Aligned(y, k + 1)
      BY <1>5, <2>11, <2>13, <3>1, Buddies
    <3> QED BY <2>2, <2>6, <2>7, <2>8, <2>9, <2>10, <2>12, <2>14, <3>2
  <2>15. CASE ~(a > y)
    <3>1. a < y
      BY <1>5, <2>11, <2>13, <2>15
    <3>2. Aligned(a, k + 1)
      BY <1>5, <2>11, <2>13, <3>1, Buddies
    <3> QED BY <1>6, <2>2, <2>6, <2>7, <2>8, <2>9, <2>10, <2>12, <2>15, <3>2
  <2> QED BY <2>14, <2>15
<1> QED BY <1>1, <1>4, <1>7, <1>8

LEMMA LoopOfFree ==
  ASSUME IInv, NEW b \in held, NEW g, g = Carried(b), NEW t \in b.order .. MAX_ORDER,
         ~Full(b, FreeSet(blocks), t),
         \A k \in b.order .. t - 1 : Full(b, FreeSet(blocks), k)
  PROVE  /\ b \in Blocks
         /\ \A k \in b.order .. t :
              /\ k \in Orders /\ g[k] \in Pages
              /\ Aligned(g[k], k) /\ Num(g[k], k) = Num(b.addr, k)
         /\ \A k \in b.order .. MAX_ORDER : k > t => g[k] = NULL
<1>1. b \in Tiles
  BY DEF IInv, Apart, Tiling
<1>2. b \in Blocks /\ b.addr \in Pages /\ b.order \in Orders /\ Aligned(b.addr, b.order)
  BY <1>1, BlkIs DEF Tiles
<1>3. PICK o \in Nat : o = b.order /\ o <= MAX_ORDER /\ MAX_ORDER \in Nat
  BY <1>2, Numbers
<1>4. t \in Nat /\ o <= t /\ t <= MAX_ORDER
  BY <1>3
<1>5. /\ g[o] = b.addr
      /\ \A k \in o .. MAX_ORDER : k # o => g[k] = Carry(g[k - 1], k)
  BY <1>2, <1>3, CarriedIs
<1>6. \A k \in o .. t : k \in Orders /\ k \in Nat /\ k >= b.order
  BY <1>3, <1>4 DEF Orders
<1>7. NULL \notin Pages
  BY Numbers DEF NULL
<1>8. PICK T : T = {k \in o .. t :
                      g[k] \in Pages /\ Aligned(g[k], k) /\ Num(g[k], k) = Num(b.addr, k)}
  OBVIOUS
<1>9. o \in T
  <2>1. o \in o .. t
    BY <1>4
  <2> QED BY <1>2, <1>3, <1>5, <1>8, <2>1
<1>10. ASSUME NEW k \in o .. t, k \in T, k < t PROVE k + 1 \in T
  <2>1. /\ k + 1 \in o .. t /\ k + 1 \in o .. MAX_ORDER /\ k + 1 # o
        /\ (k + 1) - 1 = k /\ k \in o .. t - 1
    BY <1>3, <1>4, <1>10
  <2>2. Full(b, FreeSet(blocks), k) /\ HasBuddy(k)
    BY <1>3, <2>1 DEF Full
  <2>3. PICK a \in Pages : a = g[k] /\ Aligned(a, k) /\ Num(a, k) = Num(b.addr, k)
    BY <1>8, <1>10
  <2>4. k \in Orders /\ b.order <= k
    BY <1>6, <1>10
  <2>5. isBuddyFree(a, k)
    BY <2>2, <2>3, <2>4, CarriedUp
  <2>6. /\ coalesceBuddy(a, k) \in Pages /\ Aligned(coalesceBuddy(a, k), k + 1)
        /\ Num(coalesceBuddy(a, k), k + 1) = Num(b.addr, k + 1)
    BY <2>2, <2>3, <2>4, <2>5, CarriedUp
  <2>7. g[k + 1] = Carry(a, k + 1)
    BY <1>5, <2>1, <2>3
  <2>8. g[k + 1] = coalesceBuddy(a, k)
    BY <1>7, <2>1, <2>3, <2>5, <2>7 DEF Carry
  <2> QED BY <1>8, <2>1, <2>6, <2>8
<1>11. \A k \in o .. t : k \in T
  BY <1>4, <1>9, <1>10, Up
<1>12. PICK U : U = {k \in t + 1 .. MAX_ORDER : g[k] = NULL}
  OBVIOUS
<1>13. ASSUME t + 1 <= MAX_ORDER PROVE t + 1 \in U
  <2>1. t \in o .. t /\ t + 1 \in o .. MAX_ORDER /\ t + 1 # o /\ (t + 1) - 1 = t /\ t < MAX_ORDER
        /\ t + 1 \in t + 1 .. MAX_ORDER
    BY <1>3, <1>4, <1>13
  <2>2. PICK a \in Pages : a = g[t] /\ Aligned(a, t) /\ Num(a, t) = Num(b.addr, t)
    BY <1>8, <1>11, <2>1
  <2>3. HasBuddy(t) /\ t \in Orders /\ b.order <= t
    BY <1>3, <1>4, <1>6, <2>1 DEF HasBuddy
  <2>4. ~isBuddyFree(a, t)
    BY <2>2, <2>3, CarriedUp
  <2>5. g[t + 1] = Carry(a, t + 1)
    BY <1>5, <2>1, <2>2
  <2>6. g[t + 1] = NULL
    BY <2>1, <2>4, <2>5 DEF Carry
  <2> QED BY <1>12, <2>1, <2>6
<1>14. ASSUME NEW k \in t + 1 .. MAX_ORDER, k \in U, k < MAX_ORDER PROVE k + 1 \in U
  <2>1. k + 1 \in t + 1 .. MAX_ORDER /\ k + 1 \in o .. MAX_ORDER /\ k + 1 # o /\ (k + 1) - 1 = k
    BY <1>3, <1>4, <1>14
  <2>2. g[k] = NULL
    BY <1>12, <1>14
  <2>3. g[k + 1] = Carry(NULL, k + 1)
    BY <1>5, <2>1, <2>2
  <2>4. g[k + 1] = NULL
    BY <2>3 DEF Carry
  <2> QED BY <1>12, <2>1, <2>4
<1>15. \A k \in t + 1 .. MAX_ORDER : k \in U
  <2>1. CASE t + 1 <= MAX_ORDER
    <3>1. t + 1 \in Nat /\ t + 1 \in U
      BY <1>4, <1>13, <2>1
    <3> QED BY <1>3, <1>14, <3>1, Up
  <2>2. CASE ~(t + 1 <= MAX_ORDER)
    BY <1>3, <1>4, <2>2
  <2> QED BY <2>1, <2>2
<1>16. \A k \in b.order .. MAX_ORDER : k > t => g[k] = NULL
  <2>1. \A k \in b.order .. MAX_ORDER : k > t => k \in t + 1 .. MAX_ORDER
    BY <1>3, <1>4
  <2> QED BY <1>12, <1>15, <2>1
<1>17. \A k \in b.order .. t :
         /\ k \in Orders /\ g[k] \in Pages
         /\ Aligned(g[k], k) /\ Num(g[k], k) = Num(b.addr, k)
  BY <1>3, <1>6, <1>8, <1>11
<1> QED BY <1>2, <1>16, <1>17

(* What free makes of the lists: the buddies of the orders below t taken   *)
(* out, and what the block has grown to put on the list of order t.        *)
Grown(b, g, t) ==
  \A k \in b.order .. t :
    k \in Orders /\ g[k] \in Pages /\ Aligned(g[k], k) /\ Num(g[k], k) = Num(b.addr, k)

Relinked(b, g, t, lists) ==
  /\ lists = [k \in Orders |-> lists[k]]
  /\ \A k \in Orders : k \notin b.order .. t => lists[k] = blocks[k]
  /\ lists[t] = <<g[t]>> \o blocks[t]
  /\ \A k \in b.order .. t - 1 : lists[k] = RemoveAt(blocks[k], BuddyPosition(g[k], k))

LEMMA MergedLists ==
  ASSUME IInv, NEW b \in held, NEW g, NEW t \in b.order .. MAX_ORDER,
         NEW F, F = FreeSet(blocks),
         Stops(b, F, t), Grown(b, g, t), NEW lists, Relinked(b, g, t, lists)
  PROVE  /\ Linked(lists)
         /\ FreeSet(lists) = (F \ Eaten(b, F, t)) \cup {Blk(g[t], t)}
         /\ Blk(g[t], t) \notin F
<1>0. /\ ~Full(b, F, t) /\ \A k \in b.order .. t - 1 : Full(b, F, k)
      /\ \A k \in b.order .. t :
           k \in Orders /\ g[k] \in Pages /\ Aligned(g[k], k) /\ Num(g[k], k) = Num(b.addr, k)
      /\ lists = [k \in Orders |-> lists[k]]
      /\ \A k \in Orders : k \notin b.order .. t => lists[k] = blocks[k]
      /\ lists[t] = <<g[t]>> \o blocks[t]
      /\ \A k \in b.order .. t - 1 : lists[k] = RemoveAt(blocks[k], BuddyPosition(g[k], k))
  BY DEF Stops, Grown, Relinked
<1>1. b \in Tiles /\ F \subseteq Tiles
  BY DEF IInv, Apart, Tiling
<1>2. b \in Blocks /\ b.addr \in Pages /\ b.order \in Orders
  BY <1>1, BlkIs DEF Tiles
<1>3. PICK o \in Nat : o = b.order /\ o <= t /\ t <= MAX_ORDER /\ t \in Nat /\ MAX_ORDER \in Nat
  <2>1. PICK o \in Nat : o = b.order /\ o <= MAX_ORDER /\ MAX_ORDER \in Nat
    BY <1>2, Numbers
  <2>2. t \in o .. MAX_ORDER
    BY <2>1
  <2>3. o <= t /\ t <= MAX_ORDER /\ t \in Nat
    BY <2>1, <2>2
  <2> QED BY <2>1, <2>3
<1>4. t \in Orders /\ t \in o .. t /\ g[t] \in Pages /\ Num(g[t], t) = Num(b.addr, t)
  BY <1>0, <1>3 DEF Orders
<1>5. /\ blocks \in [Orders -> Seq(Pages)] /\ \A k \in Orders : Distinct(blocks[k])
      /\ Merged(F) /\ Apart(F, held)
  BY DEF IInv, Linked
<1>6. Blk(g[t], t) \notin F
  <2>1. SUFFICES ASSUME Blk(g[t], t) \in F PROVE FALSE
    OBVIOUS
  <2>2. PICK d \in F : d = Blk(g[t], t) /\ d.order = t /\ d.addr = g[t]
    BY <2>1, BlkIs
  <2>3. d.order >= b.order
    BY <1>3, <2>2
  <2>4. Num(b.addr, d.order) # Num(d.addr, d.order)
    BY <1>5, <2>3, OutsideFree
  <2> QED BY <1>4, <2>2, <2>4
<1>7. /\ lists[t] \in Seq(Pages) /\ Distinct(lists[t])
      /\ Elements(lists[t]) = Elements(blocks[t]) \cup {g[t]}
  <2>1. g[t] \notin Elements(blocks[t])
    BY <1>4, <1>6, OnFreeList
  <2>2. blocks[t] \in Seq(Pages) /\ Distinct(blocks[t])
    BY <1>4, <1>5
  <2>3. /\ <<g[t]>> \o blocks[t] \in Seq(Pages) /\ Distinct(<<g[t]>> \o blocks[t])
        /\ Elements(<<g[t]>> \o blocks[t]) = Elements(blocks[t]) \cup {g[t]}
    BY <1>4, <2>1, <2>2, PushElements
  <2> QED BY <1>0, <2>3
<1>8. ASSUME NEW k \in o .. t - 1
      PROVE  /\ k \in Orders /\ HasBuddy(k)
             /\ lists[k] \in Seq(Pages) /\ Distinct(lists[k])
             /\ Elements(lists[k]) =
                  {x \in Elements(blocks[k]) : Num(x, k + 1) # Num(b.addr, k + 1)}
  <2>1. k \in o .. t /\ k \in Orders /\ HasBuddy(k) /\ b.order <= k /\ k \in b.order .. t - 1
    BY <1>3 DEF HasBuddy, Orders
  <2>2. PICK a \in Pages : a = g[k] /\ Aligned(a, k) /\ Num(a, k) = Num(b.addr, k)
    BY <1>0, <1>3, <2>1
  <2>3. Full(b, F, k)
    BY <1>0, <2>1
  <2>4. isBuddyFree(a, k)
    BY <2>1, <2>2, <2>3, CarriedUp
  <2>5. PICK y \in Pages :
          /\ Blk(y, k) \in F /\ Num(y, k + 1) = Num(b.addr, k + 1)
          /\ BuddyPosition(a, k) \in 1 .. Len(blocks[k])
          /\ blocks[k][BuddyPosition(a, k)] = y
    BY <2>1, <2>2, <2>4, CarriedUp
  <2>6. PICK pos \in 1 .. Len(blocks[k]) : pos = BuddyPosition(a, k) /\ blocks[k][pos] = y
    BY <2>5
  <2>7. lists[k] = RemoveAt(blocks[k], pos)
    BY <1>0, <2>1, <2>2, <2>6
  <2>8. blocks[k] \in Seq(Pages) /\ Distinct(blocks[k])
    BY <1>5, <2>1
  <2>9. /\ lists[k] \in Seq(Pages) /\ Distinct(lists[k])
        /\ Elements(lists[k]) = Elements(blocks[k]) \ {y}
    <3>1. PICK c : c = lists[k]
      OBVIOUS
    <3>2. c = WithoutNth(blocks[k], pos)
      BY <2>7, <3>1 DEF RemoveAt, WithoutNth
    <3>3. c \in Seq(Pages) /\ Distinct(c) /\ Elements(c) = Elements(blocks[k]) \ {blocks[k][pos]}
      BY <2>8, <3>2, RemoveElement
    <3> QED BY <2>6, <3>1, <3>3
  <2>10. \A x \in Elements(blocks[k]) : x \in Pages /\ Blk(x, k) \in F
    <3>1. \A i \in 1 .. Len(blocks[k]) : blocks[k][i] \in Pages
      BY <2>8, ElementOfSeq
    <3>2. \A x \in Elements(blocks[k]) : x \in Pages
      BY <3>1 DEF Elements
    <3> QED BY <2>1, <3>2, OnFreeList
  <2>11. \A x \in Elements(blocks[k]) : Num(x, k + 1) = Num(b.addr, k + 1) <=> x = y
    BY <1>5, <2>1, <2>5, <2>10 DEF Merged
  <2> QED BY <2>1, <2>9, <2>11
<1>9. Linked(lists)
  <2>1. ASSUME NEW k \in Orders PROVE lists[k] \in Seq(Pages) /\ Distinct(lists[k])
    <3>1. CASE k \in o .. t - 1
      BY <1>8, <3>1
    <3>2. CASE k = t
      BY <1>7, <3>2
    <3>3. CASE k \notin o .. t
      BY <1>0, <1>3, <1>5, <3>3
    <3>4. k \in Nat
      BY Numbers
    <3> QED BY <1>3, <3>1, <3>2, <3>3, <3>4
  <2>2. lists \in [Orders -> Seq(Pages)]
    BY <1>0, <2>1
  <2> QED BY <2>1, <2>2 DEF Linked
<1>10. PICK G \in SUBSET Blocks : G = (F \ Eaten(b, F, t)) \cup {Blk(g[t], t)}
  <2>1. Blk(g[t], t) \in Blocks
    BY <1>4, BlkIs
  <2> QED BY <2>1, OnFreeList
<1>11. \A k \in Orders, x \in Pages :
         Blk(x, k) \in Eaten(b, F, t) <=>
           Blk(x, k) \in F /\ k \in o .. t - 1 /\ Num(x, k + 1) = Num(b.addr, k + 1)
  BY <1>3, BlkIs DEF Eaten
<1>12. ASSUME NEW k \in Orders, NEW x \in Pages
       PROVE  x \in Elements(lists[k]) <=> Blk(x, k) \in G
  <2>1. Blk(x, k) \in F <=> x \in Elements(blocks[k])
    BY OnFreeList
  <2>2. Blk(x, k) = Blk(g[t], t) <=> x = g[t] /\ k = t
    BY BlkIs
  <2>3. k \in Nat
    BY Numbers
  <2>4. CASE k \in o .. t - 1
    <3>1. k # t
      BY <1>3, <2>4
    <3>2. x \in Elements(lists[k]) <=>
            x \in Elements(blocks[k]) /\ Num(x, k + 1) # Num(b.addr, k + 1)
      BY <1>8, <2>4
    <3> QED BY <1>10, <1>11, <2>1, <2>2, <2>4, <3>1, <3>2
  <2>5. CASE k = t
    <3>1. k \notin o .. t - 1
      BY <1>3, <2>5
    <3> QED BY <1>7, <1>10, <1>11, <2>1, <2>2, <2>5, <3>1
  <2>6. CASE k \notin o .. t
    <3>1. k \notin o .. t - 1 /\ k # t
      BY <1>3, <2>6
    <3>2. lists[k] = blocks[k]
      BY <1>0, <1>3, <2>6
    <3> QED BY <1>10, <1>11, <2>1, <2>2, <3>1, <3>2
  <2> QED BY <1>3, <2>3, <2>4, <2>5, <2>6
<1>13. FreeSet(lists) = G
  BY <1>12, FreeSetIs
<1> QED BY <1>6, <1>9, <1>10, <1>13

(* The pages of a block and of its buddies on the way up.                  *)
LEMMA Growing ==
  ASSUME NEW F, NEW h, Apart(F, h), NEW b \in h, NEW t \in b.order .. MAX_ORDER,
         \A k \in b.order .. t - 1 : Full(b, F, k),
         NEW q \in Pages
  PROVE  (\E d \in {b} \cup Eaten(b, F, t) : In(q, d)) <=> Num(q, t) = Num(b.addr, t)
<1>1. b \in Tiles /\ F \subseteq Tiles
  BY DEF Apart, Tiling
<1>2. b \in Blocks /\ b.addr \in Pages /\ b.order \in Orders /\ b.addr \in Nat /\ q \in Nat
  BY <1>1, BlkIs, Numbers DEF Tiles
<1>3. PICK o \in Nat : o = b.order /\ o <= t /\ t <= MAX_ORDER /\ t \in Nat /\ MAX_ORDER \in Nat
  <2>1. PICK o \in Nat : o = b.order /\ o <= MAX_ORDER /\ MAX_ORDER \in Nat
    BY <1>2, Numbers
  <2>2. t \in o .. MAX_ORDER
    BY <2>1
  <2>3. o <= t /\ t <= MAX_ORDER /\ t \in Nat
    BY <2>1, <2>2
  <2> QED BY <2>1, <2>3
<1>4. ASSUME In(q, b) PROVE Num(q, t) = Num(b.addr, t)
  BY <1>2, <1>3, <1>4, SameAbove DEF In
<1>5. ASSUME NEW d \in Eaten(b, F, t), In(q, d) PROVE Num(q, t) = Num(b.addr, t)
  <2>1. /\ d \in F /\ d.order \in o .. t - 1
        /\ Num(d.addr, d.order + 1) = Num(b.addr, d.order + 1)
    BY <1>3 DEF Eaten
  <2>2. PICK k \in Nat : k = d.order /\ k + 1 \in Nat /\ k + 1 <= t
    BY <1>3, <2>1
  <2>3. d.addr \in Nat
    BY <1>1, <2>1, BlkIs, Numbers DEF Tiles
  <2>4. Num(q, k) = Num(d.addr, k)
    BY <1>5, <2>2 DEF In
  <2>5. Num(q, k + 1) = Num(d.addr, k + 1)
    BY <1>2, <2>2, <2>3, <2>4, SameAbove
  <2>6. Num(q, k + 1) = Num(b.addr, k + 1)
    BY <2>1, <2>2, <2>5
  <2> QED BY <1>2, <1>3, <2>2, <2>6, SameAbove
<1>6. ASSUME Num(q, t) = Num(b.addr, t), ~In(q, b) PROVE \E d \in Eaten(b, F, t) : In(q, d)
  <2>1. Num(q, o) # Num(b.addr, o) /\ o \in Orders /\ t \in Orders
    BY <1>2, <1>3, <1>6 DEF In, Orders
  <2>2. PICK i \in o .. t - 1 :
          /\ i \in Orders /\ HasBuddy(i)
          /\ Num(q, i + 1) = Num(b.addr, i + 1) /\ Num(q, i) # Num(b.addr, i)
    BY <1>2, <1>3, <1>6, <2>1, LastSplit
  <2>3. PICK y \in Pages : Blk(y, i) \in F /\ Num(y, i + 1) = Num(b.addr, i + 1)
    BY <1>3 DEF Full, Half
  <2>4. Blk(y, i).order = i /\ Blk(y, i).addr = y /\ i >= b.order
    BY <1>3, BlkIs
  <2>5. Num(y, i) # Num(b.addr, i)
    BY <2>3, <2>4, OutsideFree
  <2>6. Num(q, i) = Num(y, i)
    BY <1>2, <2>2, <2>3, <2>5, OtherHalf
  <2>7. In(q, Blk(y, i))
    BY <2>6, BlkIs
  <2>8. Blk(y, i) \in Eaten(b, F, t)
    BY <1>3, <2>3, <2>4 DEF Eaten
  <2> QED BY <2>7, <2>8
<1> QED BY <1>4, <1>5, <1>6

(* free keeps the invariant.                                                *)
LEMMA FreePreserves ==
  ASSUME IInv, NEW b \in held, free(b)
  PROVE  IInv' /\ held' = held \ {b}
<1>1. PICK F, G, g, o : F = FreeSet(blocks) /\ G = FreeSet(blocks') /\ g = Carried(b) /\ o = b.order
  OBVIOUS
<1>2. /\ Linked(blocks) /\ bitmap \in [Indices -> {0, 1}]
      /\ Apart(F, held) /\ held \cap F = {} /\ Tiling(held \cup F) /\ Merged(F) /\ Bits(F, bitmap)
  BY <1>1 DEF IInv, Apart
<1>3. b \in Tiles /\ b \in Blocks /\ b.addr \in Pages /\ b.order \in Orders /\ F \subseteq Tiles
  BY <1>2, BlkIs DEF Tiling, Tiles
<1>4. PICK t \in o .. MAX_ORDER : ~Full(b, F, t) /\ \A k \in o .. t - 1 : Full(b, F, k)
  BY <1>1, <1>3, StopOrder
<1>5. o \in Nat /\ o <= t /\ t <= MAX_ORDER /\ t \in Nat /\ MAX_ORDER \in Nat
  <2>1. o \in Nat /\ MAX_ORDER \in Nat
    BY <1>1, <1>3, Numbers
  <2> QED BY <2>1
<1>6. /\ \A k \in o .. t :
           k \in Orders /\ g[k] \in Pages /\ Aligned(g[k], k) /\ Num(g[k], k) = Num(b.addr, k)
      /\ \A k \in o .. MAX_ORDER : k > t => g[k] = NULL
  BY <1>1, <1>4, LoopOfFree
<1>7. PICK reached : reached = {k \in o .. MAX_ORDER : g[k] # NULL}
  OBVIOUS
<1>8. reached = o .. t
  <2>1. NULL \notin Pages
    BY Numbers DEF NULL
  <2>2. \A k \in o .. MAX_ORDER : k \in o .. t \/ k > t
    BY <1>5
  <2>3. \A k \in o .. t : k \in o .. MAX_ORDER /\ ~(k > t)
    BY <1>5
  <2> QED BY <1>6, <1>7, <2>1, <2>2, <2>3
<1>9. /\ held' = held \ {b}
      /\ bitmap' = flipBits({getIndex(g[k], k) : k \in {j \in reached : HasBuddy(j)}})
      /\ blocks' = [k \in Orders |->
           IF k \notin reached THEN blocks[k]
           ELSE IF ~(HasBuddy(k) /\ isBuddyFree(g[k], k)) THEN <<g[k]>> \o blocks[k]
           ELSE IF BuddyPosition(g[k], k) = 0 THEN blocks[k]
           ELSE RemoveAt(blocks[k], BuddyPosition(g[k], k))]
  BY <1>1, <1>7 DEF free
<1>10. t \in o .. t /\ t \in Orders /\ g[t] \in Pages /\ Aligned(g[t], t)
       /\ Num(g[t], t) = Num(b.addr, t)
  BY <1>5, <1>6
<1>11. /\ \A k \in Orders : k \notin o .. t => blocks'[k] = blocks[k]
       /\ blocks'[t] = <<g[t]>> \o blocks[t]
       /\ \A k \in o .. t - 1 : blocks'[k] = RemoveAt(blocks[k], BuddyPosition(g[k], k))
  <2>1. \A k \in Orders : k \notin o .. t => blocks'[k] = blocks[k]
    BY <1>8, <1>9
  <2>2. ~(HasBuddy(t) /\ isBuddyFree(g[t], t))
    <3>1. b.order <= t
      BY <1>1, <1>5
    <3>2. HasBuddy(t) => (isBuddyFree(g[t], t) <=> Full(b, F, t))
      BY <1>1, <1>10, <3>1, CarriedUp
    <3> QED BY <1>4, <3>2
  <2>3. blocks'[t] = <<g[t]>> \o blocks[t]
    BY <1>8, <1>9, <1>10, <2>2
  <2>4. ASSUME NEW k \in o .. t - 1
        PROVE  blocks'[k] = RemoveAt(blocks[k], BuddyPosition(g[k], k))
    <3>1. /\ k \in o .. t /\ HasBuddy(k) /\ b.order <= k
      BY <1>1, <1>5 DEF HasBuddy
    <3>2. k \in Orders /\ g[k] \in Pages /\ Aligned(g[k], k) /\ Num(g[k], k) = Num(b.addr, k)
      BY <1>6, <3>1
    <3>3. Full(b, F, k)
      BY <1>4
    <3>4. isBuddyFree(g[k], k)
      BY <1>1, <3>1, <3>2, <3>3, CarriedUp
    <3>5. BuddyPosition(g[k], k) \in 1 .. Len(blocks[k])
      BY <3>1, <3>2, <3>4, CarriedUp
    <3>6. BuddyPosition(g[k], k) # 0
      BY <3>5
    <3> QED BY <1>8, <1>9, <3>1, <3>2, <3>4, <3>6
  <2> QED BY <2>1, <2>3, <2>4
<1>12. PICK lists : lists = blocks'
  OBVIOUS
<1>13. lists = [k \in Orders |-> lists[k]]
  <2>1. DOMAIN blocks' = Orders /\ blocks' = [k \in Orders |-> blocks'[k]]
    BY ONLY <1>9
  <2> QED BY <1>12, <2>1
<1>14. /\ Linked(lists) /\ FreeSet(lists) = (F \ Eaten(b, F, t)) \cup {Blk(g[t], t)}
       /\ Blk(g[t], t) \notin F
  <2>1. t \in b.order .. MAX_ORDER /\ F = FreeSet(blocks) /\ Stops(b, F, t)
    BY <1>1, <1>4 DEF Stops
  <2>2. Grown(b, g, t)
    BY <1>1, <1>6 DEF Grown
  <2>3. Relinked(b, g, t, lists)
    BY <1>1, <1>11, <1>12, <1>13 DEF Relinked
  <2> QED BY <2>1, <2>2, <2>3, MergedLists
<1>15. PICK B : B = Blk(g[t], t)
  OBVIOUS
<1>16. PICK E \in SUBSET F : E = Eaten(b, F, t)
  BY DEF Eaten
<1>17. Linked(blocks') /\ G = (F \ E) \cup {B} /\ B \notin F /\ B \in Tiles
  BY <1>1, <1>10, <1>12, <1>14, <1>15, <1>16, BlkIs
<1>18. Apart(G, held')
  <2>1. PICK S : S = held \cup F
    OBVIOUS
  <2>2. PICK R \in SUBSET S : R = {b} \cup E
    BY <2>1
  <2>3. PICK A \in SUBSET Tiles : A = {B}
    BY <1>17
  <2>4. \A q \in Pages : (\E d \in R : In(q, d)) <=> (\E d \in A : In(q, d))
    <3>1. \A q \in Pages : In(q, B) <=> Num(q, t) = Num(b.addr, t)
      BY <1>10, <1>15, BlkIs
    <3>2. \A q \in Pages : (\E d \in R : In(q, d)) <=> Num(q, t) = Num(b.addr, t)
      BY <1>1, <1>2, <1>4, <1>16, <2>2, Growing
    <3> QED BY <2>3, <3>1, <3>2
  <2>5. \A q \in Pages : \A d, e \in A : In(q, d) /\ In(q, e) => d = e
    BY <2>3
  <2>6. Tiling((S \ R) \cup A) /\ \A d \in A : d \in S => d \in R
    <3>1. Tiling(S)
      BY <1>2, <2>1
    <3> QED BY <2>4, <2>5, <3>1, Retile
  <2>7. b \notin F
    BY <1>2
  <2>8. held' \cup G = (S \ R) \cup A
    BY <1>2, <1>9, <1>17, <2>1, <2>2, <2>3, <2>7
  <2>9. held' \cap G = {}
    BY <1>2, <1>9, <1>17, <2>1, <2>2, <2>3, <2>6
  <2> QED BY <2>6, <2>8, <2>9 DEF Apart
<1>19. \A k \in Orders, x \in Pages :
         Blk(x, k) \in G <=>
           \/ k = t /\ x = g[t]
           \/ Blk(x, k) \in F /\ ~(k \in o .. t - 1 /\ Num(x, k + 1) = Num(b.addr, k + 1))
  <2>1. \A k \in Orders, x \in Pages :
          Blk(x, k) \in E <=>
            Blk(x, k) \in F /\ k \in o .. t - 1 /\ Num(x, k + 1) = Num(b.addr, k + 1)
    BY <1>1, <1>16, BlkIs DEF Eaten
  <2>2. \A k \in Orders, x \in Pages : Blk(x, k) = B <=> x = g[t] /\ k = t
    BY <1>15, BlkIs
  <2> QED BY <1>17, <2>1, <2>2
<1>20. Num(g[t], t + 1) = Num(b.addr, t + 1)
  <2>1. t + 1 \in Nat /\ t <= t + 1 /\ g[t] \in Nat /\ b.addr \in Nat
    BY <1>3, <1>5, <1>10, Numbers
  <2> QED BY <1>5, <1>10, <2>1, SameAbove
<1>21. t \notin o .. t - 1
  BY <1>5
<1>22. Merged(G)
  <2>1. ASSUME NEW k \in Orders, HasBuddy(k), NEW x \in Pages, NEW y \in Pages,
               Blk(x, k) \in G, Blk(y, k) \in G, Num(x, k + 1) = Num(y, k + 1)
        PROVE  x = y
    <3>1. CASE Blk(x, k) \in F /\ Blk(y, k) \in F
      BY <1>2, <2>1, <3>1 DEF Merged
    <3>2. CASE k = t /\ (x = g[t] \/ y = g[t])
      <4>1. \A z \in Pages : Blk(z, t) \in F => Num(z, t + 1) # Num(b.addr, t + 1)
        BY <1>4, <2>1, <3>2 DEF Full, Half
      <4>2. Num(x, t + 1) = Num(b.addr, t + 1) /\ Num(y, t + 1) = Num(b.addr, t + 1)
        BY <1>20, <2>1, <3>2
      <4>3. x = g[t] /\ y = g[t]
        BY <1>19, <2>1, <3>2, <4>1, <4>2
      <4> QED BY <4>3
    <3> QED BY <1>19, <2>1, <3>1, <3>2
  <2> QED BY <2>1 DEF Merged
<1>23. bitmap' \in [Indices -> {0, 1}] /\ Bits(G, bitmap')
  <2>1. PICK K \in SUBSET Orders : K = {j \in reached : HasBuddy(j)}
    BY <1>6, <1>8
  <2>2. PairsOf(g, K, b.addr)
    <3>1. ASSUME NEW k \in K
          PROVE  HasBuddy(k) /\ g[k] \in Pages /\ Num(g[k], k + 1) = Num(b.addr, k + 1)
      <4>1. k \in o .. t /\ HasBuddy(k)
        BY <1>8, <2>1
      <4>2. k \in Nat /\ k + 1 \in Nat /\ k <= k + 1
        BY Numbers
      <4>3. g[k] \in Pages /\ g[k] \in Nat /\ b.addr \in Nat /\ Num(g[k], k) = Num(b.addr, k)
        BY <1>3, <1>6, <4>1, Numbers
      <4> QED BY <4>1, <4>2, <4>3, SameAbove
    <3> QED BY ONLY <3>1 DEF PairsOf
  <2>3. PICK bits : bits = bitmap'
    OBVIOUS
  <2>4. bits = flipBits(Pairs(g, K))
    BY <1>9, <2>1, <2>3 DEF Pairs
  <2>5. ASSUME NEW k \in Orders, NEW a \in Pages, HasBuddy(k)
        PROVE  Half(G, k, Num(a, k + 1)) <=>
                 ~(k \in K /\ Num(a, k + 1) = Num(b.addr, k + 1) <=> Half(F, k, Num(a, k + 1)))
    <3>1. PICK n : n = Num(a, k + 1)
      OBVIOUS
    <3>2. CASE k \in o .. t - 1
      <4>1. k \in o .. t /\ k # t
        BY <1>5, <3>2
      <4>2. k \in K
        BY <1>8, <2>1, <2>5, <4>1
      <4>3. \A x \in Pages : Blk(x, k) \in G <=>
              Blk(x, k) \in F /\ Num(x, k + 1) # Num(b.addr, k + 1)
        BY <1>19, <3>2, <4>1
      <4>4. Half(F, k, Num(b.addr, k + 1))
        BY <1>4, <3>2 DEF Full
      <4>5. CASE n = Num(b.addr, k + 1)
        <5>1. ~Half(G, k, n)
          BY <4>3, <4>5 DEF Half
        <5> QED BY <3>1, <4>2, <4>4, <4>5, <5>1
      <4>6. CASE n # Num(b.addr, k + 1)
        <5>1. Half(G, k, n) <=> Half(F, k, n)
          BY <4>3, <4>6 DEF Half
        <5> QED BY <3>1, <4>6, <5>1
      <4> QED BY <4>5, <4>6
    <3>3. CASE k = t
      <4>1. k \in K
        BY <1>8, <1>10, <2>1, <2>5, <3>3
      <4>2. \A x \in Pages : Blk(x, k) \in G <=> Blk(x, k) \in F \/ x = g[t]
        BY <1>19, <1>21, <3>3
      <4>3. ~Half(F, k, Num(b.addr, k + 1))
        BY <1>4, <2>5, <3>3 DEF Full
      <4>4. CASE n = Num(b.addr, k + 1)
        <5>1. Half(G, k, n)
          BY <1>10, <1>20, <3>3, <4>2, <4>4 DEF Half
        <5> QED BY <3>1, <4>1, <4>3, <4>4, <5>1
      <4>5. CASE n # Num(b.addr, k + 1)
        <5>1. Half(G, k, n) <=> Half(F, k, n)
          BY <1>20, <3>3, <4>2, <4>5 DEF Half
        <5> QED BY <3>1, <4>5, <5>1
      <4> QED BY <4>4, <4>5
    <3>4. CASE k \notin o .. t
      <4>1. k \notin K /\ k \notin o .. t - 1 /\ k # t
        BY <1>5, <1>8, <2>1, <3>4
      <4>2. \A x \in Pages : Blk(x, k) \in G <=> Blk(x, k) \in F
        BY <1>19, <4>1
      <4>3. Half(G, k, n) <=> Half(F, k, n)
        BY <4>2 DEF Half
      <4> QED BY <3>1, <4>1, <4>3
    <3>5. k \in o .. t - 1 \/ k = t \/ k \notin o .. t
      BY <1>5
    <3> QED BY <3>2, <3>3, <3>4, <3>5
  <2>6. HalvesFlip(F, G, K, b.addr)
    BY ONLY <2>5 DEF HalvesFlip
  <2>7. b.addr \in Pages /\ Bits(F, bitmap) /\ bitmap \in [Indices -> {0, 1}]
    BY <1>2, <1>3
  <2>8. bits \in [Indices -> {0, 1}] /\ Bits(G, bits)
    BY ONLY <2>2, <2>4, <2>6, <2>7, K \in SUBSET Orders, FlippedBits
  <2> QED BY <2>3, <2>8
<1>24. IInv'
  BY <1>1, <1>17, <1>18, <1>22, <1>23 DEF IInv
<1> QED BY <1>9, <1>24

-----------------------------------------------------------------------------
LEMMA InitInvariant == Init => IInv
<1> SUFFICES ASSUME Init PROVE IInv
  OBVIOUS
<1>1. /\ blocks = [k \in Orders |-> IF k = MAX_ORDER THEN <<0>> ELSE <<>>]
      /\ bitmap = [i \in Indices |-> 0] /\ held = {}
  BY DEF Init
<1>2. MAX_ORDER \in Nat /\ MAX_ORDER \in Orders /\ 0 \in Pages /\ 0 \in Nat
  <2>1. 2^MAX_ORDER \in Nat \ {0}
    BY Numbers, PowerPositive
  <2> QED BY <2>1, Numbers DEF Pages
<1>3. PICK z, e : z = <<0>> /\ e = <<>>
  OBVIOUS
<1>4. /\ z \in Seq(Pages) /\ Distinct(z) /\ Elements(z) = {0}
      /\ e \in Seq(Pages) /\ Distinct(e) /\ Elements(e) = {}
  <2>1. Len(z) = 1 /\ z[1] = 0 /\ Len(e) = 0 /\ z \in Seq(Pages) /\ e \in Seq(Pages)
    BY <1>2, <1>3
  <2> QED BY <2>1 DEF Elements, Distinct
<1>5. blocks = [k \in Orders |-> IF k = MAX_ORDER THEN z ELSE e]
  BY <1>1, <1>3
<1>6. Linked(blocks)
  BY <1>4, <1>5 DEF Linked
<1>7. bitmap \in [Indices -> {0, 1}]
  BY <1>1
<1>8. PICK F : F = {Blk(0, MAX_ORDER)}
  OBVIOUS
<1>9. FreeSet(blocks) = F
  <2>1. F \in SUBSET Blocks
    BY <1>2, <1>8, BlkIs
  <2>2. ASSUME NEW k \in Orders, NEW x \in Pages
        PROVE  x \in Elements(blocks[k]) <=> Blk(x, k) \in F
    <3>1. Blk(x, k) = Blk(0, MAX_ORDER) <=> x = 0 /\ k = MAX_ORDER
      BY BlkIs
    <3> QED BY <1>4, <1>5, <1>8, <3>1
  <2> QED BY <2>1, <2>2, FreeSetIs
<1>10. Apart(F, held)
  <2>1. Aligned(0, MAX_ORDER)
    <3>1. 0 = 0 * 2^MAX_ORDER
      BY <1>2, PowerDoubles
    <3> QED BY <3>1 DEF Aligned
  <2>2. F \subseteq Tiles
    BY <1>2, <1>8, <2>1, BlkIs
  <2>3. ASSUME NEW q \in Pages PROVE In(q, Blk(0, MAX_ORDER))
    <3>1. MAX_ORDER - MAX_ORDER = 0
      BY <1>2
    <3>2. Num(q, MAX_ORDER) \in 0 .. 2^0 - 1 /\ Num(0, MAX_ORDER) \in 0 .. 2^0 - 1
      BY <1>2, <3>1, NumBound
    <3>3. Num(q, MAX_ORDER) = Num(0, MAX_ORDER)
      BY <3>2, PowerZero
    <3> QED BY <3>3, BlkIs
  <2>4. held \cup F = F /\ held \cap F = {}
    BY <1>1
  <2>5. Tiling(F)
    BY <1>8, <2>2, <2>3 DEF Tiling
  <2> QED BY <2>4, <2>5 DEF Apart
<1>11. \A k \in Orders : HasBuddy(k) => \A x \in Pages : Blk(x, k) \notin F
  <2>1. ASSUME NEW k \in Orders, HasBuddy(k), NEW x \in Pages PROVE Blk(x, k) \notin F
    <3>1. k # MAX_ORDER
      BY <1>2, <2>1 DEF HasBuddy
    <3> QED BY <1>8, <3>1, BlkIs
  <2> QED BY <2>1
<1>12. Merged(F)
  BY <1>11 DEF Merged
<1>13. Bits(F, bitmap)
  <2>1. ASSUME NEW k \in Orders, HasBuddy(k), NEW a \in Pages
        PROVE  bitmap[getIndex(a, k)] # 1 /\ ~Half(F, k, Num(a, k + 1))
    <3>1. getIndex(a, k) \in Indices
      BY <2>1, IndexTells
    <3>2. bitmap[getIndex(a, k)] = 0
      BY <1>1, <3>1
    <3>3. ~Half(F, k, Num(a, k + 1))
      BY <1>11, <2>1 DEF Half
    <3> QED BY <3>2, <3>3
  <2> QED BY <2>1 DEF Bits
<1> QED BY <1>6, <1>7, <1>9, <1>10, <1>12, <1>13 DEF IInv

(* The invariant holds in every reachable state: whatever blocks are       *)
(* allocated and freed in whatever order, splitBlock and returnBlock keep  *)
(* the lists, the bitmap and the blocks of the callers consistent.         *)
THEOREM Invariant == Spec => []IInv
<1>1. Init => IInv
  BY InitInvariant
<1>2. IInv /\ [Next]_vars => IInv'
  <2> SUFFICES ASSUME IInv, [Next]_vars PROVE IInv'
    OBVIOUS
  <2>1. ASSUME NEW order \in Orders, alloc(order) PROVE IInv'
    BY <2>1, AllocPreserves
  <2>2. ASSUME NEW b \in held, free(b) PROVE IInv'
    BY <2>2, FreePreserves
  <2>3. CASE UNCHANGED vars
    BY <2>3 DEF vars, IInv
  <2> QED BY <2>1, <2>2, <2>3 DEF Next
<1> QED BY <1>1, <1>2, PTL DEF Spec

-----------------------------------------------------------------------------
(* What the invariant says of pages and spans.                             *)
LEMMA SpanIs ==
  ASSUME NEW b \in Tiles, NEW q \in Pages
  PROVE  q \in Span(b) <=> In(q, b)
<1>1. b.addr \in Nat /\ b.order \in Nat /\ Aligned(b.addr, b.order) /\ q \in Nat
  BY BlkIs, Numbers DEF Tiles
<1> QED BY <1>1, AlignedSpan DEF Span, In

(* No list is longer than the heap has pages.                              *)
LEMMA ShortLists ==
  ASSUME Linked(blocks), NEW k \in Orders
  PROVE  /\ Len(blocks[k]) \in 0 .. 2^MAX_ORDER
         /\ \A i \in 1 .. Len(blocks[k]) : blocks[k][i] \in Pages
<1>1. blocks[k] \in Seq(Pages) /\ Distinct(blocks[k])
  BY DEF Linked
<1>2. PICK n \in Nat, q \in Seq(Pages) : q = blocks[k] /\ n = Len(q)
  BY <1>1, LenProperties
<1>3. \A i \in 1 .. n : q[i] \in Pages
  BY <1>1, <1>2, ElementOfSeq
<1>4. PICK m \in Nat : m = 2^MAX_ORDER
  BY Numbers, PowerDoubles
<1>5. IsFiniteSet(Pages) /\ Cardinality(Pages) = m
  <2>1. 0 \in Int /\ m - 1 \in Int
    BY <1>4
  <2>2. IsFiniteSet(0 .. m - 1) /\ Cardinality(0 .. m - 1) = IF 0 > m - 1 THEN 0 ELSE (m - 1) - 0 + 1
    BY <2>1, FS_Interval
  <2>3. Pages = 0 .. m - 1
    BY <1>4 DEF Pages
  <2> QED BY <2>2, <2>3
<1>6. IsFiniteSet(1 .. n) /\ Cardinality(1 .. n) = n
  BY FS_Interval
<1>7. PICK f : f = [i \in 1 .. n |-> q[i]]
  OBVIOUS
<1>8. f \in Injection(1 .. n, Pages)
  <2>1. f \in [1 .. n -> Pages]
    BY <1>3, <1>7
  <2>2. \A i, j \in 1 .. n : f[i] = f[j] => i = j
    BY <1>1, <1>2, <1>7 DEF Distinct
  <2>3. DOMAIN f = 1 .. n
    BY <1>7
  <2>4. IsInjective(f)
    BY ONLY <2>2, <2>3 DEF IsInjective
  <2> QED BY <2>1, <2>4 DEF Injection
<1>9. Cardinality(1 .. n) <= Cardinality(Pages)
  BY <1>5, <1>8, FS_Injection DEF ExistsInjection
<1> QED BY <1>2, <1>3, <1>4, <1>5, <1>6, <1>9

LEMMA PartitionFollows == IInv => PagesPartitioned
<1> SUFFICES ASSUME IInv PROVE PagesPartitioned
  OBVIOUS
<1>1. PICK F : F = FreeSet(blocks)
  OBVIOUS
<1>2. /\ Linked(blocks) /\ held \cap F = {} /\ Tiling(held \cup F)
      /\ held \subseteq Tiles /\ F \subseteq Tiles
  BY <1>1 DEF IInv, Apart, Tiling
<1>3. TypeOK
  <2>1. held \subseteq Blocks
    BY <1>2 DEF Tiles
  <2>2. \A k \in Orders : \A i \in 1 .. Len(blocks[k]) : blocks[k][i] \in Pages
    BY <1>2, ShortLists
  <2> QED BY <2>1, <2>2 DEF TypeOK, IInv
<1>4. /\ \A n \in FreeNodes :
            n[1] \in Orders /\ n[2] \in 1 .. Len(blocks[n[1]])
            /\ FreeBlock(n) = Blk(blocks[n[1]][n[2]], n[1]) /\ FreeBlock(n) \in F
      /\ \A d \in F : \E n \in FreeNodes : FreeBlock(n) = d
      /\ \A m, n \in FreeNodes : FreeBlock(m) = FreeBlock(n) => m = n
  <2>1. ASSUME NEW n \in FreeNodes
        PROVE  /\ n[1] \in Orders /\ n[2] \in 1 .. Len(blocks[n[1]]) /\ n = <<n[1], n[2]>>
               /\ FreeBlock(n) = Blk(blocks[n[1]][n[2]], n[1]) /\ FreeBlock(n) \in F
    <3>1. /\ n[1] \in Orders /\ n[2] \in 1 .. 2^MAX_ORDER /\ n[2] <= Len(blocks[n[1]])
          /\ n = <<n[1], n[2]>>
      BY DEF FreeNodes
    <3>2. PICK k \in Orders, i \in Nat : k = n[1] /\ i = n[2] /\ 1 <= i
      BY <3>1
    <3>3. Len(blocks[k]) \in Nat /\ \A j \in 1 .. Len(blocks[k]) : blocks[k][j] \in Pages
      <4>1. 2^MAX_ORDER \in Nat
        BY Numbers, PowerDoubles
      <4> QED BY <1>2, <4>1, ShortLists
    <3>4. i \in 1 .. Len(blocks[k])
      BY <3>1, <3>2, <3>3
    <3>5. FreeBlock(n) = Blk(blocks[k][i], k)
      BY <3>2 DEF FreeBlock, Blk
    <3>6. blocks[k][i] \in Pages /\ blocks[k][i] \in Elements(blocks[k])
      BY <3>3, <3>4 DEF Elements
    <3>7. Blk(blocks[k][i], k) \in F
      BY <1>1, <3>6, OnFreeList
    <3> QED BY <3>1, <3>2, <3>4, <3>5, <3>7
  <2>2. ASSUME NEW d \in F PROVE \E n \in FreeNodes : FreeBlock(n) = d
    <3>1. PICK x \in Pages, k \in Orders : d = Blk(x, k)
      BY <1>2, BlkIs DEF Tiles
    <3>2. x \in Elements(blocks[k])
      BY <1>1, <3>1, OnFreeList
    <3>3. PICK i \in 1 .. Len(blocks[k]) : blocks[k][i] = x
      BY <3>2 DEF Elements
    <3>4. PICK n : n = <<k, i>>
      OBVIOUS
    <3>5. i \in 1 .. 2^MAX_ORDER /\ i <= Len(blocks[k])
      <4>1. 2^MAX_ORDER \in Nat
        BY Numbers, PowerDoubles
      <4>2. Len(blocks[k]) \in 0 .. 2^MAX_ORDER
        BY <1>2, ShortLists
      <4> QED BY <4>1, <4>2
    <3>6. n[1] = k /\ n[2] = i /\ n \in FreeNodes
      BY <3>4, <3>5 DEF FreeNodes
    <3>7. FreeBlock(n) = d
      BY <3>1, <3>3, <3>6 DEF FreeBlock, Blk
    <3> QED BY <3>6, <3>7
  <2>3. ASSUME NEW m \in FreeNodes, NEW n \in FreeNodes, FreeBlock(m) = FreeBlock(n)
        PROVE  m = n
    <3>1. blocks[m[1]][m[2]] = blocks[n[1]][n[2]] /\ m[1] = n[1]
      BY <2>1, <2>3, BlkIs
    <3>2. PICK k \in Orders, i \in 1 .. Len(blocks[m[1]]), j \in 1 .. Len(blocks[n[1]]) :
            /\ k = m[1] /\ k = n[1] /\ i = m[2] /\ j = n[2]
            /\ i \in 1 .. Len(blocks[k]) /\ j \in 1 .. Len(blocks[k])
      BY <2>1, <3>1
    <3>3. blocks[k][i] = blocks[k][j] /\ Distinct(blocks[k])
      BY <1>2, <3>1, <3>2 DEF Linked
    <3>4. PICK q : q = blocks[k]
      OBVIOUS
    <3>5. i \in 1 .. Len(q) /\ j \in 1 .. Len(q) /\ q[i] = q[j] /\ Distinct(q)
      BY <3>2, <3>3, <3>4
    <3>6. i = j
      BY ONLY <3>5 DEF Distinct
    <3> QED BY <2>1, <3>2, <3>6
  <2> QED BY <2>1, <2>2, <2>3
<1>5. ASSUME NEW page \in Pages
      PROVE  Cardinality({b \in held : page \in Span(b)})
               + Cardinality({n \in FreeNodes : page \in Span(FreeBlock(n))}) = 1
  <2>1. PICK H, N : H = {b \in held : page \in Span(b)}
                    /\ N = {n \in FreeNodes : page \in Span(FreeBlock(n))}
    OBVIOUS
  <2>2. PICK d \in held \cup F : In(page, d) /\ \A c \in held \cup F : In(page, c) => c = d
    BY <1>2 DEF Tiling
  <2>3. \A c \in held \cup F : page \in Span(c) <=> c = d
    <3>1. ASSUME NEW c \in held \cup F PROVE page \in Span(c) <=> c = d
      <4>1. c \in Tiles
        BY <1>2
      <4>2. page \in Span(c) <=> In(page, c)
        BY <4>1, SpanIs
      <4> QED BY <2>2, <4>2
    <3> QED BY <3>1
  <2>4. \A n \in FreeNodes : page \in Span(FreeBlock(n)) <=> FreeBlock(n) = d
    BY <1>4, <2>3
  <2>5. CASE d \in held
    <3>1. H = {d}
      BY <2>1, <2>3, <2>5
    <3>2. d \notin F
      BY <1>2, <2>5
    <3>3. N = {}
      BY <1>4, <2>1, <2>4, <3>2
    <3>4. Cardinality(H) = 1 /\ Cardinality(N) = 0
      BY <3>1, <3>3, FS_Singleton, FS_EmptySet
    <3> QED BY <2>1, <3>4
  <2>6. CASE d \in F
    <3>1. d \notin held
      BY <1>2, <2>6
    <3>2. H = {}
      BY <2>1, <2>3, <3>1
    <3>3. PICK n \in FreeNodes : FreeBlock(n) = d
      BY <1>4, <2>6
    <3>4. \A m \in FreeNodes : FreeBlock(m) = d <=> m = n
      BY <1>4, <3>3
    <3>5. N = {n}
      BY <2>1, <2>4, <3>4
    <3>6. Cardinality(H) = 0 /\ Cardinality(N) = 1
      BY <3>2, <3>5, FS_Singleton, FS_EmptySet
    <3> QED BY <2>1, <3>6
  <2> QED BY <2>5, <2>6
<1> QED BY <1>3, <1>5 DEF PagesPartitioned

(* Every page is always in exactly one block: no call of alloc or free     *)
(* loses pages or gives two callers the same one.                          *)
THEOREM PagesPartitionedHolds == Spec => []PagesPartitioned
BY Invariant, PartitionFollows, PTL

LEMMA BitmapFollows == IInv => BitmapMatchesLists
<1> SUFFICES ASSUME IInv, NEW k \in Orders \ {MAX_ORDER},
                    NEW pair \in 0 .. 2^(MAX_ORDER - k - 1) - 1,
                    NEW l, l = pair * 2^(k + 1), NEW r, r = l + 2^k
             PROVE  bitmap[getIndex(l, k)] = 1 <=> (OnList(l, k) # OnList(r, k))
  BY DEF BitmapMatchesLists
<1>1. PICK F : F = FreeSet(blocks)
  OBVIOUS
<1>2. Merged(F) /\ Bits(F, bitmap) /\ F \subseteq Tiles /\ Linked(blocks)
  BY <1>1 DEF IInv, Apart, Tiling
<1>3. HasBuddy(k) /\ k \in Nat /\ k + 1 \in Nat /\ MAX_ORDER \in Nat /\ k \in Orders
      /\ k + 1 \in Orders /\ MAX_ORDER - k - 1 \in Nat /\ (k + 1) + (MAX_ORDER - k - 1) = MAX_ORDER
  <2>1. k \in Orders /\ k # MAX_ORDER /\ MAX_ORDER \in Nat
    BY Numbers
  <2> QED BY <2>1 DEF Orders, HasBuddy
<1>4. PICK d \in Nat \ {0}, e \in Nat \ {0} : d = 2^(k + 1) /\ e = 2^(MAX_ORDER - k - 1)
  BY <1>3, PowerPositive
<1>5. 2^MAX_ORDER = d * e
  BY <1>3, <1>4, PowerSum
<1>6. l \in Pages /\ Aligned(l, k + 1) /\ Num(l, k + 1) = pair
  <2>1. pair \in Nat /\ pair < e /\ l = pair * d /\ l \in Nat
    BY <1>4
  <2>2. pair + 1 <= e
    BY <2>1
  <2>3. (pair + 1) * d <= d * e /\ (pair + 1) * d = pair * d + d
    BY <2>1, <2>2
  <2>4. l < d * e /\ l < (pair + 1) * d
    BY <2>1, <2>3
  <2>5. l \in Pages
    BY <1>5, <2>1, <2>4 DEF Pages
  <2>6. Num(l, k + 1) = pair
    BY <1>3, <1>4, <2>1, <2>4, NumIsNat
  <2> QED BY <1>4, <2>1, <2>5, <2>6 DEF Aligned
<1>7. /\ r \in Pages /\ Aligned(r, k) /\ Num(r, k + 1) = pair
      /\ \A q \in Pages : Num(q, k) = Num(r, k) <=> Num(q, k + 1) = pair /\ Num(q, k) # Num(l, k)
  BY <1>3, <1>6, RightHalf
<1>8. /\ OnList(l, k) <=> Blk(l, k) \in F
      /\ OnList(r, k) <=> Blk(r, k) \in F
  <2>1. ASSUME NEW x \in Pages PROVE OnList(x, k) <=> Blk(x, k) \in F
    <3>1. OnList(x, k) <=> x \in Elements(blocks[k])
      BY DEF OnList, Elements
    <3> QED BY <1>1, <1>3, <3>1, OnFreeList
  <2> QED BY <1>6, <1>7, <2>1
<1>9. ASSUME NEW x \in Pages, Blk(x, k) \in F, Num(x, k + 1) = pair
      PROVE  x = l \/ x = r
  <2>1. Aligned(x, k) /\ Aligned(l, k) /\ x \in Nat /\ l \in Nat /\ r \in Nat
    <3>1. Aligned(x, k)
      BY <1>2, <1>3, <1>9, BlkIs
    <3>2. l \in Nat /\ x \in Nat /\ r \in Nat
      BY <1>6, <1>7, Numbers
    <3> QED BY <1>3, <1>6, <3>1, <3>2, LeftAndRight
  <2>2. x = Num(x, k) * 2^k /\ l = Num(l, k) * 2^k /\ r = Num(r, k) * 2^k
    BY <1>3, <1>7, <2>1, AlignedSpan
  <2>3. Num(x, k) = Num(l, k) \/ Num(x, k) = Num(r, k)
    BY <1>7, <1>9
  <2> QED BY <2>2, <2>3
<1>10. l # r
  <2>1. 2^k \in Nat \ {0} /\ l \in Nat
    BY <1>3, <1>6, PowerPositive, Numbers
  <2> QED BY <2>1
<1>11. bitmap[getIndex(l, k)] = 1 <=> \E x \in Pages : Blk(x, k) \in F /\ Num(x, k + 1) = pair
  BY <1>2, <1>3, <1>6 DEF Bits, Half
<1>12. (\E x \in Pages : Blk(x, k) \in F /\ Num(x, k + 1) = pair)
         <=> Blk(l, k) \in F \/ Blk(r, k) \in F
  BY <1>6, <1>7, <1>9
<1>13. ~(Blk(l, k) \in F /\ Blk(r, k) \in F)
  BY <1>2, <1>3, <1>6, <1>7, <1>10 DEF Merged
<1>14. OnList(l, k) \in BOOLEAN /\ OnList(r, k) \in BOOLEAN
  BY DEF OnList
<1> QED BY <1>8, <1>11, <1>12, <1>13, <1>14

(* The bit that isBuddyFree reads is always that of a pair of which        *)
(* exactly one buddy is on its free list.                                  *)
THEOREM BitmapMatchesListsHolds == Spec => []BitmapMatchesLists
BY Invariant, BitmapFollows, PTL

(* The first half of a pair that x is not in.                              *)
LEMMA Neighbour ==
  ASSUME NEW x \in Pages, NEW k \in Orders, HasBuddy(k)
  PROVE  \E q \in Pages : Num(q, k + 1) = Num(x, k + 1) /\ Num(q, k) # Num(x, k)
<1>1. /\ k \in Nat /\ k + 1 \in Nat /\ k + 1 \in Orders /\ x \in Nat /\ MAX_ORDER \in Nat
      /\ MAX_ORDER - (k + 1) \in Nat /\ (k + 1) + (MAX_ORDER - (k + 1)) = MAX_ORDER
  BY Numbers DEF Orders
<1>2. PICK d \in Nat \ {0}, e \in Nat \ {0} : d = 2^(k + 1) /\ e = 2^(MAX_ORDER - (k + 1))
  BY <1>1, PowerPositive
<1>3. 2^MAX_ORDER = d * e
  BY <1>1, <1>2, PowerSum
<1>4. PICK n \in Nat : n = Num(x, k + 1) /\ n < e
  BY <1>1, <1>2, NumBound
<1>5. PICK l \in Nat : l = n * d
  OBVIOUS
<1>6. l \in Pages /\ Aligned(l, k + 1) /\ Num(l, k + 1) = n
  <2>1. (n + 1) * d <= d * e /\ (n + 1) * d = n * d + d
    BY <1>4
  <2>2. l < d * e /\ n * d <= l /\ l < (n + 1) * d
    BY <1>5, <2>1
  <2>3. l \in Pages
    BY <1>3, <2>2 DEF Pages
  <2>4. Num(l, k + 1) = n
    BY <1>1, <1>2, <2>2, NumIsNat
  <2> QED BY <1>2, <1>5, <2>3, <2>4 DEF Aligned
<1>7. /\ l + 2^k \in Pages /\ Num(l + 2^k, k + 1) = n
      /\ Num(l + 2^k, k) # Num(l, k)
  BY <1>6, RightHalf
<1>8. CASE Num(x, k) = Num(l, k)
  BY <1>4, <1>7, <1>8
<1>9. CASE Num(x, k) # Num(l, k)
  BY <1>4, <1>6, <1>9
<1> QED BY <1>8, <1>9

(* If no block of an order or above is free, then a free block lies within *)
(* an extent of that order; the smallest free one there would have its     *)
(* buddy, or a part of it, held.                                           *)
LEMMA ExhaustionFollows == IInv => NoFalseExhaustion
<1> SUFFICES ASSUME IInv, NEW o \in Orders, \A k \in o .. MAX_ORDER : blocks[k] = <<>>,
                    NEW i \in 0 .. 2^(MAX_ORDER - o) - 1,
                    NEW x, x = [addr |-> i * 2^o, order |-> o],
                    \A b \in held : Span(b) \cap Span(x) = {}
             PROVE  FALSE
  BY DEF NoFalseExhaustion
<1>1. PICK F : F = FreeSet(blocks)
  OBVIOUS
<1>2. /\ Merged(F) /\ Tiling(held \cup F) /\ held \subseteq Tiles /\ F \subseteq Tiles
  BY <1>1 DEF IInv, Apart, Tiling
<1>3. o \in Nat /\ MAX_ORDER \in Nat /\ o <= MAX_ORDER
      /\ MAX_ORDER - o \in Nat /\ o + (MAX_ORDER - o) = MAX_ORDER
  <2>1. o \in Nat /\ MAX_ORDER \in Nat /\ o <= MAX_ORDER
    BY Numbers
  <2> QED BY <2>1
<1>4. PICK d \in Nat \ {0}, e \in Nat \ {0} : d = 2^o /\ e = 2^(MAX_ORDER - o)
  BY <1>3, PowerPositive
<1>5. PICK l \in Nat : l = i * d /\ i \in Nat /\ i < e
  BY <1>4
<1>6. l \in Pages /\ Aligned(l, o) /\ Num(l, o) = i
  <2>1. i + 1 <= e
    BY <1>4, <1>5
  <2>2. (i + 1) * d <= d * e /\ (i + 1) * d = i * d + d
    BY <1>5, <2>1
  <2>3. l < d * e /\ i * d <= l /\ l < (i + 1) * d
    BY <1>5, <2>2
  <2>4. 2^MAX_ORDER = d * e
    BY <1>3, <1>4, PowerSum
  <2>5. l \in Pages
    BY <2>3, <2>4 DEF Pages
  <2>6. Num(l, o) = i
    BY <1>3, <1>4, <1>5, <2>3, NumIsNat
  <2> QED BY <1>4, <1>5, <2>5, <2>6 DEF Aligned
<1>7. x = Blk(l, o) /\ x \in Tiles
  <2>1. x = Blk(l, o)
    BY <1>4, <1>5 DEF Blk
  <2> QED BY <1>6, <2>1, BlkIs
<1>8. ASSUME NEW q \in Pages, Num(q, o) = i
      PROVE  \E y \in Pages, k \in 0 .. o - 1 :
               k \in Orders /\ HasBuddy(k) /\ Blk(y, k) \in F /\ Num(q, k) = Num(y, k)
               /\ Num(y, o) = i
  <2>1. PICK c \in held \cup F : In(q, c)
    BY <1>2, OneBlock
  <2>2. q \in Span(x)
    <3>1. In(q, x)
      BY <1>6, <1>7, <1>8, BlkIs
    <3> QED BY <1>7, <3>1, SpanIs
  <2>3. c \notin held
    <3>1. SUFFICES ASSUME c \in held PROVE FALSE
      OBVIOUS
    <3>2. q \in Span(c)
      BY <1>2, <2>1, <3>1, SpanIs
    <3> QED BY <2>2, <3>1, <3>2
  <2>4. c \in F
    BY <2>1, <2>3
  <2>5. PICK y \in Pages, k \in Orders : c = Blk(y, k)
    BY <1>2, <2>4, BlkIs DEF Tiles
  <2>6. Num(q, k) = Num(y, k)
    BY <2>1, <2>5, BlkIs
  <2>7. k \in Nat /\ k <= MAX_ORDER
    BY Numbers
  <2>8. ~(o <= k)
    <3>1. SUFFICES ASSUME o <= k PROVE FALSE
      OBVIOUS
    <3>2. k \in o .. MAX_ORDER
      BY <1>3, <2>7, <3>1
    <3>3. blocks[k] = <<>> /\ Elements(<<>>) = {}
      BY <3>2 DEF Elements
    <3>4. y \in Elements(blocks[k])
      BY <1>1, <2>4, <2>5, OnFreeList
    <3> QED BY <3>3, <3>4
  <2>9. k \in 0 .. o - 1 /\ HasBuddy(k) /\ k <= o
    BY <1>3, <2>7, <2>8 DEF HasBuddy
  <2>10. Num(y, o) = i
    <3>1. q \in Nat /\ y \in Nat
      BY Numbers
    <3>2. Num(q, o) = Num(y, o)
      BY <1>3, <2>6, <2>7, <2>9, <3>1, SameAbove
    <3> QED BY <1>8, <3>2
  <2>11. Blk(y, k) \in F
    BY <2>4, <2>5
  <2> QED BY ONLY <2>6, <2>9, <2>10, <2>11, y \in Pages, k \in Orders
<1>9. PICK K \in SUBSET Nat :
        K = {k \in 0 .. o - 1 : k \in Orders /\ \E y \in Pages : Blk(y, k) \in F /\ Num(y, o) = i}
  <2>1. {k \in 0 .. o - 1 : k \in Orders /\ \E y \in Pages : Blk(y, k) \in F /\ Num(y, o) = i}
          \subseteq Nat
    OBVIOUS
  <2> QED BY <2>1
<1>10. K # {}
  BY <1>6, <1>8, <1>9
<1>11. PICK k \in K : \A j \in K : k <= j
  BY <1>10, Least
<1>12. k \in 0 .. o - 1 /\ k \in Orders /\ k \in Nat /\ k + 1 \in Nat /\ k + 1 <= o
  BY <1>3, <1>9
<1>13. PICK y \in Pages : Blk(y, k) \in F /\ Num(y, o) = i
  BY <1>9
<1>14. HasBuddy(k)
  BY <1>3, <1>12 DEF HasBuddy
<1>15. PICK q \in Pages : Num(q, k + 1) = Num(y, k + 1) /\ Num(q, k) # Num(y, k)
  BY <1>12, <1>14, Neighbour
<1>16. q \in Nat /\ y \in Nat
  BY Numbers
<1>17. Num(q, o) = i
  <2>1. PICK m \in Nat : m = k + 1 /\ m <= o /\ Num(q, m) = Num(y, m)
    BY <1>12, <1>15
  <2>2. Num(q, o) = Num(y, o)
    BY <1>3, <1>16, <2>1, SameAbove
  <2> QED BY <1>13, <2>2
<1>18. PICK z \in Pages, j \in 0 .. o - 1 :
         j \in Orders /\ HasBuddy(j) /\ Blk(z, j) \in F /\ Num(q, j) = Num(z, j) /\ Num(z, o) = i
  BY <1>8, <1>17
<1>19. j \in K /\ j \in Nat /\ k <= j /\ z \in Nat
  <2>1. j \in K
    BY <1>9, <1>18
  <2> QED BY <1>11, <2>1, Numbers
<1>20. CASE j = k
  <2>1. Num(q, k + 1) = Num(z, k + 1)
    BY <1>12, <1>16, <1>18, <1>19, <1>20, SameAbove
  <2>2. z = y
    BY <1>2, <1>12, <1>13, <1>14, <1>15, <1>18, <1>20, <2>1 DEF Merged
  <2> QED BY <1>15, <1>18, <1>20, <2>2
<1>21. CASE j # k
  <2>1. k + 1 <= j
    BY <1>12, <1>19, <1>21
  <2>2. Num(y, j) = Num(q, j)
    BY <1>12, <1>15, <1>16, <1>19, <2>1, SameAbove
  <2>3. In(y, Blk(z, j)) /\ In(y, Blk(y, k))
    BY <1>18, <2>2, BlkIs
  <2>4. Blk(z, j) = Blk(y, k)
    BY <1>2, <1>13, <1>18, <2>3, OneBlock
  <2> QED BY <1>21, <2>4, BlkIs
<1> QED BY <1>20, <1>21

(* alloc returns null only for want of memory: whenever no list can serve  *)
(* an order, every aligned extent of it has a page that is held.           *)
THEOREM NoFalseExhaustionHolds == Spec => []NoFalseExhaustion
BY Invariant, ExhaustionFollows, PTL

-----------------------------------------------------------------------------
(* The refinement.                                                         *)
LEMMA TilesAreExtents ==
  ASSUME NEW b \in Tiles
  PROVE  b \in Pool!Extents
<1>1. b \in Blocks /\ b.addr \in Nat /\ b.order \in Nat /\ Aligned(b.addr, b.order)
  BY BlkIs, Numbers DEF Tiles
<1>2. PICK n \in Nat, d \in Nat \ {0} : d = 2^b.order /\ b.addr = n * d
  BY <1>1, PowerPositive DEF Aligned
<1>3. (n * d) % d = 0
  BY ONLY n \in Nat, d \in Nat \ {0}
<1>4. b.addr % 2^b.order = 0
  BY <1>2, <1>3
<1>5. b \in [addr : Pool!Pages, order : Pool!Orders]
  BY <1>1 DEF Blocks, Pool!Pages, Pool!Orders, Pages, Orders
<1> QED BY <1>4, <1>5 DEF Pool!Extents

LEMMA AllocTakes ==
  ASSUME IInv, NEW order \in Orders, alloc(order)
  PROVE  Pool!Take(order)
<1>1. PICK p \in Pages :
        /\ held' = held \cup {Blk(p, order)} /\ Blk(p, order) \in Tiles
        /\ \A q \in Pages, b \in held : In(q, Blk(p, order)) => ~In(q, b)
  BY AllocPreserves
<1>2. PICK x \in Tiles : x = Blk(p, order) /\ x.order = order
  BY <1>1, BlkIs
<1>3. held \subseteq Tiles
  BY DEF IInv, Apart, Tiling
<1>4. ASSUME NEW h \in held, NEW q \in Span(h) \cap Span(x) PROVE FALSE
  <2>1. q \in Pages
    <3>1. x.addr \in Pages /\ x.order \in Orders /\ Aligned(x.addr, x.order)
      BY BlkIs DEF Tiles
    <3>2. x.addr \in Nat /\ x.addr + 2^x.order <= 2^MAX_ORDER
      BY <3>1, NumBound
    <3>3. 2^x.order \in Nat /\ 2^MAX_ORDER \in Nat
      BY <3>1, Numbers, PowerDoubles
    <3>4. PICK s \in Nat, m \in Nat : s = 2^x.order /\ m = 2^MAX_ORDER
      BY <3>3
    <3>5. q \in x.addr .. x.addr + s - 1
      BY <1>4, <3>4 DEF Span
    <3> QED BY <3>2, <3>4, <3>5 DEF Pages
  <2>2. In(q, h) /\ In(q, x)
    BY <1>3, <2>1, SpanIs
  <2> QED BY <1>1, <1>2, <2>1, <2>2
<1>5. Pool!Available(x)
  <2>1. \A b : Pool!Span(b) = Span(b)
    BY DEF Pool!Span, Span
  <2> QED BY <1>4, <2>1 DEF Pool!Available
<1>6. x \in Pool!Extents
  BY TilesAreExtents
<1> QED BY <1>1, <1>2, <1>5, <1>6 DEF Pool!Take

(* What alloc and free do is what the callers of the allocator are         *)
(* promised: an extent that alloc returns is aligned to its size and free  *)
(* of everything that is held, and free takes back a whole one.            *)
THEOREM ImplementsBlockPoolHolds == Spec => ImplementsBlockPool
<1>1. Init => Pool!PoolInit
  BY DEF Init, Pool!PoolInit
<1>2. IInv /\ [Next]_vars => [Pool!PoolNext]_held
  <2> SUFFICES ASSUME IInv, [Next]_vars PROVE [Pool!PoolNext]_held
    OBVIOUS
  <2>1. ASSUME NEW order \in Orders, alloc(order) PROVE Pool!PoolNext
    <3>1. order \in Pool!Orders
      BY DEF Orders, Pool!Orders
    <3>2. Pool!Take(order)
      BY <2>1, AllocTakes
    <3> QED BY <3>1, <3>2 DEF Pool!PoolNext
  <2>2. ASSUME NEW b \in held, free(b) PROVE Pool!PoolNext
    <3>1. Pool!Give(b)
      BY <2>2, FreePreserves DEF Pool!Give
    <3> QED BY <3>1 DEF Pool!PoolNext
  <2>3. CASE UNCHANGED vars
    BY <2>3 DEF vars
  <2> QED BY <2>1, <2>2, <2>3 DEF Next
<1> QED BY <1>1, <1>2, Invariant, PTL DEF Spec, ImplementsBlockPool, Pool!PoolSpec
=============================================================================
