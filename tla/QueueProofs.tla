----------------------------- MODULE QueueProofs -----------------------------
(* What the operations on queues do to the elements they hold, two         *)
(* inductions over intervals of numbers for sets of them, the powers of    *)
(* two, and division.                                                      *)
EXTENDS Queues, SequenceTheorems, FiniteSetTheorems, WellFoundedInduction, TLAPS

(* An element put at the end of a queue.                                   *)
LEMMA AppendElements ==
  ASSUME NEW S, NEW q \in Seq(S), NEW e \in S
  PROVE  /\ Append(q, e) \in Seq(S)
         /\ Len(Append(q, e)) = Len(q) + 1
         /\ Elements(Append(q, e)) = Elements(q) \cup {e}
         /\ Distinct(q) /\ e \notin Elements(q) => Distinct(Append(q, e))
<1> DEFINE a == Append(q, e)
<1>1. /\ a \in Seq(S)
      /\ Len(a) = Len(q) + 1
      /\ \A i \in 1 .. Len(q) : a[i] = q[i]
      /\ a[Len(q) + 1] = e
      /\ Len(q) \in Nat
  BY AppendProperties, LenProperties
<1> HIDE DEF a
<1>2. Elements(a) = Elements(q) \cup {e}
  BY <1>1 DEF Elements
<1>3. ASSUME Distinct(q), e \notin Elements(q)
      PROVE  Distinct(a)
  BY <1>1, <1>3 DEF Elements, Distinct
<1> QED BY <1>1, <1>2, <1>3 DEF a

(* The first element of a queue taken off.                                 *)
LEMMA TailElements ==
  ASSUME NEW S, NEW q \in Seq(S), q # <<>>
  PROVE  /\ Head(q) \in S
         /\ Tail(q) \in Seq(S)
         /\ Len(Tail(q)) = Len(q) - 1
         /\ Elements(q) = Elements(Tail(q)) \cup {Head(q)}
         /\ Distinct(q) => Distinct(Tail(q)) /\ Head(q) \notin Elements(Tail(q))
<1> DEFINE h == Head(q)
           t == Tail(q)
<1>1. /\ h \in S
      /\ t \in Seq(S)
      /\ Len(t) = Len(q) - 1
      /\ \A i \in 1 .. Len(t) : t[i] = q[i + 1]
      /\ h = q[1]
      /\ Len(q) \in Nat \ {0}
  BY HeadTailProperties, EmptySeq, LenProperties
<1> HIDE DEF h, t
<1>2. Elements(q) = Elements(t) \cup {h}
  <2>1. ASSUME NEW i \in 1 .. Len(q) PROVE q[i] \in Elements(t) \cup {h}
    <3>1. CASE i = 1 BY <1>1, <3>1
    <3>2. CASE i # 1
      <4>1. i - 1 \in 1 .. Len(t) /\ t[i - 1] = q[i] BY <1>1, <3>2
      <4> QED BY <4>1 DEF Elements
    <3> QED BY <3>1, <3>2
  <2>2. ASSUME NEW i \in 1 .. Len(t) PROVE t[i] \in Elements(q)
    BY <1>1 DEF Elements
  <2>3. h \in Elements(q) BY <1>1 DEF Elements
  <2> QED BY <2>1, <2>2, <2>3 DEF Elements
<1>3. ASSUME Distinct(q) PROVE Distinct(t) /\ h \notin Elements(t)
  BY SMTT(30), <1>1, <1>3 DEF Elements, Distinct
<1> QED BY <1>1, <1>2, <1>3 DEF h, t

(* One queue put behind another.                                           *)
LEMMA ConcatElements ==
  ASSUME NEW S, NEW p \in Seq(S), NEW q \in Seq(S)
  PROVE  /\ p \o q \in Seq(S)
         /\ Elements(p \o q) = Elements(p) \cup Elements(q)
         /\ Distinct(p) /\ Distinct(q) /\ Elements(p) \cap Elements(q) = {}
              => Distinct(p \o q)
<1> DEFINE c == p \o q
<1>1. /\ c \in Seq(S)
      /\ Len(c) = Len(p) + Len(q)
      /\ \A i \in 1 .. Len(c) : c[i] = IF i <= Len(p) THEN p[i] ELSE q[i - Len(p)]
      /\ Len(p) \in Nat /\ Len(q) \in Nat
  BY ConcatProperties, LenProperties
<1> HIDE DEF c
<1>2. Elements(c) = Elements(p) \cup Elements(q)
  <2>1. ASSUME NEW i \in 1 .. Len(c) PROVE c[i] \in Elements(p) \cup Elements(q)
    <3>1. CASE i <= Len(p) BY <1>1, <3>1 DEF Elements
    <3>2. CASE i > Len(p)
      <4>1. i - Len(p) \in 1 .. Len(q) /\ c[i] = q[i - Len(p)] BY <1>1, <3>2
      <4> QED BY <4>1 DEF Elements
    <3> QED BY <1>1, <3>1, <3>2
  <2>2. ASSUME NEW i \in 1 .. Len(p) PROVE p[i] \in Elements(c)
    BY <1>1 DEF Elements
  <2>3. ASSUME NEW i \in 1 .. Len(q) PROVE q[i] \in Elements(c)
    <3> DEFINE j == i + Len(p)
    <3>1. j \in 1 .. Len(c) /\ ~(j <= Len(p)) /\ j - Len(p) = i BY <1>1
    <3> HIDE DEF j
    <3>2. c[j] = q[i] BY <1>1, <3>1
    <3> QED BY <3>1, <3>2 DEF Elements
  <2> QED BY <2>1, <2>2, <2>3 DEF Elements
<1>3. ASSUME Distinct(p), Distinct(q), Elements(p) \cap Elements(q) = {}
      PROVE  Distinct(c)
  <2> SUFFICES ASSUME NEW i \in 1 .. Len(c), NEW j \in 1 .. Len(c), c[i] = c[j]
               PROVE  i = j
    BY DEF Distinct
  <2>1. CASE i <= Len(p) /\ j <= Len(p) BY <1>1, <1>3, <2>1 DEF Distinct
  <2>2. CASE i > Len(p) /\ j > Len(p)
    <3>1. i - Len(p) \in 1 .. Len(q) /\ j - Len(p) \in 1 .. Len(q) BY <1>1, <2>2
    <3>2. q[i - Len(p)] = q[j - Len(p)] BY <1>1, <2>2
    <3>3. i - Len(p) = j - Len(p) BY <1>3, <3>1, <3>2 DEF Distinct
    <3> QED BY <1>1, <3>3
  <2>3. CASE i <= Len(p) /\ j > Len(p)
    <3>1. c[i] \in Elements(p) /\ c[j] \in Elements(q) BY <1>1, <2>3 DEF Elements
    <3> QED BY <1>3, <3>1
  <2>4. CASE i > Len(p) /\ j <= Len(p)
    <3>1. c[j] \in Elements(p) /\ c[i] \in Elements(q) BY SMTT(30), <1>1, <2>4 DEF Elements
    <3> QED BY <1>3, <3>1
  <2> QED BY <1>1, <2>1, <2>2, <2>3, <2>4
<1> QED BY <1>1, <1>2, <1>3 DEF c

(* One put in front of a queue.                                            *)
LEMMA PushElements ==
  ASSUME NEW S, NEW q \in Seq(S), NEW e \in S
  PROVE  /\ <<e>> \o q \in Seq(S) /\ Elements(<<e>> \o q) = Elements(q) \cup {e}
         /\ Distinct(q) /\ e \notin Elements(q) => Distinct(<<e>> \o q)
<1>1. PICK p : p = <<e>>
  OBVIOUS
<1>2. p \in Seq(S) /\ Len(p) = 1 /\ p[1] = e
  BY <1>1
<1>3. Elements(p) = {e} /\ Distinct(p)
  BY <1>2 DEF Elements, Distinct
<1>4. p \o q \in Seq(S) /\ Elements(p \o q) = {e} \cup Elements(q)
  BY <1>2, <1>3, ConcatElements
<1>5. ASSUME Distinct(q), e \notin Elements(q) PROVE Distinct(p \o q)
  BY <1>2, <1>3, <1>5, ConcatElements
<1> QED BY <1>1, <1>4, <1>5

(* The number of the elements of a queue without duplicates.               *)
LEMMA DistinctCount ==
  ASSUME NEW S, NEW q \in Seq(S), Distinct(q)
  PROVE  IsFiniteSet(Elements(q)) /\ Cardinality(Elements(q)) = Len(q)
<1>1. PICK n \in Nat : n = Len(q)
  BY LenProperties
<1>2. PICK f : f = [i \in 1 .. n |-> q[i]]
  OBVIOUS
<1>3. DOMAIN f = 1 .. n /\ f \in [1 .. n -> Elements(q)] /\ \A i \in 1 .. n : f[i] = q[i]
  BY <1>1, <1>2 DEF Elements
<1>4. \A i, j \in 1 .. n : f[i] = f[j] => i = j
  BY <1>1, <1>3 DEF Distinct
<1>5. \A x \in Elements(q) : \E i \in 1 .. n : f[i] = x
  BY <1>1, <1>3 DEF Elements
<1>6. f \in Bijection(1 .. n, Elements(q))
  BY ONLY <1>3, <1>4, <1>5 DEF Bijection, Injection, Surjection, IsInjective
<1>7. ExistsBijection(1 .. n, Elements(q))
  BY ONLY <1>6 DEF ExistsBijection
<1>8. Cardinality(Elements(q)) = n
  BY <1>7, FS_CountingElements
<1>9. IsFiniteSet(1 .. n)
  BY FS_Interval
<1>10. IsFiniteSet(Elements(q))
  BY ONLY <1>7, <1>9, FS_Bijection
<1> QED BY <1>1, <1>8, <1>10

(* One taken out of a queue, wherever it is.                               *)
WithoutNth(q, i) == SubSeq(q, 1, i - 1) \o SubSeq(q, i + 1, Len(q))

LEMMA RemoveElement ==
  ASSUME NEW S, NEW q \in Seq(S), Distinct(q), NEW i \in 1 .. Len(q),
         NEW c, c = WithoutNth(q, i)
  PROVE  /\ c \in Seq(S) /\ Distinct(c) /\ Elements(c) = Elements(q) \ {q[i]}
         /\ Len(c) = Len(q) - 1
         /\ \A j \in 1 .. Len(c) : c[j] = IF j < i THEN q[j] ELSE q[j + 1]
<1>1. PICK n \in Nat : n = Len(q)
  BY LenProperties
<1>2. PICK l : l = SubSeq(q, 1, i - 1)
  OBVIOUS
<1>3. PICK r : r = SubSeq(q, i + 1, n)
  OBVIOUS
<1>0. i \in 1 .. n /\ \A j \in 1 .. n : q[j] \in S
  BY <1>1, ElementOfSeq
<1>4. l \in Seq(S) /\ Len(l) = i - 1 /\ \A j \in 1 .. i - 1 : l[j] = q[j]
  <2>1. 1 \in Int /\ i - 1 \in Int /\ \A j \in 1 .. i - 1 : q[j] \in S
    BY <1>0
  <2>2. /\ l \in Seq(S) /\ Len(l) = IF 1 <= i - 1 THEN i - 1 - 1 + 1 ELSE 0
        /\ \A j \in 1 .. i - 1 - 1 + 1 : l[j] = q[1 + j - 1]
    BY <1>2, <2>1, SubSeqProperties
  <2>3. \A j \in 1 .. i - 1 : j \in 1 .. i - 1 - 1 + 1 /\ 1 + j - 1 = j
    BY <1>0
  <2>4. (IF 1 <= i - 1 THEN i - 1 - 1 + 1 ELSE 0) = i - 1
    BY <1>0
  <2> QED BY <2>2, <2>3, <2>4
<1>5. r \in Seq(S) /\ Len(r) = n - i /\ \A j \in 1 .. n - i : r[j] = q[i + j]
  <2>1. n \in Int /\ i + 1 \in Int /\ \A j \in i + 1 .. n : q[j] \in S
    BY <1>0
  <2>2. /\ r \in Seq(S) /\ Len(r) = IF i + 1 <= n THEN n - (i + 1) + 1 ELSE 0
        /\ \A j \in 1 .. n - (i + 1) + 1 : r[j] = q[(i + 1) + j - 1]
    BY <1>3, <2>1, SubSeqProperties
  <2>3. \A j \in 1 .. n - i : j \in 1 .. n - (i + 1) + 1 /\ (i + 1) + j - 1 = i + j
    BY <1>0
  <2>4. (IF i + 1 <= n THEN n - (i + 1) + 1 ELSE 0) = n - i
    BY <1>0
  <2> QED BY <2>2, <2>3, <2>4
<1>6. Elements(l) = {q[j] : j \in 1 .. i - 1}
  BY <1>4 DEF Elements
<1>7. Elements(r) = {q[j] : j \in i + 1 .. n}
  <2>1. \A j \in i + 1 .. n : j - i \in 1 .. n - i /\ i + (j - i) = j
    BY <1>1
  <2>2. \A j \in 1 .. n - i : i + j \in i + 1 .. n
    BY <1>1
  <2>3. Elements(r) = {r[j] : j \in 1 .. n - i}
    BY <1>5 DEF Elements
  <2>4. ASSUME NEW j \in i + 1 .. n PROVE q[j] \in Elements(r)
    <3>1. j - i \in 1 .. n - i /\ r[j - i] = q[i + (j - i)]
      BY <1>5, <2>1
    <3> QED BY <2>1, <2>3, <3>1
  <2>5. ASSUME NEW j \in 1 .. n - i PROVE r[j] \in {q[k] : k \in i + 1 .. n}
    BY <1>5, <2>2
  <2> QED BY <2>3, <2>4, <2>5
<1>8. \A j, k \in 1 .. n : q[j] = q[k] => j = k
  BY <1>1 DEF Distinct
<1>9. Distinct(l)
  BY <1>1, <1>4, <1>8 DEF Distinct
<1>10. Distinct(r)
  <2>1. ASSUME NEW j \in 1 .. n - i, NEW k \in 1 .. n - i, r[j] = r[k] PROVE j = k
    <3>0. i + j \in 1 .. n /\ i + k \in 1 .. n
      BY <1>0
    <3>1. q[i + j] = q[i + k] /\ i + j \in 1 .. n /\ i + k \in 1 .. n
      BY <1>5, <2>1, <3>0
    <3>2. i + j = i + k
      BY <1>8, <3>1
    <3> QED BY <3>2
  <2> QED BY <1>5, <2>1 DEF Distinct
<1>11. Elements(l) \cap Elements(r) = {}
  BY <1>1, <1>6, <1>7, <1>8
<1>12. l \o r \in Seq(S) /\ Elements(l \o r) = Elements(l) \cup Elements(r) /\ Distinct(l \o r)
  BY <1>4, <1>5, <1>9, <1>10, <1>11, ConcatElements
<1>13. Elements(l) \cup Elements(r) = Elements(q) \ {q[i]}
  <2>1. Elements(q) = {q[j] : j \in 1 .. n}
    BY <1>1 DEF Elements
  <2>2. 1 .. n = (1 .. i - 1) \cup {i} \cup (i + 1 .. n) /\ i \notin 1 .. i - 1
        /\ i \notin i + 1 .. n
    BY <1>0
  <2>3. \A j \in 1 .. n : q[j] = q[i] => j = i
    BY <1>0, <1>8
  <2> QED BY <1>6, <1>7, <2>1, <2>2, <2>3
<1>14. c = l \o r
  BY <1>1, <1>2, <1>3 DEF WithoutNth
<1>15. Len(l \o r) = n - 1 /\ \A j \in 1 .. n - 1 : (l \o r)[j] = IF j < i THEN l[j] ELSE r[j - (i - 1)]
  <2>1. Len(l) + Len(r) = n - 1 /\ Len(l) = i - 1
    BY <1>0, <1>1, <1>4, <1>5
  <2>2. /\ Len(l \o r) = Len(l) + Len(r)
        /\ \A j \in 1 .. Len(l) + Len(r) : (l \o r)[j] = IF j <= Len(l) THEN l[j] ELSE r[j - Len(l)]
    BY <1>4, <1>5, ConcatProperties
  <2>3. \A j \in 1 .. n - 1 : j <= i - 1 <=> j < i
    BY <1>0
  <2> QED BY <2>1, <2>2, <2>3
<1>16. ASSUME NEW j \in 1 .. n - 1 PROVE (l \o r)[j] = IF j < i THEN q[j] ELSE q[j + 1]
  <2>1. CASE j < i
    BY <1>0, <1>4, <1>15, <2>1
  <2>2. CASE ~(j < i)
    <3>1. j - (i - 1) \in 1 .. n - i /\ i + (j - (i - 1)) = j + 1
      BY <1>0, <2>2
    <3> QED BY <1>5, <1>15, <2>2, <3>1
  <2> QED BY <2>1, <2>2
<1> QED BY <1>1, <1>12, <1>13, <1>14, <1>15, <1>16

-----------------------------------------------------------------------------
(* Every set of natural numbers has a least element.                       *)
LEMMA Least ==
  ASSUME NEW T \in SUBSET Nat, T # {}
  PROVE  \E n \in T : \A k \in T : n <= k
<1>1. PICK R : R = OpToRel(<, Nat)
  OBVIOUS
<1>2. IsWellFoundedOn(R, Nat)
  BY <1>1, NatLessThanWellFounded
<1>3. PICK n \in T : \A k \in T : ~(<<k, n>> \in R)
  <2>1. T \subseteq Nat
    OBVIOUS
  <2>2. \E x \in T : \A y \in T : ~ (<<y, x>> \in R)
    BY ONLY <1>2, <2>1, T # {}, WFMin
  <2> QED BY ONLY <2>2
<1>4. \A j, k \in Nat : j < k => <<j, k>> \in R
  BY <1>1 DEF OpToRel
<1>5. ASSUME NEW k \in T PROVE n <= k
  <2>1. k \in Nat /\ n \in Nat /\ ~(<<k, n>> \in R)
    BY <1>3
  <2>2. ~(k < n)
    BY ONLY <1>4, <2>1
  <2> QED BY <2>1, <2>2
<1> QED BY <1>3, <1>5

(* Induction from a to b, and from b to a.                                 *)
LEMMA Up ==
  ASSUME NEW a \in Nat, NEW b \in Nat, NEW T, a \in T,
         \A k \in a .. b : k \in T /\ k < b => k + 1 \in T
  PROVE  \A k \in a .. b : k \in T
<1> SUFFICES ASSUME NEW j \in a .. b, j \notin T PROVE FALSE
  OBVIOUS
<1>1. PICK U \in SUBSET Nat : U = {k \in a .. b : k \notin T}
  <2>1. {k \in a .. b : k \notin T} \subseteq Nat
    OBVIOUS
  <2> QED BY <2>1
<1>2. PICK n \in U : \A k \in U : n <= k
  BY <1>1, Least
<1>3. n - 1 \in a .. b /\ n - 1 \in T /\ n - 1 < b
  <2>1. n \in a .. b /\ n \notin T /\ n # a
    BY <1>1, <1>2
  <2>2. n - 1 \in a .. b /\ ~(n <= n - 1)
    BY <2>1
  <2> QED BY <1>1, <1>2, <2>1, <2>2
<1>4. (n - 1) + 1 = n /\ n \notin T
  BY <1>1, <1>2
<1> QED BY <1>3, <1>4

LEMMA Down ==
  ASSUME NEW a \in Nat, NEW b \in Nat, NEW T, b \in T,
         \A k \in a .. b : k \in T /\ k > a => k - 1 \in T
  PROVE  \A k \in a .. b : k \in T
<1>1. PICK U : U = {k \in a .. b : b - (k - a) \in T}
  OBVIOUS
<1>2. \A k \in a .. b : k \in U
  <2>1. ASSUME a <= b PROVE a \in U
    BY <1>1, <2>1
  <2>2. ASSUME NEW k \in a .. b, k \in U, k < b PROVE k + 1 \in U
    <3>1. b - (k - a) \in a .. b /\ b - (k - a) > a /\ k + 1 \in a .. b
      BY <2>2
    <3>2. (b - (k - a)) - 1 \in T
      BY <1>1, <2>2, <3>1
    <3>3. (b - (k - a)) - 1 = b - ((k + 1) - a)
      BY <2>2
    <3> QED BY <1>1, <3>1, <3>2, <3>3
  <2>3. CASE a <= b
    BY <2>1, <2>2, <2>3, Up
  <2> QED BY <2>3
<1>3. ASSUME NEW k \in a .. b PROVE k \in T
  <2>1. b - (k - a) \in a .. b /\ b - ((b - (k - a)) - a) = k
    OBVIOUS
  <2> QED BY <1>1, <1>2, <2>1
<1> QED BY <1>3

-----------------------------------------------------------------------------
(* The powers of two: 2^n is the number of the subsets of n things.        *)
LEMMA PowerIsCount ==
  ASSUME NEW n \in Nat
  PROVE  2^n = Cardinality(SUBSET (1 .. n)) /\ IsFiniteSet(SUBSET (1 .. n))
<1>1. IsFiniteSet(1 .. n) /\ Cardinality(1 .. n) = n
  BY FS_Interval
<1>2. IsFiniteSet(SUBSET (1 .. n)) /\ Cardinality(SUBSET (1 .. n)) = 2^Cardinality(1 .. n)
  BY <1>1, FS_SUBSET
<1> QED BY <1>1, <1>2

LEMMA PowerDoubles ==
  ASSUME NEW n \in Nat
  PROVE  2^n \in Nat /\ 2^(n + 1) = 2 * 2^n
<1>1. PICK A : A = SUBSET (1 .. n)
  OBVIOUS
<1>2. PICK B : B = {X \in SUBSET (1 .. n + 1) : n + 1 \in X}
  OBVIOUS
<1>3. PICK f : f = [X \in A |-> X \cup {n + 1}]
  OBVIOUS
<1>4. n + 1 \notin 1 .. n /\ 1 .. n + 1 = (1 .. n) \cup {n + 1}
  OBVIOUS
<1>5. f \in Bijection(A, B)
  <2>1. f \in [A -> B]
    BY <1>1, <1>2, <1>3, <1>4
  <2>2. \A X, Y \in A : f[X] = f[Y] => X = Y
    <3>1. ASSUME NEW X \in A PROVE f[X] \ {n + 1} = X
      <4>1. n + 1 \notin X
        BY <1>1, <1>4
      <4> QED BY <1>3, <4>1
    <3> QED BY <3>1
  <2>3. ASSUME NEW Y \in B PROVE \E X \in A : f[X] = Y
    <3>1. Y \ {n + 1} \in A
      BY <1>1, <1>2, <1>4
    <3>2. f[Y \ {n + 1}] = Y
      <4>1. n + 1 \in Y
        BY <1>2
      <4> QED BY <1>3, <3>1, <4>1
    <3> QED BY <3>1, <3>2
  <2>4. DOMAIN f = A
    BY <2>1
  <2>5. IsInjective(f)
    BY ONLY <2>2, <2>4 DEF IsInjective
  <2> QED BY ONLY <2>1, <2>3, <2>5 DEF Bijection, Injection, Surjection
<1>6. IsFiniteSet(A) /\ Cardinality(A) = 2^n
  BY <1>1, PowerIsCount
<1>7. IsFiniteSet(B) /\ Cardinality(B) = Cardinality(A)
  BY <1>5, <1>6, FS_Bijection DEF ExistsBijection
<1>8. A \cup B = SUBSET (1 .. n + 1) /\ A \cap B = {}
  BY <1>1, <1>2, <1>4
<1>9. Cardinality(A \cup B) = 2^(n + 1)
  BY <1>8, PowerIsCount
<1>10. Cardinality(A) \in Nat
  BY <1>6, FS_CardinalityType
<1>11. Cardinality(A \cup B) = Cardinality(A) + Cardinality(B)
  <2>1. Cardinality(A \cup B) = Cardinality(A) + Cardinality(B) - Cardinality(A \cap B)
    BY ONLY <1>6, <1>7, FS_Union
  <2>2. Cardinality(A \cap B) = 0
    BY <1>8, FS_EmptySet
  <2> QED BY ONLY <1>7, <1>10, <2>1, <2>2
<1> QED BY <1>6, <1>7, <1>9, <1>10, <1>11

LEMMA PowerPositive ==
  ASSUME NEW n \in Nat
  PROVE  2^n \in Nat \ {0}
<1>1. IsFiniteSet(SUBSET (1 .. n)) /\ 2^n = Cardinality(SUBSET (1 .. n))
  BY PowerIsCount
<1>2. SUBSET (1 .. n) # {}
  BY {} \in SUBSET (1 .. n)
<1>3. 2^n # 0
  BY <1>1, <1>2, FS_EmptySet
<1> QED BY <1>3, PowerDoubles

LEMMA PowerZero == 2^0 = 1
<1>1. 1 .. 0 = {}
  OBVIOUS
<1>2. SUBSET (1 .. 0) = {{}}
  BY <1>1
<1> QED BY <1>2, PowerIsCount, FS_Singleton

LEMMA PowerSum ==
  ASSUME NEW a \in Nat, NEW b \in Nat
  PROVE  2^(a + b) = 2^a * 2^b
<1>1. PICK T : T = {k \in Nat : 2^(a + k) = 2^a * 2^k}
  OBVIOUS
<1>2. 0 \in T
  <2>1. a + 0 = a /\ 2^a \in Nat
    BY PowerDoubles
  <2> QED BY <1>1, <2>1, PowerZero
<1>3. ASSUME NEW k \in 0 .. b, k \in T PROVE k + 1 \in T
  <2>1. 2^a \in Nat /\ 2^k \in Nat /\ 2^(a + k) \in Nat /\ 2^(k + 1) = 2 * 2^k
    BY PowerDoubles
  <2>2. 2^((a + k) + 1) = 2 * 2^(a + k)
    BY PowerDoubles
  <2>3. a + (k + 1) = (a + k) + 1
    OBVIOUS
  <2>4. 2^(a + k) = 2^a * 2^k
    BY <1>1, <1>3
  <2>5. 2 * (2^a * 2^k) = 2^a * (2 * 2^k)
    BY <2>1
  <2> QED BY <1>1, <2>1, <2>2, <2>3, <2>4, <2>5
<1>4. \A k \in 0 .. b : k \in T
  BY <1>2, <1>3, Up
<1> QED BY <1>1, <1>4

LEMMA PowerGrows ==
  ASSUME NEW j \in Nat, NEW k \in Nat, j <= k
  PROVE  2^j <= 2^k
<1>1. k - j \in Nat /\ j + (k - j) = k
  OBVIOUS
<1>2. PICK a \in Nat \ {0}, b \in Nat \ {0} : a = 2^j /\ b = 2^(k - j)
  BY <1>1, PowerPositive
<1>3. 2^k = a * b
  BY <1>1, <1>2, PowerSum
<1>4. a <= a * b
  OBVIOUS
<1> QED BY <1>2, <1>3, <1>4

-----------------------------------------------------------------------------
(* Division.                                                               *)
LEMMA DivMod ==
  ASSUME NEW a \in Nat, NEW b \in Nat \ {0}
  PROVE  a \div b \in Nat /\ a % b \in 0 .. b - 1 /\ a = b * (a \div b) + (a % b)
  OBVIOUS

LEMMA TimesGrows ==
  ASSUME NEW b \in Nat, NEW x \in Int, NEW y \in Int, x < y
  PROVE  b * x + b <= b * y
<1>1. PICK d \in Nat : y = x + 1 + d
  <2>1. y - x - 1 \in Nat /\ y = x + 1 + (y - x - 1)
    OBVIOUS
  <2> QED BY <2>1
<1>2. b * y = b * x + b + b * d /\ b * d \in Nat
  BY <1>1
<1>3. b * x \in Int
  OBVIOUS
<1> QED BY <1>2, <1>3

LEMMA DivUnique ==
  ASSUME NEW a \in Nat, NEW b \in Nat \ {0}, NEW q \in Nat, NEW s \in 0 .. b - 1,
         a = b * q + s
  PROVE  a \div b = q /\ a % b = s
<1>1. PICK d \in Nat, m \in 0 .. b - 1 : d = a \div b /\ m = a % b /\ a = b * d + m
  BY DivMod
<1>2. ~(d < q)
  <2>1. d < q => b * d + b <= b * q
    BY TimesGrows
  <2>2. b * d \in Nat /\ b * q \in Nat
    OBVIOUS
  <2> QED BY <1>1, <2>1, <2>2
<1>3. ~(q < d)
  <2>1. q < d => b * q + b <= b * d
    BY TimesGrows
  <2>2. b * d \in Nat /\ b * q \in Nat
    OBVIOUS
  <2> QED BY <1>1, <2>1, <2>2
<1>4. d = q
  BY <1>2, <1>3
<1>5. b * q \in Nat
  OBVIOUS
<1> QED BY <1>1, <1>4, <1>5
=============================================================================
