---------------------------- MODULE MemoryProofs ----------------------------
(***************************************************************************)
(* Proofs about the memory of the programs: that the page tables are a     *)
(* tree of the least tables that the mapped pages need, and implement a    *)
(* map from pages to rights, for tables of any size (MMU); and that the    *)
(* heap is cut into blocks without a gap, its list holds the free ones and *)
(* no free memory is refused, for a heap of any size (MemoryAllocator).    *)
(***************************************************************************)
EXTENDS MMU, MemoryAllocator, QueueProofs

(***************************************************************************)
(* Division.                                                               *)
(***************************************************************************)
(* Division by a product is division by the one after the other.           *)
LEMMA DivTwice ==
  ASSUME NEW a \in Nat, NEW b \in Nat \ {0}
  PROVE  /\ b * b \in Nat \ {0} /\ a \div (b * b) = (a \div b) \div b
         /\ a = b * (b * (a \div (b * b)) + ((a \div b) % b)) + (a % b)
<1>1. PICK q \in Nat, s \in 0 .. b - 1 : q = a \div b /\ s = a % b /\ a = b * q + s
  BY DivMod
<1>2. PICK p \in Nat, r \in 0 .. b - 1 : p = q \div b /\ r = q % b /\ q = b * p + r
  BY DivMod
<1>3. PICK c \in Nat \ {0} : c = b * b
  OBVIOUS
<1>4. b * r + s \in 0 .. c - 1
  <2>1. b * r + b <= b * b
    BY TimesGrows
  <2>2. b * r \in Nat
    OBVIOUS
  <2> QED BY <1>3, <2>1, <2>2
<1>5. a = c * p + (b * r + s)
  <2>1. b * q = b * (b * p) + b * r
    BY <1>2
  <2>2. b * (b * p) = c * p
    BY <1>3
  <2>3. PICK x \in Nat, y \in Nat : x = c * p /\ y = b * r
    BY <1>3
  <2>4. a = x + y + s
    BY <1>1, <2>1, <2>2, <2>3
  <2>5. a = x + (y + s)
    BY <2>4
  <2> QED BY <2>3, <2>5
<1>6. a \div c = p
  <2>1. PICK w \in 0 .. c - 1 : w = b * r + s
    BY <1>4
  <2>2. a = c * p + w
    BY <1>5, <2>1
  <2> QED BY ONLY <2>2, DivUnique
<1> QED BY <1>1, <1>2, <1>3, <1>6

-----------------------------------------------------------------------------
(* The digits of a page are indices, and tell which page it is.            *)
LEMMA Digits ==
  ASSUME NEW v \in Pages
  PROVE  vpn(v)[1] \in Index /\ vpn(v)[2] \in Index /\ vpn(v)[3] \in Index
<1>1. v \in Nat /\ N \in Nat \ {0}
  BY MMUAssumption DEF Pages
<1>2. PICK u \in Nat : u = v \div N
  BY <1>1, DivMod
<1>3. v % N \in 0 .. N - 1 /\ u % N \in 0 .. N - 1
  BY <1>1, <1>2, DivMod
<1>4. v \div (N * N) \in 0 .. N - 1
  <2>1. PICK c \in Nat \ {0} : c = N * N
    BY <1>1
  <2>2. PICK d \in Nat, s \in 0 .. c - 1 : d = v \div c /\ v = c * d + s
    <3>1. v \in Nat /\ c \in Nat \ {0}
      BY <1>1, <2>1
    <3>2. v \div c \in Nat /\ v % c \in 0 .. c - 1 /\ v = c * (v \div c) + (v % c)
      BY ONLY <3>1, DivMod
    <3> QED BY ONLY <3>2
  <2>3. v < c * N
    <3>1. N * N * N = c * N
      BY <2>1
    <3>2. v < N * N * N
      <4>1. N * N * N \in Nat
        BY <1>1
      <4> QED BY <4>1 DEF Pages
    <3> QED BY <3>1, <3>2
  <2>4. ~(N <= d)
    <3>1. N < d => c * N + c <= c * d
      BY <1>1, TimesGrows
    <3>2. c * d \in Nat /\ c * N \in Nat
      BY <1>1
    <3>3. N # d
      BY <1>1, <2>2, <2>3, <3>2
    <3> QED BY <1>1, <2>2, <2>3, <3>1, <3>2, <3>3
  <2> QED BY <1>1, <2>1, <2>2, <2>4
<1> QED BY <1>2, <1>3, <1>4 DEF vpn, Index

LEMMA DigitsTell ==
  ASSUME NEW v \in Pages, NEW w \in Pages, vpn(v)[1] = vpn(w)[1],
         vpn(v)[2] = vpn(w)[2], vpn(v)[3] = vpn(w)[3]
  PROVE  v = w
<1>1. v \in Nat /\ w \in Nat /\ N \in Nat \ {0}
  BY MMUAssumption DEF Pages
<1>2. v % N = w % N /\ (v \div N) % N = (w \div N) % N /\ v \div (N * N) = w \div (N * N)
  BY DEF vpn
<1>3. /\ v = N * (N * (v \div (N * N)) + ((v \div N) % N)) + (v % N)
      /\ w = N * (N * (w \div (N * N)) + ((w \div N) % N)) + (w % N)
  BY <1>1, DivTwice
<1> QED BY ONLY <1>2, <1>3

-----------------------------------------------------------------------------
(* The entries of the tables of A that are not zero are those of B, each   *)
(* of them once.                                                           *)
Points(t, A, B) ==
  /\ \A p \in A, i \in Index : t[p][i] \in B \cup {Null}
  /\ \A q \in B : \E p \in A, i \in Index : t[p][i] = q
  /\ \A p1, p2 \in A, i1, i2 \in Index :
       t[p1][i1] = t[p2][i2] /\ t[p1][i1] # Null => p1 = p2 /\ i1 = i2

Indexed(t) == \A p \in DOMAIN t : DOMAIN t[p] = Index

(* The tables in use: the root, those of the middle level, those of the    *)
(* last one.                                                               *)
Tree(t, r, M, L) ==
  /\ r \in Tables /\ M \subseteq Tables /\ L \subseteq Tables
  /\ r \notin M /\ r \notin L /\ M \cap L = {}
  /\ DOMAIN t = {r} \cup M \cup L
  /\ Indexed(t)
  /\ Points(t, {r}, M) /\ Points(t, M, L)
  /\ \A p \in L, i \in Index : t[p][i] \in Rights \cup {Null}

Filled(t, S) == \A p \in S : HasOtherEntries(t[p])

FilledBut(t, M, L, p) == Filled(t, (M \cup L) \ {p})

(* What the hardware finds at three indices.                               *)
Look(t, r, c, b, a) ==
  IF t[r][c] = Null THEN Null ELSE IF t[t[r][c]][b] = Null THEN Null ELSE t[t[t[r][c]][b]][a]

SameLook(t, t1, r) == \A c, b, a \in Index : Look(t1, r, c, b, a) = Look(t, r, c, b, a)

-----------------------------------------------------------------------------
(* The tables are those of S, and their entries are as before but that of  *)
(* index i of one of them: so it is when an entry was written, when a      *)
(* table was added, and when one was taken away.                           *)
Written(t, t1, S, page, i, e) ==
  /\ DOMAIN t1 = S /\ \A p \in S : DOMAIN t1[p] = Index
  /\ t1[page][i] = e
  /\ \A p \in S, j \in Index : p \in DOMAIN t /\ ~(p = page /\ j = i) => t1[p][j] = t[p][j]

LEMMA EntryWritten ==
  ASSUME NEW t, Indexed(t), NEW page \in DOMAIN t, NEW i \in Index, NEW e
  PROVE  Written(t, WithEntry(t, page, i, e), DOMAIN t, page, i, e)
BY DEF WithEntry, Written, Indexed

LEMMA TableAdded ==
  ASSUME NEW t, Indexed(t), NEW page \in DOMAIN t, NEW i \in Index,
         NEW new, new = pgalloc(t), new \notin DOMAIN t,
         NEW t1, t1 = WithTable(t, page, i)
  PROVE  /\ Written(t, t1, DOMAIN t \cup {new}, page, i, new)
         /\ \A j \in Index : t1[new][j] = Null
<1>1. PICK e : e = WithEntry(t, page, i, new)
  OBVIOUS
<1>2. Written(t, e, DOMAIN t, page, i, new)
  BY <1>1, EntryWritten
<1>3. t1 = [p \in DOMAIN t \cup {new} |-> IF p = new THEN ZeroTable ELSE e[p]]
  BY <1>1 DEF WithTable
<1>4. DOMAIN t1 = DOMAIN t \cup {new} /\ t1[new] = ZeroTable /\ \A p \in DOMAIN t : t1[p] = e[p]
  BY <1>3
<1>5. DOMAIN ZeroTable = Index /\ \A j \in Index : ZeroTable[j] = Null
  BY DEF ZeroTable
<1> QED BY <1>2, <1>4, <1>5 DEF Written

LEMMA TableTaken ==
  ASSUME NEW t, Indexed(t), NEW page \in DOMAIN t, NEW i \in Index,
         NEW old \in DOMAIN t, old # page,
         NEW t1, t1 = TableFreed(t, page, i, old)
  PROVE  Written(t, t1, DOMAIN t \ {old}, page, i, Null)
<1>1. PICK e : e = WithEntry(t, page, i, Null)
  OBVIOUS
<1>2. Written(t, e, DOMAIN t, page, i, Null)
  BY <1>1, EntryWritten
<1>3. DOMAIN t1 = DOMAIN t \ {old} /\ \A p \in DOMAIN t \ {old} : t1[p] = e[p]
  BY <1>1 DEF TableFreed
<1> QED BY <1>2, <1>3 DEF Written

-----------------------------------------------------------------------------
(* The values of a function on a finite set are no more than its elements. *)
LEMMA Values ==
  ASSUME NEW X, IsFiniteSet(X), NEW f, DOMAIN f = X, NEW V, V \subseteq {f[x] : x \in X}
  PROVE  IsFiniteSet(V) /\ Cardinality(V) <= Cardinality(X)
<1>1. PICK R : R = {f[x] : x \in X}
  OBVIOUS
<1>2. PICK g : g = [x \in X |-> f[x]]
  OBVIOUS
<1>3. g \in [X -> R] /\ \A y \in R : \E x \in X : g[x] = y
  BY <1>1, <1>2
<1>4. g \in Surjection(X, R)
  BY ONLY <1>3 DEF Surjection
<1>5. IsFiniteSet(R) /\ Cardinality(R) <= Cardinality(X)
  BY <1>4, FS_Surjection
<1>6. V \in SUBSET R
  BY <1>1
<1>7. IsFiniteSet(V) /\ Cardinality(V) <= Cardinality(R)
  BY ONLY <1>5, <1>6, FS_Subset
<1>8. Cardinality(V) \in Nat /\ Cardinality(R) \in Nat /\ Cardinality(X) \in Nat
  BY <1>5, <1>7, FS_CardinalityType
<1> QED BY <1>5, <1>7, <1>8

(* While an entry above the last level is unused, a page is left for the   *)
(* table that it will lead to.                                             *)
LEMMA RoomLeft ==
  ASSUME NEW t, NEW r, NEW M, NEW L, Tree(t, r, M, L),
         NEW u \in {r} \cup M, NEW i \in Index, t[u][i] = Null
  PROVE  pgalloc(t) \in Tables /\ pgalloc(t) \notin DOMAIN t
<1>1. PICK n \in Nat : n = N /\ n > 0
  BY MMUAssumption
<1>2. IsFiniteSet(Index) /\ Cardinality(Index) = n
  <2>1. 0 \in Int /\ n - 1 \in Int
    BY <1>1
  <2>2. IsFiniteSet(0 .. n - 1) /\ Cardinality(0 .. n - 1) = IF 0 > n - 1 THEN 0 ELSE (n - 1) - 0 + 1
    BY ONLY <2>1, FS_Interval
  <2>3. Index = 0 .. n - 1
    BY <1>1 DEF Index
  <2> QED BY <1>1, <2>2, <2>3
<1>3. PICK X : X = Index \X Index
  OBVIOUS
<1>4. PICK m \in Nat : m = n * n
  BY <1>1
<1>5. IsFiniteSet(X) /\ Cardinality(X) = m
  BY <1>2, <1>3, <1>4, FS_Product
<1>6. PICK fm : fm = [j \in Index |-> t[r][j]]
  OBVIOUS
<1>7. PICK fl : fl = [x \in X |-> t[t[r][x[1]]][x[2]]]
  OBVIOUS
<1>8. M \subseteq {fm[j] : j \in Index}
  BY <1>6 DEF Tree, Points
<1>9. ASSUME NEW q \in M, NEW j \in Index
      PROVE  \E x \in X : fl[x] = t[q][j] /\ t[r][x[1]] = q /\ x[2] = j
  <2>1. PICK k \in Index : t[r][k] = q
    BY <1>9 DEF Tree, Points
  <2>2. PICK x \in X : x[1] = k /\ x[2] = j
    <3>1. <<k, j>> \in X
      BY <1>3, <2>1
    <3>2. <<k, j>>[1] = k /\ <<k, j>>[2] = j
      OBVIOUS
    <3> QED BY ONLY <3>1, <3>2
  <2>3. fl[x] = t[t[r][x[1]]][x[2]]
    BY <1>7
  <2> QED BY ONLY <2>1, <2>2, <2>3
<1>10. L \subseteq {fl[x] : x \in X}
  <2>1. ASSUME NEW l \in L PROVE l \in {fl[x] : x \in X}
    <3>1. PICK q \in M, j \in Index : t[q][j] = l
      BY <2>1 DEF Tree, Points
    <3> QED BY <1>9, <3>1
  <2> QED BY <2>1
<1>11. Null \notin Tables
  BY MMUAssumption
<1>12. IsFiniteSet(M) /\ IsFiniteSet(L) /\ Cardinality(M) \in Nat /\ Cardinality(L) \in Nat
  <2>1. DOMAIN fm = Index /\ DOMAIN fl = X
    BY <1>6, <1>7
  <2>2. IsFiniteSet(M) /\ IsFiniteSet(L)
    BY ONLY <1>2, <1>5, <1>8, <1>10, <2>1, Values
  <2> QED BY ONLY <2>2, FS_CardinalityType
<1>13. Cardinality(M) <= n /\ Cardinality(L) <= m
  <2>1. DOMAIN fm = Index /\ DOMAIN fl = X
    BY <1>6, <1>7
  <2> QED BY <1>2, <1>5, <1>8, <1>10, <2>1, Values
<1>14. ASSUME u = r PROVE Cardinality(M) + Cardinality(L) <= n + m - 1
  <2>1. M \subseteq {fm[j] : j \in Index \ {i}}
    <3>1. ASSUME NEW q \in M PROVE \E j \in Index \ {i} : fm[j] = q
      <4>1. PICK j \in Index : t[r][j] = q
        BY <3>1 DEF Tree, Points
      <4>2. q # Null
        BY <1>11, <3>1 DEF Tree
      <4> QED BY <1>6, <1>14, <4>1, <4>2
    <3> QED BY <3>1
  <2>2. Cardinality(M) <= n - 1
    <3>1. IsFiniteSet(Index \ {i}) /\ Cardinality(Index \ {i}) = n - 1
      BY <1>2, FS_RemoveElement
    <3>2. PICK g : g = [j \in Index \ {i} |-> fm[j]]
      OBVIOUS
    <3>3. DOMAIN g = Index \ {i} /\ M \subseteq {g[j] : j \in Index \ {i}}
      BY <2>1, <3>2
    <3>4. Cardinality(M) <= Cardinality(Index \ {i})
      BY ONLY <3>1, <3>3, Values
    <3> QED BY <3>1, <3>4
  <2> QED BY ONLY <1>1, <1>4, <1>12, <1>13, <2>2
<1>15. ASSUME u \in M PROVE Cardinality(M) + Cardinality(L) <= n + m - 1
  <2>1. PICK y \in X : fl[y] = t[u][i] /\ t[r][y[1]] = u /\ y[2] = i
    BY <1>9, <1>15
  <2>2. L \subseteq {fl[x] : x \in X \ {y}}
    <3>1. ASSUME NEW l \in L PROVE \E x \in X \ {y} : fl[x] = l
      <4>1. l \in {fl[x] : x \in X}
        BY <1>10, <3>1
      <4>2. PICK x \in X : fl[x] = l
        BY <4>1
      <4>3. l # Null
        BY <1>11, <3>1 DEF Tree
      <4> QED BY <2>1, <4>2, <4>3
    <3> QED BY <3>1
  <2>3. Cardinality(L) <= m - 1
    <3>1. IsFiniteSet(X \ {y}) /\ Cardinality(X \ {y}) = m - 1
      BY <1>5, FS_RemoveElement
    <3>2. PICK g : g = [x \in X \ {y} |-> fl[x]]
      OBVIOUS
    <3>3. DOMAIN g = X \ {y} /\ L \subseteq {g[x] : x \in X \ {y}}
      BY <2>2, <3>2
    <3>4. Cardinality(L) <= Cardinality(X \ {y})
      BY ONLY <3>1, <3>3, Values
    <3> QED BY <3>1, <3>4
  <2> QED BY ONLY <1>1, <1>4, <1>12, <1>13, <2>3
<1>16. IsFiniteSet(DOMAIN t) /\ Cardinality(DOMAIN t) <= n + m
  <2>1. PICK S : S = M \cup L
    OBVIOUS
  <2>2. M \cap L = {} /\ r \notin S /\ DOMAIN t = S \cup {r}
    BY <2>1 DEF Tree
  <2>3. IsFiniteSet(S) /\ Cardinality(S) = Cardinality(M) + Cardinality(L)
    <3>1. IsFiniteSet(S) /\ Cardinality(S) = Cardinality(M) + Cardinality(L) - Cardinality(M \cap L)
      BY ONLY <1>12, <2>1, FS_Union
    <3>2. Cardinality(M \cap L) = 0
      BY ONLY <2>2, FS_EmptySet
    <3> QED BY <1>12, <3>1, <3>2
  <2>4. IsFiniteSet(DOMAIN t) /\ Cardinality(DOMAIN t) = Cardinality(S) + 1
    BY ONLY <2>2, <2>3, FS_AddElement
  <2>5. Cardinality(M) + Cardinality(L) <= n + m - 1
    BY <1>14, <1>15
  <2> QED BY ONLY <1>1, <1>4, <1>12, <2>3, <2>4, <2>5
<1>17. DOMAIN t # Tables
  <2>1. Cardinality(Tables) >= 1 + n + m /\ Cardinality(Tables) \in Nat
    BY <1>1, <1>4, MMUAssumption, FS_CardinalityType
  <2>2. Cardinality(DOMAIN t) \in Nat
    BY <1>16, FS_CardinalityType
  <2> QED BY ONLY <1>1, <1>4, <1>16, <2>1, <2>2
<1>18. \E p \in Tables : p \notin DOMAIN t
  BY <1>17 DEF Tree
<1> QED BY <1>18 DEF pgalloc

-----------------------------------------------------------------------------
(* One table added to those that the tables of A point to, or taken away.  *)
LEMMA PointsMore ==
  ASSUME NEW t, NEW A, NEW B, Points(t, A, B), NEW u \in A, NEW i \in Index, t[u][i] = Null,
         NEW new, new \notin B, new # Null, NEW t1, t1[u][i] = new,
         \A p \in A, j \in Index : ~(p = u /\ j = i) => t1[p][j] = t[p][j],
         Null \notin B
  PROVE  Points(t1, A, B \cup {new})
<1>1. \A p \in A, j \in Index : t1[p][j] = IF p = u /\ j = i THEN new ELSE t[p][j]
  OBVIOUS
<1>2. \A p \in A, j \in Index : t1[p][j] \in B \cup {new} \cup {Null}
  BY <1>1 DEF Points
<1>3. ASSUME NEW q \in B \cup {new} PROVE \E p \in A, j \in Index : t1[p][j] = q
  <2>1. CASE q = new
    BY <2>1
  <2>2. CASE q \in B
    <3>1. PICK p \in A, j \in Index : t[p][j] = q
      BY <2>2 DEF Points
    <3>2. ~(p = u /\ j = i)
      BY <2>2, <3>1
    <3> QED BY <1>1, <3>1, <3>2
  <2> QED BY <1>3, <2>1, <2>2
<1>4. ASSUME NEW p1 \in A, NEW p2 \in A, NEW i1 \in Index, NEW i2 \in Index,
             t1[p1][i1] = t1[p2][i2], t1[p1][i1] # Null
      PROVE  p1 = p2 /\ i1 = i2
  <2>1. \A p \in A, j \in Index : t[p][j] # new
    BY DEF Points
  <2>2. t[p1][i1] = t[p2][i2] /\ t[p1][i1] # Null => p1 = p2 /\ i1 = i2
    BY DEF Points
  <2> QED BY <1>1, <1>4, <2>1, <2>2
<1> QED BY <1>2, <1>3, <1>4 DEF Points

LEMMA PointsLess ==
  ASSUME NEW t, NEW A, NEW B, Points(t, A, B), NEW u \in A, NEW i \in Index,
         NEW old \in B, t[u][i] = old, NEW t1, t1[u][i] = Null,
         \A p \in A, j \in Index : ~(p = u /\ j = i) => t1[p][j] = t[p][j],
         Null \notin B
  PROVE  Points(t1, A, B \ {old})
<1>1. \A p \in A, j \in Index : t1[p][j] = IF p = u /\ j = i THEN Null ELSE t[p][j]
  OBVIOUS
<1>2. \A p \in A, j \in Index : t[p][j] = old => p = u /\ j = i
  BY DEF Points
<1>3. \A p \in A, j \in Index : t1[p][j] \in (B \ {old}) \cup {Null}
  BY <1>1, <1>2 DEF Points
<1>4. ASSUME NEW q \in B \ {old} PROVE \E p \in A, j \in Index : t1[p][j] = q
  <2>1. PICK p \in A, j \in Index : t[p][j] = q
    BY <1>4 DEF Points
  <2>2. ~(p = u /\ j = i)
    BY <1>4, <2>1
  <2> QED BY <1>1, <2>1, <2>2
<1>5. ASSUME NEW p1 \in A, NEW p2 \in A, NEW i1 \in Index, NEW i2 \in Index,
             t1[p1][i1] = t1[p2][i2], t1[p1][i1] # Null
      PROVE  p1 = p2 /\ i1 = i2
  <2>1. t[p1][i1] = t[p2][i2] /\ t[p1][i1] # Null => p1 = p2 /\ i1 = i2
    BY DEF Points
  <2> QED BY <1>1, <1>5, <2>1
<1> QED BY <1>3, <1>4, <1>5 DEF Points

(* The tables of A, or those they point to, are others, but their entries  *)
(* are the same.                                                           *)
LEMMA PointsSame ==
  ASSUME NEW t, NEW A, NEW B, Points(t, A, B), NEW A1, NEW t1,
         \A p \in A \cap A1, j \in Index : t1[p][j] = t[p][j],
         \A p \in A \ A1, j \in Index : t[p][j] = Null,
         \A p \in A1 \ A, j \in Index : t1[p][j] = Null,
         Null \notin B
  PROVE  Points(t1, A1, B)
<1>1. \A p \in A1, j \in Index : t1[p][j] = Null \/ (p \in A /\ t1[p][j] = t[p][j])
  OBVIOUS
<1>2. \A p \in A1, j \in Index : t1[p][j] \in B \cup {Null}
  BY <1>1 DEF Points
<1>3. ASSUME NEW q \in B PROVE \E p \in A1, j \in Index : t1[p][j] = q
  <2>1. PICK p \in A, j \in Index : t[p][j] = q
    BY <1>3 DEF Points
  <2>2. p \in A1
    BY <1>3, <2>1
  <2> QED BY <2>1, <2>2
<1>4. ASSUME NEW p1 \in A1, NEW p2 \in A1, NEW i1 \in Index, NEW i2 \in Index,
             t1[p1][i1] = t1[p2][i2], t1[p1][i1] # Null
      PROVE  p1 = p2 /\ i1 = i2
  <2>1. p1 \in A /\ p2 \in A /\ t[p1][i1] = t[p2][i2] /\ t[p1][i1] # Null
    BY <1>1, <1>4
  <2> QED BY <2>1 DEF Points
<1> QED BY <1>2, <1>3, <1>4 DEF Points

-----------------------------------------------------------------------------
(* The walk from the root: what it finds above the last level is a table.  *)
LEMMA WalkFinds ==
  ASSUME NEW t, NEW r, NEW M, NEW L, Tree(t, r, M, L), NEW c \in Index, NEW b \in Index,
         NEW a \in Index
  PROVE  /\ t[r][c] \in M \cup {Null} /\ Null \notin M \cup L
         /\ t[r][c] # Null => t[t[r][c]][b] \in L \cup {Null}
         /\ t[r][c] # Null /\ t[t[r][c]][b] # Null => t[t[t[r][c]][b]][a] \in Rights \cup {Null}
         /\ Look(t, r, c, b, a) \in Rights \cup {Null}
<1>1. t[r][c] \in M \cup {Null}
  BY DEF Tree, Points
<1>2. t[r][c] # Null => t[t[r][c]][b] \in L \cup {Null}
  BY <1>1 DEF Tree, Points
<1>3. t[r][c] # Null /\ t[t[r][c]][b] # Null => t[t[t[r][c]][b]][a] \in Rights \cup {Null}
  BY <1>1, <1>2 DEF Tree
<1>4. Null \notin M \cup L
  BY MMUAssumption DEF Tree
<1> QED BY <1>1, <1>2, <1>3, <1>4 DEF Look

(* Two trees in which the entries on the way are the same.                 *)
LEMMA LookKept ==
  ASSUME NEW t, NEW r, NEW M, NEW L, Tree(t, r, M, L), NEW t1,
         NEW c \in Index, NEW b \in Index, NEW a \in Index,
         t1[r][c] = t[r][c],
         \A q \in M : t[r][c] = q => t1[q][b] = t[q][b],
         \A q \in M, l \in L : t[r][c] = q /\ t[q][b] = l => t1[l][a] = t[l][a]
  PROVE  Look(t1, r, c, b, a) = Look(t, r, c, b, a)
<1>1. CASE t[r][c] = Null
  BY <1>1 DEF Look
<1>2. CASE t[r][c] # Null
  <2>1. PICK q \in M : q = t[r][c] /\ t[q][b] \in L \cup {Null} /\ t1[q][b] = t[q][b]
    BY <1>2, WalkFinds
  <2>2. CASE t[q][b] = Null
    BY <2>1, <2>2 DEF Look
  <2>3. CASE t[q][b] # Null
    <3>1. PICK l \in L : l = t[q][b]
      BY <2>1, <2>3
    <3>2. t1[l][a] = t[l][a]
      BY <2>1, <3>1
    <3> QED BY <1>2, <2>1, <2>3, <3>1, <3>2 DEF Look
  <2> QED BY <2>2, <2>3
<1> QED BY <1>1, <1>2

-----------------------------------------------------------------------------
(* A table of the middle level, or of the last one, is made.               *)
LEMMA NewMiddle ==
  ASSUME NEW t, NEW r, NEW M, NEW L, Tree(t, r, M, L), NEW c \in Index, t[r][c] = Null,
         NEW new, new = pgalloc(t), NEW t1, t1 = WithTable(t, r, c)
  PROVE  /\ Tree(t1, r, M \cup {new}, L) /\ SameLook(t, t1, r)
         /\ t1[r][c] = new /\ new \notin M \cup L
         /\ Filled(t, M \cup L) => Filled(t1, M \cup L)
         /\ \A b \in Index : t1[new][b] = Null
<1>1. new \in Tables /\ new \notin DOMAIN t /\ new # Null /\ Null \notin M \cup L
  <2>1. new \in Tables /\ new \notin DOMAIN t
    BY RoomLeft
  <2> QED BY <2>1, MMUAssumption DEF Tree
<1>2. /\ r \in Tables /\ M \subseteq Tables /\ L \subseteq Tables
      /\ r \notin M /\ r \notin L /\ M \cap L = {} /\ DOMAIN t = {r} \cup M \cup L
      /\ Indexed(t)
      /\ \A p \in L, i \in Index : t[p][i] \in Rights \cup {Null}
  BY DEF Tree
<1>3. Points(t, {r}, M) /\ Points(t, M, L)
  BY DEF Tree
<1>4. /\ DOMAIN t1 = DOMAIN t \cup {new} /\ Indexed(t1)
      /\ t1[r][c] = new /\ \A j \in Index : t1[new][j] = Null
      /\ \A p \in DOMAIN t, j \in Index : ~(p = r /\ j = c) => t1[p][j] = t[p][j]
  <2>1. r \in DOMAIN t /\ new \notin DOMAIN t /\ Indexed(t)
    BY <1>1, <1>2
  <2>2. /\ Written(t, t1, DOMAIN t \cup {new}, r, c, new)
        /\ \A j \in Index : t1[new][j] = Null
    BY <2>1, TableAdded
  <2> QED BY <2>1, <2>2 DEF Written, Indexed
<1>5. Points(t1, {r}, M \cup {new})
  <2>1. new \notin M /\ Null \notin M
    BY <1>1, <1>2
  <2>2. \A p \in {r}, j \in Index : ~(p = r /\ j = c) => t1[p][j] = t[p][j]
    BY <1>2, <1>4
  <2>3. r \in {r}
    OBVIOUS
  <2> QED BY ONLY <1>1, <1>3, <1>4, <2>1, <2>2, <2>3, c \in Index, t[r][c] = Null, PointsMore
<1>6. Points(t1, M \cup {new}, L)
  <2>1. \A p \in M \cap (M \cup {new}), j \in Index : t1[p][j] = t[p][j]
    BY <1>2, <1>4
  <2>2. \A p \in (M \cup {new}) \ M, j \in Index : t1[p][j] = Null
    BY <1>4
  <2>3. \A p \in M \ (M \cup {new}), j \in Index : t[p][j] = Null
    OBVIOUS
  <2> QED BY ONLY <1>1, <1>3, <2>1, <2>2, <2>3, PointsSame
<1>7. \A p \in L, i \in Index : t1[p][i] \in Rights \cup {Null}
  BY <1>2, <1>4
<1>8. Tree(t1, r, M \cup {new}, L)
  BY <1>1, <1>2, <1>4, <1>5, <1>6, <1>7 DEF Tree
<1>9. ASSUME NEW c1 \in Index, NEW b \in Index, NEW a \in Index
      PROVE  Look(t1, r, c1, b, a) = Look(t, r, c1, b, a)
  <2>1. CASE c1 = c
    BY <1>4, <2>1 DEF Look
  <2>2. CASE c1 # c
    <3>1. /\ t1[r][c1] = t[r][c1]
          /\ \A p \in M \cup L, j \in Index : t1[p][j] = t[p][j]
      BY <1>2, <1>4, <2>2
    <3> QED BY ONLY <1>9, <3>1, Tree(t, r, M, L), LookKept
  <2> QED BY <2>1, <2>2
<1>10. Filled(t, M \cup L) => Filled(t1, M \cup L)
  BY <1>2, <1>4 DEF Filled, HasOtherEntries
<1>11. SameLook(t, t1, r)
  BY ONLY <1>9 DEF SameLook
<1>12. new \notin M \cup L
  BY <1>1, <1>2
<1> QED BY ONLY <1>4, <1>8, <1>10, <1>11, <1>12

LEMMA NewLast ==
  ASSUME NEW t, NEW r, NEW M, NEW L, Tree(t, r, M, L), NEW two \in M, NEW b \in Index,
         t[two][b] = Null, NEW new, new = pgalloc(t), NEW t1, t1 = WithTable(t, two, b)
  PROVE  /\ Tree(t1, r, M, L \cup {new}) /\ SameLook(t, t1, r)
         /\ t1[two][b] = new /\ new \notin M \cup L
         /\ \A c \in Index : t1[r][c] = t[r][c]
         /\ \A S \in SUBSET (M \cup L) : Filled(t, S) => Filled(t1, S \cup {two})
         /\ \A a \in Index : t1[new][a] = Null
<1>1. new \in Tables /\ new \notin DOMAIN t /\ new # Null /\ Null \notin M \cup L
  <2>1. new \in Tables /\ new \notin DOMAIN t
    BY RoomLeft
  <2> QED BY <2>1, MMUAssumption DEF Tree
<1>2. /\ r \in Tables /\ M \subseteq Tables /\ L \subseteq Tables
      /\ r \notin M /\ r \notin L /\ M \cap L = {} /\ DOMAIN t = {r} \cup M \cup L
      /\ Indexed(t)
      /\ \A p \in L, i \in Index : t[p][i] \in Rights \cup {Null}
  BY DEF Tree
<1>3. Points(t, {r}, M) /\ Points(t, M, L)
  BY DEF Tree
<1>4. /\ DOMAIN t1 = DOMAIN t \cup {new} /\ Indexed(t1)
      /\ t1[two][b] = new /\ \A j \in Index : t1[new][j] = Null
      /\ \A p \in DOMAIN t, j \in Index : ~(p = two /\ j = b) => t1[p][j] = t[p][j]
  <2>1. two \in DOMAIN t /\ new \notin DOMAIN t /\ Indexed(t)
    BY <1>1, <1>2
  <2>2. /\ Written(t, t1, DOMAIN t \cup {new}, two, b, new)
        /\ \A j \in Index : t1[new][j] = Null
    BY <2>1, TableAdded
  <2> QED BY <2>1, <2>2 DEF Written, Indexed
<1>5. Points(t1, {r}, M)
  <2>1. \A p \in {r}, j \in Index : t1[p][j] = t[p][j]
    BY <1>2, <1>4
  <2>2. Null \notin M
    BY <1>1
  <2> QED BY <1>3, <2>1, <2>2, PointsSame
<1>6. Points(t1, M, L \cup {new})
  <2>1. new \notin L /\ Null \notin L
    BY <1>1, <1>2
  <2>2. \A p \in M, j \in Index : ~(p = two /\ j = b) => t1[p][j] = t[p][j]
    BY <1>2, <1>4
  <2> QED BY ONLY <1>1, <1>3, <1>4, <2>1, <2>2, two \in M, b \in Index, t[two][b] = Null, PointsMore
<1>7. \A p \in L \cup {new}, i \in Index : t1[p][i] \in Rights \cup {Null}
  BY <1>2, <1>4
<1>8. Tree(t1, r, M, L \cup {new})
  BY <1>1, <1>2, <1>4, <1>5, <1>6, <1>7 DEF Tree
<1>9. ASSUME NEW c \in Index, NEW b1 \in Index, NEW a \in Index
      PROVE  Look(t1, r, c, b1, a) = Look(t, r, c, b1, a)
  <2>1. t1[r][c] = t[r][c]
    BY <1>2, <1>4
  <2>2. CASE t[r][c] = two /\ b1 = b
    <3>1. two # Null
      BY <1>1
    <3> QED BY <1>4, <2>1, <2>2, <3>1 DEF Look
  <2>3. CASE ~(t[r][c] = two /\ b1 = b)
    <3>1. \A q \in M : t[r][c] = q => t1[q][b1] = t[q][b1]
      BY <1>2, <1>4, <2>3
    <3>2. \A l \in L : t1[l][a] = t[l][a]
      BY <1>2, <1>4
    <3> QED BY ONLY <1>9, <2>1, <3>1, <3>2, Tree(t, r, M, L), LookKept
  <2> QED BY <2>2, <2>3
<1>10. ASSUME NEW S \in SUBSET (M \cup L), Filled(t, S) PROVE Filled(t1, S \cup {two})
  <2>1. HasOtherEntries(t1[two])
    BY <1>1, <1>4 DEF HasOtherEntries
  <2>2. ASSUME NEW p \in S, p # two PROVE HasOtherEntries(t1[p])
    BY <1>2, <1>4, <1>10, <2>2 DEF HasOtherEntries, Filled
  <2> QED BY <2>1, <2>2 DEF Filled
<1>11. \A c \in Index : t1[r][c] = t[r][c]
  BY <1>2, <1>4
<1>12. SameLook(t, t1, r)
  BY ONLY <1>9 DEF SameLook
<1>13. new \notin M \cup L
  BY <1>1, <1>2
<1> QED BY ONLY <1>4, <1>8, <1>10, <1>11, <1>12, <1>13
-----------------------------------------------------------------------------
(* An entry of the last level is written.                                  *)
LookChanged(t, t1, r, c, b, a, e) ==
  \A c1, b1, a1 \in Index :
    Look(t1, r, c1, b1, a1) =
      IF c1 = c /\ b1 = b /\ a1 = a THEN e ELSE Look(t, r, c1, b1, a1)

LEMMA SetEntry ==
  ASSUME NEW t, NEW r, NEW M, NEW L, Tree(t, r, M, L),
         NEW c \in Index, NEW b \in Index, NEW a \in Index, NEW two \in M, t[r][c] = two,
         NEW three \in L, t[two][b] = three, NEW e \in Rights \cup {Null},
         NEW t1, t1 = WithEntry(t, three, a, e)
  PROVE  /\ Tree(t1, r, M, L)
         /\ \A p \in {r} \cup M, j \in Index : t1[p][j] = t[p][j]
         /\ FilledBut(t, M, L, three) => FilledBut(t1, M, L, three)
         /\ t1[three][a] = e
         /\ LookChanged(t, t1, r, c, b, a, e)
<1>1. /\ r \in Tables /\ M \subseteq Tables /\ L \subseteq Tables
      /\ r \notin M /\ r \notin L /\ M \cap L = {} /\ DOMAIN t = {r} \cup M \cup L
      /\ Indexed(t) /\ \A p \in L, i \in Index : t[p][i] \in Rights \cup {Null}
      /\ Points(t, {r}, M) /\ Points(t, M, L)
      /\ Null \notin Tables /\ Null \notin M /\ Null \notin L
  BY MMUAssumption DEF Tree
<1>2. /\ DOMAIN t1 = DOMAIN t /\ Indexed(t1) /\ t1[three][a] = e
      /\ \A p \in DOMAIN t, j \in Index : ~(p = three /\ j = a) => t1[p][j] = t[p][j]
  <2>1. three \in DOMAIN t
    BY <1>1
  <2>2. Written(t, t1, DOMAIN t, three, a, e)
    BY <1>1, <2>1, EntryWritten
  <2> QED BY <2>2 DEF Written, Indexed
<1>3. \A p \in {r} \cup M, j \in Index : t1[p][j] = t[p][j]
  BY <1>1, <1>2
<1>4. Points(t1, {r}, M) /\ Points(t1, M, L)
  <2>1. /\ \A p \in {r} \cap {r}, j \in Index : t1[p][j] = t[p][j]
        /\ \A p \in M \cap M, j \in Index : t1[p][j] = t[p][j]
    BY <1>3
  <2>2. {r} \ {r} = {} /\ M \ M = {}
    OBVIOUS
  <2>3. Points(t1, {r}, M)
    BY ONLY <1>1, <2>1, <2>2, PointsSame
  <2>4. Points(t1, M, L)
    BY ONLY <1>1, <2>1, <2>2, PointsSame
  <2> QED BY <2>3, <2>4
<1>5. \A p \in L, i \in Index : t1[p][i] \in Rights \cup {Null}
  BY <1>1, <1>2
<1>6. Tree(t1, r, M, L)
  BY <1>1, <1>2, <1>4, <1>5 DEF Tree
<1>7. ASSUME NEW c1 \in Index, NEW b1 \in Index, NEW a1 \in Index
      PROVE  Look(t1, r, c1, b1, a1) =
               IF c1 = c /\ b1 = b /\ a1 = a THEN e ELSE Look(t, r, c1, b1, a1)
  <2>1. CASE c1 = c /\ b1 = b /\ a1 = a
    <3>1. t1[r][c] = two /\ t1[two][b] = three /\ two # Null /\ three # Null
      BY <1>1, <1>3
    <3> QED BY <1>2, <2>1, <3>1 DEF Look
  <2>2. CASE ~(c1 = c /\ b1 = b /\ a1 = a)
    <3>1. t1[r][c1] = t[r][c1] /\ \A q \in M : t1[q][b1] = t[q][b1]
      BY <1>3
    <3>2. ASSUME NEW q \in M, NEW l \in L, t[r][c1] = q, t[q][b1] = l
          PROVE  t1[l][a1] = t[l][a1]
      <4>1. CASE l = three
        <5>1. q = two /\ b1 = b
          BY <1>1, <3>2, <4>1 DEF Points
        <5>2. c1 = c
          BY <1>1, <3>2, <5>1 DEF Points
        <5> QED BY <1>1, <1>2, <2>2, <5>1, <5>2
      <4>2. CASE l # three
        BY <1>1, <1>2, <4>2
      <4> QED BY <4>1, <4>2
    <3>3. Look(t1, r, c1, b1, a1) = Look(t, r, c1, b1, a1)
      BY <3>1, <3>2, LookKept
    <3> QED BY <2>2, <3>3
  <2> QED BY <2>1, <2>2
<1>8. FilledBut(t, M, L, three) => FilledBut(t1, M, L, three)
  BY <1>1, <1>2 DEF FilledBut, Filled, HasOtherEntries
<1>9. LookChanged(t, t1, r, c, b, a, e)
  BY ONLY <1>7 DEF LookChanged
<1> QED BY <1>2, <1>3, <1>6, <1>8, <1>9

(* A table of the last level, or of the middle one, that has no entries    *)
(* left is given back.                                                     *)
LEMMA FreeLast ==
  ASSUME NEW t, NEW r, NEW M, NEW L, Tree(t, r, M, L), NEW two \in M, NEW b \in Index,
         NEW three \in L, t[two][b] = three, ~HasOtherEntries(t[three]),
         NEW t1, t1 = TableFreed(t, two, b, three)
  PROVE  /\ Tree(t1, r, M, L \ {three}) /\ SameLook(t, t1, r)
         /\ \A j \in Index : t1[r][j] = t[r][j]
         /\ FilledBut(t, M, L, three) => FilledBut(t1, M, L \ {three}, two)
<1>1. /\ r \in Tables /\ M \subseteq Tables /\ L \subseteq Tables
      /\ r \notin M /\ r \notin L /\ M \cap L = {} /\ DOMAIN t = {r} \cup M \cup L
      /\ Indexed(t) /\ \A p \in L, i \in Index : t[p][i] \in Rights \cup {Null}
      /\ Points(t, {r}, M) /\ Points(t, M, L)
      /\ Null \notin Tables /\ Null \notin M /\ Null \notin L
  BY MMUAssumption DEF Tree
<1>2. /\ DOMAIN t1 = DOMAIN t \ {three} /\ Indexed(t1) /\ t1[two][b] = Null
      /\ \A p \in DOMAIN t \ {three}, j \in Index : ~(p = two /\ j = b) => t1[p][j] = t[p][j]
  <2>1. two \in DOMAIN t /\ three \in DOMAIN t /\ three # two
    BY <1>1
  <2>2. Written(t, t1, DOMAIN t \ {three}, two, b, Null)
    BY <1>1, <2>1, TableTaken
  <2> QED BY <2>2 DEF Written, Indexed
<1>3. \A p \in {r}, j \in Index : t1[p][j] = t[p][j]
  BY <1>1, <1>2
<1>4. Points(t1, {r}, M)
  BY <1>1, <1>3 DEF Points
<1>5. Points(t1, M, L \ {three})
  <2>1. \A p \in M, j \in Index : ~(p = two /\ j = b) => t1[p][j] = t[p][j]
    BY <1>1, <1>2
  <2> QED BY <1>1, <1>2, <2>1, PointsLess
<1>6. \A p \in L \ {three}, i \in Index : t1[p][i] \in Rights \cup {Null}
  BY <1>1, <1>2
<1>7. Tree(t1, r, M, L \ {three})
  <2>1. DOMAIN t1 = {r} \cup M \cup (L \ {three}) /\ L \ {three} \subseteq Tables
    BY <1>1, <1>2
  <2> QED BY <1>1, <1>2, <1>4, <1>5, <1>6, <2>1 DEF Tree
<1>8. ASSUME NEW c \in Index, NEW b1 \in Index, NEW a \in Index
      PROVE  Look(t1, r, c, b1, a) = Look(t, r, c, b1, a)
  <2>1. t1[r][c] = t[r][c]
    BY <1>3
  <2>2. CASE t[r][c] = two /\ b1 = b
    <3>1. two # Null /\ three # Null /\ t[three][a] = Null
      BY <1>1 DEF HasOtherEntries
    <3> QED BY <1>2, <2>1, <2>2, <3>1 DEF Look
  <2>3. CASE ~(t[r][c] = two /\ b1 = b)
    <3>1. \A q \in M : t[r][c] = q => t1[q][b1] = t[q][b1]
      BY <1>1, <1>2, <2>3
    <3>2. ASSUME NEW q \in M, NEW l \in L, t[r][c] = q, t[q][b1] = l PROVE t1[l][a] = t[l][a]
      <4>1. l # three
        BY <1>1, <2>3, <3>2 DEF Points
      <4> QED BY <1>1, <1>2, <4>1
    <3> QED BY <2>1, <3>1, <3>2, LookKept
  <2> QED BY <2>2, <2>3
<1>9. SameLook(t, t1, r)
  BY ONLY <1>8 DEF SameLook
<1>10. FilledBut(t, M, L, three) => FilledBut(t1, M, L \ {three}, two)
  BY <1>1, <1>2 DEF FilledBut, Filled, HasOtherEntries
<1> QED BY <1>3, <1>7, <1>9, <1>10

LEMMA FreeMiddle ==
  ASSUME NEW t, NEW r, NEW M, NEW L, Tree(t, r, M, L), NEW c \in Index, NEW two \in M,
         t[r][c] = two, ~HasOtherEntries(t[two]), NEW t1, t1 = TableFreed(t, r, c, two)
  PROVE  /\ Tree(t1, r, M \ {two}, L) /\ SameLook(t, t1, r)
         /\ FilledBut(t, M, L, two) => Filled(t1, (M \ {two}) \cup L)
<1>1. /\ r \in Tables /\ M \subseteq Tables /\ L \subseteq Tables
      /\ r \notin M /\ r \notin L /\ M \cap L = {} /\ DOMAIN t = {r} \cup M \cup L
      /\ Indexed(t) /\ \A p \in L, i \in Index : t[p][i] \in Rights \cup {Null}
      /\ Points(t, {r}, M) /\ Points(t, M, L)
      /\ Null \notin Tables /\ Null \notin M /\ Null \notin L
  BY MMUAssumption DEF Tree
<1>2. /\ DOMAIN t1 = DOMAIN t \ {two} /\ Indexed(t1) /\ t1[r][c] = Null
      /\ \A p \in DOMAIN t \ {two}, j \in Index : ~(p = r /\ j = c) => t1[p][j] = t[p][j]
  <2>1. two \in DOMAIN t /\ r \in DOMAIN t /\ r # two
    BY <1>1
  <2>2. Written(t, t1, DOMAIN t \ {two}, r, c, Null)
    BY <1>1, <2>1, TableTaken
  <2> QED BY <2>2 DEF Written, Indexed
<1>3. \A p \in (M \cup L) \ {two}, j \in Index : t1[p][j] = t[p][j]
  BY <1>1, <1>2
<1>4. Points(t1, {r}, M \ {two})
  <2>1. \A p \in {r}, j \in Index : ~(p = r /\ j = c) => t1[p][j] = t[p][j]
    BY <1>1, <1>2
  <2>2. r \in {r}
    OBVIOUS
  <2> QED BY <1>1, <1>2, <2>1, <2>2, PointsLess
<1>5. Points(t1, M \ {two}, L)
  <2>1. \A p \in M \cap (M \ {two}), j \in Index : t1[p][j] = t[p][j]
    BY <1>3
  <2>2. \A p \in M \ (M \ {two}), j \in Index : t[p][j] = Null
    BY DEF HasOtherEntries
  <2>3. \A p \in (M \ {two}) \ M, j \in Index : t1[p][j] = Null
    OBVIOUS
  <2> QED BY ONLY <1>1, <2>1, <2>2, <2>3, PointsSame
<1>6. \A p \in L, i \in Index : t1[p][i] \in Rights \cup {Null}
  BY <1>1, <1>3
<1>7. Tree(t1, r, M \ {two}, L)
  <2>1. DOMAIN t1 = {r} \cup (M \ {two}) \cup L /\ M \ {two} \subseteq Tables
    BY <1>1, <1>2
  <2> QED BY <1>1, <1>2, <1>4, <1>5, <1>6, <2>1 DEF Tree
<1>8. ASSUME NEW c1 \in Index, NEW b \in Index, NEW a \in Index
      PROVE  Look(t1, r, c1, b, a) = Look(t, r, c1, b, a)
  <2>1. CASE c1 = c
    <3>1. two # Null /\ t[two][b] = Null
      BY <1>1 DEF HasOtherEntries
    <3> QED BY <1>2, <2>1, <3>1 DEF Look
  <2>2. CASE c1 # c
    <3>1. t1[r][c1] = t[r][c1] /\ t[r][c1] # two
      BY <1>1, <1>2, <2>2 DEF Points
    <3>2. \A q \in M : t[r][c1] = q => t1[q][b] = t[q][b]
      BY <1>3, <3>1
    <3>3. \A l \in L : t1[l][a] = t[l][a]
      BY <1>1, <1>3
    <3> QED BY <3>1, <3>2, <3>3, LookKept
  <2> QED BY <2>1, <2>2
<1>9. SameLook(t, t1, r)
  BY ONLY <1>8 DEF SameLook
<1>10. FilledBut(t, M, L, two) => Filled(t1, (M \ {two}) \cup L)
  BY <1>1, <1>3 DEF FilledBut, Filled, HasOtherEntries
<1> QED BY <1>7, <1>9, <1>10
-----------------------------------------------------------------------------
(* The tables are the least for what they hold.                            *)
Minimal(t, r) == \E M, L : Tree(t, r, M, L) /\ Filled(t, M \cup L)

LookAt(t, r, v) == Look(t, r, vpn(v)[3], vpn(v)[2], vpn(v)[1])

LEMMA SameLookAt ==
  ASSUME NEW t, NEW t1, NEW r, SameLook(t, t1, r), NEW v \in Pages
  PROVE  LookAt(t1, r, v) = LookAt(t, r, v)
BY Digits DEF SameLook, LookAt

(* The parts of map: the two tables on the way to the entry.               *)
LEMMA WithMiddle ==
  ASSUME NEW t, NEW r, NEW M, NEW L, Tree(t, r, M, L), Filled(t, M \cup L), NEW c \in Index,
         NEW t1, t1 = IF t[r][c] = Null THEN WithTable(t, r, c) ELSE t
  PROVE  \E M1 : /\ Tree(t1, r, M1, L) /\ SameLook(t, t1, r) /\ t1[r][c] \in M1
                 /\ FilledBut(t1, M1, L, t1[r][c])
<1>1. CASE t[r][c] = Null
  <2>1. PICK new : new = pgalloc(t)
    OBVIOUS
  <2>2. t1 = WithTable(t, r, c)
    BY <1>1
  <2>3. /\ Tree(t1, r, M \cup {new}, L) /\ SameLook(t, t1, r) /\ t1[r][c] = new
        /\ Filled(t1, M \cup L)
    BY ONLY <1>1, <2>1, <2>2, c \in Index, Tree(t, r, M, L), Filled(t, M \cup L), NewMiddle
  <2>4. FilledBut(t1, M \cup {new}, L, new)
    BY ONLY <2>3 DEF Filled, FilledBut
  <2>5. new \in M \cup {new}
    OBVIOUS
  <2> QED BY ONLY <2>3, <2>4, <2>5
<1>2. CASE t[r][c] # Null
  <2>1. t1 = t /\ t1[r][c] \in M
    BY <1>2, WalkFinds
  <2>2. FilledBut(t1, M, L, t1[r][c]) /\ SameLook(t, t1, r)
    BY <1>2, <2>1 DEF Filled, FilledBut, SameLook
  <2> QED BY <2>1, <2>2
<1> QED BY <1>1, <1>2

LEMMA WithLast ==
  ASSUME NEW t, NEW r, NEW M, NEW L, Tree(t, r, M, L), NEW c \in Index, NEW b \in Index,
         NEW two \in M, two = t[r][c], FilledBut(t, M, L, two),
         NEW t1, t1 = IF t[two][b] = Null THEN WithTable(t, two, b) ELSE t
  PROVE  \E L1 : /\ Tree(t1, r, M, L1) /\ SameLook(t, t1, r) /\ t1[two][b] \in L1
                 /\ t1[r][c] = two /\ FilledBut(t1, M, L1, t1[two][b])
<1>1. CASE t[two][b] = Null
  <2>1. PICK new : new = pgalloc(t)
    OBVIOUS
  <2>2. t1 = WithTable(t, two, b)
    BY <1>1
  <2>3. PICK S \in SUBSET (M \cup L) : S = (M \cup L) \ {two}
    OBVIOUS
  <2>4. /\ Tree(t1, r, M, L \cup {new}) /\ SameLook(t, t1, r) /\ t1[two][b] = new
        /\ \A j \in Index : t1[r][j] = t[r][j]
        /\ \A Z \in SUBSET (M \cup L) : Filled(t, Z) => Filled(t1, Z \cup {two})
    BY ONLY <1>1, <2>1, <2>2, b \in Index, two \in M, Tree(t, r, M, L), NewLast
  <2>5. Filled(t1, S \cup {two})
    BY ONLY <2>3, <2>4, FilledBut(t, M, L, two) DEF FilledBut
  <2>6. FilledBut(t1, M, L \cup {new}, new)
    BY ONLY <2>3, <2>5 DEF Filled, FilledBut
  <2>7. new \in L \cup {new}
    OBVIOUS
  <2> QED BY <2>4, <2>6, <2>7
<1>2. CASE t[two][b] # Null
  <2>1. t1 = t
    BY <1>2
  <2>2. t1[two][b] \in L
    BY <1>2, <2>1 DEF Tree, Points
  <2>3. HasOtherEntries(t[two])
    BY <1>2 DEF HasOtherEntries
  <2>4. FilledBut(t1, M, L, t1[two][b])
    BY ONLY <2>1, <2>3, FilledBut(t, M, L, two) DEF Filled, FilledBut
  <2>5. SameLook(t, t1, r)
    BY ONLY <2>1 DEF SameLook
  <2> QED BY <2>1, <2>2, <2>4, <2>5
<1> QED BY <1>1, <1>2

(* MMU::map makes the entry of one page, and changes no other.             *)
LEMMA MapKeeps ==
  ASSUME NEW t, NEW r, r = rootTablePointer, Minimal(t, r), NEW v \in Pages,
         NEW right \in Rights, NEW t3, t3 = Mapped(t, v, right)
  PROVE  /\ Minimal(t3, r)
         /\ \A w \in Pages : LookAt(t3, r, w) = IF w = v THEN right ELSE LookAt(t, r, w)
<1>1. PICK M, L : Tree(t, r, M, L) /\ Filled(t, M \cup L)
  BY DEF Minimal
<1>2. PICK c \in Index, b \in Index, a \in Index : c = vpn(v)[3] /\ b = vpn(v)[2] /\ a = vpn(v)[1]
  <2>1. vpn(v)[3] \in Index /\ vpn(v)[2] \in Index /\ vpn(v)[1] \in Index
    BY ONLY v \in Pages, Digits
  <2> QED BY ONLY <2>1
<1>3. PICK t1 : t1 = IF t[r][c] = Null THEN WithTable(t, r, c) ELSE t
  OBVIOUS
<1>4. PICK two : two = t1[r][c]
  OBVIOUS
<1>5. PICK t2 : t2 = IF t1[two][b] = Null THEN WithTable(t1, two, b) ELSE t1
  BY Zenon
<1>6. PICK three : three = t2[two][b]
  BY Zenon
<1>7. t3 = WithEntry(t2, three, a, right)
  BY ONLY <1>2, <1>3, <1>4, <1>5, <1>6, r = rootTablePointer, t3 = Mapped(t, v, right) DEF Mapped
<1>8. PICK M1 : /\ Tree(t1, r, M1, L) /\ SameLook(t, t1, r) /\ two \in M1
                /\ FilledBut(t1, M1, L, two)
  BY <1>1, <1>3, <1>4, WithMiddle
<1>9. PICK L1 : /\ Tree(t2, r, M1, L1) /\ SameLook(t1, t2, r) /\ three \in L1
                /\ t2[r][c] = two /\ FilledBut(t2, M1, L1, three)
  <2>1. \E L1 : /\ Tree(t2, r, M1, L1) /\ SameLook(t1, t2, r) /\ t2[two][b] \in L1
                /\ t2[r][c] = two /\ FilledBut(t2, M1, L1, t2[two][b])
    BY ONLY <1>4, <1>5, <1>8, c \in Index, b \in Index, WithLast
  <2> QED BY ONLY <1>6, <2>1
<1>10. right \in Rights \cup {Null} /\ right # Null
  BY DEF Rights, Null
<1>11. /\ Tree(t3, r, M1, L1) /\ t3[three][a] = right /\ LookChanged(t2, t3, r, c, b, a, right)
       /\ FilledBut(t2, M1, L1, three) => FilledBut(t3, M1, L1, three)
  <2>1. t2[two][b] = three /\ t2[r][c] = two /\ two \in M1 /\ three \in L1 /\ Tree(t2, r, M1, L1)
    BY <1>6, <1>8, <1>9
  <2> QED BY ONLY <1>7, <1>10, <2>1, c \in Index, b \in Index, a \in Index, SetEntry
<1>12. Filled(t3, M1 \cup L1)
  <2>1. FilledBut(t3, M1, L1, three)
    BY <1>9, <1>11
  <2>2. HasOtherEntries(t3[three])
    BY <1>2, <1>10, <1>11 DEF HasOtherEntries
  <2> QED BY ONLY <2>1, <2>2 DEF Filled, FilledBut
<1>13. ASSUME NEW w \in Pages
       PROVE  LookAt(t3, r, w) = IF w = v THEN right ELSE LookAt(t, r, w)
  <2>1. LookAt(t2, r, w) = LookAt(t, r, w)
    BY <1>8, <1>9, SameLookAt
  <2>2. w = v <=> vpn(w)[3] = c /\ vpn(w)[2] = b /\ vpn(w)[1] = a
    BY <1>2, DigitsTell
  <2>3. LookAt(t3, r, w) = IF w = v THEN right ELSE LookAt(t2, r, w)
    BY <1>11, <2>2, Digits DEF LookAt, LookChanged
  <2> QED BY <2>1, <2>3
<1> QED BY <1>11, <1>12, <1>13 DEF Minimal
(* MMU::invalid takes the entry of one page away, and changes no other.    *)
LEMMA InvalidKeeps ==
  ASSUME NEW t, NEW r, r = rootTablePointer, Minimal(t, r), NEW v \in Pages,
         NEW t4, t4 = Invalid(t, v)
  PROVE  /\ Minimal(t4, r)
         /\ \A w \in Pages : LookAt(t4, r, w) = IF w = v THEN Null ELSE LookAt(t, r, w)
<1>1. PICK M, L : Tree(t, r, M, L) /\ Filled(t, M \cup L)
  BY DEF Minimal
<1>2. PICK c \in Index, b \in Index, a \in Index : c = vpn(v)[3] /\ b = vpn(v)[2] /\ a = vpn(v)[1]
  <2>1. vpn(v)[3] \in Index /\ vpn(v)[2] \in Index /\ vpn(v)[1] \in Index
    BY ONLY v \in Pages, Digits
  <2> QED BY ONLY <2>1
<1>3. PICK two : two = t[r][c]
  OBVIOUS
<1>4. PICK three : three = t[two][b]
  OBVIOUS
<1>5. PICK t1 : t1 = WithEntry(t, three, a, Null)
  OBVIOUS
<1>6. PICK t2 : t2 = TableFreed(t1, two, b, three)
  BY Zenon
<1>7. t4 = IF two = Null \/ three = Null THEN t
           ELSE IF HasOtherEntries(t1[three]) THEN t1
           ELSE IF HasOtherEntries(t2[two]) THEN t2
           ELSE TableFreed(t2, r, c, two)
  BY ONLY <1>2, <1>3, <1>4, <1>5, <1>6, r = rootTablePointer, t4 = Invalid(t, v)
  DEF Invalid, PAGE_UNMAP
<1>8. \A w \in Pages : w = v <=> vpn(w)[3] = c /\ vpn(w)[2] = b /\ vpn(w)[1] = a
  BY <1>2, DigitsTell
<1>9. CASE two = Null \/ three = Null
  <2>1. t4 = t /\ LookAt(t, r, v) = Null
    BY <1>2, <1>3, <1>4, <1>7, <1>9 DEF LookAt, Look
  <2> QED BY <2>1
<1>10. CASE ~(two = Null \/ three = Null)
  <2>1. two \in M /\ three \in L
    <3>1. two \in M
      BY <1>1, <1>3, <1>10 DEF Tree, Points
    <3> QED BY <1>1, <1>4, <1>10, <3>1 DEF Tree, Points
  <2>2. /\ Tree(t1, r, M, L) /\ LookChanged(t, t1, r, c, b, a, Null)
        /\ \A p \in {r} \cup M, j \in Index : t1[p][j] = t[p][j]
        /\ FilledBut(t, M, L, three) => FilledBut(t1, M, L, three)
    <3>1. t[r][c] = two /\ t[two][b] = three /\ Tree(t, r, M, L)
      BY <1>1, <1>3, <1>4
    <3>2. Null \in Rights \cup {Null} /\ two \in M /\ three \in L
      BY <2>1
    <3> QED BY ONLY <1>5, <3>1, <3>2, c \in Index, b \in Index, a \in Index, SetEntry
  <2>3. FilledBut(t1, M, L, three) /\ t1[two][b] = three /\ t1[r][c] = two
    BY <1>1, <1>2, <1>3, <1>4, <2>1, <2>2 DEF Filled, FilledBut
  <2>4. ASSUME SameLook(t1, t4, r), NEW w \in Pages
        PROVE  LookAt(t4, r, w) = IF w = v THEN Null ELSE LookAt(t, r, w)
    <3>1. LookAt(t4, r, w) = LookAt(t1, r, w)
      BY <2>4, SameLookAt
    <3>2. LookAt(t1, r, w) = IF w = v THEN Null ELSE LookAt(t, r, w)
      BY <1>8, <2>2, Digits DEF LookAt, LookChanged
    <3> QED BY <3>1, <3>2
  <2>5. CASE HasOtherEntries(t1[three])
    <3>1. t4 = t1 /\ SameLook(t1, t1, r)
      BY <1>7, <1>10, <2>5 DEF SameLook
    <3>2. Filled(t1, M \cup L)
      BY <2>3, <2>5 DEF Filled, FilledBut
    <3>3. Minimal(t4, r)
      BY <2>2, <3>1, <3>2 DEF Minimal
    <3> QED BY <2>4, <3>1, <3>3
  <2>6. CASE ~HasOtherEntries(t1[three])
    <3>1. PICK L2 : L2 = L \ {three}
      OBVIOUS
    <3>2. /\ Tree(t2, r, M, L2) /\ SameLook(t1, t2, r)
          /\ \A j \in Index : t2[r][j] = t1[r][j]
          /\ FilledBut(t2, M, L2, two)
      <4>1. /\ two \in M /\ three \in L /\ t1[two][b] = three /\ Tree(t1, r, M, L)
            /\ FilledBut(t1, M, L, three)
        BY <2>1, <2>2, <2>3
      <4> QED BY ONLY <1>6, <2>6, <3>1, <4>1, b \in Index, FreeLast
    <3>3. t2[r][c] = two
      BY <1>2, <2>3, <3>2
    <3>4. CASE HasOtherEntries(t2[two])
      <4>1. t4 = t2
        BY <1>7, <1>10, <2>6, <3>4
      <4>2. Filled(t2, M \cup L2)
        BY <3>2, <3>4 DEF Filled, FilledBut
      <4>3. Minimal(t4, r)
        BY <3>2, <4>1, <4>2 DEF Minimal
      <4> QED BY <2>4, <3>2, <4>1, <4>3
    <3>5. CASE ~HasOtherEntries(t2[two])
      <4>1. t4 = TableFreed(t2, r, c, two)
        BY <1>7, <1>10, <2>6, <3>5
      <4>2. /\ Tree(t4, r, M \ {two}, L2) /\ SameLook(t2, t4, r)
            /\ Filled(t4, (M \ {two}) \cup L2)
        BY ONLY <2>1, <3>2, <3>3, <3>5, <4>1, c \in Index, FreeMiddle
      <4>3. Minimal(t4, r)
        BY <4>2 DEF Minimal
      <4>4. SameLook(t1, t4, r)
        BY <3>2, <4>2 DEF SameLook
      <4> QED BY <2>4, <4>3, <4>4
    <3> QED BY <3>4, <3>5
  <2> QED BY <2>5, <2>6
<1> QED BY <1>9, <1>10
-----------------------------------------------------------------------------
(* The loop of punmap: the recursive function exists, and after every page *)
(* the tables are the least, without the pages unmapped so far.            *)
Undone(f, t, n, start) == f[0] = t /\ \A k \in 1 .. n : f[k] = Invalid(f[k - 1], start + k - 1)

Loop(f, t, n, start) == [k \in 0 .. n |-> IF k = 0 THEN t ELSE Invalid(f[k - 1], start + k - 1)]

LEMMA AfterExists ==
  ASSUME NEW t, NEW start \in Nat, NEW n \in Nat
  PROVE  \E f : f = Loop(f, t, n, start)
<1>1. PICK K : K = {k \in 0 .. n : \E g : DOMAIN g = 0 .. k /\ Undone(g, t, k, start)}
  OBVIOUS
<1>2. 0 \in K
  <2>1. PICK g : g = [k \in 0 .. 0 |-> t]
    OBVIOUS
  <2>2. DOMAIN g = 0 .. 0 /\ g[0] = t /\ \A i \in 1 .. 0 : FALSE
    BY <2>1
  <2>3. Undone(g, t, 0, start)
    BY <2>2 DEF Undone
  <2> QED BY <1>1, <2>2, <2>3
<1>3. ASSUME NEW k \in 0 .. n, k \in K, k < n PROVE k + 1 \in K
  <2>1. PICK g : DOMAIN g = 0 .. k /\ Undone(g, t, k, start)
    BY <1>1, <1>3
  <2>2. PICK e : e = Invalid(g[k], start + (k + 1) - 1)
    OBVIOUS
  <2>3. PICK h : h = [i \in 0 .. k + 1 |-> IF i = k + 1 THEN e ELSE g[i]]
    OBVIOUS
  <2>4. h[k + 1] = e /\ \A i \in 0 .. k : h[i] = g[i]
    BY <2>3
  <2>5. ASSUME NEW i \in 1 .. k + 1 PROVE h[i] = Invalid(h[i - 1], start + i - 1)
    <3>1. CASE i = k + 1
      <4>1. i - 1 = k /\ k \in 0 .. k
        BY <3>1
      <4> QED BY <2>2, <2>4, <3>1, <4>1
    <3>2. CASE i # k + 1
      <4>1. i \in 1 .. k /\ i \in 0 .. k /\ i - 1 \in 0 .. k
        BY <3>2
      <4> QED BY <2>1, <2>4, <4>1 DEF Undone
    <3> QED BY <3>1, <3>2
  <2>6. h[0] = t /\ DOMAIN h = 0 .. k + 1 /\ k + 1 \in 0 .. n
    BY <1>3, <2>1, <2>3, <2>4 DEF Undone
  <2>7. Undone(h, t, k + 1, start)
    BY <2>5, <2>6 DEF Undone
  <2> QED BY <1>1, <2>6, <2>7
<1>4. n \in K
  <2>1. \A k \in 0 .. n : k \in K
    BY <1>2, <1>3, Up
  <2> QED BY <2>1
<1>5. PICK g : DOMAIN g = 0 .. n /\ Undone(g, t, n, start)
  BY <1>1, <1>4
<1>6. PICK h : h = [k \in 0 .. n |-> IF k = 0 THEN t ELSE Invalid(g[k - 1], start + k - 1)]
  OBVIOUS
<1>7. \A k \in 0 .. n : h[k] = g[k] /\ (k # 0 => k - 1 \in 0 .. n)
  <2>1. \A k \in 0 .. n : k # 0 => k \in 1 .. n
    OBVIOUS
  <2> QED BY <1>5, <1>6, <2>1 DEF Undone
<1>8. h = [k \in 0 .. n |-> IF k = 0 THEN t ELSE Invalid(h[k - 1], start + k - 1)]
  <2>1. \A k \in 0 .. n : (IF k = 0 THEN t ELSE Invalid(g[k - 1], start + k - 1)) =
                          (IF k = 0 THEN t ELSE Invalid(h[k - 1], start + k - 1))
    BY <1>7
  <2> QED BY <1>6, <2>1
<1> QED BY <1>8 DEF Loop

LEMMA UnmappedIs ==
  ASSUME NEW t, NEW start \in Nat, NEW end \in Nat, start <= end
  PROVE  \E f : Undone(f, t, end - start + 1, start) /\ Unmapped(t, start, end) = f[end - start + 1]
<1>1. PICK n \in Nat : n = end - start + 1
  <2>1. end - start + 1 \in Nat
    OBVIOUS
  <2> QED BY <2>1
<1>2. PICK f : f = CHOOSE g : g = Loop(g, t, n, start)
  OBVIOUS
<1>3. f = Loop(f, t, n, start)
  <2>1. \E h : h = Loop(h, t, n, start)
    BY AfterExists
  <2> QED BY ONLY <1>2, <2>1
<1>4. Unmapped(t, start, end) = f[n]
  BY ONLY <1>1, <1>2 DEF Unmapped, Loop
<1>5. \A k \in 1 .. n : k \in 0 .. n /\ k # 0
  OBVIOUS
<1>6. f[0] = t /\ \A k \in 1 .. n : f[k] = Invalid(f[k - 1], start + k - 1)
  BY <1>3, <1>5 DEF Loop
<1> QED BY <1>1, <1>4, <1>6 DEF Undone

LEMMA UnmappedKeeps ==
  ASSUME NEW t, NEW r, r = rootTablePointer, Minimal(t, r), NEW start \in Pages,
         NEW end \in Pages, start <= end, NEW t1, t1 = Unmapped(t, start, end)
  PROVE  /\ Minimal(t1, r)
         /\ \A w \in Pages :
              LookAt(t1, r, w) = IF w \in start .. end THEN Null ELSE LookAt(t, r, w)
<1>1. start \in Nat /\ end \in Nat /\ \A v \in start .. end : v \in Pages
  <2>1. PICK top \in Int : top = N * N * N - 1
    BY MMUAssumption
  <2> QED BY <2>1 DEF Pages
<1>2. PICK n \in Nat : n = end - start + 1
  <2>1. end - start + 1 \in Nat
    BY <1>1
  <2> QED BY <2>1
<1>3. PICK f : Undone(f, t, n, start) /\ t1 = f[n]
  BY <1>1, <1>2, UnmappedIs
<1>4. PICK K : K = {k \in 0 .. n :
                      /\ Minimal(f[k], r)
                      /\ \A w \in Pages :
                           LookAt(f[k], r, w) =
                             IF w \in start .. start + k - 1 THEN Null ELSE LookAt(t, r, w)}
  OBVIOUS
<1>5. 0 \in K
  <2>1. f[0] = t /\ \A w : w \notin start .. start + 0 - 1
    BY <1>1, <1>3 DEF Undone
  <2> QED BY <1>4, <2>1
<1>6. ASSUME NEW k \in 0 .. n, k \in K, k < n PROVE k + 1 \in K
  <2>1. PICK v \in Pages : v = start + k
    <3>1. start + k \in start .. end
      BY <1>1, <1>2, <1>6
    <3> QED BY <1>1, <3>1
  <2>2. k + 1 \in 0 .. n /\ f[k + 1] = Invalid(f[k], v)
    <3>1. k + 1 \in 1 .. n /\ (k + 1) - 1 = k /\ start + (k + 1) - 1 = v
      BY <1>1, <1>6, <2>1
    <3> QED BY <1>3, <3>1 DEF Undone
  <2>3. PICK m : m = f[k + 1]
    OBVIOUS
  <2>4. Minimal(m, r) /\ \A w \in Pages : LookAt(m, r, w) = IF w = v THEN Null ELSE LookAt(f[k], r, w)
    <3>1. Minimal(f[k], r)
      BY <1>4, <1>6
    <3> QED BY ONLY <2>2, <2>3, <3>1, r = rootTablePointer, v \in Pages, InvalidKeeps
  <2>5. ASSUME NEW w \in Pages
        PROVE  LookAt(m, r, w) = IF w \in start .. start + (k + 1) - 1 THEN Null ELSE LookAt(t, r, w)
    <3>1. w \in start .. start + (k + 1) - 1 <=> w = v \/ w \in start .. start + k - 1
      BY <1>1, <1>6, <2>1
    <3>2. LookAt(f[k], r, w) = IF w \in start .. start + k - 1 THEN Null ELSE LookAt(t, r, w)
      BY <1>4, <1>6
    <3> QED BY ONLY <2>4, <3>1, <3>2, w \in Pages
  <2> QED BY <1>4, <2>2, <2>3, <2>4, <2>5
<1>7. n \in K
  <2>1. \A k \in 0 .. n : k \in K
    BY <1>5, <1>6, Up
  <2> QED BY <2>1
<1>8. start + n - 1 = end
  BY <1>1, <1>2
<1> QED BY <1>3, <1>4, <1>7, <1>8
-----------------------------------------------------------------------------
(* The inductive invariant: without a root no table is in use; with one    *)
(* the tables are those of a tree of three levels, all but the root with   *)
(* an entry.                                                               *)
IInv ==
  IF rootTablePointer = Null THEN DOMAIN tab = {} ELSE Minimal(tab, rootTablePointer)

LEMMA EmptyRoot ==
  ASSUME NEW r \in Tables, NEW t, t = [p \in {r} |-> ZeroTable]
  PROVE  Minimal(t, r) /\ \A v \in Pages : LookAt(t, r, v) = Null
<1>1. DOMAIN t = {r} /\ t[r] = ZeroTable /\ DOMAIN ZeroTable = Index
      /\ \A i \in Index : ZeroTable[i] = Null
  BY DEF ZeroTable
<1>2. Points(t, {r}, {}) /\ Points(t, {}, {})
  BY <1>1 DEF Points
<1>3. Tree(t, r, {}, {}) /\ Filled(t, {} \cup {})
  BY <1>1, <1>2 DEF Tree, Indexed, Filled
<1>4. \A v \in Pages : LookAt(t, r, v) = Null
  BY <1>1, Digits DEF LookAt, Look
<1> QED BY <1>3, <1>4 DEF Minimal

(* What each operation does, to the tables and to what is found.           *)
LEMMA MMUInitIs ==
  ASSUME IInv, MMUInit
  PROVE  /\ rootTablePointer' \in Tables /\ rootTablePointer' # Null
         /\ Minimal(tab', rootTablePointer')
         /\ \A v \in Pages : LookAt(tab', rootTablePointer', v) = Null
<1>1. PICK r : r = pgalloc(tab)
  OBVIOUS
<1>2. DOMAIN tab = {} /\ rootTablePointer' = r /\ tab' = [p \in {r} |-> ZeroTable]
  BY <1>1 DEF IInv, MMUInit
<1>3. \E p \in Tables : TRUE
  <2>1. PICK n \in Nat : n = N * N
    BY MMUAssumption
  <2>2. Cardinality(Tables) >= 1 + N + n /\ N \in Nat /\ IsFiniteSet(Tables)
    BY <2>1, MMUAssumption
  <2>3. Cardinality(Tables) # 0
    BY ONLY <2>1, <2>2, FS_CardinalityType
  <2> QED BY <2>2, <2>3, FS_EmptySet
<1>4. r \in Tables
  BY <1>1, <1>2, <1>3 DEF pgalloc
<1>5. r # Null
  BY <1>4, MMUAssumption
<1> QED BY <1>2, <1>4, <1>5, EmptyRoot

LEMMA MapIs ==
  ASSUME IInv, rootTablePointer # Null, NEW v \in Pages, NEW right \in Rights,
         tab' = Mapped(tab, v, right)
  PROVE  /\ Minimal(tab', rootTablePointer)
         /\ \A w \in Pages :
              LookAt(tab', rootTablePointer, w) =
                IF w = v THEN right ELSE LookAt(tab, rootTablePointer, w)
<1>1. PICK r, t, t1 : r = rootTablePointer /\ t = tab /\ t1 = tab'
  OBVIOUS
<1>2. Minimal(t, r) /\ t1 = Mapped(t, v, right)
  BY <1>1 DEF IInv
<1>3. Minimal(t1, r) /\ \A w \in Pages : LookAt(t1, r, w) = IF w = v THEN right ELSE LookAt(t, r, w)
  BY ONLY <1>1, <1>2, v \in Pages, right \in Rights, MapKeeps
<1> QED BY ONLY <1>1, <1>3

LEMMA PunmapIs ==
  ASSUME IInv, NEW start \in Pages, NEW end \in Pages, punmap(start, end)
  PROVE  /\ Minimal(tab', rootTablePointer)
         /\ \A w \in Pages :
              LookAt(tab', rootTablePointer, w) =
                IF w \in start .. end THEN Null ELSE LookAt(tab, rootTablePointer, w)
<1>1. PICK r, t, t1 : r = rootTablePointer /\ t = tab /\ t1 = tab'
  OBVIOUS
<1>2. Minimal(t, r) /\ start <= end /\ t1 = Unmapped(t, start, end)
  BY <1>1 DEF IInv, punmap
<1>3. /\ Minimal(t1, r)
      /\ \A w \in Pages : LookAt(t1, r, w) = IF w \in start .. end THEN Null ELSE LookAt(t, r, w)
  BY ONLY <1>1, <1>2, start \in Pages, end \in Pages, UnmappedKeeps
<1> QED BY ONLY <1>1, <1>3

LEMMA FinalizeIs ==
  ASSUME IInv, MMUFinalize
  PROVE  rootTablePointer' = Null /\ DOMAIN tab' = {}
<1>1. PICK M, L : Tree(tab, rootTablePointer, M, L)
  BY DEF IInv, MMUFinalize, Minimal
<1>2. /\ DOMAIN tab = {rootTablePointer} \cup M \cup L /\ Null \notin M
      /\ \A q \in M : \E i \in Index : tab[rootTablePointer][i] = q
      /\ \A l \in L : \E q \in M, i \in Index : tab[q][i] = l
  BY <1>1, MMUAssumption DEF Tree, Points
<1>3. DOMAIN tab \subseteq Found(tab, rootTablePointer)
  <2>1. PICK S : S = {tab[rootTablePointer][i] : i \in Index} \ {Null}
    OBVIOUS
  <2>2. Found(tab, rootTablePointer) =
          {rootTablePointer} \cup S \cup {tab[two][i] : two \in S, i \in Index}
    BY ONLY <2>1 DEF Found
  <2>3. M \subseteq S
    BY <1>2, <2>1
  <2>4. L \subseteq {tab[two][i] : two \in S, i \in Index}
    BY <1>2, <2>3
  <2> QED BY <1>2, <2>2, <2>3, <2>4
<1> QED BY <1>3 DEF MMUFinalize

LEMMA NextKeeps == IInv /\ [TablesNext]_tableVars => IInv'
<1> SUFFICES ASSUME IInv, [TablesNext]_tableVars PROVE IInv'
  OBVIOUS
<1>1. CASE MMUInit
  BY <1>1, MMUInitIs DEF IInv
<1>2. ASSUME NEW v \in Touched, NEW right \in Rights, map(v, right) PROVE IInv'
  <2>1. v \in Pages /\ rootTablePointer # Null /\ rootTablePointer' = rootTablePointer
    BY <1>2, MMUAssumption DEF map
  <2>2. Minimal(tab', rootTablePointer)
    BY <1>2, <2>1, MapIs DEF map
  <2> QED BY <2>1, <2>2 DEF IInv
<1>3. ASSUME NEW start \in Pages, NEW end \in Pages, punmap(start, end) PROVE IInv'
  <2>1. rootTablePointer # Null /\ rootTablePointer' = rootTablePointer
    BY <1>3 DEF punmap
  <2>2. Minimal(tab', rootTablePointer)
    BY <1>3, PunmapIs
  <2> QED BY <2>1, <2>2 DEF IInv
<1>4. ASSUME NEW v \in Touched, NEW mode \in Rights, NEW fetch \in BOOLEAN, pageFault(v, mode, fetch)
      PROVE  IInv'
  <2>1. v \in Pages /\ rootTablePointer # Null /\ rootTablePointer' = rootTablePointer
    BY <1>4, MMUAssumption DEF pageFault
  <2>2. CASE EndsThread(v, mode, fetch)
    BY <1>4, <2>1, <2>2 DEF pageFault, IInv
  <2>3. CASE ~EndsThread(v, mode, fetch)
    <3>1. Minimal(tab', rootTablePointer)
      BY <1>4, <2>1, <2>3, MapIs DEF pageFault
    <3> QED BY <2>1, <3>1 DEF IInv
  <2> QED BY <2>2, <2>3
<1>5. CASE MMUFinalize
  BY <1>5, FinalizeIs DEF IInv
<1>6. CASE UNCHANGED tableVars
  BY <1>6 DEF tableVars, IInv
<1> QED BY <1>1, <1>2, <1>3, <1>4, <1>5, <1>6 DEF TablesNext

THEOREM TablesInvariant == TablesSpec => []IInv
<1>1. TablesInit => IInv
  BY DEF TablesInit, IInv
<1> QED BY <1>1, NextKeeps, PTL DEF TablesSpec

-----------------------------------------------------------------------------
(* The tables are the least that the mapped pages need: a tree, in which   *)
(* every table but the root has an entry; none leaks, none is used twice   *)
(* and none that was freed is still linked (mmu.cpp:60-115, 141-162).      *)
LEMMA TreeExact ==
  ASSUME NEW M, NEW L, Tree(tab, rootTablePointer, M, L), rootTablePointer # Null,
         Filled(tab, M \cup L)
  PROVE  TablesExact
<1>1. PICK r : r = rootTablePointer
  OBVIOUS
<1>2. /\ r \in Tables /\ M \subseteq Tables /\ L \subseteq Tables
      /\ r \notin M /\ r \notin L /\ M \cap L = {} /\ DOMAIN tab = {r} \cup M \cup L
      /\ \A p \in DOMAIN tab : DOMAIN tab[p] = Index
      /\ \A p \in L, i \in Index : tab[p][i] \in Rights \cup {Null}
      /\ Null \notin Tables /\ Null \notin M /\ Null \notin L
  BY <1>1, MMUAssumption DEF Tree, Indexed
<1>3. Points(tab, {r}, M) /\ Points(tab, M, L)
  BY <1>1 DEF Tree
<1>4. Middle = M
  BY <1>1, <1>2, <1>3 DEF Middle, Points
<1>5. Leaves = L
  <2>1. \A q \in M, i \in Index : tab[q][i] \in L \cup {Null}
    BY <1>3 DEF Points
  <2>2. \A l \in L : \E q \in M, i \in Index : tab[q][i] = l
    BY <1>3 DEF Points
  <2>3. \A x : x \in Leaves <=> \E q \in M, i \in Index : x = tab[q][i] /\ x # Null
    BY <1>4 DEF Leaves
  <2>4. ASSUME NEW x \in Leaves PROVE x \in L
    BY <2>1, <2>3, <2>4
  <2>5. ASSUME NEW x \in L PROVE x \in Leaves
    BY <1>2, <2>2, <2>3, <2>5
  <2> QED BY ONLY <2>4, <2>5
<1>6. TablesTypeOK
  BY <1>1, <1>2, <1>4, <1>5 DEF TablesTypeOK
<1>7. Cardinality(Links) = Cardinality(DOMAIN tab) - 1
  <2>1. PICK S : S = M \cup L
    OBVIOUS
  <2>2. \A x \in Links : x[1] \in {r} \cup M /\ x[2] \in Index /\ tab[x[1]][x[2]] \in S
                         /\ x = <<x[1], x[2]>>
    BY <1>1, <1>2, <1>3, <1>4, <2>1 DEF Links, Points
  <2>3. ASSUME NEW q \in S PROVE \E x \in Links : tab[x[1]][x[2]] = q
    <3>1. PICK p \in {r} \cup M, i \in Index : tab[p][i] = q
      BY <1>3, <2>1, <2>3 DEF Points
    <3>2. PICK x : x = <<p, i>>
      OBVIOUS
    <3>3. x \in ({rootTablePointer} \cup Middle) \X Index /\ x[1] = p /\ x[2] = i
      BY <1>1, <1>4, <3>1, <3>2
    <3>4. q # Null
      BY <1>2, <2>1, <2>3
    <3> QED BY <3>1, <3>3, <3>4 DEF Links
  <2>4. ASSUME NEW x \in Links, NEW y \in Links, tab[x[1]][x[2]] = tab[y[1]][y[2]]
        PROVE  x = y
    <3>1. tab[x[1]][x[2]] # Null
      BY <2>4 DEF Links
    <3>2. CASE x[1] = r /\ y[1] = r
      BY <1>3, <2>2, <2>4, <3>1, <3>2 DEF Points
    <3>3. CASE x[1] \in M /\ y[1] \in M
      <4>1. x[1] = y[1] /\ x[2] = y[2]
        BY <1>3, <2>2, <2>4, <3>1, <3>3 DEF Points
      <4> QED BY <2>2, <2>4, <4>1
    <3>4. CASE (x[1] = r /\ y[1] \in M) \/ (x[1] \in M /\ y[1] = r)
      <4>1. \A i \in Index : tab[r][i] \in M \cup {Null}
        BY <1>3 DEF Points
      <4>2. \A q \in M, i \in Index : tab[q][i] \in L \cup {Null}
        BY <1>3 DEF Points
      <4>3. \/ tab[x[1]][x[2]] \in M /\ tab[y[1]][y[2]] \in L
            \/ tab[x[1]][x[2]] \in L /\ tab[y[1]][y[2]] \in M
        BY <2>2, <2>4, <3>1, <3>4, <4>1, <4>2
      <4> QED BY ONLY <1>2, <2>4, <4>3
    <3> QED BY <2>2, <2>4, <3>2, <3>3, <3>4
  <2>5. PICK f : f = [x \in Links |-> tab[x[1]][x[2]]]
    OBVIOUS
  <2>6. f \in Injection(Links, S) /\ f \in Surjection(Links, S)
    <3>1. f \in [Links -> S] /\ \A x \in Links : f[x] = tab[x[1]][x[2]]
      BY <2>2, <2>5
    <3>2. \A x, y \in Links : f[x] = f[y] => x = y
      BY <2>4, <3>1
    <3>3. \A q \in S : \E x \in Links : f[x] = q
      BY <2>3, <3>1
    <3> QED BY ONLY <3>1, <3>2, <3>3 DEF Injection, Surjection, IsInjective
  <2>7. IsFiniteSet(S)
    <3>1. S \in SUBSET Tables /\ IsFiniteSet(Tables)
      BY <1>2, <2>1, MMUAssumption
    <3> QED BY ONLY <3>1, FS_Subset
  <2>8. Cardinality(Links) = Cardinality(S)
    BY ONLY <2>6, <2>7, FS_Injection
  <2>9. Cardinality(DOMAIN tab) = Cardinality(S) + 1
    <3>1. DOMAIN tab = S \cup {r} /\ r \notin S
      BY <1>2, <2>1
    <3> QED BY ONLY <2>7, <3>1, FS_AddElement
  <2>10. Cardinality(S) \in Nat
    BY <2>7, FS_CardinalityType
  <2> QED BY <2>8, <2>9, <2>10
<1>8. TablesFormTree
  BY <1>1, <1>2, <1>4, <1>5, <1>7 DEF TablesFormTree
<1>9. NoEmptyTable
  BY <1>1, <1>2 DEF NoEmptyTable, Filled
<1> QED BY <1>6, <1>8, <1>9 DEF TablesExact

THEOREM TablesExactHolds == TablesSpec => []TablesExact
<1>1. IInv => TablesExact
  <2> SUFFICES ASSUME IInv PROVE TablesExact
    OBVIOUS
  <2>1. CASE rootTablePointer = Null
    BY <2>1 DEF IInv, TablesExact, TablesTypeOK, TablesFormTree, NoEmptyTable
  <2>2. CASE rootTablePointer # Null
    <3>1. PICK M, L : Tree(tab, rootTablePointer, M, L) /\ Filled(tab, M \cup L)
      BY <2>2 DEF IInv, Minimal
    <3> QED BY <2>2, <3>1, TreeExact
  <2> QED BY <2>1, <2>2
<1> QED BY <1>1, TablesInvariant, PTL

-----------------------------------------------------------------------------
(* Through the tables the hardware sees a map from pages to rights, which  *)
(* mapping or unmapping some pages changes at these and at no other        *)
(* (mmu.cpp:26-115).                                                       *)
Seen == [v \in Pages |-> IF rootTablePointer = Null THEN Null ELSE Walk(v)]

LEMMA SeenIs ==
  Seen = [v \in Pages |-> IF rootTablePointer = Null THEN Null ELSE LookAt(tab, rootTablePointer, v)]
BY DEF Seen, Walk, LookAt, Look

LEMMA SeenNext ==
  Seen' = [v \in Pages |-> IF rootTablePointer' = Null THEN Null
                           ELSE LookAt(tab', rootTablePointer', v)]
BY DEF Seen, Walk, LookAt, Look

LEMMA StepsAreTranslation == IInv /\ [TablesNext]_tableVars => [T!TranslationNext]_Seen
<1> SUFFICES ASSUME IInv, [TablesNext]_tableVars PROVE T!TranslationNext \/ Seen' = Seen
  OBVIOUS
<1>1. PICK s, s1 : s = Seen /\ s1 = Seen'
  OBVIOUS
<1>2. DOMAIN s = Pages /\ DOMAIN s1 = Pages
  BY <1>1, SeenIs, SeenNext
<1>3. ASSUME NEW v \in Pages, NEW right \in Rights, rootTablePointer # Null,
             rootTablePointer' = rootTablePointer, tab' = Mapped(tab, v, right)
      PROVE  T!TranslationNext
  <2>1. \A w \in Pages : LookAt(tab', rootTablePointer, w) =
                           IF w = v THEN right ELSE LookAt(tab, rootTablePointer, w)
    BY <1>3, MapIs
  <2>2. Seen' = [p \in DOMAIN Seen |-> IF p \in {v} THEN right ELSE Seen[p]]
    BY <1>3, <2>1, SeenIs, SeenNext
  <2>3. T!MapPage(v, right)
    BY <2>2 DEF T!MapPage, T!MapPages, Seen
  <2> QED BY <1>3, <2>3 DEF T!TranslationNext
<1>4. CASE MMUInit
  <2>1. Seen' = Seen
    BY <1>4, MMUInitIs, SeenIs, SeenNext DEF MMUInit
  <2> QED BY <2>1
<1>5. ASSUME NEW v \in Touched, NEW right \in Rights, map(v, right) PROVE T!TranslationNext
  BY <1>3, <1>5, MMUAssumption DEF map
<1>6. ASSUME NEW start \in Pages, NEW end \in Pages, punmap(start, end) PROVE T!TranslationNext
  <2>1. \A w \in Pages : LookAt(tab', rootTablePointer, w) =
                           IF w \in start .. end THEN Null ELSE LookAt(tab, rootTablePointer, w)
    BY <1>6, PunmapIs
  <2>2. rootTablePointer # Null /\ rootTablePointer' = rootTablePointer
    BY <1>6 DEF punmap
  <2>3. Seen' = [p \in DOMAIN Seen |-> IF p \in start .. end THEN Null ELSE Seen[p]]
    BY <2>1, <2>2, SeenIs, SeenNext
  <2>4. T!UnmapRange(start, end)
    BY <2>3 DEF T!UnmapRange, T!UnmapPages, T!MapPages, Seen
  <2> QED BY <1>6, <2>4 DEF T!TranslationNext
<1>7. ASSUME NEW v \in Touched, NEW mode \in Rights, NEW fetch \in BOOLEAN, pageFault(v, mode, fetch)
      PROVE  T!TranslationNext \/ Seen' = Seen
  <2>1. CASE EndsThread(v, mode, fetch)
    BY <1>7, <2>1, SeenIs, SeenNext DEF pageFault
  <2>2. CASE ~EndsThread(v, mode, fetch)
    BY <1>3, <1>7, <2>2, MMUAssumption DEF pageFault
  <2> QED BY <2>1, <2>2
<1>8. CASE MMUFinalize
  <2>1. PICK last : last = N * N * N - 1
    OBVIOUS
  <2>2. 0 \in Pages /\ last \in Pages /\ Pages = 0 .. last
    <3>1. last \in Nat
      <4>1. PICK n \in Nat : n = N /\ n > 0
        BY MMUAssumption
      <4>2. PICK m \in Nat : m = n * n /\ m > 0
        BY <4>1
      <4>3. m * n \in Nat /\ m * n > 0
        BY <4>1, <4>2
      <4> QED BY <2>1, <4>1, <4>2, <4>3
    <3> QED BY <2>1, <3>1 DEF Pages
  <2>3. rootTablePointer' = Null
    BY <1>8, FinalizeIs
  <2>4. Seen' = [p \in DOMAIN Seen |-> IF p \in 0 .. last THEN Null ELSE Seen[p]]
    BY <2>2, <2>3, SeenIs, SeenNext
  <2>5. T!UnmapRange(0, last)
    BY <2>4 DEF T!UnmapRange, T!UnmapPages, T!MapPages, Seen
  <2> QED BY <2>2, <2>5 DEF T!TranslationNext
<1>9. CASE UNCHANGED tableVars
  BY <1>9, SeenIs, SeenNext DEF tableVars
<1> QED BY <1>4, <1>5, <1>6, <1>7, <1>8, <1>9 DEF TablesNext

(* Mapping and unmapping pages is what Translation says, on the map that a *)
(* walk of the tables sees.                                                *)
THEOREM ImplementsTranslationHolds == TablesSpec => ImplementsTranslation
<1>1. TablesInit => T!TranslationInit
  BY DEF TablesInit, T!TranslationInit
<1>2. IInv /\ [TablesNext]_tableVars => [T!TranslationNext]_Seen
  BY StepsAreTranslation
<1> QED BY <1>1, <1>2, TablesInvariant, PTL DEF TablesSpec, ImplementsTranslation, T!TranslationSpec, Seen

-----------------------------------------------------------------------------
(***************************************************************************)
(* The heap of the programs (MemoryAllocator).  Its headers are functions  *)
(* from addresses to records, and its operations change some fields of     *)
(* some of them.                                                           *)
(***************************************************************************)
Header == [next : Addresses \cup {NULL}, prev : Addresses \cup {NULL}, size : Nat \ {0}]

Headers(h) == DOMAIN h \subseteq Addresses /\ \A a \in DOMAIN h : h[a] \in Header

(* The blocks cover the heap, without a gap and without an overlap.        *)
Tiles(h) ==
  /\ 0 \in DOMAIN h
  /\ \A a \in DOMAIN h :
       /\ End(h, a) \in DOMAIN h \cup {HeapSize}
       /\ \A b \in DOMAIN h : b <= a \/ End(h, a) <= b

(* The neighbour of an address in a set of addresses, or NULL.             *)
IsNext(F, a, x) ==
  \/ x = NULL /\ \A b \in F : b <= a
  \/ x \in F /\ a < x /\ \A b \in F : b <= a \/ x <= b
IsPrev(F, a, x) ==
  \/ x = NULL /\ \A b \in F : a <= b
  \/ x \in F /\ x < a /\ \A b \in F : b <= x \/ a <= b

(* The list holds the blocks of F in the order of their addresses.         *)
Chain(h, head, F) ==
  /\ IsNext(F, NULL, head)
  /\ \A a \in F : IsNext(F, a, h[a].next) /\ IsPrev(F, a, h[a].prev)

(* No block of F ends where another one begins, but those of X.            *)
ApartBut(h, F, X) == \A a \in F \ X : End(h, a) \notin F

Sound(h, head, F, X) ==
  F \subseteq DOMAIN h /\ Headers(h) /\ Tiles(h) /\ Chain(h, head, F) /\ ApartBut(h, F, X)

LEMMA Numbers ==
  /\ HeapSize \in Nat \ {0} /\ HEADER \in Nat \ {0} /\ MEM_BLOCK \in Nat \ {0}
  /\ PAGE \in Nat \ {0} /\ SizeMod \in Nat \ {0} /\ HEADER < HeapSize
  /\ Addresses = 0 .. HeapSize - 1 /\ NULL \notin Addresses /\ 0 \in Addresses /\ NULL = -1
  /\ Addresses \subseteq Nat
BY HeapAssumption DEF Addresses, NULL

-----------------------------------------------------------------------------
(* There is only one neighbour.                                            *)
LEMMA NextUnique ==
  ASSUME NEW F \in SUBSET Nat, NEW a \in Nat \cup {NULL}, NEW x, NEW y,
         IsNext(F, a, x), IsNext(F, a, y)
  PROVE  x = y /\ x \in F \cup {NULL} /\ (x # NULL => a < x)
<1>1. F \in SUBSET Int /\ a \in Int
  BY DEF NULL
<1>2. /\ x \in F \cup {NULL} /\ y \in F \cup {NULL}
      /\ (x # NULL => a < x) /\ (y # NULL => a < y)
  BY DEF IsNext
<1>3. CASE x # NULL /\ y # NULL
  <2>1. x \in F /\ y \in F /\ x \in Int /\ y \in Int /\ a < x /\ a < y
    BY <1>1, <1>2, <1>3
  <2>2. \A b \in F : (b <= a \/ x <= b) /\ (b <= a \/ y <= b)
    BY <1>3 DEF IsNext
  <2>3. (y <= a \/ x <= y) /\ (x <= a \/ y <= x)
    BY <2>1, <2>2
  <2> QED BY ONLY <1>1, <1>2, <2>1, <2>3
<1>4. CASE x = NULL \/ y = NULL
  BY ONLY <1>1, <1>2, <1>4, IsNext(F, a, x), IsNext(F, a, y) DEF IsNext, NULL
<1> QED BY <1>2, <1>3, <1>4

LEMMA PrevUnique ==
  ASSUME NEW F \in SUBSET Nat, NEW a \in Nat, NEW x, NEW y, IsPrev(F, a, x), IsPrev(F, a, y)
  PROVE  x = y /\ x \in F \cup {NULL} /\ (x # NULL => x < a)
<1>1. F \in SUBSET Int /\ a \in Int
  OBVIOUS
<1>2. /\ x \in F \cup {NULL} /\ y \in F \cup {NULL}
      /\ (x # NULL => x < a) /\ (y # NULL => y < a)
  BY DEF IsPrev
<1>3. CASE x # NULL /\ y # NULL
  <2>1. x \in F /\ y \in F /\ x \in Int /\ y \in Int /\ x < a /\ y < a
    BY <1>1, <1>2, <1>3
  <2>2. \A b \in F : (b <= x \/ a <= b) /\ (b <= y \/ a <= b)
    BY <1>3 DEF IsPrev
  <2>3. (y <= x \/ a <= y) /\ (x <= y \/ a <= x)
    BY <2>1, <2>2
  <2> QED BY ONLY <1>1, <1>2, <2>1, <2>3
<1>4. CASE x = NULL \/ y = NULL
  BY ONLY <1>1, <1>2, <1>4, IsPrev(F, a, x), IsPrev(F, a, y) DEF IsPrev, NULL
<1> QED BY <1>2, <1>3, <1>4

(* Neighbours in a set when an element is taken away, and when one comes   *)
(* to it.                                                                  *)
LEMMA NextRemoved ==
  ASSUME NEW F \in SUBSET Int, \A b \in F : b > NULL, NEW c \in Int, c # NULL, c \in F,
         NEW p \in Int, NEW n \in Int, IsPrev(F, c, p), IsNext(F, c, n),
         NEW a \in Int, a \in (F \cup {NULL}) \ {c}, NEW x \in Int, IsNext(F, a, x)
  PROVE  IsNext(F \ {c}, a, IF a = p THEN n ELSE x)
<1>1. CASE a = p
  BY <1>1 DEF IsNext, IsPrev, NULL
<1>2. CASE ~(a = p)
  BY <1>2 DEF IsNext, IsPrev, NULL
<1> QED BY <1>1, <1>2

LEMMA PrevRemoved ==
  ASSUME NEW F \in SUBSET Int, \A b \in F : b > NULL, NEW c \in Int, c # NULL, c \in F,
         NEW p \in Int, NEW n \in Int, IsPrev(F, c, p), IsNext(F, c, n),
         NEW a \in Int, a \in F \ {c}, NEW x \in Int, IsPrev(F, a, x)
  PROVE  IsPrev(F \ {c}, a, IF a = n THEN p ELSE x)
<1>1. CASE a = n
  BY <1>1 DEF IsNext, IsPrev, NULL
<1>2. CASE ~(a = n)
  BY <1>2 DEF IsNext, IsPrev, NULL
<1> QED BY <1>1, <1>2

LEMMA NextInserted ==
  ASSUME NEW F \in SUBSET Int, \A b \in F : b > NULL, NEW c \in Int, c > NULL, c \notin F,
         NEW p \in Int, NEW n \in Int, IsPrev(F, c, p), IsNext(F, c, n),
         NEW a \in Int, a \in F \cup {NULL}, NEW x \in Int, IsNext(F, a, x)
  PROVE  IsNext(F \cup {c}, a, IF a = p THEN c ELSE x)
<1>1. CASE a = p
  BY <1>1 DEF IsNext, IsPrev, NULL
<1>2. CASE ~(a = p)
  BY <1>2 DEF IsNext, IsPrev, NULL
<1> QED BY <1>1, <1>2

LEMMA PrevInserted ==
  ASSUME NEW F \in SUBSET Int, \A b \in F : b > NULL, NEW c \in Int, c # NULL, c \notin F,
         NEW p \in Int, NEW n \in Int, IsPrev(F, c, p), IsNext(F, c, n),
         NEW a \in Int, a \in F, NEW x \in Int, IsPrev(F, a, x)
  PROVE  IsPrev(F \cup {c}, a, IF a = n THEN c ELSE x)
<1>1. CASE a = n
  BY <1>1 DEF IsNext, IsPrev, NULL
<1>2. CASE ~(a = n)
  BY <1>2 DEF IsNext, IsPrev, NULL
<1> QED BY <1>1, <1>2

(* What is next to an element has it before it, and the other way round.   *)
LEMMA NextPrev ==
  ASSUME NEW F \in SUBSET Nat, NEW a \in F, NEW x \in F
  PROVE  IsNext(F, a, x) <=> IsPrev(F, x, a)
BY DEF IsNext, IsPrev, NULL

(* The blocks of S have the links that they had in h, but that x is behind *)
(* p and y in front of n.                                                  *)
Relinked(g, h, S, p, x, n, y) ==
  \A b \in S : /\ g[b].next = IF b = p THEN x ELSE h[b].next
               /\ g[b].prev = IF b = n THEN y ELSE h[b].prev

LEMMA NeighbourTypes ==
  ASSUME NEW h, NEW head, NEW F \in SUBSET Nat, Chain(h, head, F)
  PROVE  /\ F \in SUBSET Int /\ (\A b \in F : b > NULL /\ b # NULL) /\ NULL \in Int
         /\ head \in Int /\ head \in F \cup {NULL}
         /\ \A a \in F : /\ h[a].next \in Int /\ h[a].next \in F \cup {NULL}
                         /\ h[a].prev \in Int /\ h[a].prev \in F \cup {NULL}
<1>1. F \in SUBSET Int /\ (\A b \in F : b > NULL /\ b # NULL) /\ NULL \in Int
  BY DEF NULL
<1>2. head \in F \cup {NULL} /\ \A a \in F : h[a].next \in F \cup {NULL} /\ h[a].prev \in F \cup {NULL}
  BY DEF Chain, IsNext, IsPrev
<1> QED BY <1>1, <1>2

(* The list without c, with its neighbours linked to each other.           *)
LEMMA ChainRemoved ==
  ASSUME NEW h, NEW head, NEW F \in SUBSET Nat, Chain(h, head, F), NEW c \in F,
         NEW p, p = h[c].prev, NEW n, n = h[c].next,
         NEW g, Relinked(g, h, F \ {c}, p, n, n, p), NEW e, e = IF p # NULL THEN head ELSE n
  PROVE  Chain(g, e, F \ {c})
<1>1. IsPrev(F, c, p) /\ IsNext(F, c, n) /\ p \in Int /\ n \in Int
  BY NeighbourTypes DEF Chain
<1>2. /\ F \in SUBSET Int /\ (\A b \in F : b > NULL) /\ c \in Int /\ c # NULL
      /\ NULL \in Int /\ head \in Int
  BY NeighbourTypes
<1>3. IsNext(F \ {c}, NULL, IF NULL = p THEN n ELSE head)
  <2>1. NULL \in (F \cup {NULL}) \ {c} /\ IsNext(F, NULL, head)
    BY <1>2 DEF Chain
  <2> QED BY ONLY <1>1, <1>2, <2>1, c \in F, NextRemoved
<1>4. ASSUME NEW a \in F \ {c}
      PROVE  IsNext(F \ {c}, a, g[a].next) /\ IsPrev(F \ {c}, a, g[a].prev)
  <2>1. PICK x \in Int, y \in Int : x = h[a].next /\ y = h[a].prev
    BY NeighbourTypes
  <2>2. IsNext(F, a, x) /\ IsPrev(F, a, y) /\ a \in Int /\ a \in (F \cup {NULL}) \ {c}
    BY <1>2, <2>1 DEF Chain
  <2>3. IsNext(F \ {c}, a, IF a = p THEN n ELSE x)
    BY ONLY <1>1, <1>2, <2>2, x \in Int, c \in F, NextRemoved
  <2>4. IsPrev(F \ {c}, a, IF a = n THEN p ELSE y)
    BY ONLY <1>1, <1>2, <2>2, y \in Int, c \in F, a \in F \ {c}, PrevRemoved
  <2> QED BY <2>1, <2>3, <2>4 DEF Relinked
<1>5. IsNext(F \ {c}, NULL, e)
  BY <1>3
<1> QED BY ONLY <1>4, <1>5 DEF Chain

(* The list with c between its neighbours.                                 *)
LEMMA ChainInserted ==
  ASSUME NEW h, NEW head, NEW F \in SUBSET Nat, Chain(h, head, F), NEW c \in Nat \ F,
         NEW p, NEW n, IsPrev(F, c, p), IsNext(F, c, n),
         NEW g, g[c].next = n, g[c].prev = p, Relinked(g, h, F, p, c, n, c),
         NEW e, e = IF p # NULL THEN head ELSE c
  PROVE  Chain(g, e, F \cup {c})
<1>1. p \in Int /\ n \in Int /\ IsPrev(F, c, p) /\ IsNext(F, c, n)
  <2>1. p \in F \cup {NULL} /\ n \in F \cup {NULL}
    BY DEF IsNext, IsPrev
  <2>2. p \in Int /\ n \in Int
    BY ONLY <2>1, F \in SUBSET Nat DEF NULL
  <2> QED BY ONLY <2>2, IsPrev(F, c, p), IsNext(F, c, n)
<1>2. /\ F \in SUBSET Int /\ (\A b \in F : b > NULL) /\ c \in Int /\ c # NULL /\ c \notin F
      /\ NULL \in Int /\ head \in Int /\ c > NULL
  <2>1. F \in SUBSET Int /\ (\A b \in F : b > NULL) /\ NULL \in Int /\ head \in Int
    BY ONLY F \in SUBSET Nat, Chain(h, head, F), NeighbourTypes
  <2>2. c \in Int /\ c # NULL /\ c \notin F /\ c > NULL
    BY ONLY c \in Nat \ F DEF NULL
  <2> QED BY ONLY <2>1, <2>2
<1>3. IsNext(F \cup {c}, NULL, IF NULL = p THEN c ELSE head)
  <2>1. NULL \in F \cup {NULL} /\ IsNext(F, NULL, head)
    BY DEF Chain
  <2> QED BY ONLY <1>1, <1>2, <2>1, NextInserted
<1>4. ASSUME NEW a \in F
      PROVE  IsNext(F \cup {c}, a, g[a].next) /\ IsPrev(F \cup {c}, a, g[a].prev)
  <2>1. PICK x \in Int, y \in Int : x = h[a].next /\ y = h[a].prev
    BY NeighbourTypes
  <2>2. IsNext(F, a, x) /\ IsPrev(F, a, y) /\ a \in Int /\ a \in F \cup {NULL}
    BY <1>2, <2>1 DEF Chain
  <2>3. IsNext(F \cup {c}, a, IF a = p THEN c ELSE x)
    BY ONLY <1>1, <1>2, <2>2, x \in Int, NextInserted
  <2>4. IsPrev(F \cup {c}, a, IF a = n THEN c ELSE y)
    BY ONLY <1>1, <1>2, <2>2, y \in Int, a \in F, PrevInserted
  <2> QED BY <2>1, <2>3, <2>4 DEF Relinked
<1>5. IsNext(F \cup {c}, c, n) /\ IsPrev(F \cup {c}, c, p)
  BY ONLY <1>1, <1>2 DEF IsNext, IsPrev
<1>6. IsNext(F \cup {c}, NULL, e)
  BY <1>3
<1> QED BY ONLY <1>4, <1>5, <1>6, g[c].next = n, g[c].prev = p DEF Chain

-----------------------------------------------------------------------------
(* The headers after an assignment to a field.                             *)
SameSizes(g, h) == DOMAIN g = DOMAIN h /\ \A a \in DOMAIN h : g[a].size = h[a].size

NextSet(g, h, a, v) ==
  \A b \in DOMAIN h : g[b].prev = h[b].prev /\ g[b].next = IF b = a THEN v ELSE h[b].next
PrevSet(g, h, a, v) ==
  \A b \in DOMAIN h : g[b].next = h[b].next /\ g[b].prev = IF b = a THEN v ELSE h[b].prev

SizesBut(g, h, c) == \A b \in DOMAIN h \ {c} : g[b].size = h[b].size

LEMMA SetNextIs ==
  ASSUME NEW h, Headers(h), NEW a \in DOMAIN h \cup {NULL}, NEW v \in Addresses \cup {NULL},
         NEW g, g = SetNext(h, a, v)
  PROVE  Headers(g) /\ SameSizes(g, h) /\ NextSet(g, h, a, v)
<1>1. CASE a = NULL
  <2>1. g = h /\ a \notin DOMAIN h
    BY <1>1, Numbers DEF SetNext, Headers
  <2> QED BY <2>1 DEF SameSizes, NextSet
<1>2. CASE a # NULL
  <2>1. PICK w \in Header : w = h[a]
    BY <1>2 DEF Headers
  <2>2. PICK x \in Header : x = [w EXCEPT !.next = v]
    BY DEF Header
  <2>3. x.next = v /\ x.prev = w.prev /\ x.size = w.size
    BY ONLY w \in Header, <2>2 DEF Header
  <2>4. DOMAIN g = DOMAIN h /\ \A b \in DOMAIN h : g[b] = IF b = a THEN x ELSE h[b]
    BY <1>2, <2>1, <2>2 DEF SetNext
  <2>5. Headers(g)
    BY <2>2, <2>4 DEF Headers
  <2> QED BY <2>1, <2>3, <2>4, <2>5 DEF SameSizes, NextSet
<1> QED BY <1>1, <1>2

LEMMA SetPrevIs ==
  ASSUME NEW h, Headers(h), NEW a \in DOMAIN h \cup {NULL}, NEW v \in Addresses \cup {NULL},
         NEW g, g = SetPrev(h, a, v)
  PROVE  Headers(g) /\ SameSizes(g, h) /\ PrevSet(g, h, a, v)
<1>1. CASE a = NULL
  <2>1. g = h /\ a \notin DOMAIN h
    BY <1>1, Numbers DEF SetPrev, Headers
  <2> QED BY <2>1 DEF SameSizes, PrevSet
<1>2. CASE a # NULL
  <2>1. PICK w \in Header : w = h[a]
    BY <1>2 DEF Headers
  <2>2. PICK x \in Header : x = [w EXCEPT !.prev = v]
    BY DEF Header
  <2>3. x.next = w.next /\ x.prev = v /\ x.size = w.size
    BY ONLY w \in Header, <2>2 DEF Header
  <2>4. DOMAIN g = DOMAIN h /\ \A b \in DOMAIN h : g[b] = IF b = a THEN x ELSE h[b]
    BY <1>2, <2>1, <2>2 DEF SetPrev
  <2>5. Headers(g)
    BY <2>2, <2>4 DEF Headers
  <2> QED BY <2>1, <2>3, <2>4, <2>5 DEF SameSizes, PrevSet
<1> QED BY <1>1, <1>2

(* A block that is handed out has no neighbours.                           *)
Unlinked(h, a) == [h EXCEPT ![a].next = NULL, ![a].prev = NULL]

LEMMA UnlinkedIs ==
  ASSUME NEW h, Headers(h), NEW a \in DOMAIN h, NEW g, g = Unlinked(h, a)
  PROVE  /\ Headers(g) /\ SameSizes(g, h) /\ g[a].next = NULL
         /\ \A b \in DOMAIN h \ {a} : g[b] = h[b]
<1>1. PICK w \in Header : w = h[a]
  BY DEF Headers
<1>2. PICK x \in Header : x = [w EXCEPT !.next = NULL, !.prev = NULL]
  BY DEF Header
<1>3. x.next = NULL /\ x.size = w.size
  BY ONLY w \in Header, <1>2 DEF Header
<1>4. DOMAIN g = DOMAIN h /\ \A b \in DOMAIN h : g[b] = IF b = a THEN x ELSE h[b]
  BY <1>1, <1>2 DEF Unlinked
<1>5. Headers(g)
  BY <1>2, <1>4 DEF Headers
<1> QED BY <1>1, <1>3, <1>4, <1>5 DEF SameSizes

(* Blocks of the same sizes at the same addresses.                         *)
LEMMA TilesSame ==
  ASSUME NEW h, NEW g, SameSizes(g, h)
  PROVE  /\ \A a \in DOMAIN h : End(g, a) = End(h, a)
         /\ Tiles(h) => Tiles(g)
         /\ \A F, X : F \subseteq DOMAIN h /\ ApartBut(h, F, X) => ApartBut(g, F, X)
<1>1. \A a \in DOMAIN h : End(g, a) = End(h, a)
  BY DEF SameSizes, End
<1>2. Tiles(h) => Tiles(g)
  BY <1>1 DEF Tiles, SameSizes
<1>3. ASSUME NEW F, NEW X, F \subseteq DOMAIN h, ApartBut(h, F, X) PROVE ApartBut(g, F, X)
  BY <1>1, <1>3 DEF ApartBut
<1> QED BY <1>1, <1>2, <1>3

LEMMA Extents ==
  ASSUME NEW h, Headers(h), Tiles(h), NEW a \in DOMAIN h
  PROVE  /\ a \in Nat /\ a < HeapSize /\ h[a].size \in Nat \ {0}
         /\ h[a].next \in Addresses \cup {NULL} /\ h[a].prev \in Addresses \cup {NULL}
         /\ End(h, a) \in Nat /\ End(h, a) = a + HEADER + h[a].size
         /\ a + HEADER < End(h, a) /\ End(h, a) <= HeapSize
         /\ End(h, a) \in DOMAIN h \cup {HeapSize}
<1>1. a \in Addresses /\ h[a] \in Header
  BY DEF Headers
<1>2. /\ h[a].size \in Nat \ {0}
      /\ h[a].next \in Addresses \cup {NULL} /\ h[a].prev \in Addresses \cup {NULL}
  BY <1>1 DEF Header
<1>3. a \in Nat /\ a < HeapSize /\ HEADER \in Nat /\ HeapSize \in Nat
  BY <1>1, Numbers
<1>4. End(h, a) = a + HEADER + h[a].size
  BY DEF End
<1>5. End(h, a) \in DOMAIN h \cup {HeapSize}
  BY DEF Tiles
<1>6. End(h, a) <= HeapSize
  <2>1. \A b \in DOMAIN h : b \in 0 .. HeapSize - 1
    BY Numbers DEF Headers
  <2> QED BY <1>3, <1>5, <2>1
<1> QED BY ONLY <1>2, <1>3, <1>4, <1>5, <1>6

(* A block is cut in two.                                                  *)
LEMMA TilesCut ==
  ASSUME NEW h, Headers(h), Tiles(h), NEW c \in DOMAIN h, NEW size \in Nat \ {0},
         h[c].size - size > HEADER, NEW rest, rest = c + HEADER + size,
         NEW g, DOMAIN g = DOMAIN h \cup {rest}, g[c].size = size,
         g[rest].size = h[c].size - size - HEADER,
         \A b \in DOMAIN h \ {c} : g[b].size = h[b].size
  PROVE  /\ rest \in Addresses /\ rest \notin DOMAIN h /\ c < rest /\ rest < End(h, c) /\ Tiles(g)
         /\ End(g, c) = rest /\ End(g, rest) = End(h, c)
         /\ \A b \in DOMAIN h \ {c} : End(g, b) = End(h, b)
<1>1. /\ c \in Nat /\ h[c].size \in Nat /\ HEADER \in Nat \ {0} /\ HeapSize \in Nat
      /\ End(h, c) = c + HEADER + h[c].size /\ End(h, c) <= HeapSize /\ End(h, c) \in Nat
  BY Extents, Numbers
<1>2. rest \in Nat /\ c < rest /\ rest < End(h, c)
  BY <1>1
<1>3. rest \in Addresses
  BY <1>1, <1>2, Numbers
<1>4. rest \notin DOMAIN h
  <2>1. \A b \in DOMAIN h : b <= c \/ End(h, c) <= b
    BY DEF Tiles
  <2> QED BY <1>1, <1>2, <2>1
<1>5. End(g, c) = rest
  BY <1>1 DEF End
<1>6. End(g, rest) = End(h, c)
  BY <1>1, <1>2 DEF End
<1>7. \A b \in DOMAIN h \ {c} : End(g, b) = End(h, b)
  BY DEF End
<1>8. ASSUME NEW a \in DOMAIN h, NEW b \in DOMAIN h
      PROVE  /\ a \in Nat /\ b \in Nat /\ End(h, a) \in Nat /\ End(h, a) \in DOMAIN h \cup {HeapSize}
             /\ b <= a \/ End(h, a) <= b
  BY Extents DEF Tiles
<1>9. ASSUME NEW a \in DOMAIN g, NEW b \in DOMAIN g PROVE b <= a \/ End(g, a) <= b
  <2>1. CASE a = rest /\ b = rest
    BY <1>2, <2>1
  <2>2. CASE a = rest /\ b # rest
    <3>1. b \in DOMAIN h /\ b \in Nat /\ (b <= c \/ End(h, c) <= b)
      BY <1>8, <2>2
    <3> QED BY <1>1, <1>2, <1>6, <2>2, <3>1
  <2>3. CASE a = c
    <3>1. b \in Nat /\ (b = rest \/ b <= c \/ End(h, c) <= b)
      BY <1>2, <1>8
    <3> QED BY <1>1, <1>2, <1>5, <2>3, <3>1
  <2>4. CASE a # rest /\ a # c /\ b = rest
    <3>1. a \in DOMAIN h \ {c} /\ End(g, a) = End(h, a)
      BY <1>7, <2>4
    <3>2. /\ a \in Nat /\ End(h, a) \in Nat /\ (c <= a \/ End(h, a) <= c)
          /\ (a <= c \/ End(h, c) <= a)
      BY <1>8, <3>1
    <3>3. a # c
      BY <2>4
    <3> QED BY ONLY <1>1, <1>2, <2>4, <3>1, <3>2, <3>3
  <2>5. CASE a # rest /\ a # c /\ b # rest
    <3>1. a \in DOMAIN h \ {c} /\ End(g, a) = End(h, a) /\ b \in DOMAIN h
      BY <1>7, <2>5
    <3> QED BY <1>8, <3>1
  <2> QED BY <2>1, <2>2, <2>3, <2>4, <2>5
<1>10. ASSUME NEW a \in DOMAIN g PROVE End(g, a) \in DOMAIN g \cup {HeapSize}
  <2>1. CASE a = rest
    BY <1>6, <1>8, <2>1
  <2>2. CASE a = c
    BY <1>5, <2>2
  <2>3. CASE a # rest /\ a # c
    BY <1>7, <1>8, <2>3
  <2> QED BY <2>1, <2>2, <2>3
<1>11. Tiles(g)
  <2>1. 0 \in DOMAIN g
    BY DEF Tiles
  <2> QED BY ONLY <1>9, <1>10, <2>1 DEF Tiles
<1> QED BY ONLY <1>2, <1>3, <1>4, <1>5, <1>6, <1>7, <1>11

(* Two blocks become one.                                                  *)
LEMMA TilesJoined ==
  ASSUME NEW h, Headers(h), Tiles(h), NEW c \in DOMAIN h, NEW d \in DOMAIN h, End(h, c) = d,
         NEW g, DOMAIN g = DOMAIN h \ {d}, g[c].size = h[c].size + (h[d].size + HEADER),
         \A b \in DOMAIN h \ {c, d} : g[b].size = h[b].size
  PROVE  /\ c < d /\ c \in DOMAIN g /\ Tiles(g) /\ End(g, c) = End(h, d)
         /\ \A b \in DOMAIN h \ {c, d} : End(g, b) = End(h, b) /\ End(h, b) # d
<1>1. /\ c \in Nat /\ h[c].size \in Nat /\ HEADER \in Nat \ {0} /\ d \in Nat /\ h[d].size \in Nat
      /\ d = c + HEADER + h[c].size /\ End(h, d) = d + HEADER + h[d].size /\ c < d
  BY Extents, Numbers
<1>2. c \in DOMAIN g
  BY <1>1
<1>3. End(g, c) = End(h, d)
  <2>1. End(g, c) = c + HEADER + (h[c].size + (h[d].size + HEADER))
    BY DEF End
  <2> QED BY ONLY <1>1, <2>1
<1>4. \A b \in DOMAIN h \ {c, d} : End(g, b) = End(h, b)
  BY DEF End
<1>5. ASSUME NEW a \in DOMAIN h, NEW b \in DOMAIN h
      PROVE  /\ a \in Nat /\ b \in Nat /\ End(h, a) \in Nat /\ End(h, a) \in DOMAIN h \cup {HeapSize}
             /\ (b <= a \/ End(h, a) <= b) /\ a < End(h, a)
  BY Extents, Numbers DEF Tiles
<1>6. ASSUME NEW b \in DOMAIN h \ {c, d} PROVE End(h, b) # d
  <2>1. /\ b \in Nat /\ b # c /\ End(h, b) \in Nat /\ (c <= b \/ End(h, b) <= c)
        /\ (b <= c \/ d <= b) /\ b < End(h, b)
    BY <1>5, End(h, c) = d
  <2> QED BY ONLY <1>1, <2>1
<1>7. ASSUME NEW a \in DOMAIN g, NEW b \in DOMAIN g PROVE b <= a \/ End(g, a) <= b
  <2>1. CASE a = c
    <3>1. b \in DOMAIN h /\ b # d
      OBVIOUS
    <3>2. b \in Nat /\ (b <= c \/ d <= b) /\ (b <= d \/ End(h, d) <= b)
      BY <1>5, <3>1, End(h, c) = d
    <3> QED BY ONLY <1>1, <1>3, <2>1, <3>1, <3>2
  <2>2. CASE a # c
    <3>1. a \in DOMAIN h \ {c, d} /\ b \in DOMAIN h
      BY <2>2
    <3> QED BY <1>4, <1>5, <3>1
  <2> QED BY <2>1, <2>2
<1>8. ASSUME NEW a \in DOMAIN g PROVE End(g, a) \in DOMAIN g \cup {HeapSize}
  <2>1. CASE a = c
    <3>1. End(h, d) # d /\ End(h, d) \in DOMAIN h \cup {HeapSize}
      BY <1>1, <1>5
    <3> QED BY <1>3, <2>1, <3>1
  <2>2. CASE a # c
    <3>1. a \in DOMAIN h \ {c, d}
      BY <2>2
    <3> QED BY <1>4, <1>5, <1>6, <3>1
  <2> QED BY <2>1, <2>2
<1>9. Tiles(g)
  <2>1. 0 \in DOMAIN g
    BY <1>1 DEF Tiles
  <2> QED BY ONLY <1>7, <1>8, <2>1 DEF Tiles
<1> QED BY ONLY <1>1, <1>2, <1>3, <1>4, <1>6, <1>9

(* Nothing of F is between c and r.                                        *)
Between(F, c, r) == \A b \in F : b <= c \/ r < b

(* Another block takes the place of c, with the same neighbours.           *)
LEMMA ChainReplaced ==
  ASSUME NEW h, NEW head, NEW F \in SUBSET Nat, Chain(h, head, F), NEW c \in F,
         NEW p, p = h[c].prev, NEW n, n = h[c].next,
         NEW r \in Nat \ F, c < r, Between(F, c, r),
         NEW g, g[r].next = n, g[r].prev = p, Relinked(g, h, F \ {c}, p, r, n, r),
         NEW e, e = IF p # NULL THEN head ELSE r
  PROVE  Chain(g, e, (F \ {c}) \cup {r})
<1>1. PICK k : k = [b \in F |-> [next |-> IF b = p THEN n ELSE h[b].next,
                                 prev |-> IF b = n THEN p ELSE h[b].prev]]
  OBVIOUS
<1>2. Relinked(k, h, F \ {c}, p, n, n, p)
  BY ONLY <1>1 DEF Relinked
<1>11. PICK f : f = IF p # NULL THEN head ELSE n
  OBVIOUS
<1>3. Chain(k, f, F \ {c})
  BY ONLY <1>2, <1>11, F \in SUBSET Nat, Chain(h, head, F), c \in F, p = h[c].prev, n = h[c].next,
     ChainRemoved
<1>4. IsPrev(F, c, p) /\ IsNext(F, c, n) /\ p \in F \cup {NULL} /\ n \in F \cup {NULL}
      /\ c \in Nat /\ F \in SUBSET Int
  BY ONLY F \in SUBSET Nat, Chain(h, head, F), c \in F, p = h[c].prev, n = h[c].next,
     NeighbourTypes DEF Chain
<1>5. IsPrev(F \ {c}, r, p)
  <2>1. CASE p = NULL
    BY ONLY <1>4, <2>1, r \in Nat, c < r, Between(F, c, r) DEF Between, IsPrev, NULL
  <2>2. CASE p # NULL
    <3>1. p \in F /\ p < c /\ \A b \in F : b <= p \/ c <= b
      BY <1>4, <2>2 DEF IsPrev
    <3> QED BY ONLY <1>4, <3>1, r \in Nat, c < r, Between(F, c, r) DEF Between, IsPrev
  <2> QED BY <2>1, <2>2
<1>6. IsNext(F \ {c}, r, n)
  <2>1. CASE n = NULL
    BY ONLY <1>4, <2>1, r \in Nat, c < r, Between(F, c, r) DEF Between, IsNext, NULL
  <2>2. CASE n # NULL
    <3>1. n \in F /\ c < n /\ \A b \in F : b <= c \/ n <= b
      BY <1>4, <2>2 DEF IsNext
    <3> QED BY ONLY <1>4, <3>1, r \in Nat, c < r, Between(F, c, r) DEF Between, IsNext
  <2> QED BY <2>1, <2>2
<1>7. Relinked(g, k, F \ {c}, p, r, n, r)
  BY <1>2 DEF Relinked
<1>8. e = IF p # NULL THEN f ELSE r
  BY <1>11
<1>9. PICK S \in SUBSET Nat : S = F \ {c} /\ r \in Nat \ S
  OBVIOUS
<1>10. Chain(g, e, S \cup {r})
  <2>1. /\ Chain(k, f, S) /\ IsPrev(S, r, p) /\ IsNext(S, r, n) /\ Relinked(g, k, S, p, r, n, r)
        /\ r \in Nat \ S /\ S \in SUBSET Nat
    BY ONLY <1>3, <1>5, <1>6, <1>7, <1>9
  <2> QED BY ONLY <1>8, <2>1, g[r].next = n, g[r].prev = p, ChainInserted, SMTT(20)
<1> QED BY ONLY <1>9, <1>10

LEMMA SoundTypes ==
  ASSUME NEW h, NEW head, NEW F, NEW X, Sound(h, head, F, X)
  PROVE  /\ F \in SUBSET Nat /\ F \subseteq DOMAIN h /\ Headers(h) /\ Tiles(h) /\ Chain(h, head, F)
         /\ head \in DOMAIN h \cup {NULL} /\ head \in F \cup {NULL} /\ NULL \notin F
         /\ DOMAIN h \subseteq Addresses /\ DOMAIN h \in SUBSET Nat
         /\ \A a \in F : /\ h[a].next \in F \cup {NULL} /\ h[a].prev \in F \cup {NULL}
                         /\ h[a].next # a /\ h[a].prev # a
<1>1. F \subseteq DOMAIN h /\ Headers(h) /\ Tiles(h) /\ Chain(h, head, F)
  BY DEF Sound
<1>2. DOMAIN h \subseteq Addresses /\ F \in SUBSET Nat /\ NULL \notin F /\ DOMAIN h \in SUBSET Nat
  BY <1>1, Numbers DEF Headers
<1>3. head \in F \cup {NULL}
  BY <1>1, <1>2, NeighbourTypes
<1>4. ASSUME NEW a \in F
      PROVE  /\ h[a].next \in F \cup {NULL} /\ h[a].prev \in F \cup {NULL}
             /\ h[a].next # a /\ h[a].prev # a
  <2>1. IsNext(F, a, h[a].next) /\ IsPrev(F, a, h[a].prev) /\ a \in Nat
    BY <1>1, <1>2 DEF Chain
  <2> QED BY ONLY <2>1 DEF IsNext, IsPrev, NULL
<1> QED BY <1>1, <1>2, <1>3, <1>4

-----------------------------------------------------------------------------
(* kmem_alloc: the first part of a free block is handed out ...            *)
CutAt(h, c, size, r, left, p, n, k, g) ==
  /\ r = c + HEADER + size /\ r \in Addresses /\ r \notin DOMAIN h
  /\ left \in Nat \ {0} /\ left = h[c].size - size - HEADER
  /\ p = h[c].prev /\ p \in DOMAIN h \cup {NULL}
  /\ n = h[c].next /\ n \in DOMAIN h \cup {NULL}
  /\ k = CutOff(h, c, size) /\ g = Unlinked(k, c)

LEMMA CutFields ==
  ASSUME NEW h, Headers(h), NEW c \in DOMAIN h, NEW size \in Nat \ {0},
         NEW r, NEW left, NEW p, NEW n, NEW k, NEW g, CutAt(h, c, size, r, left, p, n, k, g)
  PROVE  /\ Headers(g) /\ Headers(k) /\ SameSizes(g, k) /\ DOMAIN g = DOMAIN h \cup {r}
         /\ g[c].next = NULL /\ g[c].size = size /\ g[r].size = left
         /\ g[r].next = n /\ g[r].prev = p
         /\ Relinked(g, h, DOMAIN h \ {c}, p, r, n, r)
         /\ SizesBut(g, h, c)
<1>0. /\ r = c + HEADER + size /\ r \in Addresses /\ r \notin DOMAIN h
      /\ left \in Nat \ {0} /\ left = h[c].size - size - HEADER
      /\ p = h[c].prev /\ p \in DOMAIN h \cup {NULL}
      /\ n = h[c].next /\ n \in DOMAIN h \cup {NULL}
      /\ k = CutOff(h, c, size) /\ g = Unlinked(k, c)
  BY DEF CutAt
<1>1. PICK w \in Header : w = h[c]
  BY DEF Headers
<1>2. PICK x \in Header : x = [w EXCEPT !.size = size]
  BY DEF Header
<1>3. x.size = size /\ x.next = w.next /\ x.prev = w.prev
  BY ONLY w \in Header, <1>2 DEF Header
<1>4. PICK z : z = [next |-> n, prev |-> p, size |-> left]
  BY Zenon
<1>5. n \in Addresses \cup {NULL} /\ p \in Addresses \cup {NULL}
  BY <1>0 DEF Headers
<1>6. z \in Header /\ z.next = n /\ z.prev = p /\ z.size = left
  BY ONLY <1>0, <1>4, <1>5 DEF Header
<1>7. PICK g0 : g0 = [h EXCEPT ![c].size = size]
  BY Zenon
<1>8. DOMAIN g0 = DOMAIN h /\ \A b \in DOMAIN h : g0[b] = IF b = c THEN x ELSE h[b]
  BY <1>1, <1>2, <1>7
<1>9. PICK g1 : g1 = With(g0, r, z)
  BY Zenon
<1>10. DOMAIN g1 = DOMAIN h \cup {r} /\ g1[r] = z /\ \A b \in DOMAIN h : g1[b] = g0[b]
  BY ONLY <1>0, <1>8, <1>9 DEF With
<1>11. Headers(g1)
  <2>1. \A b \in DOMAIN h : g1[b] \in Header
    BY <1>8, <1>10, x \in Header DEF Headers
  <2> QED BY <1>0, <1>6, <1>10, <2>1 DEF Headers
<1>12. PICK g2 : g2 = SetNext(g1, p, r)
  BY Zenon
<1>13. Headers(g2) /\ SameSizes(g2, g1) /\ NextSet(g2, g1, p, r)
  <2>1. p \in DOMAIN g1 \cup {NULL} /\ r \in Addresses \cup {NULL}
    BY <1>0, <1>10
  <2> QED BY ONLY <1>11, <1>12, <2>1, SetNextIs
<1>14. k = SetPrev(g2, n, r)
  BY ONLY <1>0, <1>4, <1>7, <1>9, <1>12 DEF CutOff
<1>15. Headers(k) /\ SameSizes(k, g2) /\ PrevSet(k, g2, n, r)
  <2>1. n \in DOMAIN g2 \cup {NULL} /\ r \in Addresses \cup {NULL}
    BY <1>0, <1>10, <1>13 DEF SameSizes
  <2> QED BY ONLY <1>13, <1>14, <2>1, SetPrevIs
<1>16. DOMAIN g2 = DOMAIN h \cup {r} /\ DOMAIN k = DOMAIN h \cup {r} /\ c \in DOMAIN k
  BY <1>10, <1>13, <1>15 DEF SameSizes
<1>17. /\ Headers(g) /\ SameSizes(g, k) /\ g[c].next = NULL /\ \A b \in DOMAIN k \ {c} : g[b] = k[b]
  BY ONLY <1>0, <1>15, <1>16, UnlinkedIs
<1>18. DOMAIN g = DOMAIN h \cup {r} /\ \A b \in DOMAIN g : g[b].size = g1[b].size
  BY ONLY <1>10, <1>13, <1>15, <1>16, <1>17 DEF SameSizes
<1>19. g[r].next = n /\ g[r].prev = p /\ g[r].size = left
  <2>1. r # p /\ r # n /\ r # c /\ r \in DOMAIN k /\ r \in DOMAIN g1 /\ r \in DOMAIN g2
    BY <1>0, <1>10, <1>16, Numbers
  <2>2. g[r] = k[r]
    BY <1>17, <2>1
  <2> QED BY <1>6, <1>10, <1>13, <1>15, <1>18, <2>1, <2>2 DEF NextSet, PrevSet
<1>20. ASSUME NEW b \in DOMAIN h \ {c}
       PROVE  /\ g[b].size = h[b].size
              /\ g[b].next = IF b = p THEN r ELSE h[b].next
              /\ g[b].prev = IF b = n THEN r ELSE h[b].prev
  <2>1. g1[b] = h[b] /\ g[b] = k[b] /\ b \in DOMAIN g1 /\ b \in DOMAIN g2 /\ b \in DOMAIN g
    BY <1>8, <1>10, <1>16, <1>17, <1>18
  <2> QED BY ONLY <1>13, <1>15, <1>18, <2>1 DEF NextSet, PrevSet
<1>21. g[c].size = size
  BY <1>3, <1>8, <1>10, <1>18
<1> QED BY ONLY <1>15, <1>17, <1>18, <1>19, <1>20, <1>21 DEF Relinked, SizesBut

(* ... so that all else is as it was, with the rest of the block free.     *)
Cut(g, e, h, k, F, c, size, r) ==
  /\ Sound(g, e, (F \ {c}) \cup {r}, {})
  /\ r \in Addresses /\ r \notin DOMAIN h /\ r # NULL /\ DOMAIN g = DOMAIN h \cup {r}
  /\ g[c].size = size /\ g[c].next = NULL /\ SameSizes(g, k)
  /\ r < HeapSize /\ End(k, r) <= HeapSize
  /\ \A b \in DOMAIN h \ F : g[b].size = h[b].size /\ g[b].next = h[b].next

LEMMA CutSound ==
  ASSUME NEW h, NEW head, NEW F, Sound(h, head, F, {}), NEW c \in F, NEW size \in Nat \ {0},
         h[c].size - size > HEADER, NEW r, r = c + HEADER + size,
         NEW k, k = CutOff(h, c, size), NEW g, g = Unlinked(k, c),
         NEW e, e = IF h[c].prev # NULL THEN head ELSE r
  PROVE  Cut(g, e, h, k, F, c, size, r)
<1>1. PICK p, n : p = h[c].prev /\ n = h[c].next
  BY Zenon
<1>2. /\ F \in SUBSET Nat /\ F \subseteq DOMAIN h /\ Headers(h) /\ Tiles(h) /\ Chain(h, head, F)
      /\ NULL \notin F /\ DOMAIN h \subseteq Addresses
      /\ p \in F \cup {NULL} /\ n \in F \cup {NULL} /\ c \in DOMAIN h
  BY <1>1, SoundTypes
<1>3. /\ c \in Nat /\ h[c].size \in Nat \ {0} /\ HEADER \in Nat \ {0} /\ HeapSize \in Nat
      /\ End(h, c) \in Nat /\ End(h, c) <= HeapSize
  BY <1>2, Extents, Numbers
<1>4. PICK left \in Nat \ {0} : left = h[c].size - size - HEADER
  BY <1>3
<1>8. r \in Addresses /\ r \notin DOMAIN h /\ c < r /\ r < End(h, c)
  <2>1. r \in Nat /\ c < r /\ r < End(h, c)
    BY <1>2, <1>3, Extents
  <2>2. r \in Addresses
    BY <1>3, <2>1, Numbers
  <2>3. \A b \in DOMAIN h : b \in Nat /\ (b <= c \/ End(h, c) <= b)
    BY <1>2, Extents DEF Tiles
  <2> QED BY ONLY <1>3, <2>1, <2>2, <2>3
<1>9. /\ Headers(g) /\ Headers(k) /\ SameSizes(g, k) /\ DOMAIN g = DOMAIN h \cup {r}
      /\ g[c].next = NULL /\ g[c].size = size /\ g[r].size = left
      /\ g[r].next = n /\ g[r].prev = p
      /\ Relinked(g, h, DOMAIN h \ {c}, p, r, n, r)
      /\ SizesBut(g, h, c)
  <2>1. p \in DOMAIN h \cup {NULL} /\ n \in DOMAIN h \cup {NULL}
    BY <1>2
  <2>2. CutAt(h, c, size, r, left, p, n, k, g)
    BY ONLY <1>1, <1>4, <1>8, <2>1, r = c + HEADER + size, k = CutOff(h, c, size), g = Unlinked(k, c)
       DEF CutAt
  <2> QED BY ONLY <1>2, <2>2, size \in Nat \ {0}, CutFields
<1>10. /\ Tiles(g) /\ End(g, c) = r /\ End(g, r) = End(h, c)
       /\ \A b \in DOMAIN h \ {c} : End(g, b) = End(h, b)
  BY ONLY <1>2, <1>4, <1>9, size \in Nat \ {0}, r = c + HEADER + size, h[c].size - size > HEADER,
          TilesCut DEF SizesBut
<1>11. Chain(g, e, (F \ {c}) \cup {r})
  <2>1. Relinked(g, h, F \ {c}, p, r, n, r)
    BY <1>2, <1>9 DEF Relinked
  <2>2. r \in Nat \ F /\ Between(F, c, r)
    <3>1. ASSUME NEW b \in F PROVE b <= c \/ r < b
      <4>1. b \in Nat /\ (b <= c \/ End(h, c) <= b)
        BY <1>2 DEF Tiles
      <4> QED BY ONLY <1>3, <1>8, <4>1, Numbers
    <3> QED BY <1>2, <1>8, <3>1, Numbers DEF Between
  <2>3. e = IF p # NULL THEN head ELSE r
    BY <1>1
  <2> QED BY ONLY <1>1, <1>2, <1>8, <1>9, <2>1, <2>2, <2>3, c \in F, ChainReplaced
<1>12. ApartBut(g, (F \ {c}) \cup {r}, {})
  <2>1. ASSUME NEW b \in F \ {c} PROVE End(g, b) \notin F /\ End(g, b) # r
    <3>1. End(g, b) = End(h, b)
      BY <1>2, <1>10
    <3>2. End(h, b) \notin F
      BY DEF Sound, ApartBut
    <3>3. End(h, b) # r
      <4>1. b \in DOMAIN h
        BY <1>2
      <4>2. End(h, b) \in DOMAIN h \cup {HeapSize}
        BY ONLY <1>2, <4>1 DEF Tiles
      <4>3. r # HeapSize
        BY <1>3, <1>8, Numbers
      <4> QED BY ONLY <1>8, <4>2, <4>3
    <3> QED BY <3>1, <3>2, <3>3
  <2>2. End(g, r) \notin F /\ End(g, r) # r
    <3>1. End(h, c) \notin F
      BY DEF Sound, ApartBut
    <3>2. End(h, c) # r
      BY ONLY <1>3, <1>8, Numbers
    <3> QED BY <1>10, <3>1, <3>2
  <2> QED BY ONLY <2>1, <2>2 DEF ApartBut
<1>13. Sound(g, e, (F \ {c}) \cup {r}, {})
  <2>1. (F \ {c}) \cup {r} \subseteq DOMAIN g
    BY <1>2, <1>9
  <2> QED BY ONLY <1>9, <1>10, <1>11, <1>12, <2>1 DEF Sound
<1>14. \A b \in DOMAIN h \ F : g[b].size = h[b].size /\ g[b].next = h[b].next
  <2>1. ASSUME NEW b \in DOMAIN h \ F PROVE b # c /\ b # p /\ b # n
    BY <1>2, Numbers
  <2> QED BY <1>9, <2>1 DEF Relinked, SizesBut
<1>15. r < HeapSize /\ End(k, r) <= HeapSize
  <2>1. End(k, r) = End(g, r)
    BY ONLY <1>9, TilesSame DEF SameSizes, End
  <2> QED BY ONLY <1>3, <1>8, <1>10, <2>1, Numbers
<1>16. r # NULL
  BY ONLY <1>8, Numbers
<1> QED BY ONLY <1>8, <1>9, <1>13, <1>14, <1>15, <1>16 DEF Cut

(* A whole block is handed out.                                            *)
Taken(g, e, h, k, F, c) ==
  /\ Sound(g, e, F \ {c}, {}) /\ SameSizes(g, h) /\ SameSizes(g, k) /\ g[c].next = NULL
  /\ \A b \in DOMAIN h \ F : g[b].next = h[b].next

LEMMA TakeSound ==
  ASSUME NEW h, NEW head, NEW F, Sound(h, head, F, {}), NEW c \in F,
         NEW k, k = TakenOut(h, c), NEW g, g = Unlinked(k, c),
         NEW e, e = IF h[c].prev # NULL THEN head ELSE h[c].next
  PROVE  Taken(g, e, h, k, F, c)
<1>1. PICK p, n : p = h[c].prev /\ n = h[c].next
  BY Zenon
<1>2. /\ F \in SUBSET Nat /\ F \subseteq DOMAIN h /\ Headers(h) /\ Tiles(h) /\ Chain(h, head, F)
      /\ NULL \notin F /\ DOMAIN h \subseteq Addresses
      /\ p \in F \cup {NULL} /\ n \in F \cup {NULL} /\ c \in DOMAIN h
  BY <1>1, SoundTypes
<1>3. PICK j : j = SetNext(h, p, n)
  BY Zenon
<1>4. k = SetPrev(j, n, p)
  BY <1>1, <1>3 DEF TakenOut
<1>5. /\ p \in DOMAIN h \cup {NULL} /\ n \in DOMAIN h \cup {NULL}
      /\ p \in Addresses \cup {NULL} /\ n \in Addresses \cup {NULL}
  BY <1>2
<1>6. Headers(j) /\ SameSizes(j, h) /\ NextSet(j, h, p, n)
  BY ONLY <1>2, <1>3, <1>5, SetNextIs
<1>7. n \in DOMAIN j \cup {NULL}
  BY <1>5, <1>6 DEF SameSizes
<1>8. Headers(k) /\ SameSizes(k, j) /\ PrevSet(k, j, n, p)
  BY ONLY <1>4, <1>5, <1>6, <1>7, SetPrevIs
<1>9. c \in DOMAIN k
  BY <1>2, <1>6, <1>8 DEF SameSizes
<1>10. /\ Headers(g) /\ SameSizes(g, k) /\ g[c].next = NULL /\ \A b \in DOMAIN k \ {c} : g[b] = k[b]
  BY ONLY <1>8, <1>9, g = Unlinked(k, c), UnlinkedIs
<1>11. SameSizes(g, h)
  BY ONLY <1>6, <1>8, <1>10 DEF SameSizes
<1>12. Relinked(g, h, DOMAIN h \ {c}, p, n, n, p)
  BY ONLY <1>6, <1>8, <1>10 DEF Relinked, NextSet, PrevSet, SameSizes
<1>13. Chain(g, e, F \ {c})
  <2>1. Relinked(g, h, F \ {c}, p, n, n, p) /\ e = IF p # NULL THEN head ELSE n
    BY <1>1, <1>2, <1>12 DEF Relinked
  <2>2. F \in SUBSET Nat /\ Chain(h, head, F)
    BY <1>2
  <2> QED BY ONLY <1>1, <2>1, <2>2, c \in F, ChainRemoved
<1>14. Tiles(g) /\ ApartBut(g, F \ {c}, {})
  <2>1. ApartBut(h, F \ {c}, {})
    BY DEF Sound, ApartBut
  <2>2. F \ {c} \subseteq DOMAIN h
    BY <1>2
  <2> QED BY ONLY <1>2, <1>11, <2>1, <2>2, TilesSame
<1>15. Sound(g, e, F \ {c}, {})
  <2>1. F \ {c} \subseteq DOMAIN g
    BY <1>2, <1>11 DEF SameSizes
  <2> QED BY ONLY <1>10, <1>13, <1>14, <2>1 DEF Sound
<1>16. \A b \in DOMAIN h \ F : g[b].next = h[b].next
  <2>1. ASSUME NEW b \in DOMAIN h \ F PROVE b # c /\ b # p /\ b # n
    BY <1>2, Numbers
  <2> QED BY <1>12, <2>1 DEF Relinked
<1> QED BY ONLY <1>10, <1>11, <1>15, <1>16 DEF Taken

-----------------------------------------------------------------------------
(* Least and greatest elements of sets of addresses.                       *)
LEMMA Greatest ==
  ASSUME NEW S \in SUBSET Addresses, S # {}
  PROVE  \E n \in S : \A k \in S : k <= n
<1>1. PICK b \in Nat : b = HeapSize - 1 /\ Addresses = 0 .. b
  BY Numbers
<1>2. PICK U \in SUBSET Nat : U = {b - k : k \in S}
  <2>1. \A k \in S : b - k \in Nat
    BY <1>1
  <2> QED BY <2>1
<1>3. U # {}
  BY <1>2
<1>4. PICK u \in U : \A k \in U : u <= k
  BY <1>3, Least
<1>5. PICK n \in S : u = b - n
  BY <1>2
<1>6. ASSUME NEW k \in S PROVE k <= n
  <2>1. b - n <= b - k /\ n \in Int /\ k \in Int
    BY <1>1, <1>2, <1>4, <1>5
  <2> QED BY ONLY <2>1, b \in Nat
<1> QED BY <1>6

LEMMA LeastIs ==
  ASSUME NEW S \in SUBSET Nat
  PROVE  /\ S = {} => LeastOf(S) = NULL
         /\ S # {} => LeastOf(S) \in S /\ \A b \in S : LeastOf(S) <= b
<1>1. ASSUME S # {} PROVE \E a \in S : \A b \in S : a <= b
  BY ONLY S \in SUBSET Nat, <1>1, Least
<1> QED BY <1>1 DEF LeastOf

LEMMA GreatestIs ==
  ASSUME NEW S \in SUBSET Addresses
  PROVE  /\ S = {} => GreatestOf(S) = NULL
         /\ S # {} => GreatestOf(S) \in S /\ \A b \in S : b <= GreatestOf(S)
<1>1. ASSUME S # {} PROVE \E a \in S : \A b \in S : a >= b
  <2>1. PICK a \in S : \A b \in S : b <= a
    BY ONLY S \in SUBSET Addresses, <1>1, Greatest
  <2>2. \A b \in S : a >= b
    BY <2>1, Numbers
  <2> QED BY <2>2
<1>2. ASSUME S # {} PROVE GreatestOf(S) \in S /\ \A b \in S : GreatestOf(S) >= b
  BY <1>1, <1>2 DEF GreatestOf
<1>3. ASSUME S # {} PROVE \A b \in S : b <= GreatestOf(S)
  BY <1>2, <1>3, Numbers
<1> QED BY <1>2, <1>3 DEF GreatestOf

-----------------------------------------------------------------------------
(* The search for a block: the recursive function exists, as the list      *)
(* leads to ever higher addresses.                                         *)
Fitting(h, F, b, size) == {x \in F : b <= x /\ h[x].size >= size}

FitLoop(f, h, size) ==
  [b \in DOMAIN h \cup {NULL} |->
     IF b = NULL THEN NULL ELSE IF h[b].size >= size THEN b ELSE f[h[b].next]]

UsedUnlinked(h, F) == \A b \in DOMAIN h \ F : h[b].next = NULL

LEMMA FitExists ==
  ASSUME NEW h, NEW head, NEW F, Sound(h, head, F, {}), UsedUnlinked(h, F), NEW size \in Nat
  PROVE  \E f : f = FitLoop(f, h, size)
<1>1. /\ F \in SUBSET Nat /\ F \subseteq DOMAIN h /\ Chain(h, head, F) /\ NULL \notin DOMAIN h
      /\ \A b \in F : h[b].next \in F \cup {NULL}
  BY SoundTypes, Numbers
<1>2. PICK f : f = [b \in DOMAIN h \cup {NULL} |->
                      IF b \in F THEN LeastOf(Fitting(h, F, b, size))
                      ELSE IF b # NULL /\ h[b].size >= size THEN b ELSE NULL]
  BY Zenon
<1>3. /\ \A b \in F : f[b] = LeastOf(Fitting(h, F, b, size))
      /\ \A b \in DOMAIN h \ F : f[b] = IF h[b].size >= size THEN b ELSE NULL
      /\ f[NULL] = NULL
  BY ONLY <1>1, <1>2
<1>4. ASSUME NEW b \in F, h[b].size >= size PROVE f[b] = b
  <2>1. PICK S \in SUBSET Nat : S = Fitting(h, F, b, size)
    BY <1>1 DEF Fitting
  <2>2. b \in S /\ \A x \in S : b <= x
    BY <1>1, <1>4, <2>1 DEF Fitting
  <2>3. LeastOf(S) \in S /\ LeastOf(S) <= b
    BY <2>2, LeastIs
  <2>4. PICK x \in Nat : x = LeastOf(S)
    BY ONLY <2>3, S \in SUBSET Nat
  <2>5. LeastOf(S) = b
    BY ONLY <2>2, <2>3, <2>4, S \in SUBSET Nat
  <2> QED BY <1>3, <2>1, <2>5
<1>5. ASSUME NEW b \in F, ~(h[b].size >= size) PROVE f[b] = f[h[b].next]
  <2>1. PICK n \in F \cup {NULL} : n = h[b].next /\ IsNext(F, b, n)
    BY <1>1 DEF Chain
  <2>2. CASE n = NULL
    <3>1. ASSUME NEW x \in Fitting(h, F, b, size) PROVE FALSE
      <4>1. x \in F /\ b <= x /\ h[x].size >= size /\ x <= b
        BY <1>1, <2>1, <2>2 DEF Fitting, IsNext
      <4>2. x = b
        BY <1>1, <4>1
      <4> QED BY <1>5, <4>1, <4>2
    <3>2. LeastOf(Fitting(h, F, b, size)) = NULL
      BY <3>1 DEF LeastOf
    <3> QED BY <1>3, <2>1, <2>2, <3>2
  <2>3. CASE n # NULL
    <3>1. n \in F /\ b < n /\ \A x \in F : x <= b \/ n <= x
      BY <1>1, <2>1, <2>3 DEF IsNext
    <3>2. ASSUME NEW x \in F, h[x].size >= size PROVE b <= x <=> n <= x
      <4>1. x # b /\ x \in Nat /\ b \in Nat /\ n \in Nat /\ (x <= b \/ n <= x)
        BY <1>1, <1>5, <3>1, <3>2
      <4> QED BY ONLY <3>1, <4>1
    <3>3. Fitting(h, F, b, size) = Fitting(h, F, n, size)
      BY ONLY <3>2 DEF Fitting
    <3> QED BY <1>3, <2>1, <3>1, <3>3
  <2> QED BY <2>2, <2>3
<1>6. ASSUME NEW b \in DOMAIN h \cup {NULL}
      PROVE  f[b] = IF b = NULL THEN NULL ELSE IF h[b].size >= size THEN b ELSE f[h[b].next]
  <2>1. CASE b = NULL
    BY <1>3, <2>1
  <2>2. CASE b \in F
    BY <1>1, <1>4, <1>5, <2>2
  <2>3. CASE b \in DOMAIN h \ F
    BY <1>1, <1>3, <2>3 DEF UsedUnlinked
  <2> QED BY <2>1, <2>2, <2>3
<1>7. f = FitLoop(f, h, size)
  <2>1. f = [b \in DOMAIN h \cup {NULL} |-> f[b]]
    BY ONLY <1>2
  <2> QED BY ONLY <1>6, <2>1 DEF FitLoop
<1> QED BY <1>7

(* A block of the list that is large enough, if there is one.              *)
FoundFrom(h, F, b, size, x) ==
  /\ x \in F \cup {NULL}
  /\ x # NULL => h[x].size >= size
  /\ x = NULL => \A y \in F : b <= y => ~(h[y].size >= size)

LEMMA FirstFitIs ==
  ASSUME NEW h, NEW head, NEW F, Sound(h, head, F, {}), UsedUnlinked(h, F), NEW size \in Nat,
         NEW c, c = FirstFit(h, head, size)
  PROVE  /\ c \in F \cup {NULL}
         /\ c # NULL => h[c].size >= size
         /\ c = NULL => \A b \in F : ~(h[b].size >= size)
<1>1. /\ F \in SUBSET Nat /\ F \subseteq DOMAIN h /\ Chain(h, head, F) /\ NULL \notin DOMAIN h
      /\ head \in F \cup {NULL} /\ F \in SUBSET Addresses
      /\ \A b \in F : h[b].next \in F \cup {NULL}
  BY SoundTypes, Numbers
<1>2. PICK f : f = CHOOSE g : g = FitLoop(g, h, size)
  OBVIOUS
<1>3. f = FitLoop(f, h, size)
  <2>1. \E g : g = FitLoop(g, h, size)
    BY FitExists
  <2> QED BY ONLY <1>2, <2>1
<1>4. c = f[head]
  BY ONLY <1>2, c = FirstFit(h, head, size) DEF FirstFit, FitLoop
<1>5. /\ f[NULL] = NULL
      /\ \A b \in F : f[b] = IF h[b].size >= size THEN b ELSE f[h[b].next]
  BY ONLY <1>1, <1>3 DEF FitLoop
<1>6. PICK Bad : Bad = {b \in F : ~FoundFrom(h, F, b, size, f[b])}
  BY Zenon
<1>7. Bad = {}
  <2>1. SUFFICES ASSUME Bad # {} PROVE FALSE
    OBVIOUS
  <2>2. Bad \in SUBSET Addresses
    BY <1>1, <1>6
  <2>3. PICK b \in Bad : \A x \in Bad : x <= b
    BY ONLY <2>1, <2>2, Greatest
  <2>4. b \in F
    BY <1>6
  <2>5. CASE h[b].size >= size
    <3>1. f[b] = b
      BY <1>5, <2>4, <2>5
    <3>2. FoundFrom(h, F, b, size, f[b])
      BY <1>1, <2>4, <2>5, <3>1 DEF FoundFrom
    <3> QED BY <1>6, <3>2
  <2>6. CASE ~(h[b].size >= size)
    <3>1. PICK n \in F \cup {NULL} : n = h[b].next /\ IsNext(F, b, n)
      BY <1>1, <2>4 DEF Chain
    <3>2. f[b] = f[n]
      BY ONLY <1>5, <2>4, <2>6, <3>1
    <3>3. CASE n = NULL
      <4>1. \A x \in F : b <= x => x = b
        <5>1. \A x \in F : x <= b
          BY ONLY <1>1, <3>1, <3>3 DEF IsNext
        <5> QED BY ONLY <1>1, <2>4, <5>1
      <4>2. FoundFrom(h, F, b, size, f[b])
        BY <1>5, <2>6, <3>2, <3>3, <4>1 DEF FoundFrom
      <4> QED BY <1>6, <4>2
    <3>4. CASE n # NULL
      <4>1. n \in F /\ b < n /\ \A x \in F : x <= b \/ n <= x
        BY <1>1, <2>4, <3>1, <3>4 DEF IsNext
      <4>2. n \notin Bad
        BY <1>1, <2>3, <2>4, <4>1
      <4>3. \A x \in F : b <= x => x = b \/ n <= x
        BY <1>1, <2>4, <4>1
      <4>4. FoundFrom(h, F, n, size, f[n])
        BY ONLY <1>6, <4>1, <4>2
      <4>5. FoundFrom(h, F, b, size, f[b])
        BY ONLY <2>6, <3>2, <4>3, <4>4 DEF FoundFrom
      <4> QED BY <1>6, <4>5
    <3> QED BY <3>3, <3>4
  <2> QED BY <2>5, <2>6
<1>8. CASE head = NULL
  <2>1. F = {}
    BY <1>1, <1>8, Numbers DEF Chain, IsNext
  <2> QED BY <1>4, <1>5, <1>8, <2>1
<1>9. CASE head # NULL
  <2>1. head \in F /\ \A x \in F : head <= x
    <3>1. IsNext(F, NULL, head)
      BY <1>1 DEF Chain
    <3> QED BY <1>1, <1>9, <3>1, Numbers DEF IsNext
  <2>2. head \notin Bad
    BY <1>7
  <2>3. FoundFrom(h, F, head, size, f[head])
    BY ONLY <1>6, <2>1, <2>2
  <2> QED BY ONLY <1>4, <2>1, <2>3 DEF FoundFrom
<1> QED BY <1>8, <1>9

-----------------------------------------------------------------------------
(* The search for the block behind which one is put back.                  *)
PredLoop(f, h, a) ==
  [b \in DOMAIN h |-> IF h[b].next # NULL /\ a > h[b].next THEN f[h[b].next] ELSE b]

LEMMA PredExists ==
  ASSUME NEW h, NEW head, NEW F, Sound(h, head, F, {}), UsedUnlinked(h, F), NEW a \in Nat
  PROVE  \E f : f = PredLoop(f, h, a)
<1>1. /\ F \in SUBSET Nat /\ F \subseteq DOMAIN h /\ Chain(h, head, F) /\ NULL \notin DOMAIN h
      /\ F \in SUBSET Addresses /\ \A b \in F : h[b].next \in F \cup {NULL}
  BY SoundTypes, Numbers
<1>2. PICK S : S = {x \in F : x < a}
  BY Zenon
<1>3. S \in SUBSET Addresses /\ S \in SUBSET Nat
  BY <1>1, <1>2
<1>4. PICK g : g = GreatestOf(S)
  BY Zenon
<1>5. S # {} => g \in S /\ \A b \in S : b <= g
  BY ONLY <1>3, <1>4, GreatestIs
<1>6. PICK f : f = [b \in DOMAIN h |-> IF b \in S THEN g ELSE b]
  BY Zenon
<1>7. ASSUME NEW b \in DOMAIN h
      PROVE  f[b] = IF h[b].next # NULL /\ a > h[b].next THEN f[h[b].next] ELSE b
  <2>1. CASE b \in DOMAIN h \ F
    BY <1>2, <1>6, <2>1 DEF UsedUnlinked
  <2>2. CASE b \in F
    <3>1. PICK n \in F \cup {NULL} : n = h[b].next /\ IsNext(F, b, n)
      BY <1>1, <2>2 DEF Chain
    <3>2. CASE n = NULL \/ ~(a > n)
      <4>1. b \in S => g = b
        <5>1. SUFFICES ASSUME b \in S PROVE g = b
          OBVIOUS
        <5>2. g \in F /\ g < a /\ b <= g /\ g \in Nat /\ b \in Nat
          BY <1>1, <1>2, <1>5, <5>1
        <5>3. g <= b
          BY <1>1, <3>1, <3>2, <5>2 DEF IsNext
        <5> QED BY ONLY <5>2, <5>3
      <4> QED BY <1>6, <3>1, <3>2, <4>1
    <3>3. CASE n # NULL /\ a > n
      <4>1. n \in F /\ b < n
        BY <3>1, <3>3 DEF IsNext
      <4>2. n \in Nat /\ b \in Nat
        BY <1>1, <2>2, <4>1
      <4>3. n < a /\ b < a
        BY ONLY <3>3, <4>1, <4>2, a \in Nat
      <4>4. b \in S /\ n \in S /\ n \in DOMAIN h
        BY ONLY <1>1, <1>2, <2>2, <4>1, <4>3
      <4> QED BY <1>6, <3>1, <3>3, <4>4
    <3> QED BY <3>2, <3>3
  <2> QED BY <2>1, <2>2
<1>8. f = PredLoop(f, h, a)
  <2>1. f = [b \in DOMAIN h |-> f[b]]
    BY ONLY <1>6
  <2> QED BY ONLY <1>7, <2>1 DEF PredLoop
<1> QED BY <1>8

LEMMA PredecessorIs ==
  ASSUME NEW h, NEW F, Sound(h, fmem_head, F, {}), UsedUnlinked(h, F), NEW a \in Nat, a \notin F,
         NEW c, c = Predecessor(h, a)
  PROVE  IsPrev(F, a, c)
<1>1. /\ F \in SUBSET Nat /\ F \subseteq DOMAIN h /\ Chain(h, fmem_head, F) /\ NULL \notin DOMAIN h
      /\ fmem_head \in F \cup {NULL} /\ F \in SUBSET Addresses
      /\ \A b \in F : h[b].next \in F \cup {NULL}
  BY SoundTypes, Numbers
<1>2. PICK f : f = CHOOSE g : g = PredLoop(g, h, a)
  OBVIOUS
<1>3. f = PredLoop(f, h, a)
  <2>1. \E g : g = PredLoop(g, h, a)
    BY PredExists
  <2> QED BY ONLY <1>2, <2>1
<1>4. c = IF fmem_head = NULL \/ a < fmem_head THEN NULL ELSE f[fmem_head]
  BY ONLY <1>2, c = Predecessor(h, a) DEF Predecessor, PredLoop
<1>5. \A b \in F : f[b] = IF h[b].next # NULL /\ a > h[b].next THEN f[h[b].next] ELSE b
  BY ONLY <1>1, <1>3 DEF PredLoop
<1>6. PICK Bad : Bad = {b \in F : b < a /\ ~IsPrev(F, a, f[b])}
  BY Zenon
<1>7. Bad = {}
  <2>1. SUFFICES ASSUME Bad # {} PROVE FALSE
    OBVIOUS
  <2>2. Bad \in SUBSET Addresses
    BY <1>1, <1>6
  <2>3. PICK b \in Bad : \A x \in Bad : x <= b
    BY ONLY <2>1, <2>2, Greatest
  <2>4. b \in F /\ b < a /\ ~IsPrev(F, a, f[b]) /\ b \in Nat
    BY <1>1, <1>6
  <2>5. PICK n \in F \cup {NULL} : n = h[b].next /\ IsNext(F, b, n)
    BY <1>1, <2>4 DEF Chain
  <2>6. CASE n = NULL \/ ~(a > n)
    <3>1. f[b] = b
      BY <1>5, <2>4, <2>5, <2>6
    <3>2. \A x \in F : x <= b \/ a <= x
      <4>1. ASSUME NEW x \in F PROVE x <= b \/ a <= x
        <5>1. n = NULL => x <= b
          BY <1>1, <2>5, Numbers DEF IsNext
        <5>2. n # NULL => (x <= b \/ n <= x) /\ n \in Nat
          BY <1>1, <2>5 DEF IsNext
        <5>3. x \in Nat
          BY <1>1
        <5> QED BY ONLY <2>4, <2>6, <5>1, <5>2, <5>3, a \in Nat
      <4> QED BY <4>1
    <3> QED BY <2>4, <3>1, <3>2 DEF IsPrev
  <2>7. CASE n # NULL /\ a > n
    <3>1. f[b] = f[n] /\ n \in F /\ b < n /\ n \in Nat
      BY <1>1, <1>5, <2>4, <2>5, <2>7 DEF IsNext
    <3>2. n < a /\ n \notin Bad
      BY ONLY <2>3, <2>4, <2>7, <3>1, a \in Nat
    <3> QED BY ONLY <1>6, <2>4, <3>1, <3>2
  <2> QED BY <2>6, <2>7
<1>8. CASE fmem_head = NULL
  <2>1. F = {}
    BY <1>1, <1>8, Numbers DEF Chain, IsNext
  <2> QED BY <1>4, <1>8, <2>1 DEF IsPrev
<1>9. CASE fmem_head # NULL
  <2>1. fmem_head \in F /\ \A x \in F : fmem_head <= x
    <3>1. IsNext(F, NULL, fmem_head)
      BY <1>1 DEF Chain
    <3> QED BY <1>1, <1>9, <3>1, Numbers DEF IsNext
  <2>2. CASE a < fmem_head
    <3>1. ASSUME NEW x \in F PROVE a <= x
      BY <1>1, <2>1, <2>2
    <3> QED BY <1>4, <2>2, <3>1 DEF IsPrev
  <2>3. CASE ~(a < fmem_head)
    <3>1. fmem_head < a
      BY <1>1, <2>1, <2>3
    <3> QED BY ONLY <1>4, <1>6, <1>7, <1>9, <2>1, <2>3, <3>1
  <2> QED BY <2>2, <2>3
<1> QED BY <1>8, <1>9

-----------------------------------------------------------------------------
(* kmem_free: the place of a block that is not in the list.                *)
LEMMA PlaceIs ==
  ASSUME NEW h, NEW F, Sound(h, fmem_head, F, {}), UsedUnlinked(h, F), NEW a \in DOMAIN h \ F,
         NEW c, c = Predecessor(h, a + HEADER),
         NEW n, n = IF c = NULL THEN fmem_head ELSE h[c].next
  PROVE  IsPrev(F, a, c) /\ IsNext(F, a, n)
<1>1. /\ F \in SUBSET Nat /\ F \subseteq DOMAIN h /\ Headers(h) /\ Tiles(h)
      /\ Chain(h, fmem_head, F) /\ a \in Nat /\ HEADER \in Nat \ {0} /\ a + HEADER < End(h, a)
      /\ End(h, a) \in Nat
  BY SoundTypes, Extents, Numbers
<1>2. PICK i \in Nat : i = a + HEADER
  BY <1>1
<1>3. \A b \in F : b \in Nat /\ (b < a \/ End(h, a) <= b)
  <2>1. \A b \in F : b \in Nat /\ b # a /\ (b <= a \/ End(h, a) <= b)
    BY <1>1 DEF Tiles
  <2> QED BY <1>1, <2>1
<1>4. i \notin F /\ a < i /\ i < End(h, a)
  BY ONLY <1>1, <1>2, <1>3
<1>5. IsPrev(F, i, c)
  BY ONLY <1>2, <1>4, Sound(h, fmem_head, F, {}), UsedUnlinked(h, F), c = Predecessor(h, a + HEADER),
          PredecessorIs
<1>6. IsPrev(F, a, c)
  <2>1. ASSUME NEW b \in F PROVE (a <= b <=> i <= b) /\ (b < a <=> b < i)
    BY ONLY <1>1, <1>3, <1>4, i \in Nat
  <2> QED BY ONLY <1>5, <2>1 DEF IsPrev
<1>7. CASE c = NULL
  <2>1. IsNext(F, NULL, n)
    BY <1>1, <1>7 DEF Chain
  <2>2. ASSUME NEW b \in F PROVE (b <= NULL <=> b <= a) /\ (NULL < b <=> a < b)
    <3>1. a <= b /\ b # a /\ b \in Nat
      BY <1>1, <1>3, <1>6, <1>7, Numbers DEF IsPrev
    <3> QED BY ONLY <1>1, <3>1 DEF NULL
  <2>3. IsNext(F, a, n)
    BY ONLY <2>1, <2>2 DEF IsNext
  <2> QED BY <1>6, <2>3
<1>8. CASE c # NULL
  <2>1. c \in F /\ c < a /\ c \in Nat /\ \A b \in F : b <= c \/ a <= b
    BY ONLY <1>1, <1>6, <1>8 DEF IsPrev
  <2>2. IsNext(F, c, n)
    BY <1>1, <1>8, <2>1 DEF Chain
  <2>3. ASSUME NEW b \in F PROVE (b <= c <=> b <= a) /\ (c < b <=> a < b) /\ b \in Nat
    BY ONLY <1>1, <1>3, <2>1
  <2>4. IsNext(F, a, n)
    BY ONLY <2>2, <2>3 DEF IsNext
  <2> QED BY <1>6, <2>4
<1> QED BY <1>7, <1>8

(* The block with the neighbours that the list gives it.                   *)
Linked(h, a, c, n) == [h EXCEPT ![a].prev = c, ![a].next = n]

LinksSet(g, h, a, c, n) ==
  g[a].next = n /\ g[a].prev = c /\ \A b \in DOMAIN h \ {a} : g[b] = h[b]

LEMMA LinkedIs ==
  ASSUME NEW h, Headers(h), NEW a \in DOMAIN h,
         NEW c \in Addresses \cup {NULL}, NEW n \in Addresses \cup {NULL}, NEW g, g = Linked(h, a, c, n)
  PROVE  Headers(g) /\ SameSizes(g, h) /\ LinksSet(g, h, a, c, n)
<1>1. PICK w \in Header : w = h[a]
  BY DEF Headers
<1>2. PICK x \in Header : x = [w EXCEPT !.prev = c, !.next = n]
  BY DEF Header
<1>3. x.next = n /\ x.prev = c /\ x.size = w.size
  BY ONLY w \in Header, <1>2 DEF Header
<1>4. DOMAIN g = DOMAIN h /\ \A b \in DOMAIN h : g[b] = IF b = a THEN x ELSE h[b]
  BY <1>1, <1>2 DEF Linked
<1>5. Headers(g)
  BY <1>2, <1>4 DEF Headers
<1> QED BY <1>1, <1>3, <1>4, <1>5 DEF SameSizes, LinksSet

(* It is free and in the list; the only blocks that may touch a free one   *)
(* behind them are this one and the one in front of it.                    *)
Inserted(g, e, h, F, a, c, n) ==
  /\ Sound(g, e, F \cup {a}, {a, c}) /\ SameSizes(g, h) /\ g[a].next = n
  /\ c \in F \cup {NULL} /\ (c # NULL => c < a)
  /\ \A b \in DOMAIN h \ (F \cup {a}) : g[b].next = h[b].next

LEMMA InsertSound ==
  ASSUME NEW h, NEW head, NEW F, Sound(h, head, F, {}), NEW a \in DOMAIN h \ F,
         NEW c, NEW n, IsPrev(F, a, c), IsNext(F, a, n),
         NEW g, g = SetNext(SetPrev(Linked(h, a, c, n), n, a), c, a),
         NEW e, e = IF c = NULL THEN a ELSE head
  PROVE  Inserted(g, e, h, F, a, c, n)
<1>1. /\ F \in SUBSET Nat /\ F \subseteq DOMAIN h /\ Headers(h) /\ Tiles(h) /\ Chain(h, head, F)
      /\ NULL \notin F /\ DOMAIN h \subseteq Addresses /\ a \in Nat \ F /\ a # NULL
      /\ a \in Addresses
  BY SoundTypes, Numbers
<1>2. c \in F \cup {NULL} /\ n \in F \cup {NULL} /\ (c # NULL => c < a)
  BY DEF IsPrev, IsNext
<1>3. PICK g0 : g0 = Linked(h, a, c, n)
  BY Zenon
<1>4. /\ Headers(g0) /\ SameSizes(g0, h) /\ g0[a].next = n /\ g0[a].prev = c
      /\ \A b \in DOMAIN h \ {a} : g0[b] = h[b]
  <2>1. c \in Addresses \cup {NULL} /\ n \in Addresses \cup {NULL} /\ a \in DOMAIN h
    BY <1>1, <1>2
  <2>2. Headers(h)
    BY <1>1
  <2>3. Headers(g0) /\ SameSizes(g0, h) /\ LinksSet(g0, h, a, c, n)
    BY ONLY <1>3, <2>1, <2>2, LinkedIs
  <2> QED BY <2>3 DEF LinksSet
<1>5. PICK g1 : g1 = SetPrev(g0, n, a)
  BY Zenon
<1>6. Headers(g1) /\ SameSizes(g1, g0) /\ PrevSet(g1, g0, n, a)
  <2>1. n \in DOMAIN g0 \cup {NULL} /\ a \in Addresses \cup {NULL}
    BY <1>1, <1>2, <1>4 DEF SameSizes
  <2> QED BY ONLY <1>4, <1>5, <2>1, SetPrevIs
<1>7. Headers(g) /\ SameSizes(g, g1) /\ NextSet(g, g1, c, a)
  <2>1. c \in DOMAIN g1 \cup {NULL} /\ a \in Addresses \cup {NULL}
    BY <1>1, <1>2, <1>4, <1>6 DEF SameSizes
  <2>2. g = SetNext(g1, c, a)
    BY <1>3, <1>5
  <2> QED BY ONLY <1>6, <2>1, <2>2, SetNextIs
<1>8. SameSizes(g, h)
  BY ONLY <1>4, <1>6, <1>7 DEF SameSizes
<1>9. a # c /\ a # n
  BY <1>1, <1>2
<1>10. ASSUME NEW b \in DOMAIN h
       PROVE  /\ g[b].next = IF b = c THEN a ELSE g0[b].next
              /\ g[b].prev = IF b = n THEN a ELSE g0[b].prev
  BY ONLY <1>4, <1>6, <1>7 DEF SameSizes, NextSet, PrevSet
<1>11. g[a].next = n /\ g[a].prev = c
  BY <1>4, <1>9, <1>10
<1>12. Relinked(g, h, DOMAIN h \ {a}, c, a, n, a)
  BY ONLY <1>4, <1>10 DEF Relinked
<1>13. Chain(g, e, F \cup {a})
  <2>1. Relinked(g, h, F, c, a, n, a) /\ e = IF c # NULL THEN head ELSE a
    BY <1>1, <1>12 DEF Relinked
  <2>2. F \in SUBSET Nat /\ Chain(h, head, F) /\ a \in Nat \ F
    BY <1>1
  <2> QED BY ONLY <1>11, <2>1, <2>2, IsPrev(F, a, c), IsNext(F, a, n), ChainInserted
<1>14. ApartBut(h, F \cup {a}, {a, c})
  <2>1. ASSUME NEW b \in F, b # c, b # a PROVE End(h, b) \notin F /\ End(h, b) # a
    <3>1. End(h, b) \notin F
      BY DEF Sound, ApartBut
    <3>2. ASSUME End(h, b) = a PROVE FALSE
      <4>1. b \in Nat /\ b < a
        BY <1>1, <3>2, Extents, Numbers
      <4>2. c \in F /\ c \in Nat /\ b <= c /\ c < a
        <5>1. ~(a <= b)
          BY ONLY <1>1, <4>1
        <5> QED BY ONLY <1>1, <5>1, b \in F, IsPrev(F, a, c) DEF IsPrev
      <4>3. c <= b \/ a <= c
        BY <1>1, <3>2, <4>2 DEF Tiles
      <4> QED BY ONLY <1>1, <2>1, <4>1, <4>2, <4>3
    <3> QED BY <3>1, <3>2
  <2> QED BY ONLY <2>1 DEF ApartBut
<1>15. Tiles(g) /\ ApartBut(g, F \cup {a}, {a, c})
  <2>1. F \cup {a} \subseteq DOMAIN h
    BY <1>1
  <2> QED BY ONLY <1>1, <1>8, <1>14, <2>1, TilesSame
<1>16. Sound(g, e, F \cup {a}, {a, c})
  <2>1. F \cup {a} \subseteq DOMAIN g
    BY <1>1, <1>8 DEF SameSizes
  <2> QED BY ONLY <1>7, <1>13, <1>15, <2>1 DEF Sound
<1>17. \A b \in DOMAIN h \ (F \cup {a}) : g[b].next = h[b].next
  <2>1. ASSUME NEW b \in DOMAIN h \ (F \cup {a}) PROVE b # c /\ b # a
    BY <1>1, <1>2, Numbers
  <2> QED BY <1>12, <2>1 DEF Relinked
<1> QED BY ONLY <1>2, <1>8, <1>11, <1>16, <1>17 DEF Inserted

-----------------------------------------------------------------------------
(* tryToJoin: a free block takes in the one behind it ...                  *)
GrownBy(g, h, c, d, n) ==
  /\ DOMAIN g = DOMAIN h \ {d}
  /\ g[c].size = h[c].size + (h[d].size + HEADER)
  /\ g[c].next = n
  /\ g[c].prev = h[c].prev
  /\ \A b \in DOMAIN h \ {c, d} : g[b] = h[b]

LEMMA AbsorbedIs ==
  ASSUME NEW h, Headers(h), NEW c \in DOMAIN h, NEW d \in DOMAIN h, c # d, d = h[c].next,
         NEW n, n = h[d].next, NEW g, g = Absorbed(h, c, h[d].size + HEADER)
  PROVE  Headers(g) /\ GrownBy(g, h, c, d, n)
<1>1. PICK w \in Header, v \in Header : w = h[c] /\ v = h[d]
  BY DEF Headers
<1>2. PICK more : more = v.size + HEADER
  OBVIOUS
<1>3. w.size \in Nat \ {0} /\ more \in Nat /\ w.size + more \in Nat \ {0} /\ n \in Addresses \cup {NULL}
  BY <1>1, <1>2, Numbers DEF Header
<1>4. PICK x \in Header : x = [w EXCEPT !.size = @ + more, !.next = n]
  BY <1>3 DEF Header
<1>5. x.next = n /\ x.prev = w.prev /\ x.size = w.size + more
  BY ONLY w \in Header, <1>4 DEF Header
<1>6. PICK k : k = [h EXCEPT ![c].size = @ + more, ![c].next = n]
  BY Zenon
<1>7. \A b \in DOMAIN h : k[b] = IF b = c THEN x ELSE h[b]
  BY <1>1, <1>4, <1>6
<1>8. g = [b \in DOMAIN h \ {d} |-> k[b]]
  BY <1>1, <1>2, <1>6 DEF Absorbed
<1>9. DOMAIN g = DOMAIN h \ {d} /\ \A b \in DOMAIN h \ {d} : g[b] = IF b = c THEN x ELSE h[b]
  BY ONLY <1>7, <1>8
<1>10. Headers(g)
  BY <1>9 DEF Headers
<1> QED BY <1>1, <1>2, <1>5, <1>9, <1>10 DEF GrownBy

(* ... when it ends where that begins; what else is free is not changed    *)
(* but in its links.                                                       *)
LEMMA JoinsIs ==
  ASSUME NEW h, NEW head, NEW F, NEW X, Sound(h, head, F, X), NEW c \in F
  PROVE  Joins(h, c) <=> End(h, c) \in F
<1>1. /\ F \in SUBSET Nat /\ F \subseteq DOMAIN h /\ Headers(h) /\ Tiles(h) /\ Chain(h, head, F)
      /\ NULL \notin F /\ h[c].next \in F \cup {NULL} /\ c \in Nat
      /\ IsNext(F, c, h[c].next)
  BY SoundTypes DEF Chain
<1>2. End(h, c) \in Nat /\ c < End(h, c) /\ \A b \in F : b <= c \/ End(h, c) <= b
  <2>1. \A b \in F : b <= c \/ End(h, c) <= b
    BY <1>1 DEF Tiles
  <2>2. PICK m \in Nat : m = End(h, c) /\ c + HEADER < m
    BY <1>1, Extents
  <2>3. c < m
    BY ONLY <1>1, <2>2, Numbers
  <2> QED BY ONLY <2>1, <2>2, <2>3
<1>3. ASSUME End(h, c) \in F PROVE h[c].next = End(h, c)
  <2>1. PICK x \in F \cup {NULL} : x = h[c].next
    BY <1>1
  <2>2. x # NULL
    <3>1. SUFFICES ASSUME x = NULL PROVE FALSE
      OBVIOUS
    <3>2. End(h, c) <= c
      BY ONLY <1>1, <1>3, <2>1, <3>1 DEF IsNext
    <3> QED BY ONLY <1>1, <1>2, <3>2
  <2>3. x \in Nat /\ c < x /\ (End(h, c) <= c \/ x <= End(h, c)) /\ x \in F
    BY <1>1, <1>3, <2>1, <2>2 DEF IsNext
  <2>4. x <= c \/ End(h, c) <= x
    BY <1>2, <2>3
  <2> QED BY ONLY <1>1, <1>2, <2>1, <2>3, <2>4
<1> QED BY <1>1, <1>3 DEF Joins

Joined(g, head, h, F, X, c) ==
  /\ Sound(g, head, F \cap DOMAIN g, X \ {c})
  /\ DOMAIN h \ F \subseteq DOMAIN g /\ DOMAIN g \subseteq DOMAIN h
  /\ \A b \in DOMAIN h \ F : g[b].size = h[b].size /\ g[b].next = h[b].next
  /\ \A d \in DOMAIN h \ DOMAIN g : c < d /\ c # NULL

LEMMA JoinSound ==
  ASSUME NEW h, NEW head, NEW F, NEW X, Sound(h, head, F, X), NEW c \in F \cup {NULL},
         c # NULL => \A x \in X : x <= c, X \subseteq Int,
         NEW g, g = tryToJoin(h, c)
  PROVE  Joined(g, head, h, F, X, c)
<1>1. /\ F \in SUBSET Nat /\ F \subseteq DOMAIN h /\ Headers(h) /\ Tiles(h) /\ Chain(h, head, F)
      /\ NULL \notin F /\ DOMAIN h \subseteq Addresses /\ NULL \notin DOMAIN h
  BY SoundTypes, Numbers
<1>2. CASE ~Joins(h, c)
  <2>1. g = h /\ F \cap DOMAIN g = F
    BY <1>1, <1>2 DEF tryToJoin
  <2>2. ApartBut(h, F, X \ {c})
    <3>1. ASSUME NEW b \in F \ (X \ {c}) PROVE End(h, b) \notin F
      <4>1. CASE b \in X
        <5>1. b = c
          BY <4>1
        <5> QED BY <1>2, <5>1, JoinsIs
      <4>2. CASE b \notin X
        BY <4>2 DEF Sound, ApartBut
      <4> QED BY <4>1, <4>2
    <3> QED BY ONLY <3>1 DEF ApartBut
  <2>3. Sound(g, head, F, X \ {c})
    BY <1>1, <2>1, <2>2 DEF Sound
  <2> QED BY ONLY <2>1, <2>3 DEF Joined
<1>3. CASE Joins(h, c)
  <2>1. /\ c \in F /\ c \in DOMAIN h /\ c \in Nat /\ End(h, c) \in F
        /\ IsNext(F, c, h[c].next) /\ h[c].next = End(h, c)
    BY <1>1, <1>3, JoinsIs DEF Joins, Chain
  <2>2. PICK d \in F : d = h[c].next /\ d = End(h, c)
    BY <2>1
  <2>3. PICK n : n = h[d].next
    BY Zenon
  <2>4. /\ c < d /\ d \in Nat /\ n \in F \cup {NULL} /\ n # d /\ d \in DOMAIN h /\ d \notin X
        /\ IsPrev(F, d, c) /\ IsNext(F, c, d) /\ IsNext(F, d, n)
    <3>1. d \in Nat /\ n \in F \cup {NULL} /\ n # d /\ d \in DOMAIN h /\ IsNext(F, d, n)
      BY <1>1, <2>3, SoundTypes DEF Chain
    <3>2. c < d /\ IsNext(F, c, d)
      <4>1. IsNext(F, c, d) /\ d # NULL
        BY <1>1, <2>1, <2>2
      <4> QED BY ONLY <4>1 DEF IsNext
    <3>3. IsPrev(F, d, c)
      BY <1>1, <2>1, <3>2, NextPrev
    <3>4. d \notin X
      BY <2>1, <3>1, <3>2, Numbers
    <3> QED BY <3>1, <3>2, <3>3, <3>4
  <2>5. c # d /\ n # c
    <3>1. n # NULL => d < n /\ n \in Nat
      BY <1>1, <2>4 DEF IsNext
    <3> QED BY ONLY <1>1, <2>1, <2>4, <3>1
  <2>6. PICK k : k = Absorbed(h, c, h[d].size + HEADER)
    BY Zenon
  <2>7. Headers(k) /\ GrownBy(k, h, c, d, n)
    BY ONLY <1>1, <2>1, <2>2, <2>3, <2>4, <2>5, <2>6, AbsorbedIs
  <2>8. g = SetPrev(k, n, c)
    BY ONLY <1>3, <2>2, <2>3, <2>6, g = tryToJoin(h, c) DEF tryToJoin
  <2>9. DOMAIN k = DOMAIN h \ {d} /\ \A b \in DOMAIN h \ {c, d} : k[b] = h[b]
    BY <2>7 DEF GrownBy
  <2>10. Headers(g) /\ SameSizes(g, k) /\ PrevSet(g, k, n, c)
    <3>1. n \in DOMAIN k \cup {NULL} /\ c \in Addresses \cup {NULL}
      BY <1>1, <2>1, <2>4, <2>9
    <3> QED BY ONLY <2>7, <2>8, <3>1, SetPrevIs
  <2>11. DOMAIN g = DOMAIN h \ {d} /\ F \cap DOMAIN g = F \ {d}
    BY <1>1, <2>9, <2>10 DEF SameSizes
  <2>12. /\ Tiles(g) /\ End(g, c) = End(h, d) /\ c \in DOMAIN g
         /\ \A b \in DOMAIN h \ {c, d} : End(g, b) = End(h, b)
    <3>1. g[c].size = h[c].size + (h[d].size + HEADER)
      BY ONLY <2>1, <2>5, <2>7, <2>10 DEF SameSizes, GrownBy
    <3>2. \A b \in DOMAIN h \ {c, d} : g[b].size = h[b].size
      BY ONLY <2>9, <2>10 DEF SameSizes
    <3>3. DOMAIN g = DOMAIN h \ {d} /\ Headers(h) /\ Tiles(h) /\ c \in DOMAIN h /\ d \in DOMAIN h
          /\ End(h, c) = d
      BY <1>1, <2>1, <2>2, <2>4, <2>11
    <3> QED BY ONLY <3>1, <3>2, <3>3, TilesJoined
  <2>13. Relinked(g, h, DOMAIN h \ {d}, c, n, n, c)
    <3>1. ASSUME NEW b \in DOMAIN h \ {d}
          PROVE  /\ g[b].next = IF b = c THEN n ELSE h[b].next
                 /\ g[b].prev = IF b = n THEN c ELSE h[b].prev
      <4>1. g[b].next = k[b].next /\ g[b].prev = IF b = n THEN c ELSE k[b].prev
        BY ONLY <2>9, <2>10 DEF PrevSet
      <4>2. k[c].next = n /\ k[c].prev = h[c].prev
        BY ONLY <2>7 DEF GrownBy
      <4> QED BY ONLY <2>9, <4>1, <4>2
    <3> QED BY ONLY <3>1 DEF Relinked
  <2>14. Chain(g, head, F \ {d})
    <3>1. c = h[d].prev
      <4>1. IsPrev(F, d, h[d].prev)
        BY <1>1 DEF Chain
      <4> QED BY <1>1, <2>4, <4>1, PrevUnique
    <3>2. Relinked(g, h, F \ {d}, c, n, n, c) /\ head = IF c # NULL THEN head ELSE n
      BY <1>1, <2>1, <2>13 DEF Relinked
    <3> QED BY ONLY <1>1, <2>3, <3>1, <3>2, d \in F, ChainRemoved
  <2>15. ApartBut(g, F \ {d}, X \ {c})
    <3>1. ASSUME NEW b \in (F \ {d}) \ (X \ {c}) PROVE End(g, b) \notin F
      <4>1. \A a \in F \ X : End(h, a) \notin F
        BY DEF Sound, ApartBut
      <4>2. CASE b = c
        BY <2>4, <2>12, <4>1, <4>2
      <4>3. CASE b # c
        <5>1. b \in DOMAIN h \ {c, d} /\ b \in F \ X
          BY <1>1, <3>1, <4>3
        <5> QED BY <2>12, <4>1, <5>1
      <4> QED BY <4>2, <4>3
    <3> QED BY <3>1 DEF ApartBut
  <2>16. Sound(g, head, F \ {d}, X \ {c})
    <3>1. F \ {d} \subseteq DOMAIN g
      BY <1>1, <2>11
    <3> QED BY ONLY <2>10, <2>12, <2>14, <2>15, <3>1 DEF Sound
  <2>17. ASSUME NEW b \in DOMAIN h \ F PROVE g[b].size = h[b].size /\ g[b].next = h[b].next
    <3>1. b \in DOMAIN h \ {c, d}
      BY <2>1, <2>4
    <3> QED BY ONLY <2>9, <2>10, <3>1 DEF SameSizes, PrevSet
  <2>18. \A x \in DOMAIN h \ DOMAIN g : c < x /\ c # NULL
    BY <1>1, <2>1, <2>4, <2>11
  <2> QED BY ONLY <2>4, <2>11, <2>16, <2>17, <2>18 DEF Joined
<1> QED BY <1>2, <1>3

-----------------------------------------------------------------------------
(* The pages that lie wholly in a stretch of memory touch no other one.    *)
LEMMA PagesApart ==
  ASSUME NEW b \in Nat, NEW e \in Nat, b < e, NEW x \in Nat, NEW y \in Nat, y <= b \/ e <= x,
         NEW p \in Nat, p * PAGE >= x, (p + 1) * PAGE <= y
  PROVE  p \notin b \div PAGE .. (e - 1) \div PAGE
<1>1. PAGE \in Nat \ {0} /\ e - 1 \in Nat
  BY Numbers
<1>2. PICK q \in Nat, s \in 0 .. PAGE - 1 : q = b \div PAGE /\ b = PAGE * q + s
  BY <1>1, DivMod
<1>3. PICK r \in Nat, t \in 0 .. PAGE - 1 : r = (e - 1) \div PAGE /\ e - 1 = PAGE * r + t
  BY <1>1, DivMod
<1>4. /\ PAGE * q \in Nat /\ PAGE * r \in Nat /\ PAGE * p \in Nat
      /\ p * PAGE = PAGE * p /\ (p + 1) * PAGE = PAGE * p + PAGE
  BY <1>1
<1>5. CASE y <= b
  <2>1. SUFFICES ASSUME ~(p < q) PROVE FALSE
    BY <1>2
  <2>2. q < p => PAGE * q + PAGE <= PAGE * p
    BY <1>1, TimesGrows
  <2>3. PAGE * q <= PAGE * p
    <3>1. q = p \/ q < p
      BY <2>1
    <3> QED BY <1>1, <1>4, <2>2, <3>1
  <2> QED BY ONLY <1>1, <1>2, <1>4, <1>5, <2>3, (p + 1) * PAGE <= y, y \in Nat, b \in Nat
<1>6. CASE e <= x
  <2>1. SUFFICES ASSUME ~(r < p) PROVE FALSE
    BY <1>3
  <2>2. p < r => PAGE * p + PAGE <= PAGE * r
    BY <1>1, TimesGrows
  <2>3. PAGE * p <= PAGE * r
    <3>1. p = r \/ p < r
      BY <2>1
    <3> QED BY <1>1, <1>4, <2>2, <3>1
  <2> QED BY ONLY <1>1, <1>3, <1>4, <1>6, <2>3, p * PAGE >= x, x \in Nat, e \in Nat
<1> QED BY <1>5, <1>6

(* The bytes that are taken for a request: whole units, which is what the  *)
(* request needs behind the header.                                        *)
LEMMA BytesAre ==
  ASSUME NEW n \in Requests, NEW size, size = Bytes(blockSize(n))
  PROVE  size \in Nat \ {0} /\ H!Needs(n) = HEADER + size
<1>1. /\ n \in Nat \ {0} /\ n + MEM_BLOCK < SizeMod /\ MEM_BLOCK \in Nat \ {0} /\ SizeMod \in Nat \ {0}
  BY HeapAssumption, RequestsAssumption
<1>2. PICK q \in Nat, r \in 0 .. MEM_BLOCK - 1 :
        q = n \div MEM_BLOCK /\ r = n % MEM_BLOCK /\ n = MEM_BLOCK * q + r
  BY <1>1, DivMod
<1>3. PICK u \in Nat : u = blockSize(n) /\ u = q + IF r # 0 THEN 1 ELSE 0
  BY <1>2 DEF blockSize
<1>4. /\ MEM_BLOCK * q \in Nat /\ MEM_BLOCK * (q + 1) = MEM_BLOCK * q + MEM_BLOCK
      /\ MEM_BLOCK * u \in Nat /\ u * MEM_BLOCK = MEM_BLOCK * u
  BY <1>1, <1>2
<1>5. /\ MEM_BLOCK * u < n + MEM_BLOCK /\ MEM_BLOCK * u >= n
      /\ n + MEM_BLOCK - 1 = MEM_BLOCK * u + (n + MEM_BLOCK - 1 - MEM_BLOCK * u)
      /\ n + MEM_BLOCK - 1 - MEM_BLOCK * u \in 0 .. MEM_BLOCK - 1
  <2>1. CASE r = 0
    <3>1. u = q
      BY <1>3, <2>1
    <3> QED BY ONLY <1>1, <1>2, <1>4, <2>1, <3>1
  <2>2. CASE r # 0
    <3>1. u = q + 1
      BY <1>3, <2>2
    <3> QED BY ONLY <1>1, <1>2, <1>4, <2>2, <3>1
  <2> QED BY <2>1, <2>2
<1>6. size = MEM_BLOCK * u /\ size \in Nat \ {0}
  <2>1. PICK m \in Nat \ {0} : m = MEM_BLOCK * u /\ m < SizeMod
    BY ONLY <1>1, <1>4, <1>5
  <2>2. m % SizeMod = m
    BY ONLY <1>1, <2>1
  <2>3. size = (u * MEM_BLOCK) % SizeMod
    BY ONLY <1>3, size = Bytes(blockSize(n)) DEF Bytes
  <2> QED BY ONLY <1>4, <2>1, <2>2, <2>3
<1>7. (n + MEM_BLOCK - 1) \div MEM_BLOCK = u
  <2>1. PICK d \in Nat, k \in 0 .. MEM_BLOCK - 1 : d = n + MEM_BLOCK - 1 /\ d = MEM_BLOCK * u + k
    BY ONLY <1>1, <1>5
  <2>2. d \div MEM_BLOCK = u
    BY ONLY <1>1, <1>3, <2>1, DivUnique
  <2> QED BY <2>1, <2>2
<1>8. H!Needs(n) = HEADER + u * MEM_BLOCK
  BY ONLY <1>7 DEF H!Needs
<1> QED BY ONLY <1>4, <1>6, <1>8

(* Every address of the heap is in a block.                                *)
LEMMA BlockAt ==
  ASSUME NEW h, Headers(h), Tiles(h), NEW s \in Addresses
  PROVE  \E b \in DOMAIN h : b <= s /\ s < End(h, b)
<1>1. PICK S : S = {b \in DOMAIN h : b <= s}
  BY Zenon
<1>2. S \in SUBSET Addresses /\ S # {} /\ s \in Nat /\ s < HeapSize
  BY <1>1, Numbers DEF Headers, Tiles
<1>3. PICK b \in S : \A x \in S : x <= b
  BY ONLY <1>2, Greatest
<1>4. b \in DOMAIN h /\ b <= s
  BY <1>1
<1>5. PICK e \in Nat : e = End(h, b) /\ b < e /\ e \in DOMAIN h \cup {HeapSize}
  <2>1. End(h, b) \in Nat /\ b + HEADER < End(h, b) /\ End(h, b) \in DOMAIN h \cup {HeapSize}
        /\ b \in Nat
    BY <1>4, Extents
  <2>2. b < End(h, b)
    BY ONLY <2>1, Numbers
  <2> QED BY <2>1, <2>2
<1>6. s < e
  <2>1. SUFFICES ASSUME e <= s PROVE FALSE
    BY <1>2, <1>5
  <2>2. e \in S
    BY <1>1, <1>2, <1>5, <2>1, Numbers
  <2> QED BY <1>2, <1>3, <1>5, <2>2, Numbers
<1> QED BY <1>4, <1>5, <1>6

(* A stretch of addresses that no block out of F touches lies in one block *)
(* of F, as no two of them touch.                                          *)
Clear(h, F, s, len) ==
  \A a \in DOMAIN h \ F : \A i \in s .. s + len - 1 : i \notin a .. End(h, a) - 1

LEMMA StretchInOne ==
  ASSUME NEW h, NEW head, NEW F, Sound(h, head, F, {}), NEW s \in Nat, NEW len \in Nat \ {0},
         s + len <= HeapSize, Clear(h, F, s, len)
  PROVE  \E b \in F : b + len <= End(h, b)
<1>1. /\ F \in SUBSET Nat /\ F \subseteq DOMAIN h /\ Headers(h) /\ Tiles(h)
      /\ ApartBut(h, F, {}) /\ HeapSize \in Nat /\ s \in Addresses
  BY SoundTypes, Numbers DEF Sound
<1>2. PICK b \in DOMAIN h : b <= s /\ s < End(h, b)
  BY <1>1, BlockAt
<1>3. PICK e \in Nat : e = End(h, b) /\ e \in DOMAIN h \cup {HeapSize} /\ b \in Nat
  BY <1>1, Extents
<1>4. b \in F
  <2>1. s \in s .. s + len - 1 /\ s \in b .. e - 1
    BY ONLY <1>2, <1>3, s \in Nat, len \in Nat \ {0}
  <2> QED BY ONLY <1>2, <1>3, <2>1, Clear(h, F, s, len) DEF Clear
<1>5. e \notin F
  BY <1>1, <1>3, <1>4 DEF ApartBut
<1>6. s + len <= e
  <2>1. SUFFICES ASSUME e < s + len PROVE FALSE
    BY <1>3
  <2>2. e \in DOMAIN h \ F
    BY <1>1, <1>3, <1>5, <2>1
  <2>3. PICK f \in Nat : f = End(h, e) /\ e + HEADER < f
    BY <1>1, <2>2, Extents
  <2>4. e \in s .. s + len - 1 /\ e \in e .. f - 1
    BY ONLY <1>2, <1>3, <2>1, <2>3, Numbers, s \in Nat, len \in Nat \ {0}
  <2> QED BY ONLY <2>2, <2>3, <2>4, Clear(h, F, s, len) DEF Clear
<1> QED BY <1>2, <1>3, <1>4, <1>6

-----------------------------------------------------------------------------
(* What is true of every state of the heap.                                *)
StartFree == DOMAIN StartHdr \ DOMAIN used

HeapIInv ==
  /\ init \in BOOLEAN
  /\ ~init => fmem_head = NULL /\ DOMAIN hdr = {}
  /\ DOMAIN used \subseteq DOMAIN hdr
  /\ Sound(StartHdr, StartHead, StartFree, {})
  /\ \A a \in DOMAIN used : hdr[a].next = NULL /\ used[a] \in Requests
  /\ refused = {} \/ \E n \in Requests : refused = {n}
  /\ pt \in [HeapPages -> {"none", "user", "kernel"}]
  /\ UsedPagesMapped

(* At first, and after the first call has made the heap one block.         *)
LEMMA OneBlock ==
  ASSUME NEW h, h = [a \in {0} |-> [next |-> NULL, prev |-> NULL, size |-> HeapSize - HEADER]]
  PROVE  Sound(h, 0, {0}, {}) /\ DOMAIN h = {0}
<1>1. PICK k \in Nat \ {0} : k = HeapSize - HEADER
  BY Numbers
<1>2. PICK x \in Header : x = [next |-> NULL, prev |-> NULL, size |-> k]
  BY Numbers DEF Header
<1>3. x.next = NULL /\ x.prev = NULL /\ x.size = k
  BY ONLY <1>2
<1>4. DOMAIN h = {0} /\ h[0] = x
  BY <1>1, <1>2
<1>5. Headers(h)
  BY <1>4, Numbers DEF Headers
<1>6. End(h, 0) = HeapSize
  BY <1>1, <1>3, <1>4, Numbers DEF End
<1>7. Tiles(h) /\ ApartBut(h, {0}, {})
  BY <1>4, <1>6, Numbers DEF Tiles, ApartBut
<1>8. Chain(h, 0, {0})
  BY <1>3, <1>4 DEF Chain, IsNext, IsPrev, NULL
<1> QED BY <1>4, <1>5, <1>7, <1>8 DEF Sound

LEMMA HeapInitIs == Init => HeapIInv
<1> SUFFICES ASSUME Init PROVE HeapIInv
  OBVIOUS
<1>1. /\ init = FALSE /\ fmem_head = NULL /\ DOMAIN hdr = {} /\ DOMAIN used = {} /\ refused = {}
      /\ pt = [p \in HeapPages |-> "none"]
  BY DEF Init
<1>2. /\ StartHdr = [a \in {0} |-> [next |-> NULL, prev |-> NULL, size |-> HeapSize - HEADER]]
      /\ StartHead = 0
  BY <1>1 DEF StartHdr, StartHead
<1>3. Sound(StartHdr, StartHead, StartFree, {})
  BY <1>1, <1>2, OneBlock DEF StartFree
<1>4. UsedPagesMapped
  BY <1>1 DEF UsedPagesMapped
<1>5. pt \in [HeapPages -> {"none", "user", "kernel"}]
  BY <1>1
<1> QED BY <1>1, <1>3, <1>4, <1>5 DEF HeapIInv

(* The blocks that are used are blocks of the first header too.            *)
LEMMA HeapFacts ==
  ASSUME HeapIInv
  PROVE  /\ Sound(StartHdr, StartHead, StartFree, {}) /\ UsedUnlinked(StartHdr, StartFree)
         /\ DOMAIN used \subseteq DOMAIN StartHdr
         /\ \A a \in DOMAIN used : StartHdr[a] = hdr[a] /\ used[a] \in Requests
         /\ DOMAIN used # {} => init
<1>1. CASE init
  <2>1. StartHdr = hdr /\ StartHead = fmem_head
    BY <1>1 DEF StartHdr, StartHead
  <2>2. UsedUnlinked(StartHdr, StartFree)
    BY <2>1 DEF HeapIInv, UsedUnlinked, StartFree
  <2> QED BY <1>1, <2>1, <2>2 DEF HeapIInv
<1>2. CASE ~init
  <2>1. DOMAIN used = {} /\ DOMAIN hdr = {}
    BY <1>2 DEF HeapIInv
  <2>2. UsedUnlinked(StartHdr, StartFree)
    BY <2>1 DEF UsedUnlinked, StartFree
  <2> QED BY <2>1, <2>2 DEF HeapIInv
<1> QED BY <1>1, <1>2

-----------------------------------------------------------------------------
(* kmem_alloc: the block that is found is cut or taken as it is.           *)
Granted(g, e, h, c, size) ==
  /\ c \in DOMAIN g /\ g[c].next = NULL
  /\ g[c].size \in size .. size + HEADER
  /\ Sound(g, e, DOMAIN g \ (DOMAIN used \cup {c}), {})
  /\ \A b \in DOMAIN used : b \in DOMAIN g /\ g[b].size = h[b].size /\ g[b].next = h[b].next

LEMMA GrantCut ==
  ASSUME NEW h, NEW head, NEW F, F = DOMAIN h \ DOMAIN used, DOMAIN used \subseteq DOMAIN h,
         Sound(h, head, F, {}), NEW c \in F, NEW size \in Nat \ {0},
         h[c].size - size > HEADER, NEW r, r = c + HEADER + size,
         NEW k, k = CutOff(h, c, size), NEW g, g = Unlinked(k, c),
         NEW e, e = IF h[c].prev # NULL THEN head ELSE r
  PROVE  /\ Granted(g, e, h, c, size) /\ End(k, c) = End(g, c)
         /\ ~(r >= HeapSize) /\ ~(End(k, r) > HeapSize)
<1>1. /\ Sound(g, e, (F \ {c}) \cup {r}, {})
      /\ r \in Addresses /\ r \notin DOMAIN h /\ r # NULL /\ DOMAIN g = DOMAIN h \cup {r}
      /\ g[c].size = size /\ g[c].next = NULL /\ SameSizes(g, k)
      /\ r < HeapSize /\ End(k, r) <= HeapSize
      /\ \A b \in DOMAIN h \ F : g[b].size = h[b].size /\ g[b].next = h[b].next
  <2>1. Cut(g, e, h, k, F, c, size, r)
    BY CutSound
  <2> QED BY ONLY <2>1 DEF Cut
<1>2. c \in DOMAIN g /\ r \in DOMAIN g /\ c \in DOMAIN h
  BY <1>1
<1>3. DOMAIN g \ (DOMAIN used \cup {c}) = (F \ {c}) \cup {r}
  BY <1>1, <1>2
<1>4. g[c].size \in size .. size + HEADER
  BY <1>1, Numbers
<1>5. \A b \in DOMAIN used : b \in DOMAIN g /\ g[b].size = h[b].size /\ g[b].next = h[b].next
  BY <1>1
<1>6. DOMAIN k = DOMAIN g /\ End(k, c) = End(g, c)
  <2>1. DOMAIN k = DOMAIN g
    BY <1>1 DEF SameSizes
  <2> QED BY ONLY <1>1, <1>2, <2>1, TilesSame
<1>7. ~(r >= HeapSize) /\ ~(End(k, r) > HeapSize)
  <2>1. r \in Nat /\ k[r].size \in Nat
    <3>1. g[r].size \in Nat /\ g[r].size = k[r].size
      BY <1>1, <1>2, <1>6, SoundTypes DEF Headers, Header, SameSizes
    <3> QED BY <1>1, <3>1, Numbers
  <2>2. PICK m \in Nat : m = End(k, r)
    BY ONLY <2>1, Numbers DEF End
  <2> QED BY ONLY <1>1, <2>1, <2>2, Numbers
<1>8. Granted(g, e, h, c, size)
  BY ONLY <1>1, <1>2, <1>3, <1>4, <1>5 DEF Granted
<1> QED BY ONLY <1>6, <1>7, <1>8

LEMMA GrantWhole ==
  ASSUME NEW h, NEW head, NEW F, F = DOMAIN h \ DOMAIN used, DOMAIN used \subseteq DOMAIN h,
         Sound(h, head, F, {}), NEW c \in F, NEW size \in Nat \ {0},
         h[c].size >= size, ~(h[c].size - size > HEADER),
         NEW k, k = TakenOut(h, c), NEW g, g = Unlinked(k, c),
         NEW e, e = IF h[c].prev # NULL THEN head ELSE h[c].next
  PROVE  Granted(g, e, h, c, size) /\ End(k, c) = End(g, c)
<1>1. /\ Sound(g, e, F \ {c}, {}) /\ SameSizes(g, h) /\ SameSizes(g, k) /\ g[c].next = NULL
      /\ \A b \in DOMAIN h \ F : g[b].next = h[b].next
  <2>1. Taken(g, e, h, k, F, c)
    BY TakeSound
  <2> QED BY ONLY <2>1 DEF Taken
<1>2. DOMAIN g = DOMAIN h /\ c \in DOMAIN g /\ DOMAIN k = DOMAIN g /\ \A b \in DOMAIN h : g[b].size = h[b].size
  BY <1>1 DEF SameSizes
<1>3. DOMAIN g \ (DOMAIN used \cup {c}) = F \ {c}
  BY <1>2
<1>4. g[c].size \in size .. size + HEADER
  <2>1. h[c].size \in Nat /\ g[c].size = h[c].size
    BY <1>2, SoundTypes DEF Headers, Header
  <2> QED BY <2>1, Numbers
<1>5. \A b \in DOMAIN used : b \in DOMAIN g /\ g[b].size = h[b].size /\ g[b].next = h[b].next
  BY <1>1, <1>2
<1>6. End(k, c) = End(g, c)
  BY ONLY <1>1, <1>2, TilesSame
<1>7. Granted(g, e, h, c, size)
  BY ONLY <1>1, <1>2, <1>3, <1>4, <1>5 DEF Granted
<1> QED BY <1>6, <1>7

LEMMA AllocIs ==
  ASSUME HeapIInv, NEW n \in Requests, kmem_alloc(n),
         NEW size, size = Bytes(blockSize(n)),
         NEW c, c = FirstFit(StartHdr, StartHead, size)
  PROVE  /\ init' = TRUE
         /\ c = NULL =>
              /\ hdr' = StartHdr /\ fmem_head' = StartHead /\ UNCHANGED <<used, pt>>
              /\ refused' = {n}
              /\ \A b \in StartFree : ~(StartHdr[b].size >= size)
         /\ c # NULL =>
              /\ c \in StartFree /\ Granted(hdr', fmem_head', StartHdr, c, size)
              /\ refused' = {} /\ used' = With(used, c, n)
              /\ pt' = PT!MapPages(pt, c \div PAGE .. End(hdr', c) \div PAGE, "user")
<1>1. size \in Nat \ {0}
  BY BytesAre
<1>2. PICK h, head, F : h = StartHdr /\ head = StartHead /\ F = StartFree
  BY Zenon
<1>3. /\ Sound(h, head, F, {}) /\ UsedUnlinked(h, F) /\ DOMAIN used \subseteq DOMAIN h
      /\ F = DOMAIN h \ DOMAIN used
  BY <1>2, HeapFacts DEF StartFree
<1>4. /\ c \in F \cup {NULL} /\ NULL \notin F
      /\ c # NULL => h[c].size >= size
      /\ c = NULL => \A b \in F : ~(h[b].size >= size)
  <2>1. c = FirstFit(h, head, size) /\ size \in Nat
    BY <1>1, <1>2
  <2>2. NULL \notin F
    BY <1>3, SoundTypes
  <2> QED BY ONLY <1>3, <2>1, <2>2, FirstFitIs
<1>5. PICK cut, rest, h1 :
        /\ cut = Cuts(h[c].size - size) /\ rest = c + HEADER + size
        /\ h1 = IF cut THEN CutOff(h, c, size) ELSE TakenOut(h, c)
  BY Zenon
<1>6. /\ init' = TRUE
      /\ refused' = IF c = NULL THEN {n} ELSE {}
      /\ c = NULL => hdr' = h /\ fmem_head' = head /\ UNCHANGED <<used, pt>>
      /\ c # NULL =>
           /\ hdr' = Unlinked(h1, c)
           /\ fmem_head' = IF cut /\ (rest >= HeapSize \/ End(h1, rest) > HeapSize) THEN NULL
                           ELSE IF h[c].prev # NULL THEN head
                           ELSE IF cut THEN rest
                           ELSE h[c].next
           /\ used' = With(used, c, n)
           /\ pt' = PT!MapPages(pt, PagesOf(h1, c), "user")
  BY <1>2, <1>5, Zenon DEF kmem_alloc, Unlinked
<1>7. ASSUME c # NULL, cut PROVE Granted(hdr', fmem_head', h, c, size) /\ End(h1, c) = End(hdr', c)
  <2>1. c \in F /\ h[c].size - size > HEADER /\ h1 = CutOff(h, c, size) /\ hdr' = Unlinked(h1, c)
    BY <1>4, <1>5, <1>6, <1>7 DEF Cuts
  <2>2. PICK g, e : g = Unlinked(h1, c) /\ e = IF h[c].prev # NULL THEN head ELSE rest
    BY Zenon
  <2>3. /\ Granted(g, e, h, c, size) /\ End(h1, c) = End(g, c)
        /\ ~(rest >= HeapSize) /\ ~(End(h1, rest) > HeapSize)
    BY ONLY <1>1, <1>3, <1>5, <2>1, <2>2, GrantCut
  <2>4. fmem_head' = e
    BY ONLY <1>6, <1>7, <2>2, <2>3
  <2> QED BY <2>1, <2>2, <2>3, <2>4
<1>8. ASSUME c # NULL, ~cut PROVE Granted(hdr', fmem_head', h, c, size) /\ End(h1, c) = End(hdr', c)
  <2>1. /\ c \in F /\ ~(h[c].size - size > HEADER) /\ h[c].size >= size
        /\ h1 = TakenOut(h, c) /\ hdr' = Unlinked(h1, c)
    BY <1>4, <1>5, <1>6, <1>8 DEF Cuts
  <2>2. PICK g, e : g = Unlinked(h1, c) /\ e = IF h[c].prev # NULL THEN head ELSE h[c].next
    BY Zenon
  <2>3. Granted(g, e, h, c, size) /\ End(h1, c) = End(g, c)
    BY ONLY <1>1, <1>3, <2>1, <2>2, GrantWhole
  <2>4. fmem_head' = e
    BY ONLY <1>6, <1>8, <2>2
  <2> QED BY <2>1, <2>2, <2>3, <2>4
<1>9. c # NULL => /\ Granted(hdr', fmem_head', h, c, size)
                  /\ pt' = PT!MapPages(pt, c \div PAGE .. End(hdr', c) \div PAGE, "user")
  BY <1>6, <1>7, <1>8 DEF PagesOf
<1> QED BY <1>2, <1>4, <1>6, <1>9

-----------------------------------------------------------------------------
(* The pages of a block, without and with that of the first address        *)
(* behind it.                                                              *)
LEMMA DivGrows ==
  ASSUME NEW a \in Nat, NEW b \in Nat, a <= b
  PROVE  a \div PAGE <= b \div PAGE
<1>1. PAGE \in Nat \ {0}
  BY Numbers
<1>2. PICK q \in Nat, s \in 0 .. PAGE - 1 : q = a \div PAGE /\ a = PAGE * q + s
  BY <1>1, DivMod
<1>3. PICK r \in Nat, t \in 0 .. PAGE - 1 : r = b \div PAGE /\ b = PAGE * r + t
  BY <1>1, DivMod
<1>4. r < q => PAGE * r + PAGE <= PAGE * q
  BY <1>1, TimesGrows
<1>5. PAGE * q \in Nat /\ PAGE * r \in Nat
  BY <1>1
<1> QED BY ONLY <1>1, <1>2, <1>3, <1>4, <1>5, a <= b

Touches(h, b) == b \div PAGE .. (End(h, b) - 1) \div PAGE

LEMMA BlockPages ==
  ASSUME NEW h, Headers(h), Tiles(h), NEW b \in DOMAIN h
  PROVE  Touches(h, b) \subseteq HeapPages /\ Touches(h, b) \subseteq b \div PAGE .. End(h, b) \div PAGE
<1>1. PICK e \in Nat : e = End(h, b) /\ b < e /\ e <= HeapSize /\ b \in Nat
  <2>1. End(h, b) \in Nat /\ b + HEADER < End(h, b) /\ End(h, b) <= HeapSize /\ b \in Nat
    BY Extents
  <2>2. b < End(h, b)
    BY ONLY <2>1, Numbers
  <2> QED BY <2>1, <2>2
<1>2. PAGE \in Nat \ {0} /\ HeapSize \in Nat /\ e - 1 \in Nat
  BY <1>1, Numbers
<1>3. /\ b \div PAGE \in Nat /\ e \div PAGE \in Nat /\ (e - 1) \div PAGE \in Nat
      /\ HeapSize \div PAGE \in Nat
  BY <1>1, <1>2, DivMod
<1>4. (e - 1) \div PAGE <= e \div PAGE /\ e \div PAGE <= HeapSize \div PAGE
  <2>1. e - 1 <= e
    BY <1>1
  <2> QED BY <1>1, <1>2, <2>1, DivGrows
<1> QED BY <1>1, <1>3, <1>4 DEF Touches, HeapPages

(* What the invariant asks of the next state, when the heap is made.       *)
LEMMA HeapNextIs ==
  ASSUME init' = TRUE, (DOMAIN used)' \subseteq DOMAIN (hdr'),
         NEW F, F = DOMAIN (hdr') \ (DOMAIN used)', Sound(hdr', fmem_head', F, {}),
         \A a \in (DOMAIN used)' : hdr'[a].next = NULL /\ used'[a] \in Requests,
         refused' = {} \/ \E n \in Requests : refused' = {n},
         pt' \in [HeapPages -> {"none", "user", "kernel"}],
         \A a \in (DOMAIN used)' : \A p \in Touches(hdr', a) : pt'[p] = "user"
  PROVE  HeapIInv'
<1>1. StartHdr' = hdr' /\ StartHead' = fmem_head'
  BY DEF StartHdr, StartHead
<1>2. StartFree' = F
  BY <1>1 DEF StartFree
<1>3. UsedPagesMapped'
  BY DEF UsedPagesMapped, Touches, End
<1>4. Sound(StartHdr, StartHead, StartFree, {})'
  BY <1>1, <1>2 DEF Sound, Headers, Tiles, Chain, ApartBut, IsNext, IsPrev, End
<1> QED BY <1>1, <1>2, <1>3, <1>4 DEF HeapIInv

(* The types that the invariant gives, in the words of the lemmas.         *)
LEMMA HeapTypes ==
  ASSUME HeapIInv
  PROVE  /\ pt \in [HeapPages -> {"none", "user", "kernel"}]
         /\ Headers(StartHdr) /\ Tiles(StartHdr)
         /\ \A a \in DOMAIN used :
              /\ a \in DOMAIN StartHdr /\ Touches(StartHdr, a) \subseteq HeapPages
              /\ End(StartHdr, a) = End(hdr, a)
              /\ \A p \in Touches(StartHdr, a) : pt[p] = "user"
<1>1. Headers(StartHdr) /\ Tiles(StartHdr)
  BY HeapFacts DEF Sound
<1>2. ASSUME NEW a \in DOMAIN used
      PROVE  /\ a \in DOMAIN StartHdr /\ Touches(StartHdr, a) \subseteq HeapPages
             /\ End(StartHdr, a) = End(hdr, a)
             /\ \A p \in Touches(StartHdr, a) : pt[p] = "user"
  <2>1. a \in DOMAIN StartHdr /\ StartHdr[a] = hdr[a]
    BY HeapFacts
  <2>2. End(StartHdr, a) = End(hdr, a)
    BY ONLY <2>1 DEF End
  <2>3. Touches(StartHdr, a) \subseteq HeapPages
    BY ONLY <1>1, <2>1, BlockPages
  <2>4. \A p \in a \div PAGE .. (End(hdr, a) - 1) \div PAGE : pt[p] = "user"
    BY DEF HeapIInv, UsedPagesMapped
  <2> QED BY ONLY <2>1, <2>2, <2>3, <2>4 DEF Touches
<1> QED BY ONLY <1>1, <1>2, HeapIInv DEF HeapIInv

LEMMA AllocKeeps ==
  ASSUME HeapIInv, NEW n \in Requests, kmem_alloc(n)
  PROVE  HeapIInv'
<1>1. PICK size : size = Bytes(blockSize(n))
  BY Zenon
<1>2. PICK c : c = FirstFit(StartHdr, StartHead, size)
  BY Zenon
<1>3. /\ init' = TRUE
      /\ c = NULL =>
           /\ hdr' = StartHdr /\ fmem_head' = StartHead /\ UNCHANGED <<used, pt>>
           /\ refused' = {n}
      /\ c # NULL =>
           /\ c \in StartFree /\ Granted(hdr', fmem_head', StartHdr, c, size)
           /\ refused' = {} /\ used' = With(used, c, n)
           /\ pt' = PT!MapPages(pt, c \div PAGE .. End(hdr', c) \div PAGE, "user")
  BY <1>1, <1>2, AllocIs
<1>4. /\ Sound(StartHdr, StartHead, StartFree, {}) /\ UsedUnlinked(StartHdr, StartFree)
      /\ DOMAIN used \subseteq DOMAIN StartHdr
      /\ \A a \in DOMAIN used : used[a] \in Requests
  BY HeapFacts
<1>5. /\ pt \in [HeapPages -> {"none", "user", "kernel"}]
      /\ \A a \in DOMAIN used : Touches(StartHdr, a) \subseteq HeapPages
      /\ \A a \in DOMAIN used : \A p \in Touches(StartHdr, a) : pt[p] = "user"
  BY HeapTypes
<1>6. CASE c = NULL
  <2>1. /\ hdr' = StartHdr /\ fmem_head' = StartHead /\ used' = used /\ pt' = pt /\ refused' = {n}
        /\ (DOMAIN used)' = DOMAIN used
    BY <1>3, <1>6
  <2>2. StartFree = DOMAIN (hdr') \ (DOMAIN used)' /\ Sound(hdr', fmem_head', StartFree, {})
    BY <1>4, <2>1 DEF StartFree
  <2>3. \A a \in (DOMAIN used)' : hdr'[a].next = NULL /\ used'[a] \in Requests
    BY <1>4, <2>1 DEF UsedUnlinked, StartFree
  <2>4. \A a \in (DOMAIN used)' : \A p \in Touches(hdr', a) : pt'[p] = "user"
    BY ONLY <1>5, <2>1
  <2>5. (DOMAIN used)' \subseteq DOMAIN (hdr')
    BY <1>4, <2>1
  <2> QED BY ONLY <1>3, <1>5, <2>1, <2>2, <2>3, <2>4, <2>5, n \in Requests, HeapNextIs
<1>7. CASE c # NULL
  <2>1. /\ c \in StartFree /\ Granted(hdr', fmem_head', StartHdr, c, size)
        /\ refused' = {} /\ used' = With(used, c, n)
        /\ pt' = PT!MapPages(pt, c \div PAGE .. End(hdr', c) \div PAGE, "user")
    BY <1>3, <1>7
  <2>2. (DOMAIN used)' = DOMAIN used \cup {c} /\ used'[c] = n /\ \A a \in DOMAIN used : a # c => used'[a] = used[a]
    BY ONLY <2>1 DEF With
  <2>3. c \notin DOMAIN used
    BY <2>1 DEF StartFree
  <2>4. PICK F : F = DOMAIN (hdr') \ (DOMAIN used)'
    BY Zenon
  <2>5. /\ c \in DOMAIN (hdr') /\ hdr'[c].next = NULL
        /\ Sound(hdr', fmem_head', F, {})
        /\ \A b \in DOMAIN used : /\ b \in DOMAIN (hdr') /\ hdr'[b].size = StartHdr[b].size
                                  /\ hdr'[b].next = StartHdr[b].next
    BY ONLY <2>1, <2>2, <2>4 DEF Granted
  <2>6. \A a \in (DOMAIN used)' : hdr'[a].next = NULL /\ used'[a] \in Requests
    BY <1>4, <2>2, <2>3, <2>5 DEF UsedUnlinked, StartFree
  <2>7. (DOMAIN used)' \subseteq DOMAIN (hdr')
    BY ONLY <2>2, <2>5
  <2>8. /\ pt' \in [HeapPages -> {"none", "user", "kernel"}]
        /\ \A p \in HeapPages : pt'[p] = IF p \in c \div PAGE .. End(hdr', c) \div PAGE THEN "user" ELSE pt[p]
    <3>1. PICK S : S = c \div PAGE .. End(hdr', c) \div PAGE
      BY Zenon
    <3>2. pt' = PT!MapPages(pt, S, "user")
      BY <2>1, <3>1
    <3>3. pt' = [p \in HeapPages |-> IF p \in S THEN "user" ELSE pt[p]]
      BY ONLY <1>5, <3>2 DEF PT!MapPages
    <3>4. /\ pt' \in [HeapPages -> {"none", "user", "kernel"}]
          /\ \A p \in HeapPages : pt'[p] = IF p \in S THEN "user" ELSE pt[p]
      BY ONLY <1>5, <3>3
    <3> QED BY ONLY <3>1, <3>4
  <2>9. ASSUME NEW a \in (DOMAIN used)' PROVE \A p \in Touches(hdr', a) : pt'[p] = "user"
    <3>1. CASE a = c
      <4>1. Headers(hdr') /\ Tiles(hdr')
        BY ONLY <2>5 DEF Sound
      <4>2. /\ Touches(hdr', c) \subseteq HeapPages
            /\ Touches(hdr', c) \subseteq c \div PAGE .. End(hdr', c) \div PAGE
        BY ONLY <2>5, <4>1, BlockPages
      <4> QED BY <2>8, <3>1, <4>2
    <3>2. CASE a # c
      <4>1. a \in DOMAIN used /\ hdr'[a].size = StartHdr[a].size
        BY <2>2, <2>5, <3>2
      <4>2. Touches(hdr', a) = Touches(StartHdr, a)
        BY ONLY <4>1 DEF Touches, End
      <4> QED BY ONLY <1>5, <2>8, <4>1, <4>2
    <3> QED BY <3>1, <3>2
  <2> QED BY ONLY <1>3, <2>1, <2>4, <2>5, <2>6, <2>7, <2>8, <2>9, HeapNextIs
<1> QED BY <1>6, <1>7

-----------------------------------------------------------------------------
(* kmem_free.  No page that lies wholly in a free block is touched by a    *)
(* block in use.                                                           *)
LEMMA WholeApart ==
  ASSUME NEW h, NEW head, NEW F, NEW X, Sound(h, head, F, X), NEW x \in F, NEW b \in DOMAIN h \ F,
         NEW p \in WholePages(h, x)
  PROVE  p \notin Touches(h, b)
<1>1. /\ Headers(h) /\ Tiles(h) /\ x \in DOMAIN h /\ b \in DOMAIN h /\ x # b
      /\ (b <= x \/ End(h, x) <= b) /\ (x <= b \/ End(h, b) <= x)
  BY DEF Sound, Tiles
<1>2. PICK e \in Nat, y \in Nat : e = End(h, b) /\ y = End(h, x) /\ b < e /\ x \in Nat /\ b \in Nat
  <2>1. /\ End(h, b) \in Nat /\ b + HEADER < End(h, b) /\ End(h, x) \in Nat
        /\ b \in Nat /\ x \in Nat
    BY <1>1, Extents
  <2>2. b < End(h, b)
    BY ONLY <2>1, Numbers
  <2> QED BY <2>1, <2>2
<1>3. p \in Nat /\ p * PAGE >= x /\ (p + 1) * PAGE <= y
  <2>1. HeapSize \div PAGE \in Nat
    BY Numbers, DivMod
  <2> QED BY <1>2, <2>1 DEF WholePages, HeapPages
<1>4. y <= b \/ e <= x
  BY ONLY <1>1, <1>2
<1>5. p \notin b \div PAGE .. (e - 1) \div PAGE
  BY ONLY <1>2, <1>3, <1>4, PagesApart
<1> QED BY <1>2, <1>5 DEF Touches

(* The blocks of U are those in use, with the sizes that they had in k.    *)
Keeps(h, k, F, U) ==
  /\ U = DOMAIN h \ F
  /\ \A b \in U : h[b].size = k[b].size /\ h[b].next = k[b].next

LEMMA WholeTouches ==
  ASSUME NEW h, NEW head, NEW F, NEW X, Sound(h, head, F, X), NEW k, NEW U, Keeps(h, k, F, U),
         NEW x \in F, NEW b \in U, NEW p \in WholePages(h, x)
  PROVE  p \notin Touches(k, b)
<1>1. b \in DOMAIN h \ F /\ h[b].size = k[b].size /\ x \in F
  BY DEF Keeps
<1>2. Touches(h, b) = Touches(k, b)
  BY ONLY <1>1 DEF Touches, End
<1>3. p \notin Touches(h, b)
  BY ONLY <1>1, WholeApart, Sound(h, head, F, X), p \in WholePages(h, x)
<1> QED BY <1>2, <1>3

LEMMA FreeIs ==
  ASSUME HeapIInv, NEW a \in DOMAIN used, kmem_free(a), NEW U, U = DOMAIN used \ {a}
  PROVE  /\ init' = TRUE /\ refused' = {} /\ used' = [b \in U |-> used[b]]
         /\ \E F : Sound(hdr', fmem_head', F, {}) /\ Keeps(hdr', hdr, F, U)
         /\ \E S : /\ pt' = PT!MapPages(pt, S, "none")
                   /\ \A b \in U : \A p \in S : p \notin Touches(hdr, b)
<1>1. PICK F : F = DOMAIN hdr \ DOMAIN used
  BY Zenon
<1>2. /\ init /\ init' = init /\ init \in BOOLEAN
      /\ Sound(hdr, fmem_head, F, {}) /\ UsedUnlinked(hdr, F) /\ DOMAIN used \subseteq DOMAIN hdr
  <2>1. init /\ init \in BOOLEAN
    BY HeapFacts DEF HeapIInv
  <2>2. StartHdr = hdr /\ StartHead = fmem_head /\ StartFree = F
    BY <1>1, <2>1 DEF StartHdr, StartHead, StartFree
  <2> QED BY <2>1, <2>2, HeapFacts DEF kmem_free
<1>3. PICK c : c = Predecessor(hdr, a + HEADER)
  BY Zenon
<1>4. PICK n : n = IF c = NULL THEN fmem_head ELSE hdr[c].next
  BY Zenon
<1>5. PICK h1 : h1 = SetNext(SetPrev(Linked(hdr, a, c, n), n, a), c, a)
  BY Zenon
<1>6. PICK h2, h3 : h2 = tryToJoin(h1, a) /\ h3 = tryToJoin(h2, c)
  BY Zenon
<1>7. PICK e : e = IF c = NULL THEN a ELSE fmem_head
  BY Zenon
<1>8. PICK W : W = IF Joins(h2, c) THEN WholePages(h3, c) ELSE {}
  BY Zenon
<1>9. /\ hdr' = h3 /\ fmem_head' = e /\ used' = [b \in U |-> used[b]] /\ refused' = {}
      /\ pt' = PT!UnmapPages(pt, WholePages(h1, a) \cup WholePages(h2, a) \cup W)
  BY ONLY <1>3, <1>4, <1>5, <1>6, <1>7, <1>8, kmem_free(a), U = DOMAIN used \ {a}, Zenon
     DEF kmem_free, Linked
<1>10. a \in DOMAIN hdr \ F /\ a \notin F /\ a \in Nat /\ NULL \notin F /\ F \in SUBSET Nat
  <2>1. a \in DOMAIN hdr \ F
    BY <1>1, <1>2
  <2> QED BY <1>2, <2>1, SoundTypes
<1>11. IsPrev(F, a, c) /\ IsNext(F, a, n)
  BY ONLY <1>2, <1>3, <1>4, <1>10, PlaceIs
<1>12. PICK F1, X : F1 = F \cup {a} /\ X = {a, c}
  BY Zenon
<1>13. /\ Sound(h1, e, F1, X) /\ SameSizes(h1, hdr) /\ c \in F \cup {NULL} /\ (c # NULL => c < a)
       /\ \A b \in DOMAIN hdr \ F1 : h1[b].next = hdr[b].next
  <2>1. Inserted(h1, e, hdr, F, a, c, n)
    BY ONLY <1>2, <1>5, <1>7, <1>10, <1>11, InsertSound
  <2> QED BY ONLY <1>12, <2>1 DEF Inserted
<1>14. Keeps(h1, hdr, F1, U)
  <2>1. U = DOMAIN hdr \ F1 /\ DOMAIN h1 = DOMAIN hdr
    BY <1>1, <1>2, <1>12, <1>13 DEF SameSizes
  <2> QED BY ONLY <1>13, <2>1 DEF Keeps, SameSizes
<1>15. /\ X \subseteq Int /\ (\A x \in X : x <= a) /\ a # c /\ X \ {a} = {c} /\ c \in Int
       /\ a \in F1 /\ a \in F1 \cup {NULL}
  BY <1>10, <1>12, <1>13, Numbers
<1>16. PICK F2 : F2 = F1 \cap DOMAIN h2
  BY Zenon
<1>17. /\ Sound(h2, e, F2, {c})
       /\ DOMAIN h1 \ F1 \subseteq DOMAIN h2 /\ DOMAIN h2 \subseteq DOMAIN h1
       /\ \A b \in DOMAIN h1 \ F1 : h2[b].size = h1[b].size /\ h2[b].next = h1[b].next
       /\ \A d \in DOMAIN h1 \ DOMAIN h2 : a < d /\ a # NULL
  <2>1. Joined(h2, e, h1, F1, X, a)
    BY ONLY <1>6, <1>13, <1>15, JoinSound
  <2> QED BY ONLY <1>15, <1>16, <2>1 DEF Joined
<1>18. Keeps(h2, hdr, F2, U)
  <2>1. U = DOMAIN h1 \ F1 /\ U = DOMAIN h2 \ F2
    BY <1>14, <1>16, <1>17 DEF Keeps
  <2> QED BY ONLY <1>14, <1>17, <2>1 DEF Keeps
<1>19. a \in F2 /\ c \in F2 \cup {NULL}
  <2>1. F1 \subseteq DOMAIN h1
    BY <1>13 DEF Sound
  <2>2. a \in DOMAIN h2
    BY <1>10, <1>15, <1>17, <2>1
  <2>3. c # NULL => c \in F1 /\ c \in DOMAIN h2
    <3>1. SUFFICES ASSUME c # NULL PROVE c \in F1 /\ c \in DOMAIN h2
      OBVIOUS
    <3>2. c \in F1 /\ c \in DOMAIN h1 /\ c < a
      BY <1>12, <1>13, <2>1, <3>1
    <3> QED BY ONLY <1>10, <1>15, <1>17, <3>2
  <2> QED BY <1>15, <1>16, <2>2, <2>3
<1>20. PICK F3 : F3 = F2 \cap DOMAIN h3
  BY Zenon
<1>21. /\ Sound(h3, e, F3, {})
       /\ DOMAIN h2 \ F2 \subseteq DOMAIN h3 /\ DOMAIN h3 \subseteq DOMAIN h2
       /\ \A b \in DOMAIN h2 \ F2 : h3[b].size = h2[b].size /\ h3[b].next = h2[b].next
       /\ \A d \in DOMAIN h2 \ DOMAIN h3 : c < d /\ c # NULL
  <2>1. PICK Y : Y = {c} /\ Y \ {c} = {}
    OBVIOUS
  <2>2. (c # NULL => \A x \in Y : x <= c) /\ Y \subseteq Int
    BY <1>15, <2>1
  <2>3. Sound(h2, e, F2, Y)
    BY <1>17, <2>1
  <2>4. Joined(h3, e, h2, F2, Y, c)
    BY ONLY <1>6, <1>19, <2>2, <2>3, JoinSound
  <2> QED BY ONLY <1>20, <2>1, <2>4 DEF Joined
<1>22. Keeps(h3, hdr, F3, U)
  <2>1. U = DOMAIN h2 \ F2 /\ U = DOMAIN h3 \ F3
    BY <1>18, <1>20, <1>21 DEF Keeps
  <2> QED BY ONLY <1>18, <1>21, <2>1 DEF Keeps
<1>23. ASSUME NEW b \in U, NEW p \in WholePages(h1, a) \cup WholePages(h2, a) \cup W
       PROVE  p \notin Touches(hdr, b)
  <2>1. CASE p \in WholePages(h1, a)
    BY ONLY <1>13, <1>14, <1>15, <2>1, b \in U, WholeTouches
  <2>2. CASE p \in WholePages(h2, a)
    BY ONLY <1>17, <1>18, <1>19, <2>2, b \in U, WholeTouches
  <2>3. CASE p \in W
    <3>1. Joins(h2, c) /\ p \in WholePages(h3, c)
      BY <1>8, <2>3
    <3>2. c \in F2 /\ c \in DOMAIN h2
      BY <1>19, <3>1, <1>17 DEF Joins, Sound
    <3>3. c \in F3
      BY <1>15, <1>20, <1>21, <3>2
    <3> QED BY ONLY <1>21, <1>22, <3>1, <3>3, b \in U, WholeTouches
  <2> QED BY <1>23, <2>1, <2>2, <2>3
<1>24. PICK S : S = WholePages(h1, a) \cup WholePages(h2, a) \cup W
  BY Zenon
<1>25. pt' = PT!MapPages(pt, S, "none") /\ \A b \in U : \A p \in S : p \notin Touches(hdr, b)
  BY ONLY <1>9, <1>23, <1>24 DEF PT!UnmapPages
<1>26. Sound(hdr', fmem_head', F3, {}) /\ Keeps(hdr', hdr, F3, U)
  BY ONLY <1>9, <1>21, <1>22
<1> QED BY <1>2, <1>9, <1>25, <1>26

LEMMA FreeKeeps ==
  ASSUME HeapIInv, NEW a \in DOMAIN used, kmem_free(a)
  PROVE  HeapIInv'
<1>1. PICK U : U = DOMAIN used \ {a}
  BY Zenon
<1>2. /\ init' = TRUE /\ refused' = {} /\ used' = [b \in U |-> used[b]]
      /\ \E F : Sound(hdr', fmem_head', F, {}) /\ Keeps(hdr', hdr, F, U)
      /\ \E S : /\ pt' = PT!MapPages(pt, S, "none")
                /\ \A b \in U : \A p \in S : p \notin Touches(hdr, b)
  BY ONLY <1>1, HeapIInv, a \in DOMAIN used, kmem_free(a), FreeIs
<1>3. PICK F : Sound(hdr', fmem_head', F, {}) /\ Keeps(hdr', hdr, F, U)
  BY <1>2
<1>4. PICK S : /\ pt' = PT!MapPages(pt, S, "none")
               /\ \A b \in U : \A p \in S : p \notin Touches(hdr, b)
  BY <1>2
<1>5. (DOMAIN used)' = U /\ \A b \in U : used'[b] = used[b]
  BY ONLY <1>2
<1>6. /\ U \subseteq DOMAIN (hdr') /\ F = DOMAIN (hdr') \ U
      /\ \A b \in U : hdr'[b].size = hdr[b].size /\ hdr'[b].next = hdr[b].next
  <2>1. F \subseteq DOMAIN (hdr') /\ U = DOMAIN (hdr') \ F
    BY ONLY <1>3 DEF Keeps, Sound
  <2> QED BY ONLY <1>3, <2>1 DEF Keeps
<1>7. \A b \in U : hdr'[b].next = NULL /\ used'[b] \in Requests
  BY <1>1, <1>5, <1>6 DEF HeapIInv
<1>8. /\ pt \in [HeapPages -> {"none", "user", "kernel"}]
      /\ \A b \in U : Touches(hdr, b) \subseteq HeapPages /\ \A p \in Touches(hdr, b) : pt[p] = "user"
  <2>1. ASSUME NEW b \in U PROVE Touches(hdr, b) = Touches(StartHdr, b)
    <3>1. End(StartHdr, b) = End(hdr, b)
      BY <1>1, HeapTypes
    <3> QED BY ONLY <3>1 DEF Touches
  <2> QED BY <1>1, <2>1, HeapTypes
<1>9. /\ pt' \in [HeapPages -> {"none", "user", "kernel"}]
      /\ \A p \in HeapPages : pt'[p] = IF p \in S THEN "none" ELSE pt[p]
  <2>1. pt' = [p \in HeapPages |-> IF p \in S THEN "none" ELSE pt[p]]
    BY ONLY <1>4, <1>8 DEF PT!MapPages
  <2> QED BY ONLY <1>8, <2>1
<1>10. ASSUME NEW b \in U PROVE \A p \in Touches(hdr', b) : pt'[p] = "user"
  <2>1. Touches(hdr', b) = Touches(hdr, b)
    BY ONLY <1>6, b \in U DEF Touches, End
  <2> QED BY ONLY <1>4, <1>8, <1>9, <2>1, b \in U
<1> QED BY ONLY <1>2, <1>3, <1>5, <1>6, <1>7, <1>9, <1>10, HeapNextIs

(* headerFault: the pages of blocks in use are mapped already.             *)
LEMMA FaultKeeps ==
  ASSUME HeapIInv, NEW q \in HeapPages, headerFault(q)
  PROVE  HeapIInv'
<1>1. /\ pt[q] = "none" /\ pt' = PT!MapPages(pt, {q}, "kernel")
      /\ UNCHANGED <<init, fmem_head, hdr, used, refused>>
  BY DEF headerFault
<1>2. pt \in [HeapPages -> {"none", "user", "kernel"}]
  BY HeapTypes
<1>3. pt' = [p \in HeapPages |-> IF p = q THEN "kernel" ELSE pt[p]]
  BY ONLY <1>1, <1>2 DEF PT!MapPages
<1>4. pt' \in [HeapPages -> {"none", "user", "kernel"}]
  BY ONLY <1>2, <1>3
<1>5. ASSUME NEW a \in DOMAIN used, NEW p \in Touches(hdr, a) PROVE pt'[p] = "user"
  <2>1. Touches(hdr, a) = Touches(StartHdr, a)
    <3>1. End(StartHdr, a) = End(hdr, a)
      BY HeapTypes
    <3> QED BY ONLY <3>1 DEF Touches
  <2>2. p \in HeapPages /\ pt[p] = "user"
    BY <2>1, HeapTypes
  <2> QED BY ONLY <1>1, <1>3, <2>2
<1>6. UsedPagesMapped'
  BY ONLY <1>1, <1>5 DEF UsedPagesMapped, Touches, End
<1>7. StartHdr' = StartHdr /\ StartHead' = StartHead /\ StartFree' = StartFree
  BY ONLY <1>1 DEF StartHdr, StartHead, StartFree
<1>8. Sound(StartHdr, StartHead, StartFree, {})'
  BY <1>7, HeapFacts DEF Sound, Headers, Tiles, Chain, ApartBut, IsNext, IsPrev, End
<1> QED BY ONLY <1>1, <1>4, <1>6, <1>8, HeapIInv DEF HeapIInv

LEMMA HeapNextKeeps == HeapIInv /\ [Next]_vars => HeapIInv'
<1> SUFFICES ASSUME HeapIInv, [Next]_vars PROVE HeapIInv'
  OBVIOUS
<1>1. CASE \E n \in Requests : kmem_alloc(n)
  BY <1>1, AllocKeeps
<1>2. CASE \E a \in DOMAIN used : kmem_free(a)
  BY <1>2, FreeKeeps
<1>3. CASE \E p \in HeapPages : headerFault(p)
  BY <1>3, FaultKeeps
<1>4. CASE UNCHANGED vars
  <2>1. StartHdr' = StartHdr /\ StartHead' = StartHead /\ StartFree' = StartFree
    BY ONLY <1>4 DEF vars, StartHdr, StartHead, StartFree
  <2>2. Sound(StartHdr, StartHead, StartFree, {})'
    BY <2>1, HeapFacts DEF Sound, Headers, Tiles, Chain, ApartBut, IsNext, IsPrev, End
  <2>3. UsedPagesMapped'
    BY ONLY <1>4, HeapIInv DEF HeapIInv, vars, UsedPagesMapped, End
  <2> QED BY ONLY <1>4, <2>2, <2>3, HeapIInv DEF HeapIInv, vars
<1> QED BY <1>1, <1>2, <1>3, <1>4 DEF Next

(* The invariant of mem_alloc, mem_free and the faults on headers.         *)
THEOREM HeapInvariant == Spec => []HeapIInv
<1>1. Init => HeapIInv
  BY HeapInitIs
<1>2. HeapIInv /\ [Next]_vars => HeapIInv'
  BY HeapNextKeeps
<1> QED BY <1>1, <1>2, PTL DEF Spec

(* Every page that a block in use touches is mapped for its user.          *)
THEOREM UsedPagesMappedHolds == Spec => []UsedPagesMapped
<1>1. HeapIInv => UsedPagesMapped
  BY DEF HeapIInv
<1> QED BY <1>1, HeapInvariant, PTL

-----------------------------------------------------------------------------
(* The neighbour of an address is the least one above it, and the greatest *)
(* one below it.                                                           *)
LEMMA NextIsLeast ==
  ASSUME NEW F \in SUBSET Nat, NEW a \in Nat \cup {NULL}, NEW x, IsNext(F, a, x)
  PROVE  x = LeastOf({b \in F : b > a})
<1>1. PICK S : S = {b \in F : b > a}
  BY Zenon
<1>2. S \in SUBSET Nat /\ F \in SUBSET Int /\ a \in Int
  <2>1. S \subseteq F
    BY ONLY <1>1
  <2>2. a \in Int
    BY ONLY a \in Nat \cup {NULL} DEF NULL
  <2> QED BY ONLY <2>1, <2>2, F \in SUBSET Nat
<1>3. PICK y : y = LeastOf(S)
  BY Zenon
<1>4. /\ S = {} => y = NULL
      /\ S # {} => y \in S /\ \A b \in S : y <= b
  BY ONLY <1>2, <1>3, LeastIs
<1>5. IsNext(F, a, y)
  <2>1. CASE S = {}
    <3>1. \A b \in F : b <= a
      BY ONLY <1>1, <1>2, <2>1
    <3> QED BY ONLY <1>4, <2>1, <3>1 DEF IsNext
  <2>2. CASE S # {}
    <3>1. y \in F /\ a < y /\ y \in Int
      BY ONLY <1>1, <1>2, <1>4, <2>2
    <3>2. \A b \in F : b <= a \/ y <= b
      BY ONLY <1>1, <1>2, <1>4, <2>2
    <3> QED BY ONLY <3>1, <3>2 DEF IsNext
  <2> QED BY <2>1, <2>2
<1>6. x = y
  BY ONLY <1>5, F \in SUBSET Nat, a \in Nat \cup {NULL}, IsNext(F, a, x), NextUnique
<1> QED BY <1>1, <1>3, <1>6

LEMMA PrevIsGreatest ==
  ASSUME NEW F \in SUBSET Addresses, NEW a \in Nat, NEW x, IsPrev(F, a, x)
  PROVE  x = GreatestOf({b \in F : b < a})
<1>1. PICK S : S = {b \in F : b < a}
  BY Zenon
<1>2. S \in SUBSET Addresses /\ F \in SUBSET Int /\ F \in SUBSET Nat
  <2>1. S \subseteq F
    BY ONLY <1>1
  <2>2. F \subseteq Nat
    BY ONLY F \in SUBSET Addresses, Numbers
  <2> QED BY ONLY <2>1, <2>2, F \in SUBSET Addresses
<1>3. PICK y : y = GreatestOf(S)
  BY Zenon
<1>4. /\ S = {} => y = NULL
      /\ S # {} => y \in S /\ \A b \in S : b <= y
  BY ONLY <1>2, <1>3, GreatestIs
<1>5. IsPrev(F, a, y)
  <2>1. CASE S = {}
    <3>1. \A b \in F : a <= b
      BY ONLY <1>1, <1>2, <2>1, a \in Nat
    <3> QED BY ONLY <1>4, <2>1, <3>1 DEF IsPrev
  <2>2. CASE S # {}
    <3>1. y \in F /\ y < a /\ y \in Int
      BY ONLY <1>1, <1>2, <1>4, <2>2
    <3>2. \A b \in F : b <= y \/ a <= b
      BY ONLY <1>1, <1>2, <1>4, <2>2, a \in Nat
    <3> QED BY ONLY <3>1, <3>2 DEF IsPrev
  <2> QED BY <2>1, <2>2
<1>6. x = y
  BY ONLY <1>2, <1>5, a \in Nat, IsPrev(F, a, x), PrevUnique
<1> QED BY <1>1, <1>3, <1>6

LEMMA ListExact == HeapIInv => FreeListExact
<1> SUFFICES ASSUME HeapIInv PROVE FreeListExact
  OBVIOUS
<1>1. PICK F : F = DOMAIN hdr \ DOMAIN used
  BY Zenon
<1>2. CASE ~init
  <2>1. fmem_head = NULL /\ FreeBlocks = {}
    BY <1>2 DEF HeapIInv, FreeBlocks
  <2> QED BY ONLY <2>1 DEF FreeListExact, LeastOf
<1>3. CASE init
  <2>1. Sound(hdr, fmem_head, F, {})
    BY ONLY <1>1, <1>3, HeapIInv DEF HeapIInv, StartHdr, StartHead, StartFree
  <2>2. /\ F \in SUBSET Nat /\ F \subseteq DOMAIN hdr /\ Chain(hdr, fmem_head, F) /\ NULL \notin F
        /\ F \in SUBSET Addresses /\ Headers(hdr) /\ Tiles(hdr)
    BY <2>1, SoundTypes
  <2>3. fmem_head = LeastOf(F)
    <3>1. F = {b \in F : b > NULL}
      <4>1. \A b \in F : b > NULL
        BY ONLY <2>2 DEF NULL
      <4> QED BY ONLY <4>1
    <3>2. fmem_head = LeastOf({b \in F : b > NULL})
      <4>1. IsNext(F, NULL, fmem_head)
        BY <2>2 DEF Chain
      <4> QED BY <2>2, <4>1, NextIsLeast
    <3> QED BY ONLY <3>1, <3>2
  <2>4. ASSUME NEW a \in F
        PROVE  /\ hdr[a].next = LeastOf({b \in F : b > a})
               /\ hdr[a].prev = GreatestOf({b \in F : b < a})
               /\ End(hdr, a) # hdr[a].next
    <3>1. IsNext(F, a, hdr[a].next) /\ IsPrev(F, a, hdr[a].prev) /\ a \in Nat
      BY <2>2 DEF Chain
    <3>2. hdr[a].next = LeastOf({b \in F : b > a})
      BY <2>2, <3>1, NextIsLeast
    <3>3. hdr[a].prev = GreatestOf({b \in F : b < a})
      BY <2>2, <3>1, PrevIsGreatest
    <3>4. End(hdr, a) # hdr[a].next
      <4>1. End(hdr, a) \notin F
        BY <2>1 DEF Sound, ApartBut
      <4>2. hdr[a].next \in F \cup {NULL}
        BY <2>1, SoundTypes
      <4>3. End(hdr, a) \in Nat
        BY <2>2, Extents
      <4> QED BY ONLY <4>1, <4>2, <4>3 DEF NULL
    <3> QED BY ONLY <3>2, <3>3, <3>4
  <2> QED BY ONLY <1>1, <2>3, <2>4 DEF FreeListExact, FreeBlocks
<1> QED BY <1>2, <1>3, HeapIInv DEF HeapIInv

LEMMA HeapTypeIs == HeapIInv => TypeOK /\ HeapTiled
<1> SUFFICES ASSUME HeapIInv PROVE TypeOK /\ HeapTiled
  OBVIOUS
<1>1. CASE ~init
  <2>1. fmem_head = NULL /\ DOMAIN hdr = {} /\ DOMAIN used = {}
    BY <1>1 DEF HeapIInv
  <2> QED BY ONLY <1>1, <2>1, HeapIInv DEF HeapIInv, TypeOK, HeapTiled
<1>2. CASE init
  <2>1. Sound(hdr, fmem_head, StartFree, {})
    BY ONLY <1>2, HeapIInv DEF HeapIInv, StartHdr, StartHead
  <2>2. /\ Headers(hdr) /\ Tiles(hdr) /\ DOMAIN hdr \subseteq Addresses
        /\ fmem_head \in Addresses \cup {NULL}
    BY <2>1, SoundTypes
  <2>3. ASSUME NEW a \in DOMAIN hdr
        PROVE  /\ hdr[a] \in [next : Addresses \cup {NULL}, prev : Addresses \cup {NULL}, size : Nat]
               /\ End(hdr, a) <= HeapSize /\ End(hdr, a) \in DOMAIN hdr \cup {HeapSize}
               /\ ~ \E b \in DOMAIN hdr : a < b /\ b < End(hdr, a)
    <3>1. hdr[a] \in Header
      BY <2>2 DEF Headers
    <3>2. hdr[a] \in [next : Addresses \cup {NULL}, prev : Addresses \cup {NULL}, size : Nat]
      BY ONLY <3>1 DEF Header
    <3>3. a \in Nat /\ End(hdr, a) \in Nat /\ End(hdr, a) <= HeapSize
          /\ End(hdr, a) \in DOMAIN hdr \cup {HeapSize}
      BY <2>2, Extents
    <3>4. ASSUME NEW b \in DOMAIN hdr, a < b, b < End(hdr, a) PROVE FALSE
      <4>1. b \in Nat /\ (b <= a \/ End(hdr, a) <= b)
        BY <2>2, Numbers DEF Tiles
      <4> QED BY ONLY <3>3, <3>4, <4>1
    <3> QED BY ONLY <3>2, <3>3, <3>4
  <2>4. HeapTiled
    BY ONLY <2>2, <2>3 DEF HeapTiled, Tiles
  <2>5. TypeOK
    BY ONLY <2>2, <2>3, HeapIInv DEF HeapIInv, TypeOK
  <2> QED BY <2>4, <2>5
<1> QED BY <1>1, <1>2, HeapIInv DEF HeapIInv

(* The blocks cover the heap, and the list holds exactly the free ones, in *)
(* order, no two of them touching, whatever was asked for and freed.       *)
THEOREM HeapConsistentHolds == Spec => []HeapConsistent
<1>1. HeapIInv => HeapConsistent
  BY ListExact, HeapTypeIs DEF HeapConsistent
<1> QED BY <1>1, HeapInvariant, PTL

-----------------------------------------------------------------------------
(* The refinement of Heap: the blocks that a user sees, as the instance    *)
(* of Heap has them.                                                       *)
BlocksOf(h, u) == {[start |-> a, len |-> HEADER + h[a].size, asked |-> u[a]] : a \in DOMAIN u}

LEMMA OccupiedIs ==
  ASSUME HeapIInv, NEW i
  PROVE  i \in H!Occupied <=> \E a \in DOMAIN used : i \in a .. End(StartHdr, a) - 1
<1>1. PICK B : B = BlocksOf(hdr, used)
  BY Zenon
<1>2. H!Occupied = UNION {H!Span(b) : b \in B}
  BY ONLY <1>1 DEF H!Occupied, BlocksOf
<1>3. ASSUME NEW a \in DOMAIN used, NEW b,
             b = [start |-> a, len |-> HEADER + hdr[a].size, asked |-> used[a]]
      PROVE  H!Span(b) = a .. End(StartHdr, a) - 1
  <2>1. a \in DOMAIN StartHdr /\ StartHdr[a] = hdr[a] /\ Headers(StartHdr) /\ Tiles(StartHdr)
    BY HeapFacts, HeapTypes
  <2>2. PICK m \in Nat : m = hdr[a].size /\ a \in Nat /\ HEADER \in Nat
    BY <2>1, Extents, Numbers
  <2>3. End(StartHdr, a) = a + HEADER + m
    BY ONLY <2>1, <2>2 DEF End
  <2>4. b.start = a /\ b.len = HEADER + m
    BY ONLY <1>3, <2>2
  <2>5. b.start + b.len - 1 = End(StartHdr, a) - 1
    BY ONLY <2>2, <2>3, <2>4
  <2> QED BY ONLY <2>4, <2>5 DEF H!Span
<1>4. ASSUME NEW a \in DOMAIN used
      PROVE  \E b \in B : H!Span(b) = a .. End(StartHdr, a) - 1
  <2>1. PICK b : b = [start |-> a, len |-> HEADER + hdr[a].size, asked |-> used[a]]
    BY Zenon
  <2>2. b \in B
    BY ONLY <1>1, <2>1, a \in DOMAIN used DEF BlocksOf
  <2> QED BY <1>3, <2>1, <2>2
<1>5. ASSUME NEW b \in B
      PROVE  \E a \in DOMAIN used : H!Span(b) = a .. End(StartHdr, a) - 1
  <2>1. PICK a \in DOMAIN used :
          b = [start |-> a, len |-> HEADER + hdr[a].size, asked |-> used[a]]
    BY ONLY <1>1, b \in B DEF BlocksOf
  <2> QED BY <1>3, <2>1
<1>6. ASSUME i \in H!Occupied PROVE \E a \in DOMAIN used : i \in a .. End(StartHdr, a) - 1
  <2>1. PICK b \in B : i \in H!Span(b)
    BY ONLY <1>2, <1>6
  <2>2. PICK a \in DOMAIN used : H!Span(b) = a .. End(StartHdr, a) - 1
    BY <1>5
  <2> QED BY ONLY <2>1, <2>2, Zenon
<1>7. ASSUME NEW a \in DOMAIN used, i \in a .. End(StartHdr, a) - 1 PROVE i \in H!Occupied
  <2>1. PICK b \in B : H!Span(b) = a .. End(StartHdr, a) - 1
    BY <1>4
  <2>2. i \in H!Span(b)
    BY ONLY <1>7, <2>1, Zenon
  <2> QED BY ONLY <1>2, <2>2
<1> QED BY <1>6, <1>7

(* A call that finds no block is one that had to be refused: a free        *)
(* stretch of that length would lie in one block of the list.              *)
LEMMA RefuseStep ==
  ASSUME HeapIInv, NEW n \in Requests, NEW size, size = Bytes(blockSize(n)),
         \A b \in StartFree : ~(StartHdr[b].size >= size)
  PROVE  ~H!Fits(n)
<1>1. size \in Nat \ {0} /\ H!Needs(n) = HEADER + size
  BY BytesAre
<1>2. PICK len \in Nat \ {0} : len = HEADER + size
  BY ONLY <1>1, Numbers
<1>11. len = H!Needs(n) /\ HeapSize \in Nat
  BY <1>1, <1>2, Numbers
<1>3. SUFFICES ASSUME NEW s \in 0 .. HeapSize - len, s .. s + len - 1 \cap H!Occupied = {}
               PROVE  FALSE
  BY <1>11 DEF H!Fits
<1>4. PICK h, F : h = StartHdr /\ F = StartFree
  BY Zenon
<1>5. Sound(h, StartHead, F, {}) /\ F = DOMAIN h \ DOMAIN used
  BY <1>4, HeapFacts DEF StartFree
<1>6. s \in Nat /\ s + len <= HeapSize
  BY ONLY <1>2, <1>11, s \in 0 .. HeapSize - len
<1>7. Clear(h, F, s, len)
  <2>1. ASSUME NEW a \in DOMAIN h \ F, NEW i \in s .. s + len - 1
        PROVE  i \notin a .. End(h, a) - 1
    <3>1. a \in DOMAIN used
      BY <1>5
    <3>2. i \notin H!Occupied
      BY ONLY <1>3, i \in s .. s + len - 1
    <3> QED BY <1>4, <3>1, <3>2, OccupiedIs
  <2> QED BY ONLY <2>1 DEF Clear
<1>8. PICK b \in F : b + len <= End(h, b)
  BY ONLY <1>2, <1>5, <1>6, <1>7, StretchInOne
<1>9. b \in Nat /\ h[b].size \in Nat /\ End(h, b) = b + HEADER + h[b].size
  BY <1>5, <1>8, Extents DEF Sound
<1>10. h[b].size >= size
  BY ONLY <1>1, <1>2, <1>8, <1>9, Numbers
<1> QED BY <1>4, <1>8, <1>10

LEMMA AllocStep ==
  ASSUME HeapIInv, NEW n \in Requests, kmem_alloc(n)
  PROVE  H!Alloc(n) \/ H!Refuse(n)
<1>1. PICK size : size = Bytes(blockSize(n))
  BY Zenon
<1>2. PICK c : c = FirstFit(StartHdr, StartHead, size)
  BY Zenon
<1>3. /\ c = NULL =>
           /\ hdr' = StartHdr /\ fmem_head' = StartHead /\ UNCHANGED <<used, pt>>
           /\ refused' = {n}
           /\ \A b \in StartFree : ~(StartHdr[b].size >= size)
      /\ c # NULL =>
           /\ c \in StartFree /\ Granted(hdr', fmem_head', StartHdr, c, size)
           /\ refused' = {} /\ used' = With(used, c, n)
  BY <1>1, <1>2, AllocIs
<1>4. size \in Nat \ {0} /\ H!Needs(n) = HEADER + size
  BY <1>1, BytesAre
<1>5. CASE c = NULL
  <2>1. ~H!Fits(n)
    BY <1>1, <1>3, <1>5, RefuseStep
  <2>2. \A a \in DOMAIN used : StartHdr[a] = hdr[a]
    BY HeapFacts
  <2>3. hdr' = StartHdr /\ used' = used /\ refused' = {n}
    BY ONLY <1>3, <1>5
  <2>4. BlocksOf(hdr, used)' = BlocksOf(hdr, used)
    BY ONLY <2>2, <2>3 DEF BlocksOf
  <2> QED BY ONLY <2>1, <2>3, <2>4 DEF H!Refuse, BlocksOf
<1>6. CASE c # NULL
  <2>1. /\ c \in StartFree /\ refused' = {} /\ used' = With(used, c, n)
        /\ Granted(hdr', fmem_head', StartHdr, c, size)
    BY ONLY <1>3, <1>6
  <2>2. c \notin DOMAIN used
    BY <2>1 DEF StartFree
  <2>3. DOMAIN (used') = DOMAIN used \cup {c} /\ used'[c] = n /\ \A a \in DOMAIN used : used'[a] = used[a]
    BY ONLY <2>1, <2>2 DEF With
  <2>4. /\ c \in DOMAIN (hdr') /\ hdr'[c].size \in size .. size + HEADER
        /\ Headers(hdr') /\ Tiles(hdr')
        /\ \A b \in DOMAIN used : b \in DOMAIN (hdr') /\ hdr'[b].size = StartHdr[b].size
    BY ONLY <2>1 DEF Granted, Sound
  <2>5. PICK m \in Nat : m = hdr'[c].size /\ m \in size .. size + HEADER
    <3>1. PICK m : m = hdr'[c].size
      BY Zenon
    <3>2. m \in size .. size + HEADER
      BY ONLY <2>4, <3>1
    <3>3. m \in Nat
      BY ONLY <1>4, <3>2, Numbers
    <3> QED BY ONLY <3>1, <3>2, <3>3
  <2>6. PICK len \in Nat \ {0} : len = HEADER + m /\ len \in H!Needs(n) .. H!Needs(n) + HEADER
    BY ONLY <1>4, <2>5, Numbers
  <2>7. c \in Nat /\ c + len <= HeapSize /\ End(hdr', c) = c + len /\ HeapSize \in Nat
    <3>1. c \in Nat /\ End(hdr', c) = c + HEADER + hdr'[c].size /\ End(hdr', c) <= HeapSize
      BY ONLY <2>4, Extents
    <3> QED BY ONLY <2>5, <2>6, <3>1, Numbers
  <2>8. c \in 0 .. HeapSize - H!Needs(n)
    BY ONLY <1>4, <2>5, <2>6, <2>7, Numbers
  <2>9. c .. c + len - 1 \cap H!Occupied = {}
    <3>1. SUFFICES ASSUME NEW i \in c .. c + len - 1, i \in H!Occupied PROVE FALSE
      OBVIOUS
    <3>2. PICK a \in DOMAIN used : i \in a .. End(StartHdr, a) - 1
      BY <3>1, OccupiedIs
    <3>3. End(hdr', a) = End(StartHdr, a) /\ a \in DOMAIN (hdr') /\ a # c
      BY ONLY <2>2, <2>4, <3>2 DEF End
    <3>4. PICK f \in Nat : f = End(hdr', a) /\ a \in Nat
      BY ONLY <2>4, <3>3, Extents
    <3>5. (a <= c \/ c + len <= a) /\ (c <= a \/ f <= c)
      BY ONLY <2>4, <2>7, <3>3, <3>4 DEF Tiles
    <3> QED BY ONLY <2>7, <3>1, <3>2, <3>3, <3>4, <3>5, len \in Nat \ {0}
  <2>10. PICK b : b = [start |-> c, len |-> len, asked |-> n]
    BY Zenon
  <2>11. BlocksOf(hdr, used)' = BlocksOf(hdr, used) \cup {b}
    <3>1. b = [start |-> c, len |-> HEADER + hdr'[c].size, asked |-> used'[c]]
      BY ONLY <2>3, <2>5, <2>6, <2>10
    <3>2. \A a \in DOMAIN used : hdr'[a].size = hdr[a].size
      BY <2>4, HeapFacts
    <3> QED BY ONLY <2>3, <3>1, <3>2 DEF BlocksOf
  <2>12. H!Alloc(n)
    BY ONLY <2>1, <2>6, <2>7, <2>8, <2>9, <2>10, <2>11, Zenon DEF H!Alloc, BlocksOf
  <2> QED BY <2>12
<1> QED BY <1>5, <1>6

LEMMA FreeStep ==
  ASSUME HeapIInv, NEW a \in DOMAIN used, kmem_free(a)
  PROVE  \E b \in BlocksOf(hdr, used) : H!Free(b)
<1>1. PICK U : U = DOMAIN used \ {a}
  BY Zenon
<1>2. /\ refused' = {} /\ used' = [b \in U |-> used[b]]
      /\ \E F : Sound(hdr', fmem_head', F, {}) /\ Keeps(hdr', hdr, F, U)
  BY ONLY <1>1, HeapIInv, a \in DOMAIN used, kmem_free(a), FreeIs
<1>3. \A b \in U : hdr'[b].size = hdr[b].size
  BY ONLY <1>2 DEF Keeps
<1>4. PICK b : b = [start |-> a, len |-> HEADER + hdr[a].size, asked |-> used[a]]
  BY Zenon
<1>5. b \in BlocksOf(hdr, used)
  BY ONLY <1>4, a \in DOMAIN used DEF BlocksOf
<1>6. BlocksOf(hdr, used)' = BlocksOf(hdr, used) \ {b}
  <2>1. DOMAIN (used') = U /\ \A x \in U : used'[x] = used[x]
    BY ONLY <1>2
  <2>2. BlocksOf(hdr, used)'
          = {[start |-> x, len |-> HEADER + hdr[x].size, asked |-> used[x]] : x \in U}
    BY ONLY <1>3, <2>1 DEF BlocksOf
  <2>3. \A x \in DOMAIN used :
          [start |-> x, len |-> HEADER + hdr[x].size, asked |-> used[x]] = b <=> x = a
    BY ONLY <1>4
  <2> QED BY ONLY <1>1, <2>2, <2>3 DEF BlocksOf
<1>7. H!Free(b)
  BY ONLY <1>2, <1>5, <1>6, Zenon DEF H!Free, BlocksOf
<1> QED BY ONLY <1>5, <1>7

LEMMA StepsAreHeap == HeapIInv /\ [Next]_vars => [H!HeapNext]_<<BlocksOf(hdr, used), refused>>
<1> SUFFICES ASSUME HeapIInv, [Next]_vars
             PROVE  [H!HeapNext]_<<BlocksOf(hdr, used), refused>>
  OBVIOUS
<1>1. CASE \E n \in Requests : kmem_alloc(n)
  BY <1>1, AllocStep DEF H!HeapNext
<1>2. CASE \E a \in DOMAIN used : kmem_free(a)
  <2>1. \E b \in BlocksOf(hdr, used) : H!Free(b)
    BY <1>2, FreeStep
  <2>2. H!HeapNext
    BY ONLY <2>1 DEF H!HeapNext, BlocksOf
  <2> QED BY <2>2
<1>3. CASE \E p \in HeapPages : headerFault(p)
  BY ONLY <1>3 DEF headerFault, BlocksOf
<1>4. CASE UNCHANGED vars
  BY ONLY <1>4 DEF vars, BlocksOf
<1> QED BY <1>1, <1>2, <1>3, <1>4 DEF Next

(* The allocator implements the heap of Heap: blocks do not overlap, waste *)
(* less than their share, and nothing that fits is refused.                *)
THEOREM ImplementsHeapHolds == Spec => ImplementsHeap
<1>1. Init => H!HeapInit
  BY DEF Init, H!HeapInit
<1>2. HeapIInv /\ [Next]_vars => [H!HeapNext]_<<BlocksOf(hdr, used), refused>>
  BY StepsAreHeap
<1>3. HeapIInv /\ [Next]_vars => [H!HeapNext]_H!heapVars
  BY <1>2 DEF BlocksOf, H!heapVars
<1> QED BY <1>1, <1>3, HeapInvariant, PTL DEF Spec, ImplementsHeap, H!HeapSpec
=============================================================================
