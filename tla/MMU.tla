-------------------------------- MODULE MMU --------------------------------
(***************************************************************************)
(* The page tables of the kernel (mmu.cpp): three levels of tables, each a *)
(* page that the buddy allocator gave, made when the first page below them *)
(* is mapped and given back when their last entry goes; and the page       *)
(* faults that map pages on demand (riscv.cpp).                            *)
(*                                                                         *)
(* A page is its number; its digits in base N index the three levels.  As  *)
(* every page is mapped to itself, an entry of the last level is its       *)
(* right.  Of the buddy allocator only the promise of BlockPool is used,   *)
(* and that it has a page left: pgalloc does not expect otherwise.         *)
(***************************************************************************)
EXTENDS Integers, FiniteSets

CONSTANTS
  N,                  \* the number of entries of a table
  Tables,             \* the pages that may become tables
  KernelPages,        \* kspace: the kernel's data
  CodePages,          \* ufetch: the code of the programs and their wrapper
  Touched             \* bounds which pages are mapped and accessed

Index == 0 .. N - 1
Pages == 0 .. N * N * N - 1
Rights == {"kernel", "user"}
Null == "null"        \* an entry, or a pointer, that is zero

ASSUME MMUAssumption ==
  /\ N \in Nat \ {0}
  /\ IsFiniteSet(Tables) /\ Cardinality(Tables) >= 1 + N + N * N
  /\ Tables \cap ({Null} \cup Rights) = {}
  /\ KernelPages \cup CodePages \cup Touched \subseteq Pages

VARIABLES
  rootTablePointer,
  tab                 \* the tables in use: their entries

tableVars == <<rootTablePointer, tab>>

(* The digits of a page, the one of the last level first.                  *)
(* A mistake: the middle digit is taken where the upper one is.            *)
vpnShifted(v) == <<v % N, (v \div (N * N)) % N, v \div (N * N)>>
vpn(v) == <<v % N, (v \div N) % N, v \div (N * N)>>

ZeroTable == [i \in Index |-> Null]

(* The page that pgalloc gets while the tables of t are in use; which free *)
(* one it is makes no difference to the tables.                            *)
pgalloc(t) == CHOOSE p \in Tables : p \notin DOMAIN t

WithEntry(t, page, i, entry) == [t EXCEPT ![page][i] = entry]

(* A new table in entry i of the one above it.                             *)
WithTable(t, upper, i) ==
  LET page == pgalloc(t)
  IN  [p \in DOMAIN t \cup {page} |->
         IF p = page THEN ZeroTable ELSE WithEntry(t, upper, i, page)[p]]

-----------------------------------------------------------------------------
(* MMU::map: the tables on the way to the entry are made where they lack.  *)
Mapped(t, v, right) ==
  LET root == rootTablePointer
      i    == vpn(v)
      t1   == IF t[root][i[3]] = Null THEN WithTable(t, root, i[3]) ELSE t
      two  == t1[root][i[3]]
      t2   == IF t1[two][i[2]] = Null THEN WithTable(t1, two, i[2]) ELSE t1
  IN  WithEntry(t2, t2[two][i[2]], i[1], right)

(* A table is taken out of the one above it and freed.                     *)
TableFreed(t, upper, i, page) ==
  [p \in DOMAIN t \ {page} |-> WithEntry(t, upper, i, Null)[p]]

HasOtherEntries(table) == \E i \in Index : table[i] # Null

(* A mistake: punmap passes PAGE_FAULT.                                    *)
PAGE_FAULT == FALSE
PAGE_UNMAP == TRUE

(* MMU::invalid, as punmap calls it: the entry of a page goes, and every   *)
(* table on the way to it that is empty then.                              *)
Invalid(t, v) ==
  LET root  == rootTablePointer
      i     == vpn(v)
      two   == t[root][i[3]]
      three == t[two][i[2]]
      t1    == WithEntry(t, three, i[1], Null)
      t2    == TableFreed(t1, two, i[2], three)
  IN  IF two = Null \/ three = Null THEN t
      ELSE IF ~PAGE_UNMAP \/ HasOtherEntries(t1[three]) THEN t1
      ELSE IF HasOtherEntries(t2[two]) THEN t2
      ELSE TableFreed(t2, root, i[3], two)

-----------------------------------------------------------------------------
map(v, right) ==
  /\ rootTablePointer # Null
  /\ tab' = Mapped(tab, v, right)
  /\ UNCHANGED rootTablePointer

(* The loop of punmap: the tables after n of its pages.                    *)
Unmapped(t, start, end) ==
  LET pages == end - start + 1
      After[n \in 0 .. pages] == IF n = 0 THEN t ELSE Invalid(After[n - 1], start + n - 1)
  IN  After[pages]

punmap(start, end) ==
  /\ rootTablePointer # Null
  /\ start <= end
  /\ tab' = Unmapped(tab, start, end)
  /\ UNCHANGED rootTablePointer

(* What the hardware finds for a page, and whether it lets an access       *)
(* through: the kernel may touch the data of the programs (SSTATUS_SUM)    *)
(* and does not execute them.                                              *)
Walk(v) ==
  LET i == vpn(v)
      two == tab[rootTablePointer][i[3]]
  IN  IF two = Null THEN Null ELSE IF tab[two][i[2]] = Null THEN Null ELSE tab[tab[two][i[2]]][i[1]]

Allowed(right, mode, fetch) ==
  \/ right = "user" /\ (mode = "user" \/ ~fetch)
  \/ right = "kernel" /\ mode = "kernel"

(* The handler of page faults: it maps the page for the mode of the        *)
(* access, or it ends the thread, which changes no table.                  *)
kspace(v) == v \in KernelPages
ufetch(v) == v \in CodePages

EndsThread(v, mode, fetch) == mode = "user" /\ IF fetch THEN ~ufetch(v) ELSE kspace(v)

pageFault(v, mode, fetch) ==
  /\ rootTablePointer # Null
  /\ ~Allowed(Walk(v), mode, fetch)
  /\ tab' = IF EndsThread(v, mode, fetch) THEN tab ELSE Mapped(tab, v, mode)
  /\ UNCHANGED rootTablePointer

(* MMUInit gets the root; what it maps is mapped by map.                   *)
MMUInit ==
  /\ rootTablePointer = Null
  /\ rootTablePointer' = pgalloc(tab)
  /\ tab' = [p \in {pgalloc(tab)} |-> ZeroTable]

(* MMUFinalize frees the tables it finds on its way down.                  *)
Found(t, root) ==
  LET middle == {t[root][i] : i \in Index} \ {Null}
  IN  {root} \cup middle \cup {t[two][i] : two \in middle, i \in Index}

MMUFinalize ==
  /\ rootTablePointer # Null
  /\ tab' = [p \in DOMAIN tab \ Found(tab, rootTablePointer) |-> tab[p]]
  /\ rootTablePointer' = Null

-----------------------------------------------------------------------------
TablesInit ==
  /\ rootTablePointer = Null
  /\ tab = <<>>

TablesNext ==
  \/ MMUInit
  \/ \E v \in Touched, right \in Rights : map(v, right)
  \/ \E start, end \in Pages : punmap(start, end)
  \/ \E v \in Touched, mode \in Rights, fetch \in BOOLEAN : pageFault(v, mode, fetch)
  \/ MMUFinalize

TablesSpec == TablesInit /\ [][TablesNext]_tableVars

-----------------------------------------------------------------------------
Middle == {tab[rootTablePointer][i] : i \in Index} \ {Null}
Leaves == UNION {{tab[two][i] : i \in Index} \ {Null} : two \in Middle}

(* The type of the state: the root and the middle tables hold tables, the  *)
(* last ones hold rights.                                                  *)
TablesTypeOK ==
  /\ rootTablePointer \in Tables \cup {Null}
  /\ DOMAIN tab \subseteq Tables
  /\ \A p \in DOMAIN tab : DOMAIN tab[p] = Index
  /\ rootTablePointer # Null =>
       /\ rootTablePointer \in DOMAIN tab
       /\ Middle \cup Leaves \subseteq DOMAIN tab
       /\ \A p \in Leaves : \A i \in Index : tab[p][i] \in Rights \cup {Null}

(* The tables form a tree: the pages taken from the buddy allocator are    *)
(* those the root leads to, each by one entry of one table, so none leaks, *)
(* none is used twice and none that was freed is still linked; and without *)
(* a root there is none (mmu.cpp:60-81, 89-115, 141-162).                  *)
Links == {s \in ({rootTablePointer} \cup Middle) \X Index : tab[s[1]][s[2]] # Null}
TablesFormTree ==
  IF rootTablePointer = Null THEN DOMAIN tab = {}
  ELSE /\ DOMAIN tab = {rootTablePointer} \cup Middle \cup Leaves
       /\ Cardinality(Links) = Cardinality(DOMAIN tab) - 1

(* No table but the root is kept without an entry (mmu.cpp:100-115).       *)
NoEmptyTable ==
  rootTablePointer # Null => \A p \in DOMAIN tab \ {rootTablePointer} : HasOtherEntries(tab[p])

(* All of these: the tables are the least that the mapped pages need.      *)
TablesExact == TablesTypeOK /\ TablesFormTree /\ NoEmptyTable

(* Through the tables the hardware sees a map from pages to rights that    *)
(* changes as the callers of map and punmap expect: mapping or unmapping   *)
(* some pages changes no other.                                            *)
T == INSTANCE Translation WITH
  NoEntry <- Null, pt <- [v \in Pages |-> IF rootTablePointer = Null THEN Null ELSE Walk(v)]
ImplementsTranslation == T!TranslationSpec
=============================================================================
