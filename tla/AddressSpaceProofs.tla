-------------------------- MODULE AddressSpaceProofs --------------------------
(***************************************************************************)
(* Theorems about AddressSpace, for any number of processes, pages and     *)
(* virtual pages: reference counts are exact, a free page is unused, a     *)
(* page serves one purpose, pages that are shared are read-only, and       *)
(* copy-on-write cannot be seen.  Without explicit sharing every process   *)
(* has the memory of its own that PrivateMemory describes.                 *)
(*                                                                         *)
(* The functions of memory.c are operators on a state m of the manager, so *)
(* the lemmas about them are about any m and any sp in place of spaces.    *)
(***************************************************************************)
EXTENDS AddressSpace, FiniteSetTheorems, TLAPS

\* The definitions of the properties, for any m.
LiveIn(m) == {p \in Proc : m.setup[p] # <<>>}
Identity(m, pg) == {p \in Proc : IdentityAfter[pg] <= Len(m.setup[p])}
Maps(m, pg) == {x \in Proc \X Va : m.pte[x[1]][x[2]] # NULL /\ m.pte[x[1]][x[2]].page = pg}
Tables(m, pg) == {x \in Proc \X Table : m.table[x[1]][x[2]] = pg}
Setup(m, pg) == {p \in Proc : pg \in Range(m.setup[p])}
OwnStack(m, pg) == {p \in {First} \intersect LiveIn(m) : m.setup[p][2] = pg}

\* A page that nothing but user mappings uses, and one that nothing uses; both
\* are not on the free list.
Plain(m, pg) ==
    /\ pg \in Page /\ pg \notin Range(m.freePages)
    /\ Tables(m, pg) = {} /\ Setup(m, pg) = {}
Spare(m, pg) == Plain(m, pg) /\ Maps(m, pg) = {}

PteType == [Proc -> [Va -> Pte \union {NULL}]]
TableType == [Proc -> [Table -> Page \union {NULL}]]
SetupType == [Proc -> Seq(Page)]
Manager == [pte : PteType, table : TableType, setup : SetupType, ref : [Page -> Nat],
            freePages : Seq(Page)]

\* What nothing but the set-up of a process changes.
Fixed(m, pg) == 1 + Cardinality(Identity(m, pg)) + Cardinality(Setup(m, pg))
                  + Cardinality(OwnStack(m, pg))
Count(m, pg) == Fixed(m, pg) + Cardinality(Maps(m, pg)) + Cardinality(Tables(m, pg))
CountsExact(m) == \A pg \in Page : m.ref[pg] = Count(m, pg)

FreeUnused(m) ==
    /\ IsInjective(m.freePages)
    /\ \A pg \in Range(m.freePages) :
        Maps(m, pg) = {} /\ Tables(m, pg) = {} /\ Setup(m, pg) = {}

Exclusive(m) == \A pg \in Page :
    /\ \A x, y \in Tables(m, pg) : x = y
    /\ \A p, q \in Setup(m, pg) : p = q
    /\ Tables(m, pg) = {} \/ Setup(m, pg) = {}
    /\ Maps(m, pg) # {} => Tables(m, pg) = {} /\ Setup(m, pg) = {}

\* A page is mapped only through tables.
TablesThere(m) == \A p \in Proc, va \in Va : m.pte[p][va] # NULL => HasTables(m, p, va)

Good(m) ==
    m \in Manager /\ CountsExact(m) /\ FreeUnused(m) /\ Exclusive(m) /\ TablesThere(m)

-----------------------------------------------------------------------------
(* Finite sets.                                                            *)

LEMMA NoElement == ASSUME NEW S, S = {} PROVE Cardinality(S) = 0
  BY FS_EmptySet

LEMMA OneElement == ASSUME NEW S, NEW e, S = {e} PROVE Cardinality(S) = 1
  BY FS_Singleton

LEMMA TablesFinite == IsFiniteSet(Table)
  <1> DEFINE f == [va \in Va |-> GigaOf[va]]
             g == [va \in Va |-> RegionOf[va]]
  <1>1. f \in Surjection(Va, {GigaOf[va] : va \in Va})
        /\ g \in Surjection(Va, {RegionOf[va] : va \in Va})
    BY DEF Surjection
  <1>2. IsFiniteSet({GigaOf[va] : va \in Va}) /\ IsFiniteSet({RegionOf[va] : va \in Va})
    BY <1>1, FS_Surjection, VaAssumption
  <1> QED
    BY <1>2, FS_Union DEF Table

LEMMA SubsetsFinite ==
    /\ \A S \in SUBSET Proc : IsFiniteSet(S) /\ Cardinality(S) \in Nat
    /\ \A S \in SUBSET (Proc \X Va) : IsFiniteSet(S) /\ Cardinality(S) \in Nat
    /\ \A S \in SUBSET (Proc \X Table) : IsFiniteSet(S) /\ Cardinality(S) \in Nat
  <1>1. IsFiniteSet(Proc) /\ IsFiniteSet(Proc \X Va) /\ IsFiniteSet(Proc \X Table)
    BY ProcAssumption, VaAssumption, TablesFinite, FS_Product
  <1> QED
    BY <1>1, FS_Subset, FS_CardinalityType

\* The parts of a count.
LEMMA PartsFinite ==
    ASSUME NEW m, NEW pg
    PROVE  /\ IsFiniteSet(Identity(m, pg)) /\ Cardinality(Identity(m, pg)) \in Nat
           /\ IsFiniteSet(OwnStack(m, pg)) /\ Cardinality(OwnStack(m, pg)) \in Nat
           /\ IsFiniteSet(Setup(m, pg)) /\ Cardinality(Setup(m, pg)) \in Nat
           /\ IsFiniteSet(Maps(m, pg)) /\ Cardinality(Maps(m, pg)) \in Nat
           /\ IsFiniteSet(Tables(m, pg)) /\ Cardinality(Tables(m, pg)) \in Nat
           /\ Fixed(m, pg) \in Nat \ {0}
  <1>1. /\ Identity(m, pg) \in SUBSET Proc /\ Setup(m, pg) \in SUBSET Proc
        /\ OwnStack(m, pg) \in SUBSET Proc
    BY DEF Identity, Setup, OwnStack, LiveIn
  <1>2. Maps(m, pg) \in SUBSET (Proc \X Va) /\ Tables(m, pg) \in SUBSET (Proc \X Table)
    BY DEF Maps, Tables
  <1>3. /\ IsFiniteSet(Identity(m, pg)) /\ Cardinality(Identity(m, pg)) \in Nat
        /\ IsFiniteSet(OwnStack(m, pg)) /\ Cardinality(OwnStack(m, pg)) \in Nat
        /\ IsFiniteSet(Setup(m, pg)) /\ Cardinality(Setup(m, pg)) \in Nat
    BY <1>1, SubsetsFinite
  <1>4. Fixed(m, pg) \in Nat \ {0}
    BY <1>3 DEF Fixed
  <1> QED
    BY <1>2, <1>3, <1>4, SubsetsFinite

\* The same set-up: the same parts of every count.
LEMMA SameSetup ==
    ASSUME NEW m, NEW r, r.setup = m.setup
    PROVE  /\ \A pg : Fixed(r, pg) = Fixed(m, pg) /\ Setup(r, pg) = Setup(m, pg)
           /\ LiveIn(r) = LiveIn(m)
  <1>1. LiveIn(r) = LiveIn(m)
    BY DEF LiveIn
  <1>2. ASSUME NEW pg
        PROVE  /\ Identity(r, pg) = Identity(m, pg) /\ Setup(r, pg) = Setup(m, pg)
               /\ OwnStack(r, pg) = OwnStack(m, pg)
    BY <1>1 DEF Identity, Setup, OwnStack
  <1> QED
    BY <1>1, <1>2 DEF Fixed

\* The first page of the free list, and the others.
LEMMA HeadOfList ==
    ASSUME NEW q \in Seq(Page), IsInjective(q), q # <<>>
    PROVE  /\ Tail(q) \in Seq(Page) /\ Head(q) \in Page /\ Head(q) \in Range(q)
           /\ IsInjective(Tail(q)) /\ Range(Tail(q)) \subseteq Range(q) \ {Head(q)}
  <1>1. /\ Tail(q) \in Seq(Page) /\ Head(q) = q[1] /\ q[1] \in Page
        /\ Len(q) \in Nat \ {0} /\ DOMAIN q = 1 .. Len(q)
        /\ DOMAIN Tail(q) = 1 .. Len(q) - 1
        /\ \A i \in 1 .. Len(q) - 1 : Tail(q)[i] = q[i + 1]
    BY SMT
  <1>2. IsInjective(Tail(q))
    BY <1>1, SMT DEF IsInjective
  <1>3. Range(Tail(q)) \subseteq Range(q) \ {Head(q)} /\ Head(q) \in Range(q)
    BY <1>1, SMT DEF IsInjective, Range
  <1> QED
    BY <1>1, <1>2, <1>3

-----------------------------------------------------------------------------
(* Entries.                                                                *)

\* One entry is set.
SetsEntry(m, r, p, va, e) == r.pte = [m.pte EXCEPT ![p][va] = e]

\* What an entry changes in the mappings of a page.
LEMMA MapsAfterEntry ==
    ASSUME NEW m \in Manager, NEW r \in Manager, NEW p \in Proc, NEW va \in Va,
           NEW e \in Pte \union {NULL}, NEW pg,
           SetsEntry(m, r, p, va, e)
    PROVE  Maps(r, pg) = IF e # NULL /\ e.page = pg THEN Maps(m, pg) \union {<<p, va>>}
                         ELSE Maps(m, pg) \ {<<p, va>>}
  <1>1. m.pte \in PteType
    BY DEF Manager
  <1>2. \A q \in Proc, v \in Va :
            r.pte[q][v] = IF q = p /\ v = va THEN e ELSE m.pte[q][v]
    BY <1>1 DEF PteType, SetsEntry
  <1> QED
    BY <1>2 DEF Maps

\* Whether an entry maps a page, as a number.
Refs(e, pg) == IF e # NULL /\ e.page = pg THEN 1 ELSE 0

LEMMA MapsCounted ==
    ASSUME NEW m \in Manager, NEW r \in Manager, NEW p \in Proc, NEW va \in Va,
           NEW e \in Pte \union {NULL}, NEW pg,
           SetsEntry(m, r, p, va, e)
    PROVE  Cardinality(Maps(r, pg)) =
                Cardinality(Maps(m, pg)) + Refs(e, pg) - Refs(m.pte[p][va], pg)
  <1> DEFINE x == <<p, va>>
             S == Maps(m, pg)
             T == Maps(r, pg)
  <1>1. x \in S <=> Refs(m.pte[p][va], pg) = 1
    BY DEF Maps, Refs
  <1>2. Refs(m.pte[p][va], pg) \in {0, 1} /\ Refs(e, pg) \in {0, 1}
    BY DEF Refs
  <1>3. T = IF Refs(e, pg) = 1 THEN S \union {x} ELSE S \ {x}
    BY MapsAfterEntry DEF Refs
  <1>4. IsFiniteSet(S) /\ Cardinality(S) \in Nat
    BY PartsFinite
  <1> HIDE DEF x, S, T
  <1>5. Cardinality(S \union {x}) = IF x \in S THEN Cardinality(S) ELSE Cardinality(S) + 1
    BY <1>4, FS_AddElement
  <1>6. Cardinality(S \ {x}) = IF x \in S THEN Cardinality(S) - 1 ELSE Cardinality(S)
    BY <1>4, FS_RemoveElement
  <1>7. Cardinality(T) = Cardinality(S) + Refs(e, pg) - Refs(m.pte[p][va], pg)
    BY <1>1, <1>2, <1>3, <1>4, <1>5, <1>6
  <1> QED
    BY <1>7 DEF S, T

\* An entry that is written, cleared or changed, with the counts in step.
LEMMA EntryKeeps ==
    ASSUME NEW m, Good(m), NEW r \in Manager, NEW p \in Proc, NEW va \in Va,
           NEW e \in Pte \union {NULL},
           e # NULL => Plain(m, e.page) /\ HasTables(m, p, va),
           r.pte = [m.pte EXCEPT ![p][va] = e],
           r.table = m.table, r.setup = m.setup, r.freePages = m.freePages,
           \A pg \in Page : r.ref[pg] = m.ref[pg] + Refs(e, pg) - Refs(m.pte[p][va], pg)
    PROVE  Good(r)
  <1>1. m \in Manager /\ SetsEntry(m, r, p, va, e)
    BY DEF Good, SetsEntry
  <1>2. \A pg : Tables(r, pg) = Tables(m, pg) /\ Setup(r, pg) = Setup(m, pg)
                /\ Fixed(r, pg) = Fixed(m, pg)
    BY SameSetup DEF Tables
  <1>3. CountsExact(r)
    <2> SUFFICES ASSUME NEW pg \in Page PROVE r.ref[pg] = Count(r, pg)
      BY DEF CountsExact
    <2>1. Cardinality(Maps(r, pg)) =
                Cardinality(Maps(m, pg)) + Refs(e, pg) - Refs(m.pte[p][va], pg)
      BY <1>1, MapsCounted
    <2>2. m.ref[pg] = Count(m, pg)
      BY DEF Good, CountsExact
    <2>3. Refs(m.pte[p][va], pg) \in {0, 1} /\ Refs(e, pg) \in {0, 1}
      BY DEF Refs
    <2>4. r.ref[pg] = m.ref[pg] + Refs(e, pg) - Refs(m.pte[p][va], pg)
      OBVIOUS
    <2> QED
      BY <1>2, <2>1, <2>2, <2>3, <2>4, PartsFinite DEF Count
  <1>4. \A pg : Maps(r, pg) = IF e # NULL /\ e.page = pg THEN Maps(m, pg) \union {<<p, va>>}
                              ELSE Maps(m, pg) \ {<<p, va>>}
    BY <1>1, MapsAfterEntry
  <1>5. FreeUnused(r)
    BY <1>2, <1>4 DEF Good, FreeUnused, Plain
  <1>6. Exclusive(r)
    BY <1>2, <1>4 DEF Good, Exclusive, Plain
  <1>7. TablesThere(r)
    <2>1. \A q \in Proc, v \in Va :
            r.pte[q][v] = IF q = p /\ v = va THEN e ELSE m.pte[q][v]
      BY <1>1 DEF Manager, PteType
    <2>2. \A q, v : HasTables(r, q, v) <=> HasTables(m, q, v)
      BY DEF HasTables, HasTable
    <2> QED
      BY <2>1, <2>2 DEF Good, TablesThere
  <1> QED
    BY <1>1, <1>3, <1>5, <1>6, <1>7 DEF Good

\* What page_remove does.  The page it unmaps has the kernel's reference left,
\* so it does not become free.
Removed(m, r, p, va) ==
    /\ Good(r)
    /\ r.pte = [m.pte EXCEPT ![p][va] = NULL]
    /\ r.table = m.table /\ r.setup = m.setup /\ r.freePages = m.freePages

LEMMA RemoveDoes ==
    ASSUME NEW m, Good(m), NEW p \in Proc, NEW va \in Va
    PROVE  Removed(m, page_remove(m, p, va), p, va)
  <1> DEFINE r == page_remove(m, p, va)
  <1>1. m \in Manager /\ m.pte \in PteType
    BY DEF Good, Manager
  <1>2. CASE m.pte[p][va] = NULL
    BY <1>1, <1>2 DEF page_remove, PteType, Removed
  <1>3. CASE m.pte[p][va] # NULL
    <2> DEFINE pg == m.pte[p][va].page
    <2>1. m.pte[p][va] \in Pte /\ pg \in Page
      BY <1>1, <1>3 DEF PteType, Pte
    <2>2. <<p, va>> \in Maps(m, pg)
      BY <1>3 DEF Maps
    <2>3. Cardinality(Maps(m, pg)) \in Nat \ {0}
      BY <2>2, PartsFinite, FS_EmptySet
    <2>4. m.ref[pg] = Count(m, pg)
      BY <2>1 DEF Good, CountsExact
    <2>5. m.ref[pg] \in Nat /\ m.ref[pg] >= 2
      BY <2>3, <2>4, PartsFinite DEF Count
    <2>6. m.pte[p][va] # NULL /\ m.ref[pg] # 1
      BY <1>3, <2>5
    <2>7. r = [m EXCEPT !.pte[p][va] = NULL, !.ref[pg] = @ - 1, !.freePages = @]
      BY <2>6 DEF page_remove
    <2> HIDE DEF pg, r
    <2>8. /\ r.pte = [m.pte EXCEPT ![p][va] = NULL] /\ r.table = m.table
          /\ r.setup = m.setup
          /\ r.freePages = m.freePages /\ r.ref = [m.ref EXCEPT ![pg] = @ - 1]
      BY <1>1, <2>7 DEF Manager
    <2>9. r \in Manager
      <3>1. [m.pte EXCEPT ![p][va] = NULL] \in PteType
        BY <1>1 DEF PteType
      <3>2. [m.ref EXCEPT ![pg] = @ - 1] \in [Page -> Nat]
        BY <1>1, <2>1, <2>5 DEF Manager
      <3> QED
        BY <1>1, <2>7, <3>1, <3>2 DEF Manager
    <2>10. PICK e \in Pte \union {NULL} : e = NULL
      OBVIOUS
    <2>11. /\ e # NULL => Plain(m, e.page) /\ HasTables(m, p, va)
           /\ r.pte = [m.pte EXCEPT ![p][va] = e] /\ r.table = m.table
           /\ r.setup = m.setup /\ r.freePages = m.freePages
      BY <2>8, <2>10
    <2>12. \A g \in Page : r.ref[g] = m.ref[g] + Refs(e, g) - Refs(m.pte[p][va], g)
      BY <1>1, <1>3, <2>1, <2>8, <2>10 DEF Manager, Refs, pg
    <2>13. Good(r)
      BY <2>9, <2>11, <2>12, EntryKeeps
    <2> QED
      BY <2>8, <2>13 DEF r, Removed
  <1> QED
    BY <1>2, <1>3

\* The page of an entry is used for nothing else.
LEMMA MappedIsPlain ==
    ASSUME NEW m, Good(m), NEW p \in Proc, NEW va \in Va, m.pte[p][va] # NULL
    PROVE  m.pte[p][va] \in Pte /\ Plain(m, m.pte[p][va].page) /\ HasTables(m, p, va)
  <1> DEFINE pg == m.pte[p][va].page
  <1>1. m.pte[p][va] \in Pte /\ pg \in Page
    BY DEF Good, Manager, PteType, Pte
  <1>2. <<p, va>> \in Maps(m, pg)
    BY DEF Maps
  <1>3. HasTables(m, p, va)
    BY DEF Good, TablesThere
  <1>4. Plain(m, pg)
    BY <1>1, <1>2 DEF Good, FreeUnused, Exclusive, Plain
  <1> QED
    BY <1>1, <1>3, <1>4

\* Another kind of entry for the same page.
LEMMA ReplacedKeeps ==
    ASSUME NEW m, Good(m), NEW p \in Proc, NEW va \in Va, m.pte[p][va] # NULL,
           NEW e \in Pte, e.page = m.pte[p][va].page
    PROVE  Good([m EXCEPT !.pte[p][va] = e])
  <1> DEFINE r == [m EXCEPT !.pte[p][va] = e]
  <1>1. m \in Manager /\ m.pte \in PteType
    BY DEF Good, Manager
  <1>2. r.pte = [m.pte EXCEPT ![p][va] = e] /\ r.table = m.table /\ r.setup = m.setup
        /\ r.freePages = m.freePages /\ r.ref = m.ref
    BY <1>1 DEF Manager
  <1>3. r \in Manager
    <2>1. [m.pte EXCEPT ![p][va] = e] \in PteType
      BY <1>1 DEF PteType
    <2> QED
      BY <1>1, <2>1 DEF Manager
  <1>4. e \in Pte \union {NULL} /\ e # NULL /\ Plain(m, e.page) /\ HasTables(m, p, va)
    BY MappedIsPlain, NullAssumption
  <1> HIDE DEF r
  <1>5. \A g \in Page : r.ref[g] = m.ref[g] + Refs(e, g) - Refs(m.pte[p][va], g)
    BY <1>1, <1>2, <1>4 DEF Manager, Refs
  <1>6. Good(r)
    BY <1>2, <1>3, <1>4, <1>5, EntryKeeps
  <1> QED
    BY <1>6 DEF r

-----------------------------------------------------------------------------
(* Pages.                                                                  *)

\* page_alloc.  What it returns is used for nothing and no longer free.
LEMMA AllocKeeps ==
    ASSUME NEW m, Good(m), CanAlloc(m)
    PROVE  /\ Good(page_alloc(m))
           /\ page_alloc(m).pte = m.pte /\ page_alloc(m).table = m.table
           /\ page_alloc(m).setup = m.setup
           /\ page_alloc(m).ref = m.ref
           /\ FirstFree(m) \in Range(m.freePages)
           /\ Range(page_alloc(m).freePages) \subseteq Range(m.freePages) \ {FirstFree(m)}
           /\ Spare(page_alloc(m), FirstFree(m))
  <1> DEFINE r == page_alloc(m)
  <1>1. m \in Manager /\ m.freePages \in Seq(Page) /\ IsInjective(m.freePages)
        /\ m.freePages # <<>>
    BY DEF Good, Manager, FreeUnused, CanAlloc
  <1>2. /\ Tail(m.freePages) \in Seq(Page) /\ IsInjective(Tail(m.freePages))
        /\ FirstFree(m) \in Page /\ FirstFree(m) \in Range(m.freePages)
        /\ Range(Tail(m.freePages)) \subseteq Range(m.freePages) \ {FirstFree(m)}
    BY <1>1, HeadOfList DEF FirstFree
  <1>3. r = [m EXCEPT !.freePages = Tail(m.freePages)]
    BY <1>1 DEF page_alloc, Manager
  <1>4. /\ r \in Manager /\ r.pte = m.pte /\ r.table = m.table /\ r.ref = m.ref
        /\ r.setup = m.setup /\ r.freePages = Tail(m.freePages)
    BY <1>1, <1>2, <1>3 DEF Manager
  <1> HIDE DEF r
  <1>5. \A pg : /\ Maps(r, pg) = Maps(m, pg) /\ Tables(r, pg) = Tables(m, pg)
                /\ Setup(r, pg) = Setup(m, pg) /\ Fixed(r, pg) = Fixed(m, pg)
    BY <1>4, SameSetup DEF Maps, Tables
  <1>6. CountsExact(r)
    BY <1>4, <1>5 DEF Good, CountsExact, Count
  <1>7. FreeUnused(r)
    BY <1>2, <1>4, <1>5 DEF Good, FreeUnused
  <1>8. Exclusive(r)
    BY <1>5 DEF Good, Exclusive
  <1>9. TablesThere(r)
    BY <1>4 DEF Good, TablesThere, HasTables, HasTable
  <1>10. Good(r)
    BY <1>4, <1>6, <1>7, <1>8, <1>9 DEF Good
  <1>11. Spare(r, FirstFree(m))
    BY <1>2, <1>4, <1>5 DEF Good, FreeUnused, Plain, Spare
  <1> QED
    BY <1>2, <1>4, <1>10, <1>11 DEF r

\* A page that becomes a table, with its reference.
LEMMA TableKeeps ==
    ASSUME NEW m, Good(m), NEW p \in Proc, NEW g \in Table,
           m.table[p][g] = NULL, NEW pg \in Page, Spare(m, pg),
           NEW r \in Manager, r.pte = m.pte, r.setup = m.setup,
           r.freePages = m.freePages,
           r.table = [m.table EXCEPT ![p][g] = pg],
           \A x \in Page : r.ref[x] = m.ref[x] + (IF x = pg THEN 1 ELSE 0)
    PROVE  Good(r)
  <1>1. m \in Manager /\ m.table \in TableType
    BY DEF Good, Manager
  <1>4. \A q \in Proc, h \in Table :
            r.table[q][h] = IF q = p /\ h = g THEN pg ELSE m.table[q][h]
    BY <1>1 DEF TableType
  <1>5. \A x : Maps(r, x) = Maps(m, x) /\ Setup(r, x) = Setup(m, x)
               /\ Fixed(r, x) = Fixed(m, x)
    BY SameSetup DEF Maps
  <1>6. Tables(m, pg) = {} /\ Maps(m, pg) = {} /\ Setup(m, pg) = {}
        /\ pg \notin Range(m.freePages)
    BY DEF Spare, Plain
  <1>7. Tables(r, pg) = {<<p, g>>}
    BY <1>4, <1>6 DEF Tables
  <1>8. \A x \in Page \ {pg} : Tables(r, x) = Tables(m, x)
    BY <1>4, NullAssumption DEF Tables
  <1>9. CountsExact(r)
    <2> SUFFICES ASSUME NEW x \in Page PROVE r.ref[x] = Count(r, x)
      BY DEF CountsExact
    <2>1. m.ref[x] = Count(m, x) /\ m.ref[x] \in Nat
      BY <1>1 DEF Good, CountsExact, Manager
    <2>2. CASE x = pg
      <3>1. Cardinality(Tables(r, x)) = 1
        BY <1>7, <2>2, OneElement
      <3>1a. Cardinality(Tables(m, x)) = 0
        BY <1>6, <2>2, NoElement
      <3>2. r.ref[x] = m.ref[x] + 1
        BY <2>2
      <3> QED
        BY <1>5, <2>1, <3>1, <3>1a, <3>2, PartsFinite DEF Count
    <2>3. CASE x # pg
      BY <1>5, <1>8, <2>1, <2>3 DEF Count
    <2> QED
      BY <2>2, <2>3
  <1>10. FreeUnused(r)
    <2>1. \A x \in Range(m.freePages) : x \in Page \ {pg}
      BY <1>1, <1>6 DEF Manager, Range
    <2> QED
      BY <1>5, <1>8, <2>1 DEF Good, FreeUnused
  <1>11. Exclusive(r)
    BY <1>5, <1>6, <1>7, <1>8 DEF Good, Exclusive
  <1>12. TablesThere(r)
    <2>1. pg # NULL
      BY NullAssumption
    <2> SUFFICES ASSUME NEW q \in Proc, NEW v \in Va, r.pte[q][v] # NULL
                 PROVE  HasTables(r, q, v)
      BY DEF TablesThere
    <2>2. HasTables(m, q, v) /\ GigaOf[v] \in Table /\ RegionOf[v] \in Table
      BY DEF Good, TablesThere, Table
    <2> QED
      BY <1>4, <2>1, <2>2 DEF HasTables, HasTable
  <1> QED
    BY <1>1, <1>9, <1>10, <1>11, <1>12 DEF Good

\* Tables come, pages go; what is mapped stays.
Grown(m, r) ==
    /\ Good(r) /\ r.pte = m.pte /\ r.setup = m.setup
    /\ CanAlloc(r) => CanAlloc(m)
    /\ \A pg : Plain(m, pg) => Plain(r, pg)
    /\ \A p \in Proc, t \in Table : HasTable(m, p, t) => HasTable(r, p, t)

\* One level of page_walk: the table is there, unless memory ran out.
LEMMA MakeKeeps ==
    ASSUME NEW m, Good(m), NEW p \in Proc, NEW t \in Table,
           NEW r, r = MakeTable(m, p, t)
    PROVE  Grown(m, r) /\ (HasTable(r, p, t) \/ ~CanAlloc(r))
  <1>1. CASE HasTable(m, p, t) \/ ~CanAlloc(m)
    BY <1>1 DEF MakeTable, Grown
  <1>2. CASE ~HasTable(m, p, t) /\ CanAlloc(m)
    <2> DEFINE a == page_alloc(m)
               pg == FirstFree(m)
    <2>1. m.table[p][t] = NULL
      BY <1>2 DEF HasTable
    <2>2. /\ Good(a) /\ Spare(a, pg) /\ a.pte = m.pte /\ a.table = m.table
          /\ a.setup = m.setup /\ a.ref = m.ref
          /\ pg \in Range(m.freePages)
          /\ Range(a.freePages) \subseteq Range(m.freePages) \ {pg}
      BY <1>2, AllocKeeps
    <2>3. r = [a EXCEPT !.table[p][t] = pg, !.ref[pg] = @ + 1]
      BY <1>2 DEF MakeTable
    <2>4. pg \in Page
      BY <2>2 DEF Spare, Plain
    <2> HIDE DEF a, pg
    <2>5. a.table[p][t] = NULL
      BY <2>1, <2>2
    <2>6. /\ r \in Manager /\ r.pte = a.pte /\ r.freePages = a.freePages
          /\ r.setup = a.setup /\ r.table = [a.table EXCEPT ![p][t] = pg]
          /\ \A x \in Page : r.ref[x] = a.ref[x] + (IF x = pg THEN 1 ELSE 0)
      <3>1. a \in Manager
        BY <2>2 DEF Good
      <3>2. /\ r.pte = a.pte /\ r.freePages = a.freePages /\ r.setup = a.setup
            /\ r.table = [a.table EXCEPT ![p][t] = pg] /\ r.ref = [a.ref EXCEPT ![pg] = @ + 1]
        BY <2>3, <3>1 DEF Manager
      <3>3. [a.table EXCEPT ![p][t] = pg] \in TableType
        BY <2>4, <3>1 DEF TableType, Manager
      <3>4. [a.ref EXCEPT ![pg] = @ + 1] \in [Page -> Nat]
        BY <2>4, <3>1 DEF Manager
      <3>5. r \in Manager
        BY <2>3, <3>1, <3>3, <3>4 DEF Manager
      <3> QED
        BY <2>4, <3>1, <3>2, <3>5 DEF Manager
    <2>7. Good(r)
      BY <2>2, <2>4, <2>5, <2>6, TableKeeps
    <2>8. m.table \in TableType
      BY DEF Good, Manager
    <2>9. \A q \in Proc, h \in Table :
              r.table[q][h] = IF q = p /\ h = t THEN pg ELSE m.table[q][h]
      BY <2>2, <2>6, <2>8 DEF TableType
    <2>10. pg # NULL
      BY <2>4, NullAssumption
    <2>11. HasTable(r, p, t)
      BY <2>9, <2>10 DEF HasTable
    <2>12. ASSUME NEW q \in Proc, NEW h \in Table, HasTable(m, q, h) PROVE HasTable(r, q, h)
      BY <2>2, <2>6, <2>9, <2>10, <2>12 DEF HasTable
    <2>13. ASSUME NEW x, Plain(m, x) PROVE Plain(r, x)
      <3>1. x \in Page /\ x # pg /\ x \notin Range(r.freePages)
        BY <2>2, <2>6, <2>13 DEF Plain
      <3>2. \A q \in Proc, h \in Table : r.table[q][h] = x => m.table[q][h] = x
        BY <2>9, <3>1
      <3>3. Setup(r, x) = Setup(m, x)
        BY <2>2, <2>6, SameSetup
      <3> QED
        BY <2>13, <3>1, <3>2, <3>3 DEF Plain, Tables
    <2> QED
      BY <1>2, <2>2, <2>6, <2>7, <2>11, <2>12, <2>13 DEF Grown
  <1> QED
    BY <1>1, <1>2

\* page_walk: both levels.
LEMMA WalkKeeps ==
    ASSUME NEW m, Good(m), NEW p \in Proc, NEW va \in Va,
           NEW r, r = page_walk(m, p, va)
    PROVE  Grown(m, r) /\ (HasTables(r, p, va) \/ ~CanAlloc(r))
  <1>1. GigaOf[va] \in Table /\ RegionOf[va] \in Table
    BY DEF Table
  <1>2. PICK a : a = MakeTable(m, p, GigaOf[va])
    OBVIOUS
  <1>3. Grown(m, a) /\ (HasTable(a, p, GigaOf[va]) \/ ~CanAlloc(a))
    BY <1>1, <1>2, MakeKeeps
  <1>4. r = MakeTable(a, p, RegionOf[va])
    BY <1>2 DEF page_walk
  <1>5. Grown(a, r) /\ (HasTable(r, p, RegionOf[va]) \/ ~CanAlloc(r))
    <2>1. Good(a)
      BY <1>3 DEF Grown
    <2> QED
      BY <1>1, <1>4, <2>1, MakeKeeps
  <1>6. HasTables(r, p, va) \/ ~CanAlloc(r)
    BY <1>1, <1>3, <1>5 DEF Grown, HasTables
  <1> QED
    BY <1>3, <1>5, <1>6 DEF Grown

\* What page_insert does: the entry is there, or a table is missing.
Inserted(m, r, p, va, e) ==
    /\ Good(r) /\ r.setup = m.setup /\ (CanAlloc(r) => CanAlloc(m))
    /\ \/ r.pte = [m.pte EXCEPT ![p][va] = e]
       \/ r.pte = m.pte /\ m.pte[p][va] = NULL /\ ~CanAlloc(r) /\ ~HasTables(m, p, va)

\* page_insert of a page that is no table and not free.
LEMMA InsertKeeps ==
    ASSUME NEW m, Good(m), NEW p \in Proc, NEW va \in Va,
           NEW e \in Pte, Plain(m, e.page),
           NEW r, r = page_insert(m, p, va, e)
    PROVE  Inserted(m, r, p, va, e)
  <1>1. PICK a : a = page_remove(m, p, va)
    OBVIOUS
  <1>2. /\ Good(a) /\ a.pte = [m.pte EXCEPT ![p][va] = NULL]
        /\ a.table = m.table /\ a.setup = m.setup /\ a.freePages = m.freePages
    <2>1. Removed(m, a, p, va)
      BY <1>1, RemoveDoes
    <2> QED
      BY <2>1 DEF Removed
  <1>3. Plain(a, e.page)
    BY <1>2, SameSetup DEF Plain, Tables
  <1>4. PICK b : b = page_walk(a, p, va)
    OBVIOUS
  <1>5. Grown(a, b) /\ (HasTables(b, p, va) \/ ~CanAlloc(b))
    BY <1>2, <1>4, WalkKeeps
  <1>6. /\ Good(b) /\ b.pte = a.pte /\ b.setup = m.setup /\ Plain(b, e.page)
        /\ CanAlloc(b) => CanAlloc(m)
        /\ HasTables(a, p, va) => HasTables(b, p, va)
    <2>1. GigaOf[va] \in Table /\ RegionOf[va] \in Table
      BY DEF Table
    <2> QED
      BY <1>2, <1>3, <1>5, <2>1 DEF Grown, HasTables, CanAlloc
  <1>7. m.pte \in PteType /\ b \in Manager /\ b.pte \in PteType /\ e.page \in Page
    BY <1>6 DEF Good, Manager, Pte
  <1>8. CASE ~HasTables(b, p, va)
    <2>1. r = b
      BY <1>1, <1>4, <1>8 DEF page_insert
    <2>2. ~HasTables(m, p, va)
      BY <1>2, <1>6, <1>8 DEF HasTables, HasTable
    <2>3. m.pte[p][va] = NULL
      BY <2>2 DEF Good, TablesThere
    <2>4. r.pte = m.pte
      BY <1>2, <1>6, <1>7, <2>1, <2>3 DEF PteType
    <2> QED
      BY <1>5, <1>6, <1>8, <2>1, <2>2, <2>3, <2>4 DEF Inserted
  <1>9. CASE HasTables(b, p, va)
    <2>1. r = [b EXCEPT !.pte[p][va] = e, !.ref[e.page] = @ + 1]
      BY <1>1, <1>4, <1>9 DEF page_insert
    <2>2. /\ r.pte = [b.pte EXCEPT ![p][va] = e] /\ r.table = b.table /\ r.setup = b.setup
          /\ r.freePages = b.freePages /\ r.ref = [b.ref EXCEPT ![e.page] = @ + 1]
      BY <1>7, <2>1 DEF Manager
    <2>3. r \in Manager
      <3>1. [b.pte EXCEPT ![p][va] = e] \in PteType
        BY <1>7 DEF PteType
      <3>2. [b.ref EXCEPT ![e.page] = @ + 1] \in [Page -> Nat]
        BY <1>7 DEF Manager
      <3> QED
        BY <1>7, <2>1, <3>1, <3>2 DEF Manager
    <2>4. e \in Pte \union {NULL} /\ e # NULL
      BY NullAssumption
    <2>5. b.pte[p][va] = NULL
      BY <1>2, <1>6, <1>7 DEF PteType
    <2>6. \A g \in Page : r.ref[g] = b.ref[g] + Refs(e, g) - Refs(b.pte[p][va], g)
      BY <1>7, <2>2, <2>4, <2>5 DEF Manager, Refs
    <2>7. Good(r)
      <3>1. e # NULL => Plain(b, e.page) /\ HasTables(b, p, va)
        BY <1>6, <1>9
      <3>2. Good(b) /\ e \in Pte \union {NULL}
        BY <1>6, <2>4
      <3>3. /\ r.pte = [b.pte EXCEPT ![p][va] = e] /\ r.table = b.table
            /\ r.setup = b.setup /\ r.freePages = b.freePages
        BY <2>2
      <3> QED
        BY <2>3, <2>6, <3>1, <3>2, <3>3, EntryKeeps
    <2>8. r.pte = [m.pte EXCEPT ![p][va] = e]
      BY <1>2, <1>6, <1>7, <2>2 DEF PteType
    <2> QED
      BY <1>6, <2>2, <2>7, <2>8 DEF Inserted, CanAlloc
  <1> QED
    BY <1>8, <1>9

\* What InsertFresh does: a page that nobody maps goes under the entry, or is
\* lost.
FreshInserted(m, r, p, va, perm) ==
    /\ Good(r) /\ r.setup = m.setup
    /\ FirstFree(m) \in Page /\ Maps(m, FirstFree(m)) = {}
    /\ \/ r.pte = [m.pte EXCEPT ![p][va] = EntryFor(FirstFree(m), perm)]
       \/ r.pte = m.pte

LEMMA EntryTyped ==
    ASSUME NEW pg \in Page, NEW perm \in Perm
    PROVE  /\ EntryFor(pg, perm) \in Pte /\ EntryFor(pg, perm) # NULL
           /\ EntryFor(pg, perm).page = pg
           /\ EntryFor(pg, perm).u = perm.u /\ EntryFor(pg, perm).w = perm.w
  <1>1. EntryFor(pg, perm) \in Pte
    BY DEF EntryFor, Pte, Perm
  <1> QED
    BY <1>1, NullAssumption DEF EntryFor

LEMMA InsertFreshKeeps ==
    ASSUME NEW m, Good(m), NEW p \in Proc, NEW va \in Va,
           CanAlloc(m), NEW perm \in Perm,
           NEW r, r = InsertFresh(m, p, va, perm)
    PROVE  FreshInserted(m, r, p, va, perm)
  <1>1. PICK a : a = page_alloc(m)
    OBVIOUS
  <1>2. Good(a) /\ a.pte = m.pte /\ a.setup = m.setup /\ Spare(a, FirstFree(m))
    BY <1>1, AllocKeeps
  <1>3. FirstFree(m) \in Page /\ Plain(a, FirstFree(m)) /\ Maps(m, FirstFree(m)) = {}
    BY <1>2 DEF Spare, Plain, Maps
  <1>4. PICK e \in Pte : e = EntryFor(FirstFree(m), perm) /\ e.page = FirstFree(m)
    BY <1>3, EntryTyped
  <1>5. r = page_insert(a, p, va, e)
    BY <1>1, <1>4 DEF InsertFresh
  <1>6. Inserted(a, r, p, va, e)
    BY <1>2, <1>3, <1>4, <1>5, InsertKeeps
  <1> QED
    BY <1>2, <1>3, <1>4, <1>6 DEF Inserted, FreshInserted

\* What is left of the free list without its first n pages.
LEMMA DropFirst ==
    ASSUME NEW q \in Seq(Page), IsInjective(q), NEW n \in Nat, n <= Len(q)
    PROVE  /\ SubSeq(q, n + 1, Len(q)) \in Seq(Page)
           /\ IsInjective(SubSeq(q, n + 1, Len(q)))
           /\ {q[i] : i \in 1 .. n} \subseteq Range(q)
           /\ Range(SubSeq(q, n + 1, Len(q))) \subseteq Range(q) \ {q[i] : i \in 1 .. n}
           /\ Range(q) \subseteq Page
  <1> DEFINE r == SubSeq(q, n + 1, Len(q))
  <1>1. /\ Len(q) \in Nat /\ n \in Nat /\ n <= Len(q)
        /\ DOMAIN q = 1 .. Len(q) /\ \A i \in 1 .. Len(q) : q[i] \in Page
    BY SMT
  <1>2. /\ r \in Seq(Page) /\ Len(r) = Len(q) - n
        /\ \A i \in 1 .. Len(q) - n : r[i] = q[i + n]
    <2>1. r \in Seq(Page)
      BY <1>1, SMT
    <2>2. Len(r) = Len(q) - n
      <3>1. CASE n + 1 <= Len(q) 
        BY <1>1, <3>1, SMT
      <3>2. CASE n = Len(q) 
        BY <1>1, <3>2, SMT
      <3>3. n + 1 <= Len(q) \/ n = Len(q)
        <4>1. \A k, l \in Nat : k <= l => k + 1 <= l \/ k = l
          BY SMT
        <4> QED
          BY <1>1, <4>1
      <3> QED
        BY <3>1, <3>2, <3>3
    <2>3. \A i \in 1 .. Len(q) - n : r[i] = q[i + n]
      BY <1>1, SMT
    <2> QED
      BY <2>1, <2>2, <2>3
  <1> HIDE DEF r
  <1>3. DOMAIN r = 1 .. Len(q) - n
    BY <1>1, <1>2, SMT
  <1>4. \A i \in 1 .. Len(q) - n : i + n \in 1 .. Len(q) /\ i + n \notin 1 .. n
    BY <1>1, SMT
  <1>5. \A i, j \in 1 .. Len(q) : q[i] = q[j] => i = j
    BY <1>1 DEF IsInjective
  <1>6. IsInjective(r)
    <2> SUFFICES ASSUME NEW i \in 1 .. Len(q) - n, NEW j \in 1 .. Len(q) - n, r[i] = r[j]
                 PROVE  i = j
      BY <1>3 DEF IsInjective
    <2>1. i + n = j + n
      BY <1>2, <1>4, <1>5
    <2> QED
      BY <1>1, <2>1, SMT
  <1>7. \A i \in 1 .. n : i \in 1 .. Len(q)
    BY <1>1, SMT
  <1>8. {q[i] : i \in 1 .. n} \subseteq Range(q)
    BY <1>1, <1>7 DEF Range
  <1>9. ASSUME NEW x \in Range(r) PROVE x \in Range(q) \ {q[i] : i \in 1 .. n}
    <2>1. PICK i \in 1 .. Len(q) - n : x = q[i + n]
      BY <1>2, <1>3 DEF Range
    <2> QED
      BY <1>1, <1>4, <1>5, <1>7, <2>1 DEF Range
  <1>10. Range(q) \subseteq Page
    BY <1>1 DEF Range
  <1> QED
    BY <1>2, <1>6, <1>8, <1>9, <1>10 DEF r

\* What a set-up takes is the front of the free list.
Takes(m, got) ==
    /\ got \in Seq(Page) /\ got # <<>> /\ Len(got) \in Nat \ {0}
    /\ Range(got) \subseteq Range(m.freePages) /\ Range(m.freePages) \subseteq Page
    /\ SubSeq(m.freePages, Len(got) + 1, Len(m.freePages)) \in Seq(Page)
    /\ IsInjective(SubSeq(m.freePages, Len(got) + 1, Len(m.freePages)))
    /\ Range(SubSeq(m.freePages, Len(got) + 1, Len(m.freePages)))
          \subseteq Range(m.freePages) \ Range(got)
    /\ Len(m.freePages) >= 2 => Len(got) >= 2

LEMMA TakenIsFront ==
    ASSUME NEW m, Good(m), CanAlloc(m), NEW p \in Proc
    PROVE  Takes(m, Taken(m, p))
  <1>1. PICK q \in Seq(Page) : q = m.freePages
    BY DEF Good, Manager
  <1>2. IsInjective(q) /\ q # <<>> /\ Len(q) \in Nat \ {0}
        /\ DOMAIN q = 1 .. Len(q) /\ \A i \in 1 .. Len(q) : q[i] \in Page
    BY <1>1 DEF Good, FreeUnused, CanAlloc
  <1>3. Needed(p) \in Nat /\ Needed(p) >= 2
    BY SizesAssumption DEF Needed
  <1>4. PICK n \in Nat : n = IF Len(q) < Needed(p) THEN Len(q) ELSE Needed(p)
    BY <1>2, <1>3
  <1>5. n >= 1 /\ n <= Len(q) /\ (Len(q) >= 2 => n >= 2)
    <2>1. CASE Len(q) < Needed(p)
      BY <1>2, <1>4, <2>1
    <2>2. CASE ~(Len(q) < Needed(p))
      BY <1>2, <1>3, <1>4, <2>2
    <2> QED
      BY <2>1, <2>2
  <1>6. PICK got : got = Taken(m, p)
    OBVIOUS
  <1>7. got \in Seq(Page) /\ Len(got) = n /\ \A i \in 1 .. n : got[i] = q[i]
    <2>1. CASE Len(q) < Needed(p)
      BY <1>1, <1>2, <1>4, <1>6, <2>1 DEF Taken
    <2>2. CASE ~(Len(q) < Needed(p))
      <3>1. got = SubSeq(q, 1, n) /\ n = Needed(p)
        BY <1>1, <1>4, <1>6, <2>2 DEF Taken
      <3> QED
        BY <1>2, <1>5, <3>1, SMT
    <2> QED
      BY <2>1, <2>2
  <1>8. DOMAIN got = 1 .. n
    BY <1>7, SMT
  <1>9. Range(got) = {q[i] : i \in 1 .. n}
    BY <1>7, <1>8 DEF Range
  <1>10. /\ SubSeq(q, n + 1, Len(q)) \in Seq(Page)
         /\ IsInjective(SubSeq(q, n + 1, Len(q)))
         /\ {q[i] : i \in 1 .. n} \subseteq Range(q)
         /\ Range(SubSeq(q, n + 1, Len(q))) \subseteq Range(q) \ {q[i] : i \in 1 .. n}
         /\ Range(q) \subseteq Page
    BY <1>2, <1>5, DropFirst
  <1>11. got # <<>>
    BY <1>5, <1>7
  <1>12. Takes(m, got)
    BY <1>1, <1>5, <1>7, <1>9, <1>10, <1>11 DEF Takes
  <1> QED
    BY <1>6, <1>12

\* One member more, or none.
LEMMA AddedCount ==
    ASSUME NEW S, IsFiniteSet(S), NEW x, x \notin S, NEW n, NEW T,
           (n = 1 /\ T = S \union {x}) \/ (n = 0 /\ T = S)
    PROVE  Cardinality(T) = Cardinality(S) + n
  <1>1. Cardinality(S) \in Nat
    BY FS_CardinalityType
  <1>2. Cardinality(S \union {x}) = Cardinality(S) + 1
    BY FS_AddElement
  <1>3. CASE n = 1 /\ T = S \union {x}
    BY <1>2, <1>3
  <1>4. CASE n = 0 /\ T = S
    BY <1>1, <1>4
  <1> QED
    BY <1>3, <1>4

\* SetUp of a process that has no set-up yet.
LEMMA SetUpKeeps ==
    ASSUME NEW m, Good(m), CanAlloc(m), NEW p \in Proc, p \notin LiveIn(m),
           p = First => Len(m.freePages) >= 2,
           NEW r, r = SetUp(m, p)
    PROVE  Good(r) /\ r.pte = m.pte /\ LiveIn(r) = LiveIn(m) \union {p}
           /\ (CanAlloc(r) => CanAlloc(m))
  <1>1. m \in Manager /\ m.freePages \in Seq(Page) /\ m.setup \in SetupType
    BY DEF Good, Manager
  <1>2. PICK got : got = Taken(m, p)
    OBVIOUS
  <1>3. Takes(m, got)
    BY <1>2, TakenIsFront
  <1>4. got \in Seq(Page) /\ got # <<>> /\ Len(got) \in Nat \ {0}
        /\ (p = First => got[2] \in Page)
    <2>1. p = First => Len(got) >= 2
      BY <1>3 DEF Takes
    <2> QED
      BY <1>3, <2>1 DEF Takes
  <1>5. /\ r.pte = m.pte /\ r.table = m.table
        /\ r.setup = [m.setup EXCEPT ![p] = got]
        /\ r.freePages = SubSeq(m.freePages, Len(got) + 1, Len(m.freePages))
        /\ r.ref = [pg \in Page |-> m.ref[pg]
                        + (IF IdentityAfter[pg] <= Len(got) THEN 1 ELSE 0)
                        + (IF pg \in Range(got) THEN 1 ELSE 0)
                        + (IF p = First /\ pg = got[2] THEN 1 ELSE 0)]
    BY <1>1, <1>2 DEF SetUp, Manager
  <1>6. r \in Manager
    <2>1. r.ref \in [Page -> Nat]
      BY <1>1, <1>5 DEF Manager
    <2>2. r.setup \in SetupType
      BY <1>1, <1>4, <1>5 DEF SetupType
    <2>3. r.freePages \in Seq(Page)
      BY <1>3, <1>5 DEF Takes
    <2>4. r = [pte |-> r.pte, table |-> r.table, setup |-> r.setup, ref |-> r.ref,
               freePages |-> r.freePages]
      BY <1>1 DEF SetUp, Manager
    <2>5. r.pte \in PteType /\ r.table \in TableType
      BY <1>1, <1>5 DEF Manager
    <2> QED
      BY <2>1, <2>2, <2>3, <2>4, <2>5 DEF Manager
  <1>7. /\ \A q \in Proc : r.setup[q] = IF q = p THEN got ELSE m.setup[q]
        /\ m.setup[p] = <<>>
    BY <1>1, <1>5 DEF SetupType, LiveIn
  <1>8. LiveIn(r) = LiveIn(m) \union {p}
    BY <1>4, <1>7 DEF LiveIn
  <1>9. \A pg : Setup(r, pg) = IF pg \in Range(got) THEN Setup(m, pg) \union {p}
                                                     ELSE Setup(m, pg)
    <2>1. Range(<<>>) = {}
      BY DEF Range
    <2> QED
      BY <1>7, <2>1 DEF Setup
  <1>10. \A pg : p \notin Setup(m, pg)
    <2>1. Range(<<>>) = {}
      BY DEF Range
    <2> QED
      BY <1>7, <2>1 DEF Setup
  <1>11. \A pg \in Range(got) : Maps(m, pg) = {} /\ Tables(m, pg) = {} /\ Setup(m, pg) = {}
    BY <1>3 DEF Good, FreeUnused, Takes
  <1>12. \A pg : Maps(r, pg) = Maps(m, pg) /\ Tables(r, pg) = Tables(m, pg)
    BY <1>5 DEF Maps, Tables
  <1>13. \A pg \in Page :
            /\ p \notin Identity(m, pg)
            /\ Identity(r, pg) = IF IdentityAfter[pg] <= Len(got)
                                 THEN Identity(m, pg) \union {p} ELSE Identity(m, pg)
    <2>1. \A pg \in Page : ~(IdentityAfter[pg] <= Len(m.setup[p]))
      <3>1. Len(m.setup[p]) = 0
        BY <1>7
      <3> QED
        BY <3>1, SetupAssumption, SizesAssumption
    <2> QED
      BY <1>7, <2>1 DEF Identity
  <1>14. \A pg \in Page :
            /\ p \notin OwnStack(m, pg)
            /\ OwnStack(r, pg) = IF p = First /\ pg = got[2]
                                 THEN OwnStack(m, pg) \union {p} ELSE OwnStack(m, pg)
    <2>1. p \notin LiveIn(m)
      OBVIOUS
    <2> QED
      BY <1>7, <1>8, <2>1, ProcAssumption DEF OwnStack
  <1>15. CountsExact(r)
    <2> SUFFICES ASSUME NEW pg \in Page PROVE r.ref[pg] = Count(r, pg)
      BY DEF CountsExact
    <2>1. m.ref[pg] = Count(m, pg) /\ m.ref[pg] \in Nat
      BY <1>1 DEF Good, CountsExact, Manager
    <2>2. PICK i \in {0, 1} : i = IF IdentityAfter[pg] <= Len(got) THEN 1 ELSE 0
      OBVIOUS
    <2>3. PICK s \in {0, 1} : s = IF pg \in Range(got) THEN 1 ELSE 0
      OBVIOUS
    <2>4. PICK o \in {0, 1} : o = IF p = First /\ pg = got[2] THEN 1 ELSE 0
      OBVIOUS
    <2>5. r.ref[pg] = m.ref[pg] + i + s + o
      BY <1>5, <2>2, <2>3, <2>4
    <2>6. Cardinality(Identity(r, pg)) = Cardinality(Identity(m, pg)) + i
      <3>1. \/ i = 1 /\ Identity(r, pg) = Identity(m, pg) \union {p}
            \/ i = 0 /\ Identity(r, pg) = Identity(m, pg)
        BY <1>13, <2>2
      <3> QED
        BY <1>13, <3>1, PartsFinite, AddedCount
    <2>7. Cardinality(Setup(r, pg)) = Cardinality(Setup(m, pg)) + s
      <3>1. \/ s = 1 /\ Setup(r, pg) = Setup(m, pg) \union {p}
            \/ s = 0 /\ Setup(r, pg) = Setup(m, pg)
        BY <1>9, <2>3
      <3> QED
        BY <1>10, <3>1, PartsFinite, AddedCount
    <2>8. Cardinality(OwnStack(r, pg)) = Cardinality(OwnStack(m, pg)) + o
      <3>1. \/ o = 1 /\ OwnStack(r, pg) = OwnStack(m, pg) \union {p}
            \/ o = 0 /\ OwnStack(r, pg) = OwnStack(m, pg)
        BY <1>14, <2>4
      <3> QED
        BY <1>14, <3>1, PartsFinite, AddedCount
    <2>9. /\ Cardinality(Maps(r, pg)) = Cardinality(Maps(m, pg))
          /\ Cardinality(Tables(r, pg)) = Cardinality(Tables(m, pg))
      BY <1>12
    <2>10. Fixed(r, pg) = Fixed(m, pg) + i + s + o /\ Fixed(m, pg) \in Nat
      <3>1. PICK a \in Nat : a = Cardinality(Identity(m, pg))
        BY PartsFinite
      <3>2. PICK b \in Nat : b = Cardinality(Setup(m, pg))
        BY PartsFinite
      <3>3. PICK c \in Nat : c = Cardinality(OwnStack(m, pg))
        BY PartsFinite
      <3>4. Fixed(m, pg) = 1 + a + b + c
        BY <3>1, <3>2, <3>3 DEF Fixed
      <3>5. Fixed(r, pg) = 1 + (a + i) + (b + s) + (c + o)
        BY <2>6, <2>7, <2>8, <3>1, <3>2, <3>3 DEF Fixed
      <3> QED
        BY <3>4, <3>5
    <2>11. PICK a \in Nat : a = Cardinality(Maps(m, pg))
      BY PartsFinite
    <2>12. PICK b \in Nat : b = Cardinality(Tables(m, pg))
      BY PartsFinite
    <2>13. Count(m, pg) = Fixed(m, pg) + a + b /\ Count(r, pg) = Fixed(r, pg) + a + b
      BY <2>9, <2>11, <2>12 DEF Count
    <2> QED
      BY <2>1, <2>5, <2>10, <2>13
  <1>16. FreeUnused(r)
    <2>1. \A pg \in Range(r.freePages) : pg \in Range(m.freePages) /\ pg \notin Range(got)
      BY <1>3, <1>5 DEF Takes
    <2>2. IsInjective(r.freePages)
      BY <1>3, <1>5 DEF Takes
    <2> QED
      BY <1>9, <1>12, <2>1, <2>2 DEF Good, FreeUnused
  <1>17. Exclusive(r)
    BY <1>9, <1>11, <1>12 DEF Good, Exclusive
  <1>18. TablesThere(r)
    <2>1. ASSUME NEW q \in Proc, NEW t, HasTable(m, q, t) PROVE HasTable(r, q, t)
      <3>1. \A x \in DOMAIN TableAfter : TableAfter[x] \in Nat \ {0}
        BY SetupAssumption, SizesAssumption
      <3>2. Len(m.setup[p]) = 0
        BY <1>7
      <3>3. CASE q = p
        BY <1>5, <2>1, <3>1, <3>2, <3>3 DEF HasTable
      <3>4. CASE q # p
        BY <1>5, <1>7, <2>1, <3>4 DEF HasTable
      <3> QED
        BY <3>3, <3>4
    <2> QED
      BY <1>5, <2>1 DEF Good, TablesThere, HasTables
  <1>19. Good(r)
    BY <1>6, <1>15, <1>16, <1>17, <1>18 DEF Good
  <1> QED
    BY <1>5, <1>8, <1>19

\* Without pages nothing is set up.
LEMMA NothingSetUp ==
    ASSUME NEW m, Good(m), ~CanAlloc(m), NEW p \in Proc, p \notin LiveIn(m), p # First
    PROVE  SetUp(m, p) = m
  <1>1. m \in Manager /\ m.freePages = <<>> /\ m.setup[p] = <<>> /\ m.setup \in SetupType
    BY DEF Good, Manager, CanAlloc, LiveIn
  <1>2. Taken(m, p) = <<>>
    <2>1. Needed(p) \in Nat /\ Needed(p) >= 2
      BY SizesAssumption DEF Needed
    <2>2. Len(m.freePages) < Needed(p)
      BY <1>1, <2>1
    <2> QED
      BY <1>1, <2>2 DEF Taken
  <1>3. Range(<<>>) = {} /\ Len(<<>>) = 0
    BY DEF Range
  <1>4. SubSeq(<<>>, Len(<<>>) + 1, Len(<<>>)) = <<>>
    BY SMT
  <1>5. [pg \in Page |-> m.ref[pg] + (IF IdentityAfter[pg] <= Len(<<>>) THEN 1 ELSE 0)
                                   + (IF pg \in Range(<<>>) THEN 1 ELSE 0)
                                   + (IF p = First /\ pg = <<>>[2] THEN 1 ELSE 0)] = m.ref
    <2>1. \A pg \in Page : ~(IdentityAfter[pg] <= Len(<<>>)) /\ m.ref[pg] \in Nat
      BY <1>1, <1>3, SetupAssumption, SizesAssumption DEF Manager
    <2>2. m.ref \in [Page -> Nat]
      BY <1>1 DEF Manager
    <2> QED
      BY <1>3, <2>1, <2>2
  <1>6. [m.setup EXCEPT ![p] = <<>>] = m.setup
    BY <1>1 DEF SetupType
  <1>7. SetUp(m, p) = [m EXCEPT !.setup = m.setup, !.freePages = m.freePages, !.ref = m.ref]
    BY <1>1, <1>2, <1>4, <1>5, <1>6 DEF SetUp
  <1> QED
    BY <1>1, <1>7 DEF Manager

\* What fork makes of an entry.
LEMMA MarkedEntry ==
    ASSUME NEW e \in Pte
    PROVE  /\ Marked(e) \in Pte /\ Marked(e).page = e.page /\ ~Marked(e).w
           /\ Marked(e).u = e.u /\ Marked(e) # NULL
  <1>1. Marked(e) \in Pte /\ Marked(e).page = e.page /\ Marked(e).w = FALSE
        /\ Marked(e).u = e.u
    BY DEF Marked, Pte
  <1> QED
    BY <1>1, NullAssumption

\* The walk of fork has a next page.
LEMMA LeastOfNaturals ==
    ASSUME NEW T \in SUBSET Nat, T # {}
    PROVE  \E x \in T : \A y \in T : x <= y
  <1> DEFINE R == OpToRel(<, Nat)
  <1>1. IsWellFoundedOn(R, Nat)
    BY NatLessThanWellFounded
  <1>2. \A x, y \in Nat : <<y, x>> \in R <=> y < x
    BY DEF OpToRel
  <1> HIDE DEF R
  <1>3. PICK x \in T : \A y \in T : ~(<<y, x>> \in R)
    BY <1>1, WFMin
  <1>4. ASSUME NEW y \in T PROVE x <= y
    <2>1. ~(<<y, x>> \in R) /\ x \in Nat /\ y \in Nat
      BY <1>3
    <2>2. ~(y < x)
      BY <1>2, <2>1
    <2> QED
      BY <2>1, <2>2
  <1> QED
    BY <1>4

-----------------------------------------------------------------------------
(* The inductive invariant.                                                *)

\* A fork is of two processes that exist, after boot, and a page is left or
\* done.
ForkTyped ==
    \/ forking = NULL
    \/ booting = FALSE /\ forking \in [parent : Live, child : Live, left : SUBSET Va]

\* The first process is set up before any other, with memory enough.
FirstBorn ==
    /\ Live = {} => Len(mm.freePages) >= 2
    /\ Live # {} => First \in Live

\* A process that does not exist maps nothing.
UnbornMapNothing == \A p \in Proc \ Live, va \in Va : Entry(p, va) = NULL

\* An entry c of the child stands for the entry e of the parent, unless memory
\* ran out.
StandsFor(c, e) ==
    \/ c = e
    \/ c = NULL /\ (~CanAlloc(mm) \/ (e # NULL /\ ~e.u))

\* The pages left are not mapped in the child; the others are as in the parent.
ForkCopies ==
    forking # NULL =>
        /\ forking.parent # forking.child
        /\ \A va \in forking.left : Entry(forking.child, va) = NULL
        /\ \A va \in Va \ forking.left :
              StandsFor(Entry(forking.child, va), Entry(forking.parent, va))

\* The manager is in order and the other variables have their types.
BaseInv ==
    /\ Good(mm) /\ FirstBorn
    /\ content \in [Page -> Data] /\ booting \in BOOLEAN /\ halted \in BOOLEAN
    /\ ForkTyped

IInv == BaseInv /\ UnbornMapNothing /\ ForkCopies /\ SharedAreReadOnly

LEMMA LiveIsLive == LiveIn(mm) = Live /\ LiveIn(mm') = Live'
  BY DEF LiveIn, Live

-----------------------------------------------------------------------------
(* What the actions do, in terms of entries.                               *)

\* A page that nobody maps comes to hold v and goes under the entry.
Fresh(p, va, perm, v) == \E pg \in Page :
    /\ Maps(mm, pg) = {}
    /\ mm'.pte = [mm.pte EXCEPT ![p][va] = EntryFor(pg, perm)]
    /\ content' = [content EXCEPT ![pg] = v]

\* The page is lost, for want of a table.
Lost(v) == \E pg \in Page :
    /\ Maps(mm, pg) = {} /\ mm'.pte = mm.pte
    /\ content' = [content EXCEPT ![pg] = v]

\* The kernel stops; nothing else happens.
Stops == halted' = TRUE /\ UNCHANGED <<mm, content, forking, booting>>

\* A program runs; none is made, and no fork begins.
Runs ==
    /\ forking = NULL /\ booting = FALSE /\ mm'.setup = mm.setup
    /\ UNCHANGED <<forking, booting>> /\ halted' \in BOOLEAN

\* A process is made, after the first one.
Born(p) ==
    /\ p \notin Live /\ Live' = Live \union {p}
    /\ First \in Live'

LEMMA RunsKeepsLive == mm'.setup = mm.setup => Live' = Live
  BY DEF Live

LEMMA ReadWriteTyped == ReadWrite \in Perm /\ ReadWrite.u = TRUE
  BY DEF ReadWrite, Perm

LEMMA CreateStep ==
    ASSUME BaseInv, NEW p \in Proc, Create(p)
    PROVE  /\ Good(mm') /\ p \notin Live
           /\ booting = TRUE /\ UNCHANGED <<forking, booting>> /\ halted' \in BOOLEAN
           /\ \/ Born(p) /\ \E v \in Data : Fresh(p, ProgramVa, ReadWrite, v) \/ Lost(v)
              \/ UNCHANGED content /\ mm'.pte = mm.pte /\ (Born(p) \/ mm' = mm)
  <1>1. /\ Good(mm) /\ p \notin Live /\ p \notin LiveIn(mm)
        /\ booting = TRUE /\ UNCHANGED <<forking, booting>>
        /\ (Live = {} => p = First) /\ (Live # {} => First \in Live)
        /\ (Live = {} => Len(mm.freePages) >= 2) /\ halted \in BOOLEAN
    BY LiveIsLive DEF BaseInv, Create, FirstBorn
  <1>2. PICK m : m = SetUp(mm, p)
    OBVIOUS
  <1>3. CASE ~CanAlloc(mm)
    <2>1. mm \in Manager /\ mm.freePages \in Seq(Page)
      BY <1>1 DEF Good, Manager
    <2>2. p # First
      BY <1>1, <1>3 DEF CanAlloc
    <2>3. m = mm
      BY <1>1, <1>2, <1>3, <2>2, NothingSetUp
    <2>4. mm' = mm /\ UNCHANGED content /\ halted' = TRUE
      BY <1>2, <1>3, <2>3 DEF Create
    <2> QED
      BY <1>1, <2>4
  <1>4. CASE CanAlloc(mm)
    <2>1. p = First => Len(mm.freePages) >= 2
      BY <1>1
    <2>2. Good(m) /\ m.pte = mm.pte /\ LiveIn(m) = Live \union {p}
      BY <1>1, <1>2, <1>4, <2>1, LiveIsLive, SetUpKeeps
    <2>3. CASE ~CanAlloc(m)
      <3>1. mm' = m /\ UNCHANGED content /\ halted' = TRUE
        BY <1>2, <2>3 DEF Create
      <3>2. Born(p)
        BY <1>1, <2>2, <3>1, LiveIsLive DEF Born
      <3> QED
        BY <1>1, <2>2, <3>1, <3>2
    <2>4. CASE CanAlloc(m)
      <3>1. PICK v \in Data : content' = [content EXCEPT ![FirstFree(m)] = v]
        BY <1>2, <2>4 DEF Create
      <3>2. mm' = InsertFresh(m, p, ProgramVa, ReadWrite) /\ halted' = halted
        BY <1>2, <2>4 DEF Create
      <3>3. FreshInserted(m, mm', p, ProgramVa, ReadWrite)
        BY <2>2, <2>4, <3>2, ReadWriteTyped, VaAssumption, InsertFreshKeeps
      <3>4. PICK pg \in Page :
              /\ pg = FirstFree(m) /\ Maps(m, pg) = {}
              /\ \/ mm'.pte = [m.pte EXCEPT ![p][ProgramVa] = EntryFor(pg, ReadWrite)]
                 \/ mm'.pte = m.pte
        BY <3>3 DEF FreshInserted
      <3>5. Maps(mm, pg) = {}
        BY <2>2, <3>4 DEF Maps
      <3>6. Fresh(p, ProgramVa, ReadWrite, v) \/ Lost(v)
        BY <2>2, <3>1, <3>4, <3>5 DEF Fresh, Lost
      <3>7. Good(mm') /\ mm'.setup = m.setup
        BY <3>3 DEF FreshInserted
      <3>8. Born(p)
        BY <1>1, <2>2, <3>7, LiveIsLive, SameSetup DEF Born
      <3> QED
        BY <1>1, <3>2, <3>6, <3>7, <3>8
    <2> QED
      BY <2>3, <2>4
  <1> QED
    BY <1>3, <1>4

\* What an insertion of a fresh page is, seen from the entries.
LEMMA InsertFreshStep ==
    ASSUME Good(mm), CanAlloc(mm), NEW p \in Proc, NEW va \in Va, NEW perm \in Perm,
           NEW v, mm' = InsertFresh(mm, p, va, perm),
           content' = [content EXCEPT ![FirstFree(mm)] = v]
    PROVE  Good(mm') /\ mm'.setup = mm.setup /\ (Fresh(p, va, perm, v) \/ Lost(v))
  <1>1. FreshInserted(mm, mm', p, va, perm)
    BY InsertFreshKeeps
  <1> QED
    BY <1>1 DEF FreshInserted, Fresh, Lost

LEMMA PageoutStep ==
    ASSUME BaseInv, NEW p \in Proc, NEW va \in Va, pageout(p, va)
    PROVE  /\ Good(mm')
           /\ \/ Stops
              \/ Runs /\ p \in Live /\ (Fresh(p, va, ReadWrite, Zero) \/ Lost(Zero))
  <1>1. Good(mm) /\ forking = NULL /\ booting = FALSE /\ p \in Live
    BY DEF BaseInv, pageout, CanRun, Running
  <1>2. CASE ~CanAlloc(mm)
    BY <1>1, <1>2 DEF pageout, Halt, Stops
  <1>3. CASE CanAlloc(mm)
    <2>1. /\ mm' = InsertFresh(mm, p, va, ReadWrite)
          /\ content' = [content EXCEPT ![FirstFree(mm)] = Zero]
          /\ UNCHANGED <<forking, booting>> /\ halted' \in BOOLEAN
      BY <1>3 DEF pageout, HasTables
    <2>2. Good(mm') /\ mm'.setup = mm.setup
          /\ (Fresh(p, va, ReadWrite, Zero) \/ Lost(Zero))
      BY <1>1, <1>3, <2>1, ReadWriteTyped, InsertFreshStep
    <2> QED
      BY <1>1, <2>1, <2>2 DEF Runs
  <1> QED
    BY <1>2, <1>3

\* The permissions of the copy of a page.
CopyPerm(e) == [u |-> e.u, w |-> TRUE, c |-> FALSE]

LEMMA FaultStep ==
    ASSUME BaseInv, NEW p \in Proc, NEW va \in Va, Fault(p, va)
    PROVE  /\ Good(mm')
           /\ \/ Stops
              \/ /\ Runs /\ p \in Live
                 /\ Entry(p, va) # NULL /\ CopyPerm(Entry(p, va)) \in Perm
                 /\ Fresh(p, va, CopyPerm(Entry(p, va)), content[Entry(p, va).page])
  <1>1. /\ Good(mm) /\ forking = NULL /\ booting = FALSE /\ p \in Live
        /\ mm.pte[p][va] # NULL /\ halted \in BOOLEAN
    BY DEF BaseInv, Fault, CanRun, Running, Entry
  <1>2. CASE ~(Entry(p, va).c /\ CanAlloc(mm))
    BY <1>1, <1>2 DEF Fault, Halt, Stops
  <1>3. CASE Entry(p, va).c /\ CanAlloc(mm)
    <2>1. PICK a : a = page_alloc(mm)
      OBVIOUS
    <2>2. PICK pg : pg = FirstFree(mm)
      OBVIOUS
    <2>3. /\ Good(a) /\ a.pte = mm.pte /\ a.table = mm.table /\ a.setup = mm.setup
          /\ Spare(a, pg)
      BY <1>1, <1>3, <2>1, <2>2, AllocKeeps
    <2>4. pg \in Page /\ Plain(a, pg) /\ Maps(mm, pg) = {}
      BY <2>3 DEF Spare, Plain, Maps
    <2>5. mm.pte[p][va] \in Pte /\ HasTables(mm, p, va)
      BY <1>1, MappedIsPlain
    <2>6. PICK perm \in Perm : perm = CopyPerm(Entry(p, va))
      BY <2>5 DEF CopyPerm, Perm, Entry, Pte
    <2>7. PICK e \in Pte : e = EntryFor(pg, perm) /\ e.page = pg
      BY <2>4, EntryTyped
    <2>8. /\ mm' = page_insert(a, p, va, e)
          /\ content' = [content EXCEPT ![pg] = content[Entry(p, va).page]]
          /\ UNCHANGED <<forking, booting, halted>>
      BY <1>3, <2>1, <2>2, <2>6, <2>7 DEF Fault, Copied, CopyPerm
    <2>9. Inserted(a, mm', p, va, e)
      BY <2>3, <2>4, <2>7, <2>8, InsertKeeps
    <2>10. HasTables(a, p, va)
      BY <2>3, <2>5 DEF HasTables, HasTable
    <2>11. /\ Good(mm') /\ mm'.setup = mm.setup
           /\ mm'.pte = [mm.pte EXCEPT ![p][va] = EntryFor(pg, perm)]
      BY <2>3, <2>7, <2>9, <2>10 DEF Inserted
    <2>12. Fresh(p, va, perm, content[Entry(p, va).page])
      BY <2>4, <2>8, <2>11 DEF Fresh
    <2>13. Runs
      BY <1>1, <2>8, <2>11 DEF Runs
    <2> QED
      BY <1>1, <2>6, <2>11, <2>12, <2>13 DEF Entry
  <1> QED
    BY <1>2, <1>3

\* Without a table the page just taken is forgotten.
LEMMA AllocStep ==
    ASSUME BaseInv, NEW p \in Proc, NEW va \in Va, NEW perm \in Perm,
           syscallMemoryAlloc(p, va, perm)
    PROVE  Good(mm') /\ Runs /\ p \in Live /\ (Fresh(p, va, perm, Zero) \/ Lost(Zero))
  <1>1. /\ Good(mm) /\ CanAlloc(mm) /\ forking = NULL /\ booting = FALSE /\ p \in Live
        /\ UNCHANGED <<forking, booting, halted>> /\ halted \in BOOLEAN
        /\ content' = [content EXCEPT ![FirstFree(mm)] = Zero]
        /\ mm' = InsertFresh(mm, p, va, perm)
    BY DEF BaseInv, syscallMemoryAlloc, Running
  <1>2. Good(mm') /\ mm'.setup = mm.setup /\ (Fresh(p, va, perm, Zero) \/ Lost(Zero))
    BY <1>1, InsertFreshStep
  <1> QED
    BY <1>1, <1>2 DEF Runs

\* An entry is another one, or nothing changes.
Replaced(p, va) ==
    mm'.pte = mm.pte \/ \E e \in Pte : mm'.pte = [mm.pte EXCEPT ![p][va] = e]

LEMMA MapFromToStep ==
    ASSUME BaseInv, NEW p \in Proc, NEW va \in Va, NEW q \in Proc, NEW qva \in Va,
           NEW perm \in Perm, syscallMapMemoryFromTo(p, va, q, qva, perm)
    PROVE  /\ Good(mm') /\ Runs /\ UNCHANGED content
           /\ ExplicitSharing /\ q \in Live /\ Replaced(q, qva)
  <1>1. /\ Good(mm) /\ forking = NULL /\ booting = FALSE /\ q \in Live /\ ExplicitSharing
        /\ UNCHANGED <<content, forking, booting, halted>> /\ halted \in BOOLEAN
        /\ mm.pte[p][va] # NULL
        /\ mm' = page_insert(mm, q, qva, EntryFor(mm.pte[p][va].page, perm))
    BY DEF BaseInv, syscallMapMemoryFromTo, Running, Entry
  <1>2. PICK pg \in Page : pg = mm.pte[p][va].page /\ Plain(mm, pg)
    BY <1>1, MappedIsPlain DEF Plain
  <1>3. PICK e \in Pte : e = EntryFor(pg, perm) /\ e.page = pg
    BY EntryTyped
  <1>4. Inserted(mm, mm', q, qva, e)
    BY <1>1, <1>2, <1>3, InsertKeeps
  <1> QED
    BY <1>1, <1>4 DEF Inserted, Replaced, Runs

LEMMA UnmapStep ==
    ASSUME BaseInv, NEW p \in Proc, NEW va \in Va, syscallUnmapMemoryFrom(p, va)
    PROVE  /\ Good(mm') /\ Runs /\ UNCHANGED content /\ p \in Live
           /\ mm'.pte = [mm.pte EXCEPT ![p][va] = NULL]
  <1>1. /\ Good(mm) /\ forking = NULL /\ booting = FALSE /\ p \in Live
        /\ UNCHANGED <<content, forking, booting, halted>> /\ halted \in BOOLEAN
        /\ mm' = page_remove(mm, p, va)
    BY DEF BaseInv, syscallUnmapMemoryFrom, Running
  <1>2. Removed(mm, mm', p, va)
    BY <1>1, RemoveDoes
  <1> QED
    BY <1>1, <1>2 DEF Removed, Runs

LEMMA StartForkStep ==
    ASSUME BaseInv, NEW p \in Proc, NEW c \in Proc, StartFork(p, c)
    PROVE  /\ Good(mm')
           /\ \/ Stops
              \/ /\ forking = NULL /\ booting = FALSE /\ p \in Live
                 /\ UNCHANGED <<content, booting, halted>>
                 /\ mm'.pte = mm.pte /\ Born(c)
                 /\ forking' = [parent |-> p, child |-> c, left |-> Va]
  <1>1. /\ Good(mm) /\ c \notin Live /\ forking = NULL /\ booting = FALSE /\ p \in Live
        /\ First \in Live
    BY DEF BaseInv, FirstBorn, StartFork, CanRun, Running
  <1>2. CASE ~CanAlloc(mm)
    BY <1>1, <1>2 DEF StartFork, Halt, Stops
  <1>3. CASE CanAlloc(mm)
    <2>1. /\ mm' = SetUp(mm, c) /\ UNCHANGED <<content, booting, halted>>
          /\ forking' = [parent |-> p, child |-> c, left |-> Va]
      BY <1>3 DEF StartFork
    <2>2. Good(mm') /\ mm'.pte = mm.pte /\ LiveIn(mm') = LiveIn(mm) \union {c}
      <3>1. c \notin LiveIn(mm) /\ c # First
        BY <1>1, LiveIsLive
      <3> QED
        BY <1>1, <1>3, <2>1, <3>1, SetUpKeeps
    <2>3. Born(c)
      BY <1>1, <2>2, LiveIsLive DEF Born
    <2> QED
      BY <1>1, <2>1, <2>2, <2>3
  <1> QED
    BY <1>2, <1>3

\* One page of the walk: a page without PTE_U is passed over; of another the
\* parent's entry is marked and, unless memory ran out, the child gets the same.
Walked(p, c, va) ==
    \/ (Entry(p, va) = NULL \/ ~Entry(p, va).u) /\ mm' = mm
    \/ /\ Entry(p, va) \in Pte /\ Entry(p, va) # NULL
       /\ mm'.pte = [mm.pte EXCEPT ![p][va] = Marked(Entry(p, va))]
       /\ mm.pte[c][va] = NULL /\ ~CanAlloc(mm')
    \/ /\ Entry(p, va) \in Pte /\ Entry(p, va) # NULL
       /\ mm'.pte = [[mm.pte EXCEPT ![p][va] = Marked(Entry(p, va))]
                        EXCEPT ![c][va] = Marked(Entry(p, va))]

LEMMA ForkPageStep ==
    ASSUME BaseInv, ForkPage, forking.parent # forking.child
    PROVE  /\ Good(mm') /\ mm'.setup = mm.setup
           /\ UNCHANGED <<content, booting, halted>> /\ forking # NULL
           /\ CanAlloc(mm') => CanAlloc(mm)
           /\ \E va \in forking.left :
                 /\ forking' = [forking EXCEPT !.left = @ \ {va}]
                 /\ Walked(forking.parent, forking.child, va)
  <1>1. PICK p : p = forking.parent
    OBVIOUS
  <1>2. PICK c : c = forking.child
    OBVIOUS
  <1>3. PICK va : va = CHOOSE x \in forking.left : \A y \in forking.left : x <= y
    OBVIOUS
  <1>4. PICK e : e = Entry(p, va)
    OBVIOUS
  <1>5. /\ forking # NULL /\ forking.left # {} /\ UNCHANGED <<content, booting, halted>>
        /\ forking' = [forking EXCEPT !.left = @ \ {va}]
        /\ mm' = IF e # NULL /\ Inherited(e)
                 THEN page_insert([mm EXCEPT !.pte[p][va] = Marked(e)], c, va, Marked(e))
                 ELSE mm
    BY <1>1, <1>2, <1>3, <1>4 DEF ForkPage
  <1>6. Good(mm) /\ p \in Proc /\ c \in Proc /\ forking.left \in SUBSET Va /\ p # c
    BY <1>1, <1>2, <1>5 DEF BaseInv, ForkTyped, Live
  <1>7. va \in forking.left /\ va \in Va
    <2>1. \E x \in forking.left : \A y \in forking.left : x <= y
      BY <1>5, <1>6, LeastOfNaturals, VaAssumption
    <2>2. va \in forking.left
      BY <1>3, <2>1
    <2> QED
      BY <1>6, <2>2
  <1>8. CASE ~(e # NULL /\ Inherited(e))
    <2>1. mm' = mm
      BY <1>5, <1>8
    <2>2. Walked(p, c, va)
      BY <1>4, <1>8, <2>1 DEF Walked, Inherited
    <2> QED
      BY <1>1, <1>2, <1>5, <1>6, <1>7, <2>1, <2>2
  <1>9. CASE e # NULL /\ Inherited(e)
    <2>1. e \in Pte /\ Plain(mm, e.page) /\ e = mm.pte[p][va] /\ e # NULL
      BY <1>4, <1>6, <1>7, <1>9, MappedIsPlain DEF Entry
    <2>2. PICK f \in Pte : f = Marked(e) /\ f.page = e.page
      BY <2>1, MarkedEntry
    <2>3. PICK m : m = [mm EXCEPT !.pte[p][va] = f]
      OBVIOUS
    <2>4. Good(m)
      BY <1>6, <1>7, <2>1, <2>2, <2>3, ReplacedKeeps
    <2>5. /\ m.pte = [mm.pte EXCEPT ![p][va] = f] /\ m.table = mm.table
          /\ m.setup = mm.setup /\ m.freePages = mm.freePages
      <3>1. mm \in Manager
        BY <1>6 DEF Good
      <3> QED
        BY <2>3, <3>1 DEF Manager
    <2>6. mm' = page_insert(m, c, va, f)
      BY <1>5, <1>9, <2>2, <2>3
    <2>7. Plain(m, f.page)
      BY <2>1, <2>2, <2>5, SameSetup DEF Plain, Tables
    <2>8. Inserted(m, mm', c, va, f)
      BY <1>6, <1>7, <2>4, <2>6, <2>7, InsertKeeps
    <2>9. Good(mm') /\ mm'.setup = mm.setup /\ (CanAlloc(mm') => CanAlloc(mm))
      BY <2>5, <2>8 DEF Inserted, CanAlloc
    <2>10. m.pte[c][va] = mm.pte[c][va]
      <3>1. mm.pte \in PteType
        BY <1>6 DEF Good, Manager
      <3> QED
        BY <1>6, <1>7, <2>5, <3>1 DEF PteType
    <2>11. \/ mm'.pte = [m.pte EXCEPT ![c][va] = f]
           \/ mm'.pte = m.pte /\ mm.pte[c][va] = NULL /\ ~CanAlloc(mm')
      BY <2>8, <2>10 DEF Inserted
    <2>12. Walked(p, c, va)
      BY <1>4, <2>1, <2>2, <2>5, <2>11 DEF Walked
    <2> QED
      BY <1>1, <1>2, <1>5, <1>7, <2>9, <2>12
  <1> QED
    BY <1>8, <1>9

-----------------------------------------------------------------------------
(* Sharing.                                                                *)

\* SharedAreReadOnly for any entries t.
SharedIn(t) ==
    \A p, q \in Proc, v, u \in Va :
        /\ t[p][v] # NULL /\ t[q][u] # NULL /\ (p # q \/ v # u)
        /\ t[p][v].page = t[q][u].page
        => p # q /\ v = u /\ ~t[p][v].w

LEMMA SharedIsShared ==
    /\ SharedAreReadOnly <=> (~ExplicitSharing => SharedIn(mm.pte))
    /\ SharedAreReadOnly' <=> (~ExplicitSharing => SharedIn(mm'.pte))
  <1>1. SharedAreReadOnly <=> (~ExplicitSharing => SharedIn(mm.pte))
    <2>1. ASSUME SharedAreReadOnly, ~ExplicitSharing PROVE SharedIn(mm.pte)
      <3> SUFFICES ASSUME NEW p \in Proc, NEW q \in Proc, NEW v \in Va, NEW u \in Va,
                          mm.pte[p][v] # NULL, mm.pte[q][u] # NULL, p # q \/ v # u,
                          mm.pte[p][v].page = mm.pte[q][u].page
                   PROVE  p # q /\ v = u /\ ~mm.pte[p][v].w
        BY DEF SharedIn
      <3>1. <<p, v>> \in Mappings /\ <<q, u>> \in Mappings /\ <<p, v>> # <<q, u>>
        BY DEF Mappings, Entry
      <3> QED
        BY <2>1, <3>1 DEF SharedAreReadOnly, Entry
    <2>2. ASSUME SharedIn(mm.pte) PROVE SharedAreReadOnly
      BY <2>2 DEF SharedIn, SharedAreReadOnly, Mappings, Entry
    <2>3. ExplicitSharing => SharedAreReadOnly
      BY DEF SharedAreReadOnly
    <2> QED
      BY <2>1, <2>2, <2>3
  <1>2. SharedAreReadOnly' <=> (~ExplicitSharing => SharedIn(mm'.pte))
    <2>1. ASSUME SharedAreReadOnly', ~ExplicitSharing PROVE SharedIn(mm'.pte)
      <3> SUFFICES ASSUME NEW p \in Proc, NEW q \in Proc, NEW v \in Va, NEW u \in Va,
                          mm'.pte[p][v] # NULL, mm'.pte[q][u] # NULL, p # q \/ v # u,
                          mm'.pte[p][v].page = mm'.pte[q][u].page
                   PROVE  p # q /\ v = u /\ ~mm'.pte[p][v].w
        BY DEF SharedIn
      <3>1. <<p, v>> \in Mappings' /\ <<q, u>> \in Mappings' /\ <<p, v>> # <<q, u>>
        BY DEF Mappings, Entry
      <3> QED
        BY <2>1, <3>1 DEF SharedAreReadOnly, Entry
    <2>2. ASSUME SharedIn(mm'.pte) PROVE SharedAreReadOnly'
      BY <2>2 DEF SharedIn, SharedAreReadOnly, Mappings, Entry
    <2>3. ExplicitSharing => SharedAreReadOnly'
      BY DEF SharedAreReadOnly
    <2> QED
      BY <2>1, <2>2, <2>3
  <1> QED
    BY <1>1, <1>2

\* An entry for a page that nobody maps, or no entry at all.
LEMMA ReplacedShared ==
    ASSUME NEW t \in PteType, SharedIn(t), NEW p \in Proc, NEW va \in Va, NEW e,
           e = NULL \/ \A q \in Proc, u \in Va : t[q][u] # NULL => t[q][u].page # e.page
    PROVE  SharedIn([t EXCEPT ![p][va] = e])
  <1> DEFINE r == [t EXCEPT ![p][va] = e]
  <1>1. \A q \in Proc, u \in Va : r[q][u] = IF q = p /\ u = va THEN e ELSE t[q][u]
    BY DEF PteType
  <1> HIDE DEF r
  <1>2. SharedIn(r)
    BY <1>1 DEF SharedIn
  <1> QED
    BY <1>2 DEF r

\* An entry that is not writable in place of another of its page.
LEMMA MarkedShared ==
    ASSUME NEW t \in PteType, SharedIn(t), NEW p \in Proc, NEW va \in Va, t[p][va] # NULL,
           NEW e, e.page = t[p][va].page, ~e.w
    PROVE  SharedIn([t EXCEPT ![p][va] = e])
  <1> DEFINE r == [t EXCEPT ![p][va] = e]
  <1>1. \A q \in Proc, u \in Va : r[q][u] = IF q = p /\ u = va THEN e ELSE t[q][u]
    BY DEF PteType
  <1> HIDE DEF r
  <1>2. SharedIn(r)
    BY <1>1 DEF SharedIn
  <1> QED
    BY <1>2 DEF r

\* The same entry, not writable, at the same place of another process.
LEMMA CopiedShared ==
    ASSUME NEW t \in PteType, SharedIn(t), NEW p \in Proc, NEW c \in Proc, NEW va \in Va,
           p # c, t[p][va] # NULL, t[c][va] = NULL, ~t[p][va].w
    PROVE  SharedIn([t EXCEPT ![c][va] = t[p][va]])
  <1> DEFINE r == [t EXCEPT ![c][va] = t[p][va]]
  <1>1. \A q \in Proc, u \in Va : r[q][u] = IF q = c /\ u = va THEN t[p][va] ELSE t[q][u]
    BY DEF PteType
  <1> HIDE DEF r
  <1>2. ASSUME NEW q \in Proc, NEW o \in Proc, NEW v \in Va, NEW u \in Va,
               r[q][v] # NULL, r[o][u] # NULL, q # o \/ v # u, r[q][v].page = r[o][u].page
        PROVE  q # o /\ v = u /\ ~r[q][v].w
    <2>1. CASE q = c /\ v = va
      <3>1. r[o][u] = t[o][u]
        BY <1>1, <1>2, <2>1
      <3>2. CASE o = p /\ u = va
        BY <1>1, <2>1, <3>2
      <3>3. CASE ~(o = p /\ u = va)
        <4>1. p # o /\ va = u
          BY <1>1, <1>2, <2>1, <3>1, <3>3 DEF SharedIn
        <4>2. o # c
          BY <1>2, <3>1, <4>1
        <4> QED
          BY <1>1, <2>1, <4>1, <4>2
      <3> QED
        BY <3>2, <3>3
    <2>2. CASE ~(q = c /\ v = va)
      <3>1. r[q][v] = t[q][v]
        BY <1>1, <2>2
      <3>2. CASE o = c /\ u = va
        <4>1. r[o][u] = t[p][va]
          BY <1>1, <3>2
        <4>2. CASE q = p /\ v = va
          BY <3>1, <3>2, <4>2
        <4>3. CASE ~(q = p /\ v = va)
          <5>1. q # p /\ v = va /\ ~t[q][v].w
            BY <1>2, <3>1, <4>1, <4>3 DEF SharedIn
          <5>2. q # c
            BY <1>2, <3>1, <5>1
          <5> QED
            BY <3>1, <3>2, <5>1, <5>2
        <4> QED
          BY <4>2, <4>3
      <3>3. CASE ~(o = c /\ u = va)
        BY <1>1, <1>2, <3>1, <3>3 DEF SharedIn
      <3> QED
        BY <3>2, <3>3
    <2> QED
      BY <2>1, <2>2
  <1>3. SharedIn(r)
    BY <1>2 DEF SharedIn
  <1> QED
    BY <1>3 DEF r

-----------------------------------------------------------------------------
(* The invariant holds.                                                    *)

LEMMA InitEstablishesIInv == Init => IInv
  <1> SUFFICES ASSUME Init PROVE IInv
    OBVIOUS
  <1>1. /\ mm = [pte       |-> [p \in Proc |-> [va \in Va |-> NULL]],
                 table     |-> [p \in Proc |-> [t \in Table |-> NULL]],
                 setup     |-> [p \in Proc |-> <<>>],
                 ref       |-> [pg \in Page |-> 1],
                 freePages |-> pages_init]
        /\ forking = NULL /\ booting = TRUE /\ halted = FALSE
        /\ content \in [Page -> Data]
    BY DEF Init
  <1>2. /\ PageNum \in Nat
        /\ \A i \in 1 .. PageNum : pages_init[i] = PageNum + 1 - i
        /\ \A i \in 1 .. PageNum : PageNum + 1 - i \in Page
        /\ DOMAIN pages_init = 1 .. PageNum
    BY SizesAssumption DEF pages_init, Page
  <1>3. pages_init \in Seq(Page) /\ Len(pages_init) = PageNum
    <2>1. pages_init \in [1 .. PageNum -> Page]
      BY <1>2 DEF pages_init
    <2> QED
      BY <1>2, <2>1, SMT
  <1>4. IsInjective(pages_init)
    <2> SUFFICES ASSUME NEW i \in 1 .. PageNum, NEW j \in 1 .. PageNum,
                        pages_init[i] = pages_init[j]
                 PROVE  i = j
      BY <1>2 DEF IsInjective
    <2>1. PageNum + 1 - i = PageNum + 1 - j
      BY <1>2
    <2> QED
      BY <1>2, <2>1
  <1>5. LiveIn(mm) = {} /\ Live = {}
    BY <1>1 DEF LiveIn, Live
  <1>6. \A p \in Proc, va \in Va : mm.pte[p][va] = NULL
    BY <1>1
  <1>7. \A p \in Proc, t \in Table : mm.table[p][t] = NULL
    BY <1>1
  <1>8. \A pg \in Page : /\ Maps(mm, pg) = {} /\ Tables(mm, pg) = {}
                         /\ Setup(mm, pg) = {} /\ OwnStack(mm, pg) = {}
                         /\ Identity(mm, pg) = {}
    <2>1. \A pg \in Page : Maps(mm, pg) = {} /\ Tables(mm, pg) = {}
      BY <1>6, <1>7, NullAssumption DEF Maps, Tables
    <2>2. \A p \in Proc : mm.setup[p] = <<>> /\ Len(mm.setup[p]) = 0
      BY <1>1
    <2>3. Range(<<>>) = {}
      BY DEF Range
    <2>4. \A pg \in Page : Setup(mm, pg) = {}
      BY <2>2, <2>3 DEF Setup
    <2>5. \A pg \in Page : OwnStack(mm, pg) = {}
      BY <1>5 DEF OwnStack
    <2>6. \A pg \in Page : IdentityAfter[pg] \in Nat \ {0}
      BY SetupAssumption, SizesAssumption
    <2>7. \A pg \in Page : Identity(mm, pg) = {}
      BY <2>2, <2>6 DEF Identity
    <2> QED
      BY <2>1, <2>4, <2>5, <2>7
  <1>9. Good(mm)
    <2>1. mm \in Manager
      <3>1. [p \in Proc |-> [va \in Va |-> NULL]] \in PteType
        BY DEF PteType
      <3>2. [p \in Proc |-> [t \in Table |-> NULL]] \in TableType
        BY DEF TableType
      <3>3. [pg \in Page |-> 1] \in [Page -> Nat]
        OBVIOUS
      <3>4. [p \in Proc |-> <<>>] \in SetupType
        BY DEF SetupType
      <3> QED
        BY <1>1, <1>3, <3>1, <3>2, <3>3, <3>4 DEF Manager
    <2>2. CountsExact(mm)
      <3>1. \A pg \in Page : mm.ref[pg] = 1
        BY <1>1
      <3>2. Cardinality({}) = 0
        BY FS_EmptySet
      <3>3. \A pg \in Page : Count(mm, pg) = 1 + 0 + 0 + 0 + 0 + 0
        BY <1>8, <3>2 DEF Count, Fixed
      <3> QED
        BY <3>1, <3>3 DEF CountsExact
    <2>3. FreeUnused(mm)
      <3>1. mm.freePages = pages_init
        BY <1>1
      <3>2. \A pg \in Range(pages_init) : pg \in Page
        BY <1>2 DEF Range
      <3> QED
        BY <1>4, <1>8, <3>1, <3>2 DEF FreeUnused
    <2>4. Exclusive(mm)
      BY <1>8 DEF Exclusive
    <2>5. TablesThere(mm)
      BY <1>6 DEF TablesThere
    <2> QED
      BY <2>1, <2>2, <2>3, <2>4, <2>5 DEF Good
  <1>10. BaseInv
    <2>1. FirstBorn
      BY <1>1, <1>3, <1>5, SizesAssumption DEF FirstBorn
    <2> QED
      BY <1>1, <1>9, <2>1 DEF BaseInv, ForkTyped
  <1>11. UnbornMapNothing /\ ForkCopies
    BY <1>1, <1>6 DEF UnbornMapNothing, ForkCopies, Entry
  <1>12. SharedAreReadOnly
    <2>1. SharedIn(mm.pte)
      BY <1>6 DEF SharedIn
    <2> QED
      BY <2>1, SharedIsShared
  <1> QED
    BY <1>10, <1>11, <1>12 DEF IInv

\* Nothing but halted changes.
LEMMA QuietKeepsIInv ==
    ASSUME IInv, UNCHANGED <<mm, content, forking, booting>>, halted' \in BOOLEAN
    PROVE  IInv'
  <1>1. BaseInv'
    BY DEF IInv, BaseInv, ForkTyped, FirstBorn, Live
  <1>2. UnbornMapNothing' /\ ForkCopies'
    BY DEF IInv, UnbornMapNothing, ForkCopies, StandsFor, CanAlloc, Live, Entry
  <1>3. SharedAreReadOnly'
    BY SharedIsShared DEF IInv
  <1> QED
    BY <1>1, <1>2, <1>3 DEF IInv

\* While no fork is under way the processes there are, or one more, have the
\* entries they had, or one more.
LEMMA EntryKeepsIInv ==
    ASSUME IInv, Good(mm'), FirstBorn', content' \in [Page -> Data], halted' \in BOOLEAN,
           forking = NULL, UNCHANGED <<forking, booting>>, Live \subseteq Live',
           NEW p \in Proc, NEW va \in Va, NEW e,
           \/ mm'.pte = mm.pte
           \/ mm'.pte = [mm.pte EXCEPT ![p][va] = e] /\ p \in Live',
           \/ ExplicitSharing
           \/ e = NULL
           \/ \A q \in Proc, u \in Va : mm.pte[q][u] # NULL => mm.pte[q][u].page # e.page
    PROVE  IInv'
  <1>1. mm.pte \in PteType
    BY DEF IInv, BaseInv, Good, Manager
  <1>2. BaseInv'
    BY DEF IInv, BaseInv, ForkTyped
  <1>3. UnbornMapNothing'
    <2>1. CASE mm'.pte = mm.pte
      BY <2>1 DEF IInv, UnbornMapNothing, Entry
    <2>2. CASE mm'.pte = [mm.pte EXCEPT ![p][va] = e] /\ p \in Live'
      <3>1. \A q \in Proc, u \in Va :
                mm'.pte[q][u] = IF q = p /\ u = va THEN e ELSE mm.pte[q][u]
        BY <1>1, <2>2 DEF PteType
      <3> QED
        BY <2>2, <3>1 DEF IInv, UnbornMapNothing, Entry
    <2> QED
      BY <2>1, <2>2
  <1>4. ForkCopies'
    BY DEF ForkCopies
  <1>5. SharedAreReadOnly'
    <2>1. CASE ExplicitSharing
      BY <2>1 DEF SharedAreReadOnly
    <2>2. CASE ~ExplicitSharing
      <3>1. PICK t \in PteType : t = mm.pte
        BY <1>1
      <3>2. SharedIn(t)
        BY <2>2, <3>1, SharedIsShared DEF IInv
      <3>3. SharedIn([t EXCEPT ![p][va] = e])
        BY <2>2, <3>1, <3>2, ReplacedShared
      <3>4. mm'.pte = t \/ mm'.pte = [t EXCEPT ![p][va] = e]
        BY <3>1
      <3>5. SharedIn(mm'.pte)
        BY <3>2, <3>3, <3>4
      <3> QED
        BY <3>5, SharedIsShared
    <2> QED
      BY <2>1, <2>2
  <1> QED
    BY <1>2, <1>3, <1>4, <1>5 DEF IInv

LEMMA FreshKeepsIInv ==
    ASSUME IInv, Good(mm'), FirstBorn', halted' \in BOOLEAN,
           forking = NULL, UNCHANGED <<forking, booting>>, Live \subseteq Live',
           NEW p \in Live', NEW va \in Va, NEW perm \in Perm, NEW v \in Data,
           Fresh(p, va, perm, v) \/ Lost(v)
    PROVE  IInv'
  <1>1. PICK pg \in Page :
          /\ Maps(mm, pg) = {}
          /\ mm'.pte = mm.pte \/ mm'.pte = [mm.pte EXCEPT ![p][va] = EntryFor(pg, perm)]
          /\ content' = [content EXCEPT ![pg] = v]
    BY DEF Fresh, Lost
  <1>2. content' \in [Page -> Data]
    BY <1>1 DEF IInv, BaseInv
  <1>3. PICK e \in Pte : e = EntryFor(pg, perm) /\ e.page = pg
    BY EntryTyped
  <1>4. \A q \in Proc, u \in Va : mm.pte[q][u] # NULL => mm.pte[q][u].page # e.page
    <2>1. ASSUME NEW q \in Proc, NEW u \in Va, mm.pte[q][u] # NULL, mm.pte[q][u].page = pg
          PROVE  FALSE
      <3>1. <<q, u>> \in Maps(mm, pg)
        BY <2>1 DEF Maps
      <3> QED
        BY <1>1, <3>1
    <2> QED
      BY <1>3, <2>1
  <1>5. p \in Proc /\ (mm'.pte = mm.pte \/ mm'.pte = [mm.pte EXCEPT ![p][va] = e])
    BY <1>1, <1>3 DEF Live
  <1> QED
    BY <1>2, <1>4, <1>5, EntryKeepsIInv

\* The processes stay.
LEMMA RunsKeepFirstBorn ==
    ASSUME BaseInv, Runs, NEW p \in Live
    PROVE  FirstBorn' /\ Live \subseteq Live' /\ p \in Live'
  <1>1. Live' = Live
    BY RunsKeepsLive DEF Runs
  <1> QED
    BY <1>1 DEF BaseInv, FirstBorn

\* The child of a fork is set up.
LEMMA StartForkKeepsIInv ==
    ASSUME IInv, NEW p \in Proc, NEW c \in Proc, StartFork(p, c)
    PROVE  IInv'
  <1>1. BaseInv
    BY DEF IInv
  <1>2. Good(mm')
    BY <1>1, StartForkStep
  <1>3. \/ Stops
        \/ /\ forking = NULL /\ booting = FALSE /\ p \in Live
           /\ UNCHANGED <<content, booting, halted>>
           /\ mm'.pte = mm.pte /\ Born(c)
           /\ forking' = [parent |-> p, child |-> c, left |-> Va]
    BY <1>1, StartForkStep
  <1>4. CASE Stops
    BY <1>4, QuietKeepsIInv DEF Stops
  <1>5. CASE /\ forking = NULL /\ booting = FALSE /\ p \in Live
             /\ UNCHANGED <<content, booting, halted>>
             /\ mm'.pte = mm.pte /\ Born(c)
             /\ forking' = [parent |-> p, child |-> c, left |-> Va]
    <2>1. /\ c \notin Live /\ Live' = Live \union {c} /\ p # c
          /\ \A va \in Va : mm.pte[c][va] = NULL
      BY <1>5 DEF Born, IInv, UnbornMapNothing, Entry
    <2>2. BaseInv'
      BY <1>1, <1>2, <1>5, <2>1 DEF BaseInv, ForkTyped, FirstBorn, Born
    <2>3. UnbornMapNothing'
      BY <1>5, <2>1 DEF IInv, UnbornMapNothing, Entry
    <2>4. ForkCopies'
      BY <1>5, <2>1 DEF ForkCopies, Entry
    <2>5. SharedAreReadOnly'
      BY <1>5, SharedIsShared DEF IInv
    <2> QED
      BY <2>2, <2>3, <2>4, <2>5 DEF IInv
  <1> QED
    BY <1>3, <1>4, <1>5

\* The walk goes on.
LEMMA ForkPageKeepsIInv ==
    ASSUME IInv, ForkPage
    PROVE  IInv'
  <1> DEFINE p == forking.parent
             c == forking.child
  <1>1. /\ BaseInv /\ UnbornMapNothing /\ ForkCopies /\ mm.pte \in PteType
        /\ forking # NULL /\ p # c
    BY DEF IInv, BaseInv, Good, Manager, ForkPage, ForkCopies
  <1>2. /\ Good(mm') /\ mm'.setup = mm.setup /\ UNCHANGED <<content, booting, halted>>
        /\ CanAlloc(mm') => CanAlloc(mm)
    BY <1>1, ForkPageStep
  <1>3. PICK va \in forking.left :
          forking' = [forking EXCEPT !.left = @ \ {va}] /\ Walked(p, c, va)
    BY <1>1, ForkPageStep
  <1>4. /\ forking \in [parent : Live, child : Live, left : SUBSET Va]
        /\ p \in Live /\ c \in Live /\ p \in Proc /\ c \in Proc /\ va \in Va
        /\ mm.pte[c][va] = NULL
    BY <1>1 DEF BaseInv, ForkTyped, ForkCopies, Live, Entry
  <1>5. /\ forking'.parent = p /\ forking'.child = c /\ forking'.left = forking.left \ {va}
        /\ forking' \in [parent : Live, child : Live, left : SUBSET Va]
    BY <1>3, <1>4
  <1>6. Live' = Live
    BY <1>2, RunsKeepsLive
  <1> HIDE DEF p, c
  <1>7. BaseInv'
    <2>1. FirstBorn'
      BY <1>1, <1>4, <1>6 DEF BaseInv, FirstBorn
    <2> QED
      BY <1>1, <1>2, <1>5, <1>6, <2>1 DEF BaseInv, ForkTyped
  \* The entries of the other processes and pages stay.
  <1>8. \A q \in Proc, u \in Va :
            (q # p /\ q # c) \/ u # va => mm'.pte[q][u] = mm.pte[q][u]
    BY <1>1, <1>3, <1>4 DEF PteType, Walked
  <1>9. UnbornMapNothing'
    BY <1>1, <1>4, <1>6, <1>8 DEF UnbornMapNothing, Entry
  <1>10. \/ mm'.pte[c][va] = mm'.pte[p][va]
         \/ /\ mm'.pte[c][va] = NULL
            /\ ~CanAlloc(mm') \/ (mm'.pte[p][va] # NULL /\ ~mm'.pte[p][va].u)
    <2>1. CASE (Entry(p, va) = NULL \/ ~Entry(p, va).u) /\ mm' = mm
      BY <1>4, <2>1 DEF Entry
    <2>2. CASE /\ mm'.pte = [mm.pte EXCEPT ![p][va] = Marked(Entry(p, va))]
               /\ ~CanAlloc(mm')
      BY <1>1, <1>4, <2>2 DEF PteType
    <2>3. CASE mm'.pte = [[mm.pte EXCEPT ![p][va] = Marked(Entry(p, va))]
                              EXCEPT ![c][va] = Marked(Entry(p, va))]
      BY <1>1, <1>4, <2>3 DEF PteType
    <2> QED
      BY <1>3, <2>1, <2>2, <2>3 DEF Walked
  <1>11. ForkCopies'
    <2>1. \A u \in forking'.left : mm'.pte[c][u] = NULL
      BY <1>1, <1>4, <1>5, <1>8 DEF ForkCopies, Entry, c
    <2>2. ASSUME NEW u \in Va \ forking'.left
          PROVE  \/ mm'.pte[c][u] = mm'.pte[p][u]
                 \/ /\ mm'.pte[c][u] = NULL
                    /\ ~CanAlloc(mm') \/ (mm'.pte[p][u] # NULL /\ ~mm'.pte[p][u].u)
      <3>1. CASE u = va
        BY <1>10, <3>1
      <3>2. CASE u # va
        <4>1. \/ mm.pte[c][u] = mm.pte[p][u]
              \/ /\ mm.pte[c][u] = NULL
                 /\ ~CanAlloc(mm) \/ (mm.pte[p][u] # NULL /\ ~mm.pte[p][u].u)
          BY <1>1, <1>5, <2>2, <3>2 DEF ForkCopies, StandsFor, Entry, p, c
        <4> QED
          BY <1>2, <1>4, <1>8, <3>2, <4>1
      <3> QED
        BY <3>1, <3>2
    <2> QED
      BY <1>1, <1>5, <2>1, <2>2 DEF ForkCopies, StandsFor, Entry
  <1>12. SharedAreReadOnly'
    <2>1. CASE ExplicitSharing
      BY <2>1 DEF SharedAreReadOnly
    <2>2. CASE ~ExplicitSharing
      <3>1. PICK t \in PteType : t = mm.pte
        BY <1>1
      <3>2. SharedIn(t)
        BY <2>2, <3>1, SharedIsShared DEF IInv
      <3>3. CASE mm' = mm
        BY <3>1, <3>2, <3>3, SharedIsShared
      <3>4. CASE Entry(p, va) \in Pte /\ Entry(p, va) # NULL
        <4>1. PICK e \in Pte : e = Marked(Entry(p, va)) /\ e.page = t[p][va].page /\ ~e.w
                               /\ e # NULL
          BY <3>1, <3>4, MarkedEntry DEF Entry
        <4>2. PICK s : s = [t EXCEPT ![p][va] = e]
          OBVIOUS
        <4>3. t[p][va] # NULL
          BY <3>1, <3>4 DEF Entry
        <4>4. SharedIn(s)
          BY <1>4, <3>2, <4>1, <4>2, <4>3, MarkedShared
        <4>5. s \in PteType /\ s[p][va] = e /\ s[c][va] = NULL
          BY <1>1, <1>4, <3>1, <4>2 DEF PteType
        <4>6. SharedIn([s EXCEPT ![c][va] = s[p][va]])
          BY <1>1, <1>4, <4>1, <4>4, <4>5, CopiedShared
        <4>7. mm'.pte = s \/ mm'.pte = [s EXCEPT ![c][va] = s[p][va]] \/ mm' = mm
          BY <1>3, <3>1, <4>1, <4>2, <4>5 DEF Walked
        <4>8. SharedIn(mm'.pte)
          BY <3>1, <3>2, <4>4, <4>6, <4>7
        <4> QED
          BY <4>8, SharedIsShared
      <3> QED
        BY <1>3, <3>3, <3>4 DEF Walked
    <2> QED
      BY <2>1, <2>2
  <1> QED
    BY <1>7, <1>9, <1>11, <1>12 DEF IInv

\* The fork is over.
LEMMA EndForkKeepsIInv ==
    ASSUME IInv, EndFork
    PROVE  IInv'
  <1>1. UNCHANGED <<mm, content, booting, halted>> /\ forking' = NULL
    BY DEF EndFork
  <1>2. BaseInv' /\ UnbornMapNothing' /\ ForkCopies'
    BY <1>1 DEF IInv, BaseInv, ForkTyped, FirstBorn, UnbornMapNothing, ForkCopies, Entry, Live
  <1>3. SharedAreReadOnly'
    BY <1>1, SharedIsShared DEF IInv
  <1> QED
    BY <1>2, <1>3 DEF IInv

\* Boot is over.
LEMMA EndBootKeepsIInv ==
    ASSUME IInv, EndBoot
    PROVE  IInv'
  <1>1. UNCHANGED <<mm, content, forking, halted>> /\ booting' = FALSE /\ booting = TRUE
    BY DEF EndBoot, IInv, BaseInv
  <1>2. forking = NULL
    BY <1>1 DEF IInv, BaseInv, ForkTyped
  <1>3. BaseInv' /\ UnbornMapNothing' /\ ForkCopies'
    BY <1>1, <1>2
       DEF IInv, BaseInv, ForkTyped, FirstBorn, UnbornMapNothing, ForkCopies, Entry, Live
  <1>4. SharedAreReadOnly'
    BY <1>1, SharedIsShared DEF IInv
  <1> QED
    BY <1>3, <1>4 DEF IInv

\* A program is loaded, with or without memory.
LEMMA CreateKeepsIInv ==
    ASSUME IInv, NEW p \in Proc, Create(p)
    PROVE  IInv'
  <1>1. BaseInv
    BY DEF IInv
  <1>2. /\ Good(mm') /\ p \notin Live
        /\ booting = TRUE /\ UNCHANGED <<forking, booting>> /\ halted' \in BOOLEAN
        /\ \/ Born(p) /\ \E v \in Data : Fresh(p, ProgramVa, ReadWrite, v) \/ Lost(v)
           \/ UNCHANGED content /\ mm'.pte = mm.pte /\ (Born(p) \/ mm' = mm)
    BY <1>1, CreateStep
  <1>3. forking = NULL
    BY <1>1, <1>2 DEF BaseInv, ForkTyped
  <1>4. CASE Born(p)
    <2>1. FirstBorn' /\ Live \subseteq Live' /\ p \in Live'
      BY <1>4 DEF Born, FirstBorn
    <2>2. CASE \E v \in Data : Fresh(p, ProgramVa, ReadWrite, v) \/ Lost(v)
      <3>1. PICK v \in Data : Fresh(p, ProgramVa, ReadWrite, v) \/ Lost(v)
        BY <2>2
      <3> QED
        BY <1>2, <1>3, <2>1, <3>1, ReadWriteTyped, VaAssumption, FreshKeepsIInv
    <2>3. CASE UNCHANGED content /\ mm'.pte = mm.pte
      <3>1. content' \in [Page -> Data]
        BY <1>1, <2>3 DEF BaseInv
      <3>2. PICK e : e = NULL
        OBVIOUS
      <3> QED
        BY <1>2, <1>3, <2>1, <2>3, <3>1, <3>2, VaAssumption, EntryKeepsIInv
    <2> QED
      BY <1>2, <2>2, <2>3
  <1>5. CASE UNCHANGED content /\ mm' = mm
    BY <1>2, <1>5, QuietKeepsIInv
  <1> QED
    BY <1>2, <1>4, <1>5

\* Every step of the specification preserves the invariant.
LEMMA NextPreservesIInv == IInv /\ [Next]_vars => IInv'
  <1> SUFFICES ASSUME IInv, [Next]_vars PROVE IInv'
    OBVIOUS
  <1>1. /\ BaseInv /\ Good(mm) /\ Zero \in Data /\ content \in [Page -> Data]
        /\ mm.pte \in PteType /\ halted \in BOOLEAN /\ ReadWrite \in Perm
        /\ Asked \subseteq Perm
    BY ValueAssumption, ReadWriteTyped DEF IInv, BaseInv, Good, Manager
  <1>2. CASE ForkPage
    BY <1>2, ForkPageKeepsIInv
  <1>3. CASE EndFork
    BY <1>3, EndForkKeepsIInv
  <1>4. CASE EndBoot
    BY <1>4, EndBootKeepsIInv
  <1>5. ASSUME NEW p \in Proc, Create(p) PROVE IInv'
    BY <1>5, CreateKeepsIInv
  <1>6. ASSUME NEW p \in Proc, RunHalfMade(p) \/ pgdir_free(p) PROVE IInv'
    BY <1>6, QuietKeepsIInv DEF RunHalfMade, pgdir_free, Halt
  <1>7. ASSUME NEW p \in Proc, NEW c \in Proc, StartFork(p, c) PROVE IInv'
    BY <1>7, StartForkKeepsIInv
  <1>8. ASSUME NEW p \in Proc, NEW va \in Va, Store(p, va) PROVE IInv'
    <2>1. content' \in [Page -> Data] /\ UNCHANGED <<mm, forking, booting, halted>>
      BY <1>1, <1>8 DEF Store
    <2>2. BaseInv' /\ UnbornMapNothing' /\ ForkCopies'
      BY <2>1 DEF IInv, BaseInv, ForkTyped, FirstBorn, UnbornMapNothing, ForkCopies,
                  StandsFor, CanAlloc, Entry, Live
    <2>3. SharedAreReadOnly'
      BY <2>1, SharedIsShared DEF IInv
    <2> QED
      BY <2>2, <2>3 DEF IInv
  <1>9. ASSUME NEW p \in Proc, NEW va \in Va, pageout(p, va) PROVE IInv'
    <2>1. Good(mm')
      BY <1>1, <1>9, PageoutStep
    <2>2. \/ Stops
          \/ Runs /\ p \in Live /\ (Fresh(p, va, ReadWrite, Zero) \/ Lost(Zero))
      BY <1>1, <1>9, PageoutStep
    <2>3. CASE Stops
      BY <2>3, QuietKeepsIInv DEF Stops
    <2>4. CASE Runs /\ p \in Live /\ (Fresh(p, va, ReadWrite, Zero) \/ Lost(Zero))
      <3>1. FirstBorn' /\ Live \subseteq Live' /\ p \in Live'
        BY <1>1, <2>4, RunsKeepFirstBorn
      <3>2. forking = NULL /\ UNCHANGED <<forking, booting>> /\ halted' \in BOOLEAN
        BY <2>4 DEF Runs
      <3> QED
        BY <1>1, <2>1, <2>4, <3>1, <3>2, FreshKeepsIInv
    <2> QED
      BY <2>2, <2>3, <2>4
  <1>10. ASSUME NEW p \in Proc, NEW va \in Va, Fault(p, va) PROVE IInv'
    <2>1. Good(mm')
      BY <1>1, <1>10, FaultStep
    <2>2. \/ Stops
          \/ /\ Runs /\ p \in Live
             /\ Entry(p, va) # NULL /\ CopyPerm(Entry(p, va)) \in Perm
             /\ Fresh(p, va, CopyPerm(Entry(p, va)), content[Entry(p, va).page])
      BY <1>1, <1>10, FaultStep
    <2>3. CASE Stops
      BY <2>3, QuietKeepsIInv DEF Stops
    <2>4. CASE /\ Runs /\ p \in Live
               /\ Entry(p, va) # NULL /\ CopyPerm(Entry(p, va)) \in Perm
               /\ Fresh(p, va, CopyPerm(Entry(p, va)), content[Entry(p, va).page])
      <3>1. FirstBorn' /\ Live \subseteq Live' /\ p \in Live'
        BY <1>1, <2>4, RunsKeepFirstBorn
      <3>2. PICK v \in Data : v = content[Entry(p, va).page]
        <4>1. Entry(p, va) \in Pte
          BY <1>1, <2>4 DEF Entry, PteType, Live
        <4> QED
          BY <1>1, <4>1 DEF Pte
      <3>3. PICK perm \in Perm : perm = CopyPerm(Entry(p, va))
        BY <2>4
      <3>4. Fresh(p, va, perm, v)
        BY <2>4, <3>2, <3>3
      <3>5. forking = NULL /\ UNCHANGED <<forking, booting>> /\ halted' \in BOOLEAN
        BY <2>4 DEF Runs
      <3> QED
        BY <2>1, <3>1, <3>4, <3>5, FreshKeepsIInv
    <2> QED
      BY <2>2, <2>3, <2>4
  <1>11. ASSUME NEW p \in Proc, NEW va \in Va, syscallUnmapMemoryFrom(p, va) PROVE IInv'
    <2>1. Good(mm')
      BY <1>1, <1>11, UnmapStep
    <2>2. /\ Runs /\ UNCHANGED content /\ p \in Live
          /\ mm'.pte = [mm.pte EXCEPT ![p][va] = NULL]
      BY <1>1, <1>11, UnmapStep
    <2>3. FirstBorn' /\ Live \subseteq Live' /\ p \in Live' /\ content' \in [Page -> Data]
      BY <1>1, <2>2, RunsKeepFirstBorn
    <2>4. forking = NULL /\ UNCHANGED <<forking, booting>> /\ halted' \in BOOLEAN
      BY <2>2 DEF Runs
    <2>5. PICK e : e = NULL
      OBVIOUS
    <2>6. mm'.pte = [mm.pte EXCEPT ![p][va] = e]
      BY <2>2, <2>5
    <2> QED
      BY <2>1, <2>3, <2>4, <2>5, <2>6, EntryKeepsIInv
  <1>12. ASSUME NEW p \in Proc, NEW va \in Va, NEW perm \in Perm,
                syscallMemoryAlloc(p, va, perm)
         PROVE  IInv'
    <2>1. Good(mm')
      BY <1>1, <1>12, AllocStep
    <2>2. Runs /\ p \in Live /\ (Fresh(p, va, perm, Zero) \/ Lost(Zero))
      BY <1>1, <1>12, AllocStep
    <2>3. FirstBorn' /\ Live \subseteq Live' /\ p \in Live'
      BY <1>1, <2>2, RunsKeepFirstBorn
    <2>4. forking = NULL /\ UNCHANGED <<forking, booting>> /\ halted' \in BOOLEAN
      BY <2>2 DEF Runs
    <2> QED
      BY <1>1, <2>1, <2>2, <2>3, <2>4, FreshKeepsIInv
  <1>13. ASSUME NEW p \in Proc, NEW va \in Va, NEW q \in Proc, NEW qva \in Va,
                NEW perm \in Perm, syscallMapMemoryFromTo(p, va, q, qva, perm)
         PROVE  IInv'
    <2>1. Good(mm')
      BY <1>1, <1>13, MapFromToStep
    <2>2. Runs /\ UNCHANGED content /\ ExplicitSharing /\ q \in Live
      BY <1>1, <1>13, MapFromToStep
    <2>3. Replaced(q, qva)
      BY <1>1, <1>13, MapFromToStep
    <2>4. PICK e : mm'.pte = mm.pte \/ mm'.pte = [mm.pte EXCEPT ![q][qva] = e]
      BY <2>3 DEF Replaced
    <2>5. FirstBorn' /\ Live \subseteq Live' /\ q \in Live' /\ content' \in [Page -> Data]
      BY <1>1, <2>2, RunsKeepFirstBorn
    <2>6. forking = NULL /\ UNCHANGED <<forking, booting>> /\ halted' \in BOOLEAN
      BY <2>2 DEF Runs
    <2> QED
      BY <2>1, <2>2, <2>4, <2>5, <2>6, EntryKeepsIInv
  <1>14. CASE UNCHANGED vars
    BY <1>1, <1>14, QuietKeepsIInv DEF vars
  <1> QED
    BY <1>1, <1>2, <1>3, <1>4, <1>5, <1>6, <1>7, <1>8, <1>9, <1>10, <1>11, <1>12, <1>13,
       <1>14 DEF Next

-----------------------------------------------------------------------------
(* What the invariant says of the properties.                              *)

\* The definitions above are those of AddressSpace.
LEMMA SameDefinitions ==
    \A pg : /\ Maps(mm, pg) = MappingsOf(pg) /\ Tables(mm, pg) = TablesOn(pg)
            /\ Setup(mm, pg) = SetupOn(pg) /\ Identity(mm, pg) = IdentityOn(pg)
            /\ OwnStack(mm, pg) = OwnStackOn(pg)
  <1>1. ASSUME NEW pg PROVE Maps(mm, pg) = MappingsOf(pg)
    BY DEF Maps, MappingsOf, Mappings, Entry
  <1>2. ASSUME NEW pg PROVE /\ Tables(mm, pg) = TablesOn(pg)
                            /\ Setup(mm, pg) = SetupOn(pg)
                            /\ Identity(mm, pg) = IdentityOn(pg)
                            /\ OwnStack(mm, pg) = OwnStackOn(pg)
    BY LiveIsLive DEF Tables, TablesOn, Setup, SetupOn, Identity, IdentityOn, OwnStack,
                      OwnStackOn
  <1> QED
    BY <1>1, <1>2

LEMMA BaseInvTyped == BaseInv => TypeOK
  BY DEF BaseInv, Good, Manager, PteType, TableType, SetupType, ForkTyped, TypeOK

LEMMA BaseInvCounts == BaseInv => RefExact
  <1> SUFFICES ASSUME BaseInv, NEW pg \in Page
               PROVE  mm.ref[pg] =
                        1 + Cardinality(IdentityOn(pg)) + Cardinality(MappingsOf(pg))
                          + Cardinality(TablesOn(pg)) + Cardinality(SetupOn(pg))
                          + Cardinality(OwnStackOn(pg))
    BY DEF RefExact
  <1>1. mm.ref[pg] = Count(mm, pg)
    BY DEF BaseInv, Good, CountsExact
  <1>2. mm.ref[pg] = 1 + Cardinality(Identity(mm, pg)) + Cardinality(Maps(mm, pg))
                       + Cardinality(Tables(mm, pg)) + Cardinality(Setup(mm, pg))
                       + Cardinality(OwnStack(mm, pg))
    BY <1>1, PartsFinite DEF Count, Fixed
  <1> QED
    BY <1>2, SameDefinitions

LEMMA BaseInvFree == BaseInv => FreePagesUnused
  BY SameDefinitions DEF BaseInv, Good, FreeUnused, FreePagesUnused, InUse

LEMMA BaseInvOnePurpose == BaseInv => OnePurpose
  <1> SUFFICES ASSUME BaseInv, NEW pg \in Page
               PROVE  /\ Cardinality(TablesOn(pg)) + Cardinality(SetupOn(pg)) <= 1
                      /\ MappingsOf(pg) # {} => TablesOn(pg) = {} /\ SetupOn(pg) = {}
    BY DEF OnePurpose
  <1>1. /\ \A x, y \in TablesOn(pg) : x = y
        /\ \A p, q \in SetupOn(pg) : p = q
        /\ TablesOn(pg) = {} \/ SetupOn(pg) = {}
        /\ MappingsOf(pg) # {} => TablesOn(pg) = {} /\ SetupOn(pg) = {}
    BY SameDefinitions DEF BaseInv, Good, Exclusive
  <1>2. ASSUME NEW S, \A x, y \in S : x = y PROVE Cardinality(S) \in {0, 1}
    <2>1. CASE S = {}
      BY <2>1, FS_EmptySet
    <2>2. ASSUME NEW x \in S PROVE Cardinality(S) = 1
      <3>1. S = {x}
        BY <1>2
      <3> QED
        BY <3>1, FS_Singleton
    <2> QED
      BY <2>1, <2>2
  <1>3. Cardinality(TablesOn(pg)) \in {0, 1} /\ Cardinality(SetupOn(pg)) \in {0, 1}
    BY <1>1, <1>2
  <1>4. Cardinality(TablesOn(pg)) = 0 \/ Cardinality(SetupOn(pg)) = 0
    BY <1>1, FS_EmptySet
  <1> QED
    BY <1>1, <1>3, <1>4

\* The invariant that everything else follows from: the manager is in order,
\* and a fork under way has copied what it has walked.
THEOREM AddressSpaceInvariant == Spec => []IInv
  BY InitEstablishesIInv, NextPreservesIInv, PTL DEF Spec

\* Every variable has its type: memory.c, process.c.
THEOREM AddressSpaceTypeCorrect == Spec => []TypeOK
  <1>1. IInv => TypeOK
    BY BaseInvTyped DEF IInv
  <1> QED
    BY <1>1, AddressSpaceInvariant, PTL

\* The reference count of a page is the number of ways to reach it, whatever
\* page_insert, page_remove, page_walk, fork and initPgdir have done to it, and
\* wherever memory ran out on the way.
THEOREM CountsAreExact == Spec => []RefExact
  <1>1. IInv => RefExact
    BY BaseInvCounts DEF IInv
  <1> QED
    BY <1>1, AddressSpaceInvariant, PTL

\* No page is free twice, or free and in use: page_alloc never gives away a
\* page that somebody has.
THEOREM FreeAreUnused == Spec => []FreePagesUnused
  <1>1. IInv => FreePagesUnused
    BY BaseInvFree DEF IInv
  <1> QED
    BY <1>1, AddressSpaceInvariant, PTL

\* A page is a table, or a set-up page, or user memory: no store of a program
\* reaches a page table, and page_walk never takes data for entries.
THEOREM PagesServeOnePurpose == Spec => []OnePurpose
  <1>1. IInv => OnePurpose
    BY BaseInvOnePurpose DEF IInv
  <1> QED
    BY <1>1, AddressSpaceInvariant, PTL

\* Without explicit sharing two address spaces share a page only at the same
\* address, and neither can write it: fork marks both entries, and the copy of
\* cowHandler is mapped nowhere else.
THEOREM SharedPagesReadOnly == Spec => []SharedAreReadOnly
  <1>1. IInv => SharedAreReadOnly
    BY DEF IInv
  <1> QED
    BY <1>1, AddressSpaceInvariant, PTL

-----------------------------------------------------------------------------
(* What the programs see.                                                  *)

MemoryType == [Proc -> [Va -> Data \union {NULL}]]

\* What the processes in S see through entries t of pages that hold c.
Visible(e) == e # NULL /\ e.u
View(t, c, S) ==
    [p \in Proc |-> [va \in Va |->
        IF p \in S /\ Visible(t[p][va]) THEN c[t[p][va].page] ELSE NULL]]

LEMMA SeenIsView ==
    /\ SeenMemory = View(mm.pte, content, Seen)
    /\ SeenMemory' = View(mm'.pte, content', Seen')
  BY DEF SeenMemory, View, Visible, Entry

\* No entry of t is of page pg.
Unmapped(t, pg) == \A p \in Proc, va \in Va : t[p][va] # NULL => t[p][va].page # pg

LEMMA NoMapsUnmapped ==
    ASSUME NEW pg, Maps(mm, pg) = {}
    PROVE  Unmapped(mm.pte, pg)
  <1> SUFFICES ASSUME NEW p \in Proc, NEW va \in Va, mm.pte[p][va] # NULL,
                      mm.pte[p][va].page = pg
               PROVE  FALSE
    BY DEF Unmapped
  <1>1. <<p, va>> \in Maps(mm, pg)
    BY DEF Maps
  <1> QED
    BY <1>1

LEMMA ViewTyped ==
    ASSUME NEW t \in PteType, NEW c \in [Page -> Data], NEW S
    PROVE  /\ View(t, c, S) \in MemoryType
           /\ \A p \in Proc, va \in Va :
                t[p][va] # NULL => t[p][va].page \in Page /\ c[t[p][va].page] \in Data
  <1>1. \A p \in Proc, va \in Va :
            t[p][va] # NULL => t[p][va].page \in Page /\ c[t[p][va].page] \in Data
    BY DEF PteType, Pte
  <1>2. View(t, c, S) \in MemoryType
    BY <1>1 DEF View, MemoryType, Visible
  <1> QED
    BY <1>1, <1>2

\* Two memories that agree everywhere but at one page, or in one process.
LEMMA SameMemory ==
    ASSUME NEW M \in MemoryType, NEW N \in MemoryType, NEW p \in Proc
    PROVE  /\ (\A q \in Proc, u \in Va : q # p => N[q][u] = M[q][u])
                => N = [M EXCEPT ![p] = N[p]]
           /\ \A va \in Va :
                (\A q \in Proc, u \in Va : q # p \/ u # va => N[q][u] = M[q][u])
                => N = [M EXCEPT ![p][va] = N[p][va]]
  <1>1. \A q \in Proc : /\ M[q] \in [Va -> Data \union {NULL}]
                        /\ N[q] \in [Va -> Data \union {NULL}]
    BY DEF MemoryType
  <1>2. ASSUME \A q \in Proc, u \in Va : q # p => N[q][u] = M[q][u]
        PROVE  N = [M EXCEPT ![p] = N[p]]
    <2>1. \A q \in Proc : q # p => N[q] = M[q]
      BY <1>1, <1>2
    <2> QED
      BY <2>1 DEF MemoryType
  <1>3. ASSUME NEW va \in Va,
               \A q \in Proc, u \in Va : q # p \/ u # va => N[q][u] = M[q][u]
        PROVE  N = [M EXCEPT ![p][va] = N[p][va]]
    <2>1. \A q \in Proc : q # p => N[q] = M[q]
      BY <1>1, <1>3
    <2>2. N[p] = [M[p] EXCEPT ![va] = N[p][va]]
      BY <1>1, <1>3
    <2> QED
      BY <2>1, <2>2 DEF MemoryType
  <1> QED
    BY <1>2, <1>3

\* A page that nobody maps holds something else: nobody sees it.
LEMMA UnmappedUnseen ==
    ASSUME NEW t \in PteType, NEW c \in [Page -> Data], NEW S,
           NEW pg, Unmapped(t, pg), NEW d, \A x \in Page \ {pg} : d[x] = c[x]
    PROVE  View(t, d, S) = View(t, c, S)
  <1>1. \A p \in Proc, va \in Va : t[p][va] # NULL => d[t[p][va].page] = c[t[p][va].page]
    BY ViewTyped DEF Unmapped
  <1> QED
    BY <1>1 DEF View, Visible

\* With entries r and contents d, page pg holds v and is mapped at va by p; apart
\* from that they are t and c.
Placed(t, c, r, d, p, va, pg, perm, v) ==
    r = [t EXCEPT ![p][va] = EntryFor(pg, perm)] /\ d = [c EXCEPT ![pg] = v]

\* What a program sees in a page with permissions perm.
SeenAs(perm, v) == IF perm.u THEN v ELSE NULL

\* A page that nobody maps gets contents and an entry: seen there only.
LEMMA FreshSeen ==
    ASSUME NEW t \in PteType, NEW c \in [Page -> Data], NEW S, NEW pg \in Page,
           Unmapped(t, pg), NEW v \in Data, NEW p \in Proc, p \in S, NEW va \in Va,
           NEW perm \in Perm,
           NEW r, NEW d, Placed(t, c, r, d, p, va, pg, perm, v)
    PROVE  View(r, d, S) = [View(t, c, S) EXCEPT ![p][va] = SeenAs(perm, v)]
  <1>0. r = [t EXCEPT ![p][va] = EntryFor(pg, perm)] /\ d = [c EXCEPT ![pg] = v]
    BY DEF Placed
  <1>1. \A q \in Proc, u \in Va :
            r[q][u] = IF q = p /\ u = va THEN EntryFor(pg, perm) ELSE t[q][u]
    BY <1>0 DEF PteType
  <1>2. /\ EntryFor(pg, perm) \in Pte /\ EntryFor(pg, perm) # NULL
        /\ EntryFor(pg, perm).page = pg /\ EntryFor(pg, perm).u = perm.u /\ d[pg] = v
    BY <1>0, EntryTyped
  <1>3. \A q \in Proc, u \in Va : t[q][u] # NULL => d[t[q][u].page] = c[t[q][u].page]
    BY <1>0, ViewTyped DEF Unmapped
  <1>4. View(r, d, S)[p][va] = SeenAs(perm, v)
    <2>1. r[p][va] = EntryFor(pg, perm)
      BY <1>1
    <2> QED
      BY <1>2, <2>1 DEF View, Visible, SeenAs
  <1>5. \A q \in Proc, u \in Va :
            q # p \/ u # va => View(r, d, S)[q][u] = View(t, c, S)[q][u]
    BY <1>1, <1>3 DEF View, Visible
  <1>6. r \in PteType /\ d \in [Page -> Data]
    BY <1>0, <1>2 DEF PteType
  <1>7. PICK M \in MemoryType : M = View(t, c, S)
    BY ViewTyped
  <1>8. PICK N \in MemoryType : N = View(r, d, S)
    BY <1>6, ViewTyped
  <1>9. N[p][va] = SeenAs(perm, v)
        /\ \A q \in Proc, u \in Va : q # p \/ u # va => N[q][u] = M[q][u]
    BY <1>4, <1>5, <1>7, <1>8
  <1>10. N = [M EXCEPT ![p][va] = N[p][va]]
    BY <1>9, SameMemory
  <1> QED
    BY <1>7, <1>8, <1>9, <1>10

\* An entry goes: seen there only.
LEMMA ClearedSeen ==
    ASSUME NEW t \in PteType, NEW c \in [Page -> Data], NEW S,
           NEW p \in Proc, NEW va \in Va
    PROVE  View([t EXCEPT ![p][va] = NULL], c, S) = [View(t, c, S) EXCEPT ![p][va] = NULL]
  <1> DEFINE r == [t EXCEPT ![p][va] = NULL]
  <1>1. \A q \in Proc, u \in Va : r[q][u] = IF q = p /\ u = va THEN NULL ELSE t[q][u]
    BY DEF PteType
  <1>2. r \in PteType
    BY DEF PteType
  <1> HIDE DEF r
  <1>3. \A q \in Proc, u \in Va :
            View(r, c, S)[q][u] = IF q = p /\ u = va THEN NULL ELSE View(t, c, S)[q][u]
    BY <1>1 DEF View, Visible
  <1>4. PICK M \in MemoryType : M = View(t, c, S)
    BY ViewTyped
  <1>5. PICK N \in MemoryType : N = View(r, c, S)
    BY <1>2, ViewTyped
  <1>6. N[p][va] = NULL /\ \A q \in Proc, u \in Va : q # p \/ u # va => N[q][u] = M[q][u]
    BY <1>3, <1>4, <1>5
  <1>7. N = [M EXCEPT ![p][va] = N[p][va]]
    BY <1>6, SameMemory
  <1> QED
    BY <1>4, <1>5, <1>6, <1>7 DEF r

\* Another kind of entry for the same page, or any entry of a process nobody
\* sees: not seen.
LEMMA EntryUnseen ==
    ASSUME NEW t \in PteType, NEW c, NEW S, NEW p \in Proc, NEW va \in Va, NEW e,
           \/ p \notin S
           \/ /\ t[p][va] # NULL /\ e # NULL
              /\ e.page = t[p][va].page /\ e.u = t[p][va].u
    PROVE  View([t EXCEPT ![p][va] = e], c, S) = View(t, c, S)
  <1> DEFINE r == [t EXCEPT ![p][va] = e]
  <1>1. \A q \in Proc, u \in Va : r[q][u] = IF q = p /\ u = va THEN e ELSE t[q][u]
    BY DEF PteType
  <1> HIDE DEF r
  <1>2. \A q \in Proc, u \in Va : q \in S =>
            /\ Visible(r[q][u]) <=> Visible(t[q][u])
            /\ Visible(r[q][u]) => r[q][u].page = t[q][u].page
    BY <1>1 DEF Visible
  <1>3. View(r, c, S) = View(t, c, S)
    BY <1>2 DEF View
  <1> QED
    BY <1>3 DEF r

-----------------------------------------------------------------------------
(* What the actions do to the memory the programs see.                     *)

LEMMA StateTyped ==
    BaseInv => /\ mm.pte \in PteType /\ content \in [Page -> Data]
               /\ Zero \in Data /\ NULL \notin Data
  BY ValueAssumption DEF BaseInv, Good, Manager

\* A fresh page under an entry of a process that is seen.
LEMMA FreshIsSeen ==
    ASSUME BaseInv, NEW p \in Proc, NEW va \in Va, NEW perm \in Perm, NEW v \in Data,
           Fresh(p, va, perm, v), p \in Seen'
    PROVE  SeenMemory' = [View(mm.pte, content, Seen') EXCEPT ![p][va] = SeenAs(perm, v)]
  <1>1. PICK pg \in Page :
          /\ Maps(mm, pg) = {} /\ mm'.pte = [mm.pte EXCEPT ![p][va] = EntryFor(pg, perm)]
          /\ content' = [content EXCEPT ![pg] = v]
    BY DEF Fresh
  <1>2. PICK t \in PteType : t = mm.pte
    BY StateTyped
  <1>3. PICK c \in [Page -> Data] : c = content
    BY StateTyped
  <1>4. PICK S : S = Seen'
    OBVIOUS
  <1>5. PICK r : r = [t EXCEPT ![p][va] = EntryFor(pg, perm)]
    OBVIOUS
  <1>6. PICK d : d = [c EXCEPT ![pg] = v]
    OBVIOUS
  <1>7. Unmapped(t, pg) /\ p \in S /\ Placed(t, c, r, d, p, va, pg, perm, v)
    <2>1. Unmapped(t, pg)
      BY <1>1, <1>2, NoMapsUnmapped
    <2>2. Placed(t, c, r, d, p, va, pg, perm, v)
      BY <1>5, <1>6 DEF Placed
    <2> QED
      BY <1>4, <2>1, <2>2
  <1>8. View(r, d, S) = [View(t, c, S) EXCEPT ![p][va] = SeenAs(perm, v)]
    BY <1>7, FreshSeen
  <1> QED
    BY <1>1, <1>2, <1>3, <1>4, <1>5, <1>6, <1>8, SeenIsView

\* A page that is lost was nobody's.
LEMMA LostUnseen ==
    ASSUME BaseInv, NEW v, Lost(v)
    PROVE  SeenMemory' = View(mm.pte, content, Seen')
  <1>1. PICK pg \in Page :
          /\ Maps(mm, pg) = {} /\ mm'.pte = mm.pte /\ content' = [content EXCEPT ![pg] = v]
    BY DEF Lost
  <1>2. PICK t \in PteType : t = mm.pte
    BY StateTyped
  <1>3. Unmapped(t, pg)
    BY <1>1, <1>2, NoMapsUnmapped
  <1>4. PICK c \in [Page -> Data] : c = content
    BY StateTyped
  <1>5. \A x \in Page \ {pg} : content'[x] = c[x]
    BY <1>1, <1>4
  <1>6. View(t, content', Seen') = View(t, c, Seen')
    <2>1. PICK S : S = Seen'
      OBVIOUS
    <2>2. PICK d : d = content'
      OBVIOUS
    <2>3. View(t, d, S) = View(t, c, S)
      BY <1>3, <1>5, <2>2, UnmappedUnseen
    <2> QED
      BY <2>1, <2>2, <2>3
  <1> QED
    BY <1>1, <1>2, <1>4, <1>6, SeenIsView

\* The fork under way, for PrivateMemory.
Copying == IF forking = NULL THEN {} ELSE {<<forking.parent, forking.child>>}

\* When neither a fork nor a process begins or ends the same are seen, and
\* all that live are, between forks.
LEMMA SeenStays ==
    /\ mm'.setup = mm.setup /\ forking' = forking => Seen' = Seen /\ Live' = Live
    /\ forking = NULL => Seen = Live /\ Copying = {}
    /\ forking' = NULL => Seen' = Live' /\ Copying' = {}
  BY DEF Seen, Live, Copying

LEMMA RunsSeen ==
    ASSUME Runs, NEW p \in Live
    PROVE  Seen' = Seen /\ p \in Seen /\ booting = FALSE /\ booting' = booting
           /\ Copying = {} /\ Copying' = Copying
  BY SeenStays DEF Runs

\* The copy of cowHandler holds what the page it replaces held.
LEMMA FaultUnseen ==
    ASSUME BaseInv, NEW p \in Proc, NEW va \in Va, Fault(p, va)
    PROVE  Seen' = Seen /\ SeenMemory' = SeenMemory
           /\ booting' = booting /\ Copying' = Copying
  <1>1. \/ Stops
        \/ /\ Runs /\ p \in Live
           /\ Entry(p, va) # NULL /\ CopyPerm(Entry(p, va)) \in Perm
           /\ Fresh(p, va, CopyPerm(Entry(p, va)), content[Entry(p, va).page])
    BY FaultStep
  <1>2. CASE Stops
    BY <1>2, SeenIsView, SeenStays DEF Stops, Copying
  <1>3. CASE /\ Runs /\ p \in Live
             /\ Entry(p, va) # NULL /\ CopyPerm(Entry(p, va)) \in Perm
             /\ Fresh(p, va, CopyPerm(Entry(p, va)), content[Entry(p, va).page])
    <2>1. Seen' = Seen /\ p \in Seen /\ booting' = booting /\ Copying' = Copying
      BY <1>3, RunsSeen
    <2>2. PICK v \in Data : v = content[mm.pte[p][va].page]
      BY <1>3, StateTyped, ViewTyped DEF Entry
    <2>3. PICK perm \in Perm : perm = CopyPerm(Entry(p, va))
      BY <1>3
    <2>4. Fresh(p, va, perm, v)
      BY <1>3, <2>2, <2>3 DEF Entry
    <2>5. SeenMemory' = [SeenMemory EXCEPT ![p][va] = SeenAs(perm, v)]
      BY <2>1, <2>4, FreshIsSeen, SeenIsView
    <2>6. SeenMemory \in MemoryType
      BY SeenIsView, StateTyped, ViewTyped
    <2>7. SeenMemory[p][va] = SeenAs(perm, v)
      <3>1. perm.u = mm.pte[p][va].u
        BY <2>3 DEF CopyPerm, Entry
      <3> QED
        BY <1>3, <2>1, <2>2, <3>1, SeenIsView DEF View, Visible, SeenAs, Entry
    <2> QED
      BY <2>1, <2>5, <2>6, <2>7 DEF MemoryType
  <1> QED
    BY <1>1, <1>2, <1>3

\* The walk of fork changes the entries of the parent to others of the same
\* pages, and those of a child that is not seen yet.
LEMMA ForkPageUnseen ==
    ASSUME BaseInv, ForkCopies, ForkPage
    PROVE  Seen' = Seen /\ SeenMemory' = SeenMemory
           /\ booting' = booting /\ Copying' = Copying
  <1> DEFINE p == forking.parent
             c == forking.child
  <1>1. forking # NULL /\ p # c
    BY DEF ForkPage, ForkCopies
  <1>2. UNCHANGED <<content, booting>> /\ mm'.setup = mm.setup
    BY <1>1, ForkPageStep
  <1>3. PICK va \in forking.left :
          forking' = [forking EXCEPT !.left = @ \ {va}] /\ Walked(p, c, va)
    BY <1>1, ForkPageStep
  <1>4. /\ forking \in [parent : Live, child : Live, left : SUBSET Va]
        /\ p \in Proc /\ c \in Proc /\ va \in Va
    BY <1>1 DEF BaseInv, ForkTyped, Live
  <1>5. /\ forking'.child = c /\ forking'.parent = p
        /\ forking' \in [parent : Live, child : Live, left : SUBSET Va]
    BY <1>3, <1>4
  <1>6. forking' # NULL
    BY <1>4, <1>5, NullAssumption DEF Live
  <1>7. Seen' = Seen /\ c \notin Seen /\ Copying' = Copying
    BY <1>1, <1>2, <1>5, <1>6 DEF Seen, Live, Copying
  <1> HIDE DEF p, c
  <1>8. CASE mm' = mm
    BY <1>2, <1>7, <1>8, SeenIsView
  <1>9. CASE Entry(p, va) \in Pte /\ Entry(p, va) # NULL
    <2>1. PICK t \in PteType : t = mm.pte
      BY StateTyped
    <2>2. PICK e \in Pte : e = Marked(Entry(p, va)) /\ e.page = t[p][va].page
                           /\ e.u = t[p][va].u /\ e # NULL
      BY <1>9, <2>1, MarkedEntry DEF Entry
    <2>3. PICK s \in PteType : s = [t EXCEPT ![p][va] = e]
      BY <1>4 DEF PteType
    <2>4. PICK S : S = Seen
      OBVIOUS
    <2>5. t[p][va] # NULL /\ c \notin S
      BY <1>7, <1>9, <2>1, <2>4 DEF Entry
    <2>6. View(s, content, S) = View(t, content, S)
      <3>1. p \in Proc /\ va \in Va /\ t[p][va] # NULL /\ e # NULL
            /\ e.page = t[p][va].page /\ e.u = t[p][va].u
        BY <1>4, <2>2, <2>5
      <3>2. View([t EXCEPT ![p][va] = e], content, S) = View(t, content, S)
        BY <3>1, EntryUnseen
      <3> QED
        BY <2>3, <3>2
    <2>7. View([s EXCEPT ![c][va] = e], content, S) = View(s, content, S)
      <3>1. c \in Proc /\ va \in Va
        BY <1>4
      <3> QED
        BY <2>5, <3>1, EntryUnseen
    <2>8. mm'.pte = s \/ mm'.pte = [s EXCEPT ![c][va] = e] \/ mm' = mm
      BY <1>3, <2>1, <2>2, <2>3 DEF Walked
    <2>9. View(mm'.pte, content, S) = View(t, content, S)
      BY <2>1, <2>6, <2>7, <2>8
    <2> QED
      BY <1>2, <1>7, <2>1, <2>4, <2>9, SeenIsView
  <1> QED
    BY <1>3, <1>8, <1>9 DEF Walked

\* Neither what fork does to the entries nor the copy at the first store
\* afterwards changes what a program reads, however the pages were used before
\* and with whomever they are shared.
THEOREM CopyOnWriteIsUnseen == Spec => CopyOnWriteUnseen
  <1>1. BaseInv /\ ForkCopies /\ [Next]_vars
        => [ForkPage \/ (\E p \in Proc, va \in Va : Fault(p, va)) =>
                UNCHANGED SeenMemory]_vars
    BY FaultUnseen, ForkPageUnseen
  <1>2. IInv => BaseInv /\ ForkCopies
    BY DEF IInv
  <1> QED
    BY <1>1, <1>2, AddressSpaceInvariant, PTL DEF Spec, CopyOnWriteUnseen

-----------------------------------------------------------------------------
(* The refinement: each step is one of PrivateMemory, or is not seen.      *)

MemoryStays ==
    Seen' = Seen /\ SeenMemory' = SeenMemory /\ booting' = booting /\ Copying' = Copying

\* Only whether the kernel has stopped changes.
LEMMA StopUnseen == UNCHANGED <<mm, content, forking, booting>> => MemoryStays
  BY SeenIsView, SeenStays DEF MemoryStays, Copying

\* A program is loaded in memory of its own, at boot.
LEMMA CreateIsLoad ==
    ASSUME IInv, IInv', NEW p \in Proc, Create(p)
    PROVE  Memory!Load(p) \/ MemoryStays
  <1>1. BaseInv /\ BaseInv' /\ UnbornMapNothing
    BY DEF IInv
  <1>2. /\ p \notin Live
        /\ booting = TRUE /\ UNCHANGED <<forking, booting>>
        /\ \/ Born(p) /\ \E v \in Data : Fresh(p, ProgramVa, ReadWrite, v) \/ Lost(v)
           \/ UNCHANGED content /\ mm'.pte = mm.pte /\ (Born(p) \/ mm' = mm)
    BY <1>1, CreateStep
  <1>3. forking = NULL /\ Copying' = Copying
    BY <1>1, <1>2 DEF BaseInv, ForkTyped, Copying
  <1>4. CASE UNCHANGED content /\ mm' = mm
    BY <1>2, <1>4, StopUnseen
  <1>5. CASE Born(p)
    <2>1. Seen = Live /\ Seen' = Live \union {p} /\ p \notin Live
      BY <1>2, <1>3, <1>5, SeenStays DEF Born
    <2>2. \A va \in Va : mm.pte[p][va] = NULL
      BY <1>1, <2>1 DEF UnbornMapNothing, Entry
    <2>3. View(mm.pte, content, Seen') = View(mm.pte, content, Seen)
      BY <2>1, <2>2 DEF View, Visible
    <2>4. PICK M \in MemoryType : M = SeenMemory
      BY <1>1, SeenIsView, StateTyped, ViewTyped
    <2>5. M = View(mm.pte, content, Seen')
      BY <2>3, <2>4, SeenIsView
    <2>6. SeenMemory' = M \/ \E v \in Data : SeenMemory' = [M EXCEPT ![p][ProgramVa] = v]
      <3>1. CASE \E v \in Data : Fresh(p, ProgramVa, ReadWrite, v) \/ Lost(v)
        <4>1. PICK v \in Data : Fresh(p, ProgramVa, ReadWrite, v) \/ Lost(v)
          BY <3>1
        <4>2. PICK perm \in Perm : perm = ReadWrite /\ SeenAs(perm, v) = v
          BY ReadWriteTyped DEF SeenAs
        <4>3. CASE Fresh(p, ProgramVa, perm, v)
          <5>1. SeenMemory' = [View(mm.pte, content, Seen')
                                  EXCEPT ![p][ProgramVa] = SeenAs(perm, v)]
            <6>1. p \in Seen' /\ ProgramVa \in Va /\ BaseInv
              BY <1>1, <2>1, VaAssumption
            <6> QED
              BY <4>3, <6>1, FreshIsSeen
          <5> QED
            BY <2>5, <4>2, <5>1
        <4>4. CASE Lost(v)
          <5>1. SeenMemory' = View(mm.pte, content, Seen')
            BY <1>1, <4>4, LostUnseen
          <5> QED
            BY <2>5, <5>1
        <4> QED
          BY <4>1, <4>2, <4>3, <4>4
      <3>2. CASE UNCHANGED content /\ mm'.pte = mm.pte
        <4>1. SeenMemory' = View(mm.pte, content, Seen')
          BY <3>2, SeenIsView
        <4> QED
          BY <2>5, <4>1
      <3> QED
        BY <1>2, <3>1, <3>2
    <2>7. SeenMemory'[p] \in [Va -> Data \union {NULL}]
      BY <2>6, VaAssumption DEF MemoryType
    <2>8. SeenMemory' = [M EXCEPT ![p] = SeenMemory'[p]]
      BY <2>6 DEF MemoryType
    <2> QED
      BY <1>2, <1>3, <2>1, <2>4, <2>7, <2>8 DEF Memory!Load, Copying
  <1> QED
    BY <1>2, <1>4, <1>5

\* main gives the hart to the programs.
LEMMA EndBootIsStart ==
    ASSUME IInv, EndBoot
    PROVE  Memory!Start
  <1>1. /\ UNCHANGED <<mm, content, forking>> /\ booting' = FALSE /\ booting = TRUE
        /\ Live # {}
    BY DEF EndBoot, IInv, BaseInv
  <1>2. forking = NULL
    BY <1>1 DEF IInv, BaseInv, ForkTyped
  <1>3. Seen' = Seen /\ Seen # {} /\ SeenMemory' = SeenMemory
    BY <1>1, <1>2, SeenStays, SeenIsView
  <1> QED
    BY <1>1, <1>3 DEF Memory!Start

\* A change of one page of one process, in the terms of PrivateMemory.
LEMMA ChangeIsChange ==
    ASSUME Runs, NEW p \in Live, NEW va \in Va, NEW v,
           SeenMemory' = [SeenMemory EXCEPT ![p][va] = v]
    PROVE  Memory!Change(p, va, v)
  <1>1. /\ Seen' = Seen /\ p \in Seen /\ booting = FALSE /\ booting' = booting
        /\ Copying = {} /\ Copying' = Copying
    BY RunsSeen
  <1> QED
    BY <1>1 DEF Memory!Change, Copying

\* A store goes to a page that, being writable, nobody else maps.
LEMMA StoreIsStore ==
    ASSUME IInv, IInv', ~ExplicitSharing, NEW p \in Proc, NEW va \in Va, Store(p, va)
    PROVE  Memory!Store(p, va)
  <1>1. BaseInv /\ BaseInv' /\ SharedIn(mm.pte)
    BY SharedIsShared DEF IInv
  <1>2. /\ p \in Live /\ mm' = mm
        /\ mm.pte[p][va] # NULL /\ mm.pte[p][va].w /\ mm.pte[p][va].u
    BY DEF Store, CanRun, Running, Entry
  <1>3. Runs
    BY <1>1 DEF Store, CanRun, Running, Runs, BaseInv
  <1>4. PICK pg \in Page : pg = mm.pte[p][va].page
    BY <1>1, <1>2, StateTyped, ViewTyped
  <1>5. PICK v \in Data : content' = [content EXCEPT ![pg] = v]
    BY <1>4 DEF Store, Entry
  <1>6. Seen' = Seen /\ p \in Seen
    BY <1>2, <1>3, RunsSeen
  <1>7. \A q \in Proc, u \in Va :
            /\ mm.pte[q][u] # NULL => mm.pte[q][u].page \in Page
            /\ mm.pte[q][u] # NULL /\ (q # p \/ u # va) => mm.pte[q][u].page # pg
    <2>1. \A q \in Proc, u \in Va : mm.pte[q][u] # NULL => mm.pte[q][u].page \in Page
      BY <1>1, StateTyped, ViewTyped
    <2>2. ASSUME NEW q \in Proc, NEW u \in Va, mm.pte[q][u] # NULL, q # p \/ u # va,
                 mm.pte[q][u].page = pg
          PROVE  FALSE
      BY <1>1, <1>2, <1>4, <2>2 DEF SharedIn
    <2> QED
      BY <2>1, <2>2
  <1>8. PICK M \in MemoryType : M = SeenMemory
    BY <1>1, SeenIsView, StateTyped, ViewTyped
  <1>9. PICK N \in MemoryType : N = SeenMemory'
    <2>1. mm.pte \in PteType /\ content' \in [Page -> Data]
      BY <1>1, <1>5, StateTyped
    <2>2. View(mm.pte, content', Seen) \in MemoryType
      BY <2>1, ViewTyped
    <2> QED
      BY <1>2, <1>6, <2>2, SeenIsView
  <1>10. content \in [Page -> Data]
    BY <1>1, StateTyped
  <1>11. \A q \in Proc, u \in Va : N[q][u] = IF q = p /\ u = va THEN v ELSE M[q][u]
    BY <1>2, <1>4, <1>5, <1>6, <1>7, <1>8, <1>9, <1>10, SeenIsView DEF View, Visible
  <1>12. N = [M EXCEPT ![p][va] = N[p][va]]
    BY <1>11, SameMemory
  <1>13. SeenMemory' = [SeenMemory EXCEPT ![p][va] = v]
    BY <1>8, <1>9, <1>11, <1>12
  <1>14. SeenMemory[p][va] # NULL
    <2>1. content[pg] \in Data
      BY <1>10
    <2> QED
      BY <1>2, <1>4, <1>6, <2>1, SeenIsView, ValueAssumption DEF View, Visible
  <1>15. Memory!Change(p, va, v)
    BY <1>2, <1>3, <1>13, ChangeIsChange
  <1> QED
    BY <1>14, <1>15 DEF Memory!Store

\* What a first access, or an allocation, finds is zero; a page the program may
\* not read is none to it; one that is lost is not seen.
LEMMA FreshIsFresh ==
    ASSUME BaseInv, NEW p \in Live, NEW va \in Va, NEW perm \in Perm, Runs,
           Fresh(p, va, perm, Zero) \/ Lost(Zero)
    PROVE  Memory!Fresh(p, va) \/ Memory!Unmap(p, va) \/ MemoryStays
  <1>1. /\ Seen' = Seen /\ p \in Seen /\ p \in Proc /\ booting' = booting
        /\ Copying' = Copying
    BY RunsSeen DEF Live
  <1>2. CASE Fresh(p, va, perm, Zero)
    <2>1. SeenMemory' = [SeenMemory EXCEPT ![p][va] = SeenAs(perm, Zero)]
      BY <1>1, <1>2, StateTyped, FreshIsSeen, SeenIsView
    <2>2. Memory!Change(p, va, SeenAs(perm, Zero))
      BY <2>1, ChangeIsChange
    <2>3. SeenAs(perm, Zero) = Zero \/ SeenAs(perm, Zero) = NULL
      BY DEF SeenAs
    <2> QED
      BY <2>2, <2>3 DEF Memory!Fresh, Memory!Unmap
  <1>3. CASE Lost(Zero)
    BY <1>1, <1>3, LostUnseen, SeenIsView DEF MemoryStays
  <1> QED
    BY <1>2, <1>3

LEMMA PageoutIsFresh ==
    ASSUME BaseInv, NEW p \in Proc, NEW va \in Va, pageout(p, va)
    PROVE  Memory!Fresh(p, va) \/ Memory!Unmap(p, va) \/ MemoryStays
  <1>1. \/ Stops
        \/ Runs /\ p \in Live /\ (Fresh(p, va, ReadWrite, Zero) \/ Lost(Zero))
    BY PageoutStep
  <1>2. CASE Stops
    BY <1>2, StopUnseen DEF Stops
  <1>3. CASE Runs /\ p \in Live /\ (Fresh(p, va, ReadWrite, Zero) \/ Lost(Zero))
    BY <1>3, ReadWriteTyped, FreshIsFresh
  <1> QED
    BY <1>1, <1>2, <1>3

LEMMA AllocIsFresh ==
    ASSUME BaseInv, NEW p \in Proc, NEW va \in Va, NEW perm \in Perm,
           syscallMemoryAlloc(p, va, perm)
    PROVE  Memory!Fresh(p, va) \/ Memory!Unmap(p, va) \/ MemoryStays
  <1>1. Runs /\ p \in Live /\ (Fresh(p, va, perm, Zero) \/ Lost(Zero))
    BY AllocStep
  <1> QED
    BY <1>1, FreshIsFresh

LEMMA UnmapIsUnmap ==
    ASSUME BaseInv, NEW p \in Proc, NEW va \in Va, syscallUnmapMemoryFrom(p, va)
    PROVE  Memory!Unmap(p, va)
  <1>1. /\ Runs /\ UNCHANGED content /\ p \in Live
        /\ mm'.pte = [mm.pte EXCEPT ![p][va] = NULL]
    BY UnmapStep
  <1>2. Seen' = Seen
    BY <1>1, RunsSeen
  <1>3. PICK t \in PteType : t = mm.pte
    BY StateTyped
  <1>4. PICK S : S = Seen
    OBVIOUS
  <1>5. View([t EXCEPT ![p][va] = NULL], content, S)
            = [View(t, content, S) EXCEPT ![p][va] = NULL]
    BY StateTyped, ClearedSeen
  <1>6. SeenMemory' = [SeenMemory EXCEPT ![p][va] = NULL]
    BY <1>1, <1>2, <1>3, <1>4, <1>5, SeenIsView
  <1>7. Memory!Change(p, va, NULL)
    BY <1>1, <1>6, ChangeIsChange
  <1> QED
    BY <1>7 DEF Memory!Unmap

\* The child of a fork that has begun is not seen.
LEMMA StartForkIsBegin ==
    ASSUME BaseInv, NEW p \in Proc, NEW c \in Proc, StartFork(p, c)
    PROVE  Memory!BeginFork(p, c) \/ MemoryStays
  <1>1. \/ Stops
        \/ /\ forking = NULL /\ booting = FALSE /\ p \in Live
           /\ UNCHANGED <<content, booting, halted>>
           /\ mm'.pte = mm.pte /\ Born(c)
           /\ forking' = [parent |-> p, child |-> c, left |-> Va]
    BY StartForkStep
  <1>2. CASE Stops
    BY <1>2, StopUnseen DEF Stops
  <1>3. CASE /\ forking = NULL /\ booting = FALSE /\ p \in Live
             /\ UNCHANGED <<content, booting, halted>>
             /\ mm'.pte = mm.pte /\ Born(c)
             /\ forking' = [parent |-> p, child |-> c, left |-> Va]
    <2>1. forking' # NULL
      BY <1>3, NullAssumption
    <2>2. Seen' = Live' \ {c}
      BY <1>3, <2>1 DEF Seen
    <2>3. Seen' = Seen /\ Seen = Live /\ c \notin Live
      BY <1>3, <2>2, SeenStays DEF Born
    <2>4. SeenMemory' = SeenMemory
      BY <1>3, <2>3, SeenIsView
    <2>5. forking'.parent = p /\ forking'.child = c
      BY <1>3
    <2> QED
      BY <1>3, <2>1, <2>3, <2>4, <2>5 DEF Memory!BeginFork
  <1> QED
    BY <1>1, <1>2, <1>3

\* When the walk is over the child sees what the parent sees.
LEMMA EndForkIsFork ==
    ASSUME IInv, EndFork
    PROVE  \E p, c \in Proc : Memory!Fork(p, c)
  <1> DEFINE p == forking.parent
             c == forking.child
  <1>1. /\ BaseInv /\ ForkCopies /\ forking # NULL /\ forking.left = {}
        /\ UNCHANGED <<mm, content, booting>> /\ forking' = NULL
    BY DEF IInv, EndFork
  <1>2. p \in Live /\ c \in Live /\ p \in Proc /\ c \in Proc
    BY <1>1 DEF BaseInv, ForkTyped, Live
  <1>3. /\ p # c
        /\ \A va \in Va :
             \/ mm.pte[c][va] = mm.pte[p][va]
             \/ /\ mm.pte[c][va] = NULL
                /\ ~CanAlloc(mm) \/ (mm.pte[p][va] # NULL /\ ~mm.pte[p][va].u)
    BY <1>1 DEF ForkCopies, StandsFor, Entry
  <1>4. Seen = Live \ {c} /\ Seen' = Live
    BY <1>1 DEF Seen, Live
  <1>5. Copying = {<<p, c>>} /\ Copying' = {}
    BY <1>1 DEF Copying
  <1> HIDE DEF p, c
  <1>6. PICK M \in MemoryType : M = SeenMemory
    BY <1>1, SeenIsView, StateTyped, ViewTyped
  <1>7. PICK N \in MemoryType : N = SeenMemory'
    <2>1. View(mm.pte, content, Live) \in MemoryType
      BY <1>1, StateTyped, ViewTyped
    <2> QED
      BY <1>1, <1>4, <2>1, SeenIsView
  <1>8. \A q \in Proc, u \in Va : q # c => N[q][u] = M[q][u]
    BY <1>1, <1>4, <1>6, <1>7, SeenIsView DEF View
  <1>9. N = [M EXCEPT ![c] = N[c]]
    BY <1>2, <1>8, SameMemory
  <1>10. \A va \in Va : N[c][va] = M[p][va] \/ (N[c][va] = NULL /\ ~CanAlloc(mm))
    BY <1>1, <1>2, <1>3, <1>4, <1>6, <1>7, SeenIsView DEF View, Visible
  <1>11. Seen' = Seen \union {c}
    BY <1>2, <1>4
  <1>12. Memory!Fork(p, c)
    BY <1>1, <1>5, <1>6, <1>7, <1>9, <1>10, <1>11 DEF Memory!Fork, Copying
  <1> QED
    BY <1>2, <1>12

LEMMA InitIsPrivate == Init => Memory!Init
  <1> SUFFICES ASSUME Init PROVE Memory!Init
    OBVIOUS
  <1>1. Live = {} /\ Seen = {} /\ forking = NULL /\ booting = TRUE
    BY DEF Init, Live, Seen
  <1>2. SeenMemory = [p \in Proc |-> [va \in Va |-> NULL]]
    BY <1>1 DEF SeenMemory
  <1>3. (~CanAlloc(mm)) \in BOOLEAN
    BY DEF CanAlloc
  <1> QED
    BY <1>1, <1>2, <1>3 DEF Memory!Init

LEMMA StepIsPrivate ==
    ASSUME IInv, IInv', ~ExplicitSharing, [Next]_vars
    PROVE  Memory!Next \/ MemoryStays
  <1>1. BaseInv /\ ForkCopies /\ (~CanAlloc(mm))' \in BOOLEAN /\ Asked \subseteq Perm
    BY ValueAssumption DEF IInv, CanAlloc
  <1>2. CASE ForkPage
    BY <1>1, <1>2, ForkPageUnseen DEF MemoryStays
  <1>3. CASE EndFork
    <2>1. PICK p \in Proc, c \in Proc : Memory!Fork(p, c)
      BY <1>3, EndForkIsFork
    <2> QED
      BY <1>1, <2>1 DEF Memory!Next
  <1>4. CASE EndBoot
    BY <1>1, <1>4, EndBootIsStart DEF Memory!Next
  <1>5. ASSUME NEW p \in Proc, Create(p) PROVE Memory!Next \/ MemoryStays
    BY <1>1, <1>5, CreateIsLoad DEF Memory!Next
  <1>6. ASSUME NEW p \in Proc, RunHalfMade(p) \/ pgdir_free(p) PROVE MemoryStays
    BY <1>6, StopUnseen DEF RunHalfMade, pgdir_free, Halt
  <1>7. ASSUME NEW p \in Proc, NEW c \in Proc, StartFork(p, c)
        PROVE  Memory!Next \/ MemoryStays
    BY <1>1, <1>7, StartForkIsBegin DEF Memory!Next
  <1>8. ASSUME NEW p \in Proc, NEW va \in Va, Store(p, va) PROVE Memory!Next
    BY <1>1, <1>8, StoreIsStore DEF Memory!Next
  <1>9. ASSUME NEW p \in Proc, NEW va \in Va, pageout(p, va)
        PROVE  Memory!Next \/ MemoryStays
    BY <1>1, <1>9, PageoutIsFresh DEF Memory!Next
  <1>10. ASSUME NEW p \in Proc, NEW va \in Va, Fault(p, va) PROVE MemoryStays
    BY <1>1, <1>10, FaultUnseen DEF MemoryStays
  <1>11. ASSUME NEW p \in Proc, NEW va \in Va, syscallUnmapMemoryFrom(p, va)
         PROVE  Memory!Next
    BY <1>1, <1>11, UnmapIsUnmap DEF Memory!Next
  <1>12. ASSUME NEW p \in Proc, NEW va \in Va, NEW perm \in Perm,
                syscallMemoryAlloc(p, va, perm)
         PROVE  Memory!Next \/ MemoryStays
    BY <1>1, <1>12, AllocIsFresh DEF Memory!Next
  <1>13. ASSUME NEW p \in Proc, NEW va \in Va, NEW q \in Proc, NEW qva \in Va,
                NEW perm \in Perm, syscallMapMemoryFromTo(p, va, q, qva, perm)
         PROVE  FALSE
    BY <1>13 DEF syscallMapMemoryFromTo
  <1>14. CASE UNCHANGED vars
    BY <1>14, StopUnseen DEF vars
  <1> QED
    BY <1>1, <1>2, <1>3, <1>4, <1>5, <1>6, <1>7, <1>8, <1>9, <1>10, <1>11, <1>12, <1>13,
       <1>14 DEF Next

\* Without explicit sharing, page tables, faults and copy-on-write provide what
\* PrivateMemory promises: a memory for each process that is loaded at boot or
\* copied, as it was, by the fork that makes the process, and that only its own
\* stores change.
THEOREM ProvidesPrivateMemory == ~ExplicitSharing /\ Spec => ImplementsPrivateMemory
  <1> SUFFICES ASSUME ~ExplicitSharing PROVE Spec => ImplementsPrivateMemory
    OBVIOUS
  <1>1. Init => Memory!Init
    BY InitIsPrivate
  <1>2. IInv /\ IInv' /\ [Next]_vars
        => [Memory!Next]_<<booting, Seen, SeenMemory, Copying>>
    BY StepIsPrivate DEF MemoryStays
  <1> QED
    BY <1>1, <1>2, AddressSpaceInvariant, PTL
       DEF Spec, ImplementsPrivateMemory, Memory!Spec, Copying

=============================================================================
