---------------------------- MODULE AddressSpace -----------------------------
(***************************************************************************)
(* The memory manager of the kernel: the free page list and reference      *)
(* counts, the page tables of the processes, first-touch allocation,       *)
(* copy-on-write, fork's walk over the parent's address space, and the     *)
(* system calls that map and unmap pages (kernel/memory/memory.c, the      *)
(* memory side of kernel/trap/process.c, trap.c and syscall.c).            *)
(*                                                                         *)
(* initPgdir maps all of the RAM in every page directory and counts those  *)
(* mappings as references.  Memory may run out anywhere: most callers of   *)
(* page_insert do not look at its result and go on with what there is.     *)
(***************************************************************************)
EXTENDS Integers, Sequences, Functions, FiniteSets

CONSTANTS
    Proc,           \* the processes that may come to exist
    First,          \* entry 0 of the process table
    Va,             \* user pages above the two lowest, in the order fork walks
    GigaOf,         \* the middle-level table of each page, by a name,
    RegionOf,       \* and the last-level one
    ProgramVa,      \* where the one page of a program is loaded
    PageNum,        \* the physical pages that boot leaves free
    SetupPages,     \* the pages a complete set-up takes, in this order: the
                    \* directory, the kernel stack, the tables of initPgdir
    TableAfter,     \* how many of them it takes to have a table which initPgdir
                    \* makes and user pages need too, for each of those
    IdentityAfter,  \* and to have the identity mapping of each page
    Data,           \* what a page can hold
    Zero,           \* what bzero leaves in a page
    Asked,          \* the permissions programs ask for
    NULL,           \* the null pointer, an invalid entry
    ExplicitSharing \* whether programs use SYSCALL_MAP_MEMORY_FROM_TO

Page == 1 .. PageNum
Table == {GigaOf[va] : va \in Va} \union {RegionOf[va] : va \in Va}
\* PTE_U, PTE_W and PTE_C.  User code can read every page with PTE_U.
Perm == [u : BOOLEAN, w : BOOLEAN, c : BOOLEAN]

\* The kernel stacks of the entries up to 8 are mapped, in the kernel's
\* directory, in place of pages that boot has made its own tables of.
ASSUME ProcAssumption == First \in Proc /\ IsFiniteSet(Proc) /\ Cardinality(Proc) <= 9
ASSUME VaAssumption == Va \subseteq Nat /\ ProgramVa \in Va /\ IsFiniteSet(Va)
\* The set-up of the first program, which takes two pages more, succeeds.
ASSUME SizesAssumption ==
    PageNum \in Nat /\ SetupPages \in Nat \ {0, 1} /\ SetupPages + 2 <= PageNum
ASSUME SetupAssumption ==
    /\ IdentityAfter \in [Page -> 1 .. SetupPages]
    /\ \A t \in DOMAIN TableAfter : TableAfter[t] \in 1 .. SetupPages
ASSUME ValueAssumption == Zero \in Data /\ NULL \notin Data /\ Asked \subseteq Perm
ASSUME SharingAssumption == ExplicitSharing \in BOOLEAN

VARIABLES
    mm,         \* pte, table, setup, ref and freePages, see TypeOK
    content,    \* the contents of the physical pages
    forking,    \* the fork under way: parent, child and the pages left to walk
    booting,    \* main has not called process_yield yet
    halted      \* the kernel panicked, or faults for ever

vars == <<mm, content, forking, booting, halted>>

Pte == [page : Page, u : BOOLEAN, w : BOOLEAN, c : BOOLEAN]
EntryFor(pg, perm) == [page |-> pg, u |-> perm.u, w |-> perm.w, c |-> perm.c]
ReadWrite == [u |-> TRUE, w |-> TRUE, c |-> FALSE]

\* The null pointer is none of the things a pointer can point to.
ASSUME NullAssumption ==
    /\ NULL \notin Page /\ NULL \notin Pte
    /\ NULL \notin [parent : Proc, child : Proc, left : SUBSET Va]

-----------------------------------------------------------------------------
(* memory.c, as functions from a state m of the manager to the next one.   *)

\* The page page_alloc would take, when there is one.
FirstFree(m) == Head(m.freePages)
CanAlloc(m) == m.freePages # <<>>
\* Mutant: the page stays on the list.
AllocKeepsPageFree(m) == m

page_alloc(m) == [m EXCEPT !.freePages = Tail(@)]

\* Mutant: page_free does not look at the reference count.
RemoveFreesAlways(m, p, va) ==
    IF m.pte[p][va] = NULL THEN m
    ELSE LET pg == m.pte[p][va].page
         IN  [m EXCEPT !.pte[p][va] = NULL,
                       !.ref[pg] = @ - 1,
                       !.freePages = <<pg>> \o @]

\* The entry goes and the page loses a reference; without any left it is
\* free.  An invalid entry is left alone.
page_remove(m, p, va) ==
    IF m.pte[p][va] = NULL THEN m
    ELSE LET pg == m.pte[p][va].page
         IN  [m EXCEPT !.pte[p][va] = NULL,
                       !.ref[pg] = @ - 1,
                       !.freePages = IF m.ref[pg] = 1 THEN <<pg>> \o @ ELSE @]

\* A table of process p: made for a user page, or by initPgdir.
HasTable(m, p, t) ==
    \/ m.table[p][t] # NULL
    \/ t \in DOMAIN TableAfter /\ TableAfter[t] <= Len(m.setup[p])
HasTables(m, p, va) == HasTable(m, p, GigaOf[va]) /\ HasTable(m, p, RegionOf[va])

\* Mutant: the new table is not counted as a reference.
TableUncounted(m, p, t) ==
    IF HasTable(m, p, t) \/ ~CanAlloc(m) THEN m
    ELSE [page_alloc(m) EXCEPT !.table[p][t] = FirstFree(m)]

\* One level of page_walk(create): the table is there or is made, if it can.
MakeTable(m, p, t) ==
    IF HasTable(m, p, t) \/ ~CanAlloc(m) THEN m
    ELSE [page_alloc(m) EXCEPT !.table[p][t] = FirstFree(m), !.ref[FirstFree(m)] = @ + 1]

\* Without a page for the first table there is none for the second either.
page_walk(m, p, va) == MakeTable(MakeTable(m, p, GigaOf[va]), p, RegionOf[va])

\* What was mapped at va goes first, even if it is the same page.  Without the
\* tables nothing is mapped; a table that was made stays.
page_insert(m, p, va, pte) ==
    LET walked == page_walk(page_remove(m, p, va), p, va)
    IN  IF HasTables(walked, p, va)
        THEN [walked EXCEPT !.pte[p][va] = pte, !.ref[pte.page] = @ + 1]
        ELSE walked

\* A fresh page and its insertion: how code is loaded, pageout answers a
\* first access, and memory is allocated.  Without the tables the page is lost.
InsertFresh(m, p, va, perm) ==
    page_insert(page_alloc(m), p, va, EntryFor(FirstFree(m), perm))

\* The first process needs two tables more, one in the kernel's directory and
\* one in its own, because its kernel stack is mapped above the RAM.
Needed(p) == IF p = First THEN SetupPages + 2 ELSE SetupPages
Complete(m, p) == Len(m.setup[p]) = Needed(p)

\* What process_setup and initPgdir take: all they need, or what there is.
Taken(m, p) ==
    IF Len(m.freePages) < Needed(p) THEN m.freePages ELSE SubSeq(m.freePages, 1, Needed(p))

\* Each of those pages is counted once, as the directory, as a table, or for
\* the kernel's mapping of the stack.  The process's own mapping of its stack
\* is counted for the first one; initPgdir overwrites that of the others.
SetUp(m, p) ==
    LET got == Taken(m, p)
    IN  [m EXCEPT
            !.setup[p] = got,
            !.freePages = SubSeq(@, Len(got) + 1, Len(@)),
            !.ref = [pg \in Page |-> @[pg] + (IF IdentityAfter[pg] <= Len(got) THEN 1 ELSE 0)
                                           + (IF pg \in Range(got) THEN 1 ELSE 0)
                                           + (IF p = First /\ pg = got[2] THEN 1 ELSE 0)]]

-----------------------------------------------------------------------------
\* Mutant: the loop of pages_init is off by one.
PagesOffByOne == [i \in 1 .. PageNum |-> PageNum - i]

\* pages_init inserts at the head: the highest page is the first to go.
pages_init == [i \in 1 .. PageNum |-> PageNum + 1 - i]

\* The kernel's own directory holds a reference to each page.  The RAM holds
\* anything.
Init ==
    /\ mm = [pte       |-> [p \in Proc |-> [va \in Va |-> NULL]],
             table     |-> [p \in Proc |-> [t \in Table |-> NULL]],
             setup     |-> [p \in Proc |-> <<>>],
             ref       |-> [pg \in Page |-> 1],
             freePages |-> pages_init]
    /\ \E junk \in Data : content = [pg \in Page |-> junk]
    /\ forking = NULL
    /\ booting = TRUE
    /\ halted = FALSE

Live == {p \in Proc : mm.setup[p] # <<>>}
\* Some process runs; p does.  The hart can do nothing with a directory that
\* lacks the trampoline.
Running == ~halted /\ ~booting /\ forking = NULL
CanRun(p) == Running /\ p \in Live /\ Complete(mm, p)

\* The kernel stops for good: panic.
Halt == halted' = TRUE /\ UNCHANGED <<mm, content, forking, booting>>

\* processCreatePriority, in main: set up and load.  Without a page to load,
\* or for the directory, it panics; without the tables it goes on.
Create(p) ==
    /\ ~halted /\ booting
    /\ p \notin Live /\ (Live = {} => p = First)
    /\ LET m == SetUp(mm, p)
       IN  IF CanAlloc(m)
           THEN /\ mm' = InsertFresh(m, p, ProgramVa, ReadWrite)
                /\ \E v \in Data : content' = [content EXCEPT ![FirstFree(m)] = v]
                /\ UNCHANGED <<forking, booting, halted>>
           ELSE /\ mm' = m /\ halted' = TRUE
                /\ UNCHANGED <<content, forking, booting>>

\* main gives the hart to the programs.
EndBoot ==
    /\ ~halted /\ booting /\ Live # {}
    /\ booting' = FALSE
    /\ UNCHANGED <<mm, content, forking, halted>>

\* The scheduler takes a process whose set-up ran out of memory.
RunHalfMade(p) ==
    /\ Running /\ p \in Live /\ ~Complete(mm, p)
    /\ Halt

-----------------------------------------------------------------------------
(* User memory accesses.                                                   *)

Entry(p, va) == mm.pte[p][va]

Store(p, va) ==
    /\ CanRun(p)
    /\ Entry(p, va) # NULL /\ Entry(p, va).u /\ Entry(p, va).w
    /\ \E v \in Data : content' = [content EXCEPT ![Entry(p, va).page] = v]
    /\ UNCHANGED <<mm, forking, booting, halted>>

\* A load or a store where nothing is mapped.
pageout(p, va) ==
    /\ CanRun(p)
    /\ Entry(p, va) = NULL
    /\ IF CanAlloc(mm)
       THEN /\ mm' = InsertFresh(mm, p, va, ReadWrite)
            /\ content' = [content EXCEPT ![FirstFree(mm)] = Zero]
            /\ halted' = ~HasTables(mm', p, va)
            /\ UNCHANGED <<forking, booting>>
       ELSE Halt

\* The entry for the copy of a page.
Copied(pte, pg) == EntryFor(pg, [u |-> pte.u, w |-> TRUE, c |-> FALSE])

\* Mutant: cowHandler does not copy the page.
FaultNoCopy(p, va) ==
    /\ CanRun(p)
    /\ Entry(p, va) # NULL /\ ~(Entry(p, va).u /\ Entry(p, va).w)
    /\ IF Entry(p, va).c /\ CanAlloc(mm)
       THEN /\ mm' = page_insert(page_alloc(mm), p, va, Copied(Entry(p, va), FirstFree(mm)))
            /\ content' = [content EXCEPT ![FirstFree(mm)] = Zero]
            /\ UNCHANGED <<forking, booting, halted>>
       ELSE Halt

\* An access the entry does not permit: the page is copied if it is marked so,
\* otherwise the kernel panics.  The reference to the old page is given up.
Fault(p, va) ==
    /\ CanRun(p)
    /\ Entry(p, va) # NULL /\ ~(Entry(p, va).u /\ Entry(p, va).w)
    /\ IF Entry(p, va).c /\ CanAlloc(mm)
       THEN /\ mm' = page_insert(page_alloc(mm), p, va, Copied(Entry(p, va), FirstFree(mm)))
            /\ content' = [content EXCEPT ![FirstFree(mm)] = content[Entry(p, va).page]]
            /\ UNCHANGED <<forking, booting, halted>>
       ELSE Halt

-----------------------------------------------------------------------------
(* fork.  The kernel does not give the hart away before it is done, so     *)
(* nothing else happens between two of these steps.                        *)

\* Without a page for the directory it panics; without more the child is half
\* made and fork goes on.
StartFork(p, c) ==
    /\ CanRun(p) /\ c \in Proc \ Live
    /\ IF CanAlloc(mm)
       THEN /\ mm' = SetUp(mm, c)
            /\ forking' = [parent |-> p, child |-> c, left |-> Va]
            /\ UNCHANGED <<content, booting, halted>>
       ELSE Halt

\* Mutant: the parent's entry and the child's stay writable.
MarkedStillWritable(pte) == [pte EXCEPT !.c = @ \/ pte.w]

\* A page that was writable becomes copy-on-write in both; one that is
\* read-only already, or still copy-on-write, is shared as it is.
Marked(pte) == [pte EXCEPT !.c = @ \/ pte.w, !.w = FALSE]

\* Mutant: a page that is shared already is not shared again.
InheritedWritable(pte) == pte.u /\ pte.w

\* What fork gives the child.
Inherited(pte) == pte.u

\* The next page of the walk.  What page_insert returns is not looked at.
ForkPage ==
    /\ ~halted /\ forking # NULL /\ forking.left # {}
    /\ LET p  == forking.parent
           c  == forking.child
           va == CHOOSE x \in forking.left : \A y \in forking.left : x <= y
           e  == Entry(p, va)
           marked == [mm EXCEPT !.pte[p][va] = Marked(e)]
       IN  /\ forking' = [forking EXCEPT !.left = @ \ {va}]
           /\ mm' = IF e # NULL /\ Inherited(e) THEN page_insert(marked, c, va, Marked(e))
                                               ELSE mm
    /\ UNCHANGED <<content, booting, halted>>

EndFork ==
    /\ ~halted /\ forking # NULL /\ forking.left = {}
    /\ forking' = NULL
    /\ UNCHANGED <<mm, content, booting, halted>>

-----------------------------------------------------------------------------
(* Memory system calls.                                                    *)

\* On the caller or a child of it.
syscallMemoryAlloc(p, va, perm) ==
    /\ Running /\ p \in Live
    /\ ~perm.c
    /\ CanAlloc(mm)
    /\ content' = [content EXCEPT ![FirstFree(mm)] = Zero]
    /\ mm' = InsertFresh(mm, p, va, perm)
    /\ UNCHANGED <<forking, booting, halted>>

\* Any process may name any two.  The new entry has the permissions asked
\* for: a copy-on-write page can be mapped writable.
syscallMapMemoryFromTo(src, srcVa, dst, dstVa, perm) ==
    /\ ExplicitSharing
    /\ Running /\ src \in Live /\ dst \in Live
    /\ Entry(src, srcVa) # NULL
    /\ mm' = page_insert(mm, dst, dstVa, EntryFor(Entry(src, srcVa).page, perm))
    /\ UNCHANGED <<content, forking, booting, halted>>

syscallUnmapMemoryFrom(p, va) ==
    /\ Running /\ p \in Live
    /\ Entry(p, va) # NULL
    /\ mm' = page_remove(mm, p, va)
    /\ UNCHANGED <<content, forking, booting, halted>>

\* pgdir_free removes the mappings of the directory in use one by one: the
\* user's, then, from page_remove's own page on, every fetch faults.
pgdir_free(p) ==
    /\ CanRun(p)
    /\ Halt

Next ==
    \/ EndBoot \/ ForkPage \/ EndFork
    \/ \E p \in Proc :
          \/ Create(p) \/ RunHalfMade(p) \/ pgdir_free(p)
          \/ \E c \in Proc : StartFork(p, c)
          \/ \E va \in Va :
                \/ Store(p, va) \/ pageout(p, va) \/ Fault(p, va)
                \/ syscallUnmapMemoryFrom(p, va)
                \/ \E perm \in Asked :
                      \/ syscallMemoryAlloc(p, va, perm)
                      \/ \E q \in Proc, qva \in Va :
                            syscallMapMemoryFromTo(p, va, q, qva, perm)

Spec == Init /\ [][Next]_vars

-----------------------------------------------------------------------------
(* Properties.                                                             *)

\* The mappings of user pages: who maps what where.
Mappings == {x \in Proc \X Va : Entry(x[1], x[2]) # NULL}
MappingsOf(pg) == {x \in Mappings : Entry(x[1], x[2]).page = pg}
TablesOn(pg) == {x \in Proc \X Table : mm.table[x[1]][x[2]] = pg}
SetupOn(pg) == {p \in Proc : pg \in Range(mm.setup[p])}
InUse(pg) == MappingsOf(pg) # {} \/ TablesOn(pg) # {} \/ SetupOn(pg) # {}
\* Who has mapped it with all of the RAM, and who maps it as its own stack.
IdentityOn(pg) == {p \in Proc : IdentityAfter[pg] <= Len(mm.setup[p])}
OwnStackOn(pg) == {p \in {First} \intersect Live : mm.setup[p][2] = pg}

\* The type of every variable.
TypeOK ==
    /\ mm \in [pte       : [Proc -> [Va -> Pte \union {NULL}]],
              table     : [Proc -> [Table -> Page \union {NULL}]],
              setup     : [Proc -> Seq(Page)],
              ref       : [Page -> Nat],
              freePages : Seq(Page)]
    /\ content \in [Page -> Data]
    /\ forking = NULL \/ forking \in [parent : Live, child : Live, left : SUBSET Va]
    /\ booting \in BOOLEAN
    /\ halted \in BOOLEAN

\* The reference count of a page is the number of ways to reach it: the
\* kernel's directory, the directories that map it with the RAM, the user
\* mappings, its use as a page table or set-up page, and the mapping of a
\* stack.  page_insert, page_remove, page_walk, pgdir_alloc and initPgdir each
\* write a part of it, and any of them may fail half way.
RefExact ==
    \A pg \in Page :
        mm.ref[pg] = 1 + Cardinality(IdentityOn(pg)) + Cardinality(MappingsOf(pg))
                       + Cardinality(TablesOn(pg)) + Cardinality(SetupOn(pg))
                       + Cardinality(OwnStackOn(pg))

\* No page is on the free list twice, or while something uses it: page_alloc
\* would give it away again, and zero it, under its user.
FreePagesUnused ==
    /\ IsInjective(mm.freePages)
    /\ \A pg \in Range(mm.freePages) : ~InUse(pg)

\* A page serves one purpose: it is one page table of one process, or a set-up
\* page of one process, or user memory.
OnePurpose ==
    \A pg \in Page :
        /\ Cardinality(TablesOn(pg)) + Cardinality(SetupOn(pg)) <= 1
        /\ MappingsOf(pg) # {} => TablesOn(pg) = {} /\ SetupOn(pg) = {}

\* Without explicit sharing, a page two address spaces map is writable in
\* neither once the fork that shared it is over, and an address space never
\* maps a page twice.
SharedAreReadOnly ==
    ~ExplicitSharing =>
        \A x, y \in Mappings :
            x # y /\ Entry(x[1], x[2]).page = Entry(y[1], y[2]).page =>
                x[1] # y[1] /\ x[2] = y[2] /\ ~Entry(x[1], x[2]).w

\* What the programs see of their memory.  The child of a fork exists, and
\* its memory is that of the parent, once the walk is over.
Seen == {p \in Live : forking = NULL \/ p # forking.child}
SeenMemory ==
    [p \in Proc |-> [va \in Va |->
        IF p \in Seen /\ Entry(p, va) # NULL /\ Entry(p, va).u
        THEN content[Entry(p, va).page] ELSE NULL]]
Memory == INSTANCE PrivateMemory WITH
    Unmapped <- NULL,
    alive <- Seen,
    mem <- SeenMemory,
    copying <- IF forking = NULL THEN {} ELSE {<<forking.parent, forking.child>>},
    scarce <- ~CanAlloc(mm)

\* Without explicit sharing every process has a memory of its own, which a
\* fork copies as it was (the specification of PrivateMemory): no store,
\* fault, fork or unmapping of one process shows in another, the child of a
\* fork finds what its parent had, less pages only when memory ran out, and a
\* page that changes hands shows nothing of its last owner.
ImplementsPrivateMemory == Memory!Spec

\* Copy-on-write cannot be seen: neither marking and sharing the pages in a
\* fork nor the copying at the first store after it changes what any program
\* reads, even when the page given up, or the one taken, was used before.
CopyOnWriteUnseen ==
    [][ForkPage \/ (\E p \in Proc, va \in Va : Fault(p, va)) =>
           UNCHANGED SeenMemory]_vars

\* Unmapping a page releases its memory once nobody uses it any more, as the
\* comment on file_close says.  It does not hold: the references the identity
\* mappings hold are never given up.
UnmapReleases ==
    [][\A p \in Proc, va \in Va, pg \in Page :
         syscallUnmapMemoryFrom(p, va) /\ Entry(p, va).page = pg =>
             (InUse(pg) \/ pg \in Range(mm.freePages))']_vars
=============================================================================
