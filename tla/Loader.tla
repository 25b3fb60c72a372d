------------------------------- MODULE Loader -------------------------------
(***************************************************************************)
(* Loading a program (loadElf in kernel/trap/elfLoader.c with codeMapper   *)
(* in kernel/trap/process.c): the walk over the program headers and the    *)
(* four pieces of a segment, its unaligned head, its file pages, the rest  *)
(* of the page in which the file part ends, and the pages after that.  One *)
(* iteration of a loop is one step.                                        *)
(*                                                                         *)
(* Pages have PAGE_SIZE bytes and a byte of the k-th segment's file part   *)
(* is named <<k, position>>.  A table of page entries covers the pages of  *)
(* a region; the two upper levels of the tree are there from the start.    *)
(***************************************************************************)
EXTENDS Integers, Sequences

CONSTANTS
    PAGE_SIZE,      \* bytes of a page, 4096
    PageCount,      \* virtual pages modelled
    RegionPages,    \* pages a table covers, 512
    Programs,       \* sequences of segments [load, va, memsz, filesz]
    Memory          \* numbers of free pages when loading starts

ASSUME SizeAssumption ==
    /\ PAGE_SIZE \in Nat \ {0} /\ PageCount \in Nat \ {0}
    /\ RegionPages \in Nat \ {0} /\ Memory \subseteq Nat

\* Headers as a linker writes them: the file part of a segment is within its
\* memory, and the segments to load ascend without overlap, in the pages
\* modelled.
ASSUME ProgramAssumption ==
    \A p \in Programs :
        /\ p \in Seq([load : BOOLEAN, va : Nat, memsz : Nat, filesz : Nat])
        /\ \A h \in 1 .. Len(p) : p[h].load =>
              /\ p[h].filesz <= p[h].memsz
              /\ p[h].va + p[h].memsz <= PageCount * PAGE_SIZE
              /\ \A j \in 1 .. h - 1 : p[j].load => p[j].va + p[j].memsz <= p[h].va

VARIABLES
    program,    \* the program headers
    k,          \* the header in hand
    i,          \* codeMapper's i: bytes of the segment done
    r,          \* codeMapper's r: bytes the last piece did
    pc,         \* "headers", "head", "file", "bss", "done", "panic", "fault"
    page,       \* the contents of the mapped pages, Unmapped for the others
    tables,     \* the regions that have a table of entries
    left,       \* free pages
    lost        \* history: a page was not mapped for want of a table

vars == <<program, k, i, r, pc, page, tables, left, lost>>

Page == 0 .. PageCount - 1
Offset == 0 .. PAGE_SIZE - 1
Unmapped == <<>>
ZeroByte == <<0, 0>>
ZeroPage == [o \in Offset |-> ZeroByte]

Segment == program[k]
PageOf(va) == va \div PAGE_SIZE
OffsetOf(va) == va % PAGE_SIZE
Smaller(a, b) == IF a < b THEN a ELSE b

Init ==
    /\ program \in Programs
    /\ k = 1 /\ i = 0 /\ r = 0
    /\ pc = "headers"
    /\ page = [g \in Page |-> Unmapped]
    /\ tables = {} /\ left \in Memory
    /\ lost = FALSE

-----------------------------------------------------------------------------
(* Pages.                                                                  *)

Goto(place) == pc' = place

Panic == Goto("panic") /\ UNCHANGED <<i, r, page, tables, left, lost>>

\* n bytes of the segment's file part, and n zeros.
FileBytes(from, n) == [x \in 0 .. n - 1 |-> <<k, from + x>>]
Zeros(n) == [x \in 0 .. n - 1 |-> ZeroByte]

\* A page with the bytes from offset o on replaced.
Patched(contents, o, bytes) ==
    [x \in Offset |-> IF x - o \in DOMAIN bytes THEN bytes[x - o] ELSE contents[x]]

\* Mutant: nobody looks whether there is a page.
InsertUnchecked(g, contents) ==
    LET region == g \div RegionPages IN
    /\ page' = [page EXCEPT ![g] = contents]
    /\ tables' = tables \union {region}
    /\ left' = left - (IF region \in tables THEN 1 ELSE 2)
    /\ lost' = lost

\* page_alloc and page_insert of a page with the given contents; codeMapper
\* ignores that page_insert fails when there is no page for the table.
InsertFresh(g, contents) ==
    LET region == g \div RegionPages
        pages == IF region \in tables THEN 1 ELSE 2
    IN  IF left >= pages
        THEN /\ page' = [page EXCEPT ![g] = contents]
             /\ tables' = tables \union {region}
             /\ left' = left - pages
             /\ lost' = lost
        ELSE /\ left' = left - 1
             /\ lost' = TRUE
             /\ UNCHANGED <<page, tables>>

\* Mutant: an unaligned end always gets a page of its own.
PatchFreshPage(g, o, bytes, next) ==
    InsertFresh(g, Patched(ZeroPage, o, bytes)) /\ Goto(next)

\* bcopy or bzero to the page that page_lookup finds.  With none there it
\* returns 0, pa2page(0) is not the NULL codeMapper tests for, and the bytes
\* go to low memory, which the kernel does not map.
PatchPage(g, o, bytes, next) ==
    IF DOMAIN bytes = {} THEN Goto(next) /\ UNCHANGED <<page, tables, left, lost>>
    ELSE IF page[g] = Unmapped THEN Goto("fault") /\ UNCHANGED <<page, tables, left, lost>>
    ELSE /\ Goto(next)
         /\ page' = [page EXCEPT ![g] = Patched(@, o, bytes)]
         /\ UNCHANGED <<tables, left, lost>>

-----------------------------------------------------------------------------
(* loadElf.                                                                *)

NextHeader ==
    /\ pc = "headers"
    /\ IF k > Len(program) THEN Goto("done") /\ UNCHANGED <<k, i, r>>
       ELSE IF Segment.load THEN Goto("head") /\ i' = 0 /\ r' = 0 /\ UNCHANGED k
       ELSE Goto("headers") /\ k' = k + 1 /\ UNCHANGED <<i, r>>
    /\ UNCHANGED <<program, page, tables, left, lost>>

\* codeMapper returned 0.
SegmentDone == Goto("headers") /\ k' = k + 1

-----------------------------------------------------------------------------
(* codeMapper.                                                             *)

HeadLength(o) == Smaller(Segment.filesz, PAGE_SIZE - o)

SegmentHead ==
    /\ pc = "head"
    /\ LET o == OffsetOf(Segment.va) IN
        IF o > 0
        THEN /\ r' = HeadLength(o) /\ i' = r'
             /\ PatchPage(PageOf(Segment.va), o, FileBytes(0, r'), "file")
        ELSE Goto("file") /\ i' = 0 /\ UNCHANGED <<r, page, tables, left, lost>>
    /\ UNCHANGED <<program, k>>

\* Mutant: only whole pages are copied.
MoreWholePages == i + PAGE_SIZE <= Segment.filesz

MoreFile == i < Segment.filesz

FilePage ==
    /\ pc = "file" /\ MoreFile
    /\ IF left = 0 THEN Panic
       ELSE LET n == Smaller(PAGE_SIZE, Segment.filesz - i) IN
            /\ InsertFresh(PageOf(Segment.va + i),
                           Patched(ZeroPage, 0, FileBytes(i, n)))
            /\ r' = n /\ i' = i + n
            /\ UNCHANGED pc
    /\ UNCHANGED <<program, k>>

\* At a page boundary r still has the length of the last piece.
Gap ==
    /\ pc = "file" /\ ~MoreFile
    /\ LET o == OffsetOf(Segment.va + i)
           n == Smaller(Segment.memsz - i, PAGE_SIZE - o)
       IN  IF o > 0
           THEN /\ PatchPage(PageOf(Segment.va + i), o, Zeros(n), "bss")
                /\ r' = n /\ i' = i + n
           ELSE /\ Goto("bss") /\ i' = i + r
                /\ UNCHANGED <<r, page, tables, left, lost>>
    /\ UNCHANGED <<program, k>>

\* Mutant: the loop runs once more at the end of the segment.
MoreBssOffByOne == i <= Segment.memsz

MoreBss == i < Segment.memsz

BssPage ==
    /\ pc = "bss" /\ MoreBss
    /\ IF left = 0 THEN Panic
       ELSE LET n == Smaller(PAGE_SIZE, Segment.memsz - i) IN
            /\ InsertFresh(PageOf(Segment.va + i), ZeroPage)
            /\ r' = n /\ i' = i + n
            /\ UNCHANGED pc
    /\ UNCHANGED <<program, k>>

EndOfSegment ==
    /\ pc = "bss" /\ ~MoreBss
    /\ SegmentDone
    /\ UNCHANGED <<program, i, r, page, tables, left, lost>>

codeMapper == SegmentHead \/ FilePage \/ Gap \/ BssPage \/ EndOfSegment

Next == NextHeader \/ codeMapper

Spec == Init /\ [][Next]_vars

-----------------------------------------------------------------------------
(* Properties.                                                             *)

Headers == {h \in 1 .. Len(program) : program[h].load}
Bytes(h) == program[h].va .. program[h].va + program[h].memsz - 1
FilePages(h) == {PageOf(va) : va \in program[h].va .. program[h].va + program[h].filesz - 1}

\* The types of the variables.
TypeOK ==
    /\ k \in 1 .. Len(program) + 1 /\ i \in Nat /\ r \in 0 .. PAGE_SIZE
    /\ pc \in {"headers", "head", "file", "bss", "done", "panic", "fault"}
    /\ page \in [Page -> {Unmapped} \union [Offset -> Nat \X Nat]]
    /\ tables \subseteq Nat /\ left \in Nat /\ lost \in BOOLEAN

\* What the program reads at an address: the first access to a page that is
\* not mapped brings a zero page (pageout).
Reads(va) ==
    IF page[PageOf(va)] = Unmapped THEN ZeroByte ELSE page[PageOf(va)][OffsetOf(va)]

\* A program that was loaded reads its file parts where they were linked and
\* zeros after them, also where two segments meet in a page and where
\* codeMapper skips a page (codeMapper, loadElf).
LoadedAsLinked ==
    pc = "done" /\ ~lost =>
        \A h \in Headers : \A va \in Bytes(h) :
            Reads(va) = LET x == va - program[h].va IN
                        IF x < program[h].filesz THEN <<h, x>> ELSE ZeroByte

\* Loading runs into the unmapped low memory only at a segment that starts
\* inside a page with no file part of an earlier segment in it (codeMapper).
FaultsOnlyAtBareHeads ==
    pc = "fault" /\ ~lost =>
        /\ OffsetOf(Segment.va) > 0
        /\ \A h \in Headers : h < k => PageOf(Segment.va) \notin FilePages(h)

\* No page is mapped in which no segment has a byte (codeMapper).
MapsOnlySegments ==
    \A g \in Page : page[g] # Unmapped =>
        \E h \in Headers : \E va \in Bytes(h) : PageOf(va) = g

=============================================================================
