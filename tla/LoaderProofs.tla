---------------------------- MODULE LoaderProofs ----------------------------
(***************************************************************************)
(* Theorems about Loader, for pages of any size, any number of segments    *)
(* with any alignment and length, and any amount of memory: a program that *)
(* was loaded reads what was linked, and nothing else is mapped.           *)
(***************************************************************************)
EXTENDS Loader, TLAPS

-----------------------------------------------------------------------------
(* Pages and offsets.                                                      *)

\* Quotient and remainder.
LEMMA DivMod ==
    ASSUME NEW B \in Nat \ {0}, NEW a \in Nat
    PROVE  a \div B \in Nat /\ a % B \in 0 .. B - 1 /\ a = B * (a \div B) + (a % B)
  BY Z3

\* There is one quotient and one remainder.
LEMMA DivModUnique ==
    ASSUME NEW B \in Nat \ {0}, NEW q \in Nat, NEW s \in Nat,
           NEW x \in 0 .. B - 1, NEW y \in 0 .. B - 1, B * q + x <= B * s + y
    PROVE  q <= s /\ (q = s => x <= y)
  <1>1. B * q + x <= B * s + y /\ 0 <= x /\ y < B
    OBVIOUS
  <1>2. B * (q - s) < B
    BY <1>1
  <1>3. CASE q - s >= 1
    <2>1. B * (q - s) >= B
      BY <1>3
    <2> QED
      BY <1>2, <2>1
  <1>4. CASE q <= s
    BY <1>1, <1>4
  <1> QED
    BY <1>3, <1>4

\* An address is given by its page and its offset.
LEMMA PageAndOffset ==
    ASSUME NEW a \in Nat
    PROVE  /\ PageOf(a) \in Nat /\ OffsetOf(a) \in Offset
           /\ a = PAGE_SIZE * PageOf(a) + OffsetOf(a)
  BY DivMod, SizeAssumption DEF PageOf, OffsetOf, Offset

\* A higher address is in the same page or in a later one.
LEMMA PagesAscend ==
    ASSUME NEW a \in Nat, NEW b \in Nat, a <= b
    PROVE  PageOf(a) <= PageOf(b) /\ (PageOf(a) = PageOf(b) => OffsetOf(a) <= OffsetOf(b))
  <1>1. /\ PageOf(a) \in Nat /\ OffsetOf(a) \in 0 .. PAGE_SIZE - 1
        /\ PageOf(b) \in Nat /\ OffsetOf(b) \in 0 .. PAGE_SIZE - 1
        /\ PAGE_SIZE * PageOf(a) + OffsetOf(a) <= PAGE_SIZE * PageOf(b) + OffsetOf(b)
    BY PageAndOffset DEF Offset
  <1> QED
    BY <1>1, DivModUnique, SizeAssumption

\* Addresses in a page are as far apart as their offsets.
LEMMA SamePage ==
    ASSUME NEW a \in Nat, NEW b \in Nat, PageOf(a) = PageOf(b)
    PROVE  b - a = OffsetOf(b) - OffsetOf(a)
  <1>1. a = PAGE_SIZE * PageOf(a) + OffsetOf(a) /\ b = PAGE_SIZE * PageOf(a) + OffsetOf(b)
    BY PageAndOffset
  <1>2. PICK c \in Nat : c = PAGE_SIZE * PageOf(a)
    BY PageAndOffset, SizeAssumption
  <1>3. OffsetOf(a) \in Nat /\ OffsetOf(b) \in Nat
    BY PageAndOffset, SizeAssumption DEF Offset
  <1> QED
    BY <1>1, <1>2, <1>3

\* n bytes further, while they are in the page.
LEMMA WithinPage ==
    ASSUME NEW a \in Nat, NEW n \in Nat, OffsetOf(a) + n < PAGE_SIZE
    PROVE  PageOf(a + n) = PageOf(a) /\ OffsetOf(a + n) = OffsetOf(a) + n
  <1> DEFINE B == PAGE_SIZE
             q == PageOf(a)
             x == OffsetOf(a)
             s == PageOf(a + n)
             y == OffsetOf(a + n)
  <1>1. /\ B \in Nat \ {0} /\ q \in Nat /\ x \in 0 .. B - 1 /\ a = B * q + x
        /\ s \in Nat /\ y \in 0 .. B - 1 /\ a + n = B * s + y
    <2>1. a + n \in Nat
      OBVIOUS
    <2> QED
      BY <2>1, PageAndOffset, SizeAssumption DEF Offset
  <1>2. x + n \in 0 .. B - 1
    BY <1>1
  <1> HIDE DEF B, q, x, s, y
  <1>3. PICK z \in 0 .. B - 1 : z = x + n
    BY <1>2
  <1>4. B * q + z = B * s + y
    BY <1>1, <1>3
  <1>5. B * q \in Int /\ B * s \in Int
    BY <1>1
  <1>6. B * q + z <= B * s + y /\ B * s + y <= B * q + z
    BY <1>1, <1>3, <1>4, <1>5
  <1>7. q <= s /\ (q = s => z <= y)
    BY <1>1, <1>6, DivModUnique
  <1>8. s <= q /\ (s = q => y <= z)
    BY <1>1, <1>6, DivModUnique
  <1>9. s = q /\ y = z
    BY <1>1, <1>7, <1>8
  <1> QED
    BY <1>3, <1>9 DEF B, q, x, s, y

\* The first byte after a page is at offset 0.
LEMMA NextPage ==
    ASSUME NEW a \in Nat
    PROVE  OffsetOf(a + (PAGE_SIZE - OffsetOf(a))) = 0
  <1> DEFINE B == PAGE_SIZE
             q == PageOf(a)
             x == OffsetOf(a)
             b == a + (B - x)
             s == PageOf(b)
             y == OffsetOf(b)
  <1>1. B \in Nat \ {0} /\ q \in Nat /\ x \in 0 .. B - 1 /\ a = B * q + x
    BY PageAndOffset, SizeAssumption DEF Offset
  <1>2. b \in Nat /\ b = B * (q + 1)
    BY <1>1
  <1>3. s \in Nat /\ y \in 0 .. B - 1 /\ b = B * s + y
    BY <1>2, PageAndOffset DEF Offset
  <1> HIDE DEF B, q, x, b, s, y
  <1>4. q + 1 \in Nat /\ 0 \in 0 .. B - 1 /\ B * (q + 1) + 0 = B * s + y
    BY <1>1, <1>2, <1>3
  <1>5. PICK o \in 0 .. B - 1 : o = 0
    BY <1>4
  <1>6. B * (q + 1) + o <= B * s + y /\ B * s + y <= B * (q + 1) + o
    <2>1. B * (q + 1) \in Int /\ B * s \in Int
      BY <1>1, <1>3
    <2> QED
      BY <1>3, <1>4, <1>5, <2>1
  <1>7. q + 1 <= s /\ (q + 1 = s => o <= y)
    BY <1>1, <1>3, <1>4, <1>6, DivModUnique
  <1>8. s <= q + 1 /\ (s = q + 1 => y <= o)
    BY <1>1, <1>3, <1>4, <1>6, DivModUnique
  <1>9. y = 0
    BY <1>1, <1>3, <1>5, <1>7, <1>8
  <1> QED
    BY <1>9 DEF B, x, b, y

\* Below the start of a page are earlier pages.
LEMMA PagesBelow ==
    ASSUME NEW a \in Nat, NEW b \in Nat, a < b, OffsetOf(b) = 0
    PROVE  PageOf(a) < PageOf(b)
  <1>1. PageOf(a) \in Nat /\ PageOf(b) \in Nat /\ OffsetOf(a) \in Nat
    <2>1. PageOf(a) \in Nat /\ OffsetOf(a) \in Offset
      BY PageAndOffset
    <2>2. PageOf(b) \in Nat
      BY PageAndOffset
    <2> QED
      BY <2>1, <2>2, SizeAssumption DEF Offset
  <1>2. PageOf(a) = PageOf(b) => b - a = OffsetOf(b) - OffsetOf(a)
    BY SamePage
  <1>3. PageOf(a) <= PageOf(b) /\ (PageOf(a) = PageOf(b) => OffsetOf(a) <= OffsetOf(b))
    <2>1. a <= b
      OBVIOUS
    <2> QED
      BY <2>1, PagesAscend
  <1>4. ASSUME PageOf(a) = PageOf(b) PROVE FALSE
    <2>1. b - a = 0 - OffsetOf(a)
      BY <1>2, <1>4
    <2> QED
      BY <1>1, <2>1
  <1>5. PageOf(a) # PageOf(b)
    BY <1>4
  <1>6. PageOf(a) <= PageOf(b)
    BY <1>3
  <1> QED
    BY <1>1, <1>5, <1>6

\* A byte that is not the first of its page follows one of the same page.
LEMMA PageOfPrevious ==
    ASSUME NEW a \in Nat, OffsetOf(a + 1) > 0
    PROVE  PageOf(a) = PageOf(a + 1)
  <1>1. OffsetOf(a) \in Nat /\ OffsetOf(a) <= PAGE_SIZE - 1 /\ PAGE_SIZE \in Nat
    <2>1. OffsetOf(a) \in Offset
      BY PageAndOffset
    <2>2. PAGE_SIZE \in Nat
      BY SizeAssumption
    <2> QED
      BY <2>1, <2>2 DEF Offset
  <1>2. CASE OffsetOf(a) + 1 < PAGE_SIZE
    BY <1>2, WithinPage
  <1>3. CASE OffsetOf(a) = PAGE_SIZE - 1
    <2>1. PAGE_SIZE - OffsetOf(a) = 1
      BY <1>1, <1>3
    <2>2. OffsetOf(a + 1) = 0
      BY <2>1, NextPage
    <2> QED
      BY <2>2
  <1> QED
    BY <1>1, <1>2, <1>3

-----------------------------------------------------------------------------
(* The inductive invariant.                                                *)

\* The addresses modelled.
Addr == 0 .. PageCount * PAGE_SIZE - 1

InMapper == pc \in {"head", "file", "bss"}

\* How much of the file part of a segment has been copied, and whether that
\* includes the byte at an address.
FileDone(h) ==
    IF h < k THEN program[h].filesz
    ELSE IF h = k /\ InMapper THEN Smaller(i, program[h].filesz) ELSE 0
Loaded(h, a) == a - program[h].va \in 0 .. FileDone(h) - 1

\* Where codeMapper is.  In the file part it is at the start of a page, in the
\* part after it in a page in which no byte of a file part lies.
PlaceInv ==
    /\ InMapper => k \in Headers
    /\ pc = "head" => i = 0
    /\ pc = "file" => /\ i <= Segment.filesz
                      /\ MoreFile => OffsetOf(Segment.va + i) = 0
    /\ pc = "bss" => /\ i >= Segment.filesz
                     /\ MoreBss => \A a \in Nat : a < Segment.va + Segment.filesz =>
                                        PageOf(a) < PageOf(Segment.va + i)
    /\ pc = "done" => k = Len(program) + 1

\* What has been copied is there, and there is nothing else.
BytesThere == \A h \in Headers, a \in Addr : Loaded(h, a) => Reads(a) = <<h, a - program[h].va>>
RestZero == \A a \in Addr : (\A h \in Headers : ~Loaded(h, a)) => Reads(a) = ZeroByte
ContentsInv == ~lost /\ pc \notin {"panic", "fault"} => BytesThere /\ RestZero

IInv ==
    /\ program \in Programs /\ TypeOK /\ PlaceInv /\ ContentsInv
    /\ MapsOnlySegments /\ FaultsOnlyAtBareHeads

-----------------------------------------------------------------------------
(* Segments.                                                               *)

LEMMA HeadersTyped ==
    ASSUME program \in Programs, NEW h \in Headers
    PROVE  /\ h \in Nat /\ h >= 1 /\ h <= Len(program) /\ Len(program) \in Nat
           /\ program[h].va \in Nat /\ program[h].memsz \in Nat /\ program[h].filesz \in Nat
           /\ program[h].filesz <= program[h].memsz
           /\ program[h].va + program[h].memsz <= PageCount * PAGE_SIZE
  <1>1. /\ program \in Seq([load : BOOLEAN, va : Nat, memsz : Nat, filesz : Nat])
        /\ h \in 1 .. Len(program) /\ program[h].load
    BY ProgramAssumption DEF Headers
  <1>2. Len(program) \in Nat /\ program[h] \in [load : BOOLEAN, va : Nat, memsz : Nat, filesz : Nat]
    <2>1. PICK T : T = [load : BOOLEAN, va : Nat, memsz : Nat, filesz : Nat]
      OBVIOUS
    <2>2. program \in Seq(T) /\ h \in 1 .. Len(program)
      BY <1>1, <2>1
    <2>3. Len(program) \in Nat /\ program[h] \in T
      BY <2>2
    <2> QED
      BY <2>1, <2>3
  <1>3. /\ program[h].filesz <= program[h].memsz
        /\ program[h].va + program[h].memsz <= PageCount * PAGE_SIZE
    BY <1>1, ProgramAssumption
  <1> QED
    BY <1>1, <1>2, <1>3

\* Segments ascend.
LEMMA HeadersAscend ==
    ASSUME program \in Programs, NEW h \in Headers, NEW j \in Headers, j < h
    PROVE  program[j].va + program[j].memsz <= program[h].va
  <1>1. h \in 1 .. Len(program) /\ j \in 1 .. Len(program) /\ program[h].load /\ program[j].load
        /\ Len(program) \in Nat
    BY HeadersTyped DEF Headers
  <1>2. j \in 1 .. h - 1
    BY <1>1
  <1> QED
    BY <1>1, <1>2, ProgramAssumption

\* The addresses of a segment are modelled, those of a page are its page.
LEMMA PagesModelled ==
    ASSUME NEW a \in Addr
    PROVE  a \in Nat /\ PageOf(a) \in Page
  <1> DEFINE B == PAGE_SIZE
             q == PageOf(a)
  <1>1. a \in Nat /\ a < PageCount * B /\ B \in Nat \ {0} /\ PageCount \in Nat
    BY SizeAssumption DEF Addr
  <1>2. q \in Nat /\ B * q <= a
    BY <1>1, PageAndOffset DEF Offset
  <1> HIDE DEF B, q
  <1>3. B * q < PageCount * B
    BY <1>1, <1>2
  <1>4. CASE q >= PageCount
    <2>1. B * q >= PageCount * B
      BY <1>1, <1>2, <1>4
    <2> QED
      BY <1>1, <1>2, <1>3, <2>1
  <1>5. CASE q < PageCount
    BY <1>1, <1>2, <1>5 DEF Page, q
  <1> QED
    BY <1>1, <1>2, <1>4, <1>5

-----------------------------------------------------------------------------
(* Pages.                                                                  *)

PageType == [Page -> {Unmapped} \union [Offset -> Nat \X Nat]]

\* A page of bytes is not an unmapped page.
LEMMA MappedIsMapped ==
    ASSUME NEW c \in [Offset -> Nat \X Nat]
    PROVE  c # Unmapped
  <1>1. 0 \in Offset
    BY SizeAssumption DEF Offset
  <1>2. DOMAIN c = Offset /\ DOMAIN Unmapped = {}
    BY DEF Unmapped
  <1> QED
    BY <1>1, <1>2

\* The bytes that pieces are made of.
LEMMA BytesTyped ==
    /\ ZeroByte \in Nat \X Nat /\ ZeroPage \in [Offset -> Nat \X Nat]
    /\ \A n : /\ DOMAIN Zeros(n) = 0 .. n - 1
              /\ \A x \in 0 .. n - 1 : Zeros(n)[x] = ZeroByte
    /\ \A n, from : /\ DOMAIN FileBytes(from, n) = 0 .. n - 1
                    /\ \A x \in 0 .. n - 1 : FileBytes(from, n)[x] = <<k, from + x>>
  BY DEF ZeroByte, ZeroPage, Zeros, FileBytes

LEMMA PatchedTyped ==
    ASSUME NEW c \in [Offset -> Nat \X Nat], NEW o, NEW bytes,
           \A x \in DOMAIN bytes : bytes[x] \in Nat \X Nat
    PROVE  Patched(c, o, bytes) \in [Offset -> Nat \X Nat]
  BY DEF Patched

\* InsertFresh: the page is there, or it is lost.
LEMMA FreshKeeps ==
    ASSUME TypeOK, NEW g \in Nat, NEW c \in [Offset -> Nat \X Nat], left # 0, InsertFresh(g, c)
    PROVE  /\ page' \in PageType /\ tables' \subseteq Nat /\ left' \in Nat /\ lost' \in BOOLEAN
           /\ lost => lost'
           /\ \A x \in Page : page'[x] # Unmapped => x = g \/ page[x] # Unmapped
           /\ ~lost' => \A x \in Page : page'[x] = IF x = g THEN c ELSE page[x]
  <1> DEFINE region == g \div RegionPages
             pages == IF region \in tables THEN 1 ELSE 2
  <1>1. region \in Nat /\ pages \in {1, 2}
    BY DivMod, SizeAssumption
  <1>2. /\ page \in PageType /\ tables \subseteq Nat /\ left \in Nat /\ lost \in BOOLEAN
    BY DEF TypeOK, PageType
  <1>3. IF left >= pages
        THEN /\ page' = [page EXCEPT ![g] = c] /\ tables' = tables \union {region}
             /\ left' = left - pages /\ lost' = lost
        ELSE left' = left - 1 /\ lost' = TRUE /\ UNCHANGED <<page, tables>>
    BY DEF InsertFresh
  <1> HIDE DEF region, pages
  <1>4. CASE left >= pages
    <2>1. /\ page' = [page EXCEPT ![g] = c] /\ tables' = tables \union {region}
          /\ left' = left - pages /\ lost' = lost
      BY <1>3, <1>4
    <2>2. left' \in Nat
      BY <1>1, <1>2, <1>4, <2>1
    <2>3. page' \in PageType /\ \A x \in Page : page'[x] = IF x = g THEN c ELSE page[x]
      BY <1>2, <2>1 DEF PageType
    <2> QED
      BY <1>1, <1>2, <2>1, <2>2, <2>3
  <1>5. CASE ~(left >= pages)
    <2>1. left' = left - 1 /\ lost' = TRUE /\ UNCHANGED <<page, tables>>
      BY <1>3, <1>5
    <2>2. left' \in Nat
      BY <1>2, <2>1
    <2> QED
      BY <1>2, <2>1, <2>2
  <1> QED
    BY <1>4, <1>5

\* What can be read afterwards.
LEMMA FreshReads ==
    ASSUME TypeOK, NEW g \in Nat, NEW c \in [Offset -> Nat \X Nat], left # 0, InsertFresh(g, c),
           ~lost', NEW a \in Addr
    PROVE  Reads(a)' = IF PageOf(a) = g THEN c[OffsetOf(a)] ELSE Reads(a)
  <1>1. PageOf(a) \in Page
    BY PagesModelled
  <1>2. page'[PageOf(a)] = IF PageOf(a) = g THEN c ELSE page[PageOf(a)]
    BY <1>1, FreshKeeps
  <1>3. c # Unmapped
    BY MappedIsMapped
  <1> QED
    BY <1>2, <1>3 DEF Reads

\* PatchPage: it writes to a page that is there, or faults.
LEMMA PatchKeeps ==
    ASSUME TypeOK, NEW g, NEW o, NEW bytes, NEW next, PatchPage(g, o, bytes, next),
           \A x \in DOMAIN bytes : bytes[x] \in Nat \X Nat
    PROVE  /\ page' \in PageType /\ UNCHANGED <<tables, left, lost>>
           /\ \A x \in Page : page'[x] # Unmapped <=> page[x] # Unmapped
           /\ \/ DOMAIN bytes = {} /\ pc' = next /\ page' = page
              \/ DOMAIN bytes # {} /\ page[g] = Unmapped /\ pc' = "fault" /\ page' = page
              \/ /\ page[g] # Unmapped /\ pc' = next
                 /\ page' = [page EXCEPT ![g] = Patched(page[g], o, bytes)]
  <1>1. page \in PageType
    BY DEF TypeOK, PageType
  <1>2. CASE DOMAIN bytes = {}
    BY <1>1, <1>2 DEF PatchPage, Goto
  <1>3. CASE DOMAIN bytes # {} /\ page[g] = Unmapped
    BY <1>1, <1>3 DEF PatchPage, Goto
  <1>4. CASE DOMAIN bytes # {} /\ page[g] # Unmapped
    <2>1. /\ page' = [page EXCEPT ![g] = Patched(page[g], o, bytes)]
          /\ pc' = next /\ UNCHANGED <<tables, left, lost>>
      BY <1>4 DEF PatchPage, Goto
    <2>2. CASE g \in Page
      <3>1. PICK c \in [Offset -> Nat \X Nat] : c = page[g]
        BY <1>1, <1>4, <2>2 DEF PageType
      <3>2. PICK d \in [Offset -> Nat \X Nat] : d = Patched(page[g], o, bytes)
        BY <3>1, PatchedTyped
      <3>3. d # Unmapped
        BY MappedIsMapped
      <3>4. page' = [page EXCEPT ![g] = d]
        BY <2>1, <3>2
      <3> QED
        BY <1>1, <1>4, <2>1, <3>3, <3>4 DEF PageType
    <2>3. CASE g \notin Page
      <3>1. page' = page
        BY <1>1, <2>1, <2>3 DEF PageType
      <3> QED
        BY <1>1, <1>4, <2>1, <3>1
    <2> QED
      BY <2>2, <2>3
  <1> QED
    BY <1>2, <1>3, <1>4

\* What can be read after n bytes were written from address b on, in one page.
LEMMA PatchReads ==
    ASSUME TypeOK, NEW b \in Nat, NEW n \in Nat, OffsetOf(b) + n <= PAGE_SIZE,
           NEW bytes, DOMAIN bytes = 0 .. n - 1,
           \A x \in DOMAIN bytes : bytes[x] \in Nat \X Nat,
           NEW next, PatchPage(PageOf(b), OffsetOf(b), bytes, next), pc' # "fault",
           NEW a \in Addr
    PROVE  Reads(a)' = IF a - b \in 0 .. n - 1 THEN bytes[a - b] ELSE Reads(a)
  <1>1. a \in Nat /\ PageOf(a) \in Page /\ page \in PageType
    BY PagesModelled DEF TypeOK, PageType
  <1>2. \/ DOMAIN bytes = {} /\ page' = page
        \/ /\ page[PageOf(b)] # Unmapped
           /\ page' = [page EXCEPT ![PageOf(b)] = Patched(page[PageOf(b)], OffsetOf(b), bytes)]
    BY PatchKeeps
  <1>3. CASE DOMAIN bytes = {} /\ page' = page
    BY <1>3 DEF Reads
  <1>4. CASE /\ page[PageOf(b)] # Unmapped
             /\ page' = [page EXCEPT ![PageOf(b)] = Patched(page[PageOf(b)], OffsetOf(b), bytes)]
    <2>1. CASE PageOf(a) # PageOf(b)
      <3>1. page'[PageOf(a)] = page[PageOf(a)]
        BY <1>1, <1>4, <2>1 DEF PageType
      <3>2. a - b \notin 0 .. n - 1
        <4> SUFFICES ASSUME a - b \in 0 .. n - 1 PROVE FALSE
          OBVIOUS
        <4>1. PICK m \in Nat : m = a - b
          OBVIOUS
        <4>2. OffsetOf(b) + m < PAGE_SIZE /\ a = b + m
          <5>1. OffsetOf(b) \in Nat /\ PAGE_SIZE \in Nat
            BY PageAndOffset, SizeAssumption DEF Offset
          <5>2. m < n /\ a = b + m
            BY <1>1, <4>1
          <5> QED
            BY <5>1, <5>2
        <4>3. PageOf(b + m) = PageOf(b)
          BY <4>2, WithinPage
        <4> QED
          BY <2>1, <4>2, <4>3
      <3> QED
        BY <3>1, <3>2 DEF Reads
    <2>2. CASE PageOf(a) = PageOf(b)
      <3>1. OffsetOf(a) \in Offset /\ a - b = OffsetOf(a) - OffsetOf(b)
        BY <1>1, <2>2, PageAndOffset, SamePage
      <3>2. PICK c \in [Offset -> Nat \X Nat] : c = page[PageOf(b)]
        BY <1>1, <1>4, <2>2 DEF PageType
      <3>3. PICK d \in [Offset -> Nat \X Nat] : d = Patched(c, OffsetOf(b), bytes)
        BY PatchedTyped
      <3>4. page'[PageOf(a)] = d /\ d # Unmapped /\ c # Unmapped /\ page[PageOf(a)] = c
        BY <1>1, <1>4, <2>2, <3>2, <3>3, MappedIsMapped DEF PageType
      <3>5. d[OffsetOf(a)] = IF a - b \in 0 .. n - 1 THEN bytes[a - b] ELSE c[OffsetOf(a)]
        BY <3>1, <3>3 DEF Patched
      <3> QED
        BY <3>4, <3>5 DEF Reads
    <2> QED
      BY <2>1, <2>2
  <1> QED
    BY <1>2, <1>3, <1>4

-----------------------------------------------------------------------------
(* The pieces of a segment.                                                *)

\* What the invariant says while codeMapper is at a segment.
LEMMA AtSegment ==
    ASSUME IInv, InMapper
    PROVE  /\ k \in Headers /\ k \in Nat /\ k >= 1 /\ k <= Len(program) /\ Len(program) \in Nat
           /\ Segment.va \in Nat /\ Segment.memsz \in Nat /\ Segment.filesz \in Nat
           /\ Segment.filesz <= Segment.memsz
           /\ Segment.va + Segment.memsz <= PageCount * PAGE_SIZE
           /\ i \in Nat /\ r \in Nat /\ r <= PAGE_SIZE
  BY HeadersTyped, SizeAssumption DEF IInv, PlaceInv, TypeOK, Segment

\* A byte of the segment has an address that is modelled.
LEMMA InSegment ==
    ASSUME NEW va \in Nat, NEW x \in Nat, NEW y \in Nat, x < y, va + y <= PageCount * PAGE_SIZE
    PROVE  va + x \in Nat /\ va + x \in Addr
  <1>1. PICK top \in Int : top = PageCount * PAGE_SIZE
    BY SizeAssumption
  <1>2. va + x \in Nat /\ va + x <= top - 1
    BY <1>1
  <1> QED
    BY <1>1, <1>2 DEF Addr

\* All that has been loaded is below the end of what this segment has.
LEMMA LoadedBelow ==
    ASSUME IInv, InMapper, NEW h \in Headers, NEW a \in Addr, Loaded(h, a)
    PROVE  a < Segment.va + Segment.filesz /\ a < Segment.va + i
  <1>1. /\ k \in Headers /\ k \in Nat /\ h \in Nat /\ i \in Nat /\ a \in Int
        /\ Segment.va \in Nat /\ Segment.filesz \in Nat
        /\ program[h].va \in Nat /\ program[h].filesz \in Nat /\ program[h].memsz \in Nat
        /\ program[h].filesz <= program[h].memsz
    BY AtSegment, HeadersTyped DEF Addr, IInv
  <1>2. CASE h < k
    <2>1. program[h].va + program[h].memsz <= Segment.va
      BY <1>1, <1>2, HeadersAscend DEF IInv, Segment
    <2>2. a - program[h].va \in 0 .. program[h].filesz - 1
      BY <1>2 DEF Loaded, FileDone
    <2> QED
      BY <1>1, <2>1, <2>2
  <1>3. CASE h = k
    <2>1. FileDone(h) = Smaller(i, Segment.filesz)
      BY <1>1, <1>3 DEF FileDone, Segment
    <2> QED
      BY <1>1, <1>3, <2>1 DEF Loaded, Smaller, Segment
  <1>4. CASE h > k
    <2>1. FileDone(h) = 0
      BY <1>1, <1>4 DEF FileDone
    <2> QED
      BY <1>1, <2>1 DEF Loaded
  <1> QED
    BY <1>1, <1>2, <1>3, <1>4

\* Bytes x .. x + n - 1 of the file part are loaded now, and they were not before.
LEMMA MoreLoaded ==
    ASSUME IInv, InMapper, InMapper', UNCHANGED <<program, k>>, NEW n \in Nat,
           i' = i + n, i' <= Segment.filesz,
           NEW h \in Headers, NEW a \in Addr
    PROVE  Loaded(h, a)' <=> Loaded(h, a) \/ (h = k /\ a - (Segment.va + i) \in 0 .. n - 1)
  <1>1. /\ k \in Nat /\ h \in Nat /\ i \in Nat /\ a \in Int
        /\ Segment.va \in Nat /\ Segment.filesz \in Nat /\ program[h].va \in Nat
    BY AtSegment, HeadersTyped DEF Addr, IInv
  <1>2. CASE h = k
    <2>1. FileDone(h) = i /\ FileDone(h)' = i + n
      BY <1>1, <1>2 DEF FileDone, Segment, Smaller
    <2> QED
      BY <1>1, <1>2, <2>1 DEF Loaded, Segment
  <1>3. CASE h # k
    BY <1>1, <1>3 DEF Loaded, FileDone
  <1> QED
    BY <1>2, <1>3

\* The file part was complete and still is.
LEMMA NoMoreLoaded ==
    ASSUME IInv, InMapper, InMapper', UNCHANGED <<program, k>>,
           i >= Segment.filesz, i' \in Nat, i' >= Segment.filesz,
           NEW h \in Headers, NEW a \in Addr
    PROVE  Loaded(h, a)' <=> Loaded(h, a)
  <1>1. k \in Nat /\ h \in Nat /\ i \in Nat /\ Segment.filesz \in Nat
    BY AtSegment, HeadersTyped DEF IInv
  <1>2. Smaller(i, Segment.filesz) = Segment.filesz /\ Smaller(i', Segment.filesz) = Segment.filesz
    BY <1>1 DEF Smaller
  <1>3. FileDone(h)' = FileDone(h)
    BY <1>1, <1>2 DEF FileDone, Segment
  <1> QED
    BY <1>3 DEF Loaded

\* Where a byte has been loaded there is a page.
LEMMA LoadedIsMapped ==
    ASSUME IInv, ~lost, pc \notin {"panic", "fault"}, NEW h \in Headers, NEW a \in Addr, Loaded(h, a)
    PROVE  page[PageOf(a)] # Unmapped
  <1>1. Reads(a) = <<h, a - program[h].va>> /\ h >= 1 /\ h \in Nat
    BY HeadersTyped DEF IInv, ContentsInv, BytesThere
  <1>2. <<h, a - program[h].va>> # ZeroByte
    BY <1>1 DEF ZeroByte
  <1> QED
    BY <1>1, <1>2 DEF Reads

\* No earlier segment has a byte of its file part in a page that is not mapped.
LEMMA BareWhereUnmapped ==
    ASSUME IInv, InMapper, ~lost, page[PageOf(Segment.va)] = Unmapped,
           NEW h \in Headers, h < k
    PROVE  PageOf(Segment.va) \notin FilePages(h)
  <1> SUFFICES ASSUME NEW a \in program[h].va .. program[h].va + program[h].filesz - 1,
                      PageOf(a) = PageOf(Segment.va)
               PROVE  FALSE
    BY DEF FilePages
  <1>1. /\ program[h].va \in Nat /\ program[h].memsz \in Nat /\ program[h].filesz \in Nat
        /\ program[h].filesz <= program[h].memsz
        /\ program[h].va + program[h].memsz <= PageCount * PAGE_SIZE
    BY HeadersTyped DEF IInv
  <1>2. PICK x \in Nat : x = a - program[h].va /\ x < program[h].filesz
    <2>1. a - program[h].va \in Nat /\ a - program[h].va < program[h].filesz
      BY <1>1
    <2> QED
      BY <2>1
  <1>3. a = program[h].va + x /\ x < program[h].memsz
    BY <1>1, <1>2
  <1>4. a \in Addr
    BY <1>1, <1>3, InSegment
  <1>5. Loaded(h, a)
    BY <1>1, <1>2 DEF Loaded, FileDone
  <1>6. page[PageOf(a)] # Unmapped
    BY <1>4, <1>5, LoadedIsMapped DEF InMapper
  <1> QED
    BY <1>6

\* Nothing is mapped that was not, or a page of the segment in hand.
LEMMA MapsSegmentsStill ==
    ASSUME IInv, UNCHANGED program,
           \A x \in Page : page'[x] # Unmapped =>
               page[x] # Unmapped \/ (k \in Headers /\ \E a \in Bytes(k) : PageOf(a) = x)
    PROVE  MapsOnlySegments'
  <1>1. \A h \in Headers : h \in Headers' /\ Bytes(h)' = Bytes(h)
    BY DEF Headers, Bytes
  <1> SUFFICES ASSUME NEW x \in Page, page'[x] # Unmapped
               PROVE  \E h \in Headers : \E a \in Bytes(h) : PageOf(a) = x
    BY <1>1 DEF MapsOnlySegments
  <1>2. CASE page[x] # Unmapped
    BY <1>2 DEF IInv, MapsOnlySegments
  <1>3. CASE k \in Headers /\ \E a \in Bytes(k) : PageOf(a) = x
    BY <1>3
  <1> QED
    BY <1>2, <1>3

\* Neither the pages change nor what is loaded.
LEMMA ContentsStill ==
    ASSUME IInv, UNCHANGED <<program, page, lost>>, pc \notin {"panic", "fault"},
           \A h \in Headers : FileDone(h)' = FileDone(h)
    PROVE  ContentsInv'
  <1> SUFFICES ASSUME ~lost' PROVE BytesThere' /\ RestZero'
    BY DEF ContentsInv
  <1>1. BytesThere /\ RestZero
    BY DEF IInv, ContentsInv
  <1>2. Headers' = Headers
    BY DEF Headers
  <1>3. \A h \in Headers, a \in Addr : Loaded(h, a)' = Loaded(h, a)
    BY DEF Loaded
  <1>4. \A a \in Addr : Reads(a)' = Reads(a)
    BY DEF Reads
  <1>5. BytesThere'
    BY <1>1, <1>2, <1>3, <1>4 DEF BytesThere
  <1>6. RestZero'
    BY <1>1, <1>2, <1>3, <1>4 DEF RestZero
  <1> QED
    BY <1>5, <1>6

-----------------------------------------------------------------------------
(* Every step preserves the invariant.                                     *)

LEMMA SegmentHeadPreserves ==
    ASSUME IInv, SegmentHead
    PROVE  IInv'
  <1> DEFINE o == OffsetOf(Segment.va)
             n == HeadLength(o)
  <1>1. pc = "head" /\ InMapper /\ i = 0 /\ UNCHANGED <<program, k>> /\ TypeOK
    BY DEF SegmentHead, InMapper, IInv, PlaceInv
  <1>2. /\ k \in Headers /\ k \in Nat /\ PAGE_SIZE \in Nat \ {0}
        /\ Segment.va \in Nat /\ Segment.memsz \in Nat /\ Segment.filesz \in Nat
        /\ Segment.filesz <= Segment.memsz
        /\ Segment.va + Segment.memsz <= PageCount * PAGE_SIZE
        /\ o \in Nat /\ o < PAGE_SIZE
    <2>1. /\ k \in Headers /\ k \in Nat /\ PAGE_SIZE \in Nat \ {0}
          /\ Segment.va \in Nat /\ Segment.memsz \in Nat /\ Segment.filesz \in Nat
          /\ Segment.filesz <= Segment.memsz
          /\ Segment.va + Segment.memsz <= PageCount * PAGE_SIZE
      BY <1>1, AtSegment, SizeAssumption
    <2>2. o \in Offset
      BY <2>1, PageAndOffset
    <2> QED
      BY <2>1, <2>2 DEF Offset
  <1>3. CASE o = 0
    <2>1. pc' = "file" /\ i' = 0 /\ UNCHANGED <<program, k, r, page, tables, left, lost>>
      BY <1>3 DEF SegmentHead, Goto
    <2>2. TypeOK'
      BY <1>1, <2>1 DEF TypeOK
    <2>3. PlaceInv'
      <3>1. Segment.va + 0 = Segment.va
        BY <1>2
      <3> QED
        BY <1>2, <1>3, <2>1, <3>1 DEF PlaceInv, InMapper, Headers, Segment, MoreFile
    <2>4. ContentsInv'
      <3>1. \A h \in Headers : FileDone(h)' = FileDone(h)
        BY <1>1, <2>1 DEF FileDone, InMapper
      <3> QED
        BY <1>1, <2>1, <3>1, ContentsStill
    <2>5. MapsOnlySegments'
      BY <2>1, MapsSegmentsStill
    <2>6. FaultsOnlyAtBareHeads'
      BY <2>1 DEF FaultsOnlyAtBareHeads
    <2> QED
      BY <1>1, <2>2, <2>3, <2>4, <2>5, <2>6 DEF IInv
  <1>4. CASE o > 0
    <2>1. PICK bytes : bytes = FileBytes(0, n)
      OBVIOUS
    <2>2. r' = n /\ i' = n /\ PatchPage(PageOf(Segment.va), o, bytes, "file")
      BY <1>4, <2>1 DEF SegmentHead
    <2>3. /\ n \in Nat /\ n <= PAGE_SIZE /\ o + n <= PAGE_SIZE /\ n <= Segment.filesz
          /\ n < Segment.filesz => n = PAGE_SIZE - o
      BY <1>2 DEF HeadLength, Smaller
    <2>4. DOMAIN bytes = 0 .. n - 1 /\ \A x \in 0 .. n - 1 : bytes[x] = <<k, x>>
      <3>1. \A x \in 0 .. n - 1 : bytes[x] = <<k, 0 + x>> /\ 0 + x = x
        BY <2>1, <2>3, BytesTyped
      <3> QED
        BY <2>1, <3>1, BytesTyped
    <2>5. \A x \in DOMAIN bytes : bytes[x] \in Nat \X Nat
      <3>1. \A x \in 0 .. n - 1 : <<k, x>> \in Nat \X Nat
        BY <1>2, <2>3
      <3> QED
        BY <2>4, <3>1
    <2> HIDE DEF o, n
    <2>6. /\ page' \in PageType /\ UNCHANGED <<tables, left, lost>>
          /\ \A x \in Page : page'[x] # Unmapped <=> page[x] # Unmapped
      BY <1>1, <2>2, <2>5, PatchKeeps
    <2>7. \/ pc' = "file"
          \/ page[PageOf(Segment.va)] = Unmapped /\ pc' = "fault" /\ page' = page
      BY <1>1, <2>2, <2>5, PatchKeeps
    <2>8. TypeOK'
      <3>1. k' \in 1 .. Len(program') + 1 /\ pc' \in {"file", "fault"}
        BY <1>1, <2>7 DEF TypeOK
      <3>2. i' \in Nat /\ r' \in 0 .. PAGE_SIZE
        BY <1>2, <2>2, <2>3
      <3>3. tables' \subseteq Nat /\ left' \in Nat /\ lost' \in BOOLEAN
        BY <1>1, <2>6 DEF TypeOK
      <3> QED
        BY <2>6, <3>1, <3>2, <3>3 DEF TypeOK, PageType
    <2>9. MapsOnlySegments'
      BY <1>1, <2>6, MapsSegmentsStill
    <2>10. CASE pc' = "fault"
      <3>1. page[PageOf(Segment.va)] = Unmapped
        BY <2>7, <2>10
      <3>2. FaultsOnlyAtBareHeads'
        <4> SUFFICES ASSUME ~lost'
                     PROVE  /\ OffsetOf(Segment.va) > 0
                            /\ \A h \in Headers : h < k => PageOf(Segment.va) \notin FilePages(h)
          BY <1>1 DEF FaultsOnlyAtBareHeads, Headers, FilePages, Segment
        <4>1. ~lost
          BY <2>6
        <4>2. \A h \in Headers : h < k => PageOf(Segment.va) \notin FilePages(h)
          BY <1>1, <3>1, <4>1, BareWhereUnmapped
        <4> QED
          BY <1>4, <4>2 DEF o
      <3> QED
        BY <1>1, <2>8, <2>9, <2>10, <3>2 DEF IInv, PlaceInv, ContentsInv, InMapper
    <2>11. CASE pc' = "file"
      <3>1. PlaceInv'
        <4>1. i' < Segment.filesz => OffsetOf(Segment.va + i') = 0
          BY <1>2, <2>2, <2>3, NextPage DEF o
        <4> QED
          BY <1>1, <1>2, <2>2, <2>3, <2>11, <4>1
             DEF PlaceInv, InMapper, Headers, Segment, MoreFile
      <3>2. ContentsInv'
        <4> SUFFICES ASSUME ~lost' PROVE BytesThere' /\ RestZero'
          BY DEF ContentsInv
        <4>1. BytesThere /\ RestZero
          BY <1>1, <2>6 DEF IInv, ContentsInv
        <4>2. ASSUME NEW h \in Headers, NEW a \in Addr
              PROVE  Loaded(h, a)' <=> Loaded(h, a) \/ (h = k /\ a - Segment.va \in 0 .. n - 1)
          <5>1. InMapper' /\ i' = i + n /\ i' <= Segment.filesz /\ Segment.va + i = Segment.va
            BY <1>1, <1>2, <2>2, <2>3, <2>11 DEF InMapper
          <5> QED
            BY <1>1, <2>3, <5>1, MoreLoaded
        <4>3. ASSUME NEW a \in Addr
              PROVE  Reads(a)' = IF a - Segment.va \in 0 .. n - 1 THEN <<k, a - Segment.va>> ELSE Reads(a)
          <5>1. OffsetOf(Segment.va) + n <= PAGE_SIZE
            BY <2>3 DEF o
          <5>2. PatchPage(PageOf(Segment.va), OffsetOf(Segment.va), bytes, "file") /\ pc' # "fault"
            BY <2>2, <2>11 DEF o
          <5>3. Reads(a)' = IF a - Segment.va \in 0 .. n - 1 THEN bytes[a - Segment.va] ELSE Reads(a)
            BY <1>1, <1>2, <2>3, <2>4, <2>5, <5>1, <5>2, PatchReads
          <5> QED
            BY <2>4, <5>3
        <4>4. ASSUME NEW h \in Headers, NEW a \in Addr, Loaded(h, a)
              PROVE  a - Segment.va \notin 0 .. n - 1
          <5>1. a < Segment.va + i /\ a \in Int
            BY <1>1, <4>4, LoadedBelow DEF Addr
          <5> QED
            BY <1>1, <1>2, <2>3, <5>1
        <4>5. BytesThere'
          <5> SUFFICES ASSUME NEW h \in Headers, NEW a \in Addr, Loaded(h, a)'
                       PROVE  Reads(a)' = <<h, a - program[h].va>>
            BY <1>1 DEF BytesThere, Headers
          <5>1. CASE Loaded(h, a)
            BY <4>1, <4>3, <4>4, <5>1 DEF BytesThere
          <5>2. CASE h = k /\ a - Segment.va \in 0 .. n - 1
            BY <4>3, <5>2 DEF Segment
          <5> QED
            BY <4>2, <5>1, <5>2
        <4>6. RestZero'
          <5> SUFFICES ASSUME NEW a \in Addr, \A h \in Headers : ~Loaded(h, a)'
                       PROVE  Reads(a)' = ZeroByte
            BY <1>1 DEF RestZero, Headers
          <5>1. (\A h \in Headers : ~Loaded(h, a)) /\ a - Segment.va \notin 0 .. n - 1
            BY <1>2, <4>2
          <5> QED
            BY <4>1, <4>3, <5>1 DEF RestZero
        <4> QED
          BY <4>5, <4>6
      <3>3. FaultsOnlyAtBareHeads'
        BY <2>11 DEF FaultsOnlyAtBareHeads
      <3> QED
        BY <1>1, <2>8, <2>9, <3>1, <3>2, <3>3 DEF IInv
    <2> QED
      BY <2>7, <2>10, <2>11
  <1> QED
    BY <1>2, <1>3, <1>4

\* There is no page left: the kernel stops where it is.
LEMMA PanicPreserves ==
    ASSUME IInv, Panic, UNCHANGED <<program, k>>
    PROVE  IInv'
  BY DEF Panic, Goto, IInv, TypeOK, PlaceInv, InMapper, ContentsInv, MapsOnlySegments,
         FaultsOnlyAtBareHeads, Headers, Bytes

LEMMA FilePagePreserves ==
    ASSUME IInv, FilePage
    PROVE  IInv'
  <1> DEFINE n == Smaller(PAGE_SIZE, Segment.filesz - i)
             g == PageOf(Segment.va + i)
             c == Patched(ZeroPage, 0, FileBytes(i, n))
  <1>1. /\ pc = "file" /\ InMapper /\ MoreFile /\ UNCHANGED <<program, k>> /\ TypeOK
    BY DEF FilePage, InMapper, IInv
  <1>2. /\ k \in Headers /\ k \in Nat /\ i \in Nat /\ PAGE_SIZE \in Nat \ {0}
        /\ Segment.va \in Nat /\ Segment.memsz \in Nat /\ Segment.filesz \in Nat
        /\ Segment.filesz <= Segment.memsz /\ i < Segment.filesz
        /\ Segment.va + Segment.memsz <= PageCount * PAGE_SIZE
        /\ OffsetOf(Segment.va + i) = 0
    BY <1>1, AtSegment, SizeAssumption DEF MoreFile, IInv, PlaceInv
  <1>3. CASE left = 0
    <2>1. Panic
      BY <1>3 DEF FilePage
    <2> QED
      BY <1>1, <2>1, PanicPreserves
  <1>4. CASE left # 0
    <2>1. InsertFresh(g, c) /\ r' = n /\ i' = i + n /\ pc' = pc
      BY <1>1, <1>4 DEF FilePage
    <2>2. /\ n \in Nat /\ n <= PAGE_SIZE /\ i + n <= Segment.filesz
          /\ i + n < Segment.filesz => n = PAGE_SIZE
      BY <1>2 DEF Smaller
    <2>3. Segment.va + i \in Nat /\ Segment.va + i \in Addr
      <3>1. i < Segment.memsz
        BY <1>2
      <3> QED
        BY <1>2, <3>1, InSegment
    <2>4. g \in Nat /\ g \in Page
      BY <2>3, PageAndOffset, PagesModelled
    <2>5. PICK bytes : bytes = FileBytes(i, n)
      OBVIOUS
    <2>6. /\ DOMAIN bytes = 0 .. n - 1
          /\ \A x \in 0 .. n - 1 : bytes[x] = <<k, i + x>> /\ bytes[x] \in Nat \X Nat
      <3>1. \A x \in 0 .. n - 1 : i + x \in Nat
        BY <1>2, <2>2
      <3>2. DOMAIN bytes = 0 .. n - 1 /\ \A x \in 0 .. n - 1 : bytes[x] = <<k, i + x>>
        BY <2>5, BytesTyped
      <3>3. \A x \in 0 .. n - 1 : <<k, i + x>> \in Nat \X Nat
        BY <1>2, <3>1
      <3> QED
        BY <3>2, <3>3
    <2>7. c = Patched(ZeroPage, 0, bytes)
      BY <2>5
    <2> HIDE DEF n, g, c
    <2>8. c \in [Offset -> Nat \X Nat]
      BY <2>6, <2>7, BytesTyped, PatchedTyped
    <2>9. \A x \in Offset : c[x] = IF x < n THEN <<k, i + x>> ELSE ZeroByte
      <3>1. \A x \in Offset : x \in Nat /\ x - 0 = x
        BY <1>2 DEF Offset
      <3>2. \A x \in Offset : x \in 0 .. n - 1 <=> x < n
        BY <2>2, <3>1
      <3>3. \A x \in Offset : c[x] = IF x - 0 \in DOMAIN bytes THEN bytes[x - 0] ELSE ZeroPage[x]
        BY <2>7 DEF Patched
      <3>4. \A x \in Offset : ZeroPage[x] = ZeroByte
        BY DEF ZeroPage
      <3> QED
        BY <2>6, <3>1, <3>2, <3>3, <3>4
    <2>10. /\ page' \in PageType /\ tables' \subseteq Nat /\ left' \in Nat /\ lost' \in BOOLEAN
           /\ lost => lost'
           /\ \A x \in Page : page'[x] # Unmapped => x = g \/ page[x] # Unmapped
      BY <1>1, <1>4, <2>1, <2>4, <2>8, FreshKeeps
    <2>11. TypeOK'
      <3>1. k' \in 1 .. Len(program') + 1 /\ pc' = "file"
        BY <1>1, <2>1 DEF TypeOK
      <3>2. i' \in Nat /\ r' \in 0 .. PAGE_SIZE
        BY <1>2, <2>1, <2>2
      <3> QED
        BY <2>10, <3>1, <3>2 DEF TypeOK, PageType
    <2>12. PlaceInv'
      <3>1. i' < Segment.filesz => OffsetOf(Segment.va + i') = 0
        <4>1. ASSUME i' < Segment.filesz
              PROVE  Segment.va + i' = (Segment.va + i) + (PAGE_SIZE - OffsetOf(Segment.va + i))
          BY <1>2, <2>1, <2>2, <4>1
        <4> QED
          BY <2>3, <4>1, NextPage
      <3> QED
        BY <1>1, <1>2, <2>1, <2>2, <3>1
           DEF PlaceInv, InMapper, Headers, Segment, MoreFile
    <2>13. ContentsInv'
      <3> SUFFICES ASSUME ~lost' PROVE BytesThere' /\ RestZero'
        BY DEF ContentsInv
      <3>1. BytesThere /\ RestZero
        <4>1. ~lost /\ pc \notin {"panic", "fault"}
          BY <1>1, <2>10
        <4> QED
          BY <4>1 DEF IInv, ContentsInv
      <3>2. ASSUME NEW h \in Headers, NEW a \in Addr
            PROVE  Loaded(h, a)' <=> Loaded(h, a) \/ (h = k /\ a - (Segment.va + i) \in 0 .. n - 1)
        <4>1. InMapper' /\ i' = i + n /\ i' <= Segment.filesz
          BY <1>1, <2>1, <2>2 DEF InMapper
        <4> QED
          BY <1>1, <2>2, <4>1, MoreLoaded
      <3>3. ASSUME NEW a \in Addr
            PROVE  Reads(a)' = IF PageOf(a) = g THEN c[OffsetOf(a)] ELSE Reads(a)
        BY <1>1, <1>4, <2>1, <2>4, <2>8, FreshReads
      \* The new page is the bytes from va + i on.
      <3>4. ASSUME NEW a \in Addr, PageOf(a) = g
            PROVE  /\ a - (Segment.va + i) \in Nat
                   /\ Reads(a)' = IF a - (Segment.va + i) \in 0 .. n - 1
                                  THEN <<k, a - Segment.va>> ELSE ZeroByte
        <4>1. a \in Nat /\ OffsetOf(a) \in Offset /\ a - (Segment.va + i) = OffsetOf(a) - 0
          BY <1>2, <2>3, <3>4, PagesModelled, PageAndOffset, SamePage DEF g
        <4>2. OffsetOf(a) \in Nat /\ i + OffsetOf(a) = a - Segment.va
          BY <1>2, <4>1 DEF Offset
        <4>3. OffsetOf(a) < n <=> a - (Segment.va + i) \in 0 .. n - 1
          BY <2>2, <4>1, <4>2
        <4>4. Reads(a)' = IF OffsetOf(a) < n THEN <<k, i + OffsetOf(a)>> ELSE ZeroByte
          BY <2>9, <3>3, <3>4, <4>1
        <4> QED
          BY <4>1, <4>2, <4>3, <4>4
      <3>5. ASSUME NEW a \in Addr, a - (Segment.va + i) \in 0 .. n - 1 PROVE PageOf(a) = g
        <4>1. PICK m \in Nat : m = a - (Segment.va + i)
          BY <3>5
        <4>2. a = (Segment.va + i) + m /\ 0 + m < PAGE_SIZE
          BY <1>2, <2>2, <3>5, <4>1 DEF Addr
        <4> QED
          BY <1>2, <2>3, <4>2, WithinPage DEF g
      <3>6. ASSUME NEW h \in Headers, NEW a \in Addr, Loaded(h, a) PROVE PageOf(a) # g
        <4>1. a < Segment.va + i /\ a \in Int
          BY <1>1, <3>6, LoadedBelow DEF Addr
        <4> QED
          BY <1>2, <3>4, <4>1
      <3>7. BytesThere'
        <4> SUFFICES ASSUME NEW h \in Headers, NEW a \in Addr, Loaded(h, a)'
                     PROVE  Reads(a)' = <<h, a - program[h].va>>
          BY <1>1 DEF BytesThere, Headers
        <4>1. CASE Loaded(h, a)
          BY <3>1, <3>3, <3>6, <4>1 DEF BytesThere
        <4>2. CASE h = k /\ a - (Segment.va + i) \in 0 .. n - 1
          BY <3>4, <3>5, <4>2 DEF Segment
        <4> QED
          BY <3>2, <4>1, <4>2
      <3>8. RestZero'
        <4> SUFFICES ASSUME NEW a \in Addr, \A h \in Headers : ~Loaded(h, a)'
                     PROVE  Reads(a)' = ZeroByte
          BY <1>1 DEF RestZero, Headers
        <4>1. (\A h \in Headers : ~Loaded(h, a)) /\ a - (Segment.va + i) \notin 0 .. n - 1
          BY <1>2, <3>2
        <4> QED
          BY <3>1, <3>3, <3>4, <4>1 DEF RestZero
      <3> QED
        BY <3>7, <3>8
    <2>14. MapsOnlySegments'
      <3>1. Segment.va + i \in Bytes(k) /\ PageOf(Segment.va + i) = g
        BY <1>2, <2>3 DEF Bytes, g, Segment
      <3> QED
        BY <1>1, <1>2, <2>10, <3>1, MapsSegmentsStill
    <2>15. FaultsOnlyAtBareHeads'
      BY <1>1, <2>1 DEF FaultsOnlyAtBareHeads
    <2> QED
      BY <1>1, <2>11, <2>12, <2>13, <2>14, <2>15 DEF IInv
  <1> QED
    BY <1>3, <1>4

\* The rest of the page in which the file part ends.
LEMMA GapPreserves ==
    ASSUME IInv, Gap
    PROVE  IInv'
  <1> DEFINE b == Segment.va + i
             o == OffsetOf(b)
             n == Smaller(Segment.memsz - i, PAGE_SIZE - o)
  <1>1. pc = "file" /\ InMapper /\ UNCHANGED <<program, k>> /\ TypeOK
    BY DEF Gap, InMapper, IInv
  <1>2. /\ k \in Headers /\ k \in Nat /\ PAGE_SIZE \in Nat \ {0}
        /\ Segment.va \in Nat /\ Segment.memsz \in Nat /\ Segment.filesz \in Nat
        /\ Segment.filesz <= Segment.memsz
        /\ Segment.va + Segment.memsz <= PageCount * PAGE_SIZE
        /\ i = Segment.filesz /\ r \in Nat /\ r <= PAGE_SIZE
    <2>1. i >= Segment.filesz /\ i <= Segment.filesz
      BY <1>1, AtSegment DEF Gap, MoreFile, IInv, PlaceInv
    <2> QED
      BY <1>1, <2>1, AtSegment, SizeAssumption
  <1>3. b \in Nat /\ o \in Nat /\ o < PAGE_SIZE
    <2>1. b \in Nat
      BY <1>2
    <2>2. o \in Offset
      BY <2>1, PageAndOffset
    <2> QED
      BY <1>2, <2>1, <2>2 DEF Offset
  <1>4. CASE o = 0
    <2>1. pc' = "bss" /\ i' = i + r /\ UNCHANGED <<program, k, r, page, tables, left, lost>>
      BY <1>4 DEF Gap, Goto
    <2>2. i' \in Nat /\ i' >= Segment.filesz
      BY <1>2, <2>1
    <2>3. TypeOK'
      BY <1>1, <2>1, <2>2 DEF TypeOK
    <2>4. PlaceInv'
      <3>1. ASSUME NEW a \in Nat, a < Segment.va + Segment.filesz
            PROVE  PageOf(a) < PageOf(Segment.va + i')
        <4>1. PageOf(a) < PageOf(b)
          BY <1>2, <1>3, <1>4, <3>1, PagesBelow
        <4>2. Segment.va + i' \in Nat /\ b <= Segment.va + i'
          BY <1>2, <2>1
        <4>3. PageOf(b) <= PageOf(Segment.va + i')
          BY <1>3, <4>2, PagesAscend
        <4>4. PageOf(a) \in Nat /\ PageOf(b) \in Nat /\ PageOf(Segment.va + i') \in Nat
          BY <1>3, <4>2, PageAndOffset
        <4> QED
          BY <4>1, <4>3, <4>4
      <3> HIDE DEF b, o, n
      <3> QED
        BY <1>1, <1>2, <2>1, <2>2, <3>1 DEF PlaceInv, InMapper, Headers, Segment, MoreBss
    <2>5. ContentsInv'
      <3>1. \A h \in Headers : FileDone(h)' = FileDone(h)
        <4>1. Smaller(i', Segment.filesz) = Smaller(i, Segment.filesz)
          BY <1>2, <2>2 DEF Smaller
        <4> QED
          BY <1>1, <2>1, <4>1 DEF FileDone, InMapper, Segment
      <3> QED
        BY <1>1, <2>1, <3>1, ContentsStill
    <2>6. MapsOnlySegments'
      BY <2>1, MapsSegmentsStill
    <2>7. FaultsOnlyAtBareHeads'
      BY <2>1 DEF FaultsOnlyAtBareHeads
    <2> QED
      BY <1>1, <2>3, <2>4, <2>5, <2>6, <2>7 DEF IInv
  <1>5. CASE o > 0
    <2>1. PICK bytes : bytes = Zeros(n)
      OBVIOUS
    <2>2. r' = n /\ i' = i + n /\ PatchPage(PageOf(b), o, bytes, "bss")
      BY <1>5, <2>1 DEF Gap
    <2>3. /\ n \in Nat /\ n <= PAGE_SIZE /\ o + n <= PAGE_SIZE
          /\ i + n < Segment.memsz => n = PAGE_SIZE - o
          /\ i + n \in Nat /\ i + n >= Segment.filesz
      <3> HIDE DEF b, o
      <3> QED
        BY <1>2, <1>3 DEF Smaller
    <2>4. DOMAIN bytes = 0 .. n - 1 /\ \A x \in 0 .. n - 1 : bytes[x] = ZeroByte
      BY <2>1, BytesTyped
    <2>5. \A x \in DOMAIN bytes : bytes[x] \in Nat \X Nat
      BY <2>4, BytesTyped
    <2> HIDE DEF b, o, n
    <2>6. /\ page' \in PageType /\ UNCHANGED <<tables, left, lost>>
          /\ \A x \in Page : page'[x] # Unmapped <=> page[x] # Unmapped
      BY <1>1, <2>2, <2>5, PatchKeeps
    <2>7. \/ pc' = "bss"
          \/ page[PageOf(b)] = Unmapped /\ pc' = "fault" /\ page' = page
      BY <1>1, <2>2, <2>5, PatchKeeps
    <2>8. TypeOK'
      <3>1. k' \in 1 .. Len(program') + 1 /\ pc' \in {"bss", "fault"}
        BY <1>1, <2>7 DEF TypeOK
      <3>2. i' \in Nat /\ r' \in 0 .. PAGE_SIZE
        BY <1>2, <2>2, <2>3
      <3>3. tables' \subseteq Nat /\ left' \in Nat /\ lost' \in BOOLEAN
        BY <1>1, <2>6 DEF TypeOK
      <3> QED
        BY <2>6, <3>1, <3>2, <3>3 DEF TypeOK, PageType
    <2>9. MapsOnlySegments'
      BY <1>1, <2>6, MapsSegmentsStill
    <2>10. CASE pc' = "fault"
      <3>1. page[PageOf(b)] = Unmapped
        BY <2>7, <2>10
      <3>2. FaultsOnlyAtBareHeads'
        <4> SUFFICES ASSUME ~lost'
                     PROVE  /\ OffsetOf(Segment.va) > 0
                            /\ \A h \in Headers : h < k => PageOf(Segment.va) \notin FilePages(h)
          BY <1>1 DEF FaultsOnlyAtBareHeads, Headers, FilePages, Segment
        <4>1. ~lost
          BY <2>6
        \* The page with the end of a file part is there.
        <4>2. Segment.filesz = 0
          <5> SUFFICES ASSUME Segment.filesz # 0 PROVE FALSE
            OBVIOUS
          <5>1. PICK x \in Nat : x + 1 = Segment.filesz
            <6>1. Segment.filesz - 1 \in Nat /\ (Segment.filesz - 1) + 1 = Segment.filesz
              BY <1>2
            <6> QED
              BY <6>1
          <5>2. PICK a \in Nat : a = Segment.va + x
            BY <1>2
          <5>3. a \in Addr
            <6>1. x < Segment.memsz
              BY <1>2, <5>1
            <6> QED
              BY <1>2, <5>2, <6>1, InSegment
          <5>4. Loaded(k, a)
            <6>1. FileDone(k) = Segment.filesz
              BY <1>1, <1>2 DEF FileDone, Smaller, Segment
            <6>2. a - Segment.va = x /\ x \in 0 .. Segment.filesz - 1
              BY <1>2, <5>1, <5>2
            <6> QED
              BY <6>1, <6>2 DEF Loaded, Segment
          <5>5. page[PageOf(a)] # Unmapped
            BY <1>1, <1>2, <4>1, <5>3, <5>4, LoadedIsMapped
          <5>6. b = a + 1
            BY <1>2, <5>1, <5>2 DEF b
          <5>7. PageOf(a) = PageOf(b)
            BY <1>5, <5>6, PageOfPrevious DEF o
          <5> QED
            BY <3>1, <5>5, <5>7
        <4>3. b = Segment.va
          BY <1>2, <4>2 DEF b
        <4>4. \A h \in Headers : h < k => PageOf(Segment.va) \notin FilePages(h)
          BY <1>1, <3>1, <4>1, <4>3, BareWhereUnmapped
        <4> QED
          BY <1>5, <4>3, <4>4 DEF o
      <3> QED
        BY <1>1, <2>8, <2>9, <2>10, <3>2 DEF IInv, PlaceInv, ContentsInv, InMapper
    <2>11. CASE pc' = "bss"
      <3>1. PlaceInv'
        <4>1. ASSUME i' < Segment.memsz, NEW a \in Nat, a < Segment.va + Segment.filesz
              PROVE  PageOf(a) < PageOf(Segment.va + i')
          <5>1. /\ Segment.va + i' = b + (PAGE_SIZE - o) /\ Segment.va + i' \in Nat
                /\ a < Segment.va + i'
            BY <1>2, <1>3, <2>2, <2>3, <4>1 DEF b
          <5>2. OffsetOf(Segment.va + i') = 0
            BY <1>3, <5>1, NextPage DEF o
          <5> QED
            BY <5>1, <5>2, PagesBelow
        <4> QED
          BY <1>1, <1>2, <2>2, <2>3, <2>11, <4>1
             DEF PlaceInv, InMapper, Headers, Segment, MoreBss
      <3>2. ContentsInv'
        <4> SUFFICES ASSUME ~lost' PROVE BytesThere' /\ RestZero'
          BY DEF ContentsInv
        <4>1. BytesThere /\ RestZero
          BY <1>1, <2>6 DEF IInv, ContentsInv
        <4>2. ASSUME NEW h \in Headers, NEW a \in Addr
              PROVE  Loaded(h, a)' <=> Loaded(h, a)
          <5>1. InMapper' /\ i >= Segment.filesz /\ i' \in Nat /\ i' >= Segment.filesz
            BY <1>1, <1>2, <2>2, <2>3, <2>11 DEF InMapper
          <5> QED
            BY <1>1, <5>1, NoMoreLoaded
        <4>3. ASSUME NEW a \in Addr
              PROVE  Reads(a)' = IF a - b \in 0 .. n - 1 THEN ZeroByte ELSE Reads(a)
          <5>1. OffsetOf(b) + n <= PAGE_SIZE
            BY <2>3 DEF o
          <5>2. PatchPage(PageOf(b), OffsetOf(b), bytes, "bss") /\ pc' # "fault"
            BY <2>2, <2>11 DEF o
          <5>3. Reads(a)' = IF a - b \in 0 .. n - 1 THEN bytes[a - b] ELSE Reads(a)
            BY <1>1, <1>3, <2>3, <2>4, <2>5, <5>1, <5>2, PatchReads
          <5> QED
            BY <2>4, <5>3
        <4>4. ASSUME NEW h \in Headers, NEW a \in Addr, Loaded(h, a)
              PROVE  a - b \notin 0 .. n - 1
          <5>1. a < b /\ a \in Int
            BY <1>1, <4>4, LoadedBelow DEF Addr, b
          <5> QED
            BY <1>3, <2>3, <5>1
        <4>5. BytesThere'
          <5> SUFFICES ASSUME NEW h \in Headers, NEW a \in Addr, Loaded(h, a)'
                       PROVE  Reads(a)' = <<h, a - program[h].va>>
            BY <1>1 DEF BytesThere, Headers
          <5> QED
            BY <4>1, <4>2, <4>3, <4>4 DEF BytesThere
        <4>6. RestZero'
          <5> SUFFICES ASSUME NEW a \in Addr, \A h \in Headers : ~Loaded(h, a)'
                       PROVE  Reads(a)' = ZeroByte
            BY <1>1 DEF RestZero, Headers
          <5> QED
            BY <4>1, <4>2, <4>3 DEF RestZero
        <4> QED
          BY <4>5, <4>6
      <3>3. FaultsOnlyAtBareHeads'
        BY <2>11 DEF FaultsOnlyAtBareHeads
      <3> QED
        BY <1>1, <2>8, <2>9, <3>1, <3>2, <3>3 DEF IInv
    <2> QED
      BY <2>7, <2>10, <2>11
  <1> QED
    BY <1>3, <1>4, <1>5

\* The pages after it.
LEMMA BssPagePreserves ==
    ASSUME IInv, BssPage
    PROVE  IInv'
  <1> DEFINE n == Smaller(PAGE_SIZE, Segment.memsz - i)
             b == Segment.va + i
             g == PageOf(b)
  <1>1. /\ pc = "bss" /\ InMapper /\ MoreBss /\ UNCHANGED <<program, k>> /\ TypeOK
    BY DEF BssPage, InMapper, IInv
  <1>2. /\ k \in Headers /\ k \in Nat /\ i \in Nat /\ PAGE_SIZE \in Nat \ {0}
        /\ Segment.va \in Nat /\ Segment.memsz \in Nat /\ Segment.filesz \in Nat
        /\ Segment.filesz <= Segment.memsz /\ i < Segment.memsz /\ i >= Segment.filesz
        /\ Segment.va + Segment.memsz <= PageCount * PAGE_SIZE
    BY <1>1, AtSegment, SizeAssumption DEF MoreBss, IInv, PlaceInv
  <1>3. \A a \in Nat : a < Segment.va + Segment.filesz => PageOf(a) < g
    BY <1>1 DEF IInv, PlaceInv
  <1>4. CASE left = 0
    <2>1. Panic
      BY <1>4 DEF BssPage
    <2> QED
      BY <1>1, <2>1, PanicPreserves
  <1>5. CASE left # 0
    <2>1. InsertFresh(g, ZeroPage) /\ r' = n /\ i' = i + n /\ pc' = pc
      BY <1>1, <1>5 DEF BssPage
    <2>2. n \in Nat /\ n <= PAGE_SIZE
      BY <1>2 DEF Smaller
    <2>3. b \in Nat /\ b \in Addr
      BY <1>2, InSegment
    <2>4. g \in Nat /\ g \in Page
      BY <2>3, PageAndOffset, PagesModelled
    <2> HIDE DEF n, b, g
    <2>5. /\ page' \in PageType /\ tables' \subseteq Nat /\ left' \in Nat /\ lost' \in BOOLEAN
          /\ lost => lost'
          /\ \A x \in Page : page'[x] # Unmapped => x = g \/ page[x] # Unmapped
      BY <1>1, <1>5, <2>1, <2>4, BytesTyped, FreshKeeps
    <2>6. TypeOK'
      <3>1. k' \in 1 .. Len(program') + 1 /\ pc' = "bss"
        BY <1>1, <2>1 DEF TypeOK
      <3>2. i' \in Nat /\ r' \in 0 .. PAGE_SIZE
        BY <1>2, <2>1, <2>2
      <3> QED
        BY <2>5, <3>1, <3>2 DEF TypeOK, PageType
    <2>7. PlaceInv'
      <3>1. i' \in Nat /\ i' >= Segment.filesz
        BY <1>2, <2>1, <2>2
      <3>2. ASSUME NEW a \in Nat, a < Segment.va + Segment.filesz
            PROVE  PageOf(a) < PageOf(Segment.va + i')
        <4>1. Segment.va + i' \in Nat /\ b <= Segment.va + i'
          BY <1>2, <2>1, <2>2 DEF b
        <4>2. g <= PageOf(Segment.va + i')
          BY <2>3, <4>1, PagesAscend DEF g
        <4>3. PageOf(a) \in Nat /\ PageOf(Segment.va + i') \in Nat /\ PageOf(a) < g
          BY <1>3, <3>2, <4>1, PageAndOffset
        <4> QED
          BY <2>4, <4>2, <4>3
      <3> QED
        BY <1>1, <1>2, <2>1, <3>1, <3>2 DEF PlaceInv, InMapper, Headers, Segment, MoreBss
    <2>8. ContentsInv'
      <3> SUFFICES ASSUME ~lost' PROVE BytesThere' /\ RestZero'
        BY DEF ContentsInv
      <3>1. BytesThere /\ RestZero
        <4>1. ~lost /\ pc \notin {"panic", "fault"}
          BY <1>1, <2>5
        <4> QED
          BY <4>1 DEF IInv, ContentsInv
      <3>2. ASSUME NEW h \in Headers, NEW a \in Addr
            PROVE  Loaded(h, a)' <=> Loaded(h, a)
        <4>1. InMapper' /\ i >= Segment.filesz /\ i' \in Nat /\ i' >= Segment.filesz
          BY <1>1, <1>2, <2>1, <2>2 DEF InMapper
        <4> QED
          BY <1>1, <4>1, NoMoreLoaded
      <3>3. ASSUME NEW a \in Addr
            PROVE  Reads(a)' = IF PageOf(a) = g THEN ZeroByte ELSE Reads(a)
        <4>1. Reads(a)' = IF PageOf(a) = g THEN ZeroPage[OffsetOf(a)] ELSE Reads(a)
          BY <1>1, <1>5, <2>1, <2>4, BytesTyped, FreshReads
        <4>2. OffsetOf(a) \in Offset
          BY PagesModelled, PageAndOffset
        <4> QED
          BY <4>1, <4>2 DEF ZeroPage
      <3>4. ASSUME NEW h \in Headers, NEW a \in Addr, Loaded(h, a) PROVE PageOf(a) # g
        <4>1. a < Segment.va + Segment.filesz /\ a \in Nat
          BY <1>1, <3>4, LoadedBelow, PagesModelled
        <4> QED
          BY <1>3, <2>4, <4>1
      <3>5. BytesThere'
        <4> SUFFICES ASSUME NEW h \in Headers, NEW a \in Addr, Loaded(h, a)'
                     PROVE  Reads(a)' = <<h, a - program[h].va>>
          BY <1>1 DEF BytesThere, Headers
        <4> QED
          BY <3>1, <3>2, <3>3, <3>4 DEF BytesThere
      <3>6. RestZero'
        <4> SUFFICES ASSUME NEW a \in Addr, \A h \in Headers : ~Loaded(h, a)'
                     PROVE  Reads(a)' = ZeroByte
          BY <1>1 DEF RestZero, Headers
        <4> QED
          BY <3>1, <3>2, <3>3 DEF RestZero
      <3> QED
        BY <3>5, <3>6
    <2>9. MapsOnlySegments'
      <3>1. b \in Bytes(k) /\ PageOf(b) = g
        BY <1>2, <2>3 DEF Bytes, b, g, Segment
      <3> QED
        BY <1>1, <1>2, <2>5, <3>1, MapsSegmentsStill
    <2>10. FaultsOnlyAtBareHeads'
      BY <1>1, <2>1 DEF FaultsOnlyAtBareHeads
    <2> QED
      BY <1>1, <2>6, <2>7, <2>8, <2>9, <2>10 DEF IInv
  <1> QED
    BY <1>4, <1>5

\* The next header.
LEMMA EndOfSegmentPreserves ==
    ASSUME IInv, EndOfSegment
    PROVE  IInv'
  <1>1. /\ pc = "bss" /\ InMapper /\ ~MoreBss /\ pc' = "headers" /\ k' = k + 1
        /\ UNCHANGED <<program, i, r, page, tables, left, lost>>
    BY DEF EndOfSegment, SegmentDone, Goto, InMapper
  <1>2. /\ k \in Headers /\ k \in Nat /\ k >= 1 /\ k <= Len(program) /\ Len(program) \in Nat
        /\ i \in Nat /\ Segment.filesz \in Nat /\ i >= Segment.filesz
    BY <1>1, AtSegment DEF IInv, PlaceInv
  <1>3. TypeOK'
    BY <1>1, <1>2 DEF IInv, TypeOK
  <1>4. PlaceInv'
    BY <1>1 DEF PlaceInv, InMapper
  <1>5. ContentsInv'
    <2>1. \A h \in Headers : FileDone(h)' = FileDone(h)
      <3> TAKE h \in Headers
      <3>1. h \in Nat
        BY HeadersTyped DEF IInv
      <3>2. Smaller(i, Segment.filesz) = Segment.filesz
        BY <1>2 DEF Smaller
      <3>3. FileDone(h) = IF h < k + 1 THEN program[h].filesz ELSE 0
        BY <1>1, <1>2, <3>1, <3>2 DEF FileDone, Segment
      <3> QED
        BY <1>1, <3>3 DEF FileDone, InMapper
    <2> QED
      BY <1>1, <2>1, ContentsStill
  <1>6. MapsOnlySegments'
    BY <1>1, MapsSegmentsStill
  <1>7. FaultsOnlyAtBareHeads'
    BY <1>1 DEF FaultsOnlyAtBareHeads
  <1> QED
    BY <1>1, <1>3, <1>4, <1>5, <1>6, <1>7 DEF IInv

LEMMA NextHeaderPreserves ==
    ASSUME IInv, NextHeader
    PROVE  IInv'
  <1>1. pc = "headers" /\ UNCHANGED <<program, page, tables, left, lost>> /\ ~InMapper
    BY DEF NextHeader, InMapper
  <1>2. /\ k \in Nat /\ k >= 1 /\ k <= Len(program) + 1 /\ Len(program) \in Nat
        /\ \A h \in Headers : h \in Nat /\ h <= Len(program) /\ program[h].filesz \in Nat
    <2>1. Len(program) \in Nat
      <3>1. program \in Seq([load : BOOLEAN, va : Nat, memsz : Nat, filesz : Nat])
        BY ProgramAssumption DEF IInv
      <3> QED
        BY <3>1
    <2>2. \A h \in Headers : h \in Nat /\ h <= Len(program) /\ program[h].filesz \in Nat
      BY HeadersTyped DEF IInv
    <2> QED
      BY <2>1, <2>2 DEF IInv, TypeOK
  <1>3. \/ k > Len(program) /\ pc' = "done" /\ UNCHANGED <<k, i, r>>
        \/ k <= Len(program) /\ Segment.load /\ pc' = "head" /\ i' = 0 /\ r' = 0 /\ k' = k
        \/ k <= Len(program) /\ ~Segment.load /\ pc' = "headers" /\ k' = k + 1 /\ UNCHANGED <<i, r>>
    BY <1>2 DEF NextHeader, Goto
  <1>4. TypeOK'
    <2>1. /\ k' \in 1 .. Len(program) + 1 /\ i' \in Nat /\ r' \in 0 .. PAGE_SIZE
          /\ pc' \in {"done", "head", "headers"}
      BY <1>2, <1>3, SizeAssumption DEF IInv, TypeOK
    <2> QED
      BY <1>1, <2>1 DEF IInv, TypeOK
  <1>5. PlaceInv'
    <2>1. pc' = "head" => k' \in Headers' /\ i' = 0
      BY <1>1, <1>2, <1>3 DEF Headers, Segment
    <2>2. pc' = "done" => k' = Len(program') + 1
      BY <1>1, <1>2, <1>3
    <2> QED
      BY <1>3, <2>1, <2>2 DEF PlaceInv, InMapper
  <1>6. ContentsInv'
    <2>1. \A h \in Headers : FileDone(h)' = FileDone(h)
      <3> TAKE h \in Headers
      <3>1. h \in Nat /\ h <= Len(program) /\ program[h].filesz \in Nat
        BY <1>2
      <3>2. FileDone(h) = IF h < k THEN program[h].filesz ELSE 0
        BY <1>1 DEF FileDone
      <3>3. CASE pc' = "done"
        BY <1>1, <1>3, <3>2, <3>3 DEF FileDone, InMapper
      <3>4. CASE pc' = "head"
        <4>1. i' = 0 /\ k' = k
          BY <1>3, <3>4
        <4>2. Smaller(0, program[h].filesz) = 0
          BY <3>1 DEF Smaller
        <4> QED
          BY <1>1, <3>2, <4>1, <4>2 DEF FileDone
      <3>5. CASE pc' = "headers"
        <4>1. ~Segment.load /\ k' = k + 1
          BY <1>3, <3>5
        <4>2. h # k
          BY <4>1 DEF Headers, Segment
        <4>3. h < k + 1 <=> h < k
          BY <1>2, <3>1, <4>2
        <4> QED
          BY <1>1, <3>2, <3>5, <4>1, <4>3 DEF FileDone, InMapper
      <3> QED
        BY <1>3, <3>3, <3>4, <3>5
    <2> QED
      BY <1>1, <2>1, ContentsStill
  <1>7. MapsOnlySegments'
    BY <1>1, MapsSegmentsStill
  <1>8. FaultsOnlyAtBareHeads'
    BY <1>3 DEF FaultsOnlyAtBareHeads
  <1> QED
    BY <1>1, <1>4, <1>5, <1>6, <1>7, <1>8 DEF IInv

-----------------------------------------------------------------------------
(* The theorems.                                                           *)

LEMMA InitEstablishes == Init => IInv
  <1> SUFFICES ASSUME Init PROVE IInv
    OBVIOUS
  <1>1. Len(program) \in Nat
    <2>1. program \in Seq([load : BOOLEAN, va : Nat, memsz : Nat, filesz : Nat])
      BY ProgramAssumption DEF Init
    <2> QED
      BY <2>1
  <1>2. TypeOK
    <2>1. k \in 1 .. Len(program) + 1 /\ i \in Nat /\ r \in 0 .. PAGE_SIZE
      BY <1>1, SizeAssumption DEF Init
    <2>2. page \in [Page -> {Unmapped} \union [Offset -> Nat \X Nat]]
      BY DEF Init
    <2>3. left \in Nat
      BY SizeAssumption DEF Init
    <2> QED
      BY <2>1, <2>2, <2>3 DEF Init, TypeOK
  <1>3. PlaceInv
    BY DEF Init, PlaceInv, InMapper
  <1>4. \A g \in Page : page[g] = Unmapped
    BY DEF Init
  <1>5. ContentsInv
    <2>1. \A h \in Headers : h \in Nat /\ h >= 1
      BY HeadersTyped DEF Init
    <2>2. \A h \in Headers : FileDone(h) = 0
      BY <2>1 DEF Init, FileDone, InMapper
    <2>3. \A h \in Headers, a \in Addr : ~Loaded(h, a)
      <3> TAKE h \in Headers, a \in Addr
      <3>1. 0 .. FileDone(h) - 1 = {}
        BY <2>2
      <3> QED
        BY <3>1 DEF Loaded
    <2>4. \A a \in Addr : Reads(a) = ZeroByte
      BY <1>4, PagesModelled DEF Reads
    <2> QED
      BY <2>3, <2>4 DEF ContentsInv, BytesThere, RestZero
  <1>6. MapsOnlySegments
    BY <1>4 DEF MapsOnlySegments
  <1>7. FaultsOnlyAtBareHeads
    BY DEF Init, FaultsOnlyAtBareHeads
  <1> QED
    BY <1>2, <1>3, <1>5, <1>6, <1>7 DEF Init, IInv

\* The invariant is inductive: every piece of every segment keeps the bytes
\* that were copied and what codeMapper counts on (codeMapper, loadElf).
THEOREM LoaderInvariant == Spec => []IInv
  <1>1. IInv /\ [Next]_vars => IInv'
    <2> SUFFICES ASSUME IInv, [Next]_vars PROVE IInv'
      OBVIOUS
    <2>1. CASE NextHeader
      BY <2>1, NextHeaderPreserves
    <2>2. CASE SegmentHead
      BY <2>2, SegmentHeadPreserves
    <2>3. CASE FilePage
      BY <2>3, FilePagePreserves
    <2>4. CASE Gap
      BY <2>4, GapPreserves
    <2>5. CASE BssPage
      BY <2>5, BssPagePreserves
    <2>6. CASE EndOfSegment
      BY <2>6, EndOfSegmentPreserves
    <2>7. CASE UNCHANGED vars
      BY <2>7 DEF vars, IInv, TypeOK, PlaceInv, InMapper, ContentsInv, BytesThere, RestZero,
                  Loaded, FileDone, Reads, MapsOnlySegments, FaultsOnlyAtBareHeads, Headers,
                  Bytes, FilePages, Segment, MoreFile, MoreBss
    <2> QED
      BY <2>1, <2>2, <2>3, <2>4, <2>5, <2>6, <2>7 DEF Next, codeMapper
  <1> QED
    BY <1>1, InitEstablishes, PTL DEF Spec

\* The variables have their types (loadElf).
THEOREM LoaderTypeCorrect == Spec => []TypeOK
  <1>1. IInv => TypeOK
    BY DEF IInv
  <1> QED
    BY <1>1, LoaderInvariant, PTL

\* Every program that was loaded reads its file parts where they were linked
\* and zeros after them, whatever its segments' alignment and length and
\* however they meet in pages (codeMapper, loadElf).
THEOREM LoadsAsLinked == Spec => []LoadedAsLinked
  <1>1. ASSUME IInv PROVE LoadedAsLinked
    <2> SUFFICES ASSUME pc = "done", ~lost, NEW h \in Headers, NEW a \in Bytes(h)
                 PROVE  Reads(a) = LET x == a - program[h].va IN
                                   IF x < program[h].filesz THEN <<h, x>> ELSE ZeroByte
      BY DEF LoadedAsLinked
    <2>1. BytesThere /\ RestZero
      BY <1>1 DEF IInv, ContentsInv
    <2>2. k = Len(program) + 1 /\ ~InMapper
      BY <1>1 DEF IInv, PlaceInv, InMapper
    <2>3. \A j \in Headers : j \in Nat /\ j < k /\ FileDone(j) = program[j].filesz
      <3> TAKE j \in Headers
      <3>1. j \in Nat /\ j <= Len(program) /\ Len(program) \in Nat
        BY <1>1, HeadersTyped DEF IInv
      <3>2. j < k
        BY <2>2, <3>1
      <3> QED
        BY <3>1, <3>2 DEF FileDone
    <2>4. /\ program[h].va \in Nat /\ program[h].memsz \in Nat /\ program[h].filesz \in Nat
          /\ program[h].filesz <= program[h].memsz
          /\ program[h].va + program[h].memsz <= PageCount * PAGE_SIZE
      BY <1>1, HeadersTyped DEF IInv
    <2>5. PICK x \in Nat : x = a - program[h].va /\ x < program[h].memsz /\ a = program[h].va + x
      <3>1. a - program[h].va \in Nat /\ a - program[h].va < program[h].memsz
        BY <2>4 DEF Bytes
      <3>2. a = program[h].va + (a - program[h].va)
        BY <2>4 DEF Bytes
      <3> QED
        BY <3>1, <3>2
    <2>6. a \in Addr
      BY <2>4, <2>5, InSegment
    <2>7. CASE x < program[h].filesz
      <3>1. Loaded(h, a)
        BY <2>3, <2>4, <2>5, <2>7 DEF Loaded
      <3> QED
        BY <2>1, <2>5, <2>6, <2>7, <3>1 DEF BytesThere
    <2>8. CASE ~(x < program[h].filesz)
      <3>1. ASSUME NEW j \in Headers, Loaded(j, a) PROVE FALSE
        <4>1. /\ program[j].va \in Nat /\ program[j].memsz \in Nat /\ program[j].filesz \in Nat
              /\ program[j].filesz <= program[j].memsz /\ h \in Nat /\ j \in Nat
          BY <1>1, HeadersTyped DEF IInv
        <4>2. a - program[j].va >= 0 /\ a - program[j].va < program[j].filesz
          BY <2>3, <3>1, <4>1 DEF Loaded
        <4>3. CASE j = h
          BY <2>4, <2>5, <2>8, <4>2, <4>3
        <4>4. CASE j < h
          <5>1. program[j].va + program[j].memsz <= program[h].va
            BY <1>1, <4>4, HeadersAscend DEF IInv
          <5> QED
            BY <2>4, <2>5, <4>1, <4>2, <5>1
        <4>5. CASE h < j
          <5>1. program[h].va + program[h].memsz <= program[j].va
            BY <1>1, <4>5, HeadersAscend DEF IInv
          <5> QED
            BY <2>4, <2>5, <4>1, <4>2, <5>1
        <4> QED
          BY <4>1, <4>3, <4>4, <4>5
      <3> QED
        BY <2>1, <2>5, <2>6, <2>8, <3>1 DEF RestZero
    <2> QED
      BY <2>7, <2>8
  <1> QED
    BY <1>1, LoaderInvariant, PTL

\* No page is mapped in which no segment has a byte (codeMapper).
THEOREM OnlySegmentsMapped == Spec => []MapsOnlySegments
  <1>1. IInv => MapsOnlySegments
    BY DEF IInv
  <1> QED
    BY <1>1, LoaderInvariant, PTL

\* The only programs that loading does not survive, while there is memory,
\* have a segment that starts inside a page with no file part of an earlier
\* segment in it (codeMapper).
THEOREM OnlyBareHeadsFault == Spec => []FaultsOnlyAtBareHeads
  <1>1. IInv => FaultsOnlyAtBareHeads
    BY DEF IInv
  <1> QED
    BY <1>1, LoaderInvariant, PTL

=============================================================================
