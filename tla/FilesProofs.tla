---------------------------- MODULE FilesProofs ----------------------------
(***************************************************************************)
(* The file system for every size of the disk and of files, every set of   *)
(* names and whatever programs store: no two files share a block, a block  *)
(* that is used is not free, nothing leaks, and the bitmap on the disk is  *)
(* safe to start from, from the images that fsformat makes on.             *)
(***************************************************************************)
EXTENDS Files, WellFoundedInduction, TLAPS

-----------------------------------------------------------------------------
(* Repetition.                                                             *)

\* A set of natural numbers has a least one.
LEMMA LeastOfNaturals ==
    ASSUME NEW T \in SUBSET Nat, T # {}
    PROVE  \E x \in T : \A y \in T : x <= y
  <1> DEFINE R == OpToRel(<, Nat)
  <1>1. IsWellFoundedOn(R, Nat)
    BY NatLessThanWellFounded
  <1>2. \A x, y \in Nat : <<y, x>> \in R <=> y < x
    BY DEF OpToRel
  <1> HIDE DEF R
  <1>3. PICK x \in T : \A y \in T : ~(<<y, x>> \in R)
    BY <1>1, WFMin
  <1>4. ASSUME NEW y \in T PROVE x <= y
    <2>1. ~(<<y, x>> \in R) /\ x \in Nat /\ y \in Nat
      BY <1>3
    <2>2. ~(y < x)
      BY <1>2, <2>1
    <2> QED
      BY <1>2, <2>1, <2>2
  <1> QED
    BY <1>4

\* Induction over natural numbers, for a set of them.
LEMMA AllNaturals ==
    ASSUME NEW T \in SUBSET Nat, 0 \in T, \A n \in T : n + 1 \in T
    PROVE  T = Nat
  <1> SUFFICES ASSUME Nat \ T # {} PROVE FALSE
    OBVIOUS
  <1>1. PICK n \in Nat \ T : \A m \in Nat \ T : n <= m
    <2>1. Nat \ T \in SUBSET Nat
      OBVIOUS
    <2> QED
      BY <2>1, LeastOfNaturals
  <1>2. n - 1 \in Nat /\ n = (n - 1) + 1
    BY <1>1
  <1>3. n - 1 \in T
    BY <1>1, <1>2
  <1> QED
    BY <1>1, <1>2, <1>3

\* What n steps lead to.
Runs(S, b, F, n) ==
    {g \in [0 .. n -> S] : g[0] = b /\ \A i \in 1 .. n : g[i] = F[<<g[i - 1], i>>]}

Repeats(b, F, g) == \A n \in Nat : g[n] = IF n = 0 THEN b ELSE F[<<g[n - 1], n>>]

\* A step on S, repeated: a function defined by it exists.
LEMMA Repeated ==
    ASSUME NEW S, NEW b \in S, NEW F \in [S \X Nat -> S]
    PROVE  \E g \in [Nat -> S] : Repeats(b, F, g)
  <1> DEFINE T == {n \in Nat : Runs(S, b, F, n) # {}}
  <1>1. 0 \in T
    <2>1. [i \in 0 .. 0 |-> b] \in Runs(S, b, F, 0)
      BY DEF Runs
    <2> QED
      BY <2>1
  <1>2. ASSUME NEW n \in T PROVE n + 1 \in T
    <2>1. n \in Nat
      OBVIOUS
    <2>2. PICK g \in Runs(S, b, F, n) : TRUE
      OBVIOUS
    <2> DEFINE h == [i \in 0 .. n + 1 |-> IF i <= n THEN g[i] ELSE F[<<g[n], n + 1>>]]
    <2>3. g \in [0 .. n -> S] /\ g[0] = b /\ \A i \in 1 .. n : g[i] = F[<<g[i - 1], i>>]
      BY <2>2 DEF Runs
    <2>4. h \in [0 .. n + 1 -> S]
      <3>1. F[<<g[n], n + 1>>] \in S
        BY <2>1, <2>3
      <3>2. \A i \in 0 .. n + 1 : i <= n => g[i] \in S
        BY <2>1, <2>3
      <3> QED
        BY <3>1, <3>2
    <2>5. h[0] = b
      BY <2>1, <2>3
    <2>6. ASSUME NEW i \in 1 .. n + 1 PROVE h[i] = F[<<h[i - 1], i>>]
      <3>1. i - 1 \in 0 .. n + 1 /\ i - 1 <= n /\ h[i - 1] = g[i - 1]
        BY <2>1
      <3>2. CASE i <= n
        BY <2>1, <2>3, <3>1, <3>2
      <3>3. CASE i = n + 1
        BY <2>1, <3>1, <3>3
      <3> QED
        BY <2>1, <3>2, <3>3
    <2> HIDE DEF h
    <2>7. h \in Runs(S, b, F, n + 1)
      BY <2>4, <2>5, <2>6 DEF Runs
    <2> QED
      BY <2>1, <2>7
  <1>3. T = Nat
    <2> HIDE DEF T
    <2>1. T \in SUBSET Nat
      BY DEF T
    <2> QED
      BY <1>1, <1>2, <2>1, AllNaturals
  <1> DEFINE G(n) == CHOOSE g \in Runs(S, b, F, n) : TRUE
  <1>4. ASSUME NEW n \in Nat
        PROVE  G(n) \in [0 .. n -> S] /\ G(n)[0] = b /\ \A i \in 1 .. n : G(n)[i] = F[<<G(n)[i - 1], i>>]
    <2>1. G(n) \in Runs(S, b, F, n)
      BY <1>3
    <2> QED
      BY <2>1 DEF Runs
  <1> HIDE DEF G
  \* Any two agree as far as both go.
  <1>5. ASSUME NEW m \in Nat PROVE \A i \in Nat : i <= m => G(m)[i] = G(m + 1)[i]
    <2> DEFINE U == {i \in Nat : i <= m => G(m)[i] = G(m + 1)[i]}
    <2>1. 0 \in U
      BY <1>4
    <2>2. ASSUME NEW i \in U PROVE i + 1 \in U
      <3> SUFFICES ASSUME i + 1 <= m PROVE G(m)[i + 1] = G(m + 1)[i + 1]
        OBVIOUS
      <3>1. i \in Nat /\ G(m)[i] = G(m + 1)[i] /\ (i + 1) - 1 = i
        OBVIOUS
      <3>2. i + 1 \in 1 .. m /\ i + 1 \in 1 .. m + 1 /\ m + 1 \in Nat
        BY <3>1
      <3>3. G(m)[i + 1] = F[<<G(m)[(i + 1) - 1], i + 1>>]
        BY <1>4, <3>2
      <3>4. G(m + 1)[i + 1] = F[<<G(m + 1)[(i + 1) - 1], i + 1>>]
        BY <1>4, <3>2
      <3> QED
        BY <3>1, <3>3, <3>4
    <2> HIDE DEF U
    <2>3. U = Nat
      <3>1. U \in SUBSET Nat
        BY DEF U
      <3> QED
        BY <2>1, <2>2, <3>1, AllNaturals
    <2> QED
      BY <2>3 DEF U
  <1> DEFINE g == [n \in Nat |-> G(n)[n]]
  <1>6. g \in [Nat -> S]
    <2>1. \A n \in Nat : n \in 0 .. n
      OBVIOUS
    <2> QED
      BY <1>4, <2>1
  <1>7. ASSUME NEW n \in Nat PROVE g[n] = IF n = 0 THEN b ELSE F[<<g[n - 1], n>>]
    <2>1. CASE n = 0
      BY <1>4, <2>1
    <2>2. CASE n # 0
      <3>1. n - 1 \in Nat /\ n \in 1 .. n /\ n - 1 <= n - 1 /\ (n - 1) + 1 = n
        BY <2>2
      <3>2. G(n)[n] = F[<<G(n)[n - 1], n>>]
        BY <1>4, <3>1
      <3>3. G(n - 1)[n - 1] = G(n)[n - 1]
        BY <1>5, <3>1
      <3> QED
        BY <2>2, <3>1, <3>2, <3>3
    <2> QED
      BY <2>1, <2>2
  <1>8. Repeats(b, F, g)
    BY <1>7 DEF Repeats
  <1> QED
    BY <1>6, <1>8

-----------------------------------------------------------------------------
(* What the functions on blocks do.                                        *)

Results == {"ok", "panic", "no_disk", "no_mem", "inval", "not_found", "bad_path"}

\* The pointers stay, and the bitmap and its copy.
SameTree(s, t) == t.inode = s.inode /\ t.mem = s.mem
SameSpace(s, t) == t.free = s.free /\ t.onDisk = s.onDisk

\* The fields of a state of the file system.
LEMMA StateFields ==
    ASSUME NEW s \in State
    PROVE  /\ s.free \in SUBSET Block /\ s.onDisk \in SUBSET Block /\ s.mapped \in SUBSET Block
           /\ s.inode \in [Place -> File] /\ s.mem \in [Block -> [Indirect -> 0 .. NBLOCK]]
           /\ s.r \in Results /\ s.b \in 0 .. NBLOCK
  BY DEF State, Results

\* A result changes neither pointers nor bitmap.
LEMMA ReturnEffect ==
    ASSUME NEW s \in State, NEW r \in Results
    PROVE  /\ Return(s, r) \in State /\ Return(s, r).r = r /\ Return(s, r).b = s.b
           /\ SameTree(s, Return(s, r)) /\ SameSpace(s, Return(s, r))
  BY DEF Return, State, Results, SameTree, SameSpace

\* The numbers of blocks, and the reserved ones.
LEMMA BlockFacts ==
    NBLOCK \in Nat /\ Block \subseteq 0 .. NBLOCK /\ Reserved \subseteq Block /\ 0 \in Block
  BY LayoutAssumption DEF Block, Reserved

\* read_block: the block is in memory, unless it is no block or a free one.
ReadsOf(s, b, t) ==
    /\ t \in State /\ SameTree(s, t) /\ SameSpace(s, t)
    /\ \/ t.r = "panic" /\ b \notin Block \ s.free
       \/ t.r = "ok" /\ t.b = b /\ b \in Block \ s.free

\* read_block.
LEMMA ReadEffect ==
    ASSUME NEW s \in State, NEW b \in 0 .. NBLOCK
    PROVE  ReadsOf(s, b, read_block(s, b))
  <1>1. b \in Block <=> ~(b >= NBLOCK)
    BY LayoutAssumption DEF Block
  <1>2. CASE b >= NBLOCK \/ block_is_free(s, b)
    <2>1. read_block(s, b) = Return(s, "panic") /\ "panic" \in Results
      BY <1>2 DEF read_block, Results
    <2>2. b \notin Block \ s.free
      BY <1>1, <1>2 DEF block_is_free
    <2> QED
      BY <2>1, <2>2, ReturnEffect DEF ReadsOf
  <1>3. CASE ~(b >= NBLOCK \/ block_is_free(s, b))
    <2>1. read_block(s, b) = [s EXCEPT !.mapped = @ \union {b}, !.b = b, !.r = "ok"]
      BY <1>3 DEF read_block
    <2>2. b \in Block \ s.free
      BY <1>1, <1>3, LayoutAssumption DEF block_is_free
    <2>3. PICK t : t = read_block(s, b)
      OBVIOUS
    <2>5. PICK m \in SUBSET Block : m = s.mapped \union {b}
      BY <2>2, StateFields
    <2>6. t = [s EXCEPT !.mapped = m, !.b = b, !.r = "ok"]
      BY <2>1, <2>3, <2>5 DEF State
    <2>4. /\ t \in State /\ SameTree(s, t) /\ SameSpace(s, t) /\ t.r = "ok" /\ t.b = b
      BY <2>6 DEF State, SameTree, SameSpace
    <2> QED
      BY <2>2, <2>3, <2>4 DEF ReadsOf
  <1> QED
    BY <1>2, <1>3

\* free_block: the block is free, if it is one.
LEMMA FreeEffect ==
    ASSUME NEW s \in State, NEW b \in 0 .. NBLOCK
    PROVE  LET t == free_block(s, b) IN
           /\ t \in State /\ SameTree(s, t) /\ t.onDisk = s.onDisk /\ t.r = s.r /\ t.b = s.b
           /\ t.free = s.free \union ({b} \intersect (Block \ {0}))
  <1>1. b \in Block <=> ~(b >= NBLOCK)
    BY LayoutAssumption DEF Block
  <1>2. CASE b = 0 \/ b >= NBLOCK
    <2>1. free_block(s, b) = s /\ {b} \intersect (Block \ {0}) = {}
      BY <1>1, <1>2 DEF free_block
    <2> QED
      BY <2>1 DEF SameTree
  <1>3. CASE ~(b = 0 \/ b >= NBLOCK)
    <2>1. free_block(s, b) = [s EXCEPT !.free = @ \union {b}] /\ {b} \intersect (Block \ {0}) = {b}
      BY <1>1, <1>3 DEF free_block
    <2> QED
      BY <1>1, <1>3, <2>1 DEF SameTree, State
  <1> QED
    BY <1>2, <1>3

\* A free block is taken in the bitmap and on the disk; or there is none, or
\* it was given back.
Takes(s, t) ==
    /\ t.r = "ok" /\ t.b \in s.free \ Reserved
    /\ t.free = s.free \ {t.b} /\ t.onDisk = t.free
Fails(s, t) ==
    /\ t.r \in {"no_disk", "no_mem"}
    /\ t.free = s.free /\ (t.onDisk = s.onDisk \/ t.onDisk \subseteq s.free)

\* alloc_block_num.
LEMMA AllocNumEffect ==
    ASSUME NEW s \in State
    PROVE  LET t == alloc_block_num(s) IN
           /\ t \in State /\ SameTree(s, t)
           /\ Takes(s, t) \/ (t.r = "no_disk" /\ SameSpace(s, t))
  <1> DEFINE b == Min(s.free \ Reserved)
             t == alloc_block_num(s)
  <1>1. CASE s.free \subseteq Reserved
    BY <1>1, ReturnEffect DEF alloc_block_num, Results
  <1>2. CASE ~(s.free \subseteq Reserved)
    <2>1. s.free \ Reserved \in SUBSET Nat /\ s.free \ Reserved # {}
      BY <1>2, StateFields, LayoutAssumption DEF Block
    <2>2. b \in s.free \ Reserved
      BY <2>1, LeastOfNaturals DEF Min
    <2>3. b \in Block /\ b \in 0 .. NBLOCK
      BY <2>2, StateFields, BlockFacts
    <2>4. t = [[s EXCEPT !.free = @ \ {b}, !.b = b, !.r = "ok"] EXCEPT !.onDisk = s.free \ {b}]
      <3>1. [s EXCEPT !.free = @ \ {b}, !.b = b, !.r = "ok"].free = s.free \ {b}
        BY DEF State
      <3> QED
        BY <1>2, <3>1 DEF alloc_block_num, write_block
    <2> HIDE DEF b, t
    <2>5. t \in State /\ SameTree(s, t) /\ t.r = "ok" /\ t.b = b /\ t.free = s.free \ {b} /\ t.onDisk = s.free \ {b}
      BY <2>3, <2>4 DEF State, SameTree
    <2> QED
      BY <2>2, <2>5 DEF Takes, t
  <1> QED
    BY <1>1, <1>2

\* alloc_block.
LEMMA AllocEffect ==
    ASSUME NEW s \in State, NEW memory \in BOOLEAN
    PROVE  LET t == alloc_block(s, memory) IN
           /\ t \in State /\ SameTree(s, t)
           /\ Takes(s, t) \/ Fails(s, t)
  <1> DEFINE a == alloc_block_num(s)
             t == alloc_block(s, memory)
  <1>1. a \in State /\ SameTree(s, a) /\ (Takes(s, a) \/ (a.r = "no_disk" /\ SameSpace(s, a)))
    BY AllocNumEffect
  <1>2. t = IF Ok(a) THEN IF Ok(map_block(a, a.b, memory)) THEN map_block(a, a.b, memory)
                          ELSE free_block(Return(a, "no_mem"), a.b)
            ELSE a
    BY DEF alloc_block, Then
  <1> HIDE DEF a, t
  <1>3. CASE ~Ok(a)
    BY <1>1, <1>2, <1>3 DEF Ok, Takes, Fails, SameSpace, t
  <1>4. CASE Ok(a)
    <2>1. Takes(s, a) /\ a.b \in Block /\ a.b \in 0 .. NBLOCK /\ a.b # 0
      BY <1>1, <1>4, BlockFacts, StateFields DEF Ok, Takes, Reserved
    <2>2. CASE block_is_mapped(a, a.b) \/ memory
      <3>1. map_block(a, a.b, memory) = [a EXCEPT !.mapped = @ \union {a.b}]
        BY <2>2 DEF map_block
      <3>2. t = [a EXCEPT !.mapped = @ \union {a.b}]
        BY <1>1, <1>2, <1>4, <3>1 DEF Ok, State
      <3>3. t \in State /\ SameTree(a, t) /\ t.free = a.free /\ t.onDisk = a.onDisk /\ t.r = a.r /\ t.b = a.b
        BY <1>1, <2>1, <3>2 DEF State, SameTree
      <3> QED
        BY <1>1, <2>1, <3>3 DEF SameTree, Takes, t
    <2>3. CASE ~(block_is_mapped(a, a.b) \/ memory)
      <3> DEFINE m == Return(a, "no_mem")
      <3>1. map_block(a, a.b, memory) = m
        BY <2>3 DEF map_block
      <3>2. m \in State /\ m.r = "no_mem" /\ SameTree(a, m) /\ SameSpace(a, m)
        BY <1>1, ReturnEffect DEF Results
      <3> HIDE DEF m
      <3>3. t = free_block(m, a.b)
        BY <1>2, <1>4, <3>1, <3>2 DEF Ok, m
      <3>4. /\ t \in State /\ SameTree(m, t) /\ t.onDisk = m.onDisk /\ t.r = m.r
            /\ t.free = m.free \union {a.b}
        BY <2>1, <3>2, <3>3, FreeEffect
      <3>5. t.free = s.free /\ t.onDisk \subseteq s.free
        BY <2>1, <3>2, <3>4 DEF Takes, SameSpace
      <3> QED
        BY <1>1, <3>2, <3>4, <3>5 DEF SameTree, Fails, t
    <2> QED
      BY <2>2, <2>3
  <1> QED
    BY <1>3, <1>4

-----------------------------------------------------------------------------
(* The blocks of a file, and what becomes of them.                         *)

\* What the n-th pointer of the file at f is, where the one to the indirect
\* block comes after all the others.
Slot == 0 .. NINDIRECT
At(s, f, n) == IF n = NINDIRECT THEN s.inode[f].indirect ELSE Pointer(s, f, n)

Unshared(s) == \A f, g \in Place, n, m \in Slot :
    At(s, f, n) # 0 /\ At(s, f, n) = At(s, g, m) => f = g /\ n = m
Taken(s) ==
    /\ s.free \intersect Reserved = {}
    /\ \A f \in Place, n \in Slot : At(s, f, n) # 0 => At(s, f, n) \in Block \ (s.free \union Reserved)

\* Nothing is taken that no file has, and no file has blocks beyond its size.
Whole(s) == \A b \in Block \ (s.free \union Reserved) : \E f \in Place, n \in Slot : At(s, f, n) = b
Covered(s) == \A f \in Place, n \in FileBlock : At(s, f, n) # 0 => n <= s.inode[f].size \div BY2BLK

Sound(s) == s \in State /\ s.onDisk \subseteq s.free
Fit(s, x) == Sound(s) /\ Unshared(s) /\ Taken(s) /\ (x => Whole(s) /\ Covered(s))

SameAt(s, t) == \A g \in Place, m \in Slot : At(t, g, m) = At(s, g, m)
SameSizes(s, t) == \A g \in Place : t.inode[g].size = s.inode[g].size

\* One pointer is set to a free block, which is taken.
Linked(s, t, f, n, b) ==
    /\ At(s, f, n) = 0 /\ b \in s.free \ Reserved /\ t.free = s.free \ {b}
    /\ \A g \in Place, m \in Slot : At(t, g, m) = IF g = f /\ m = n THEN b ELSE At(s, g, m)

\* The pointers in L are cleared, and the block of the n-th is freed.
Cleared(s, t, f, L, n) ==
    /\ t.free = s.free \union ({At(s, f, n)} \ {0})
    /\ \A g \in Place, m \in Slot : At(t, g, m) = IF g = f /\ m \in L THEN 0 ELSE At(s, g, m)

\* A change that leaves the pointers and the bitmap alone, and keeps sizes large
\* enough for the blocks.
LEMMA SameKeepsFit ==
    ASSUME NEW s, NEW t, NEW x \in BOOLEAN, Fit(s, x), Sound(t), SameAt(s, t), t.free = s.free,
           x => \A g \in Place, n \in FileBlock : At(s, g, n) # 0 => n <= t.inode[g].size \div BY2BLK
    PROVE  Fit(t, x)
  <1>1. Unshared(t) /\ Taken(t)
    BY DEF Fit, Unshared, Taken, SameAt
  <1>2. ASSUME x PROVE Whole(t)
    BY <1>2 DEF Fit, Whole, SameAt
  <1>3. ASSUME x PROVE Covered(t)
    <2>1. FileBlock \subseteq Slot
      BY LayoutAssumption DEF FileBlock, Slot
    <2> QED
      BY <1>3, <2>1 DEF Covered, SameAt
  <1> QED
    BY <1>1, <1>2, <1>3 DEF Fit

\* A pointer set to a block that was free.
LEMMA LinkedKeepsFit ==
    ASSUME NEW s, NEW t, NEW x \in BOOLEAN, Fit(s, x), Sound(t),
           NEW f \in Place, NEW n \in Slot, NEW b, Linked(s, t, f, n, b), SameSizes(s, t),
           x /\ n \in FileBlock => n <= s.inode[f].size \div BY2BLK
    PROVE  Fit(t, x)
  <1>1. /\ s.free \subseteq Block /\ b \in Block /\ b # 0 /\ b \in s.free /\ b \notin Reserved
        /\ t.free = s.free \ {b}
    BY StateFields, LayoutAssumption DEF Fit, Sound, Linked, Reserved
  <1>2. \A g \in Place, m \in Slot : At(t, g, m) = IF g = f /\ m = n THEN b ELSE At(s, g, m)
    BY DEF Linked
  <1>3. \A g \in Place, m \in Slot : At(s, g, m) # b
    BY <1>1 DEF Fit, Taken
  <1>4. Unshared(t)
    BY <1>2, <1>3 DEF Fit, Unshared
  <1>5. Taken(t)
    BY <1>1, <1>2 DEF Fit, Taken
  <1>6. ASSUME x PROVE Whole(t)
    <2> SUFFICES ASSUME NEW c \in Block \ (t.free \union Reserved)
                 PROVE  \E g \in Place, m \in Slot : At(t, g, m) = c
      BY DEF Whole
    <2>1. CASE c = b
      BY <1>2, <2>1
    <2>2. CASE c # b
      <3>1. PICK g \in Place, m \in Slot : At(s, g, m) = c
        BY <1>1, <1>6, <2>2 DEF Fit, Whole
      <3>2. c # 0
        BY LayoutAssumption DEF Reserved
      <3>3. ~(g = f /\ m = n)
        BY <3>1, <3>2 DEF Linked
      <3> QED
        BY <1>2, <3>1, <3>3
    <2> QED
      BY <2>1, <2>2
  <1>7. ASSUME x PROVE Covered(t)
    <2>1. FileBlock \subseteq Slot
      BY LayoutAssumption DEF FileBlock, Slot
    <2> QED
      BY <1>2, <1>7, <2>1 DEF Fit, Covered, SameSizes
  <1> QED
    BY <1>4, <1>5, <1>6, <1>7 DEF Fit

\* Pointers cleared whose block is freed.
LEMMA ClearedKeepsFit ==
    ASSUME NEW s, NEW t, NEW x \in BOOLEAN, Fit(s, x), Sound(t),
           NEW f \in Place, NEW n \in Slot, NEW L, n \in L, Cleared(s, t, f, L, n),
           SameSizes(s, t), x => \A m \in Slot : m \in L /\ m # n => At(s, f, m) = 0
    PROVE  Fit(t, x)
  <1>1. t.free = s.free \union ({At(s, f, n)} \ {0})
    BY DEF Cleared
  <1>2. \A g \in Place, m \in Slot : At(t, g, m) = IF g = f /\ m \in L THEN 0 ELSE At(s, g, m)
    BY DEF Cleared
  <1>3. Unshared(t)
    BY <1>2 DEF Fit, Unshared
  <1>4. Taken(t)
    <2>1. t.free \intersect Reserved = {}
      BY <1>1 DEF Fit, Taken
    <2>2. ASSUME NEW g \in Place, NEW m \in Slot, At(t, g, m) # 0
          PROVE  At(t, g, m) \in Block \ (t.free \union Reserved)
      <3>1. At(t, g, m) = At(s, g, m) /\ ~(g = f /\ m = n)
        BY <1>2, <2>2
      <3>2. At(s, g, m) # At(s, f, n) \/ At(s, f, n) = 0
        BY <2>2, <3>1 DEF Fit, Unshared
      <3> QED
        BY <1>1, <2>2, <3>1, <3>2 DEF Fit, Taken
    <2> QED
      BY <2>1, <2>2 DEF Taken
  <1>5. ASSUME x PROVE Whole(t)
    <2> SUFFICES ASSUME NEW c \in Block \ (t.free \union Reserved)
                 PROVE  \E g \in Place, m \in Slot : At(t, g, m) = c
      BY DEF Whole
    <2>1. PICK g \in Place, m \in Slot : At(s, g, m) = c
      BY <1>1, <1>5 DEF Fit, Whole
    <2>2. c # 0
      BY LayoutAssumption DEF Reserved
    <2>3. ~(g = f /\ m = n)
      BY <1>1, <2>1, <2>2
    <2>4. ~(g = f /\ m \in L)
      BY <1>5, <2>1, <2>2, <2>3
    <2> QED
      BY <1>2, <2>1, <2>4
  <1>6. ASSUME x PROVE Covered(t)
    <2>1. FileBlock \subseteq Slot
      BY LayoutAssumption DEF FileBlock, Slot
    <2> QED
      BY <1>2, <1>6, <2>1 DEF Fit, Covered, SameSizes
  <1> QED
    BY <1>3, <1>4, <1>5, <1>6 DEF Fit

-----------------------------------------------------------------------------
(* What the functions on pointers do.                                      *)

\* The file at f gets an indirect block.
Grows(s, t, f, b) ==
    /\ s.inode[f].indirect = 0 /\ b \in s.free \ Reserved
    /\ t.inode = [s.inode EXCEPT ![f].indirect = b] /\ t.mem = s.mem
    /\ t.free = s.free \ {b} /\ t.onDisk = t.free

\* file_block_walk: there is a pointer, or there cannot be one, or the indirect
\* block is none, or there is no room for it, or it is made.
Walks(s, t, f, n, alloc) ==
    /\ t \in State
    /\ \/ /\ SameTree(s, t) /\ SameSpace(s, t) /\ t.r = "ok"
          /\ n < NDIRECT \/ (n \in Indirect /\ s.inode[f].indirect # 0)
       \/ SameTree(s, t) /\ SameSpace(s, t) /\ t.r = "inval" /\ n \notin FileBlock
       \/ /\ SameTree(s, t) /\ SameSpace(s, t) /\ t.r = "not_found" /\ ~alloc
          /\ n \in Indirect /\ s.inode[f].indirect = 0
       \/ /\ SameTree(s, t) /\ SameSpace(s, t) /\ t.r = "panic"
          /\ s.inode[f].indirect \notin (Block \ s.free) \union {0}
       \/ SameTree(s, t) /\ Fails(s, t) /\ alloc
       \/ t.r = "ok" /\ alloc /\ n \in Indirect /\ \E b \in Block : Grows(s, t, f, b)

\* The fields of a struct File.
LEMMA FileTyped ==
    ASSUME NEW s \in State, NEW f \in Place
    PROVE  /\ s.inode[f] \in File /\ s.inode[f].indirect \in Block /\ s.inode[f].size \in Nat
           /\ s.inode[f].direct \in [0 .. NDIRECT - 1 -> Block]
           /\ s.inode[f].name \in Names \union {""}
  BY StateFields DEF File

\* file_block_walk.
LEMMA WalkEffect ==
    ASSUME NEW s \in State, NEW f \in Place, NEW n \in Nat, NEW alloc \in BOOLEAN,
           NEW memory \in BOOLEAN
    PROVE  Walks(s, file_block_walk(s, f, n, alloc, memory), f, n, alloc)
  <1> DEFINE t == file_block_walk(s, f, n, alloc, memory)
             i == s.inode[f].indirect
             a == alloc_block(s, memory)
             l == [a EXCEPT !.inode[f].indirect = a.b]
  <1>1. /\ i \in Block /\ i \in 0 .. NBLOCK /\ NDIRECT \in Nat /\ NINDIRECT \in Nat
        /\ NDIRECT < NINDIRECT
    BY FileTyped, BlockFacts, LayoutAssumption
  <1>2. CASE n < NDIRECT
    <2>1. t = Return(s, "ok")
      BY <1>2 DEF file_block_walk
    <2> QED
      BY <1>2, <2>1, ReturnEffect DEF Walks, Results
  <1>3. CASE n >= NINDIRECT
    <2>1. t = Return(s, "inval") /\ n \notin FileBlock
      BY <1>1, <1>3 DEF file_block_walk, FileBlock
    <2> QED
      BY <2>1, ReturnEffect DEF Walks, Results
  <1>4. CASE n \in Indirect /\ i # 0
    <2>1. t = read_block(s, i)
      BY <1>1, <1>4 DEF file_block_walk, Indirect
    <2>2. ReadsOf(s, i, t)
      BY <1>1, <2>1, ReadEffect
    <2> QED
      BY <1>4, <2>2 DEF Walks, ReadsOf
  <1>5. CASE n \in Indirect /\ i = 0 /\ ~alloc
    <2>1. t = Return(s, "not_found")
      BY <1>1, <1>5 DEF file_block_walk, Indirect
    <2> QED
      BY <1>5, <2>1, ReturnEffect DEF Walks, Results
  <1>6. CASE n \in Indirect /\ i = 0 /\ alloc
    <2>1. t = IF Ok(a) THEN read_block(l, a.b) ELSE a
      BY <1>1, <1>6 DEF file_block_walk, Indirect, Then
    <2>2. a \in State /\ SameTree(s, a) /\ (Takes(s, a) \/ Fails(s, a))
      BY AllocEffect
    <2> HIDE DEF t, a, l
    <2>3. CASE ~Ok(a)
      BY <1>6, <2>1, <2>2, <2>3 DEF Walks, Takes, Ok, t
    <2>4. CASE Ok(a)
      <3>1. Takes(s, a) /\ a.b \in Block /\ a.b \in 0 .. NBLOCK
        BY <2>2, <2>4, BlockFacts, StateFields DEF Ok, Takes, Fails
      <3>2. PICK b \in Block : b = a.b
        BY <3>1
      <3>3. a.inode[f] \in File /\ a.inode \in [Place -> File]
        BY <2>2, FileTyped, StateFields
      <3>4. PICK e \in File : e = [a.inode[f] EXCEPT !.indirect = b]
        BY <3>3 DEF File
      <3>5. PICK d \in [Place -> File] : d = [a.inode EXCEPT ![f] = e]
        BY <3>3
      <3>6. l = [a EXCEPT !.inode = d]
        BY <3>2, <3>4, <3>5 DEF l
      <3>7. l \in State /\ l.inode = d /\ l.mem = a.mem /\ l.free = a.free /\ l.onDisk = a.onDisk
        BY <2>2, <3>6 DEF State
      <3>8. d = [s.inode EXCEPT ![f].indirect = b]
        BY <2>2, <3>4, <3>5 DEF SameTree
      <3>9. ReadsOf(l, b, t)
        BY <2>1, <2>4, <3>1, <3>2, <3>7, ReadEffect
      <3>10. b \in Block \ l.free
        BY <3>1, <3>2, <3>7 DEF Takes
      <3>11. t.r = "ok" /\ t \in State /\ SameTree(l, t) /\ SameSpace(l, t)
        BY <3>9, <3>10 DEF ReadsOf
      <3>12. Grows(s, t, f, b)
        BY <1>6, <2>2, <3>1, <3>2, <3>7, <3>8, <3>11 DEF Grows, SameTree, SameSpace, Takes
      <3> QED
        BY <1>6, <3>2, <3>11, <3>12 DEF Walks, t
    <2> QED
      BY <2>3, <2>4
  <1>7. n < NDIRECT \/ n >= NINDIRECT \/ n \in Indirect
    BY <1>1 DEF Indirect
  <1> QED
    BY <1>2, <1>3, <1>4, <1>5, <1>6, <1>7

\* A pointer is one of a block, or a word.
LEMMA PointerTyped ==
    ASSUME NEW s \in State, NEW f \in Place, NEW n \in FileBlock
    PROVE  Pointer(s, f, n) \in 0 .. NBLOCK
  <1>1. s.inode[f].indirect \in Block /\ s.inode[f].direct \in [0 .. NDIRECT - 1 -> Block]
    BY FileTyped
  <1>2. CASE n < NDIRECT
    <2>1. n \in 0 .. NDIRECT - 1
      BY <1>2, LayoutAssumption DEF FileBlock
    <2> QED
      BY <1>1, <1>2, <2>1, BlockFacts DEF Pointer
  <1>3. CASE ~(n < NDIRECT)
    <2>1. n \in Indirect
      BY <1>3, LayoutAssumption DEF FileBlock, Indirect
    <2>2. s.mem[s.inode[f].indirect][n] \in 0 .. NBLOCK
      BY <1>1, <2>1, StateFields
    <2> QED
      BY <1>3, <2>2, BlockFacts DEF Pointer
  <1> QED
    BY <1>2, <1>3

\* The pointers depend on the tree only.
LEMMA SameTreeSameAt ==
    ASSUME NEW s, NEW t, SameTree(s, t)
    PROVE  SameAt(s, t) /\ SameSizes(s, t)
  BY DEF SameTree, SameAt, SameSizes, At, Pointer

\* A new indirect block without words in it.
LEMMA GrowsLinks ==
    ASSUME NEW s \in State, NEW t, NEW f \in Place, NEW b \in Block, Grows(s, t, f, b),
           s.mem[b] = NoWords
    PROVE  Linked(s, t, f, NINDIRECT, b) /\ SameSizes(s, t)
  <1>1. t.inode = [s.inode EXCEPT ![f].indirect = b] /\ t.mem = s.mem /\ b # 0
    BY DEF Grows, Reserved
  <1>2. \A g \in Place : s.inode[g] \in File
    BY FileTyped
  <1>3. \A g \in Place : /\ t.inode[g].direct = s.inode[g].direct /\ t.inode[g].size = s.inode[g].size
                        /\ t.inode[g].indirect = IF g = f THEN b ELSE s.inode[g].indirect
    <2> TAKE g \in Place
    <2>1. s.inode[f] \in File /\ s.inode[g] \in File /\ s.inode \in [Place -> File]
      BY <1>2, StateFields
    <2>2. CASE g = f
      <3>1. t.inode[g] = [s.inode[f] EXCEPT !.indirect = b]
        BY <1>1, <2>1, <2>2
      <3> QED
        BY <2>1, <2>2, <3>1 DEF File
    <2>3. CASE g # f
      BY <1>1, <2>1, <2>3
    <2> QED
      BY <2>2, <2>3
  <1>4. ASSUME NEW g \in Place, NEW m \in Slot
        PROVE  At(t, g, m) = IF g = f /\ m = NINDIRECT THEN b ELSE At(s, g, m)
    <2>1. CASE m = NINDIRECT
      BY <1>3, <2>1 DEF At
    <2>2. CASE m # NINDIRECT /\ m < NDIRECT
      BY <1>3, <2>2 DEF At, Pointer
    <2>3. CASE m # NINDIRECT /\ ~(m < NDIRECT)
      <3>1. CASE g = f
        <4>1. m \in Indirect
          BY <2>3, LayoutAssumption DEF Slot, Indirect
        <4>2. Pointer(t, f, m) = s.mem[b][m] /\ s.mem[b][m] = 0
          BY <1>1, <1>3, <2>3, <4>1 DEF Pointer, NoWords
        <4>3. Pointer(s, f, m) = 0
          BY <2>3 DEF Pointer, Grows
        <4> QED
          BY <2>3, <3>1, <4>2, <4>3 DEF At
      <3>2. CASE g # f
        BY <1>1, <1>3, <2>3, <3>2 DEF At, Pointer
      <3> QED
        BY <3>1, <3>2
    <2> QED
      BY <2>1, <2>2, <2>3
  <1>5. At(s, f, NINDIRECT) = 0
    BY DEF At, Grows
  <1> QED
    BY <1>3, <1>4, <1>5 DEF Linked, SameSizes, Grows

\* Of the files only the one at f changes, and it keeps its name, its size and
\* its indirect block; without one nobody writes words.
Framed(s, t, f) ==
    /\ \A g \in Place : /\ g # f => t.inode[g] = s.inode[g]
                        /\ t.inode[g].size = s.inode[g].size /\ t.inode[g].name = s.inode[g].name
    /\ s.inode[f].indirect # 0 => t.inode[f].indirect = s.inode[f].indirect
    /\ t.inode[f].indirect = 0 => t.mem = s.mem

\* One change after another.
LEMMA FramedTwice ==
    ASSUME NEW s, NEW w, NEW t, NEW f, Framed(s, w, f), Framed(w, t, f)
    PROVE  Framed(s, t, f)
  BY DEF Framed

\* A change that leaves the pointers alone.
LEMMA SameTreeFramed ==
    ASSUME NEW s, NEW t, NEW f, SameTree(s, t)
    PROVE  Framed(s, t, f)
  BY DEF SameTree, Framed

\* A new indirect block.
LEMMA GrowsFramed ==
    ASSUME NEW s \in State, NEW t, NEW f \in Place, NEW b \in Block, Grows(s, t, f, b)
    PROVE  Framed(s, t, f) /\ t.inode[f].indirect = b /\ b # 0
  <1>1. t.inode = [s.inode EXCEPT ![f].indirect = b] /\ t.mem = s.mem /\ b # 0
        /\ s.inode[f].indirect = 0
    BY DEF Grows, Reserved
  <1>2. s.inode[f] \in File /\ s.inode \in [Place -> File]
    BY FileTyped, StateFields
  <1>3. t.inode[f] = [s.inode[f] EXCEPT !.indirect = b] /\ \A g \in Place : g # f => t.inode[g] = s.inode[g]
    BY <1>1, <1>2
  <1>4. /\ t.inode[f].indirect = b /\ t.inode[f].size = s.inode[f].size
        /\ t.inode[f].name = s.inode[f].name
    BY <1>2, <1>3 DEF File
  <1> QED
    BY <1>1, <1>3, <1>4 DEF Framed

\* A pointer is written.
LEMMA SetPointerEffect ==
    ASSUME NEW s \in State, NEW f \in Place, NEW n \in FileBlock, NEW b \in Block,
           n < NDIRECT \/ s.inode[f].indirect # 0
    PROVE  LET t == SetPointer(s, f, n, b) IN
           /\ t \in State /\ Framed(s, t, f) /\ SameSizes(s, t)
           /\ SameSpace(s, t) /\ t.r = s.r /\ t.b = s.b
           /\ \A g \in Place : t.inode[g].indirect = s.inode[g].indirect
           /\ Unshared(s) => \A g \in Place, m \in Slot :
                                At(t, g, m) = IF g = f /\ m = n THEN b ELSE At(s, g, m)
  <1> DEFINE t == SetPointer(s, f, n, b)
             i == s.inode[f].indirect
  <1>0. s.inode[f] \in File /\ i \in Block
    BY FileTyped
  <1>1. /\ s.inode[f] \in File /\ s.inode \in [Place -> File] /\ i \in Block
        /\ s.mem \in [Block -> [Indirect -> 0 .. NBLOCK]] /\ b \in 0 .. NBLOCK
        /\ NDIRECT \in Nat /\ NINDIRECT \in Nat /\ NDIRECT < NINDIRECT /\ n \in Nat /\ n < NINDIRECT
    <2>1. s.inode \in [Place -> File] /\ s.mem \in [Block -> [Indirect -> 0 .. NBLOCK]]
      BY StateFields
    <2>2. b \in 0 .. NBLOCK
      BY BlockFacts
    <2>3. NDIRECT \in Nat /\ NINDIRECT \in Nat /\ NDIRECT < NINDIRECT /\ n \in Nat /\ n < NINDIRECT
      BY LayoutAssumption DEF FileBlock
    <2> QED
      BY <1>0, <2>1, <2>2, <2>3
  <1>2. CASE n < NDIRECT
    <2>1. n \in 0 .. NDIRECT - 1
      BY <1>1, <1>2
    <2>2. PICK p \in [0 .. NDIRECT - 1 -> Block] : p = [s.inode[f].direct EXCEPT ![n] = b]
      BY FileTyped
    <2>3. PICK e \in File : e = [s.inode[f] EXCEPT !.direct = p]
      BY <1>1 DEF File
    <2>4. PICK d \in [Place -> File] : d = [s.inode EXCEPT ![f] = e]
      BY <1>1
    <2>5. t = [s EXCEPT !.inode = d]
      BY <1>2, <2>2, <2>3, <2>4 DEF SetPointer
    <2> HIDE DEF t
    <2>6. /\ t \in State /\ t.inode = d /\ t.mem = s.mem /\ SameSpace(s, t) /\ t.r = s.r /\ t.b = s.b
      BY <2>5 DEF State, SameSpace
    <2>7. /\ e.size = s.inode[f].size /\ e.name = s.inode[f].name /\ e.indirect = i
          /\ \A m \in 0 .. NDIRECT - 1 : e.direct[m] = IF m = n THEN b ELSE s.inode[f].direct[m]
      <3>1. /\ e.size = s.inode[f].size /\ e.name = s.inode[f].name /\ e.indirect = i /\ e.direct = p
        BY <1>1, <2>3 DEF File
      <3>2. \A m \in 0 .. NDIRECT - 1 : p[m] = IF m = n THEN b ELSE s.inode[f].direct[m]
        BY <2>2, FileTyped
      <3> QED
        BY <3>1, <3>2
    <2>8. t.inode[f] = e /\ \A g \in Place : g # f => t.inode[g] = s.inode[g]
      BY <1>1, <2>4, <2>6
    <2>9. \A g \in Place : /\ t.inode[g].size = s.inode[g].size /\ t.inode[g].name = s.inode[g].name
                          /\ t.inode[g].indirect = s.inode[g].indirect
      BY <2>7, <2>8
    <2>10. ASSUME NEW g \in Place, NEW m \in Slot
           PROVE  At(t, g, m) = IF g = f /\ m = n THEN b ELSE At(s, g, m)
      <3>1. CASE m = NINDIRECT
        BY <1>1, <2>9, <3>1 DEF At
      <3>2. CASE m # NINDIRECT /\ m < NDIRECT
        <4>1. m \in 0 .. NDIRECT - 1
          BY <1>1, <3>2 DEF Slot
        <4>2. t.inode[g].direct[m] = IF g = f /\ m = n THEN b ELSE s.inode[g].direct[m]
          BY <2>7, <2>8, <4>1
        <4> QED
          BY <3>2, <4>2 DEF At, Pointer
      <3>3. CASE m # NINDIRECT /\ ~(m < NDIRECT)
        <4>1. m # n
          BY <1>2, <3>3
        <4> QED
          BY <2>6, <2>9, <3>3, <4>1 DEF At, Pointer
      <3> QED
        BY <3>1, <3>2, <3>3
    <2>11. Framed(s, t, f) /\ SameSizes(s, t)
      BY <2>6, <2>8, <2>9 DEF Framed, SameSizes
    <2> QED
      BY <2>6, <2>9, <2>10, <2>11 DEF t
  <1>3. CASE ~(n < NDIRECT)
    <2>1. n \in Indirect /\ i # 0
      BY <1>1, <1>3 DEF Indirect
    <2>2. PICK w \in [Indirect -> 0 .. NBLOCK] : w = [s.mem[i] EXCEPT ![n] = b]
      BY <1>1
    <2>3. PICK d \in [Block -> [Indirect -> 0 .. NBLOCK]] : d = [s.mem EXCEPT ![i] = w]
      BY <1>1
    <2>4. t = [s EXCEPT !.mem = d]
      BY <1>3, <2>2, <2>3 DEF SetPointer
    <2> HIDE DEF t
    <2>5. /\ t \in State /\ t.inode = s.inode /\ t.mem = d /\ SameSpace(s, t) /\ t.r = s.r /\ t.b = s.b
      BY <2>4 DEF State, SameSpace
    <2>6. \A j \in Block, m \in Indirect : d[j][m] = IF j = i /\ m = n THEN b ELSE s.mem[j][m]
      BY <1>1, <2>1, <2>2, <2>3
    <2>7. ASSUME Unshared(s), NEW g \in Place, NEW m \in Slot
          PROVE  At(t, g, m) = IF g = f /\ m = n THEN b ELSE At(s, g, m)
      <3>1. CASE m = NINDIRECT
        BY <1>1, <2>5, <3>1 DEF At
      <3>2. CASE m # NINDIRECT /\ m < NDIRECT
        BY <1>3, <2>5, <3>2 DEF At, Pointer
      <3>3. CASE m # NINDIRECT /\ ~(m < NDIRECT) /\ s.inode[g].indirect = 0
        BY <2>1, <2>5, <3>3 DEF At, Pointer
      <3>4. CASE m # NINDIRECT /\ ~(m < NDIRECT) /\ s.inode[g].indirect # 0
        <4>1. m \in Indirect
          BY <1>1, <3>4 DEF Slot, Indirect
        <4>2. s.inode[g].indirect = i => g = f
          <5>1. NINDIRECT \in Slot
            BY <1>1 DEF Slot
          <5>2. At(s, g, NINDIRECT) = s.inode[g].indirect /\ At(s, f, NINDIRECT) = i
            BY DEF At
          <5> QED
            BY <2>1, <2>7, <5>1, <5>2 DEF Unshared
        <4>3. s.inode[g].indirect \in Block
          BY FileTyped
        <4>4. At(t, g, m) = d[s.inode[g].indirect][m] /\ At(s, g, m) = s.mem[s.inode[g].indirect][m]
          BY <2>5, <3>4 DEF At, Pointer
        <4> QED
          BY <2>6, <4>1, <4>2, <4>3, <4>4
      <3> QED
        BY <3>1, <3>2, <3>3, <3>4
    <2>8. Framed(s, t, f) /\ SameSizes(s, t)
      BY <2>1, <2>5 DEF Framed, SameSizes
    <2> QED
      BY <2>5, <2>7, <2>8 DEF t
  <1> QED
    BY <1>2, <1>3

-----------------------------------------------------------------------------
(* Mapping a block of a file.                                              *)

\* The file at f has got an indirect block with words in it.
Taint(s, t, f) ==
    /\ s.inode[f].indirect = 0 /\ t.inode[f].indirect # 0
    /\ s.mem[t.inode[f].indirect] # NoWords

\* The file block n of the file at f may be linked.
Allowed(s, f, n, x) == x /\ n \in FileBlock => n <= s.inode[f].size \div BY2BLK

\* No pointer to a block is lost.
Extends(s, t) == \A g \in Place, m \in Slot : At(s, g, m) # 0 => At(t, g, m) = At(s, g, m)

\* A function that only changes the file at f, and keeps the file system fit and
\* every pointer unless it takes an indirect block with words in it.
Fits(s, t, f, x) == Taint(s, t, f) \/ (Fit(t, x) /\ Extends(s, t) /\ t.r # "panic")
Keeps(s, t, f, n) ==
    /\ Sound(t) /\ Framed(s, t, f)
    /\ \A x \in BOOLEAN : Fit(s, x) /\ Allowed(s, f, n, x) => Fits(s, t, f, x)

\* A stale indirect block stays the file's.
LEMMA TaintBefore ==
    ASSUME NEW s, NEW w, NEW t, NEW f, Taint(s, w, f), Framed(w, t, f)
    PROVE  Taint(s, t, f)
  BY DEF Taint, Framed

\* A block that had words before a later step had them before the first.
LEMMA TaintAfter ==
    ASSUME NEW s, NEW w, NEW t, NEW f, Framed(s, w, f), Taint(w, t, f)
    PROVE  Taint(s, t, f)
  BY DEF Taint, Framed

\* Pointers that stay, and a free slot that is linked.
LEMMA SameExtends ==
    ASSUME NEW s, NEW t, SameAt(s, t)
    PROVE  Extends(s, t)
  BY DEF SameAt, Extends

LEMMA LinkedExtends ==
    ASSUME NEW s, NEW t, NEW f, NEW n, NEW b, Linked(s, t, f, n, b)
    PROVE  Extends(s, t)
  BY DEF Linked, Extends

LEMMA ExtendsTwice ==
    ASSUME NEW s, NEW w, NEW t, Extends(s, w), Extends(w, t)
    PROVE  Extends(s, t)
  BY DEF Extends

\* One change after another.
LEMMA KeepsTwice ==
    ASSUME NEW s, NEW w, NEW t, NEW f \in Place, NEW n, Keeps(s, w, f, n), Keeps(w, t, f, n)
    PROVE  Keeps(s, t, f, n)
  <1>1. Sound(t) /\ Framed(s, t, f)
    BY FramedTwice DEF Keeps
  <1>2. ASSUME NEW x \in BOOLEAN, Fit(s, x), Allowed(s, f, n, x) PROVE Fits(s, t, f, x)
    <2>1. Fits(s, w, f, x)
      BY <1>2 DEF Keeps
    <2>2. CASE Taint(s, w, f)
      BY <2>2, TaintBefore DEF Keeps, Fits
    <2>3. CASE Fit(w, x) /\ Extends(s, w)
      <3>1. Allowed(w, f, n, x)
        BY <1>2 DEF Allowed, Keeps, Framed
      <3>2. Fits(w, t, f, x)
        BY <2>3, <3>1 DEF Keeps
      <3> QED
        BY <2>3, <3>2, TaintAfter, ExtendsTwice DEF Keeps, Fits
    <2> QED
      BY <2>1, <2>2, <2>3 DEF Fits
  <1> QED
    BY <1>1, <1>2 DEF Keeps

\* Nothing the tree depends on has changed.
LEMMA SameKeeps ==
    ASSUME NEW s, NEW t, NEW f, NEW n, Sound(t), SameTree(s, t), t.free = s.free, t.r # "panic"
    PROVE  Keeps(s, t, f, n)
  <1>1. Framed(s, t, f) /\ SameAt(s, t) /\ SameSizes(s, t)
    BY SameTreeFramed, SameTreeSameAt
  <1>2. ASSUME NEW x \in BOOLEAN, Fit(s, x) PROVE Fit(t, x)
    <2>1. x => \A g \in Place, m \in FileBlock : At(s, g, m) # 0 => m <= t.inode[g].size \div BY2BLK
      BY <1>1, <1>2 DEF Fit, Covered, SameSizes
    <2> QED
      BY <1>1, <1>2, <2>1, SameKeepsFit
  <1> QED
    BY <1>1, <1>2, SameExtends DEF Keeps, Fits

\* file_block_walk keeps the state fit.
LEMMA WalkKeeps ==
    ASSUME NEW s, Sound(s), NEW f \in Place, NEW n \in Nat, NEW alloc \in BOOLEAN,
           NEW w, Walks(s, w, f, n, alloc)
    PROVE  /\ Keeps(s, w, f, n)
           /\ w.r = "ok" => n \in FileBlock /\ (n < NDIRECT \/ w.inode[f].indirect # 0)
           /\ ~alloc => SameTree(s, w) /\ SameSpace(s, w)
  <1>1. s \in State /\ w \in State /\ s.onDisk \subseteq s.free
    BY DEF Sound, Walks
  <1>2. \A b \in Block : Grows(s, w, f, b) =>
            Framed(s, w, f) /\ w.inode[f].indirect = b /\ b # 0 /\ w.onDisk = w.free
    <2> SUFFICES ASSUME NEW b \in Block, Grows(s, w, f, b)
                 PROVE  Framed(s, w, f) /\ w.inode[f].indirect = b /\ b # 0
                        /\ w.onDisk = w.free
      OBVIOUS
    <2>1. Framed(s, w, f) /\ w.inode[f].indirect = b /\ b # 0
      BY <1>1, GrowsFramed
    <2>2. w.onDisk = w.free
      BY DEF Grows
    <2> QED
      BY <2>1, <2>2
  <1>3. w.r = "ok" => n \in FileBlock /\ (n < NDIRECT \/ w.inode[f].indirect # 0)
    <2>1. n < NDIRECT \/ n \in Indirect => n \in FileBlock
      BY LayoutAssumption DEF FileBlock, Indirect
    <2> QED
      BY <1>2, <2>1 DEF Walks, SameTree, Fails
  <1>4. ~alloc => SameTree(s, w) /\ SameSpace(s, w)
    BY DEF Walks
  <1>5. ASSUME SameTree(s, w), SameSpace(s, w), w.r # "panic" PROVE Keeps(s, w, f, n)
    BY <1>1, <1>5, SameKeeps DEF SameSpace, Sound
  <1>6. ASSUME SameTree(s, w), Fails(s, w) PROVE Keeps(s, w, f, n)
    BY <1>1, <1>6, SameKeeps DEF Fails, Sound
  <1>7. ASSUME SameTree(s, w), SameSpace(s, w), w.r = "panic",
               s.inode[f].indirect \notin (Block \ s.free) \union {0}
        PROVE  Keeps(s, w, f, n)
    <2>1. Sound(w) /\ Framed(s, w, f)
      BY <1>1, <1>7, SameTreeFramed DEF SameSpace, Sound
    <2>2. ~Taken(s)
      <3>1. At(s, f, NINDIRECT) = s.inode[f].indirect /\ NINDIRECT \in Slot
        BY LayoutAssumption DEF At, Slot
      <3> QED
        BY <1>7, <3>1 DEF Taken
    <2> QED
      BY <2>1, <2>2 DEF Keeps, Fit
  <1>8. ASSUME NEW b \in Block, Grows(s, w, f, b), w.r = "ok"
        PROVE  Keeps(s, w, f, n)
    <2>1. Framed(s, w, f) /\ w.inode[f].indirect = b /\ b # 0 /\ Sound(w)
      BY <1>1, <1>2, <1>8 DEF Sound
    <2>2. ASSUME NEW x \in BOOLEAN, Fit(s, x), s.mem[b] = NoWords PROVE Fit(w, x) /\ Extends(s, w)
      <3>1. Linked(s, w, f, NINDIRECT, b) /\ SameSizes(s, w)
        BY <1>1, <1>8, <2>2, GrowsLinks
      <3>2. NINDIRECT \in Slot /\ NINDIRECT \notin FileBlock
        BY LayoutAssumption DEF Slot, FileBlock
      <3> QED
        BY <2>1, <2>2, <3>1, <3>2, LinkedKeepsFit, LinkedExtends
    <2>3. s.mem[b] # NoWords => Taint(s, w, f)
      BY <1>8, <2>1 DEF Taint, Grows
    <2> QED
      BY <1>8, <2>1, <2>2, <2>3 DEF Keeps, Fits
  <1> QED
    BY <1>3, <1>4, <1>5, <1>6, <1>7, <1>8 DEF Walks

\* file_map_block and file_get_block: the block they return is the file's.
Returns(t, f, n) == t.r = "ok" => n \in FileBlock /\ t.b = At(t, f, n) /\ t.b # 0

\* file_map_block.
LEMMA MapEffect ==
    ASSUME NEW s, Sound(s), NEW f \in Place, NEW n \in Nat, NEW memory
    PROVE  LET t == file_map_block(s, f, n, memory) IN
           /\ Keeps(s, t, f, n)
           /\ \A x \in BOOLEAN : Fit(s, x) /\ Allowed(s, f, n, x) => Taint(s, t, f) \/ Returns(t, f, n)
  <1> DEFINE t == file_map_block(s, f, n, memory)
             w == file_block_walk(s, f, n, TRUE, "indirect" \in memory)
             p == Pointer(w, f, n)
             a == alloc_block(w, "data" \in memory)
  <1>1. /\ Keeps(s, w, f, n)
        /\ w.r = "ok" => n \in FileBlock /\ (n < NDIRECT \/ w.inode[f].indirect # 0)
    <2>1. Walks(s, w, f, n, TRUE)
      <3>1. ("indirect" \in memory) \in BOOLEAN /\ s \in State
        BY DEF Sound
      <3> QED
        BY <3>1, WalkEffect
    <2> HIDE DEF w
    <2> QED
      BY <2>1, WalkKeeps
  <1>2. t = IF Ok(w) THEN IF p # 0 THEN [w EXCEPT !.b = p]
                         ELSE IF Ok(a) THEN SetPointer(a, f, n, a.b) ELSE a
            ELSE w
    BY DEF file_map_block, Then
  <1> HIDE DEF t, w
  <1>3. w \in State /\ w.onDisk \subseteq w.free
    BY <1>1 DEF Keeps, Sound
  <1>4. CASE ~Ok(w)
    BY <1>1, <1>2, <1>4 DEF Ok, Returns, t
  <1>5. CASE Ok(w) /\ p # 0
    <2>1. n \in FileBlock /\ p \in 0 .. NBLOCK /\ n # NINDIRECT
      BY <1>1, <1>3, <1>5, PointerTyped, LayoutAssumption DEF Ok, FileBlock
    <2>2. PICK b \in 0 .. NBLOCK : b = p
      BY <2>1
    <2>3. t = [w EXCEPT !.b = b]
      BY <1>2, <1>5, <2>2
    <2>4. t \in State /\ SameTree(w, t) /\ SameSpace(w, t) /\ t.r = "ok" /\ t.b = b
      BY <1>3, <1>5, <2>3 DEF State, SameTree, SameSpace, Ok
    <2>5. Keeps(w, t, f, n)
      BY <1>3, <2>4, SameKeeps DEF Sound, SameSpace
    <2>6. At(t, f, n) = b
      BY <2>1, <2>2, <2>4 DEF At, Pointer, SameTree
    <2> QED
      BY <1>1, <1>5, <2>1, <2>2, <2>4, <2>5, <2>6, KeepsTwice DEF Returns, t
  <1>6. CASE Ok(w) /\ p = 0
    <2>1. a \in State /\ SameTree(w, a) /\ (Takes(w, a) \/ Fails(w, a))
      <3>1. ("data" \in memory) \in BOOLEAN
        OBVIOUS
      <3> QED
        BY <1>3, <3>1, AllocEffect
    <2>2. t = IF Ok(a) THEN SetPointer(a, f, n, a.b) ELSE a
      BY <1>2, <1>6
    <2> HIDE DEF a
    <2>3. CASE ~Ok(a)
      <3>1. Keeps(w, t, f, n)
        BY <1>3, <2>1, <2>2, <2>3, SameKeeps DEF Takes, Fails, Ok, Sound
      <3> QED
        BY <1>1, <2>2, <2>3, <3>1, KeepsTwice DEF Returns, Ok, t
    <2>4. CASE Ok(a)
      <3>1. Takes(w, a) /\ a.b \in Block /\ a.b # 0
        BY <1>3, <2>1, <2>4, StateFields, BlockFacts DEF Takes, Fails, Ok, Reserved
      <3>2. PICK b \in Block : b = a.b
        BY <3>1
      <3>3. t = SetPointer(a, f, n, b)
        BY <2>2, <2>4, <3>2
      <3>4. n \in FileBlock /\ (n < NDIRECT \/ a.inode[f].indirect # 0) /\ n \in Slot /\ n # NINDIRECT
        BY <1>1, <1>6, <2>1, LayoutAssumption DEF Ok, SameTree, FileBlock, Slot
      <3>5. /\ t \in State /\ Framed(a, t, f) /\ SameSizes(a, t)
            /\ SameSpace(a, t) /\ t.r = a.r /\ t.b = a.b
            /\ Unshared(a) => \A g \in Place, m \in Slot :
                                 At(t, g, m) = IF g = f /\ m = n THEN b ELSE At(a, g, m)
        BY <2>1, <3>3, <3>4, SetPointerEffect
      <3>6. Sound(t) /\ Framed(w, t, f)
        BY <2>1, <3>1, <3>5, SameTreeFramed, FramedTwice DEF Sound, SameSpace, Takes
      <3>7. SameAt(w, a) /\ SameSizes(w, a)
        BY <2>1, SameTreeSameAt
      <3>8. ASSUME NEW x \in BOOLEAN, Fit(w, x), Allowed(w, f, n, x)
            PROVE  Fit(t, x) /\ Extends(w, t) /\ Returns(t, f, n)
        <4>1. Unshared(a)
          BY <3>7, <3>8 DEF Fit, Unshared, SameAt
        <4>2. \A g \in Place, m \in Slot : At(t, g, m) = IF g = f /\ m = n THEN b ELSE At(w, g, m)
          BY <3>5, <3>7, <4>1 DEF SameAt
        <4>3. At(w, f, n) = 0
          BY <1>6, <3>4 DEF At
        <4>4. Linked(w, t, f, n, b)
          BY <3>1, <3>2, <3>5, <4>2, <4>3 DEF Linked, Takes, SameSpace
        <4>5. SameSizes(w, t)
          BY <3>5, <3>7 DEF SameSizes
        <4>6. Fit(t, x)
          BY <3>4, <3>6, <3>8, <4>4, <4>5, LinkedKeepsFit DEF Allowed
        <4>7. At(t, f, n) = b
          BY <3>4, <4>2
        <4> QED
          BY <3>1, <3>2, <3>4, <3>5, <4>4, <4>6, <4>7, LinkedExtends DEF Returns
      <3>9. Keeps(w, t, f, n)
        BY <2>4, <3>5, <3>6, <3>8 DEF Keeps, Fits, Ok
      <3>10. Keeps(s, t, f, n)
        BY <1>1, <3>9, KeepsTwice
      <3>11. ASSUME NEW x \in BOOLEAN, Fit(s, x), Allowed(s, f, n, x)
             PROVE  Taint(s, t, f) \/ Returns(t, f, n)
        <4>1. Taint(s, w, f) => Taint(s, t, f)
          BY <3>6, TaintBefore
        <4>2. Allowed(w, f, n, x)
          BY <1>1, <3>11 DEF Allowed, Keeps, Framed
        <4> QED
          BY <1>1, <3>8, <3>11, <4>1, <4>2 DEF Keeps, Fits
      <3> QED
        BY <3>10, <3>11 DEF t
    <2> QED
      BY <2>3, <2>4
  <1> QED
    BY <1>4, <1>5, <1>6

\* file_get_block.
LEMMA GetEffect ==
    ASSUME NEW s, Sound(s), NEW f \in Place, NEW n \in Nat, NEW memory
    PROVE  LET t == file_get_block(s, f, n, memory) IN
           /\ Keeps(s, t, f, n) /\ (t.r = "ok" => t.b \in Block)
           /\ \A x \in BOOLEAN : Fit(s, x) /\ Allowed(s, f, n, x) => Taint(s, t, f) \/ Returns(t, f, n)
  <1> DEFINE t == file_get_block(s, f, n, memory)
             m == file_map_block(s, f, n, memory)
  <1>1. /\ Keeps(s, m, f, n)
        /\ \A x \in BOOLEAN : Fit(s, x) /\ Allowed(s, f, n, x) => Taint(s, m, f) \/ Returns(m, f, n)
    BY MapEffect
  <1>2. t = IF Ok(m) THEN read_block(m, m.b) ELSE m
    BY DEF file_get_block, Then
  <1> HIDE DEF t, m
  <1>3. CASE ~Ok(m)
    BY <1>1, <1>2, <1>3 DEF t, Ok
  <1>4. CASE Ok(m)
    <2>1. m \in State /\ m.b \in 0 .. NBLOCK
      BY <1>1, StateFields DEF Keeps, Sound
    <2>2. ReadsOf(m, m.b, t)
      BY <1>2, <1>4, <2>1, ReadEffect
    <2>3. Sound(t) /\ Framed(m, t, f)
      BY <1>1, <2>2, SameTreeFramed DEF ReadsOf, Keeps, Sound, SameSpace
    <2>4. Sound(t) /\ Framed(s, t, f)
      BY <1>1, <2>3, FramedTwice DEF Keeps
    <2>5. ASSUME NEW x \in BOOLEAN, Fit(s, x), Allowed(s, f, n, x), ~Taint(s, t, f)
          PROVE  Fit(t, x) /\ Extends(s, t) /\ t.r # "panic" /\ Returns(t, f, n)
      <3>1. ~Taint(s, m, f)
        BY <2>3, <2>5, TaintBefore
      <3>2. Fit(m, x) /\ Extends(s, m) /\ Returns(m, f, n)
        BY <1>1, <2>5, <3>1 DEF Keeps, Fits
      <3>3. n \in FileBlock /\ m.b = At(m, f, n) /\ m.b # 0 /\ n \in Slot
        BY <1>4, <3>2, LayoutAssumption DEF Returns, Ok, FileBlock, Slot
      <3>4. m.b \in Block \ m.free
        BY <3>2, <3>3 DEF Fit, Taken
      <3>5. t.r = "ok" /\ t.b = m.b
        BY <2>2, <3>4 DEF ReadsOf
      <3>6. Keeps(m, t, f, n)
        BY <2>2, <2>3, <3>5, SameKeeps DEF ReadsOf, SameSpace
      <3>7. At(t, f, n) = At(m, f, n)
        BY <2>2, <3>3, SameTreeSameAt DEF ReadsOf, SameAt
      <3>8. Allowed(m, f, n, x)
        BY <1>1, <2>5 DEF Allowed, Keeps, Framed
      <3>9. ~Taint(m, t, f)
        BY <1>1, <2>5, TaintAfter DEF Keeps
      <3>10. Fit(t, x) /\ Extends(m, t)
        BY <3>2, <3>6, <3>8, <3>9 DEF Keeps, Fits
      <3>11. Extends(s, t)
        BY <3>2, <3>10, ExtendsTwice
      <3> QED
        BY <3>2, <3>3, <3>5, <3>7, <3>10, <3>11 DEF Returns
    <2>6. t.r = "ok" => t.b \in Block
      BY <2>2 DEF ReadsOf
    <2> QED
      BY <2>4, <2>5, <2>6 DEF Keeps, Fits, t
  <1> QED
    BY <1>3, <1>4

-----------------------------------------------------------------------------
(* Clearing the blocks of a file.                                          *)

\* The pointers in L are cleared.
Zeroed(s, t, f, L) == \A g \in Place, m \in Slot :
    At(t, g, m) = IF g = f /\ m \in L THEN 0 ELSE At(s, g, m)

\* Of the file at f the pointers in L are cleared and their blocks given back.
Clears(s, t, f, L) ==
    /\ Sound(t) /\ SameSizes(s, t)
    /\ \A x \in BOOLEAN : Fit(s, x) => Fit(t, x) /\ t.r # "panic" /\ Zeroed(s, t, f, L)

\* file_clear_block.
LEMMA ClearEffect ==
    ASSUME NEW s, Sound(s), NEW f \in Place, NEW n \in Nat
    PROVE  Clears(s, file_clear_block(s, f, n), f, {n} \intersect FileBlock)
  <1> DEFINE t == file_clear_block(s, f, n)
             w == file_block_walk(s, f, n, FALSE, FALSE)
             p == Pointer(w, f, n)
             L == {n} \intersect FileBlock
  <1>0. Walks(s, w, f, n, FALSE)
    BY WalkEffect DEF Sound
  <1>2. t = IF Ok(w) THEN IF p = 0 THEN w ELSE SetPointer(free_block(w, p), f, n, 0) ELSE w
    BY DEF file_clear_block, Then
  <1> HIDE DEF t, w
  <1>1. /\ Keeps(s, w, f, n)
        /\ w.r = "ok" => n \in FileBlock /\ (n < NDIRECT \/ w.inode[f].indirect # 0)
        /\ SameTree(s, w) /\ SameSpace(s, w)
    BY <1>0, WalkKeeps
  <1>3. w \in State /\ w.onDisk \subseteq w.free /\ SameAt(s, w) /\ SameSizes(s, w)
    BY <1>1, SameTreeSameAt DEF Keeps, Sound
  <1>4. ASSUME NEW x \in BOOLEAN, Fit(s, x) PROVE Fit(w, x) /\ w.r # "panic"
    <2>1. Fit(w, x)
      <3>1. x => \A g \in Place, m \in FileBlock : At(s, g, m) # 0 => m <= w.inode[g].size \div BY2BLK
        BY <1>3, <1>4 DEF Fit, Covered, SameSizes
      <3> QED
        BY <1>1, <1>3, <1>4, <3>1, SameKeepsFit DEF SameSpace, Sound
    <2>2. w.r # "panic"
      <3>1. At(s, f, NINDIRECT) = s.inode[f].indirect /\ NINDIRECT \in Slot
        BY LayoutAssumption DEF At, Slot
      <3>2. s.inode[f].indirect \in (Block \ s.free) \union {0}
        BY <1>4, <3>1 DEF Fit, Taken
      <3> QED
        BY <1>0, <3>2 DEF Walks
    <2> QED
      BY <2>1, <2>2
  <1>5. CASE ~(Ok(w) /\ p # 0)
    <2>1. t = w
      BY <1>2, <1>5
    <2>2. ASSUME n \in FileBlock, w.r # "panic" PROVE At(s, f, n) = 0
      <3>1. n # NINDIRECT /\ (n < NDIRECT \/ n \in Indirect)
        BY <2>2, LayoutAssumption DEF FileBlock, Indirect
      <3>2. CASE Ok(w)
        <4>1. Pointer(w, f, n) = 0
          BY <1>5, <3>2
        <4> QED
          BY <1>1, <3>1, <4>1 DEF At, Pointer, SameTree
      <3>3. CASE ~Ok(w)
        <4>1. n \in Indirect /\ s.inode[f].indirect = 0
          BY <1>0, <2>2, <3>3 DEF Walks, Ok
        <4>2. ~(n < NDIRECT)
          BY <4>1, LayoutAssumption DEF Indirect
        <4> QED
          BY <3>1, <4>1, <4>2 DEF At, Pointer
      <3> QED
        BY <3>2, <3>3
    <2>3. ASSUME w.r # "panic" PROVE Zeroed(s, w, f, L)
      BY <1>3, <2>2, <2>3 DEF Zeroed, SameAt
    <2> QED
      BY <1>1, <1>3, <1>4, <2>1, <2>3 DEF Clears, Keeps, t
  <1>6. CASE Ok(w) /\ p # 0
    <2> DEFINE a == free_block(w, p)
    <2>1. n \in FileBlock /\ p \in 0 .. NBLOCK /\ n # NINDIRECT /\ n \in Slot
      BY <1>1, <1>3, <1>6, PointerTyped, LayoutAssumption DEF Ok, FileBlock, Slot
    <2>2. /\ a \in State /\ SameTree(w, a) /\ a.onDisk = w.onDisk /\ a.r = w.r
          /\ a.free = w.free \union ({p} \intersect (Block \ {0}))
      BY <1>3, <2>1, FreeEffect
    <2>3. t = SetPointer(a, f, n, 0)
      BY <1>2, <1>6
    <2> HIDE DEF a
    <2>4. n < NDIRECT \/ a.inode[f].indirect # 0
      BY <1>1, <1>6, <2>2 DEF Ok, SameTree
    <2>5. /\ t \in State /\ SameSizes(a, t)
          /\ SameSpace(a, t) /\ t.r = a.r
          /\ Unshared(a) => \A g \in Place, m \in Slot :
                               At(t, g, m) = IF g = f /\ m = n THEN 0 ELSE At(a, g, m)
      BY <2>1, <2>2, <2>3, <2>4, SetPointerEffect, BlockFacts
    <2>6. SameAt(w, a) /\ SameSizes(w, a)
      BY <2>2, SameTreeSameAt
    <2>7. Sound(t) /\ SameSizes(s, t) /\ SameSizes(w, t)
      BY <1>3, <2>2, <2>5, <2>6 DEF Sound, SameSizes, SameSpace
    <2>8. ASSUME NEW x \in BOOLEAN, Fit(s, x)
          PROVE  Fit(t, x) /\ t.r # "panic" /\ Zeroed(s, t, f, L)
      <3>1. Fit(w, x)
        BY <1>4, <2>8
      <3>2. Unshared(a)
        BY <2>6, <3>1 DEF Fit, Unshared, SameAt
      <3>3. \A g \in Place, m \in Slot : At(t, g, m) = IF g = f /\ m = n THEN 0 ELSE At(w, g, m)
        BY <2>5, <2>6, <3>2 DEF SameAt
      <3>4. At(w, f, n) = p
        BY <2>1 DEF At
      <3>5. p \in Block \ {0}
        BY <1>6, <2>1, <3>1, <3>4 DEF Fit, Taken
      <3>6. t.free = w.free \union ({p} \ {0})
        BY <2>2, <2>5, <3>5 DEF SameSpace
      <3>7. Cleared(w, t, f, {n}, n)
        BY <3>3, <3>4, <3>6 DEF Cleared
      <3>8. Fit(t, x)
        BY <2>1, <2>7, <3>1, <3>7, ClearedKeepsFit
      <3>9. Zeroed(s, t, f, L)
        BY <1>3, <2>1, <3>3 DEF Zeroed, SameAt
      <3>10. t.r # "panic"
        BY <1>6, <2>2, <2>5 DEF Ok
      <3> QED
        BY <3>8, <3>9, <3>10
    <2> QED
      BY <2>7, <2>8 DEF Clears, t
  <1> QED
    BY <1>5, <1>6

\* The loop of file_truncate, one block at a time.
SoundState == {t \in State : Sound(t)}
Unfolds(s, f, new, g) ==
    /\ \A old \in Nat : ClearBlocks(s, f, new, old) = g[old - new]
    /\ g[0] = Return(s, "ok")
    /\ \A n \in Nat : g[n + 1] = IF g[n].r = "panic" THEN g[n]
                                ELSE file_clear_block(g[n], f, new + n)

\* The function that ClearBlocks defines exists and is defined by its steps.
LEMMA ClearBlocksUnfold ==
    ASSUME NEW s, Sound(s), NEW f \in Place, NEW new \in Nat
    PROVE  \E g \in [Nat -> SoundState] : Unfolds(s, f, new, g)
  <1> DEFINE S == SoundState
             Clear(t, n) == IF t.r = "panic" THEN t ELSE file_clear_block(t, f, new + (n - 1))
             F == [x \in S \X Nat |-> IF x[2] = 0 THEN x[1] ELSE Clear(x[1], x[2])]
             body(g, n) == IF n = 0 THEN Return(s, "ok")
                           ELSE IF g[n - 1].r = "panic" THEN g[n - 1]
                           ELSE file_clear_block(g[n - 1], f, new + (n - 1))
             c == CHOOSE h : h = [n \in Nat |-> body(h, n)]
  <1>1. ASSUME NEW t \in S, NEW n \in Nat, n # 0 PROVE Clear(t, n) \in S
    <2>1. new + (n - 1) \in Nat /\ Sound(t)
      BY <1>1 DEF SoundState
    <2>2. Sound(file_clear_block(t, f, new + (n - 1)))
      BY <2>1, ClearEffect DEF Clears
    <2> QED
      BY <2>2 DEF Sound, SoundState
  <1>2. F \in [S \X Nat -> S]
    <2> HIDE DEF Clear, S
    <2> QED
      BY <1>1
  <1>3. Return(s, "ok") \in S
    BY ReturnEffect DEF Results, Sound, SameSpace, SoundState
  <1>4. PICK g \in [Nat -> S] :
            \A n \in Nat : g[n] = IF n = 0 THEN Return(s, "ok") ELSE F[<<g[n - 1], n>>]
    <2>1. PICK b \in S : b = Return(s, "ok")
      BY <1>3
    <2> HIDE DEF F, S, Clear, body, c
    <2>2. \E g \in [Nat -> S] : Repeats(b, F, g)
      BY <1>2, Repeated
    <2> QED
      BY <2>1, <2>2 DEF Repeats
  <1>5. \A n \in Nat : g[n] = body(g, n)
    <2> TAKE n \in Nat
    <2>1. CASE n # 0
      <3>1. n - 1 \in Nat
        BY <2>1
      <3>2. g[n - 1] \in S
        BY <3>1
      <3>3. F[<<g[n - 1], n>>] = Clear(g[n - 1], n)
        BY <2>1, <3>2
      <3> QED
        BY <1>4, <2>1, <3>3
    <2> QED
      BY <1>4, <2>1
  <1>6. c = [n \in Nat |-> body(c, n)]
    <2>1. g = [n \in Nat |-> body(g, n)]
      BY <1>5
    <2>2. \E h : h = [n \in Nat |-> body(h, n)]
      BY <2>1
    <2> QED
      BY <2>2
  <1>7. \A old \in Nat : ClearBlocks(s, f, new, old) = c[old - new]
    BY DEF ClearBlocks
  <1> HIDE DEF c, S
  \* Both are defined by the same steps.
  <1>8. \A n \in Nat : c[n] = body(c, n)
    BY <1>6
  <1> DEFINE T == {n \in Nat : c[n] = g[n]}
  <1>9. 0 \in T
    BY <1>5, <1>8
  <1>10. ASSUME NEW n \in T PROVE n + 1 \in T
    <2>1. n \in Nat /\ n + 1 \in Nat /\ (n + 1) - 1 = n /\ n + 1 # 0 /\ c[n] = g[n]
      OBVIOUS
    <2>2. body(c, n + 1) = body(g, n + 1)
      BY <2>1
    <2> QED
      BY <1>5, <1>8, <2>1, <2>2
  <1>11. T = Nat
    <2> HIDE DEF T
    <2>1. T \in SUBSET Nat
      BY DEF T
    <2> QED
      BY <1>9, <1>10, <2>1, AllNaturals
  <1>12. c = g
    <2>1. DOMAIN c = Nat
      BY <1>6
    <2>2. \A n \in Nat : c[n] = g[n]
      BY <1>11
    <2>3. c = [n \in Nat |-> c[n]]
      BY <1>6
    <2> QED
      BY <2>2, <2>3
  <1>13. g[0] = Return(s, "ok")
    BY <1>4
  <1>14. ASSUME NEW n \in Nat
         PROVE  g[n + 1] = IF g[n].r = "panic" THEN g[n] ELSE file_clear_block(g[n], f, new + n)
    <2>1. n + 1 \in Nat /\ (n + 1) - 1 = n /\ n + 1 # 0
      OBVIOUS
    <2> QED
      BY <1>5, <2>1
  <1> QED
    BY <1>7, <1>12, <1>13, <1>14 DEF S, Unfolds

\* One range of blocks after another.
LEMMA ClearsTwice ==
    ASSUME NEW s, NEW w, NEW t, NEW f \in Place, NEW L, NEW M, NEW N, Clears(s, w, f, L),
           Clears(w, t, f, M), L \union M = N
    PROVE  Clears(s, t, f, N)
  <1>1. Sound(t) /\ SameSizes(s, t)
    BY DEF Clears, SameSizes
  <1>2. ASSUME NEW x \in BOOLEAN, Fit(s, x) PROVE Fit(t, x) /\ t.r # "panic" /\ Zeroed(s, t, f, N)
    <2>1. Fit(w, x) /\ Zeroed(s, w, f, L)
      BY <1>2 DEF Clears
    <2>2. Fit(t, x) /\ t.r # "panic" /\ Zeroed(w, t, f, M)
      BY <2>1 DEF Clears
    <2>3. Zeroed(s, t, f, N)
      BY <2>1, <2>2 DEF Zeroed
    <2> QED
      BY <2>2, <2>3
  <1> QED
    BY <1>1, <1>2 DEF Clears

\* The loop clears the blocks from new on that the file has.
LEMMA ClearBlocksEffect ==
    ASSUME NEW s, Sound(s), NEW f \in Place, NEW new \in Nat, NEW old \in Nat, new <= old
    PROVE  Clears(s, ClearBlocks(s, f, new, old), f, {m \in FileBlock : new <= m /\ m < old})
  <1>0. PICK g \in [Nat -> SoundState] : Unfolds(s, f, new, g)
    BY ClearBlocksUnfold
  <1>1. /\ \A o \in Nat : ClearBlocks(s, f, new, o) = g[o - new]
        /\ g[0] = Return(s, "ok")
        /\ \A n \in Nat : g[n + 1] = IF g[n].r = "panic" THEN g[n]
                                    ELSE file_clear_block(g[n], f, new + n)
        /\ \A n \in Nat : Sound(g[n])
    <2>1. \A n \in Nat : g[n] \in SoundState
      BY <1>0
    <2> QED
      BY <1>0, <2>1 DEF Unfolds, SoundState
  <1> DEFINE L(k) == {m \in FileBlock : new <= m /\ m < new + k}
             T == {k \in Nat : Clears(s, g[k], f, L(k))}
  <1>2. 0 \in T
    <2>1. Return(s, "ok").r # "panic" /\ Sound(Return(s, "ok"))
          /\ SameTree(s, Return(s, "ok")) /\ SameSpace(s, Return(s, "ok"))
      BY ReturnEffect DEF Results, Sound, SameSpace
    <2>2. PICK t : t = Return(s, "ok")
      OBVIOUS
    <2>3. SameAt(s, t) /\ SameSizes(s, t)
      BY <2>1, <2>2, SameTreeSameAt
    <2>4. ASSUME NEW x \in BOOLEAN, Fit(s, x) PROVE Fit(t, x)
      <3>1. x => \A h \in Place, m \in FileBlock : At(s, h, m) # 0 => m <= t.inode[h].size \div BY2BLK
        BY <2>3, <2>4 DEF Fit, Covered, SameSizes
      <3> QED
        BY <2>1, <2>2, <2>3, <2>4, <3>1, SameKeepsFit DEF SameSpace
    <2>5. L(0) = {}
      <3>1. \A m \in FileBlock : m \in Int
        BY LayoutAssumption DEF FileBlock
      <3> QED
        BY <3>1
    <2>6. Zeroed(s, t, f, {})
      BY <2>3 DEF Zeroed, SameAt
    <2>7. Clears(s, t, f, {})
      BY <2>1, <2>2, <2>3, <2>4, <2>6 DEF Clears
    <2> QED
      BY <1>1, <2>2, <2>5, <2>7
  <1>3. ASSUME NEW k \in T PROVE k + 1 \in T
    <2>1. k \in Nat /\ Clears(s, g[k], f, L(k)) /\ Sound(g[k]) /\ new + k \in Nat
      BY <1>1, <1>3
    <2>2. \A m \in FileBlock : m \in Int
      BY LayoutAssumption DEF FileBlock
    <2>3. L(k) \union ({new + k} \intersect FileBlock) = L(k + 1)
      BY <2>1, <2>2
    <2> HIDE DEF L
    <2>4. CASE g[k].r = "panic"
      <3>1. g[k + 1] = g[k]
        BY <1>1, <2>1, <2>4
      <3>2. Clears(s, g[k], f, L(k + 1))
        BY <2>1, <2>4 DEF Clears
      <3> QED
        BY <2>1, <3>1, <3>2
    <2>5. CASE g[k].r # "panic"
      <3>1. PICK n \in Nat : n = new + k
        BY <2>1
      <3>2. g[k + 1] = file_clear_block(g[k], f, n)
        BY <1>1, <2>1, <2>5, <3>1
      <3>3. Clears(g[k], g[k + 1], f, {n} \intersect FileBlock)
        BY <2>1, <3>2, ClearEffect
      <3>4. Clears(s, g[k + 1], f, L(k + 1))
        BY <2>1, <2>3, <3>1, <3>3, ClearsTwice
      <3> QED
        BY <2>1, <3>4
    <2> QED
      BY <2>4, <2>5
  <1>4. T = Nat
    <2> HIDE DEF T
    <2>1. T \in SUBSET Nat
      BY DEF T
    <2> QED
      BY <1>2, <1>3, <2>1, AllNaturals
  <1>5. old - new \in Nat /\ new + (old - new) = old
    OBVIOUS
  <1>6. Clears(s, g[old - new], f, L(old - new))
    BY <1>4, <1>5
  <1> QED
    BY <1>1, <1>5, <1>6

-----------------------------------------------------------------------------
(* Resizing a file.                                                        *)

\* The size of a file is written.
LEMMA SizeEffect ==
    ASSUME NEW s \in State, NEW f \in Place, NEW size \in Nat
    PROVE  LET t == [s EXCEPT !.inode[f].size = size] IN
           /\ t \in State /\ SameAt(s, t) /\ SameSpace(s, t) /\ t.r = s.r /\ t.b = s.b
           /\ t.mem = s.mem
           /\ \A g \in Place : t.inode[g].size = IF g = f THEN size ELSE s.inode[g].size
           /\ \A g \in Place : /\ t.inode[g].indirect = s.inode[g].indirect
                               /\ t.inode[g].name = s.inode[g].name
           /\ \A g \in Place : g # f => t.inode[g] = s.inode[g]
  <1> DEFINE t == [s EXCEPT !.inode[f].size = size]
  <1>1. s.inode[f] \in File /\ s.inode \in [Place -> File]
    BY FileTyped, StateFields
  <1>2. PICK e \in File : e = [s.inode[f] EXCEPT !.size = size]
    BY <1>1 DEF File
  <1>3. PICK d \in [Place -> File] : d = [s.inode EXCEPT ![f] = e]
    BY <1>1
  <1>4. t = [s EXCEPT !.inode = d]
    BY <1>2, <1>3
  <1> HIDE DEF t
  <1>5. t \in State /\ t.inode = d /\ t.mem = s.mem /\ SameSpace(s, t) /\ t.r = s.r /\ t.b = s.b
    BY <1>4 DEF State, SameSpace
  <1>6. /\ e.size = size /\ e.name = s.inode[f].name
        /\ e.direct = s.inode[f].direct /\ e.indirect = s.inode[f].indirect
    BY <1>1, <1>2 DEF File
  <1>7. t.inode[f] = e /\ \A g \in Place : g # f => t.inode[g] = s.inode[g]
    BY <1>1, <1>3, <1>5
  <1>8. \A g \in Place : /\ t.inode[g].direct = s.inode[g].direct
                        /\ t.inode[g].indirect = s.inode[g].indirect
                        /\ t.inode[g].name = s.inode[g].name
    BY <1>6, <1>7
  <1>9. SameAt(s, t)
    <2> SUFFICES ASSUME NEW g \in Place, NEW m \in Slot PROVE At(t, g, m) = At(s, g, m)
      BY DEF SameAt
    <2>1. /\ t.inode[g].direct = s.inode[g].direct /\ t.inode[g].indirect = s.inode[g].indirect
          /\ t.mem = s.mem
      BY <1>5, <1>8
    <2> QED
      BY <2>1 DEF At, Pointer
  <1> QED
    BY <1>5, <1>6, <1>7, <1>8, <1>9 DEF t

\* The indirect block is given back.
LEMMA FreeIndirectEffect ==
    ASSUME NEW c \in State, NEW f \in Place
    PROVE  LET t == FreeIndirect(c, f) IN
           /\ t \in State /\ SameSizes(c, t) /\ t.onDisk = c.onDisk /\ t.r = c.r
           /\ t.free = c.free \union ({c.inode[f].indirect} \ {0})
           /\ Zeroed(c, t, f, {NINDIRECT} \union Indirect)
  <1> DEFINE t == FreeIndirect(c, f)
             i == c.inode[f].indirect
             a == free_block(c, i)
  <1>1. i \in Block /\ i \in 0 .. NBLOCK
    BY FileTyped, BlockFacts
  <1>2. /\ a \in State /\ SameTree(c, a) /\ a.onDisk = c.onDisk /\ a.r = c.r
        /\ a.free = c.free \union ({i} \intersect (Block \ {0}))
    BY <1>1, FreeEffect
  <1>3. t = [a EXCEPT !.inode[f].indirect = 0]
    BY DEF FreeIndirect
  <1> HIDE DEF a, t
  <1>4. c.inode[f] \in File /\ c.inode \in [Place -> File]
    BY FileTyped, StateFields
  <1>5. PICK e \in File : e = [c.inode[f] EXCEPT !.indirect = 0]
    BY <1>4, BlockFacts DEF File
  <1>6. PICK d \in [Place -> File] : d = [c.inode EXCEPT ![f] = e]
    BY <1>4
  <1>7. t = [a EXCEPT !.inode = d]
    BY <1>2, <1>3, <1>5, <1>6 DEF SameTree
  <1>8. /\ t \in State /\ t.inode = d /\ t.mem = c.mem /\ t.free = a.free /\ t.onDisk = a.onDisk
        /\ t.r = a.r
    BY <1>2, <1>7 DEF State, SameTree
  <1>9. /\ e.size = c.inode[f].size /\ e.direct = c.inode[f].direct /\ e.indirect = 0
    BY <1>4, <1>5 DEF File
  <1>10. t.inode[f] = e /\ \A g \in Place : g # f => t.inode[g] = c.inode[g]
    BY <1>4, <1>6, <1>8
  <1>11. ASSUME NEW g \in Place, NEW m \in Slot
         PROVE  At(t, g, m) = IF g = f /\ m \in {NINDIRECT} \union Indirect THEN 0 ELSE At(c, g, m)
    <2>1. m = NINDIRECT \/ m < NDIRECT \/ m \in Indirect
      BY LayoutAssumption DEF Slot, Indirect
    <2>2. NINDIRECT \notin Indirect /\ ~(NINDIRECT < NDIRECT) /\ (m < NDIRECT => m \notin Indirect)
          /\ (m \in Indirect => ~(m < NDIRECT))
      BY LayoutAssumption DEF Slot, Indirect
    <2>3. CASE g # f
      BY <1>8, <1>10, <2>3 DEF At, Pointer
    <2>4. CASE g = f
      BY <1>9, <1>10, <2>1, <2>2, <2>4 DEF At, Pointer
    <2> QED
      BY <2>3, <2>4
  <1>12. Zeroed(c, t, f, {NINDIRECT} \union Indirect)
    BY <1>11 DEF Zeroed
  <1>13. SameSizes(c, t)
    BY <1>9, <1>10 DEF SameSizes
  <1> QED
    BY <1>1, <1>2, <1>8, <1>12, <1>13 DEF t

\* Sizes and blocks.
LEMMA BlocksBelow ==
    ASSUME NEW m \in Nat, NEW n \in Nat, m <= n
    PROVE  m \div BY2BLK <= n \div BY2BLK /\ m \div BY2BLK \in Nat
  BY LayoutAssumption

\* The pointers of other files than the one at f stay.
Apart(s, t, f) == \A g \in Place \ {f}, m \in Slot : At(t, g, m) = At(s, g, m)

\* file_truncate leaves no block beyond the new size.
LEMMA TruncateEffect ==
    ASSUME NEW s, Sound(s), NEW f \in Place, NEW newsize \in Nat, newsize <= s.inode[f].size
    PROVE  LET t == file_truncate(s, f, newsize) IN
           /\ Sound(t)
           /\ \A x \in BOOLEAN : Fit(s, x) => /\ Fit(t, x) /\ Apart(s, t, f)
                                            /\ t.r = "ok" /\ t.inode[f].size = newsize
  <1> DEFINE t == file_truncate(s, f, newsize)
             new == IF newsize = 0 THEN 0 ELSE newsize \div BY2BLK + 1
             old == OldBlocks(s, f)
             c == ClearBlocks(s, f, new, old)
             L == {m \in FileBlock : new <= m /\ m < old}
             d == IF new <= NDIRECT THEN FreeIndirect(c, f) ELSE c
             e == [d EXCEPT !.inode[f].size = newsize]
             z == Return(e, "ok")
  <1>1. s.inode[f].size \in Nat
    BY FileTyped DEF Sound
  <1>2. new \in Nat /\ old \in Nat /\ new <= old /\ old = s.inode[f].size \div BY2BLK + 1
    BY <1>1, BlocksBelow DEF OldBlocks
  <1>3. t = IF c.r = "panic" THEN c ELSE z
    BY DEF file_truncate, Shortened, Return
  <1>4. \A m \in Nat : m < new => m <= newsize \div BY2BLK
    BY BlocksBelow, LayoutAssumption
  <1> HIDE DEF t, new, old
  <1>5. Clears(s, c, f, L)
    BY <1>2, ClearBlocksEffect
  <1> HIDE DEF c, d
  <1>6. c \in State /\ c.onDisk \subseteq c.free /\ SameSizes(s, c)
    BY <1>5 DEF Clears, Sound
  <1>7. /\ d \in State /\ d.onDisk \subseteq d.free /\ SameSizes(s, d)
        /\ new <= NDIRECT => Zeroed(c, d, f, {NINDIRECT} \union Indirect)
                             /\ d.free = c.free \union ({c.inode[f].indirect} \ {0})
        /\ ~(new <= NDIRECT) => d = c
    BY <1>6, FreeIndirectEffect DEF d, SameSizes
  <1>8. /\ e \in State /\ SameAt(d, e) /\ SameSpace(d, e)
        /\ \A g \in Place : e.inode[g].size = IF g = f THEN newsize ELSE d.inode[g].size
    BY <1>7, SizeEffect
  <1> HIDE DEF e
  <1>9. z \in State /\ z.r = "ok" /\ SameTree(e, z) /\ SameSpace(e, z)
    BY <1>8, ReturnEffect DEF Results
  <1> HIDE DEF z
  <1>10. Sound(z) /\ z.free = d.free
    BY <1>7, <1>8, <1>9 DEF Sound, SameSpace
  <1>11. ASSUME NEW x \in BOOLEAN, Fit(s, x) PROVE Fit(z, x) /\ Apart(s, z, f)
    <2>1. Fit(c, x) /\ Zeroed(s, c, f, L)
      BY <1>5, <1>11 DEF Clears
    \* With no block beyond the size, the loop left none from new on.
    <2>2. ASSUME x, NEW m \in FileBlock, ~(m < new) PROVE At(c, f, m) = 0
      <3>1. m \in Slot /\ m \in Int
        BY LayoutAssumption DEF FileBlock, Slot
      <3>2. CASE m \in L
        BY <2>1, <3>1, <3>2 DEF Zeroed
      <3>3. CASE m \notin L
        <4>1. At(c, f, m) = At(s, f, m)
          BY <2>1, <3>1, <3>3 DEF Zeroed
        <4>2. ~(m <= s.inode[f].size \div BY2BLK)
          BY <1>2, <2>2, <3>1, <3>3, <1>1, BlocksBelow
        <4> QED
          BY <1>11, <2>2, <4>1, <4>2 DEF Fit, Covered
      <3> QED
        BY <3>2, <3>3
    <2>3. Fit(d, x)
      <3>1. CASE ~(new <= NDIRECT)
        BY <1>7, <2>1, <3>1
      <3>2. CASE new <= NDIRECT
        <4>1. At(c, f, NINDIRECT) = c.inode[f].indirect /\ NINDIRECT \in Slot
          BY LayoutAssumption DEF At, Slot
        <4>2. Cleared(c, d, f, {NINDIRECT} \union Indirect, NINDIRECT)
          BY <1>7, <3>2, <4>1 DEF Cleared, Zeroed
        <4>3. SameSizes(c, d)
          BY <1>6, <1>7 DEF SameSizes
        <4>4. ASSUME x, NEW m \in Slot, m \in Indirect PROVE At(c, f, m) = 0
          <5>1. m \in FileBlock /\ ~(m < new)
            BY <1>2, <3>2, <4>4, LayoutAssumption DEF Indirect, FileBlock
          <5> QED
            BY <2>2, <4>4, <5>1
        <4>5. x => \A m \in Slot : m \in {NINDIRECT} \union Indirect /\ m # NINDIRECT => At(c, f, m) = 0
          BY <4>4
        <4>6. NINDIRECT \in {NINDIRECT} \union Indirect /\ Sound(d)
          BY <1>7 DEF Sound
        <4> HIDE DEF L
        <4> QED
          BY <2>1, <4>1, <4>2, <4>3, <4>5, <4>6, ClearedKeepsFit
      <3> QED
        BY <3>1, <3>2
    <2>4. SameAt(d, z) /\ \A g \in Place : z.inode[g].size = IF g = f THEN newsize ELSE d.inode[g].size
      BY <1>8, <1>9, SameTreeSameAt DEF SameAt, SameTree
    <2>5. ASSUME x, NEW g \in Place, NEW m \in FileBlock, At(d, g, m) # 0
          PROVE  m <= z.inode[g].size \div BY2BLK
      <3>1. CASE g # f
        BY <2>3, <2>4, <2>5, <3>1 DEF Fit, Covered
      <3>2. CASE g = f
        <4>1. m \in Slot /\ m \in Nat
          BY LayoutAssumption DEF FileBlock, Slot
        <4>2. At(c, f, m) # 0
          BY <1>7, <2>5, <3>2, <4>1 DEF Zeroed
        <4>3. m < new
          BY <2>2, <2>5, <4>2
        <4> QED
          BY <1>4, <2>4, <3>2, <4>1, <4>3
      <3> QED
        BY <3>1, <3>2
    <2>6. Apart(s, c, f) /\ Apart(c, d, f)
      BY <1>7, <2>1 DEF Zeroed, Apart
    <2>7. Apart(s, z, f)
      BY <2>4, <2>6 DEF SameAt, Apart
    <2> QED
      BY <1>10, <2>3, <2>4, <2>5, <2>7, SameKeepsFit
  <1>12. z.inode[f].size = newsize
    BY <1>8, <1>9 DEF SameTree
  <1>13. ASSUME NEW x \in BOOLEAN, Fit(s, x) PROVE c.r # "panic"
    BY <1>5, <1>13 DEF Clears
  <1>14. Sound(c)
    BY <1>5 DEF Clears
  <1> QED
    BY <1>3, <1>9, <1>10, <1>11, <1>12, <1>13, <1>14 DEF t

\* file_set_size.
LEMMA SetSizeEffect ==
    ASSUME NEW s, Sound(s), NEW f \in Place, NEW newsize \in Nat
    PROVE  LET t == file_set_size(s, f, newsize) IN
           /\ Sound(t)
           /\ \A x \in BOOLEAN : Fit(s, x) => Fit(t, x) /\ Apart(s, t, f) /\ t.r # "panic"
  <1> DEFINE a == IF s.inode[f].size > newsize THEN file_truncate(s, f, newsize) ELSE Return(s, "ok")
             t == [a EXCEPT !.inode[f].size = newsize]
  <1>1. file_set_size(s, f, newsize) = t
    BY DEF file_set_size
  <1>2. s \in State /\ s.inode[f].size \in Nat
    BY FileTyped DEF Sound
  <1>3. /\ Sound(a)
        /\ \A x \in BOOLEAN : Fit(s, x) => /\ Fit(a, x) /\ Apart(s, a, f)
                                         /\ a.r = "ok" /\ a.inode[f].size <= newsize
    <2>1. CASE s.inode[f].size > newsize
      <3>1. a = file_truncate(s, f, newsize) /\ newsize <= s.inode[f].size
        BY <1>2, <2>1
      <3> HIDE DEF a
      <3> QED
        BY <3>1, TruncateEffect
    <2>2. CASE ~(s.inode[f].size > newsize)
      <3>1. a = Return(s, "ok")
        BY <2>2
      <3> HIDE DEF a
      <3>2. a \in State /\ a.r = "ok" /\ SameTree(s, a) /\ SameSpace(s, a)
        BY <1>2, <3>1, ReturnEffect DEF Results
      <3>3. Sound(a) /\ SameAt(s, a) /\ SameSizes(s, a) /\ a.free = s.free
        BY <3>2, SameTreeSameAt DEF Sound, SameSpace
      <3>4. ASSUME NEW x \in BOOLEAN, Fit(s, x) PROVE Fit(a, x)
        <4>1. x => \A h \in Place, m \in FileBlock : At(s, h, m) # 0 => m <= a.inode[h].size \div BY2BLK
          BY <3>3, <3>4 DEF Fit, Covered, SameSizes
        <4> QED
          BY <3>3, <3>4, <4>1, SameKeepsFit
      <3>5. a.inode[f].size <= newsize
        BY <1>2, <2>2, <3>3 DEF SameSizes
      <3>6. Apart(s, a, f)
        BY <3>3 DEF SameAt, Apart
      <3> QED
        BY <3>2, <3>3, <3>4, <3>5, <3>6
    <2> QED
      BY <2>1, <2>2
  <1> HIDE DEF a
  <1>4. a \in State /\ a.inode[f].size \in Nat
    BY <1>3, FileTyped DEF Sound
  <1>5. /\ t \in State /\ SameAt(a, t) /\ SameSpace(a, t) /\ t.r = a.r
        /\ \A g \in Place : t.inode[g].size = IF g = f THEN newsize ELSE a.inode[g].size
    BY <1>4, SizeEffect
  <1> HIDE DEF t
  <1>6. Sound(t)
    BY <1>3, <1>5 DEF Sound, SameSpace
  <1>7. ASSUME NEW x \in BOOLEAN, Fit(s, x) PROVE Fit(t, x) /\ Apart(s, t, f) /\ t.r # "panic"
    <2>1. Fit(a, x) /\ Apart(s, a, f) /\ a.r = "ok" /\ a.inode[f].size <= newsize
      BY <1>3, <1>7
    <2>2. ASSUME x, NEW g \in Place, NEW m \in FileBlock, At(a, g, m) # 0
          PROVE  m <= t.inode[g].size \div BY2BLK
      <3>1. m <= a.inode[g].size \div BY2BLK
        BY <2>1, <2>2 DEF Fit, Covered
      <3>2. m \in Nat /\ a.inode[f].size \div BY2BLK <= newsize \div BY2BLK
        BY <1>4, <2>1, BlocksBelow, LayoutAssumption DEF FileBlock
      <3>3. CASE g = f
        <4>1. a.inode[f].size \div BY2BLK \in Nat /\ newsize \div BY2BLK \in Nat
          BY <1>4, BlocksBelow
        <4> QED
          BY <1>5, <3>1, <3>2, <3>3, <4>1
      <3>4. CASE g # f
        BY <1>5, <3>1, <3>4
      <3> QED
        BY <3>3, <3>4
    <2>3. Apart(s, t, f)
      BY <1>5, <2>1 DEF SameAt, Apart
    <2> QED
      BY <1>5, <1>6, <2>1, <2>2, <2>3, SameKeepsFit DEF SameSpace
  <1> QED
    BY <1>1, <1>6, <1>7

-----------------------------------------------------------------------------
(* Looking for a place in a directory.                                     *)

\* The file at f keeps its indirect block, and without one nobody writes words.
Tied(s, t, f) ==
    /\ s.inode[f].indirect # 0 => t.inode[f].indirect = s.inode[f].indirect
    /\ t.inode[f].indirect = 0 => t.mem = s.mem

\* One change after another.
LEMMA TiedTaint ==
    ASSUME NEW s, NEW w, NEW t, NEW f, Tied(s, w, f), Tied(w, t, f)
    PROVE  Tied(s, t, f) /\ (Taint(s, w, f) \/ Taint(w, t, f) => Taint(s, t, f))
  BY DEF Tied, Taint

\* The place p is in a block of the directory dir.
Holds(s, dir, p) == \E m \in Slot : At(s, dir, m) # 0 /\ At(s, dir, m) = p[1]

\* What a search of the directory dir leaves: l.s and the place it found in the
\* directory, if any, which is not the root's.
Leads(s, l, dir, x) ==
    /\ Fit(l.s, x) /\ Extends(s, l.s) /\ l.s.r # "panic"
    /\ ROOT \notin l.at /\ \A p \in l.at : Holds(l.s, dir, p)
Goes(s, l, dir) ==
    /\ Sound(l.s) /\ Tied(s, l.s, dir) /\ l.at \subseteq Place /\ (l.at # {} => Ok(l.s))
    /\ \A x \in BOOLEAN : Fit(s, x) => Taint(s, l.s, dir) \/ Leads(s, l, dir, x)

\* One search after another.
LEMMA GoesTwice ==
    ASSUME NEW s, NEW w, NEW l, NEW dir, Goes(s, w, dir), Goes(w.s, l, dir)
    PROVE  Goes(s, l, dir)
  <1>1. Tied(s, l.s, dir) /\ (Taint(s, w.s, dir) \/ Taint(w.s, l.s, dir) => Taint(s, l.s, dir))
    BY TiedTaint DEF Goes
  <1>2. ASSUME NEW x \in BOOLEAN, Fit(s, x) PROVE Taint(s, l.s, dir) \/ Leads(s, l, dir, x)
    <2>1. Leads(s, w, dir, x) /\ Leads(w.s, l, dir, x) => Leads(s, l, dir, x)
      BY ExtendsTwice DEF Leads
    <2>2. Leads(s, w, dir, x) => Fit(w.s, x)
      BY DEF Leads
    <2> QED
      BY <1>1, <1>2, <2>1, <2>2 DEF Goes
  <1> QED
    BY <1>1, <1>2 DEF Goes

\* One block of the directory.
LEMMA FoundEffect ==
    ASSUME NEW s, Sound(s), NEW dir \in Place, NEW n \in Nat, NEW memory,
           NEW l, l.s = file_get_block(s, dir, n, memory),
           ~Ok(l.s) => l.at = {},
           Ok(l.s) => l.at \subseteq PlacesOf(l.s.b)
    PROVE  /\ Sound(l.s) /\ Tied(s, l.s, dir) /\ SameSizes(s, l.s)
           /\ l.at \subseteq Place /\ (l.at # {} => Ok(l.s))
           /\ \A x \in BOOLEAN : Fit(s, x) /\ Allowed(s, dir, n, x) =>
                  Taint(s, l.s, dir) \/ Leads(s, l, dir, x)
  <1>1. PICK t : t = l.s
    OBVIOUS
  <1>2. /\ Keeps(s, t, dir, n) /\ (t.r = "ok" => t.b \in Block)
        /\ \A x \in BOOLEAN : Fit(s, x) /\ Allowed(s, dir, n, x) => Taint(s, t, dir) \/ Returns(t, dir, n)
    BY <1>1, GetEffect
  <1>3. Sound(t) /\ Tied(s, t, dir) /\ SameSizes(s, t)
    BY <1>2 DEF Keeps, Framed, Tied, SameSizes
  <1>4. l.at # {} => Ok(t)
    BY <1>1
  <1>5. l.at \subseteq Place
    BY <1>1, <1>2 DEF Ok, PlacesOf, Place
  <1>6. ASSUME NEW x \in BOOLEAN, Fit(s, x), Allowed(s, dir, n, x), ~Taint(s, t, dir)
        PROVE  Leads(s, l, dir, x)
    <2>1. Fit(t, x) /\ Extends(s, t) /\ t.r # "panic"
      BY <1>2, <1>6 DEF Keeps, Fits
    <2>2. ASSUME NEW p \in l.at PROVE p[1] = t.b /\ Returns(t, dir, n) /\ t.r = "ok"
      BY <1>1, <1>2, <1>4, <1>6, <2>2 DEF Ok, PlacesOf
    <2>3. ASSUME NEW p \in l.at PROVE Holds(t, dir, p) /\ p # ROOT
      <3>1. n \in Slot /\ At(t, dir, n) = p[1] /\ At(t, dir, n) # 0
        BY <2>2, LayoutAssumption DEF Returns, FileBlock, Slot
      <3>2. p[1] \notin Reserved
        BY <2>1, <3>1 DEF Fit, Taken
      <3>3. ROOT[1] \in Reserved
        BY DEF ROOT, Reserved
      <3> QED
        BY <3>1, <3>2, <3>3 DEF Holds
    <2> QED
      BY <1>1, <2>1, <2>3 DEF Leads
  <1> QED
    BY <1>1, <1>3, <1>4, <1>5, <1>6

\* The place that is found is in the block.
LEMMA FirstNamedPlace ==
    ASSUME NEW s, NEW b, NEW name
    PROVE  FirstNamed(s, b, name) \subseteq PlacesOf(b)
  <1> DEFINE found == {j \in 0 .. FILE2BLK - 1 : s.inode[<<b, j>>].name = name}
  <1>1. CASE found = {}
    BY <1>1 DEF FirstNamed
  <1>2. CASE found # {}
    <2>1. FirstNamed(s, b, name) = {<<b, Min(found)>>}
      BY <1>2 DEF FirstNamed
    <2>2. found \in SUBSET Nat /\ found \subseteq 0 .. FILE2BLK - 1
      BY LayoutAssumption
    <2> HIDE DEF found
    <2>3. Min(found) \in found
      BY <1>2, <2>2, LeastOfNaturals DEF Min
    <2> QED
      BY <2>1, <2>2, <2>3 DEF PlacesOf
  <1> QED
    BY <1>1, <1>2

\* A step of the loop.
Step(l, dir, name, memory, n) ==
    IF l.at # {} \/ ~Ok(l.s) THEN l ELSE Found(file_get_block(l.s, dir, n, memory), name)

\* A step that is taken.
LEMMA StepEffect ==
    ASSUME NEW l, Sound(l.s), NEW dir \in Place, NEW n \in Nat, NEW memory, NEW name,
           l.at = {}, Ok(l.s)
    PROVE  LET k == Step(l, dir, name, memory, n) IN
           /\ k = [s |-> k.s, at |-> k.at]
           /\ Sound(k.s) /\ Tied(l.s, k.s, dir) /\ SameSizes(l.s, k.s)
           /\ k.at \subseteq Place /\ (k.at # {} => Ok(k.s))
           /\ \A x \in BOOLEAN : Fit(l.s, x) /\ Allowed(l.s, dir, n, x) =>
                  Taint(l.s, k.s, dir) \/ Leads(l.s, k, dir, x)
  <1> DEFINE k == Step(l, dir, name, memory, n)
             g == file_get_block(l.s, dir, n, memory)
  <1>1. k = [s |-> g, at |-> IF Ok(g) THEN FirstNamed(g, g.b, name) ELSE {}]
    BY DEF Step, Found
  <1> HIDE DEF k, g
  <1>2. k.s = g /\ k.at = IF Ok(g) THEN FirstNamed(g, g.b, name) ELSE {}
    BY <1>1
  <1>3. k.s = file_get_block(l.s, dir, n, memory) /\ (~Ok(k.s) => k.at = {})
        /\ (Ok(k.s) => k.at \subseteq PlacesOf(k.s.b))
    BY <1>2, FirstNamedPlace DEF g
  <1>4. k = [s |-> k.s, at |-> k.at]
    BY <1>1, <1>2
  <1> QED
    BY <1>3, <1>4, FoundEffect DEF k

\* The loop of dir_lookup, one block at a time.
SearchState == [s : SoundState, at : SUBSET Place]
Looks(s, dir, name, memory, g) ==
    /\ \A n \in Nat : g[n] = IF n = 0 THEN [s |-> Return(s, "ok"), at |-> {}]
                             ELSE Step(g[n - 1], dir, name, memory, n - 1)
    /\ \A n \in Nat : BlocksOf(s, dir) = n => dir_lookup(s, dir, name, memory) = OrNotFound(g[n])

\* The function that dir_lookup defines exists and is defined by its steps.
LEMMA SearchUnfold ==
    ASSUME NEW s, Sound(s), NEW dir \in Place, NEW name, NEW memory
    PROVE  \E g \in [Nat -> SearchState] : Looks(s, dir, name, memory, g)
  <1> DEFINE start == [s |-> Return(s, "ok"), at |-> {}]
             F == [x \in SearchState \X Nat |->
                    IF x[2] = 0 THEN x[1] ELSE Step(x[1], dir, name, memory, x[2] - 1)]
             body(h, n) ==
                IF n = 0 THEN [s |-> Return(s, "ok"), at |-> {}]
                ELSE IF h[n - 1].at # {} \/ ~Ok(h[n - 1].s) THEN h[n - 1]
                ELSE Found(file_get_block(h[n - 1].s, dir, n - 1, memory), name)
             c == CHOOSE h : h = [n \in Nat |-> body(h, n)]
  <1>1. ASSUME NEW l \in SearchState, NEW n \in Nat PROVE Step(l, dir, name, memory, n) \in SearchState
    <2>1. Sound(l.s)
      BY DEF SearchState, SoundState
    <2>2. CASE l.at # {} \/ ~Ok(l.s)
      BY <2>2 DEF Step
    <2>3. CASE l.at = {} /\ Ok(l.s)
      <3>1. PICK k : k = Step(l, dir, name, memory, n)
        OBVIOUS
      <3>2. k = [s |-> k.s, at |-> k.at] /\ Sound(k.s) /\ k.at \subseteq Place
        BY <2>1, <2>3, <3>1, StepEffect
      <3>3. k.s \in SoundState
        BY <3>2 DEF Sound, SoundState
      <3> QED
        BY <3>1, <3>2, <3>3 DEF SearchState
    <2> QED
      BY <2>2, <2>3
  <1>2. F \in [SearchState \X Nat -> SearchState]
    <2>1. \A l \in SearchState, n \in Nat : n # 0 => n - 1 \in Nat
      OBVIOUS
    <2> QED
      BY <1>1, <2>1
  <1>3. start \in SearchState
    <2>1. Return(s, "ok") \in SoundState
      BY ReturnEffect DEF Results, Sound, SameSpace, SoundState
    <2> QED
      BY <2>1 DEF SearchState
  <1>4. PICK g \in [Nat -> SearchState] :
            \A n \in Nat : g[n] = IF n = 0 THEN start ELSE F[<<g[n - 1], n>>]
    <2>1. PICK b \in SearchState : b = start
      BY <1>3
    <2> HIDE DEF F, start, body, c
    <2>2. \E g \in [Nat -> SearchState] : Repeats(b, F, g)
      BY <1>2, Repeated
    <2> QED
      BY <2>1, <2>2 DEF Repeats
  <1>5. \A n \in Nat : g[n] = IF n = 0 THEN start ELSE Step(g[n - 1], dir, name, memory, n - 1)
    <2> TAKE n \in Nat
    <2>1. CASE n # 0
      <3>1. n - 1 \in Nat
        BY <2>1
      <3>2. g[n - 1] \in SearchState
        BY <3>1
      <3>3. F[<<g[n - 1], n>>] = Step(g[n - 1], dir, name, memory, n - 1)
        BY <2>1, <3>2
      <3> HIDE DEF F, start
      <3> QED
        BY <1>4, <2>1, <3>3
    <2> QED
      BY <1>4, <2>1
  <1>6. \A n \in Nat : g[n] = body(g, n)
    BY <1>5 DEF Step
  <1>7. c = [n \in Nat |-> body(c, n)]
    <2>1. g = [n \in Nat |-> body(g, n)]
      BY <1>6
    <2>2. \E h : h = [n \in Nat |-> body(h, n)]
      BY <2>1
    <2> QED
      BY <2>2
  <1>8. dir_lookup(s, dir, name, memory) = OrNotFound(c[BlocksOf(s, dir)])
    BY DEF dir_lookup
  <1> HIDE DEF c
  \* Both are defined by the same steps.
  <1>9. \A n \in Nat : c[n] = body(c, n)
    BY <1>7
  <1> DEFINE T == {n \in Nat : c[n] = g[n]}
  <1>10. 0 \in T
    BY <1>6, <1>9
  <1>11. ASSUME NEW n \in T PROVE n + 1 \in T
    <2>1. n \in Nat /\ n + 1 \in Nat /\ (n + 1) - 1 = n /\ n + 1 # 0 /\ c[n] = g[n]
      OBVIOUS
    <2>2. body(c, n + 1) = body(g, n + 1)
      BY <2>1
    <2> QED
      BY <1>6, <1>9, <2>1, <2>2
  <1>12. T = Nat
    <2> HIDE DEF T
    <2>1. T \in SUBSET Nat
      BY DEF T
    <2> QED
      BY <1>10, <1>11, <2>1, AllNaturals
  <1>13. \A n \in Nat : c[n] = g[n]
    BY <1>12
  <1>14. \A n \in Nat : BlocksOf(s, dir) = n => dir_lookup(s, dir, name, memory) = OrNotFound(g[n])
    BY <1>8, <1>13
  <1>15. Looks(s, dir, name, memory, g)
    BY <1>5, <1>14 DEF Looks
  <1> QED
    BY <1>15

\* A result changes nothing.
LEMMA NothingGoes ==
    ASSUME NEW s, Sound(s), NEW dir \in Place, NEW r \in Results, r # "panic"
    PROVE  LET t == Return(s, r) IN
           /\ Sound(t) /\ Tied(s, t, dir) /\ SameAt(s, t) /\ SameSizes(s, t) /\ t.r = r
           /\ \A x \in BOOLEAN : Fit(s, x) => Fit(t, x)
  <1> DEFINE t == Return(s, r)
  <1>1. t \in State /\ t.r = r /\ SameTree(s, t) /\ SameSpace(s, t)
    BY ReturnEffect DEF Sound
  <1> HIDE DEF t
  <1>2. Sound(t) /\ SameAt(s, t) /\ SameSizes(s, t) /\ Tied(s, t, dir)
    BY <1>1, SameTreeSameAt DEF Sound, SameSpace, SameTree, Tied
  <1>3. ASSUME NEW x \in BOOLEAN, Fit(s, x) PROVE Fit(t, x)
    <2>1. x => \A h \in Place, m \in FileBlock : At(s, h, m) # 0 => m <= t.inode[h].size \div BY2BLK
      BY <1>2, <1>3 DEF Fit, Covered, SameSizes
    <2> QED
      BY <1>1, <1>2, <1>3, <2>1, SameKeepsFit DEF SameSpace
  <1> QED
    BY <1>1, <1>2, <1>3 DEF t

\* The loop over the blocks of the directory.
LEMMA SearchEffect ==
    ASSUME NEW s, Sound(s), NEW dir \in Place, NEW name, NEW memory
    PROVE  LET l == dir_lookup(s, dir, name, memory) IN
           Goes(s, l, dir) /\ SameSizes(s, l.s) /\ (Ok(l.s) => l.at # {})
  <1> DEFINE top == BlocksOf(s, dir)
  <1>1. s.inode[dir].size \in Nat /\ top \in Nat /\ top = s.inode[dir].size \div BY2BLK
    <2>1. s.inode[dir].size \in Nat
      BY FileTyped DEF Sound
    <2>2. s.inode[dir].size \div BY2BLK \in Nat
      BY <2>1, BlocksBelow
    <2> QED
      BY <2>1, <2>2 DEF BlocksOf
  <1> HIDE DEF top
  <1>2. PICK g \in [Nat -> SearchState] : Looks(s, dir, name, memory, g)
    BY SearchUnfold
  <1>3. /\ \A n \in Nat : g[n] = IF n = 0 THEN [s |-> Return(s, "ok"), at |-> {}]
                                 ELSE Step(g[n - 1], dir, name, memory, n - 1)
        /\ dir_lookup(s, dir, name, memory) = OrNotFound(g[top])
    BY <1>1, <1>2 DEF Looks, top
  <1> DEFINE T == {n \in Nat : n <= top => Goes(s, g[n], dir) /\ SameSizes(s, g[n].s)}
  <1>4. 0 \in T
    <2>1. g[0] = [s |-> Return(s, "ok"), at |-> {}]
      BY <1>3
    <2>2. g[0].s = Return(s, "ok") /\ g[0].at = {}
      BY <2>1
    <2>3. Sound(g[0].s) /\ Tied(s, g[0].s, dir) /\ SameSizes(s, g[0].s) /\ g[0].s.r = "ok"
          /\ SameAt(s, g[0].s) /\ \A x \in BOOLEAN : Fit(s, x) => Fit(g[0].s, x)
      BY <2>2, NothingGoes DEF Results
    <2>4. Goes(s, g[0], dir)
      BY <2>2, <2>3, SameExtends DEF Goes, Leads
    <2> QED
      BY <2>3, <2>4
  <1>5. ASSUME NEW n \in T PROVE n + 1 \in T
    <2> SUFFICES ASSUME n + 1 <= top PROVE Goes(s, g[n + 1], dir) /\ SameSizes(s, g[n + 1].s)
      OBVIOUS
    <2>1. n \in Nat /\ Goes(s, g[n], dir) /\ SameSizes(s, g[n].s)
      BY <1>1
    <2>2. PICK l : l = g[n]
      OBVIOUS
    <2>3. PICK k : k = g[n + 1]
      OBVIOUS
    <2>4. k = Step(l, dir, name, memory, n)
      <3>1. n + 1 \in Nat /\ n + 1 # 0 /\ (n + 1) - 1 = n
        BY <2>1
      <3> QED
        BY <1>3, <2>2, <2>3, <3>1
    <2>5. CASE l.at # {} \/ ~Ok(l.s)
      BY <2>1, <2>2, <2>3, <2>4, <2>5 DEF Step
    <2>6. CASE l.at = {} /\ Ok(l.s)
      <3>1. Sound(l.s)
        BY <2>1, <2>2 DEF Goes
      <3>2. /\ Sound(k.s) /\ Tied(l.s, k.s, dir) /\ SameSizes(l.s, k.s)
            /\ k.at \subseteq Place /\ (k.at # {} => Ok(k.s))
            /\ \A x \in BOOLEAN : Fit(l.s, x) /\ Allowed(l.s, dir, n, x) =>
                   Taint(l.s, k.s, dir) \/ Leads(l.s, k, dir, x)
        BY <2>1, <2>4, <2>6, <3>1, StepEffect
      <3>3. \A x \in BOOLEAN : Allowed(l.s, dir, n, x)
        <4>1. l.s.inode[dir].size = s.inode[dir].size
          BY <2>1, <2>2 DEF SameSizes
        <4>2. n <= s.inode[dir].size \div BY2BLK
          BY <1>1, <2>1
        <4> QED
          BY <4>1, <4>2 DEF Allowed
      <3>4. Goes(l.s, k, dir)
        BY <3>2, <3>3 DEF Goes
      <3>5. Goes(s, k, dir)
        BY <2>1, <2>2, <3>4, GoesTwice
      <3>6. SameSizes(s, k.s)
        BY <2>1, <2>2, <3>2 DEF SameSizes
      <3> QED
        BY <2>3, <3>5, <3>6
    <2> QED
      BY <2>5, <2>6
  <1>6. T = Nat
    <2> HIDE DEF T
    <2>1. T \in SUBSET Nat
      BY DEF T
    <2> QED
      BY <1>4, <1>5, <2>1, AllNaturals
  <1>7. PICK l \in SearchState : l = g[top]
    BY <1>1
  <1>8. Goes(s, l, dir) /\ SameSizes(s, l.s)
    <2>1. top \in T /\ top <= top
      BY <1>1, <1>6
    <2> QED
      BY <1>7, <2>1
  <1> HIDE DEF T
  <1>9. dir_lookup(s, dir, name, memory) = OrNotFound(l)
    BY <1>3, <1>7
  <1>10. CASE Ok(l.s) /\ l.at = {}
    <2> DEFINE t == Return(l.s, "not_found")
    <2>1. l = [s |-> l.s, at |-> {}]
      BY <1>7, <1>10 DEF SearchState
    <2>2. OrNotFound(l) = [s |-> t, at |-> {}]
      <3>1. OrNotFound(l) = [l EXCEPT !.s.r = "not_found"]
        BY <1>10 DEF OrNotFound
      <3>2. PICK a : a = l.s
        OBVIOUS
      <3>3. PICK k : k = [s |-> a, at |-> {}]
        OBVIOUS
      <3>4. [k EXCEPT !.s.r = "not_found"] = [s |-> [a EXCEPT !.r = "not_found"], at |-> {}]
        BY <3>3
      <3>5. l = k
        BY <2>1, <3>2, <3>3
      <3> QED
        BY <3>1, <3>2, <3>4, <3>5 DEF Return
    <2>3. Sound(l.s)
      BY <1>8 DEF Goes
    <2>4. /\ Sound(t) /\ Tied(l.s, t, dir) /\ SameSizes(l.s, t) /\ t.r = "not_found"
          /\ SameAt(l.s, t) /\ \A x \in BOOLEAN : Fit(l.s, x) => Fit(t, x)
      BY <2>3, NothingGoes DEF Results
    <2> HIDE DEF t
    <2>5. PICK k : k = [s |-> t, at |-> {}]
      OBVIOUS
    <2>6. k.s = t /\ k.at = {} /\ dir_lookup(s, dir, name, memory) = k
      BY <1>9, <2>2, <2>5
    <2>7. Goes(l.s, k, dir)
      BY <2>4, <2>6, SameExtends DEF Goes, Leads
    <2>8. Goes(s, k, dir)
      BY <1>8, <2>7, GoesTwice
    <2>9. SameSizes(s, k.s) /\ ~Ok(k.s)
      BY <1>8, <2>4, <2>6 DEF SameSizes, Ok
    <2> QED
      BY <2>6, <2>8, <2>9
  <1>11. CASE ~(Ok(l.s) /\ l.at = {})
    <2>1. dir_lookup(s, dir, name, memory) = l
      BY <1>9, <1>11 DEF OrNotFound
    <2> QED
      BY <1>8, <1>11, <2>1
  <1> QED
    BY <1>10, <1>11

-----------------------------------------------------------------------------
(* Walking a path, and what the calls do at its end.                       *)

\* The root directory's struct File is in the super block.
LEMMA RootPlace == ROOT \in Place
  BY LayoutAssumption DEF ROOT, Place, Block

\* Results that change nothing, at the end of a walk.
LEMMA NothingFound ==
    ASSUME NEW s, Sound(s), NEW w, w.at = {}, NEW r \in Results, r # "panic", w.s = Return(s, r)
    PROVE  Goes(s, w, ROOT) /\ w.s.r = r
  <1>1. /\ Sound(w.s) /\ Tied(s, w.s, ROOT) /\ SameAt(s, w.s) /\ w.s.r = r
        /\ \A x \in BOOLEAN : Fit(s, x) => Fit(w.s, x)
    BY NothingGoes, RootPlace
  <1> QED
    BY <1>1, SameExtends DEF Goes, Leads

\* walk_path, of a path that does not lead to the root directory.
LEMMA WalkPathEffect ==
    ASSUME NEW s, Sound(s), NEW path, path # <<>>, NEW memory
    PROVE  LET w == walk_path(s, path, memory) IN
           Goes(s, w, ROOT) /\ (Ok(w.s) => w.at # {})
  <1> DEFINE t == dir_lookup(s, ROOT, ComponentName(path[1]), memory)
             w == walk_path(s, path, memory)
  <1>1. w = IF path[1] = LONG THEN [s |-> Return(s, "bad_path"), at |-> {}] ELSE Below(t, Tail(path))
    BY DEF walk_path
  <1>2. Goes(s, t, ROOT) /\ (Ok(t.s) => t.at # {})
    BY SearchEffect, RootPlace
  <1> HIDE DEF t, w
  <1>3. CASE path[1] = LONG
    <2>1. w.at = {} /\ w.s = Return(s, "bad_path")
      BY <1>1, <1>3
    <2>2. Goes(s, w, ROOT) /\ w.s.r = "bad_path"
      BY <2>1, NothingFound DEF Results
    <2> QED
      BY <2>2 DEF Ok, w
  <1>4. CASE path[1] # LONG /\ (Tail(path) = <<>> \/ ~Ok(t.s))
    <2>1. w.s = t.s /\ w.at = IF Tail(path) = <<>> THEN t.at ELSE {}
      BY <1>1, <1>4 DEF Below
    <2>2. Goes(s, w, ROOT)
      BY <1>2, <2>1 DEF Goes, Leads
    <2> QED
      BY <1>2, <1>4, <2>1, <2>2 DEF w
  <1>5. CASE path[1] # LONG /\ ~(Tail(path) = <<>> \/ ~Ok(t.s))
    <2>1. PICK r \in {"bad_path", "not_found"} :
              r = IF Tail(path)[1] = LONG THEN "bad_path" ELSE "not_found"
      OBVIOUS
    <2>2. w.at = {} /\ w.s = Return(t.s, r)
      BY <1>1, <1>5, <2>1 DEF Below
    <2>3. Sound(t.s) /\ r \in Results /\ r # "panic"
      BY <1>2, <2>1 DEF Goes, Results
    <2>4. Goes(t.s, w, ROOT) /\ w.s.r = r
      BY <2>2, <2>3, NothingFound
    <2>5. Goes(s, w, ROOT)
      BY <1>2, <2>4, GoesTwice
    <2> QED
      BY <2>1, <2>4, <2>5 DEF Ok, w
  <1> QED
    BY <1>3, <1>4, <1>5

\* A path that does.
LEMMA WalkToRoot ==
    ASSUME NEW s, Sound(s), NEW memory
    PROVE  LET w == walk_path(s, <<>>, memory) IN
           /\ Sound(w.s) /\ SameAt(s, w.s) /\ w.s.r = "ok" /\ w.at = {ROOT}
           /\ \A x \in BOOLEAN : Fit(s, x) => Fit(w.s, x)
  <1>1. walk_path(s, <<>>, memory) = [s |-> Return(s, "ok"), at |-> {ROOT}]
    BY DEF walk_path
  <1> QED
    BY <1>1, NothingGoes, RootPlace DEF Results

\* The root directory keeps its blocks.
RootKept(s, t) == \A m \in Slot : At(s, ROOT, m) # 0 => At(t, ROOT, m) = At(s, ROOT, m)

\* The names of files change.
LEMMA NamesEffect ==
    ASSUME NEW s, Sound(s), NEW d \in [Place -> File],
           \A g \in Place : /\ d[g].size = s.inode[g].size /\ d[g].direct = s.inode[g].direct
                            /\ d[g].indirect = s.inode[g].indirect
    PROVE  LET t == [s EXCEPT !.inode = d] IN
           /\ Sound(t) /\ SameAt(s, t) /\ t.r = s.r
           /\ \A x \in BOOLEAN : Fit(s, x) => Fit(t, x)
  <1> DEFINE t == [s EXCEPT !.inode = d]
  <1>1. t \in State /\ t.inode = d /\ t.mem = s.mem /\ SameSpace(s, t) /\ t.r = s.r
    BY DEF Sound, State, SameSpace
  <1> HIDE DEF t
  <1>2. Sound(t)
    BY <1>1 DEF Sound, SameSpace
  <1>3. SameAt(s, t) /\ SameSizes(s, t)
    BY <1>1 DEF SameAt, SameSizes, At, Pointer
  <1>4. ASSUME NEW x \in BOOLEAN, Fit(s, x) PROVE Fit(t, x)
    <2>1. x => \A h \in Place, m \in FileBlock : At(s, h, m) # 0 => m <= t.inode[h].size \div BY2BLK
      BY <1>3, <1>4 DEF Fit, Covered, SameSizes
    <2> QED
      BY <1>1, <1>2, <1>3, <1>4, <2>1, SameKeepsFit DEF SameSpace
  <1> QED
    BY <1>1, <1>2, <1>3, <1>4 DEF t

\* The end of file_remove: the file at f is truncated and its name cleared.
Emptied(s, f) == Then(file_truncate(s, f, 0), LAMBDA t : [t EXCEPT !.inode[f].name = ""])

LEMMA EmptiedEffect ==
    ASSUME NEW s, Sound(s), NEW f \in Place
    PROVE  LET t == Emptied(s, f) IN
           /\ Sound(t)
           /\ \A x \in BOOLEAN : Fit(s, x) =>
                  Fit(t, x) /\ t.r # "panic" /\ (f # ROOT => RootKept(s, t))
  <1> DEFINE a == file_truncate(s, f, 0)
             t == [a EXCEPT !.inode[f].name = ""]
  <1>1. Emptied(s, f) = IF Ok(a) THEN t ELSE a
    BY DEF Emptied, Then
  <1> HIDE DEF t
  <1>2. /\ Sound(a)
        /\ \A x \in BOOLEAN : Fit(s, x) => Fit(a, x) /\ Apart(s, a, f) /\ a.r = "ok"
    <2>1. 0 <= s.inode[f].size
      <3>1. s.inode[f].size \in Nat
        BY FileTyped DEF Sound
      <3> QED
        BY <3>1
    <2> QED
      BY <2>1, TruncateEffect
  <1> USE DEF t
  <1> HIDE DEF a
  <1>3. a.inode[f] \in File /\ a.inode \in [Place -> File]
    BY <1>2, FileTyped, StateFields DEF Sound
  <1>4. PICK e \in File : e = [a.inode[f] EXCEPT !.name = ""]
    BY <1>3 DEF File
  <1>5. PICK d \in [Place -> File] : d = [a.inode EXCEPT ![f] = e]
    BY <1>3
  <1>6. e.size = a.inode[f].size /\ e.direct = a.inode[f].direct /\ e.indirect = a.inode[f].indirect
    BY <1>3, <1>4 DEF File
  <1>7. \A g \in Place : /\ d[g].size = a.inode[g].size /\ d[g].direct = a.inode[g].direct
                         /\ d[g].indirect = a.inode[g].indirect
    BY <1>3, <1>5, <1>6
  <1>8. t = [a EXCEPT !.inode = d]
    BY <1>4, <1>5
  <1> HIDE DEF t
  <1>9. Sound(t) /\ SameAt(a, t) /\ t.r = a.r /\ \A x \in BOOLEAN : Fit(a, x) => Fit(t, x)
    BY <1>2, <1>7, <1>8, NamesEffect
  <1>10. ASSUME NEW x \in BOOLEAN, Fit(s, x)
         PROVE  Fit(t, x) /\ t.r # "panic" /\ Ok(a) /\ (f # ROOT => RootKept(s, t))
    <2>1. Fit(a, x) /\ Apart(s, a, f) /\ a.r = "ok"
      BY <1>2, <1>10
    <2>2. f # ROOT => RootKept(s, t)
      BY <1>9, <2>1, RootPlace DEF Apart, SameAt, RootKept
    <2> QED
      BY <1>9, <2>1, <2>2 DEF Ok
  <1> QED
    BY <1>1, <1>2, <1>9, <1>10

\* It is what file_remove does to the file it finds.
LEMMA RemovedEmpties ==
    ASSUME NEW w, Ok(w.s), NEW f, f = CHOOSE at \in w.at : TRUE
    PROVE  Removed(w) = Emptied(w.s, f)
  BY DEF Removed, Emptied

\* file_remove: the stale block, if any, is one of the walk's.
LEMMA RemovedEffect ==
    ASSUME NEW s, NEW w, Goes(s, w, ROOT), Ok(w.s) => w.at # {}
    PROVE  LET t == Removed(w) IN
           /\ Sound(t)
           /\ \A x \in BOOLEAN : Fit(s, x) =>
                  \/ Taint(s, w.s, ROOT)
                  \/ Fit(t, x) /\ t.r # "panic" /\ RootKept(s, t)
  <1> DEFINE t == Removed(w)
  <1>1. CASE ~Ok(w.s)
    <2>1. t = w.s
      BY <1>1 DEF Removed
    <2> HIDE DEF t
    <2>2. Sound(t)
      BY <2>1 DEF Goes
    <2>3. ASSUME NEW x \in BOOLEAN, Fit(s, x), ~Taint(s, w.s, ROOT)
          PROVE  Fit(t, x) /\ t.r # "panic" /\ RootKept(s, t)
      BY <2>1, <2>3, RootPlace DEF Goes, Leads, Extends, RootKept
    <2> QED
      BY <2>2, <2>3 DEF t
  <1>2. CASE Ok(w.s)
    <2>1. PICK f \in w.at : f = CHOOSE at \in w.at : TRUE
      BY <1>2
    <2>2. f \in Place /\ Sound(w.s)
      BY DEF Goes
    <2>3. /\ Sound(t)
          /\ \A x \in BOOLEAN : Fit(w.s, x) =>
                 Fit(t, x) /\ t.r # "panic" /\ (f # ROOT => RootKept(w.s, t))
      <3>1. t = Emptied(w.s, f)
        BY <1>2, <2>1, RemovedEmpties
      <3> QED
        BY <2>2, <3>1, EmptiedEffect
    <2> HIDE DEF t
    <2>4. ASSUME NEW x \in BOOLEAN, Fit(s, x), ~Taint(s, w.s, ROOT)
          PROVE  Fit(t, x) /\ t.r # "panic" /\ RootKept(s, t)
      <3>1. Leads(s, w, ROOT, x)
        BY <2>4 DEF Goes
      <3>2. f # ROOT /\ Fit(w.s, x) /\ RootKept(s, w.s)
        BY <3>1, RootPlace DEF Leads, Extends, RootKept
      <3>3. Fit(t, x) /\ t.r # "panic" /\ RootKept(w.s, t)
        BY <2>3, <3>2
      <3>4. RootKept(s, t)
        BY <3>2, <3>3 DEF RootKept
      <3> QED
        BY <3>3, <3>4
    <2> QED
      BY <2>3, <2>4 DEF t
  <1> QED
    BY <1>1, <1>2

-----------------------------------------------------------------------------
(* The inductive invariant.                                                *)

\* The struct File of an open file is in a block of the root directory, or is
\* the root directory's own.
Housed(s, O) == \A p \in O : p # ROOT => Holds(s, ROOT, p)

\* The types, the copy of the bitmap and, as long as the model follows what the
\* server makes of its blocks, files whose blocks fit the bitmap, a server that
\* has not panicked, and open files that the directory houses.
IInv ==
    /\ TypeOK
    /\ fs.onDisk \subseteq fs.free
    /\ Followed => Fit(fs, ~beyond) /\ server # "panic" /\ Housed(fs, opened)

\* The types and the bitmaps, together.
LEMMA StateSound ==
    ASSUME TypeOK, fs.onDisk \subseteq fs.free
    PROVE  Sound(fs)
  BY DEF TypeOK, Sound

\* Open files stay housed as long as the directory keeps its blocks.
LEMMA HousedStays ==
    ASSUME NEW s, NEW t, NEW O, Housed(s, O), RootKept(s, t)
    PROVE  Housed(t, O)
  BY DEF Housed, Holds, RootKept

LEMMA KeptIfSame ==
    ASSUME NEW s, NEW t, SameAt(s, t) \/ Extends(s, t)
    PROVE  RootKept(s, t)
  BY RootPlace DEF SameAt, Extends, RootKept

\* The result of a call is forgotten.
LEMMA AfterEffect ==
    ASSUME NEW s, Sound(s)
    PROVE  LET t == After(s) IN
           /\ t \in State /\ t.onDisk \subseteq t.free /\ SameAt(s, t)
           /\ \A x \in BOOLEAN : Fit(s, x) => Fit(t, x)
  <1> DEFINE t == After(s)
  <1>1. t = [s EXCEPT !.r = "ok", !.b = 0]
    BY DEF After
  <1> HIDE DEF t
  <1>2. 0 \in 0 .. NBLOCK
    BY LayoutAssumption
  <1>3. t \in State /\ SameTree(s, t) /\ SameSpace(s, t)
    BY <1>1, <1>2 DEF Sound, State, SameTree, SameSpace
  <1>4. Sound(t) /\ SameAt(s, t) /\ SameSizes(s, t)
    BY <1>3, SameTreeSameAt DEF Sound, SameSpace
  <1>5. ASSUME NEW x \in BOOLEAN, Fit(s, x) PROVE Fit(t, x)
    <2>1. x => \A h \in Place, m \in FileBlock : At(s, h, m) # 0 => m <= t.inode[h].size \div BY2BLK
      BY <1>4, <1>5 DEF Fit, Covered, SameSizes
    <2> QED
      BY <1>3, <1>4, <1>5, <2>1, SameKeepsFit DEF SameSpace
  <1> QED
    BY <1>4, <1>5 DEF Sound, t

\* A stale indirect block is one that the model's history tells of.
LEMMA TaintStale ==
    ASSUME NEW t, NEW f \in Place, Taint(fs, t, f)
    PROVE  BecameStale(t)
  BY DEF Taint, BecameStale

\* A client that maps more than its file's size says less about the blocks.
LEMMA FitWeaker ==
    ASSUME NEW s, NEW x \in BOOLEAN, NEW y \in BOOLEAN, y => x, Fit(s, x)
    PROVE  Fit(s, y)
  BY DEF Fit

\* What a call has to leave for the invariant to hold.
LEMMA CallKeeps ==
    ASSUME NEW s, Sound(s), fs' = After(s), opened' \subseteq Place,
           server' \in {"serving", "hung", "panic"},
           beyond' \in BOOLEAN, stale' \in BOOLEAN, rewritten' \in BOOLEAN,
           ~stale' /\ ~rewritten' =>
               Fit(s, ~beyond') /\ server' # "panic" /\ Housed(s, opened')
    PROVE  IInv'
  <1>1. /\ After(s) \in State /\ After(s).onDisk \subseteq After(s).free /\ SameAt(s, After(s))
        /\ \A x \in BOOLEAN : Fit(s, x) => Fit(After(s), x)
    BY AfterEffect
  <1>2. TypeOK' /\ fs'.onDisk \subseteq fs'.free
    BY <1>1 DEF TypeOK
  <1>3. ASSUME ~stale', ~rewritten' PROVE Fit(fs', ~beyond') /\ Housed(fs', opened')
    <2>1. (~beyond') \in BOOLEAN
      OBVIOUS
    <2>2. Fit(fs', ~beyond')
      BY <1>1, <1>3, <2>1
    <2>3. PICK t : t = After(s)
      OBVIOUS
    <2>4. PICK O : O = opened'
      OBVIOUS
    <2>5. Housed(t, O)
      BY <1>1, <1>3, <2>3, <2>4, HousedStays, KeptIfSame
    <2> QED
      BY <2>2, <2>3, <2>4, <2>5
  <1> QED
    BY <1>2, <1>3 DEF IInv, Followed

\* file_open.
LEMMA OpenKeeps == ASSUME IInv, file_open PROVE IInv'
  <1>1. PICK path \in Paths, memory \in Memory : \E w \in {walk_path(fs, path, memory)} :
            /\ fs' = After(w.s)
            /\ opened' = opened \union w.at
            /\ server' = IF Ok(w.s) THEN "serving" ELSE IF w.s.r = "panic" THEN "panic" ELSE "hung"
            /\ stale' = (stale \/ BecameStale(w.s))
            /\ UNCHANGED <<beyond, rewritten>>
    BY DEF file_open
  <1>2. PICK w : w = walk_path(fs, path, memory)
    OBVIOUS
  <1>3. Sound(fs)
    BY StateSound DEF IInv
  <1>4. /\ fs' = After(w.s) /\ opened' = opened \union w.at
        /\ beyond' = beyond /\ rewritten' = rewritten
        /\ server' = IF Ok(w.s) THEN "serving" ELSE IF w.s.r = "panic" THEN "panic" ELSE "hung"
        /\ stale' = (stale \/ BecameStale(w.s))
    BY <1>1, <1>2
  <1>5. /\ opened \subseteq Place /\ beyond \in BOOLEAN /\ stale \in BOOLEAN
        /\ rewritten \in BOOLEAN
    BY DEF IInv, TypeOK
  <1>6. server' \in {"serving", "hung", "panic"} /\ stale' \in BOOLEAN
    <2>1. server' \in {"serving", "hung", "panic"}
      BY <1>4
    <2>2. stale' \in BOOLEAN
      BY <1>4
    <2> QED
      BY <2>1, <2>2
  <1>7. ASSUME ~stale', ~rewritten'
        PROVE  Fit(fs, ~beyond) /\ Housed(fs, opened) /\ (~beyond) \in BOOLEAN
    BY <1>4, <1>5, <1>7 DEF IInv, Followed
  <1>8. CASE path = <<>>
    <2>1. /\ Sound(w.s) /\ SameAt(fs, w.s) /\ w.s.r = "ok" /\ w.at = {ROOT}
          /\ \A x \in BOOLEAN : Fit(fs, x) => Fit(w.s, x)
      BY <1>2, <1>3, <1>8, WalkToRoot
    <2>2. ASSUME ~stale', ~rewritten'
          PROVE  Fit(w.s, ~beyond') /\ server' # "panic" /\ Housed(w.s, opened')
      <3>1. Fit(fs, ~beyond) /\ Housed(fs, opened) /\ (~beyond) \in BOOLEAN
        BY <1>7, <2>2
      <3>2. Housed(w.s, opened)
        BY <2>1, <3>1, HousedStays, KeptIfSame
      <3>3. Housed(w.s, opened \union w.at)
        BY <2>1, <3>2 DEF Housed
      <3> QED
        BY <1>4, <2>1, <3>1, <3>3 DEF Ok
    <2>3. opened' \subseteq Place
      BY <1>4, <1>5, <2>1, RootPlace
    <2> QED
      BY <1>4, <1>5, <1>6, <2>1, <2>2, <2>3, CallKeeps
  <1>9. CASE path # <<>>
    <2>1. Goes(fs, w, ROOT)
      BY <1>2, <1>3, <1>9, WalkPathEffect
    <2>2. Sound(w.s) /\ w.at \subseteq Place
      BY <2>1 DEF Goes
    <2>3. ASSUME ~stale', ~rewritten'
          PROVE  Fit(w.s, ~beyond') /\ server' # "panic" /\ Housed(w.s, opened')
      <3>1. Fit(fs, ~beyond) /\ Housed(fs, opened) /\ (~beyond) \in BOOLEAN
        BY <1>7, <2>3
      <3>2. ~Taint(fs, w.s, ROOT)
        BY <1>4, <2>3, TaintStale, RootPlace
      <3>3. Leads(fs, w, ROOT, ~beyond)
        BY <2>1, <3>1, <3>2 DEF Goes
      <3>4. Fit(w.s, ~beyond) /\ Extends(fs, w.s) /\ w.s.r # "panic"
            /\ \A p \in w.at : Holds(w.s, ROOT, p)
        BY <3>3 DEF Leads
      <3>5. Housed(w.s, opened)
        BY <3>1, <3>4, HousedStays, KeptIfSame
      <3>6. Housed(w.s, opened \union w.at)
        BY <3>4, <3>5 DEF Housed
      <3> QED
        BY <1>4, <3>4, <3>6
    <2>4. opened' \subseteq Place
      BY <1>4, <1>5, <2>2
    <2> QED
      BY <1>4, <1>5, <1>6, <2>2, <2>3, <2>4, CallKeeps
  <1> QED
    BY <1>8, <1>9

\* serve_map and serve_dirty.
LEMMA GetBlockKeeps == ASSUME IInv, GetBlock PROVE IInv'
  <1>1. PICK f \in opened, n \in 0 .. NINDIRECT, memory \in Memory :
            \E t \in {file_get_block(fs, f, n, memory)} :
                /\ Serve(t)
                /\ stale' = (stale \/ BecameStale(t))
                /\ beyond' = (beyond \/ n > fs.inode[f].size \div BY2BLK)
                /\ UNCHANGED <<opened, rewritten>>
    BY DEF GetBlock
  <1>2. PICK t : t = file_get_block(fs, f, n, memory)
    OBVIOUS
  <1>3. /\ fs' = After(t) /\ server' = IF t.r = "panic" THEN "panic" ELSE "serving"
        /\ stale' = (stale \/ BecameStale(t)) /\ opened' = opened /\ rewritten' = rewritten
        /\ beyond' = (beyond \/ n > fs.inode[f].size \div BY2BLK)
    BY <1>1, <1>2 DEF Serve
  <1>4. /\ f \in Place /\ n \in Nat /\ fs.inode[f].size \in Nat
        /\ beyond \in BOOLEAN /\ stale \in BOOLEAN /\ rewritten \in BOOLEAN
        /\ opened \subseteq Place
    <2>1. /\ f \in Place /\ fs \in State /\ beyond \in BOOLEAN /\ stale \in BOOLEAN
          /\ rewritten \in BOOLEAN /\ opened \subseteq Place
      BY DEF IInv, TypeOK
    <2>2. fs.inode[f].size \in Nat
      BY <2>1, FileTyped
    <2> QED
      BY <2>1, <2>2
  <1>5. Keeps(fs, t, f, n)
    BY <1>2, <1>4, StateSound, GetEffect DEF IInv
  <1>6. beyond' \in BOOLEAN /\ (~beyond') \in BOOLEAN /\ (beyond => beyond')
    BY <1>3, <1>4
  <1>7. Allowed(fs, f, n, ~beyond')
    <2>1. PICK top \in Nat : top = fs.inode[f].size \div BY2BLK
      BY <1>4, BlocksBelow
    <2>2. ASSUME ~beyond' PROVE n <= top
      <3>1. ~(n > top)
        BY <1>3, <2>1, <2>2
      <3> QED
        BY <1>4, <3>1
    <2> QED
      BY <2>1, <2>2 DEF Allowed
  <1>8. ASSUME ~stale', ~rewritten'
        PROVE  Fit(t, ~beyond') /\ server' # "panic" /\ Housed(t, opened')
    <2>1. Fit(fs, ~beyond) /\ Housed(fs, opened)
      BY <1>3, <1>4, <1>8 DEF IInv, Followed
    <2>2. Fit(fs, ~beyond')
      <3>1. (~beyond) \in BOOLEAN /\ (~beyond') \in BOOLEAN /\ (~beyond' => ~beyond)
        BY <1>4, <1>6
      <3> QED
        BY <2>1, <3>1, FitWeaker
    <2>3. ~Taint(fs, t, f)
      BY <1>3, <1>4, <1>8, TaintStale
    <2>4. Fit(t, ~beyond') /\ Extends(fs, t) /\ t.r # "panic"
      BY <1>5, <1>6, <1>7, <2>2, <2>3 DEF Keeps, Fits
    <2>5. Housed(t, opened)
      BY <2>1, <2>4, HousedStays, KeptIfSame
    <2> QED
      BY <1>3, <2>4, <2>5
  <1>9. server' \in {"serving", "hung", "panic"} /\ stale' \in BOOLEAN
    <2>1. server' \in {"serving", "hung", "panic"}
      BY <1>3
    <2>2. stale' \in BOOLEAN
      BY <1>3
    <2> QED
      BY <2>1, <2>2
  <1>10. Sound(t)
    BY <1>5 DEF Keeps
  <1> QED
    BY <1>3, <1>4, <1>6, <1>8, <1>9, <1>10, CallKeeps

\* file_set_size.
LEMMA SetSizeKeeps == ASSUME IInv, SetSize PROVE IInv'
  <1>1. PICK f \in opened, size \in Sizes :
            /\ Serve(file_set_size(fs, f, size))
            /\ rewritten' = (rewritten \/ f = ROOT)
            /\ UNCHANGED <<opened, beyond, stale>>
    BY DEF SetSize
  <1>2. /\ f \in Place /\ size \in Nat /\ beyond \in BOOLEAN /\ stale \in BOOLEAN
        /\ rewritten \in BOOLEAN /\ opened \subseteq Place
    BY ClientAssumption DEF IInv, TypeOK
  <1>3. PICK t : t = file_set_size(fs, f, size)
    OBVIOUS
  <1>4. /\ Sound(t)
        /\ \A x \in BOOLEAN : Fit(fs, x) => Fit(t, x) /\ Apart(fs, t, f) /\ t.r # "panic"
    BY <1>2, <1>3, StateSound, SetSizeEffect DEF IInv
  <1>5. fs' = After(t) /\ server' = IF t.r = "panic" THEN "panic" ELSE "serving"
    BY <1>1, <1>3 DEF Serve
  <1>6. ASSUME ~stale', ~rewritten'
        PROVE  Fit(t, ~beyond') /\ server' # "panic" /\ Housed(t, opened')
    <2>1. ~rewritten /\ f # ROOT
      BY <1>1, <1>6
    <2>2. Fit(fs, ~beyond) /\ Housed(fs, opened) /\ (~beyond) \in BOOLEAN
      BY <1>1, <1>2, <1>6, <2>1 DEF IInv, Followed
    <2>3. Fit(t, ~beyond) /\ Apart(fs, t, f) /\ t.r # "panic"
      BY <1>4, <2>2
    <2>4. RootKept(fs, t)
      BY <2>1, <2>3, RootPlace DEF Apart, RootKept
    <2>5. Housed(t, opened)
      BY <2>2, <2>4, HousedStays
    <2> QED
      BY <1>1, <1>5, <2>3, <2>5
  <1>7. server' \in {"serving", "hung", "panic"} /\ rewritten' \in BOOLEAN
    <2>1. server' \in {"serving", "hung", "panic"}
      BY <1>5
    <2>2. rewritten' \in BOOLEAN
      BY <1>1
    <2> QED
      BY <2>1, <2>2
  <1> QED
    BY <1>1, <1>2, <1>4, <1>5, <1>6, <1>7, CallKeeps

\* file_remove.
LEMMA RemoveKeeps == ASSUME IInv, file_remove PROVE IInv'
  <1>1. PICK path \in Paths, memory \in Memory : \E w \in {walk_path(fs, path, memory)} :
            /\ Serve(Removed(w))
            /\ stale' = (stale \/ BecameStale(w.s))
            /\ rewritten' = (rewritten \/ ROOT \in w.at)
            /\ UNCHANGED <<opened, beyond>>
    BY DEF file_remove
  <1>2. PICK w : w = walk_path(fs, path, memory)
    OBVIOUS
  <1>3. Sound(fs)
    BY StateSound DEF IInv
  <1>4. PICK t : t = Removed(w)
    OBVIOUS
  <1>5. /\ fs' = After(t) /\ server' = IF t.r = "panic" THEN "panic" ELSE "serving"
        /\ stale' = (stale \/ BecameStale(w.s)) /\ rewritten' = (rewritten \/ ROOT \in w.at)
        /\ opened' = opened /\ beyond' = beyond
    BY <1>1, <1>2, <1>4 DEF Serve
  <1>6. /\ beyond \in BOOLEAN /\ stale \in BOOLEAN /\ rewritten \in BOOLEAN
        /\ opened \subseteq Place
    BY DEF IInv, TypeOK
  <1>7. server' \in {"serving", "hung", "panic"} /\ stale' \in BOOLEAN /\ rewritten' \in BOOLEAN
    <2>1. server' \in {"serving", "hung", "panic"}
      BY <1>5
    <2>2. stale' \in BOOLEAN
      BY <1>5
    <2>3. rewritten' \in BOOLEAN
      BY <1>5
    <2> QED
      BY <2>1, <2>2, <2>3
  <1>8. CASE path = <<>>
    <2>1. Sound(w.s) /\ w.s.r = "ok" /\ w.at = {ROOT}
      BY <1>2, <1>3, <1>8, WalkToRoot
    <2>2. Ok(w.s)
      BY <2>1 DEF Ok
    <2>3. Sound(t)
      <3>1. ROOT = CHOOSE at \in w.at : TRUE
        BY <2>1
      <3>2. t = Emptied(w.s, ROOT)
        BY <1>4, <2>2, <3>1, RemovedEmpties
      <3> QED
        BY <2>1, <3>2, EmptiedEffect, RootPlace
    <2>4. rewritten'
      BY <1>5, <2>1
    <2> QED
      BY <1>5, <1>6, <1>7, <2>3, <2>4, CallKeeps
  <1>9. CASE path # <<>>
    <2>1. Goes(fs, w, ROOT) /\ (Ok(w.s) => w.at # {})
      BY <1>2, <1>3, <1>9, WalkPathEffect
    <2>2. /\ Sound(t)
          /\ \A x \in BOOLEAN : Fit(fs, x) =>
                 \/ Taint(fs, w.s, ROOT)
                 \/ Fit(t, x) /\ t.r # "panic" /\ RootKept(fs, t)
      BY <1>4, <2>1, RemovedEffect
    <2>3. ASSUME ~stale', ~rewritten'
          PROVE  Fit(t, ~beyond') /\ server' # "panic" /\ Housed(t, opened')
      <3>1. Fit(fs, ~beyond) /\ Housed(fs, opened) /\ (~beyond) \in BOOLEAN
        BY <1>5, <1>6, <2>3 DEF IInv, Followed
      <3>2. ~Taint(fs, w.s, ROOT)
        BY <1>5, <2>3, TaintStale, RootPlace
      <3>3. Fit(t, ~beyond) /\ t.r # "panic" /\ RootKept(fs, t)
        BY <2>2, <3>1, <3>2
      <3>4. Housed(t, opened)
        BY <3>1, <3>3, HousedStays
      <3> QED
        BY <1>5, <3>3, <3>4
    <2> QED
      BY <1>5, <1>6, <1>7, <2>2, <2>3, CallKeeps
  <1> QED
    BY <1>8, <1>9

\* A step that leaves the tree and the bitmap in memory alone.
LEMMA QuietKeeps ==
    ASSUME IInv, fs' \in State, fs'.onDisk \subseteq fs'.free, fs'.free = fs.free,
           UNCHANGED <<opened, server, beyond, stale>>, fs'.inode = fs.inode,
           rewritten' \in BOOLEAN, rewritten => rewritten',
           Followed => SameAt(fs, fs')
    PROVE  IInv'
  <1>1. TypeOK' /\ fs'.onDisk \subseteq fs'.free
    BY DEF IInv, TypeOK
  <1>2. ASSUME Followed PROVE Fit(fs', ~beyond) /\ Housed(fs', opened)
    <2>1. Fit(fs, ~beyond) /\ (~beyond) \in BOOLEAN /\ Sound(fs') /\ Housed(fs, opened)
      BY <1>2 DEF IInv, TypeOK, Sound
    <2>2. ~beyond => \A h \in Place, m \in FileBlock : At(fs, h, m) # 0 => m <= fs'.inode[h].size \div BY2BLK
      BY <2>1 DEF Fit, Covered
    <2>3. PICK t : t = fs'
      OBVIOUS
    <2>4. PICK x \in BOOLEAN : x = ~beyond
      BY <2>1
    <2>5. Fit(t, x)
      BY <1>2, <2>1, <2>2, <2>3, <2>4, SameKeepsFit
    <2>6. Housed(t, opened)
      BY <1>2, <2>1, <2>3, HousedStays, KeptIfSame
    <2> QED
      BY <2>3, <2>4, <2>5, <2>6
  <1>3. Followed' => Followed
    BY DEF IInv, TypeOK, Followed
  <1>4. ASSUME Followed'
        PROVE  Fit(fs', ~beyond') /\ server' # "panic" /\ Housed(fs', opened')
    BY <1>2, <1>3, <1>4 DEF IInv
  <1> QED
    BY <1>1, <1>4 DEF IInv

\* fs_sync.
LEMMA SyncKeeps == ASSUME IInv, fs_sync PROVE IInv'
  <1>1. /\ fs' = [fs EXCEPT !.onDisk = fs.free]
        /\ UNCHANGED <<opened, server, beyond, stale, rewritten>>
    BY DEF fs_sync, write_block
  <1>2. fs \in State /\ rewritten \in BOOLEAN
    BY DEF IInv, TypeOK
  <1>3. /\ fs' \in State /\ fs'.onDisk = fs.free /\ fs'.free = fs.free /\ fs'.inode = fs.inode
        /\ fs'.mem = fs.mem
    BY <1>1, <1>2 DEF State
  <1>4. SameAt(fs, fs')
    BY <1>3 DEF SameAt, At, Pointer
  <1> QED
    BY <1>1, <1>2, <1>3, <1>4, QuietKeeps

\* A program stores words in a block that it has mapped.
LEMMA StoreKeeps == ASSUME IInv, ClientStore PROVE IInv'
  <1>1. PICK f \in opened, n \in FileBlock, words \in Contents :
            /\ Pointer(fs, f, n) \in Block \ {0}
            /\ fs' = [fs EXCEPT !.mem[Pointer(fs, f, n)] = words]
            /\ rewritten' = (rewritten \/ f = ROOT)
            /\ UNCHANGED <<opened, server, beyond, stale>>
    BY DEF ClientStore
  <1>2. fs \in State /\ f \in Place /\ fs.onDisk \subseteq fs.free /\ rewritten \in BOOLEAN
    BY DEF IInv, TypeOK
  <1>3. PICK p \in Block \ {0} : p = Pointer(fs, f, n)
    BY <1>1
  <1>4. words \in [Indirect -> 0 .. NBLOCK] /\ fs.mem \in [Block -> [Indirect -> 0 .. NBLOCK]]
    BY <1>2, ClientAssumption, StateFields
  <1>5. PICK d \in [Block -> [Indirect -> 0 .. NBLOCK]] : d = [fs.mem EXCEPT ![p] = words]
    BY <1>4
  <1>6. fs' = [fs EXCEPT !.mem = d]
    BY <1>1, <1>3, <1>5
  <1>7. /\ fs' \in State /\ fs'.onDisk = fs.onDisk /\ fs'.free = fs.free /\ fs'.inode = fs.inode
        /\ fs'.mem = d
    BY <1>2, <1>6 DEF State
  \* A block that is shown to a program is no file's indirect block.
  <1>8. ASSUME Followed PROVE SameAt(fs, fs')
    <2>1. Unshared(fs)
      BY <1>8 DEF IInv, Fit
    <2>2. n \in Slot /\ NINDIRECT \in Slot /\ n # NINDIRECT
      BY LayoutAssumption DEF FileBlock, Slot
    <2>3. At(fs, f, n) = p
      BY <1>3, <2>2 DEF At
    <2>4. ASSUME NEW g \in Place PROVE fs.inode[g].indirect # p
      <3>1. At(fs, g, NINDIRECT) = fs.inode[g].indirect
        BY DEF At
      <3> QED
        BY <1>2, <1>3, <2>1, <2>2, <2>3, <3>1 DEF Unshared
    <2>5. \A g \in Place : fs.inode[g].indirect \in Block
      BY <1>2, FileTyped
    <2>6. \A g \in Place : d[fs.inode[g].indirect] = fs.mem[fs.inode[g].indirect]
      BY <1>4, <1>5, <2>4, <2>5
    <2> QED
      BY <1>7, <2>6 DEF SameAt, At, Pointer
  <1>9. rewritten' \in BOOLEAN /\ (rewritten => rewritten')
    BY <1>1, <1>2
  <1> QED
    BY <1>1, <1>2, <1>7, <1>8, <1>9, QuietKeeps

\* Every step.
LEMMA NextKeeps == ASSUME IInv, [Next]_vars PROVE IInv'
  <1>1. CASE Next
    BY <1>1, OpenKeeps, GetBlockKeeps, SetSizeKeeps, RemoveKeeps, SyncKeeps, StoreKeeps DEF Next
  <1>2. CASE UNCHANGED vars
    <2>1. /\ fs' = fs /\ opened' = opened /\ server' = server /\ beyond' = beyond
          /\ stale' = stale /\ rewritten' = rewritten
      BY <1>2 DEF vars
    <2> QED
      BY <2>1 DEF IInv, TypeOK, Followed
  <1> QED
    BY <1>1, <1>2

-----------------------------------------------------------------------------
(* The images fsformat makes.                                              *)

\* Images of any size, of the types that hold whatever is written beyond the
\* end of the disk.
WideFile == [name : Names \union {""}, size : Nat, direct : [0 .. NDIRECT - 1 -> Nat], indirect : Nat]
WideImage == [next : Nat, inode : [Place -> WideFile], mem : [Block -> [Indirect -> Nat]]]

\* Blocks are linked to the file at f, and taken from next on.
Appends(img, t, f) ==
    /\ t \in WideImage /\ t.next >= img.next
    /\ \A g \in Place : /\ g # f => t.inode[g] = img.inode[g]
                        /\ t.inode[g].name = img.inode[g].name /\ t.inode[g].size = img.inode[g].size

\* The fields of an image.
LEMMA WideFields ==
    ASSUME NEW img \in WideImage
    PROVE  /\ img.next \in Nat /\ img.inode \in [Place -> WideFile]
           /\ img.mem \in [Block -> [Indirect -> Nat]]
  BY DEF WideImage

\* save_block_link.
LEMMA SaveWide ==
    ASSUME NEW img \in WideImage, NEW f, NEW n, NEW b \in Nat
    PROVE  Appends(img, save_block_link(img, f, n, b), f)
  <1> DEFINE t == save_block_link(img, f, n, b)
             i == img.inode[f].indirect
  <1>1. img.next \in Nat /\ img.inode \in [Place -> WideFile] /\ img.mem \in [Block -> [Indirect -> Nat]]
    BY WideFields
  <1>2. CASE n < NDIRECT
    <2>1. t = [img EXCEPT !.inode[f].direct[n] = b]
      BY <1>2 DEF save_block_link
    <2>2. PICK d : d = [img.inode EXCEPT ![f].direct[n] = b]
      OBVIOUS
    <2>3. /\ d \in [Place -> WideFile]
          /\ \A g \in Place : /\ g # f => d[g] = img.inode[g]
                              /\ d[g].name = img.inode[g].name /\ d[g].size = img.inode[g].size
      <3>1. CASE f \in Place
        <4>1. img.inode[f] \in WideFile
          BY <1>1, <3>1
        <4>2. PICK p \in [0 .. NDIRECT - 1 -> Nat] : p = [img.inode[f].direct EXCEPT ![n] = b]
          BY <4>1 DEF WideFile
        <4>3. PICK e \in WideFile : e = [img.inode[f] EXCEPT !.direct = p]
          BY <4>1 DEF WideFile
        <4>4. d = [img.inode EXCEPT ![f] = e]
          BY <2>2, <4>2, <4>3
        <4>5. e.name = img.inode[f].name /\ e.size = img.inode[f].size
          BY <4>1, <4>3 DEF WideFile
        <4> QED
          BY <1>1, <3>1, <4>4, <4>5
      <3>2. CASE f \notin Place
        <4>1. d = img.inode
          BY <1>1, <2>2, <3>2
        <4> QED
          BY <1>1, <4>1
      <3> QED
        BY <3>1, <3>2
    <2>4. t = [img EXCEPT !.inode = d]
      BY <2>1, <2>2
    <2> HIDE DEF t
    <2>5. t \in WideImage /\ t.inode = d /\ t.next = img.next
      BY <2>3, <2>4 DEF WideImage
    <2> QED
      BY <1>1, <2>3, <2>5 DEF Appends, t
  <1>3. ASSUME NEW j, NEW m \in [Block -> [Indirect -> Nat]]
        PROVE  [m EXCEPT ![j][n] = b] \in [Block -> [Indirect -> Nat]]
    <2>1. CASE j \in Block
      <3>1. PICK w \in [Indirect -> Nat] : w = [m[j] EXCEPT ![n] = b]
        BY <2>1
      <3>2. [m EXCEPT ![j][n] = b] = [m EXCEPT ![j] = w]
        BY <3>1
      <3> QED
        BY <3>2
    <2>2. CASE j \notin Block
      <3>1. [m EXCEPT ![j][n] = b] = m
        BY <2>2
      <3> QED
        BY <3>1
    <2> QED
      BY <2>1, <2>2
  <1>4. CASE ~(n < NDIRECT) /\ i # 0
    <2>1. t = [img EXCEPT !.mem[i][n] = b]
      BY <1>4 DEF save_block_link
    <2>2. PICK d \in [Block -> [Indirect -> Nat]] : d = [img.mem EXCEPT ![i][n] = b]
      BY <1>1, <1>3
    <2>3. t = [img EXCEPT !.mem = d]
      BY <2>1, <2>2
    <2> HIDE DEF t, i
    <2>4. t \in WideImage /\ t.inode = img.inode /\ t.next = img.next
      BY <2>3 DEF WideImage
    <2> QED
      BY <1>1, <2>4 DEF Appends, t
  <1>5. CASE ~(n < NDIRECT) /\ ~(i # 0)
    <2>1. t = [[img EXCEPT !.next = @ + 1] EXCEPT !.inode[f].indirect = img.next, !.mem[img.next][n] = b]
      BY <1>5 DEF save_block_link, next_block
    <2>2. PICK d : d = [img.inode EXCEPT ![f].indirect = img.next]
      OBVIOUS
    <2>3. /\ d \in [Place -> WideFile]
          /\ \A g \in Place : /\ g # f => d[g] = img.inode[g]
                              /\ d[g].name = img.inode[g].name /\ d[g].size = img.inode[g].size
      <3>1. CASE f \in Place
        <4>1. img.inode[f] \in WideFile
          BY <1>1, <3>1
        <4>2. PICK e \in WideFile : e = [img.inode[f] EXCEPT !.indirect = img.next]
          BY <1>1, <4>1 DEF WideFile
        <4>3. d = [img.inode EXCEPT ![f] = e]
          BY <2>2, <4>2
        <4>4. e.name = img.inode[f].name /\ e.size = img.inode[f].size
          BY <4>1, <4>2 DEF WideFile
        <4> QED
          BY <1>1, <3>1, <4>3, <4>4
      <3>2. CASE f \notin Place
        <4>1. d = img.inode
          BY <1>1, <2>2, <3>2
        <4> QED
          BY <1>1, <4>1
      <3> QED
        BY <3>1, <3>2
    <2>4. PICK m \in [Block -> [Indirect -> Nat]] : m = [img.mem EXCEPT ![img.next][n] = b]
      BY <1>1, <1>3
    <2>5. PICK k \in Nat : k = img.next + 1
      BY <1>1
    <2>6. t = [img EXCEPT !.next = k, !.inode = d, !.mem = m]
      <3>1. [img EXCEPT !.next = @ + 1].inode = img.inode /\ [img EXCEPT !.next = @ + 1].mem = img.mem
        BY DEF WideImage
      <3>2. [img EXCEPT !.next = @ + 1] = [img EXCEPT !.next = k]
        BY <2>5
      <3>3. PICK u : u = [img EXCEPT !.next = @ + 1]
        OBVIOUS
      <3>4. t = [u EXCEPT !.inode[f].indirect = img.next, !.mem[img.next][n] = b]
        BY <2>1, <3>3
      <3>5. t = [u EXCEPT !.inode = d, !.mem = m]
        BY <2>2, <2>4, <3>1, <3>3, <3>4
      <3> QED
        BY <3>2, <3>3, <3>5
    <2> HIDE DEF t, i
    <2>7. t \in WideImage /\ t.inode = d /\ t.next = k
      BY <2>3, <2>6 DEF WideImage
    <2> QED
      BY <1>1, <2>3, <2>5, <2>7 DEF Appends, t
  <1> QED
    BY <1>2, <1>4, <1>5

\* The next block of a file.
LEMMA AppendWide ==
    ASSUME NEW img \in WideImage, NEW f, NEW n
    PROVE  LET t == append_block(img, f, n) IN Appends(img, t, f) /\ t.next >= img.next + 1
  <1> DEFINE u == next_block(img)
  <1>1. img.next \in Nat
    BY WideFields
  <1>2. u \in WideImage /\ u.next = img.next + 1 /\ u.inode = img.inode
    <2>1. PICK k \in Nat : k = img.next + 1
      BY <1>1
    <2>2. u = [img EXCEPT !.next = k]
      BY <2>1 DEF next_block
    <2> HIDE DEF u
    <2> QED
      BY <2>1, <2>2 DEF WideImage
  <1> HIDE DEF u
  <1>3. append_block(img, f, n) = save_block_link(u, f, n, img.next)
    BY DEF append_block, u
  <1>4. PICK t : t = save_block_link(u, f, n, img.next)
    OBVIOUS
  <1>5. Appends(u, t, f)
    BY <1>1, <1>2, <1>4, SaveWide
  <1>6. t.next \in Nat
    BY <1>5, WideFields DEF Appends
  <1>7. Appends(img, t, f) /\ t.next >= img.next + 1
    BY <1>1, <1>2, <1>5, <1>6 DEF Appends
  <1> QED
    BY <1>3, <1>4, <1>7

\* A pointer is set to a block that was free and is taken.
Sets(s, t, f, n, b) ==
    /\ Fit(t, TRUE) /\ SameSizes(s, t)
    /\ \A g \in Place, m \in Slot : At(t, g, m) = IF g = f /\ m = n THEN b ELSE At(s, g, m)

\* A pointer is set in a state with a free block.
LEMMA SetLinks ==
    ASSUME NEW s, Fit(s, TRUE), NEW f \in Place, NEW n \in FileBlock, NEW b \in s.free \ Reserved,
           At(s, f, n) = 0, n <= s.inode[f].size \div BY2BLK, n < NDIRECT \/ s.inode[f].indirect # 0,
           NEW a \in State, SameTree(s, a), a.free = s.free \ {b}, a.onDisk \subseteq a.free
    PROVE  Sets(s, SetPointer(a, f, n, b), f, n, b)
  <1> DEFINE t == SetPointer(a, f, n, b)
  <1>1. SameAt(s, a) /\ SameSizes(s, a) /\ s \in State
    BY SameTreeSameAt DEF Fit, Sound
  <1>2. b \in Block /\ n \in Slot
    BY <1>1, StateFields, LayoutAssumption DEF FileBlock, Slot
  <1>3. n < NDIRECT \/ a.inode[f].indirect # 0
    BY DEF SameTree
  <1>4. /\ t \in State /\ SameSizes(a, t) /\ SameSpace(a, t)
        /\ Unshared(a) => \A g \in Place, m \in Slot :
                             At(t, g, m) = IF g = f /\ m = n THEN b ELSE At(a, g, m)
    BY <1>2, <1>3, SetPointerEffect
  <1> HIDE DEF t
  <1>5. Unshared(a)
    BY <1>1 DEF Fit, Unshared, SameAt
  <1>6. \A g \in Place, m \in Slot : At(t, g, m) = IF g = f /\ m = n THEN b ELSE At(s, g, m)
    BY <1>1, <1>4, <1>5 DEF SameAt
  <1>7. Sound(t) /\ SameSizes(s, t) /\ Linked(s, t, f, n, b)
    BY <1>1, <1>4, <1>6 DEF Sound, SameSizes, SameSpace, Linked
  <1>8. Fit(t, TRUE)
    BY <1>2, <1>7, LinkedKeepsFit
  <1> QED
    BY <1>6, <1>7, <1>8 DEF t, Sets

\* The state of the file server that starts with an image.
Start(img) ==
    [free |-> flush_bitmap(img), onDisk |-> flush_bitmap(img), inode |-> img.inode,
     mem |-> img.mem, mapped |-> {0, 1, 2}, r |-> "ok", b |-> 0]

\* The image is fit, and the blocks that are free have no words in them.
Tidy(img) ==
    /\ 3 <= img.next /\ img.next <= NBLOCK /\ Fit(Start(img), TRUE)
    /\ \A b \in Block : b >= img.next => img.mem[b] = NoWords

\* The bitmap and the pointers of a server that starts.
LEMMA StartFields ==
    ASSUME NEW img
    PROVE  /\ Start(img).free = img.next .. NBLOCK - 1 /\ Start(img).onDisk = img.next .. NBLOCK - 1
           /\ Start(img).inode = img.inode /\ Start(img).mem = img.mem
           /\ \A f, n : At(Start(img), f, n) = At(img, f, n)
  BY DEF Start, flush_bitmap, At, Pointer

\* The state in which the kernel starts, from its parts.
Started(free, inode, mem) ==
    [free |-> free, onDisk |-> free, inode |-> inode, mem |-> mem, mapped |-> {0, 1, 2},
     r |-> "ok", b |-> 0]

Later(s, left) == [s EXCEPT !.free = left, !.onDisk = left]

LEMMA FileWithIndirect ==
    ASSUME NEW x \in File, NEW b \in Block
    PROVE  [x EXCEPT !.indirect = b] \in File
  BY DEF File

LEMMA StartIsStarted ==
    ASSUME NEW img
    PROVE  Start(img) = Started(img.next .. NBLOCK - 1, img.inode, img.mem)
  BY DEF Start, Started, flush_bitmap

\* It with other files, other words, or other free blocks.
LEMMA StartedWithFiles ==
    ASSUME NEW free, NEW inode, NEW mem, NEW d
    PROVE  [Started(free, inode, mem) EXCEPT !.inode = d] = Started(free, d, mem)
  BY DEF Started

LEMMA StartedWithWords ==
    ASSUME NEW free, NEW inode, NEW mem, NEW d
    PROVE  [Started(free, inode, mem) EXCEPT !.mem = d] = Started(free, inode, d)
  BY DEF Started

LEMMA StartedLater ==
    ASSUME NEW free, NEW inode, NEW mem, NEW left
    PROVE  Later(Started(free, inode, mem), left) = Started(left, inode, mem)
  <1>1. PICK r : r = [Started(free, inode, mem) EXCEPT !.free = left, !.onDisk = left]
    OBVIOUS
  <1>2. DOMAIN r = {"free", "onDisk", "inode", "mem", "mapped", "r", "b"}
    BY <1>1 DEF Started
  <1>3. /\ r.free = left /\ r.onDisk = left /\ r.inode = inode /\ r.mem = mem
        /\ r.mapped = {0, 1, 2} /\ r.r = "ok" /\ r.b = 0
    BY <1>1 DEF Started
  <1>4. r = Started(left, inode, mem)
    BY <1>1, <1>2, <1>3 DEF Started
  <1> QED
    BY <1>1, <1>4 DEF Later

LEMMA StartLater ==
    ASSUME NEW img, NEW left
    PROVE  Later(Start(img), left) = Started(left, img.inode, img.mem)
  <1>1. PICK s, all : s = Start(img) /\ all = img.next .. NBLOCK - 1
    OBVIOUS
  <1>2. s = Started(all, img.inode, img.mem)
    BY <1>1, StartIsStarted
  <1>3. Later(Started(all, img.inode, img.mem), left) = Started(left, img.inode, img.mem)
    BY StartedLater
  <1> QED
    BY <1>1, <1>2, <1>3

\* An image whose file at f gets the block n.
LEMMA AppendTidy ==
    ASSUME NEW img \in WideImage, Tidy(img), NEW f \in Place, NEW n \in FileBlock, NEW t,
           t = append_block(img, f, n), t.next <= NBLOCK, At(img, f, n) = 0,
           n <= img.inode[f].size \div BY2BLK
    PROVE  /\ Tidy(t) /\ img.next < t.next
           /\ \A g \in Place, m \in Slot : g # f \/ m \notin {n, NINDIRECT} => At(t, g, m) = At(img, g, m)
  <1> DEFINE s == Start(img)
             b == img.next
             i == img.inode[f].indirect
             u == next_block(img)
             z == Start(t)
  <1>1. /\ b \in Nat /\ img.inode \in [Place -> WideFile] /\ img.mem \in [Block -> [Indirect -> Nat]]
        /\ t.next \in Nat /\ t.next >= b + 1 /\ t \in WideImage
    BY WideFields, AppendWide DEF Appends
  <1>2. /\ s \in State /\ s.free = b .. NBLOCK - 1 /\ s.onDisk = b .. NBLOCK - 1
        /\ s.inode = img.inode /\ s.mem = img.mem /\ Fit(s, TRUE)
        /\ \A g, m : At(s, g, m) = At(img, g, m)
    BY StartFields DEF Tidy, Fit, Sound
  <1>3. /\ z.free = t.next .. NBLOCK - 1 /\ z.onDisk = t.next .. NBLOCK - 1
        /\ z.inode = t.inode /\ z.mem = t.mem /\ \A g, m : At(z, g, m) = At(t, g, m)
    BY StartFields
  <1>4. NBLOCK \in Nat /\ 3 <= b /\ \A j \in Block : j >= b => img.mem[j] = NoWords
    BY LayoutAssumption DEF Tidy
  <1>5. b \in s.free \ Reserved
    BY <1>1, <1>2, <1>4 DEF Reserved
  <1>6. At(s, f, n) = 0 /\ n <= s.inode[f].size \div BY2BLK /\ n # NINDIRECT /\ n \in Slot
    BY <1>2, LayoutAssumption DEF FileBlock, Slot
  <1>7. u = [img EXCEPT !.next = b + 1] /\ u.inode = img.inode /\ u.mem = img.mem /\ u.next = b + 1
    BY DEF next_block, WideImage
  <1>8. t = save_block_link(u, f, n, b)
    BY DEF append_block
  <1> HIDE DEF s, u, z
  <1>9. CASE n < NDIRECT \/ i # 0
    <2> DEFINE a == [s EXCEPT !.free = (b + 1) .. NBLOCK - 1, !.onDisk = (b + 1) .. NBLOCK - 1]
               v == SetPointer(a, f, n, b)
    <2>1. (b + 1) .. NBLOCK - 1 = (b .. NBLOCK - 1) \ {b} /\ (b + 1) .. NBLOCK - 1 \in SUBSET Block
      BY <1>1, <1>4 DEF Block
    <2>2. /\ a \in State /\ SameTree(s, a) /\ a.free = (b + 1) .. NBLOCK - 1
          /\ a.onDisk = (b + 1) .. NBLOCK - 1 /\ a.inode = img.inode /\ a.mem = img.mem
      BY <1>2, <2>1 DEF State, SameTree
    <2>3. n < NDIRECT \/ s.inode[f].indirect # 0
      BY <1>2, <1>9
    <2>4. a.free = s.free \ {b} /\ a.onDisk \subseteq a.free
      BY <1>2, <2>1, <2>2
    <2>4a. a = Started((b + 1) .. NBLOCK - 1, img.inode, img.mem)
      BY StartLater DEF a, s, Later
    <2> HIDE DEF a
    <2>5. /\ Fit(v, TRUE)
          /\ \A g \in Place, m \in Slot : At(v, g, m) = IF g = f /\ m = n THEN b ELSE At(s, g, m)
      <3> HIDE DEF b, i, v
      <3>1. Sets(s, SetPointer(a, f, n, b), f, n, b)
        BY <1>2, <1>5, <1>6, <2>2, <2>3, <2>4, SetLinks
      <3> QED
        BY <3>1 DEF Sets, v
    <2>6. v = z /\ t.next = b + 1
      <3>1. CASE n < NDIRECT
        <4>1. t = [u EXCEPT !.inode[f].direct[n] = b] /\ v = [a EXCEPT !.inode[f].direct[n] = b]
          BY <1>8, <3>1 DEF save_block_link, SetPointer
        <4>2. PICK d : d = [img.inode EXCEPT ![f].direct[n] = b]
          OBVIOUS
        <4>3. t = [u EXCEPT !.inode = d] /\ v = [a EXCEPT !.inode = d]
          BY <1>7, <2>2, <4>1, <4>2
        <4>4. t.next = b + 1 /\ t.inode = d /\ t.mem = img.mem
          BY <1>7, <4>3 DEF WideImage
        <4>5. v = Started((b + 1) .. NBLOCK - 1, d, img.mem)
          BY <2>4a, <4>3, StartedWithFiles
        <4> QED
          BY <4>4, <4>5, StartIsStarted DEF z
      <3>2. CASE ~(n < NDIRECT)
        <4>1. t = [u EXCEPT !.mem[i][n] = b] /\ v = [a EXCEPT !.mem[i][n] = b]
          BY <1>7, <1>8, <1>9, <2>2, <3>2 DEF save_block_link, SetPointer
        <4>2. PICK d : d = [img.mem EXCEPT ![i][n] = b]
          OBVIOUS
        <4>3. t = [u EXCEPT !.mem = d] /\ v = [a EXCEPT !.mem = d]
          BY <1>7, <2>2, <4>1, <4>2
        <4>4. t.next = b + 1 /\ t.inode = img.inode /\ t.mem = d
          BY <1>7, <4>3 DEF WideImage
        <4>5. v = Started((b + 1) .. NBLOCK - 1, img.inode, d)
          BY <2>4a, <4>3, StartedWithWords
        <4> QED
          BY <4>4, <4>5, StartIsStarted DEF z
      <3> QED
        BY <3>1, <3>2
    <2> HIDE DEF v
    <2>7. ASSUME NEW j \in Block, j >= t.next PROVE t.mem[j] = NoWords
      <3>0. j \in Int /\ j >= b /\ j <= NBLOCK - 1
        BY <1>1, <1>4, <2>6, <2>7 DEF Block
      <3>1. img.mem[j] = NoWords /\ j \in b .. NBLOCK - 1
        BY <1>1, <1>4, <3>0
      <3>2. CASE n < NDIRECT
        <4>1. t = [u EXCEPT !.inode[f].direct[n] = b]
          BY <1>8, <3>2 DEF save_block_link
        <4>2. t.mem = img.mem
          BY <1>7, <4>1 DEF WideImage
        <4> QED
          BY <3>1, <4>2
      <3>3. CASE ~(n < NDIRECT)
        <4>1. t = [u EXCEPT !.mem[i][n] = b]
          BY <1>7, <1>8, <1>9, <3>3 DEF save_block_link
        <4>2. PICK d : d = [img.mem EXCEPT ![i][n] = b]
          OBVIOUS
        <4>3. t.mem = d
          BY <1>7, <4>1, <4>2 DEF WideImage
        <4>4. i # j
          <5>1. NINDIRECT \in Slot /\ At(s, f, NINDIRECT) = i
            BY <1>2, LayoutAssumption DEF At, Slot
          <5>2. i \notin s.free
            BY <1>2, <1>9, <3>3, <5>1 DEF Fit, Taken
          <5> QED
            BY <1>2, <3>1, <5>2
        <4> QED
          BY <1>1, <3>1, <4>2, <4>3, <4>4
      <3> QED
        BY <3>2, <3>3
    <2>8. Tidy(t)
      <3>1. Fit(Start(t), TRUE)
        BY <2>5, <2>6 DEF z
      <3>2. 3 <= t.next
        BY <1>1, <1>4
      <3>3. \A j \in Block : j >= t.next => t.mem[j] = NoWords
        BY <2>7
      <3> QED
        BY <3>1, <3>2, <3>3 DEF Tidy
    <2>9. \A g \in Place, m \in Slot : g # f \/ m \notin {n, NINDIRECT} => At(t, g, m) = At(img, g, m)
      BY <1>2, <1>3, <2>5, <2>6
    <2> QED
      BY <1>1, <2>6, <2>8, <2>9
  <1>10. CASE ~(n < NDIRECT) /\ ~(i # 0)
    <2> DEFINE c == b + 1
               free == (b + 2) .. NBLOCK - 1
    <2>1. t = [[u EXCEPT !.next = @ + 1] EXCEPT !.inode[f].indirect = c, !.mem[c][n] = b]
      BY <1>7, <1>8, <1>10 DEF save_block_link, next_block
    <2>2. PICK e \in WideFile : e = [img.inode[f] EXCEPT !.indirect = c]
      <3>1. img.inode[f] \in WideFile /\ c \in Nat
        BY <1>1
      <3> QED
        BY <3>1 DEF WideFile
    <2>3. PICK d \in [Place -> WideFile] : d = [img.inode EXCEPT ![f] = e]
      BY <1>1
    <2>4. PICK w : w = [img.mem EXCEPT ![c][n] = b]
      OBVIOUS
    <2>5. t.next = b + 2 /\ t.inode = d /\ t.mem = w
      <3>1. PICK k : k = [u EXCEPT !.next = @ + 1]
        OBVIOUS
      <3>2. k = [u EXCEPT !.next = b + 2]
        <4>1. u.next + 1 = b + 2
          BY <1>1, <1>7
        <4> QED
          BY <3>1, <4>1
      <3>3. k.next = b + 2 /\ k.inode = img.inode /\ k.mem = img.mem
        BY <1>7, <3>2 DEF WideImage
      <3>4. t = [k EXCEPT !.inode[f].indirect = c, !.mem[c][n] = b]
        BY <2>1, <3>1
      <3>5. [img.inode EXCEPT ![f].indirect = c] = d
        BY <2>2, <2>3
      <3>6. t = [k EXCEPT !.inode = d, !.mem = w]
        BY <2>4, <3>3, <3>4, <3>5
      <3>7. DOMAIN k = {"next", "inode", "mem"}
        BY <1>7, <3>2 DEF WideImage
      <3> QED
        BY <3>3, <3>6, <3>7
    <2>6. c \in Block /\ b \in Block /\ c \in s.free \ Reserved /\ b # c /\ c # 0
      BY <1>1, <1>2, <1>4, <2>5 DEF Block, Reserved
    <2>7. img.mem[c] = NoWords
      BY <1>1, <1>4, <2>6
    \* First the indirect block.
    <2> DEFINE v == [s EXCEPT !.inode = d, !.free = s.free \ {c}, !.onDisk = s.free \ {c}]
    <2>8. d \in [Place -> File]
      <3>1. s.inode \in [Place -> File]
        BY <1>2, StateFields
      <3>2. e = [s.inode[f] EXCEPT !.indirect = c]
        BY <1>2, <2>2
      <3>3. e \in File
        BY <2>6, <3>1, <3>2, FileWithIndirect
      <3> QED
        BY <1>2, <2>3, <3>1, <3>3
    <2>9. v \in State /\ v.inode = d /\ v.mem = s.mem /\ v.free = s.free \ {c} /\ v.onDisk = v.free
      <3>1. s.free \ {c} \in SUBSET Block
        BY <1>2, StateFields
      <3> QED
        BY <1>2, <2>8, <3>1 DEF State
    <2>10. Grows(s, v, f, c)
      <3>1. d = [s.inode EXCEPT ![f].indirect = c]
        BY <1>2, <2>2, <2>3
      <3> QED
        BY <1>2, <1>10, <2>6, <2>9, <3>1 DEF Grows
    <2>11. Linked(s, v, f, NINDIRECT, c) /\ SameSizes(s, v)
      BY <1>2, <2>6, <2>7, <2>10, GrowsLinks
    <2>12. Fit(v, TRUE)
      <3>1. NINDIRECT \in Slot /\ NINDIRECT \notin FileBlock
        BY LayoutAssumption DEF Slot, FileBlock
      <3>2. Sound(v)
        BY <2>9 DEF Sound
      <3> HIDE DEF v
      <3> QED
        BY <1>2, <2>11, <3>1, <3>2, LinkedKeepsFit
    <2> HIDE DEF v
    \* Then the pointer in it.
    <2> DEFINE a == [v EXCEPT !.free = free, !.onDisk = free]
               y == SetPointer(a, f, n, b)
    <2>13. free = v.free \ {b} /\ free \in SUBSET Block /\ b \in v.free \ Reserved
      BY <1>1, <1>2, <1>4, <1>5, <2>6, <2>9 DEF Block
    <2>14. /\ a \in State /\ SameTree(v, a) /\ a.free = free /\ a.onDisk = free
           /\ a.inode = d /\ a.mem = img.mem
      BY <1>2, <2>9, <2>13 DEF State, SameTree
    <2>15. At(v, f, n) = 0 /\ n <= v.inode[f].size \div BY2BLK /\ v.inode[f].indirect # 0
      <3>1. At(v, f, n) = 0
        BY <1>6, <2>11 DEF Linked
      <3>2. v.inode[f].size = s.inode[f].size
        BY <2>11 DEF SameSizes
      <3>3. v.inode[f].indirect # 0
        BY <1>2, <2>6, <2>10, GrowsFramed
      <3> QED
        BY <1>6, <3>1, <3>2, <3>3
    <2>16. a.free = v.free \ {b} /\ a.onDisk \subseteq a.free
      BY <2>13, <2>14
    <2>16a. a = Started(free, d, img.mem)
      <3>1. s = Started(b .. NBLOCK - 1, img.inode, img.mem)
        BY StartIsStarted DEF s
      <3>2. /\ DOMAIN v = {"free", "onDisk", "inode", "mem", "mapped", "r", "b"}
            /\ v.mapped = {0, 1, 2} /\ v.r = "ok" /\ v.b = 0
        BY <3>1 DEF v, Started
      <3>3. PICK t0 : t0 = a
        OBVIOUS
      <3>4. /\ DOMAIN t0 = {"free", "onDisk", "inode", "mem", "mapped", "r", "b"}
            /\ t0.mapped = {0, 1, 2} /\ t0.r = "ok" /\ t0.b = 0
        BY <3>2, <3>3
      <3>5. t0.free = free /\ t0.onDisk = free /\ t0.inode = d /\ t0.mem = img.mem
        BY <2>14, <3>3
      <3>6. t0 = Started(free, d, img.mem)
        BY <3>2, <3>3, <3>5 DEF Started
      <3> QED
        BY <3>3, <3>6
    <2> HIDE DEF a
    <2>17. /\ Fit(y, TRUE)
           /\ \A g \in Place, m \in Slot : At(y, g, m) = IF g = f /\ m = n THEN b ELSE At(v, g, m)
      <3> HIDE DEF b, i, c, free, y
      <3>1. Sets(v, SetPointer(a, f, n, b), f, n, b)
        BY <2>12, <2>13, <2>14, <2>15, <2>16, SetLinks
      <3> QED
        BY <3>1 DEF Sets, y
    <2>18. y = z
      <3>1. d[f].indirect = c
        <4>1. e.indirect = c
          <5>1. img.inode[f] \in WideFile
            BY <1>1
          <5> QED
            BY <2>2, <5>1 DEF WideFile
        <4> QED
          BY <1>1, <2>3, <4>1
      <3>2. y = [a EXCEPT !.mem[c][n] = b]
        BY <1>10, <2>14, <3>1 DEF SetPointer
      <3>3. y = [a EXCEPT !.mem = w]
        BY <2>4, <2>14, <3>2
      <3>4. y = Started(free, d, w)
        BY <2>16a, <3>3, StartedWithWords
      <3> QED
        BY <2>5, <3>4, StartIsStarted DEF z
    <2> HIDE DEF y
    <2>19. ASSUME NEW j \in Block, j >= t.next PROVE t.mem[j] = NoWords
      <3>1. img.mem[j] = NoWords /\ j # c
        BY <1>1, <1>4, <2>5, <2>19 DEF Block
      <3>2. w[j] = img.mem[j]
        BY <1>1, <2>4, <3>1
      <3> QED
        BY <2>5, <3>1, <3>2
    <2>20. Tidy(t)
      <3>1. Fit(Start(t), TRUE)
        BY <2>17, <2>18 DEF z
      <3>2. 3 <= t.next
        BY <1>1, <1>4
      <3>3. \A j \in Block : j >= t.next => t.mem[j] = NoWords
        BY <2>19
      <3> QED
        BY <3>1, <3>2, <3>3 DEF Tidy
    <2>21. \A g \in Place, m \in Slot : g # f \/ m \notin {n, NINDIRECT} => At(t, g, m) = At(img, g, m)
      BY <1>2, <1>3, <2>11, <2>17, <2>18 DEF Linked
    <2> QED
      BY <1>1, <2>5, <2>20, <2>21
  <1> QED
    BY <1>9, <1>10

\* Quotients.
Quotient(m, n, d) ==
    /\ m \div d \in Nat /\ m % d \in 0 .. d - 1
    /\ m < n * d => m \div d < n
    /\ m <= n * d => m \div d <= n
    /\ (m + d) \div d = m \div d + 1

\* Their bounds.
LEMMA DivBelow == \A m \in Nat, n \in Nat, d \in Nat \ {0} : Quotient(m, n, d)
  <1> SUFFICES ASSUME NEW m \in Nat, NEW n \in Nat, NEW d \in Nat \ {0}
               PROVE  Quotient(m, n, d)
    OBVIOUS
  <1> DEFINE q == m \div d
             r == m % d
  <1>1. q \in Nat /\ r \in 0 .. d - 1 /\ m = d * q + r
    OBVIOUS
  <1>2. (m + d) \div d = q + 1
    OBVIOUS
  <1> HIDE DEF q, r
  <1>3. ASSUME m < n * d PROVE q < n
    <2>1. d * q <= m
      <3>1. d * q \in Int
        BY <1>1
      <3> QED
        BY <1>1, <3>1
    <2>2. ASSUME q >= n PROVE FALSE
      <3>1. d * q >= d * n
        BY <1>1, <2>2
      <3>2. PICK top \in Int : top = d * n /\ top = n * d
        OBVIOUS
      <3>3. PICK low \in Int : low = d * q
        BY <1>1
      <3> QED
        BY <1>3, <2>1, <3>1, <3>2, <3>3
    <2> QED
      BY <1>1, <2>2
  <1>4. ASSUME m <= n * d PROVE q <= n
    <2>1. d * q <= m
      <3>1. d * q \in Int
        BY <1>1
      <3> QED
        BY <1>1, <3>1
    <2>2. ASSUME q >= n + 1 PROVE FALSE
      <3>1. d * q >= d * (n + 1)
        BY <1>1, <2>2
      <3>2. PICK top \in Int : top = d * n /\ top = n * d
        OBVIOUS
      <3>3. PICK low \in Int : low = d * q
        BY <1>1
      <3>4. d * (n + 1) = top + d
        BY <3>2
      <3> QED
        BY <1>4, <2>1, <3>1, <3>2, <3>3, <3>4
    <2> QED
      BY <1>1, <2>2
  <1> QED
    BY <1>1, <1>2, <1>3, <1>4 DEF q, r, Quotient

\* The blocks of a file of some size.
LEMMA BlocksFor ==
    ASSUME NEW size \in Nat, size <= NINDIRECT * BY2BLK
    PROVE  LET blocks == (size + BY2BLK - 1) \div BY2BLK IN
           /\ blocks \in Nat /\ blocks <= NINDIRECT
           /\ \A k \in Nat : k < blocks => k <= size \div BY2BLK
  <1>1. BY2BLK \in Nat \ {0} /\ NINDIRECT \in Nat
    BY LayoutAssumption
  <1> DEFINE x == size + BY2BLK - 1
             blocks == x \div BY2BLK
  <1>2. x \in Nat /\ x < size + BY2BLK
    BY <1>1
  <1>3. PICK top \in Nat : top = NINDIRECT * BY2BLK
    BY <1>1
  <1>4. (NINDIRECT + 1) * BY2BLK = top + BY2BLK
    BY <1>1, <1>3
  <1>5. x < (NINDIRECT + 1) * BY2BLK
    BY <1>1, <1>2, <1>3, <1>4
  <1> HIDE DEF x
  <1>6. blocks \in Nat /\ blocks < NINDIRECT + 1
    <2>1. NINDIRECT + 1 \in Nat
      BY <1>1
    <2> QED
      BY <1>1, <1>2, <1>5, <2>1, DivBelow DEF Quotient
  <1>7. x \div BY2BLK <= (size + BY2BLK) \div BY2BLK
    <2>1. size + BY2BLK \in Nat /\ x <= size + BY2BLK
      BY <1>1, <1>2
    <2> QED
      BY <1>2, <2>1, BlocksBelow
  <1>8. (size + BY2BLK) \div BY2BLK = size \div BY2BLK + 1 /\ size \div BY2BLK \in Nat
    BY <1>1, DivBelow DEF Quotient
  <1> HIDE DEF blocks
  <1>9. \A k \in Nat : k < blocks => k <= size \div BY2BLK
    <2>1. PICK q \in Nat : q = size \div BY2BLK
      BY <1>8
    <2>2. blocks <= q + 1
      BY <1>7, <1>8, <2>1 DEF blocks
    <2> QED
      BY <1>6, <2>1, <2>2
  <1> QED
    BY <1>1, <1>6, <1>9 DEF x, blocks

\* A server that starts on an image with other struct Files.
LEMMA StartRenamed ==
    ASSUME NEW img \in WideImage, NEW d
    PROVE  Start([img EXCEPT !.inode = d]) = [Start(img) EXCEPT !.inode = d]
  <1> DEFINE t == [img EXCEPT !.inode = d]
             bits == img.next .. NBLOCK - 1
  <1>1. t.next = img.next /\ t.inode = d /\ t.mem = img.mem
    BY DEF WideImage
  <1> HIDE DEF t
  <1>2. Start(t) = [free |-> bits, onDisk |-> bits, inode |-> d, mem |-> img.mem,
                    mapped |-> {0, 1, 2}, r |-> "ok", b |-> 0]
    BY <1>1 DEF Start, flush_bitmap
  <1>3. Start(img) = [free |-> bits, onDisk |-> bits, inode |-> img.inode, mem |-> img.mem,
                      mapped |-> {0, 1, 2}, r |-> "ok", b |-> 0]
    BY DEF Start, flush_bitmap
  <1> HIDE DEF bits
  <1>4. [Start(img) EXCEPT !.inode = d] = [free |-> bits, onDisk |-> bits, inode |-> d, mem |-> img.mem,
                                           mapped |-> {0, 1, 2}, r |-> "ok", b |-> 0]
    BY <1>3
  <1> QED
    BY <1>2, <1>4 DEF t

\* Names and sizes change.
LEMMA RenamedTidy ==
    ASSUME NEW img \in WideImage, Tidy(img), NEW d \in [Place -> WideFile],
           \A g \in Place : d[g].direct = img.inode[g].direct /\ d[g].indirect = img.inode[g].indirect,
           \A g \in Place, m \in FileBlock : At(img, g, m) # 0 => m <= d[g].size \div BY2BLK
    PROVE  LET t == [img EXCEPT !.inode = d] IN
           /\ Tidy(t) /\ \A g \in Place, m \in Slot : At(t, g, m) = At(img, g, m)
  <1> DEFINE t == [img EXCEPT !.inode = d]
             s == Start(img)
             z == Start(t)
  <1>1. t.next = img.next /\ t.inode = d /\ t.mem = img.mem
    BY DEF WideImage
  <1>2. Fit(s, TRUE) /\ s \in State /\ s.inode = img.inode /\ \A f, n : At(s, f, n) = At(img, f, n)
    <2>1. Fit(s, TRUE)
      BY DEF Tidy
    <2>2. s \in State
      BY <2>1 DEF Fit, Sound
    <2> QED
      BY <2>1, <2>2, StartFields
  <1> HIDE DEF t, s
  <1>3. z = [s EXCEPT !.inode = d]
    BY StartRenamed DEF s, t
  <1> HIDE DEF z
  <1>4. d \in [Place -> File]
    <2>1. ASSUME NEW g \in Place PROVE d[g] \in File
      <3>1. /\ d[g] \in WideFile /\ s.inode[g].direct \in [0 .. NDIRECT - 1 -> Block]
            /\ s.inode[g].indirect \in Block
        BY <1>2, FileTyped
      <3> QED
        BY <1>2, <3>1 DEF WideFile, File
    <2> QED
      BY <2>1
  <1>5. z \in State /\ z.inode = d /\ z.mem = s.mem /\ z.free = s.free /\ z.onDisk = s.onDisk
    BY <1>2, <1>3, <1>4 DEF State
  <1>6. SameAt(s, z)
    <2> SUFFICES ASSUME NEW g \in Place, NEW m \in Slot PROVE At(z, g, m) = At(s, g, m)
      BY DEF SameAt
    <2>1. /\ z.inode[g].direct = s.inode[g].direct /\ z.inode[g].indirect = s.inode[g].indirect
          /\ z.mem = s.mem
      BY <1>2, <1>5
    <2> QED
      BY <2>1 DEF At, Pointer
  <1>7. \A g \in Place, m \in FileBlock : At(s, g, m) # 0 => m <= z.inode[g].size \div BY2BLK
    BY <1>2, <1>5
  <1>8. Sound(z)
    BY <1>2, <1>5 DEF Fit, Sound
  <1>9. Fit(z, TRUE)
    BY <1>2, <1>5, <1>6, <1>7, <1>8, SameKeepsFit
  <1>10. Tidy(t)
    BY <1>1, <1>9 DEF Tidy, z
  <1>11. \A g \in Place, m \in Slot : At(t, g, m) = At(img, g, m)
    <2>1. \A f, n : At(z, f, n) = At(t, f, n)
      BY StartFields DEF z
    <2> QED
      BY <1>2, <1>6, <2>1 DEF SameAt
  <1> QED
    BY <1>10, <1>11 DEF t

\* A place without a name and one in a block that is free have no pointers, and
\* the root directory has none beyond its size.
HostOf(f) == f[1]
Unnamed(img, f) == img.inode[f].name = "" \/ HostOf(f) >= img.next
Blank(img) == \A f \in Place :
    f # ROOT /\ Unnamed(img, f) => \A m \in Slot : At(img, f, m) = 0
RootTail(img) == \A m \in FileBlock : m >= BlocksOf(img, ROOT) => At(img, ROOT, m) = 0
RootFits(img) == img.inode[ROOT].size <= NINDIRECT * BY2BLK
Good(img) == img \in WideImage /\ Tidy(img) /\ Blank(img) /\ RootTail(img) /\ RootFits(img)

\* create_file: an unused place.
Creates(img, c) ==
    /\ c.img \in WideImage /\ c.img.next >= img.next
    /\ Good(img) => c.at # ROOT
    /\ Good(img) /\ c.img.next <= NBLOCK /\ RootFits(c.img) =>
           /\ Good(c.img) /\ c.at \in Place /\ HostOf(c.at) < c.img.next
           /\ \A m \in Slot : At(c.img, c.at, m) = 0

\* The block that a struct File is in.
LEMMA HostTyped == \A f \in Place : HostOf(f) \in Int
  <1> SUFFICES ASSUME NEW b \in Block, NEW j \in 0 .. FILE2BLK - 1
               PROVE  HostOf(<<b, j>>) \in Int
    BY DEF Place
  <1> QED
    BY LayoutAssumption DEF HostOf, Block

\* create_file.
LEMMA CreateEffect ==
    ASSUME NEW img \in WideImage
    PROVE  Creates(img, create_file(img))
  <1> DEFINE places == FreePlaces(img, ROOT)
             free == {k \in DOMAIN places : img.inode[places[k]].name = ""}
             n == BlocksOf(img, ROOT)
             grown == append_block(img, ROOT, n)
             c == create_file(img)
             size == img.inode[ROOT].size
  <1>1. img.next \in Nat /\ img.inode \in [Place -> WideFile] /\ ROOT \in Place /\ size \in Nat
    <2>1. img.inode[ROOT] \in WideFile
      BY WideFields, RootPlace
    <2> QED
      BY <2>1, WideFields, RootPlace DEF WideFile
  <1>2. BY2BLK \in Nat \ {0} /\ FILE2BLK \in Nat \ {0} /\ NINDIRECT \in Nat
    BY LayoutAssumption
  <1>3. n = size \div BY2BLK /\ n \in Nat
    BY <1>1, <1>2, DivBelow DEF BlocksOf, Quotient
  <1> HIDE DEF size
  <1>4. CASE free # {}
    <2>1. c = [img |-> img, at |-> places[Min(free)]]
      BY <1>4 DEF create_file
    <2> HIDE DEF c, grown, n
    <2>2. PICK top \in Nat : top = n * FILE2BLK
      <3>1. n * FILE2BLK \in Nat
        BY <1>2, <1>3
      <3> QED
        BY <3>1
    <2>3. places = [k \in 1 .. top |-> <<Pointer(img, ROOT, (k - 1) \div FILE2BLK), (k - 1) % FILE2BLK>>]
      BY <2>2 DEF FreePlaces, n
    <2>4. DOMAIN places = 1 .. top
      BY <2>3
    <2> HIDE DEF places
    <2>15. free \in SUBSET Nat
      <3>1. free \subseteq DOMAIN places
        BY Zenon
      <3> HIDE DEF free
      <3> QED
        BY <2>4, <3>1
    <2>5. PICK k \in free : k = Min(free)
      <3>1. \E x \in free : \A y \in free : x <= y
        BY <1>4, <2>15, LeastOfNaturals
      <3> HIDE DEF free
      <3> QED
        BY <3>1 DEF Min
    <2>6. /\ k \in 1 .. top /\ k - 1 \in Nat /\ k - 1 < top
          /\ img.inode[places[k]].name = ""
      <3>1. k \in DOMAIN places /\ img.inode[places[k]].name = ""
        BY Zenon
      <3> HIDE DEF free
      <3>2. k \in 1 .. top
        BY <2>4, <3>1
      <3>3. k - 1 \in Nat /\ k - 1 < top
        BY <3>2
      <3> QED
        BY <3>1, <3>2, <3>3
    <2> DEFINE q == (k - 1) \div FILE2BLK
               j == (k - 1) % FILE2BLK
               p == Pointer(img, ROOT, q)
    <2>7. q \in Nat /\ q < n /\ j \in 0 .. FILE2BLK - 1
      <3>1. k - 1 < n * FILE2BLK
        BY <2>2, <2>6
      <3>2. Quotient(k - 1, n, FILE2BLK)
        BY <1>2, <1>3, <2>6, DivBelow
      <3> QED
        BY <3>1, <3>2 DEF Quotient
    <2>8. places[k] = <<p, j>>
      BY <2>3, <2>6
    <2> HIDE DEF q, j, places, free
    <2>9. c.img = img /\ c.at = <<p, j>>
      BY <2>1, <2>5, <2>8
    <2>10. ASSUME Good(img) PROVE c.at \in Place /\ c.at # ROOT /\ HostOf(c.at) < img.next
      <3>1. n <= NINDIRECT
        <4>1. size <= NINDIRECT * BY2BLK
          BY <2>10 DEF Good, RootFits, size
        <4>2. Quotient(size, NINDIRECT, BY2BLK)
          BY <1>1, <1>2, DivBelow
        <4> QED
          BY <1>3, <4>1, <4>2 DEF Quotient
      <3>2. q \in FileBlock /\ q \in Slot /\ q # NINDIRECT
        BY <1>2, <1>3, <2>7, <3>1 DEF FileBlock, Slot
      <3>3. At(Start(img), ROOT, q) = p /\ Start(img).free = img.next .. NBLOCK - 1
        BY <3>2, StartFields DEF At
      <3>4. p # 0 => p \in Block \ ((img.next .. NBLOCK - 1) \union Reserved)
        BY <1>1, <2>10, <3>2, <3>3 DEF Good, Tidy, Fit, Taken
      <3>5. p \in Block /\ p # 1
        BY <3>4, BlockFacts DEF Reserved
      <3>6. p < img.next
        BY <1>1, <2>10, <3>4, LayoutAssumption DEF Good, Tidy, Block
      <3> HIDE DEF p
      <3> QED
        BY <2>7, <2>9, <3>5, <3>6 DEF Place, ROOT, HostOf
    <2>11. ASSUME Good(img) PROVE \A m \in Slot : At(img, c.at, m) = 0
      <3>1. img.inode[c.at].name = ""
        BY <2>6, <2>8, <2>9
      <3> QED
        BY <2>10, <2>11, <3>1 DEF Good, Blank, Unnamed
    <2> HIDE DEF c
    <2>12. Creates(img, c)
      BY <1>1, <2>9, <2>10, <2>11 DEF Creates
    <2> QED
      BY <2>12 DEF c
  <1>5. CASE free = {}
    <2> DEFINE t == [grown EXCEPT !.inode[ROOT].size = @ + BY2BLK]
    <2>1. c = [img |-> t, at |-> <<img.next, 0>>]
      BY <1>5 DEF create_file
    <2>2. Appends(img, grown, ROOT) /\ grown.next >= img.next + 1
      BY AppendWide
    <2> HIDE DEF free, places, grown
    <2>3. /\ grown \in WideImage /\ grown.next \in Nat /\ grown.inode \in [Place -> WideFile]
          /\ grown.inode[ROOT].size = size
      BY <1>1, <2>2, WideFields DEF Appends, size
    <2>4. PICK more \in Nat : more = size + BY2BLK
      BY <1>1, <1>2
    <2>5. PICK e \in WideFile : e = [grown.inode[ROOT] EXCEPT !.size = more]
      <3>1. grown.inode[ROOT] \in WideFile
        BY <1>1, <2>3
      <3> QED
        BY <3>1 DEF WideFile
    <2>6. PICK d \in [Place -> WideFile] : d = [grown.inode EXCEPT ![ROOT] = e]
      BY <2>3
    <2>7. t = [grown EXCEPT !.inode = d]
      BY <2>3, <2>4, <2>5, <2>6
    <2> HIDE DEF t
    <2>8. t \in WideImage /\ t.inode = d /\ t.next = grown.next /\ t.mem = grown.mem
      BY <2>3, <2>7 DEF WideImage
    <2>9. /\ e.size = more /\ e.direct = grown.inode[ROOT].direct
          /\ e.indirect = grown.inode[ROOT].indirect
      <3>1. grown.inode[ROOT] \in WideFile
        BY <1>1, <2>3
      <3> QED
        BY <2>5, <3>1 DEF WideFile
    <2>10. d[ROOT] = e /\ \A g \in Place : g # ROOT => d[g] = grown.inode[g]
      BY <1>1, <2>3, <2>6
    <2>11. c.img = t /\ c.at = <<img.next, 0>>
      BY <2>1
    <2>12. ASSUME Good(img) PROVE c.at # ROOT
      BY <1>1, <2>11, <2>12 DEF Good, Tidy, ROOT
    <2>13. ASSUME Good(img), t.next <= NBLOCK, RootFits(t)
           PROVE  /\ Good(t) /\ c.at \in Place /\ HostOf(c.at) < t.next
                  /\ \A m \in Slot : At(t, c.at, m) = 0
      <3>1. more <= NINDIRECT * BY2BLK
        BY <2>8, <2>9, <2>10, <2>13 DEF RootFits
      <3>2. more \div BY2BLK = n + 1 /\ n + 1 <= NINDIRECT
        <4>1. more \div BY2BLK = n + 1
          <5>1. Quotient(size, NINDIRECT, BY2BLK)
            BY <1>1, <1>2, DivBelow
          <5> QED
            BY <1>3, <2>4, <5>1 DEF Quotient
        <4>2. more \div BY2BLK <= NINDIRECT
          <5>1. Quotient(more, NINDIRECT, BY2BLK)
            BY <1>2, DivBelow
          <5> QED
            BY <3>1, <5>1 DEF Quotient
        <4> QED
          BY <4>1, <4>2
      <3>3. n \in FileBlock
        BY <1>2, <1>3, <3>2 DEF FileBlock
      <3>4. At(img, ROOT, n) = 0
        BY <1>3, <2>13, <3>3 DEF Good, RootTail
      <3>5. /\ Tidy(grown) /\ img.next < grown.next
            /\ \A g \in Place, m \in Slot : g # ROOT \/ m \notin {n, NINDIRECT} =>
                   At(grown, g, m) = At(img, g, m)
        <4>1. grown.next <= NBLOCK
          BY <2>8, <2>13
        <4>2. n <= img.inode[ROOT].size \div BY2BLK
          BY <1>3 DEF size
        <4>3. grown = append_block(img, ROOT, n)
          BY DEF grown
        <4> HIDE DEF n
        <4> QED
          BY <1>1, <2>13, <3>3, <3>4, <4>1, <4>2, <4>3, AppendTidy DEF Good
      <3>6. ASSUME NEW g \in Place, NEW m \in FileBlock, At(grown, g, m) # 0
            PROVE  m <= d[g].size \div BY2BLK
        <4>1. m <= grown.inode[g].size \div BY2BLK
          <5>1. /\ Start(grown).inode = grown.inode
                /\ \A f, k : At(Start(grown), f, k) = At(grown, f, k)
            BY StartFields
          <5> QED
            BY <3>5, <3>6, <5>1 DEF Tidy, Fit, Covered
        <4>2. CASE g = ROOT
          <5>1. m <= n /\ d[g].size = more /\ m \in Nat
            BY <1>3, <2>3, <2>9, <2>10, <4>1, <4>2, LayoutAssumption DEF FileBlock
          <5> QED
            BY <1>3, <3>2, <5>1
        <4>3. CASE g # ROOT
          BY <2>10, <4>1, <4>3
        <4> QED
          BY <4>2, <4>3
      <3>7. Tidy(t) /\ \A g \in Place, m \in Slot : At(t, g, m) = At(grown, g, m)
        <4>1. \A g \in Place : d[g].direct = grown.inode[g].direct /\ d[g].indirect = grown.inode[g].indirect
          BY <2>9, <2>10
        <4> QED
          BY <2>3, <2>7, <3>5, <3>6, <4>1, RenamedTidy
      <3>8. Blank(t)
        <4> SUFFICES ASSUME NEW f \in Place, f # ROOT, Unnamed(t, f),
                            NEW m \in Slot
                     PROVE  At(t, f, m) = 0
          BY DEF Blank
        <4>1. t.inode[f].name = img.inode[f].name
          BY <2>2, <2>8, <2>10 DEF Appends
        <4>2. HostOf(f) >= t.next => HostOf(f) >= img.next
          <5>1. img.next < t.next
            BY <2>8, <3>5
          <5>2. img.next \in Int /\ t.next \in Int /\ HostOf(f) \in Int
            BY <1>1, <2>3, <2>8, HostTyped
          <5> QED
            BY <5>1, <5>2
        <4>3. At(img, f, m) = 0
          <5>1. Unnamed(img, f)
            BY <4>1, <4>2 DEF Unnamed
          <5> QED
            BY <2>13, <5>1 DEF Good, Blank
        <4> QED
          BY <3>5, <3>7, <4>3
      <3>9. RootTail(t)
        <4> SUFFICES ASSUME NEW m \in FileBlock, m >= BlocksOf(t, ROOT)
                     PROVE  At(t, ROOT, m) = 0
          BY DEF RootTail
        <4>1. BlocksOf(t, ROOT) = n + 1
          BY <2>8, <2>9, <2>10, <3>2 DEF BlocksOf
        <4>2. m \in Slot /\ m # NINDIRECT /\ m \in Nat /\ m # n /\ m >= n
          BY <1>3, <4>1, LayoutAssumption DEF FileBlock, Slot
        <4>3. At(img, ROOT, m) = 0
          BY <2>13, <4>2 DEF Good, RootTail
        <4> QED
          BY <1>1, <3>5, <3>7, <4>2, <4>3
      <3>10. c.at \in Place /\ HostOf(c.at) < t.next /\ HostOf(c.at) >= img.next
        <4>1. img.next \in Block /\ img.next < t.next
          BY <1>1, <2>3, <2>8, <2>13, <3>5, LayoutAssumption DEF Block
        <4>2. 0 \in 0 .. FILE2BLK - 1
          BY <1>2
        <4> QED
          BY <1>1, <2>11, <4>1, <4>2 DEF Place, HostOf
      <3>11. \A m \in Slot : At(t, c.at, m) = 0
        <4>1. \A m \in Slot : At(img, c.at, m) = 0
          BY <2>12, <2>13, <3>10 DEF Good, Blank, Unnamed
        <4> QED
          BY <2>12, <2>13, <3>5, <3>7, <3>10, <4>1
      <3> HIDE DEF c
      <3> QED
        BY <2>8, <2>13, <3>7, <3>8, <3>9, <3>10, <3>11 DEF Good
    <2>14. t.next >= img.next
      BY <1>1, <2>2, <2>3, <2>8
    <2> HIDE DEF c
    <2>15. Creates(img, c)
      BY <2>8, <2>11, <2>12, <2>13, <2>14 DEF Creates
    <2> QED
      BY <2>15 DEF c
  <1> QED
    BY <1>4, <1>5

\* A file that fsformat is given.
HostFile == [name : Names, size : 0 .. NINDIRECT * BY2BLK]

\* The name and the size of such a file.
LEMMA HostFields ==
    ASSUME NEW file \in HostFile
    PROVE  /\ file.name \in Names /\ file.name # "" /\ file.name \in Names \union {""}
           /\ file.size \in Nat /\ file.size <= NINDIRECT * BY2BLK
  <1>1. PICK top \in Nat : top = NINDIRECT * BY2BLK
    BY LayoutAssumption
  <1>2. file.name \in Names /\ file.size \in 0 .. top
    BY <1>1 DEF HostFile
  <1>3. "" \notin Names
    BY ImagesAssumption
  <1>4. file.size \in Nat /\ file.size <= top
    BY <1>2
  <1> QED
    BY <1>1, <1>2, <1>3, <1>4

\* create_file's place gets the name and the size.
NameFile(c, file) ==
    [c.img EXCEPT !.inode[c.at].name = file.name, !.inode[c.at].size = file.size]

NamesIn(img, at, file, t, d) ==
    /\ t = [img EXCEPT !.inode = d] /\ t \in WideImage
    /\ t.next = img.next /\ t.inode = d /\ t.mem = img.mem
    /\ \A g \in Place : /\ d[g].direct = img.inode[g].direct /\ d[g].indirect = img.inode[g].indirect
                        /\ g # at => d[g] = img.inode[g]
    /\ at \in Place => d[at].name = file.name /\ d[at].size = file.size

\* The struct File that is written.
LEMMA NameWide ==
    ASSUME NEW c, c.img \in WideImage, NEW file \in HostFile
    PROVE  \E d \in [Place -> WideFile] : NamesIn(c.img, c.at, file, NameFile(c, file), d)
  <1> DEFINE at == c.at
  <1>1. PICK img \in WideImage : img = c.img
    OBVIOUS
  <1>2. img.inode \in [Place -> WideFile]
    BY WideFields
  <1>3. PICK t : t = [img EXCEPT !.inode[at].name = file.name, !.inode[at].size = file.size]
    OBVIOUS
  <1> HIDE DEF at
  <1>4. CASE at \in Place
    <2>1. PICK e \in WideFile : e = [img.inode[at] EXCEPT !.name = file.name, !.size = file.size]
      <3>1. img.inode[at] \in WideFile
        BY <1>2, <1>4
      <3> QED
        BY <3>1, HostFields DEF WideFile
    <2>2. PICK d \in [Place -> WideFile] : d = [img.inode EXCEPT ![at] = e]
      BY <1>2
    <2>3. t = [img EXCEPT !.inode = d]
      BY <1>2, <1>3, <1>4, <2>1, <2>2 DEF WideImage
    <2>4. /\ e.name = file.name /\ e.size = file.size
          /\ e.direct = img.inode[at].direct /\ e.indirect = img.inode[at].indirect
      <3>1. img.inode[at] \in WideFile
        BY <1>2, <1>4
      <3> QED
        BY <2>1, <3>1 DEF WideFile
    <2>5. d[at] = e /\ \A g \in Place : g # at => d[g] = img.inode[g]
      BY <1>2, <1>4, <2>2
    <2>6. t \in WideImage /\ t.next = img.next /\ t.inode = d /\ t.mem = img.mem
      BY <2>3 DEF WideImage
    <2>7. NamesIn(img, at, file, t, d)
      BY <2>3, <2>4, <2>5, <2>6 DEF NamesIn
    <2> QED
      BY <1>1, <1>3, <2>7 DEF NameFile, at
  <1>5. CASE at \notin Place
    <2>1. PICK d \in [Place -> WideFile] : d = img.inode
      BY <1>2
    <2>2. [img.inode EXCEPT ![at].name = file.name] = d
      BY <1>2, <1>5, <2>1
    <2>3. [d EXCEPT ![at].size = file.size] = d
      BY <1>5
    <2>4. t = [img EXCEPT !.inode = d]
      BY <1>3, <2>1, <2>2, <2>3 DEF WideImage
    <2>5. t \in WideImage /\ t.next = img.next /\ t.inode = d /\ t.mem = img.mem
      BY <2>4 DEF WideImage
    <2>6. NamesIn(img, at, file, t, d)
      BY <1>5, <2>1, <2>4, <2>5 DEF NamesIn
    <2> QED
      BY <1>1, <1>3, <2>6 DEF NameFile, at
  <1> QED
    BY <1>4, <1>5

\* n blocks of the file at f, of some size, are copied.
Filling(img, f, size, n) ==
    /\ Good(img) /\ f \in Place /\ f # ROOT /\ img.inode[f].size = size
    /\ ~Unnamed(img, f) /\ \A m \in FileBlock : m >= n => At(img, f, m) = 0

\* One more block is copied.
LEMMA FillEffect ==
    ASSUME NEW img, NEW f, NEW size \in Nat, NEW n \in FileBlock, Filling(img, f, size, n),
           n <= size \div BY2BLK, NEW t, t = append_block(img, f, n), t.next <= NBLOCK
    PROVE  Filling(t, f, size, n + 1)
  <1>1. /\ img \in WideImage /\ Tidy(img) /\ Blank(img) /\ RootTail(img) /\ RootFits(img)
        /\ f \in Place /\ f # ROOT /\ img.inode[f].size = size /\ ~Unnamed(img, f)
    BY DEF Filling, Good
  <1>2. n \in Nat /\ n \in Slot /\ n # NINDIRECT /\ FileBlock \subseteq Nat
    BY LayoutAssumption DEF FileBlock, Slot
  <1>3. At(img, f, n) = 0
    BY <1>2 DEF Filling
  <1>4. /\ Tidy(t) /\ img.next < t.next
        /\ \A g \in Place, m \in Slot : g # f \/ m \notin {n, NINDIRECT} => At(t, g, m) = At(img, g, m)
    BY <1>1, <1>3, AppendTidy
  <1>5. t \in WideImage /\ \A g \in Place : /\ g # f => t.inode[g] = img.inode[g]
                                           /\ t.inode[g].name = img.inode[g].name
                                           /\ t.inode[g].size = img.inode[g].size
    BY <1>1, AppendWide DEF Appends
  <1>6. \A g \in Place : Unnamed(t, g) => Unnamed(img, g)
    <2> TAKE g \in Place
    <2>1. HostOf(g) >= t.next => HostOf(g) >= img.next
      <3>1. img.next \in Int /\ t.next \in Int /\ HostOf(g) \in Int
        BY <1>1, <1>5, WideFields, HostTyped
      <3> QED
        BY <1>4, <3>1
    <2> QED
      BY <1>5, <2>1 DEF Unnamed
  <1>7. Blank(t)
    BY <1>1, <1>4, <1>6 DEF Blank
  <1>8. RootTail(t) /\ RootFits(t)
    <2>1. t.inode[ROOT] = img.inode[ROOT] /\ ROOT \in Place
      BY <1>1, <1>5, RootPlace
    <2>2. \A m \in FileBlock : At(t, ROOT, m) = At(img, ROOT, m)
      <3>1. FileBlock \subseteq Slot
        BY LayoutAssumption DEF FileBlock, Slot
      <3> QED
        BY <1>1, <1>4, <2>1, <3>1
    <2>3. BlocksOf(t, ROOT) = BlocksOf(img, ROOT)
      BY <2>1 DEF BlocksOf
    <2> QED
      BY <1>1, <2>1, <2>2, <2>3 DEF RootTail, RootFits
  <1>9. ASSUME NEW m \in FileBlock, m >= n + 1 PROVE At(t, f, m) = 0
    <2>1. m \in Slot /\ m \notin {n, NINDIRECT} /\ m >= n
      BY <1>2, <1>9, LayoutAssumption DEF FileBlock, Slot
    <2>2. At(img, f, m) = 0
      BY <2>1 DEF Filling
    <2> QED
      BY <1>1, <1>4, <2>1, <2>2
  <1>10. Good(t)
    BY <1>4, <1>5, <1>7, <1>8 DEF Good
  <1> QED
    BY <1>1, <1>5, <1>6, <1>9, <1>10 DEF Filling

\* Before the first block.
LEMMA NameFills ==
    ASSUME NEW img, Good(img), NEW c, c = create_file(img), NEW file \in HostFile,
           NEW t, t = NameFile(c, file), t.next <= NBLOCK, RootFits(t)
    PROVE  Filling(t, c.at, file.size, 0)
  <1>1. Creates(img, c)
    BY CreateEffect DEF Good
  <1>2. c.img \in WideImage /\ c.at # ROOT
    BY <1>1 DEF Creates
  <1>3. PICK k \in WideImage : k = c.img
    BY <1>2
  <1>4. PICK f : f = c.at
    OBVIOUS
  <1>5. PICK d \in [Place -> WideFile] : NamesIn(k, f, file, t, d)
    BY <1>2, <1>3, <1>4, NameWide
  <1>6. t = [k EXCEPT !.inode = d] /\ t \in WideImage /\ t.next = k.next /\ t.inode = d
    BY <1>5 DEF NamesIn
  <1>7. /\ \A g \in Place : d[g].direct = k.inode[g].direct /\ d[g].indirect = k.inode[g].indirect
        /\ \A g \in Place : g # f => d[g] = k.inode[g]
        /\ f \in Place => d[f].name = file.name /\ d[f].size = file.size
    BY <1>5 DEF NamesIn
  <1>8. RootFits(k)
    BY <1>2, <1>4, <1>6, <1>7, RootPlace DEF RootFits
  <1>9. Good(k) /\ f \in Place /\ HostOf(f) < k.next /\ \A m \in Slot : At(k, f, m) = 0
    BY <1>1, <1>3, <1>4, <1>6, <1>8 DEF Creates
  <1>10. Tidy(k) /\ Blank(k) /\ RootTail(k)
    BY <1>9 DEF Good
  <1>11. FileBlock \subseteq Slot /\ FileBlock \subseteq Nat
    BY LayoutAssumption DEF FileBlock, Slot
  <1>12. Tidy(t) /\ \A g \in Place, m \in Slot : At(t, g, m) = At(k, g, m)
    <2>1. ASSUME NEW g \in Place, NEW m \in FileBlock, At(k, g, m) # 0
          PROVE  m <= d[g].size \div BY2BLK
      <3>1. g # f
        BY <1>9, <1>11, <2>1
      <3>2. m <= k.inode[g].size \div BY2BLK
        BY <1>10, <2>1, StartFields DEF Tidy, Fit, Covered
      <3> QED
        BY <1>7, <3>1, <3>2
    <2> QED
      BY <1>6, <1>7, <1>10, <2>1, RenamedTidy
  <1>13. \A g \in Place : Unnamed(t, g) => g # f /\ Unnamed(k, g)
    <2> TAKE g \in Place
    <2>1. HostOf(f) >= k.next => FALSE
      <3>1. HostOf(f) \in Int /\ k.next \in Int
        BY <1>9, HostTyped, WideFields
      <3> QED
        BY <1>9, <3>1
    <2> QED
      BY <1>6, <1>7, <1>9, <2>1, HostFields DEF Unnamed
  <1>14. Blank(t)
    BY <1>10, <1>12, <1>13 DEF Blank
  <1>15. RootTail(t)
    <2>1. BlocksOf(t, ROOT) = BlocksOf(k, ROOT)
      BY <1>2, <1>4, <1>6, <1>7, RootPlace DEF BlocksOf
    <2> QED
      BY <1>10, <1>11, <1>12, <2>1, RootPlace DEF RootTail
  <1>16. Good(t)
    BY <1>6, <1>12, <1>14, <1>15 DEF Good
  <1>17. \A m \in FileBlock : At(t, f, m) = 0
    BY <1>9, <1>11, <1>12
  <1> QED
    BY <1>2, <1>4, <1>6, <1>7, <1>9, <1>13, <1>16, <1>17 DEF Filling

\* The loop of write_file, one block at a time.
Copies(img, file, g) ==
    LET c == create_file(img) IN
    /\ g[0] = NameFile(c, file) /\ \A n \in Nat : g[n + 1] = append_block(g[n], c.at, n)
    /\ write_file(img, file) = g[(file.size + BY2BLK - 1) \div BY2BLK]

\* The function that write_file defines exists and is defined by its steps.
LEMMA CopyUnfold ==
    ASSUME NEW img \in WideImage, NEW file \in HostFile
    PROVE  \E g \in [Nat -> WideImage] : Copies(img, file, g)
  <1> DEFINE at == create_file(img).at
             F == [x \in WideImage \X Nat |-> append_block(x[1], at, x[2] - 1)]
             body(g, n) == IF n = 0 THEN NameFile(create_file(img), file)
                           ELSE append_block(g[n - 1], at, n - 1)
             c == CHOOSE h : h = [n \in Nat |-> body(h, n)]
  <1>1. PICK named \in WideImage : named = NameFile(create_file(img), file)
    <2>1. create_file(img).img \in WideImage
      BY CreateEffect DEF Creates
    <2> QED
      BY <2>1, NameWide DEF NamesIn
  <1>2. \A x \in WideImage : \A n : append_block(x, at, n) \in WideImage
    BY AppendWide DEF Appends
  <1> HIDE DEF at
  <1>3. F \in [WideImage \X Nat -> WideImage]
    BY <1>2
  <1>4. PICK g \in [Nat -> WideImage] : Repeats(named, F, g)
    <2> HIDE DEF F
    <2> QED
      BY <1>3, Repeated
  <1>5. \A n \in Nat : g[n] = body(g, n)
    <2> TAKE n \in Nat
    <2>1. CASE n # 0
      <3>1. n - 1 \in Nat
        BY <2>1
      <3>2. g[n - 1] \in WideImage
        BY <3>1
      <3>3. F[<<g[n - 1], n>>] = append_block(g[n - 1], at, n - 1)
        BY <3>2
      <3> QED
        BY <1>4, <2>1, <3>3 DEF Repeats
    <2> QED
      BY <1>1, <1>4, <2>1 DEF Repeats
  <1>6. c = [n \in Nat |-> body(c, n)]
    <2>1. g = [n \in Nat |-> body(g, n)]
      BY <1>5
    <2>2. \E h : h = [n \in Nat |-> body(h, n)]
      BY <2>1
    <2> QED
      BY <2>2
  <1>7. write_file(img, file) = c[(file.size + BY2BLK - 1) \div BY2BLK]
    BY DEF write_file, NameFile, at
  <1> HIDE DEF c
  <1>8. c[0] = named
    BY <1>1, <1>6
  <1>9. ASSUME NEW n \in Nat PROVE c[n + 1] = append_block(c[n], at, n)
    <2>1. n + 1 \in Nat /\ (n + 1) - 1 = n /\ n + 1 # 0
      OBVIOUS
    <2> QED
      BY <1>6, <2>1
  <1> DEFINE T == {n \in Nat : c[n] \in WideImage}
  <1>10. T = Nat
    <2>1. 0 \in T
      BY <1>8
    <2>2. \A n \in T : n + 1 \in T
      BY <1>2, <1>9
    <2>3. T \in SUBSET Nat
      OBVIOUS
    <2> HIDE DEF T
    <2> QED
      BY <2>1, <2>2, <2>3, AllNaturals
  <1>11. c \in [Nat -> WideImage]
    <2>1. \A n \in Nat : c[n] \in WideImage
      BY <1>10
    <2>2. c = [n \in Nat |-> c[n]]
      BY <1>6
    <2> QED
      BY <2>1, <2>2
  <1>12. Copies(img, file, c)
    BY <1>1, <1>7, <1>8, <1>9 DEF Copies, at
  <1> QED
    BY <1>11, <1>12

\* write_file.
LEMMA WriteEffect ==
    ASSUME NEW img, img \in WideImage, NEW file \in HostFile
    PROVE  LET t == write_file(img, file) IN
           t \in WideImage /\ (Good(img) /\ t.next <= NBLOCK /\ RootFits(t) => Good(t))
  <1> DEFINE c == create_file(img)
             size == file.size
             blocks == (size + BY2BLK - 1) \div BY2BLK
             t == write_file(img, file)
  <1>1. PICK g \in [Nat -> WideImage] : Copies(img, file, g)
    BY CopyUnfold
  <1>2. /\ g[0] = NameFile(c, file) /\ t = g[blocks]
        /\ \A n \in Nat : g[n + 1] = append_block(g[n], c.at, n)
    BY <1>1 DEF Copies
  <1>3. blocks \in Nat /\ blocks <= NINDIRECT /\ \A k \in Nat : k < blocks => k <= size \div BY2BLK
    BY HostFields, BlocksFor
  <1>4. c.img \in WideImage /\ (Good(img) => c.at # ROOT)
    BY CreateEffect DEF Creates
  <1>5. size \in Nat
    BY HostFields
  <1> HIDE DEF c, t, blocks, size
  <1> SUFFICES ASSUME Good(img), t.next <= NBLOCK, RootFits(t) PROVE Good(t)
    BY <1>2, <1>3 DEF t
  <1> DEFINE Room(n) == g[n].next <= NBLOCK /\ RootFits(g[n])
             T == {n \in Nat : n <= blocks /\ Room(n) => Filling(g[n], c.at, size, n)}
  <1>6. 0 \in T
    <2>1. Room(0) => Filling(g[0], c.at, size, 0)
      BY <1>2, NameFills DEF c, size
    <2> QED
      BY <2>1
  <1>7. ASSUME NEW n \in T PROVE n + 1 \in T
    <2>1. n \in Nat /\ n + 1 \in Nat /\ g[n] \in WideImage /\ g[n + 1] \in WideImage
      OBVIOUS
    <2> SUFFICES ASSUME n + 1 <= blocks, Room(n + 1) PROVE Filling(g[n + 1], c.at, size, n + 1)
      BY <2>1
    <2>2. g[n + 1] = append_block(g[n], c.at, n)
      BY <1>2, <2>1
    <2>3. Appends(g[n], g[n + 1], c.at) /\ g[n + 1].next >= g[n].next + 1
      BY <2>1, <2>2, AppendWide
    <2>4. Room(n)
      <3>1. g[n].next \in Nat /\ g[n + 1].next \in Nat
        BY <2>1, WideFields
      <3>2. g[n].next <= NBLOCK
        BY <2>3, <3>1, LayoutAssumption
      <3>3. RootFits(g[n])
        BY <2>3, RootPlace DEF Appends, RootFits
      <3> QED
        BY <3>2, <3>3
    <2>5. n <= blocks /\ n < blocks /\ n < NINDIRECT
      BY <1>3, <2>1, LayoutAssumption
    <2>6. Filling(g[n], c.at, size, n)
      BY <2>4, <2>5
    <2>7. n \in FileBlock /\ n <= size \div BY2BLK
      BY <1>3, <2>1, <2>5, LayoutAssumption DEF FileBlock
    <2> HIDE DEF T
    <2> QED
      BY <1>5, <2>2, <2>6, <2>7, FillEffect
  <1>8. T = Nat
    <2> HIDE DEF Room
    <2>1. T \in SUBSET Nat
      OBVIOUS
    <2> HIDE DEF T
    <2> QED
      BY <1>6, <1>7, <2>1, AllNaturals
  <1>9. Filling(t, c.at, size, blocks)
    <2>1. blocks \in T
      BY <1>3, <1>8
    <2>2. Room(blocks)
      BY <1>2
    <2> QED
      BY <1>2, <1>3, <2>1, <2>2
  <1> QED
    BY <1>9 DEF Filling

\* The disk before the first file.
LEMMA EmptyGood == Good(EmptyDisk)
  <1> DEFINE s == Start(EmptyDisk)
  <1>1. /\ EmptyDisk.next = 3 /\ EmptyDisk.inode = [f \in Place |-> EmptyFile]
        /\ EmptyDisk.mem = [b \in Block |-> NoWords]
    BY DEF EmptyDisk
  <1>2. EmptyFile \in WideFile /\ EmptyFile \in File
    <2>1. 0 \in Block
      BY BlockFacts
    <2>2. [n \in 0 .. NDIRECT - 1 |-> 0] \in [0 .. NDIRECT - 1 -> Block]
      BY <2>1
    <2> QED
      BY <2>1, <2>2 DEF EmptyFile, WideFile, File
  <1>3. NoWords \in [Indirect -> Nat] /\ NoWords \in [Indirect -> 0 .. NBLOCK]
    BY LayoutAssumption DEF NoWords
  <1>4. EmptyDisk \in WideImage
    <2>1. [f \in Place |-> EmptyFile] \in [Place -> WideFile]
      BY <1>2
    <2>2. [b \in Block |-> NoWords] \in [Block -> [Indirect -> Nat]]
      BY <1>3
    <2> QED
      BY <2>1, <2>2 DEF EmptyDisk, WideImage
  <1>5. ASSUME NEW f \in Place, NEW n \in Slot PROVE At(EmptyDisk, f, n) = 0
    <2>1. EmptyDisk.inode[f] = EmptyFile
      BY <1>1
    <2>2. EmptyFile.indirect = 0 /\ (n < NDIRECT => EmptyFile.direct[n] = 0)
      BY LayoutAssumption DEF EmptyFile, Slot
    <2> QED
      BY <2>1, <2>2 DEF At, Pointer
  <1>6. NBLOCK \in Nat /\ NBLOCK > 3
    BY LayoutAssumption
  <1>7. /\ s.free = 3 .. NBLOCK - 1 /\ s.onDisk = 3 .. NBLOCK - 1
        /\ \A f, n : At(s, f, n) = At(EmptyDisk, f, n)
    BY <1>1, StartFields
  <1>8. Sound(s)
    <2>1. 3 .. NBLOCK - 1 \in SUBSET Block /\ {0, 1, 2} \in SUBSET Block /\ 0 \in 0 .. NBLOCK
      BY <1>6 DEF Block
    <2>2. [f \in Place |-> EmptyFile] \in [Place -> File]
      BY <1>2
    <2>3. [b \in Block |-> NoWords] \in [Block -> [Indirect -> 0 .. NBLOCK]]
      BY <1>3
    <2>4. s = [free |-> 3 .. NBLOCK - 1, onDisk |-> 3 .. NBLOCK - 1,
               inode |-> [f \in Place |-> EmptyFile], mem |-> [b \in Block |-> NoWords],
               mapped |-> {0, 1, 2}, r |-> "ok", b |-> 0]
      BY <1>1 DEF Start, flush_bitmap
    <2> HIDE DEF s
    <2>5. s \in State
      BY <2>1, <2>2, <2>3, <2>4 DEF State
    <2> QED
      BY <1>7, <2>5 DEF Sound
  <1> HIDE DEF s
  <1>9. Unshared(s) /\ Covered(s)
    <2>1. FileBlock \subseteq Slot
      BY LayoutAssumption DEF FileBlock, Slot
    <2> QED
      BY <1>5, <1>7, <2>1 DEF Unshared, Covered
  <1>10. s.free \intersect Reserved = {} /\ Block \ (s.free \union Reserved) = {}
    BY <1>6, <1>7 DEF Block, Reserved
  <1>11. Fit(s, TRUE)
    BY <1>5, <1>7, <1>8, <1>9, <1>10 DEF Fit, Taken, Whole
  <1>12. Tidy(EmptyDisk)
    <2>1. 3 <= EmptyDisk.next /\ EmptyDisk.next <= NBLOCK
      BY <1>1, <1>6
    <2>2. \A b \in Block : EmptyDisk.mem[b] = NoWords
      BY <1>1
    <2> QED
      BY <1>11, <2>1, <2>2 DEF Tidy, s
  <1>13. Blank(EmptyDisk) /\ RootTail(EmptyDisk)
    <2>1. FileBlock \subseteq Slot
      BY LayoutAssumption DEF FileBlock, Slot
    <2> QED
      BY <1>5, <2>1, RootPlace DEF Blank, RootTail
  <1>14. RootFits(EmptyDisk)
    <2>1. EmptyDisk.inode[ROOT].size = 0
      <3>1. EmptyDisk.inode[ROOT] = EmptyFile
        BY <1>1, RootPlace
      <3>2. EmptyFile.size = 0
        BY DEF EmptyFile
      <3> QED
        BY <3>1, <3>2
    <2>2. NINDIRECT * BY2BLK \in Nat
      BY LayoutAssumption
    <2> QED
      BY <2>1, <2>2 DEF RootFits
  <1> QED
    BY <1>4, <1>12, <1>13, <1>14 DEF Good

\* The loop of fsformat's main, one file at a time.
LEMMA WrittenUnfold ==
    ASSUME NEW files \in Seq(HostFile)
    PROVE  /\ Written(files)[0] = EmptyDisk
           /\ \A k \in 1 .. Len(files) :
                  Written(files)[k] = write_file(Written(files)[k - 1], files[k])
  <1> DEFINE len == Len(files)
             F == [x \in WideImage \X Nat |->
                      IF x[2] \in 1 .. len THEN write_file(x[1], files[x[2]]) ELSE x[1]]
             body(g, k) == IF k = 0 THEN EmptyDisk ELSE write_file(g[k - 1], files[k])
             c == CHOOSE h : h = [k \in 0 .. Len(files) |-> body(h, k)]
  <1>1. len \in Nat /\ \A k \in 1 .. len : files[k] \in HostFile
    OBVIOUS
  <1> HIDE DEF len
  <1>2. \A x \in WideImage, file \in HostFile : write_file(x, file) \in WideImage
    BY WriteEffect
  <1>3. F \in [WideImage \X Nat -> WideImage]
    BY <1>1, <1>2
  <1>4. PICK empty \in WideImage : empty = EmptyDisk
    BY EmptyGood DEF Good
  <1>5. PICK r \in [Nat -> WideImage] : Repeats(empty, F, r)
    <2> HIDE DEF F
    <2> QED
      BY <1>3, Repeated
  <1> DEFINE g == [k \in 0 .. len |-> r[k]]
  <1>6. \A k \in 0 .. len : g[k] = body(g, k)
    <2> TAKE k \in 0 .. len
    <2>1. CASE k # 0
      <3>1. k - 1 \in 0 .. len /\ k - 1 \in Nat /\ k \in Nat /\ k \in 1 .. len
        BY <1>1, <2>1
      <3>2. r[k - 1] \in WideImage
        BY <3>1
      <3>3. F[<<r[k - 1], k>>] = write_file(r[k - 1], files[k])
        BY <3>1, <3>2
      <3>4. r[k] = F[<<r[k - 1], k>>]
        BY <1>5, <2>1, <3>1 DEF Repeats
      <3> QED
        BY <2>1, <3>1, <3>3, <3>4
    <2>2. CASE k = 0
      BY <1>1, <1>4, <1>5, <2>2 DEF Repeats
    <2> QED
      BY <2>1, <2>2
  <1>7. c = [k \in 0 .. Len(files) |-> body(c, k)]
    <2>1. g = [k \in 0 .. Len(files) |-> body(g, k)]
      BY <1>6 DEF len
    <2>2. \E h : h = [k \in 0 .. Len(files) |-> body(h, k)]
      BY <2>1
    <2> QED
      BY <2>2
  <1>8. Written(files) = c
    BY DEF Written
  <1> HIDE DEF c
  <1>9. c[0] = EmptyDisk
    BY <1>1, <1>7 DEF len
  <1>10. \A k \in 1 .. Len(files) : c[k] = write_file(c[k - 1], files[k])
    <2> TAKE k \in 1 .. Len(files)
    <2>1. k \in 0 .. Len(files) /\ k # 0
      BY <1>1 DEF len
    <2> QED
      BY <1>7, <2>1
  <1> QED
    BY <1>8, <1>9, <1>10

\* Every image fsformat makes is fit for the server.
LEMMA ImageGood ==
    ASSUME NEW files \in Images
    PROVE  Good(Image(files))
  <1>1. files \in Seq(HostFile)
    BY ImagesAssumption DEF HostFile
  <1>2. PICK len \in Nat : len = Len(files)
    BY <1>1
  <1> DEFINE w == Written(files)
             T == {k \in Nat : k <= len => Good(w[k])}
  <1>3. /\ w[0] = EmptyDisk
        /\ \A k \in 1 .. len : w[k] = write_file(w[k - 1], files[k]) /\ files[k] \in HostFile
    BY <1>1, <1>2, WrittenUnfold
  <1>4. \A k \in 1 .. len : w[k].next <= NBLOCK /\ RootFits(w[k])
    BY <1>2, ImagesAssumption DEF RootFits
  <1> HIDE DEF w
  <1>5. 0 \in T
    BY <1>3, EmptyGood
  <1>6. ASSUME NEW k \in T PROVE k + 1 \in T
    <2>1. k \in Nat /\ (k + 1) - 1 = k /\ k + 1 \in Nat
      OBVIOUS
    <2> SUFFICES ASSUME k + 1 <= len PROVE Good(w[k + 1])
      BY <2>1
    <2>2. Good(w[k]) /\ k + 1 \in 1 .. len
      BY <2>1
    <2>3. w[k + 1] = write_file(w[k], files[k + 1]) /\ files[k + 1] \in HostFile
      BY <1>3, <2>1, <2>2
    <2>4. w[k + 1].next <= NBLOCK /\ RootFits(w[k + 1])
      BY <1>4, <2>2
    <2>5. w[k] \in WideImage
      BY <2>2 DEF Good
    <2> HIDE DEF T
    <2> QED
      BY <2>2, <2>3, <2>4, <2>5, WriteEffect
  <1>7. T = Nat
    <2>1. T \in SUBSET Nat
      OBVIOUS
    <2> HIDE DEF T
    <2> QED
      BY <1>5, <1>6, <2>1, AllNaturals
  <1>8. Good(w[len])
    BY <1>7
  <1> QED
    BY <1>2, <1>8 DEF Image, w

\* The server starts in a state that satisfies the invariant.
LEMMA InitHolds == ASSUME Init PROVE IInv
  <1>1. PICK files \in Images : fs = Start(Image(files))
    BY DEF Init, Start
  <1>2. Fit(fs, TRUE)
    BY <1>1, ImageGood DEF Good, Tidy
  <1>3. fs \in State /\ fs.onDisk \subseteq fs.free
    BY <1>2 DEF Fit, Sound
  <1>4. /\ opened = {} /\ server = "serving"
        /\ beyond = FALSE /\ stale = FALSE /\ rewritten = FALSE
    BY DEF Init
  <1>5. Housed(fs, opened)
    BY <1>4 DEF Housed
  <1> QED
    BY <1>2, <1>3, <1>4, <1>5 DEF IInv, TypeOK

-----------------------------------------------------------------------------
(* What holds in every state.                                              *)

\* The invariant holds in every state.
LEMMA SpecInvariant == Spec => []IInv
  <1>1. Init => IInv
    BY InitHolds
  <1>2. IInv /\ [Next]_vars => IInv'
    BY NextKeeps
  <1> QED
    BY <1>1, <1>2, PTL DEF Spec

\* The variables keep their types (fs/fs.c).
THEOREM TypesHold == Spec => []TypeOK
  <1>1. IInv => TypeOK
    BY DEF IInv
  <1> QED
    BY <1>1, SpecInvariant, PTL

\* No block that a file uses is free in the bitmap on the disk
\* (alloc_block_num, free_block, write_block).
THEOREM DiskBitmapIsSafe == Spec => []DiskBitmapSafe
  <1>1. IInv => DiskBitmapSafe
    BY DEF IInv, DiskBitmapSafe
  <1> QED
    BY <1>1, SpecInvariant, PTL

\* The blocks of the properties are those of this module.
LEMMA BlockAt == \A f \in Place, n \in Slot : BlockOf(<<f, n>>) = At(fs, f, n)
  BY DEF BlockOf, At

\* No two files, nor one twice, have the same block, until an indirect block
\* is made of a block with words in it or the root directory is changed as a
\* file (file_map_block, file_truncate).
THEOREM NoBlockIsShared == Spec => []BlocksUnsharedIfClean
  <1>1. ASSUME IInv PROVE BlocksUnsharedIfClean
    <2> SUFFICES ASSUME Followed,
                        NEW f \in Place, NEW n \in Slot, NEW g \in Place, NEW m \in Slot,
                        At(fs, f, n) # 0, At(fs, f, n) = At(fs, g, m)
                 PROVE  f = g /\ n = m
      BY BlockAt DEF BlocksUnsharedIfClean, BlocksUnshared, Uses, Use, Slot
    <2>1. Unshared(fs)
      BY <1>1 DEF IInv, Fit
    <2> QED
      BY <2>1 DEF Unshared
  <1> QED
    BY <1>1, SpecInvariant, PTL

\* The blocks that files use.
LEMMA UsedAt == Used = {At(fs, u[1], u[2]) : u \in {v \in Place \X Slot : At(fs, v[1], v[2]) # 0}}
  BY DEF Used, Uses, Use, Slot, BlockOf, At

\* A block that a file uses is neither free nor reserved, open files keep the
\* blocks their struct File is in, with the root directory open as well, and no
\* request makes the server panic on a block (read_block, file_truncate).
THEOREM UsedBlocksAreTaken == Spec => []UsedBlocksTaken
  <1>1. ASSUME IInv, Followed
        PROVE  Used \intersect (fs.free \union Reserved) = {} /\ OpenFilesKept
    <2>1. Taken(fs) /\ Housed(fs, opened)
      BY <1>1 DEF IInv, Fit
    <2>2. Used \intersect (fs.free \union Reserved) = {}
      BY <2>1, UsedAt DEF Taken
    <2>3. ASSUME NEW p \in opened PROVE p[1] \notin fs.free
      <3>1. CASE p = ROOT
        BY <2>1, <3>1 DEF Taken, ROOT, Reserved
      <3>2. CASE p # ROOT
        BY <2>1, <3>2, RootPlace DEF Housed, Holds, Taken
      <3> QED
        BY <3>1, <3>2
    <2> QED
      BY <2>2, <2>3 DEF OpenFilesKept
  <1>2. IInv => UsedBlocksTaken
    BY <1>1 DEF UsedBlocksTaken, IInv
  <1> QED
    BY <1>2, SpecInvariant, PTL

\* Every block that is taken belongs to a file, as long as clients map only
\* what their files' sizes cover (file_truncate, alloc_block).
THEOREM NothingIsLeaked == Spec => []NothingLeaks
  <1>1. ASSUME IInv, Followed, ~beyond PROVE Block \ fs.free = Used \union Reserved
    <2>1. Taken(fs) /\ Whole(fs)
      BY <1>1 DEF IInv, Fit
    <2>2. Used \subseteq Block \ fs.free
      BY <2>1, UsedAt DEF Taken
    <2>3. Reserved \subseteq Block \ fs.free
      BY <2>1, BlockFacts DEF Taken
    <2>4. ASSUME NEW b \in Block \ (fs.free \union Reserved) PROVE b \in Used
      <3>1. PICK f \in Place, n \in Slot : At(fs, f, n) = b
        BY <2>1 DEF Whole
      <3>2. b # 0
        BY DEF Reserved
      <3>3. PICK u \in Place \X Slot : u[1] = f /\ u[2] = n
        <4>1. <<f, n>> \in Place \X Slot
          OBVIOUS
        <4> QED
          BY <4>1
      <3> QED
        BY <3>1, <3>2, <3>3, UsedAt
    <2> QED
      BY <2>2, <2>3, <2>4
  <1>2. IInv => NothingLeaks
    BY <1>1 DEF NothingLeaks
  <1> QED
    BY <1>2, SpecInvariant, PTL

=============================================================================
