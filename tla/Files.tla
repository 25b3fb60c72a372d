-------------------------------- MODULE Files --------------------------------
(***************************************************************************)
(* The file system of the file server (fs/fs.c): the bitmap, the pointers  *)
(* from files to blocks, and what opening, mapping, resizing and removing  *)
(* a file do to them, one action per call that the server makes of the     *)
(* file layer.  file_create is none of them: nothing calls it.             *)
(*                                                                         *)
(* The kernel below it is taken at its word here: a block brought into     *)
(* memory stays there, readable and writable, and a page that is allocated *)
(* is zero.  The disk is what fsformat made (module Format).               *)
(*                                                                         *)
(* Each function is an operator from the state s of the file system to the *)
(* next one, which also holds its result r and, where it returns a block,  *)
(* the block b.                                                            *)
(***************************************************************************)
EXTENDS Format

CONSTANTS
    Images,         \* what fsformat was run on: sequences of [name, size]
    Paths,          \* paths that the server looks up: sequences of components
    Sizes,          \* sizes a client sets
    Contents        \* what programs store in a block, read as block pointers

\* A component of MAXNAMELEN bytes or more.
LONG == "long"

ASSUME ClientAssumption ==
    /\ Paths \subseteq Seq(Names \union {LONG})
    /\ Sizes \subseteq Nat /\ Contents \subseteq [Indirect -> 0 .. NBLOCK]

\* The images are ones that fsformat makes: it asserts that no file has more
\* than NINDIRECT blocks, and has room for NBLOCK.
ASSUME ImagesAssumption ==
    /\ "" \notin Names
    /\ \A files \in Images :
        /\ files \in Seq([name : Names, size : 0 .. NINDIRECT * BY2BLK])
        /\ \A k \in 1 .. Len(files) : LET img == Written(files)[k] IN
            img.next <= NBLOCK /\ img.inode[ROOT].size <= NINDIRECT * BY2BLK

VARIABLES
    fs,             \* the state of the file system, see Fields
    opened,         \* the places of files that clients have open
    server,         \* "serving", "hung" or "panic"
    beyond,         \* history: a client mapped a block beyond the file's size
    stale,          \* history: a block with words in it became an indirect block
    rewritten       \* history: the root directory was changed as if it were a file

vars == <<fs, opened, server, beyond, stale, rewritten>>

\* free is the bitmap in memory, onDisk its copy on the disk; mapped are the
\* blocks in memory.
Init ==
    /\ \E files \in Images : LET img == Image(files) IN
        fs = [free |-> flush_bitmap(img), onDisk |-> flush_bitmap(img),
              inode |-> img.inode, mem |-> img.mem, mapped |-> {0, 1, 2},
              r |-> "ok", b |-> 0]
    /\ opened = {} /\ server = "serving"
    /\ beyond = FALSE /\ stale = FALSE /\ rewritten = FALSE

Return(s, r) == [s EXCEPT !.r = r]
Ok(s) == s.r = "ok"

\* A call whose caller returns at once when it fails.
Then(s, Rest(_)) == IF Ok(s) THEN Rest(s) ELSE s

-----------------------------------------------------------------------------
(* Blocks.                                                                 *)

block_is_free(s, b) == b < NBLOCK /\ b \in s.free

block_is_mapped(s, b) == b \in s.mapped

\* With no page for the block the machine stops in ide_read: kernelTrap goes
\* back to the access that faults, and no state follows.
read_block(s, b) ==
    IF b >= NBLOCK \/ block_is_free(s, b) THEN Return(s, "panic")
    ELSE [s EXCEPT !.mapped = @ \union {b}, !.b = b, !.r = "ok"]

\* The bitmap block is not written.
free_block(s, b) == IF b = 0 \/ b >= NBLOCK THEN s ELSE [s EXCEPT !.free = @ \union {b}]

\* Of the blocks that are written only the bitmap is followed on the disk.
write_block(s) == [s EXCEPT !.onDisk = s.free]

\* Mutant: the bitmap stays in memory.
AllocUnwritten(s) ==
    LET b == Min(s.free \ Reserved) IN
    IF s.free \subseteq Reserved THEN Return(s, "no_disk")
    ELSE [s EXCEPT !.free = @ \ {b}, !.b = b, !.r = "ok"]

\* The bitmap block is written with whatever was freed before.
alloc_block_num(s) ==
    LET b == Min(s.free \ Reserved) IN
    IF s.free \subseteq Reserved THEN Return(s, "no_disk")
    ELSE write_block([s EXCEPT !.free = @ \ {b}, !.b = b, !.r = "ok"])

\* The words of a block that was in memory before stay in it.  memory is
\* whether the kernel has a page for one that was not.
map_block(s, b, memory) ==
    IF block_is_mapped(s, b) \/ memory THEN [s EXCEPT !.mapped = @ \union {b}]
    ELSE Return(s, "no_mem")

\* A block that cannot be mapped is given back.
alloc_block(s, memory) ==
    Then(alloc_block_num(s), LAMBDA a :
        IF Ok(map_block(a, a.b, memory)) THEN map_block(a, a.b, memory)
        ELSE free_block(Return(a, "no_mem"), a.b))

-----------------------------------------------------------------------------
(* The pointers of a file.                                                 *)

\* Makes and reads the indirect block if n needs one.
file_block_walk(s, f, n, alloc, memory) ==
    IF n < NDIRECT THEN Return(s, "ok")
    ELSE IF n >= NINDIRECT THEN Return(s, "inval")
    ELSE IF s.inode[f].indirect # 0 THEN read_block(s, s.inode[f].indirect)
    ELSE IF ~alloc THEN Return(s, "not_found")
    ELSE Then(alloc_block(s, memory), LAMBDA a :
            read_block([a EXCEPT !.inode[f].indirect = a.b], a.b))

\* *ppdiskbno = b.
SetPointer(s, f, n, b) ==
    IF n < NDIRECT THEN [s EXCEPT !.inode[f].direct[n] = b]
    ELSE [s EXCEPT !.mem[s.inode[f].indirect][n] = b]

\* Which of the two allocations of a call the kernel has a page for.
Memory == SUBSET {"indirect", "data"}

file_map_block(s, f, n, memory) ==
    Then(file_block_walk(s, f, n, TRUE, "indirect" \in memory), LAMBDA w :
        IF Pointer(w, f, n) # 0 THEN [w EXCEPT !.b = Pointer(w, f, n)]
        ELSE Then(alloc_block(w, "data" \in memory), LAMBDA a : SetPointer(a, f, n, a.b)))

\* Mutant: the pointer keeps pointing at the block.
ClearKeepsPointer(s, f, n) ==
    Then(file_block_walk(s, f, n, FALSE, FALSE), LAMBDA w : free_block(w, Pointer(w, f, n)))

file_clear_block(s, f, n) ==
    Then(file_block_walk(s, f, n, FALSE, FALSE), LAMBDA w :
        IF Pointer(w, f, n) = 0 THEN w
        ELSE SetPointer(free_block(w, Pointer(w, f, n)), f, n, 0))

\* Also file_dirty, which reads and writes a byte of the block.
file_get_block(s, f, n, memory) ==
    Then(file_map_block(s, f, n, memory), LAMBDA m : read_block(m, m.b))

\* Clears the blocks from new to old - 1; the walk may panic.
ClearBlocks(s, f, new, old) ==
    LET cleared[n \in Nat] ==
            IF n = 0 THEN Return(s, "ok")
            ELSE IF cleared[n - 1].r = "panic" THEN cleared[n - 1]
            ELSE file_clear_block(cleared[n - 1], f, new + (n - 1))
    IN  cleared[old - new]

\* Mutant: the last block of the old size is forgotten.
OldBlocksRounded(s, f) == s.inode[f].size \div BY2BLK

OldBlocks(s, f) == s.inode[f].size \div BY2BLK + 1

\* Mutant: the pointer to the indirect block is not cleared.
IndirectStays(s, f) == free_block(s, s.inode[f].indirect)

FreeIndirect(s, f) == [free_block(s, s.inode[f].indirect) EXCEPT !.inode[f].indirect = 0]

\* What follows the loop of file_truncate, which left c.
Shortened(c, f, new, newsize) ==
    IF c.r = "panic" THEN c
    ELSE [(IF new <= NDIRECT THEN FreeIndirect(c, f) ELSE c)
            EXCEPT !.inode[f].size = newsize, !.r = "ok"]

file_truncate(s, f, newsize) ==
    LET new == IF newsize = 0 THEN 0 ELSE newsize \div BY2BLK + 1
    IN  Shortened(ClearBlocks(s, f, new, OldBlocks(s, f)), f, new, newsize)

\* Growing a file takes no block.  The flush of the directory that follows
\* writes blocks and changes no pointer.
file_set_size(s, f, newsize) ==
    LET t == IF s.inode[f].size > newsize THEN file_truncate(s, f, newsize)
             ELSE Return(s, "ok")
    IN  [t EXCEPT !.inode[f].size = newsize]

-----------------------------------------------------------------------------
(* Names.                                                                  *)

\* memcpy(p, name, path - p) copies the empty name over the path, not the
\* component into the name: every component is looked up as "".
ComponentName(name) == ""

\* The places of the directory's block i.
PlacesOf(b) == {<<b, j>> : j \in 0 .. FILE2BLK - 1}
FirstNamed(s, b, name) ==
    LET found == {j \in 0 .. FILE2BLK - 1 : s.inode[<<b, j>>].name = name} IN
    IF found = {} THEN {} ELSE {<<b, Min(found)>>}

\* A step of the loop: at = {place} in the block that g brought, if it is there.
Found(g, name) == [s |-> g, at |-> IF Ok(g) THEN FirstNamed(g, g.b, name) ELSE {}]

\* After the loop.
OrNotFound(t) == IF Ok(t.s) /\ t.at = {} THEN [t EXCEPT !.s.r = "not_found"] ELSE t

\* A block the directory does not have yet is allocated on the way.
dir_lookup(s, dir, name, memory) ==
    LET looked[i \in Nat] ==
            IF i = 0 THEN [s |-> Return(s, "ok"), at |-> {}]
            ELSE IF looked[i - 1].at # {} \/ ~Ok(looked[i - 1].s) THEN looked[i - 1]
            ELSE Found(file_get_block(looked[i - 1].s, dir, i - 1, memory), name)
    IN  OrNotFound(looked[BlocksOf(s, dir)])

\* After the first component: what is below a file fails, as no struct File but
\* the root's has the type of a directory.
Below(t, rest) ==
    IF rest = <<>> \/ ~Ok(t.s) THEN [s |-> t.s, at |-> IF rest = <<>> THEN t.at ELSE {}]
    ELSE [s |-> Return(t.s, IF rest[1] = LONG THEN "bad_path" ELSE "not_found"), at |-> {}]

\* A path of slashes, or none, leads to the root directory.
walk_path(s, path, memory) ==
    IF path = <<>> THEN [s |-> Return(s, "ok"), at |-> {ROOT}]
    ELSE IF path[1] = LONG THEN [s |-> Return(s, "bad_path"), at |-> {}]
    ELSE Below(dir_lookup(s, ROOT, ComponentName(path[1]), memory), Tail(path))

-----------------------------------------------------------------------------
(* The calls.                                                              *)

\* The state that a call leaves behind: results are not part of it.
After(s) == [s EXCEPT !.r = "ok", !.b = 0]

\* The server goes on unless the call panicked.
Serve(s) ==
    /\ fs' = After(s)
    /\ server' = IF s.r = "panic" THEN "panic" ELSE "serving"

\* An indirect block taken by this step held words already.
BecameStale(s) == \E f \in Place :
    LET i == s.inode[f].indirect IN
    i # 0 /\ i # fs.inode[f].indirect /\ fs.mem[i] # NoWords

\* The path is not the client's: memcpy copies serve_open's buffer over the one
\* in the request, and what the stack held is looked up.  It has no room for a
\* long component.  serve_open loops for ever when the file is not found.
file_open == \E path \in Paths, memory \in Memory :
    \E w \in {walk_path(fs, path, memory)} :
        /\ server = "serving" /\ LONG \notin Range(path)
        /\ fs' = After(w.s)
        /\ opened' = opened \union w.at
        /\ server' = IF Ok(w.s) THEN "serving" ELSE IF w.s.r = "panic" THEN "panic" ELSE "hung"
        /\ stale' = (stale \/ BecameStale(w.s))
        /\ UNCHANGED <<beyond, rewritten>>

\* serve_map and serve_dirty: the offset is the client's.
GetBlock == \E f \in opened, n \in 0 .. NINDIRECT, memory \in Memory :
    \E t \in {file_get_block(fs, f, n, memory)} :
        /\ server = "serving"
        /\ Serve(t)
        /\ stale' = (stale \/ BecameStale(t))
        /\ beyond' = (beyond \/ n > fs.inode[f].size \div BY2BLK)
        /\ UNCHANGED <<opened, rewritten>>

SetSize == \E f \in opened, size \in Sizes :
    /\ server = "serving"
    /\ Serve(file_set_size(fs, f, size))
    /\ rewritten' = (rewritten \/ f = ROOT)
    /\ UNCHANGED <<opened, beyond, stale>>

\* file_remove truncates the file that the path leads to and clears its name.
Removed(w) ==
    IF ~Ok(w.s) THEN w.s
    ELSE LET f == CHOOSE at \in w.at : TRUE
         IN  Then(file_truncate(w.s, f, 0), LAMBDA t : [t EXCEPT !.inode[f].name = ""])

\* Its path is what serve_remove's buffer held, as in file_open.
file_remove == \E path \in Paths, memory \in Memory :
    \E w \in {walk_path(fs, path, memory)} :
        /\ server = "serving"
        /\ Serve(Removed(w))
        /\ stale' = (stale \/ BecameStale(w.s))
        /\ rewritten' = (rewritten \/ ROOT \in w.at)
        /\ UNCHANGED <<opened, beyond>>

\* The bitmap block is written with all the others.
fs_sync ==
    /\ server = "serving"
    /\ fs' = write_block(fs)
    /\ UNCHANGED <<opened, server, beyond, stale, rewritten>>

\* The program writes to the block it has mapped, which is the server's page.
ClientStore == \E f \in opened, n \in FileBlock, words \in Contents :
    /\ server = "serving"
    /\ Pointer(fs, f, n) \in Block \ {0}
    /\ fs' = [fs EXCEPT !.mem[Pointer(fs, f, n)] = words]
    /\ rewritten' = (rewritten \/ f = ROOT)
    /\ UNCHANGED <<opened, server, beyond, stale>>

Next == file_open \/ GetBlock \/ SetSize \/ file_remove \/ fs_sync \/ ClientStore

Spec == Init /\ [][Next]_vars

-----------------------------------------------------------------------------
(* Properties.                                                             *)

\* A file's uses of blocks: <<f, n>> for the file block n, <<f, NINDIRECT>>
\* for the indirect block.
Use == Place \X (0 .. NINDIRECT)
BlockOf(u) ==
    IF u[2] = NINDIRECT THEN fs.inode[u[1]].indirect ELSE Pointer(fs, u[1], u[2])
Uses == {u \in Use : BlockOf(u) # 0}
Used == {BlockOf(u) : u \in Uses}

\* A struct File and a state of the file system.
File == [name : Names \union {""}, size : Nat,
         direct : [0 .. NDIRECT - 1 -> Block], indirect : Block]
State == [free : SUBSET Block, onDisk : SUBSET Block, mapped : SUBSET Block,
          inode : [Place -> File], mem : [Block -> [Indirect -> 0 .. NBLOCK]],
          r : {"ok", "panic", "no_disk", "no_mem", "inval", "not_found", "bad_path"},
          b : 0 .. NBLOCK]

\* The types of the variables.
TypeOK ==
    /\ fs \in State /\ opened \subseteq Place
    /\ server \in {"serving", "hung", "panic"}
    /\ beyond \in BOOLEAN /\ stale \in BOOLEAN /\ rewritten \in BOOLEAN

\* What programs write is neither a block's pointers nor a struct File: the
\* model does not follow what the server makes of it, which may be anything.
Followed == ~stale /\ ~rewritten

\* No two files, nor a file twice, have the same block, whatever was allocated,
\* truncated and allocated again (alloc_block, file_truncate).
BlocksUnshared == \A u, v \in Uses : u # v => BlockOf(u) # BlockOf(v)

\* The same, until a block that a program wrote words to is allocated as an
\* indirect block, which file_block_walk does not clear, or the root directory
\* is resized, removed or stored to, which takes a path of slashes only.
BlocksUnsharedIfClean == Followed => BlocksUnshared

\* The struct File of an open file is in a block that is taken: truncation frees
\* only what nothing uses any more (file_truncate).
OpenFilesKept == \A f \in opened : f[1] \notin fs.free

\* A block that a file points to is marked as used and is not the boot, super or
\* bitmap block, open files keep theirs, even with the root directory open as
\* well, and no request makes the server panic on a block (read_block).
UsedBlocksTaken ==
    Followed => /\ Used \intersect (fs.free \union Reserved) = {}
                /\ OpenFilesKept
                /\ server # "panic"

\* As long as clients map only what their files' sizes cover, every block that
\* is taken belongs to a file: truncation, removal and every failed allocation
\* give back what they should (file_truncate, alloc_block).
NothingLeaks ==
    Followed /\ ~beyond => Block \ fs.free = Used \union Reserved

\* The bitmap on the disk, which a restart reads, never has as free a block
\* that is used: a block is taken on the disk before it is linked, and given
\* back there only later (alloc_block_num, free_block).
DiskBitmapSafe == Followed => fs.onDisk \subseteq fs.free

=============================================================================
