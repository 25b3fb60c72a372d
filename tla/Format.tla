------------------------------- MODULE Format -------------------------------
(***************************************************************************)
(* The layout of the disk and the image tool/fsformat.c makes: the blocks  *)
(* as words, the files with their block pointers, and the tool's           *)
(* allocation of blocks to the files it copies into the root directory.    *)
(*                                                                         *)
(* An image is a record: next is nextbno, inode the struct Files by the    *)
(* place they are in, mem the words of the blocks that hold pointers.      *)
(* The bytes of the files are not modelled.  struct File has no f_dir      *)
(* here: every file is in the root directory, the only directory the code  *)
(* can make.                                                               *)
(***************************************************************************)
EXTENDS Integers, Sequences, SequencesExt

CONSTANTS
    NBLOCK,         \* blocks of the disk, 1024
    NDIRECT,        \* direct pointers of a file, 10
    NINDIRECT,      \* blocks a file can have, 1024
    BY2BLK,         \* bytes of a block, 4096
    FILE2BLK,       \* struct Files of a block
    Names           \* names of files

ASSUME LayoutAssumption ==
    /\ NBLOCK \in Nat /\ NDIRECT \in Nat /\ NINDIRECT \in Nat /\ NDIRECT < NINDIRECT
    /\ BY2BLK \in Nat \ {0} /\ FILE2BLK \in Nat \ {0} /\ NBLOCK > 3

\* Block 0 is for the boot sector, 1 is the super block, 2 the bitmap (the
\* disks modelled need one bitmap block).  0 is also the pointer to no block.
Block == 0 .. NBLOCK - 1
Reserved == 0 .. 2

FileBlock == 0 .. NINDIRECT - 1
Indirect == NDIRECT .. NINDIRECT - 1

\* The word that the file block n >= NDIRECT has in the indirect block.
NoWords == [n \in Indirect |-> 0]

\* Where a struct File is: a block and the place in it.  The root directory's
\* is in the super block.
Place == Block \X (0 .. FILE2BLK - 1)
ROOT == <<1, 0>>

EmptyFile == [name |-> "", size |-> 0, direct |-> [n \in 0 .. NDIRECT - 1 |-> 0],
              indirect |-> 0]

\* The pointer to the file block n of the file at f, 0 if there is none.
Pointer(img, f, n) ==
    IF n < NDIRECT THEN img.inode[f].direct[n]
    ELSE IF img.inode[f].indirect = 0 THEN 0
    ELSE img.mem[img.inode[f].indirect][n]

EmptyDisk == [next |-> 3, inode |-> [f \in Place |-> EmptyFile],
              mem |-> [b \in Block |-> NoWords]]

\* The block number is the caller's img.next.
next_block(img) == [img EXCEPT !.next = @ + 1]

save_block_link(img, f, n, b) ==
    LET i == img.inode[f].indirect IN
    IF n < NDIRECT THEN [img EXCEPT !.inode[f].direct[n] = b]
    ELSE IF i # 0 THEN [img EXCEPT !.mem[i][n] = b]
    ELSE [next_block(img) EXCEPT !.inode[f].indirect = img.next, !.mem[img.next][n] = b]

\* The next block of f.
append_block(img, f, n) == save_block_link(next_block(img), f, n, img.next)

\* The first place without a name in the blocks of the directory, or the first
\* place of a block that make_link_block adds.
BlocksOf(img, d) == img.inode[d].size \div BY2BLK

FreePlaces(img, d) ==
    [k \in 1 .. BlocksOf(img, d) * FILE2BLK |->
        <<Pointer(img, d, (k - 1) \div FILE2BLK), (k - 1) % FILE2BLK>>]

create_file(img) ==
    LET places == FreePlaces(img, ROOT)
        free == {k \in DOMAIN places : img.inode[places[k]].name = ""}
        grown == append_block(img, ROOT, BlocksOf(img, ROOT))
    IN  IF free # {} THEN [img |-> img, at |-> places[Min(free)]]
        ELSE [img |-> [grown EXCEPT !.inode[ROOT].size = @ + BY2BLK],
              at |-> <<img.next, 0>>]

\* Copies one file of the given size.
write_file(img, file) ==
    LET c == create_file(img)
        named == [c.img EXCEPT !.inode[c.at].name = file.name,
                               !.inode[c.at].size = file.size]
        blocks == (file.size + BY2BLK - 1) \div BY2BLK
        copied[n \in Nat] ==
            IF n = 0 THEN named ELSE append_block(copied[n - 1], c.at, n - 1)
    IN  copied[blocks]

\* The images before the first and after each file of a sequence.
Written(files) ==
    LET written[k \in 0 .. Len(files)] ==
            IF k = 0 THEN EmptyDisk ELSE write_file(written[k - 1], files[k])
    IN  written

Image(files) == Written(files)[Len(files)]

\* Mutant: the bit after the last block is left set.
FlushOffByOne(img) == img.next .. NBLOCK

\* init_disk frees every block and flush_bitmap takes the ones given out.
flush_bitmap(img) == img.next .. NBLOCK - 1

=============================================================================
