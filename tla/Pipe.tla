-------------------------------- MODULE Pipe --------------------------------
(***************************************************************************)
(* A pipe between processes of one family (user/lib/pipe.c with close,     *)
(* read and write of user/lib/fd.c): the ring buffer in a page they share, *)
(* and the test for the end of the pipe, which compares the reference      *)
(* counts of two pages read by two system calls.                           *)
(*                                                                         *)
(* An end is open in a process through two mappings, of the descriptor's   *)
(* page and of the pipe's page at the descriptor's data address.  A page's *)
(* reference count is the number of its mappings plus one for each page    *)
(* directory in the system, since every directory maps all of the RAM.     *)
(*                                                                         *)
(* System calls are atomic and the library is interrupted anywhere.  The   *)
(* module takes for granted that a page mapped with PTE_V|PTE_R|PTE_G can  *)
(* be used by the programs and is shared by fork.                          *)
(***************************************************************************)
EXTENDS Integers, Sequences, FiniteSets

CONSTANTS
    Proc,           \* the processes that may come to hold ends of the pipe
    Creator,        \* the one that called pipe()
    Reader,         \* the one that reads
    Writer,         \* the one that writes
    BY2PIPE,        \* bytes of the ring buffer, 32
    MaxCount,       \* bound on the n of a read or a write
    MaxBytes,       \* bound on the bytes ever written
    MaxOthers       \* bound on the other processes that come or go

ASSUME ProcAssumption == IsFiniteSet(Proc) /\ {Creator, Reader, Writer} \subseteq Proc
ASSUME SizeAssumption ==
    /\ BY2PIPE \in Nat \ {0} /\ MaxCount \in Nat /\ MaxBytes \in Nat
    /\ MaxOthers \in Nat

End == {"read", "write"}

ReadPlace == {"read", "read_pfd", "read_pfp", "read_advance"}
WritePlace == {"write", "write_pfd", "write_pfp", "write_advance"}
Place == {"none", "user", "close"} \union ReadPlace \union WritePlace

VARIABLES
    fdMapped,   \* the descriptor pages each process has mapped, by end
    dataMapped, \* the pipe page's mappings in each process, by end
    others,     \* page directories of the other processes, relative to the start
    events,     \* counts the changes of others
    p_rpos,     \* bytes read
    p_wpos,     \* bytes written
    p_buf,      \* the ring; the k-th byte ever written is the number k
    pc,         \* where each process is
    n,          \* the argument n of its call
    i,          \* the loop counter of its call
    pfd,        \* _pipeisclosed's first count
    got,        \* history: the bytes the reader took, in order
    raced       \* history: while a process was in _pipeisclosed a reference
                \* that its first count included went away

pages == <<fdMapped, dataMapped, others, events>>
ring == <<p_rpos, p_wpos, p_buf>>
vars == <<pages, ring, pc, n, i, pfd, got, raced>>

\* The end a process uses in its call.
EndOf(p) == IF pc[p] \in ReadPlace THEN "read" ELSE "write"

InCheck(p) == pc[p] \in {"read_pfp", "write_pfp"}

\* What getPhysicalPageRef returns, but for the directories at the start.
FdRef(e) == others + Cardinality({p \in Proc : e \in fdMapped[p]})
PipeRef == others + Cardinality({u \in Proc \X End : u[2] \in dataMapped[u[1]]})

\* pipe() has returned.
Init ==
    /\ fdMapped = [p \in Proc |-> IF p = Creator THEN End ELSE {}]
    /\ dataMapped = fdMapped
    /\ others = 0 /\ events = 0
    /\ p_rpos = 0 /\ p_wpos = 0
    /\ p_buf = [b \in 0 .. BY2PIPE - 1 |-> 0]
    /\ pc = [p \in Proc |-> IF p = Creator THEN "user" ELSE "none"]
    /\ n = [p \in Proc |-> 0] /\ i = [p \in Proc |-> 0] /\ pfd = [p \in Proc |-> 0]
    /\ got = <<>>
    /\ raced = [p \in Proc |-> FALSE]

Goto(p, place) == pc' = [pc EXCEPT ![p] = place]

-----------------------------------------------------------------------------
(* The family.                                                             *)

\* fork: the child has its parent's ends, and a directory of its own.
Fork(p, c) ==
    /\ pc[p] = "user" /\ pc[c] = "none"
    /\ Goto(c, "user")
    /\ fdMapped' = [fdMapped EXCEPT ![c] = fdMapped[p]]
    /\ dataMapped' = [dataMapped EXCEPT ![c] = dataMapped[p]]
    /\ others' = others + 1
    /\ UNCHANGED <<events, ring, n, i, pfd, got, raced>>

\* A process that has nothing to do with the pipe is created, or exits.
OtherProcess ==
    /\ events < MaxOthers /\ events' = events + 1
    /\ \E d \in {1, -1} :
        /\ others' = others + d
        /\ raced' = [p \in Proc |-> raced[p] \/ (d < 0 /\ InCheck(p))]
    /\ UNCHANGED <<fdMapped, dataMapped, ring, pc, n, i, pfd, got>>

\* Mutant: the pipe's page goes before the descriptor's.
CloseDataFirst(p, e) ==
    \/ /\ pc[p] = "user" /\ e \in fdMapped[p]
       /\ dataMapped' = [dataMapped EXCEPT ![p] = @ \ {e}]
       /\ Goto(p, "close")
       /\ UNCHANGED fdMapped
    \/ /\ pc[p] = "close" /\ e \in fdMapped[p] /\ e \notin dataMapped[p]
       /\ fdMapped' = [fdMapped EXCEPT ![p] = @ \ {e}]
       /\ Goto(p, "user")
       /\ UNCHANGED dataMapped

\* close, through pipeclose: the descriptor's page, then the pipe's.  The
\* fd_close that follows finds the descriptor unmapped already.
UnmapEnd(p, e) ==
    \/ /\ pc[p] = "user" /\ e \in fdMapped[p]
       /\ fdMapped' = [fdMapped EXCEPT ![p] = @ \ {e}]
       /\ Goto(p, "close")
       /\ UNCHANGED dataMapped
    \/ /\ pc[p] = "close" /\ e \in dataMapped[p] /\ e \notin fdMapped[p]
       /\ dataMapped' = [dataMapped EXCEPT ![p] = @ \ {e}]
       /\ Goto(p, "user")
       /\ UNCHANGED fdMapped

\* Processes q that counted the end e and have not counted the pipe yet.
Raced(e) == [q \in Proc |-> raced[q] \/ (InCheck(q) /\ EndOf(q) = e)]

pipeclose(p, e) ==
    /\ UnmapEnd(p, e)
    /\ raced' = IF dataMapped' # dataMapped THEN Raced(e) ELSE raced
    /\ UNCHANGED <<others, events, ring, n, i, pfd, got>>

-----------------------------------------------------------------------------
(* _pipeisclosed, in a loop of piperead or of pipewrite.  The field runs   *)
(* of a process never changes, so the do loop is run through once.         *)

\* Mutant: the count of the end is compared the wrong way.
ClosedIfMore(ends, all) == ends > all

Closed(ends, all) == ends = all

CountEnd(p, here, next) ==
    /\ pc[p] = here
    /\ pfd' = [pfd EXCEPT ![p] = FdRef(EndOf(p))]
    /\ raced' = [raced EXCEPT ![p] = FALSE]
    /\ Goto(p, next)
    /\ UNCHANGED <<pages, ring, n, i, got>>

CountAll(p, here, again, return) ==
    /\ pc[p] = here
    /\ Goto(p, IF Closed(pfd[p], PipeRef) \/ return THEN "user" ELSE again)
    /\ UNCHANGED <<pages, ring, n, i, pfd, got, raced>>

-----------------------------------------------------------------------------
(* read and write.                                                         *)

\* A descriptor that fd_lookup does not find, or one that is open the other way,
\* is refused and nothing changes.
Call(p, e, place) ==
    /\ pc[p] = "user" /\ e \in fdMapped[p]
    /\ \E count \in 1 .. MaxCount : n' = [n EXCEPT ![p] = count]
    /\ i' = [i EXCEPT ![p] = 0]
    /\ Goto(p, place)
    /\ UNCHANGED <<pages, ring, pfd, got, raced>>

Return(p) == Goto(p, "user") /\ UNCHANGED <<pages, ring, n, i, pfd, got, raced>>

\* Mutant: one byte more than asked for.
OneMore(p) == i[p] <= n[p]

More(p) == i[p] < n[p]

\* An empty pipe is waited for unless bytes have been read already; the end
\* of the pipe is looked for in any case.
piperead(p) ==
    \/ p = Reader /\ Call(p, "read", "read")
    \/ /\ pc[p] = "read" /\ ~More(p) /\ Return(p)
    \/ /\ pc[p] = "read" /\ More(p) /\ p_rpos = p_wpos
       /\ Goto(p, "read_pfd")
       /\ UNCHANGED <<pages, ring, n, i, pfd, got, raced>>
    \/ CountEnd(p, "read_pfd", "read_pfp")
    \/ CountAll(p, "read_pfp", "read", i[p] > 0)
    \/ /\ pc[p] = "read" /\ More(p) /\ p_rpos # p_wpos
       /\ got' = Append(got, p_buf[p_rpos % BY2PIPE])
       /\ Goto(p, "read_advance")
       /\ UNCHANGED <<pages, ring, n, i, pfd, raced>>
    \/ /\ pc[p] = "read_advance"
       /\ p_rpos' = p_rpos + 1
       /\ i' = [i EXCEPT ![p] = @ + 1]
       /\ Goto(p, "read")
       /\ UNCHANGED <<pages, p_wpos, p_buf, n, pfd, got, raced>>

\* Mutant: the ring takes a byte too many.
FullOffByOne == p_wpos - p_rpos > BY2PIPE

Full == p_wpos - p_rpos = BY2PIPE

\* A full pipe is waited for until it is closed.
pipewrite(p) ==
    \/ p = Writer /\ p_wpos < MaxBytes /\ Call(p, "write", "write")
    \/ /\ pc[p] = "write" /\ ~(More(p) /\ p_wpos < MaxBytes) /\ Return(p)
    \/ /\ pc[p] = "write" /\ More(p) /\ p_wpos < MaxBytes /\ Full
       /\ Goto(p, "write_pfd")
       /\ UNCHANGED <<pages, ring, n, i, pfd, got, raced>>
    \/ CountEnd(p, "write_pfd", "write_pfp")
    \/ CountAll(p, "write_pfp", "write", FALSE)
    \/ /\ pc[p] = "write" /\ More(p) /\ p_wpos < MaxBytes /\ ~Full
       /\ p_buf' = [p_buf EXCEPT ![p_wpos % BY2PIPE] = p_wpos + 1]
       /\ Goto(p, "write_advance")
       /\ UNCHANGED <<pages, p_rpos, p_wpos, n, i, pfd, got, raced>>
    \/ /\ pc[p] = "write_advance"
       /\ p_wpos' = p_wpos + 1
       /\ i' = [i EXCEPT ![p] = @ + 1]
       /\ Goto(p, "write")
       /\ UNCHANGED <<pages, p_rpos, p_buf, n, pfd, got, raced>>

-----------------------------------------------------------------------------

\* What a process goes on with once it has called the library.
Library(p) ==
    \/ pc[p] # "user" /\ (piperead(p) \/ pipewrite(p))
    \/ pc[p] = "close" /\ \E e \in End : pipeclose(p, e)

Next ==
    \/ OtherProcess
    \/ \E p \in Proc :
        \/ \E c \in Proc : Fork(p, c)
        \/ \E e \in End : pipeclose(p, e)
        \/ piperead(p) \/ pipewrite(p)

\* The timer interrupt gives every process its turn (module Scheduler).
Spec == Init /\ [][Next]_vars
FairSpec == Spec /\ \A p \in Proc : WF_vars(Library(p))

-----------------------------------------------------------------------------
(* Properties.                                                             *)

\* The types of the variables.
TypeOK ==
    /\ fdMapped \in [Proc -> SUBSET End] /\ dataMapped \in [Proc -> SUBSET End]
    /\ others \in Int /\ events \in 0 .. MaxOthers
    /\ p_rpos \in 0 .. MaxBytes /\ p_wpos \in 0 .. MaxBytes
    /\ p_buf \in [0 .. BY2PIPE - 1 -> 0 .. MaxBytes]
    /\ pc \in [Proc -> Place]
    /\ n \in [Proc -> 0 .. MaxCount] /\ i \in [Proc -> 0 .. MaxCount]
    /\ pfd \in [Proc -> Int] /\ got \in Seq(Nat) /\ raced \in [Proc -> BOOLEAN]

\* The reader gets the bytes in the order they were written, none lost and none
\* twice, and the writer never runs into the bytes not read yet (piperead,
\* pipewrite).
BytesInOrder ==
    /\ got = [k \in 1 .. Len(got) |-> k]
    /\ Len(got) - p_rpos \in {0, 1}
    /\ p_wpos - p_rpos \in 0 .. BY2PIPE

OtherEnd(e) == IF e = "read" THEN "write" ELSE "read"
IsOpen(e) == \E p \in Proc : e \in fdMapped[p]

\* A process is told that the other end is closed only if it is, or if, between
\* the two counts, an end like its own was closed or some process exited: the
\* test on runs does not catch these (_pipeisclosed, pipeclose).
ClosedOrRaced ==
    [][\A p \in Proc :
        InCheck(p) /\ pc'[p] = "user" /\ i[p] = 0 =>
            ~IsOpen(OtherEnd(EndOf(p))) \/ raced[p]]_vars

\* A reader that waits on a pipe nobody can write to any more returns, and so
\* does a writer that waits for a reader: the counts of the two pages meet in
\* the end (_pipeisclosed).
WaitsEnd == \A p \in Proc :
    /\ EndOf(p) = "read" /\ (\A q \in Proc : "write" \notin dataMapped[q])
        ~> pc[p] \in {"user", "none"}
    /\ pc[p] \in WritePlace
            /\ (\A q \in Proc : "read" \notin dataMapped[q])
        ~> pc[p] \in {"user", "none"}

=============================================================================
