# RiemOS in TLA+

RiemOS is a small 64-bit RISC-V kernel for one hart, with user-level processes,
copy-on-write fork, blocking IPC, an SD card driver and a file server that runs
as an ordinary process. This directory holds TLA+ models of it, the TLC
configurations that check them and TLAPS proofs about the process table, the
memory manager, the loader, the SD card driver, the file system, the pipes and
the messages.
Paths below are relative to the repository (`src/`).

Run a configuration with `tlc -config scheduler.cfg Scheduler.tla` (the module of
each run is in the table below) and a proof with, say, `tlapm SchedulerProofs.tla`.

## 1. The system

| Component | Source | State | Operations |
|---|---|---|---|
| Process table, scheduler | kernel/trap/process.c | processes[], freeProcesses, scheduleList, curProcess, nextId | load, fork, exit, yield, run, pid lookup |
| Traps, timer | kernel/trap/trap.c, kclock.c, trampoline.S | trapframe page, pending timer | page fault, timer interrupt, system call, return to user |
| Kernel IPC | kernel/trap/syscall.c | env_ipc_* of each process | blocking receive, send |
| Memory manager | kernel/memory/memory.c | freePages, pages[].ref, page tables | alloc, insert, remove, walk, pageout, copy-on-write, free a directory |
| Loader | elfLoader.c, codeMapper | pages of the new process | map the segments of a program |
| UART | kernel/driver/console.c | receive FIFO | put, blocking get |
| SD card | kernel/driver/sd.c | the card, retry counters | initialise, read, write |
| IPC library | user/lib/ipc.c, fsipc.c | request page | send with retry, receive, request to the file server |
| Descriptors, files | user/lib/fd.c, file.c, console.c | descriptor pages, mapped file pages | alloc, close, dup, open, read, write, truncate |
| Pipes | user/lib/pipe.c | a shared page, read and write positions | read, write, close, "is the other end closed" |
| File system | fs/fs.c | bitmap, block cache, files on disk | allocate, free, read, write blocks; look up, truncate, flush, remove files (`file_create` has no caller) |
| File server | fs/server.c | table of open files | serve one request at a time |

How they interact. A user program reaches the kernel by a system call, a page
fault or the timer interrupt, all through `userTrap`. The kernel runs with
interrupts off, so a handler is atomic with respect to other processes, except
where it waits itself: `process_yield` when no process can run, and `_getchar`
when no key has been pressed. Processes meet in the process table (IPC fields,
written by the sender in the receiver's entry), in pages they share (after fork
read-only and copied on a store; after `mapMemoryFromTo` writable) and in the
file server, to which the library sends requests over IPC. The libraries take
the kernel's page reference counts as "how many have this open" (pipes, open
files), which ties them to the memory manager.

What is hard, and the properties that make each part correct:

* *Process table.* Every operation moves an entry between lists linked through
  the entry itself and no operation looks at where it was. Correct means: each
  live process is on the hart or in the queue once; the free list never hands
  out an entry in use; identifiers resolve to their process or to nothing; no
  wake-up is lost; the hart never serves a blocked or dead process; the queue is
  fair.
* *Context switch.* One trapframe page for all processes. Correct means that
  every process sees registers of its own.
* *Memory.* Counts are changed in five places; fork shares pages in the middle
  of other sharing; memory runs out at any point and most of the code goes on.
  Correct means: exact counts, no free page in use, and, to a program, a memory of
  its own.
* *IPC library and file server.* Retry against a racing receive, replies to the
  wrong request, a receive that does not wait, variables too narrow for what is
  stored through their address. Correct means: a message is delivered once, to a
  process that waits, and the server's answer is that of the request.
* *Pipes and descriptors.* Reference counts read in two system calls. Correct
  means: the end of a pipe is seen exactly when the other side is closed, and
  both sides never wait for each other.
* *File system.* Blocks referenced once, bitmap in step with the block pointers
  in memory and, after a crash, on disk; truncation frees exactly what is no
  longer needed.
* *SD card.* Time-outs, corrupted blocks, at most ten retries. Correct means: a
  read that reports success delivered the card's data.

`PROJECT.json` lists the hazards of this code line by line, with the properties
that would catch each of them or the reason why none does.

## 2. The modules

| Module | What it is |
|---|---|
| `Scheduler` | process table, free list, run queue, what the hart does |
| `Process` | extends `Scheduler`: trapframe page, saved copies, parents, IPC words |
| `VirtualCpus` | abstract: processes with registers and mailboxes of their own |
| `AddressSpace` | pages, reference counts, page tables, faults, fork, memory calls |
| `PrivateMemory` | abstract: processes with a memory of their own |
| `MCAddressSpace` | the small instances of `AddressSpace` |
| `Loader`, `MCLoader` | `loadElf` and `codeMapper`, page by page, and the small programs |
| `SdCard` | the driver's calls and retries against an unreliable card |
| `Format` | the disk's layout and the image `fsformat` makes |
| `Files`, `MCFiles` | extends `Format`: bitmap, block pointers, the file layer's calls; the small disks |
| `Ipc` | the IPC library, the clients' requests and the server's loop |
| `MCIpc` | the small instance of `Ipc` |
| `Mailbox` | abstract: letters, and a box for each process that takes one at a time |
| `Pipe` | reading, writing and closing a pipe |
| `SchedulerProofs` | theorems about `Scheduler`, for a table of any size |
| `ProcessProofs` | `Process` implements `Scheduler` and `VirtualCpus`; types; parents are older |
| `AddressSpaceProofs` | theorems about `AddressSpace`, and that it implements `PrivateMemory` |
| `LoaderProofs` | theorems about `Loader`, for pages and segments of any size |
| `SdCardProofs` | theorems about `SdCard`, for any card and any request |
| `FilesProofs` | theorems about `Files` and `Format`, for any disk, files, names and data |
| `PipeProofs` | theorems about `Pipe`, for any ring and any number of processes |
| `IpcProofs` | theorems about `Ipc`, for any number of programs and messages, and that it implements `Mailbox` |

The modules are layers. `Scheduler` says what the kernel promises to a process:
atomic calls, its turn again and again, a message that wakes it. `Ipc` and `Pipe`
rest on that: their actions are one system call, or one stretch of user code
between two of them, and their fairness is `Scheduler`'s `NoStarvation`. `Files`
is what the server does inside `serve`, which `Ipc` reduces to the results it can
have. `SdCard` is below the block cache of `Files`, and `Loader` above the pages of
`AddressSpace`, which has `Create` where `Loader` has the steps.

### Scheduler and Process

A variable is named after the field or global it stands for; `kernel` is where
the hart is: in `main` before the first yield (`boot`), in a process (`user`),
polling the UART (`getchar`), rotating a queue in which nothing can run
(`spin`), or faulting after `exit` unmapped the kernel's text (`fault`).

One system call or interrupt is one action, because the kernel does not enable
interrupts and there is one hart. `process_yield` is an operator used by every
action that yields: the running process goes to the end of the queue whatever
its state, then the first runnable one is taken and those before it go to the
end. Its inner loop with an empty list, and its outer loop with no runnable
process, are the `spin` state: interrupts are off, so it is final.

* `ProcessCreatePriority` is any line of `main`'s list of programs;
  `FirstYield` is `main`'s call of `process_yield`.
* `Reschedule` is the timer interrupt and `schedYield`.
* `Fork`, `IpcRecv`, `IpcCanSend`, `Getchar`/`KeyArrives` are the system calls.
  A receive with a bad address and a refused send change nothing here.
* `Exit` is the code as written, with `pgdir_free` returning. On the hardware it
  does not return: the page table it empties is the one in use, and the page of
  `page_remove` itself is unmapped on the way (memory.c:161-186). That outcome
  is `ExitFaults`; both are possible steps, so that the properties hold whichever
  happens.

`Process` repeats each action and adds what it does to the trapframe page, to
the copies in the table and to the mailboxes. Registers other than `a0` are one
value, since the kernel copies them as a block. `ForkFails` writes its error to
the saved copy, as the code does (process.c:278).

`ImplementsVirtualCpus` is the refinement: the registers of the running process
are the trapframe page, those of any other its saved copy. `VirtualCpus` has no
action for a switch, so a timer interrupt, a yield, the first run and a failed
fork may change nobody's registers. What may change them is a step of the
process itself: `Compute` (not `a0`), `Answer` (only `a0`, and only to its name, its
parent's, a key or a refusal), `Fork`, which fixes `a0` in parent and child, and
`Send`. The history variable `turn` flips when the program on the hart takes such a
step (`OwnStep`); without it a switch that put back wrong registers could pass for
a `Compute` of that process. A receive at an address out of range returns at once
and changes nothing here; see `Ipc`.

### AddressSpace

`mm` is the state of memory.c: `pte` (the leaf entries), `table` (which page holds
each middle-level and each last-level table), `setup` (the pages that the set-up
of a process took), `ref`, `freePages`; the functions of memory.c are operators
from one value of `mm` to the next, so that a handler that calls several of them
composes them. `page_walk` makes the middle-level table and the last-level one
(`MakeTable`), and may get only the first. `GigaOf` and `RegionOf` name the tables of a
virtual page.

Memory runs out anywhere, and the model goes on where the code does. Only the
first allocation of `process_setup` is looked at (process.c:92-95); those of the
kernel stack, of its two mappings and of all the tables of `initPgdir` are not
(process.c:99-118, memory.c:32-58), and neither are those of `codeMapper` and `fork`.
`SetUp` takes the pages a set-up needs, or as many as there are, and counts what
was done with those: `setup[p]` may be any beginning of the full set-up.
`TableAfter` and `IdentityAfter` say how much of it is needed for a table that user
pages share with `initPgdir`, and for the identity mapping of each page. A process
that is not `Complete` has no trampoline in its directory, so the kernel is lost
when the scheduler takes it (`RunHalfMade`); until then its parent runs on, and
may even allocate memory in it. `Needed` is two more for the first process, whose
kernel stack lies above the RAM and needs tables of its own; its stack page is
also the one with a second reference, since in the other directories `initPgdir`
overwrites the mapping, which does not give the reference back to anybody
(`OwnStackOn`).

* `Create` is `processCreatePriority` in `main`, `EndBoot` its end; `pageout` answers
  the first access to a page, `Fault` an access the entry does not permit: the
  copy-on-write handler, or the panic.
* `StartFork`, one `ForkPage` for each page and `EndFork` are the walk of
  `process_fork`; nothing else happens in between. Entries without PTE_U are
  skipped (`Inherited`). `ForkPage` ignores a failed insertion as the code does.
* `syscallMemoryAlloc`, `syscallMapMemoryFromTo`, `syscallUnmapMemoryFrom` are
  the system calls, on any process their arguments can name, and with
  permissions that may lack PTE_U.
* `pgdir_free` stops the machine, see above.

`PrivateMemory` is what this promises a program. A memory is loaded at boot and
never later; after that a process gets a memory only by a fork, and it is the
one its parent had when it called fork, whatever pages were shared, copied or
reused for it. A page may be missing, and only if no memory is left when the
fork ends: that is how far the unchecked results of `page_insert` can go. Every
other change is a store, a first access, an allocation or an unmapping of one
page of one process.

`initPgdir` maps all of the RAM in every directory and `page_insert` counts that
as a reference. The model keeps these references (`1 + Cardinality(IdentityOn(pg))`
in `RefExact`).

### Loader

One iteration of a loop of `loadElf` or `codeMapper` is a step; `pc` is which loop
it is in. A byte of a segment is named after the segment and its position, so
that a page's contents say where each byte came from. `InsertFresh` is `page_alloc`
with `page_insert`: when the page table of a region cannot be allocated the
insertion fails, its result is ignored, and `lost` records it. `PatchPage` is the
lookup of a page and the copy into it, or the fault on physical page 0 when the
lookup found none. The head of a segment that starts inside a page is such a
lookup, so it works only if an earlier segment mapped the page
(`FaultsOnlyAtBareHeads`). At the end of the file part, when that is a page
boundary, the code adds the length of the last piece once more and skips memory
without mapping it; `LoadedAsLinked` shows that this is harmless, since the
first access to such a page brings a zero one.

### SdCard

The driver's variables keep their names (`p`, `tot`, `rc`, `times`); `disk` and
`stream` are the card's. The steps are those between which the card may do
something else: `Cmd0` and `PowerUp` for the initialisation, `Cmd18`, `ReadBlock`,
`StopReading` for a read and `Cmd24`, `WriteBlock` for a write. A poll loop with
its count is part of the step it belongs to, with two ends: the byte arrived or
the count ran out. `Retry` and `Restart` are the `goto`s, with what they reset. A
write starts again at the sector in hand, a read at its first sector.

A program may ask for any 64-bit sector (syscall.c:128-142), and the driver sends
the card the byte address `sector * 512` (sd.c:181 and 401, in the QEMU build of
sd.c:11) cut to 32 bits. `Address` is that: sectors `SectorSpan` = 2^23 apart have
one address. `ReadDelivers` and `WritesInOrder` speak of the sector that the address
names: a transfer that crosses 2^23 reads, or overwrites, the first sectors of
the card (a write goes sector by sector, each with its own address; a read has
one address and the card goes on from it).

### Format and Files

`Format` makes the states `Files` starts in, by what `fsformat` does to a list of
files. `Files` has one action per call of the file layer that the server makes:
`file_open`, `GetBlock` (for map and dirty), `SetSize`, `file_remove`, `fs_sync`; and
`ClientStore`, because a client writes straight to the page of a block. Nothing
calls `file_create`, so no file is made. A function of fs.c is an operator from
one state of the file system to the next, with its result in the field `r`; `Then`
is `if (r < 0) return r`. The kernel has a page for each of the two allocations of
a call, or for one, or for none (the argument `memory`). A loop over blocks is a
function of the number of rounds, defined by its value for one round less.

Four things are as the code has them and not as one expects. `serve_open` and
`serve_remove` copy their uninitialised buffer over the path in the request
(server.c:109, 215), so the path that is looked up is any that the buffer can
hold, also an empty one, which leads to the root directory; the one of
`serve_open` is too short for a component of `MAXNAMELEN` bytes. `walk_path` copies
the name over the path instead of the path into the name (`ComponentName`), so
that every lookup is for the empty name, which finds a place without a file.
`serve_open` loops for ever when nothing is found. `file_block_walk` does not clear a
new indirect block.

Two history variables say when the model stops following the server. `stale`: the
words in a new indirect block were written by a program. `rewritten`: the root
directory was resized, removed or stored to, as if it were a file. After either
(`~Followed`) a block's words, or a struct File, may be anything. Properties that
this makes meaningless say so; the run `stale_index` shows what goes wrong after the
first, and after the second the block of an open file's struct File can be free
while the server uses it (`OpenFilesKept`). Opening the root directory alone does no harm, and it is
open in the states that the other properties speak of.

The kernel is taken at its word in this module: a block that was mapped can be
read and written. On the machine of this repository the server would not get
through `fs_init`: `fsformat` writes the words of the image byte-reversed
(fsformat.c, `reverse_block`), `checkVaIsMap` looks at the table of a region and not
at the page, `write_block` maps its page again without PTE_U, and
`check_write_block` copies the super block in the wrong direction. Each of these
stops everything, at once, whatever the order of events; a model that contained
them would have one behaviour. So would one in which `read_block` gets no page
(fs.c:143): the disk is then read into an address that is not mapped, by the
kernel, whose trap handler returns to the access that faults.

### Ipc

`recving` and `pcb` are the kernel's fields of a process, `mine` what its library
has read of them, `queue` what it has still to send. `ipc_send` is one system call
with what the library does about its result; `ipc_recv` is four steps, the
system call and the three reads, with other processes in between. `fsipc` is any
of the client's requests: send, then receive. `serve` is the server's loop, which
answers with one of the sequences of results the request can have, one after the
other: `serve_open` goes on after a failed `open_alloc` and answers twice. `AfterSend`
has the three ways on from the first of these: the second answer, a file that is
not found (a loop), and a store through a pointer that was never set. Programs
also send words and requests of their own to anybody and receive them from
anybody, so that a client can be sent something while it waits for the server.
A message may come with a page or not, whatever its permissions (`MayHavePage`:
the kernel looks at `srcVa`, syscall.c:113), and then the send can fail after it was
delivered. `by` and `n` of a message are not in the code; they name the exchange it
belongs to.

Two things make a message less than one would wish. A receive at an address from
`PHYSICAL_MEMORY_TOP` up, any address of a user's stack for instance, returns at
once (syscall.c:81-83, place `far`), and `ipc_recv` reads what the last message
left. `serve` and the clients give `ipc_recv` the addresses of 32-bit variables for
64-bit stores: in `serve` the permissions may clear the sender stored just before
(`SendersKept`), depending on where the compiler put the two; in a client the
variable beside is one of its own, which is any program's to change.

`Mailbox` is what is left of the promise, in six actions: post, open, deliver,
take, leave, and find again. `ImplementsMailbox` is the refinement. The entry of a
process is a box (`Boxes`) that is filled by the system call of the sender and
becomes empty only when the receiver has read the last of the three fields;
until then nothing may be put in it. `Hands` is what a process received, in one
piece, until it calls the library again. Only a process that gave an address out
of range (`far`) finds the last letter again, and only the server (`Narrow`) may
lose the name on one. Nothing is posted before everything posted earlier has
gone, so that the two answers to a failed open stay in order and are never
overwritten by the answer to a later request.

### Pipe

`fdMapped` and `dataMapped` are the two pages whose reference counts
`_pipeisclosed` compares, and `others` what else counts: every page directory
that exists holds a reference of every page, so creating or ending any process
changes both counts. `CountEnd` and `CountAll` are the two system calls with
anything in between. A process reads or writes a byte, looks at the positions,
counts, or unmaps one of two pages in a step of its own. `raced` is a history
variable: a reference went away between the two counts.

The module starts when `pipe()` has returned. In this repository it never
returns successfully: `fd_alloc` answers -E_MAX_OPEN as soon as it meets a
descriptor in use (fd.c:41), so the second descriptor is refused. What follows is
the code as it would run behind an `fd_alloc` that finds a free one.

## 3. The runs

| Run | Module | Bounds | What it shows |
|---|---|---|---|
| `scheduler` | `Scheduler` | 4 entries | table, queue, wake-ups, identifiers, order, no starvation |
| `process` | `Process` | 2 entries, 2 register values | refinement of `VirtualCpus`, parents are older |
| `address_space` | `MCAddressSpace` | 3 processes, 2 pages each, 12 physical pages, 2 data values | refinement of `PrivateMemory` with the copying of fork, shared pages are read-only, copy-on-write is invisible |
| `address_sharing` | `MCAddressSpace` | 2 processes, 16 physical pages, explicit sharing, 4 pages a set-up | counts, free list and purpose of pages are exact |
| `page_reclaim` | `MCAddressSpace` | 2 processes | **violated**: unmapping does not release memory |
| `loader` | `MCLoader` | one or two segments in 3 pages of 3 bytes, memory for all of it or not, 2 pages a table | a loaded program reads what was linked; faults only at bare heads; nothing else is mapped |
| `sd_card` | `SdCard` | 3 sectors, addresses that wrap after 3, 2 per call, 2 contents, 2 retries | reads deliver, writes keep order, every call ends |
| `files` | `MCFiles` | 9 blocks, 1 direct and 2 indirect pointers, 3 images, 5 paths, 4 sizes | blocks have one owner and are taken, none leaks, the bitmap on the disk is safe |
| `stale_index` | `MCFiles` | as `files`, without the constraint and the empty path | **violated**: two files share a block |
| `pipe` | `Pipe` | 2 processes, ring of 2, 3 bytes, 1 other process | bytes arrive in order, "closed" is true or raced, waits end |
| `ipc` | `MCIpc` | 2 programs and the server, 2 requests, 2 sends of one program and 1 of the other | refinement of `Mailbox`: a message is delivered once, in order and whole; answers match requests; a request ends, unless its client or the server stops |
| `send_race` | `MCIpc` | as `ipc`, 1 request | **violated**: `ipc_send` does not wait for its receiver |

Why the bounds are enough. *Four entries* let the queue hold three processes
besides the running one, so that a blocked one can be before, between and after
two runnable ones when it is rotated, while the table fills up and empties.
Entries are never reused (the code does not return them), so the state space is
finite without a bound on steps. *Two entries* give every pair of leaving and
arriving process, a parent and a child, a sender and a receiver. *Three
processes* let a page be shared by a parent, a child and a grandchild. Twelve
physical pages are enough for the first process (its set-up of two and two more,
two tables and its program), a first touch, and the set-ups of two children and
some copies, so that memory runs out before, in and after each set-up but the
first, in a fork, in a fault, and between the two tables of one insertion. Of the
two virtual pages one needs two tables of its own and one lies under tables that
`initPgdir` makes last, as the user's stack does. The first program's set-up is
assumed to succeed (`SizesAssumption`): it runs at boot in empty memory.
`address_sharing` has a longer set-up, so that more of it can be missing, one
content, and all permissions a program can ask for. The other processes are
symmetric in `address_space`, which has no liveness property.

*Every program of one segment, or of two in ascending order*, in three pages of
three bytes: a segment can start and end at, before and after a page boundary,
its file part can end in each of these places, two segments can meet in a page,
and a page can be wholly inside one. Memory is either enough or runs out at a
page or at a table. A third segment meets nothing a second does not, since
`codeMapper` keeps nothing but pages from one segment to the next.

*Three sectors, two in a call*: a request has a first and a last sector, there is
a sector before, after or past the end of the card, an address that wraps within
a request and before it, and each of the faults can
hit the first or the second sector, before or after a retry. Two retries stand
for ten: one that helps and one that is the last.

*Nine blocks* are three reserved ones, the root directory's, and five for two
files that can have three blocks and an indirect one each: the disk is full in
some states and not in others, a file has direct blocks only or both kinds, and
freed blocks are taken again by the other file or as the other kind. The images
make a directory with room and a full one. The paths are an empty one, a name,
one below it, and a component that is too long in first and in second place.
The constraint `Followed` drops what comes after the first stale indirect block or
the first change of the root directory as a file, where the properties say
nothing; `stale_index` runs without it.

*A ring of two with three bytes* wraps around, gets full and gets empty. Two
processes give both ends to both, then close them in any order while one counts;
one other process may come or go in between. *Two programs and the server* give
a client, the server, and one who interferes with both; the requests `open`
(answered once or twice) and `map` (whose client looks at the permissions)
stand for the seven, the others being like one of them. Two sends
of one program and one of the other are a request, an interfering message and a
second request, of either.

A deadlock is no error in these runs: the kernel does stop, when every process
waits for a message, when it panics or when `exit` takes it down; a program
stops when it was loaded; a server panics or hangs; a card's driver panics; and
the counts of `Pipe` and `Ipc` run out.

*Fairness.* `FairSpec` assumes strong fairness of `Reschedule`. Every timer
interrupt sets the next one (trap.c:42, kclock.c:6), and one that becomes
pending while the kernel runs is taken before the first user instruction after
`sret`, so a hart that is in user mode again and again is interrupted again and
again. No fairness is assumed of programs, of sends or of the keyboard;
therefore `NoStarvation` is about runs in which the hart keeps coming back to
user mode.

`Pipe` and `Ipc` assume weak fairness of `Library(p)` for each process: once it has
called the library it goes on, because the timer gives every process its turn
(`NoStarvation` of `Scheduler`). Nothing is assumed of a process outside the
library: it need not read, send or close. In `Ipc` the server's loop is the
library of the server. `SdCard` assumes weak fairness of a call in progress: the
system call runs with interrupts off and every poll loop has a count, so it
cannot be held up by anything, whatever the card does.

*The findings.*

* `UnmapReleases` says what the comment at user/lib/file.c:110 promises of
  unmapping ("release memory"). TLC finds a load and an unmap that leave a page
  which nobody uses and which is not on the free list: its count is that of the
  identity mappings. `page_free` and `page_ref_decrease` never reach zero, and a
  page is used once in the life of the system.
* `BlocksUnshared`: a client stores words in a block, the file gives the block
  back, and it is allocated as an indirect block (fs.c:306-313) that nobody
  clears. The words are taken for pointers and a block gets a second owner,
  where fs.c:335 says that a block which does not exist is allocated.
* `SendWaitsForReceiver`: error.h names a code for a send to a process that is not
  receiving, and `ipc_send` waits on it; the kernel answers -1 (syscall.c:103-106)
  and the sender panics.

Three more hazards are certain and part of the models, where a property says what
is left rather than what goes wrong: a client takes any program's word for the
server's reply (`AnswersMatch`), an end of a pipe closed between two counts makes a
reader believe that nobody writes (`ClosedOrRaced`), and the server can lose the name
of a client (`ImplementsMailbox`).

## 4. The proofs

The following is proved for every `PROCESS_TOTAL_NUMBER >= 1` (`TableAssumption`)
and every null pointer that is no index (`NullAssumption`); the theorems about
`ProcessSpec` hold for every set of registers that contains a program's first
ones (`RegsAssumption`), every set of words and characters (`DataAssumption`)
and a null pointer that is no trapframe (`NullIsNoTrapframe`).

| Theorem | Statement |
|---|---|
| `InductiveInvariant` | `Spec => []IInv` |
| `RunQueueIsExact` | `Spec => []RunQueueExact` |
| `FreeListIsExact` | `Spec => []FreeListExact` |
| `BlockedAreReceiving` | `Spec => []BlockedIffReceiving` |
| `SpinIsDeadEnd` | `Spec => []SpinsOnlyWhenStuck` |
| `TypeCorrect` | `Spec => []TypeOK` |
| `CurrentAlwaysRunnable` | `Spec => []CurrentIsRunnable` |
| `PidsAlwaysResolve` | `Spec => []PidsResolve` |
| `RunQueueIsFifo` | `Spec => NoOvertaking` |
| `ProcessImplementsScheduler` | `ProcessSpec => Spec` |
| `ContextTypeCorrect` | `ProcessSpec => []ContextTypeOK` |
| `ParentsAreOlder` | `ProcessSpec => []ParentIsOlder` |
| `KernelImplementsVirtualCpus` | `ProcessSpec => ImplementsVirtualCpus` |

None of the properties is inductive alone. `RunQueueExact` needs
`CurrentIsRunnable` (the process put back in the queue is alive and not in it),
which needs `BlockedIffReceiving` (a send does not touch the running process)
and `FreeListExact` (an entry handed out is new to the queue and is not the
running one), which needs `IdsWellFormed` and types. `IInv` is their
conjunction, with `BootHasNoProcess` for the first yield. The argument goes:

1. lists: `AppendFresh`, `TailOfInjective`, `RotatedIndexes`, `RotatedExact`:
   what the three list operations of the kernel do to the elements of a list
   without repetition;
2. `YieldExact`: one call of `process_yield` takes one candidate and keeps all
   the others; `YieldPreservesIInv` and `AllocPreservesIInv`, for the actions
   that end in it and for those that take an entry;
3. `NextPreservesIInv`, one step per action;
4. identifiers: `OffsetOfPid`, `GeneratedPid`: shifting and masking undo each
   other;
5. order: `RotatedOrder`, `YieldKeepsOrder`, `AppendKeepsOrder`.

`ProcessImplementsScheduler` carries these over to the kernel with registers and
messages. `ParentIsOlder` needs that identifiers grow with `nextId`
(`IdsBounded`) and that a parent's is below its child's (`ParentsBefore`), for
dead entries too. `KernelImplementsVirtualCpus` rests on two lemmas about the
context switch, `SwitchMovesRegisters` (somebody leaves and is put back) and
`SwitchLoadsRegisters` (nobody leaves); each operation then maps to one step of
one virtual process (`LoadIsSpawn`, `ForkIsFork`, `ExitIsExit`, `RecvIsReceive`,
`CanSendIsSend`, `UserStepIsCompute`, `ReturnIsAnswer`) or to none (`PreemptUnseen`,
`FirstRunUnseen`, `RestUnseen`), and `IInv` says who has the hart and who waits
meanwhile. A preemption leaves `turn` alone, so no `Compute` or `Answer` could stand
for it: it has to leave all registers of all processes as they are.

About the memory manager (`AddressSpaceProofs`), for any number of physical and
set-up pages of which the first program's set-up does not take all
(`SizesAssumption`), any place of the tables and the identity mappings in a set-up
(`SetupAssumption`), finitely many virtual pages under any tables (`VaAssumption`), a
null pointer that is none of the values a pointer can have (`NullAssumption`,
`ValueAssumption`), and at most nine processes (`ProcAssumption`), because the kernel
stacks of later ones would lie over pages that `page_alloc` hands out:

| Theorem | Statement |
|---|---|
| `AddressSpaceInvariant` | `Spec => []IInv` |
| `AddressSpaceTypeCorrect` | `Spec => []TypeOK` |
| `CountsAreExact` | `Spec => []RefExact` |
| `FreeAreUnused` | `Spec => []FreePagesUnused` |
| `PagesServeOnePurpose` | `Spec => []OnePurpose` |
| `SharedPagesReadOnly` | `Spec => []SharedAreReadOnly` |
| `CopyOnWriteIsUnseen` | `Spec => CopyOnWriteUnseen` |
| `ProvidesPrivateMemory` | `~ExplicitSharing /\ Spec => ImplementsPrivateMemory` |

The functions of memory.c are operators from one state of the manager to the
next, so there is one predicate on such a state, `Good(m)` (exact counts, free
pages unused, one purpose for each page, types, and no page mapped without the
tables for it), and one lemma for each function, about any `m`: `RemoveDoes`,
`AllocKeeps`, `MakeKeeps`, `WalkKeeps`, `InsertKeeps`, `SetUpKeeps`. Each says what the
function does when it succeeds and when it stops half-way; `SetUpKeeps` is about
any beginning of a set-up (`TakenIsFront`). A handler is then the composition of
its calls (`CreateStep`, `PageoutStep`, `FaultStep`, `ForkPageStep` and so on). Exact
counts are what makes the rest work, in an unexpected way: the kernel's directory
holds a reference to every page, so a count never reaches zero and `page_remove`
never puts a page on the free list. The counts are cardinalities of sets of
mappings, hence the finiteness assumptions. `IInv` has more conjuncts. `FirstBorn`:
the first process is made first, with all it needs. `UnbornMapNothing`: an entry
without a directory maps nothing, so that a fork starts from nothing. `ForkCopies`:
while the walk of a fork goes on, the entry of each page walked in the child
stands for the parent's (`StandsFor`): it is the same, or it is missing and either
no memory is left or the parent's lacks PTE_U. `SharedAreReadOnly` itself is
inductive with these.

For the refinement, `View(t, c, S)` is what the processes in `S` see through
entries `t` of pages that hold `c`. `Create` is the abstract `Load`, `EndBoot` is `Start`,
`StartFork` is `BeginFork`, `pageout` and `syscallMemoryAlloc` are `Fresh`,
`syscallUnmapMemoryFrom` is `Unmap` and `EndFork` is `Fork`: `ForkCopies` says that the
child then has what the parent has. `ForkPage`, `Fault`, the stops and the
insertions that fail change nothing that is seen. A store of a program is the
abstract `Store` because of `SharedAreReadOnly`: nobody else sees the page it goes
to. With explicit sharing that is not so, hence the hypothesis `~ExplicitSharing`;
the other theorems have none.

About the loader (`LoaderProofs`), for pages of any size, any number of pages
and any free memory (`SizeAssumption`), and programs with any number of headers
whose segments ascend without overlap and have a file part no longer than
their memory (`ProgramAssumption`, which is what a linker writes and what
`loadElf` takes for granted):

| Theorem | Statement |
|---|---|
| `LoaderInvariant` | `Spec => []IInv` |
| `LoaderTypeCorrect` | `Spec => []TypeOK` |
| `LoadsAsLinked` | `Spec => []LoadedAsLinked` |
| `OnlySegmentsMapped` | `Spec => []MapsOnlySegments` |
| `OnlyBareHeadsFault` | `Spec => []FaultsOnlyAtBareHeads` |

`LoadedAsLinked` is about the end. Before it, `BytesThere` says that what was
copied so far (`FileDone`) can be read, and `RestZero` that everything else reads
as zero; a fresh page overwrites nothing because no byte that was copied lies
in it. That is what `PlaceInv` is for: in the file part `codeMapper` is at the start
of a page, in the part after it in a page above all of the file part. The second
is why the length that `codeMapper` adds twice does no harm: `i` may then be
anywhere above a page boundary. Page numbers and offsets are quotients and
remainders (`DivModUnique`, `SamePage`, `WithinPage`, `NextPage`). That a head faults
only where no file part is follows from `BytesThere` too: a byte that is there
is not a byte of an unmapped page.

About the SD card (`SdCardProofs`), for any number of sectors, any range of
addresses, below or above that number, any contents, any length and any number of
retries (`SizeAssumption`, `BoundAssumption`, which only give types):

| Theorem | Statement |
|---|---|
| `SdCardInvariant` | `Spec => []IInv` |
| `SdCardTypeCorrect` | `Spec => []TypeOK` |
| `ReadsDeliver` | `Spec => []ReadDelivers` |
| `WritesKeepOrder` | `Spec => []WritesInOrder` |

`ReadDelivers` is about the end of a call. `ReadInv` is what holds before it: the
sectors counted in `p` are in the buffer, `p` and `tot` add up to the request,
and the card's stream is at the sector the driver takes the next block for. That
a retry sets `p`, `tot` and the stream back together is what makes it inductive.
`WriteInv` is the same for writing: what the addresses of the sectors below `p` name
is written (the last of them where two are the same), the one in hand may be,
the rest are as before. Neither needs that the addresses of a request differ.

About pipes (`PipeProofs`), for a ring of any size, any number of bytes and any
finite set of processes (`ProcAssumption`, `SizeAssumption`):

| Theorem | Statement |
|---|---|
| `PipeInvariant` | `Spec => []IInv` |
| `PipeTypeCorrect` | `Spec => []TypeOK` |
| `BytesArriveInOrder` | `Spec => []BytesInOrder` |
| `ClosedIsClosed` | `Spec => ClosedOrRaced` |

`BytesInOrder` needs to know what is in the ring (`RingInv`): the place of each
byte between the two positions holds it. That the writer's next place holds none
of them is a fact about remainders (`PlacesDiffer`). `GotInv` ties the bytes taken
to `p_rpos` also between taking and counting one. For `ClosedIsClosed`, `MapInv` says
that a process that has an end's descriptor mapped has its pipe page mapped too
(because `pipeclose` unmaps them in this order), and `CountInv` that a first count
not raced is at most the number of pipe pages mapped for that end. If the second
count equals it, no page is left for the other end.

About messages (`IpcProofs`), for any set of programs without the server
(`ProgramAssumption`) and any of the seven requests (`RequestAssumption`):

| Theorem | Statement |
|---|---|
| `IpcInvariant` | `Spec => []IInv` |
| `IpcTypeCorrect` | `Spec => []TypeOK` |
| `MessagesAreWhole` | `Spec => []MessageWhole` |
| `AnswersAlwaysMatch` | `Spec => AnswersMatch` |
| `IpcImplementsMailbox` | `Spec => ImplementsMailbox` |

`MessageWhole` (the fields a process has read are those of one message, and
name its sender unless the server lost the name) is a consequence of `WholeInv`
that the refinement below covers for the runs. It holds for a receive out of
range too, which finds what the last message left. `WholeInv` needs that a mailbox is
open only while its process waits
(`OpenInv`): nobody writes to an entry between the reads. It is then about
the entries and about what was read so far. `AnswersMatch` needs to know where a
request and its results can be once it was taken (`AnswerInv`): in the server's
entry (`InEntry`), in its hand (`InHand`), in its queue (`ToSend`) or in the client's
entry (`Returned`), and everywhere it is the client's last. It becomes true when
the server takes the request, because a server that takes one has nothing left
to send; from there on only the server can make a result of it.

`IpcImplementsMailbox` adds two facts about a process that is not sending
(`IdleInv`): it has nothing left to send, and a program that is sending has
forgotten what it had read. Each operation is then one step of `Mailbox` or none:
a send that is taken delivers (`TakenIsDeliver`) and one that is refused is not seen
(`RefusedUnseen`); the system call of `ipc_recv` opens the box (`RecvIsOpen`) or, out
of range, fills it again (`FarRecvIsFindAgain`), the
first two reads are not seen (`ReadUnseen`) and the third takes the message
(`ReadValueIsTake`), where `WholeInv` says that the two fields read earlier are
still those of the entry; to begin a request or an answer is to post
(`StartIsPost`), anything else leaves (`GoingIsLeave`).

About the file system (`FilesProofs`), for a disk of any size, any number of
direct and indirect pointers, any block size (`LayoutAssumption`), any paths,
sizes and data of the clients (`ClientAssumption`) and any images that
`fsformat` makes (`ImagesAssumption`: it asserts that no file has more than
`NINDIRECT` blocks, fsformat.c:172, its array has `NBLOCK` blocks, and a file on
the host has a name):

| Theorem | Statement |
|---|---|
| `TypesHold` | `Spec => []TypeOK` |
| `NoBlockIsShared` | `Spec => []BlocksUnsharedIfClean` |
| `UsedBlocksAreTaken` | `Spec => []UsedBlocksTaken` |
| `NothingIsLeaked` | `Spec => []NothingLeaks` |
| `DiskBitmapIsSafe` | `Spec => []DiskBitmapSafe` |

The pointers of a file, those in its indirect block and the one to it are the
`Slot`s of the file, and `At(s, f, n)` is what is in one. `Fit(s, x)` says of a
state `s` of the file system that no block is in two slots (`Unshared`), that one
in a slot is neither free nor reserved (`Taken`) and, if `x`, that every taken
block is in a slot (`Whole`) and none is in a slot beyond the file's size
(`Covered`). Each needs the others. A block that is allocated is in no slot
because it was free; a slot that is cleared frees a block that no other slot
has; `file_truncate` frees all there is only because nothing is beyond the size;
and the words of an indirect block are slots of one file only because nobody
else has that block. Three kinds of change keep a state fit: none to slots and
bitmap (`SameKeepsFit`), a free block linked to an empty slot (`LinkedKeepsFit`)
and slots cleared, one of which frees its block (`ClearedKeepsFit`). Each
function of fs.c has a lemma that says which of them it makes, with its failures
half-way: `WalkEffect`, `MapEffect`, `ClearEffect`, `TruncateEffect`, `SearchEffect`,
`WalkPathEffect` and so on.

An indirect block that is taken with words in it (`Taint`), or a change of the root
directory as a file, is where this ends:
from there on nothing is known but types and the copy of the bitmap. So a
function leaves a fit state or a taint, a taint is never lost within a call
(`TaintBefore`, `TaintAfter`), and at the end of the call it is the model's `stale`.
`Housed` says where the struct File of an open file is: in a block that the root
directory points to, or it is the root's own, in the super block. A lookup finds
it there (`Holds`), and it stays, because the calls only add pointers to the root
directory (`Extends`, `RootKept`), truncating another file takes none of its blocks
(`Unshared`), and truncating the root itself ends what is followed. With `Taken` this
makes `OpenFilesKept` hold until then; neither is true of a server whose lookups
remove the root.

The loops are functions that a `LET` defines by recursion. That such a function
exists and has its defining equation is `Repeated`: a step repeated from a
starting point. The induction behind it (`AllNaturals`) is the argument of the
least counterexample, as the library's induction theorems take an operator as a
parameter and cannot be used. `ImageGood` is about the states `Files` starts in: by
induction over the files given to `fsformat` (`WriteEffect`) and over the blocks of
each (`FillEffect`), an image leaves a server fit, with nothing in the blocks it
has not given out, no pointers in a struct File without a name (`Blank`), and none
of the root directory beyond its size (`RootTail`).

Only model-checked: liveness (`NoStarvation`, `CallEnds`, `WaitsEnd`,
`CallsReturn`), which is beyond the prover.

## 5. What is left out

* The registers are one value and `a0`; trampoline.S is taken to save and
  restore them.
* Interrupts before the first return to user mode: `trap_init` enables them while
  `main` is still in the kernel.
* The page that goes with a message: only its late failure is modelled. The
  kernel maps it in the sender's directory (syscall.c:119), so no receiver ever
  gets one; `Ipc` and `Files` go on as if it had arrived.
* That a program can read its own entry of the process table needs a mapping with
  PTE_U that the kernel does not make; `Ipc` takes it for granted.
* Kernel stacks of entries other than the first lie, by `getProcessTopSp`, in the
  identity-mapped RAM. Up to the ninth the pages under them are ones that boot
  has made tables of, which `page_alloc` never hands out; with more entries a stack
  would be mapped over pages in use, and this is not modelled (`ProcAssumption`).
* Of the bits of an entry only PTE_U, PTE_W and PTE_C: R and X decide nothing the
  kernel does, and the bits of a system call's permissions above those, which
  would reach the address in the entry, are taken to be clear.
* `syscallMapMemoryFromTo` from an address that is not mapped computes a page
  from physical address 0 (the NULL test is dead code); only mapped sources are
  enumerated.
* A first program that does not fit in memory.
* Kernel accesses to user pages (`copyin`, `copyout`, SD buffers).
* The checks of the ELF header: they only refuse a file that is no program.
* `sdCardRead` and `sdCardWrite`, which nobody calls, and the bytes on the bus.
* The contents of files, the write-back of blocks other than the bitmap, and
  with it what a crash does to pointers on the disk. `serve_close` does not
  close the file (the call is commented out), so nothing is written then.
* `file_create`, `dir_alloc_file` and `file_close`, which nothing calls: no request
  makes a file.
* What the server does after the root directory was changed as a file, or words
  of a program came to be an indirect block: the properties end there.
* What `serve_open` overwrites through its uninitialised pointer after a failed
  `open_alloc`: the model has it stop, or go on unharmed.
* The server's table of open files beyond the set of files that are open;
  `open_alloc` never reuses an entry, since a count can not fall to one.
* file.c is a sequence of requests (`Ipc`) around copies of bytes; descriptors
  have no table to model: `fd_alloc` gets no further than the first one in use and
  `dup` maps nothing. `write_directory` of `fsformat` and `BinaryToC` work on host
  files.
* Output, formatting, byte copying: no state and no order to get wrong.

## 6. Plan

What is left, in this order.

1. The steps of the first `process_yield` and of `process_run` interleaved with the
   timer; at most one list operation is cut in two.
2. Messages with pages: `AddressSpace` composed with `Ipc`, and a run that shows
   what `mapMemoryFromTo` does to a copy-on-write page.
