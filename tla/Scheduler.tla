------------------------------ MODULE Scheduler ------------------------------
(***************************************************************************)
(* The process table, its free list and the run queue of the kernel, with  *)
(* every operation that moves a process from one place to another: load,   *)
(* fork, exit, yield, the timer interrupt, a blocking receive, the send    *)
(* that wakes a receiver, and the wait for a key (kernel/trap/process.c,   *)
(* kernel/trap/trap.c, kernel/trap/syscall.c).  Registers and messages are *)
(* the business of the module Process, which refines this one.             *)
(*                                                                         *)
(* The machine has one hart and the kernel runs with interrupts off, so    *)
(* one system call or one interrupt is one step.  The two places where the *)
(* kernel does wait, process_yield with nothing to run and _getchar with   *)
(* an empty receive FIFO, are values of the variable kernel.               *)
(***************************************************************************)
EXTENDS Integers, Sequences, Functions

CONSTANTS
    PROCESS_TOTAL_NUMBER,   \* entries of processes[], a power of two
    NULL                    \* the null pointer

Slot == 0 .. PROCESS_TOTAL_NUMBER - 1

ASSUME TableAssumption == PROCESS_TOTAL_NUMBER \in Nat \ {0}
ASSUME NullAssumption == NULL \notin Slot

VARIABLES
    state,          \* processes[s].state
    id,             \* processes[s].id
    recving,        \* processes[s].env_ipc_recving
    freeProcesses,  \* the list of entries process_alloc takes from
    scheduleList,   \* the run queue; the running process is not in it
    curProcess,     \* the process that owns the hart, or NULL
    nextId,         \* generate_pid's counter
    kernel          \* where the hart is, see KernelMode

schedVars == <<state, id, recving, freeProcesses, scheduleList, curProcess,
               nextId, kernel>>

ProcessState == {"FREE", "BLOCKED", "RUNNABLE"}

\* "boot": main before its first process_yield; "user": a process runs;
\* "getchar": the kernel polls the UART for the running process; "spin":
\* process_yield rotates a run queue with nothing runnable in it, for ever;
\* "fault": the kernel unmapped its own text.
KernelMode == {"boot", "user", "getchar", "spin", "fault"}

\* PROCESS_OFFSET masks with a power of two minus one, which is the remainder.
PROCESS_OFFSET(pid) == pid % PROCESS_TOTAL_NUMBER

\* Mutant: the shift is by LOG_PROCESS_NUM - 1: the index and the counter overlap.
NarrowShift(p) == (nextId + 1) * (PROCESS_TOTAL_NUMBER \div 2) + p

\* ++nextId << (1 + LOG_PROCESS_NUM) | (p - processes).  An entry is handed
\* out once, so nextId stays at most PROCESS_TOTAL_NUMBER: no 32-bit overflow.
generate_pid(p) == (nextId + 1) * (2 * PROCESS_TOTAL_NUMBER) + p

\* The identifiers a caller may pass: those that exist, and others.
PidInputs == 0 .. 2 * PROCESS_TOTAL_NUMBER * (PROCESS_TOTAL_NUMBER + 1)

-----------------------------------------------------------------------------
(* The table.                                                              *)

\* Mutant: the loop of process_management_init is off by one.
FreeListOffByOne == [i \in 1 .. PROCESS_TOTAL_NUMBER |-> i]

\* processes[] in order.
InitialFreeList == [i \in 1 .. PROCESS_TOTAL_NUMBER |-> i - 1]

Init ==
    /\ state = [s \in Slot |-> "FREE"]
    /\ id = [s \in Slot |-> 0]
    /\ recving = [s \in Slot |-> FALSE]
    /\ freeProcesses = InitialFreeList
    /\ scheduleList = <<>>
    /\ curProcess = NULL
    /\ nextId = 0
    /\ kernel = "boot"

\* Mutant: no LIST_REMOVE.
AllocKeepsEntryFree(p) ==
    /\ freeProcesses # <<>>
    /\ p = Head(freeProcesses)
    /\ id' = [id EXCEPT ![p] = generate_pid(p)]
    /\ nextId' = nextId + 1
    /\ state' = [state EXCEPT ![p] = "RUNNABLE"]
    /\ UNCHANGED freeProcesses

\* Takes the first free entry; the creator then appends it to the run queue.
process_alloc(p) ==
    /\ freeProcesses # <<>>
    /\ p = Head(freeProcesses)
    /\ freeProcesses' = Tail(freeProcesses)
    /\ id' = [id EXCEPT ![p] = generate_pid(p)]
    /\ nextId' = nextId + 1
    /\ state' = [state EXCEPT ![p] = "RUNNABLE"]

\* The entry pid names, or NULL for -E_BAD_ENV (no permission check here).
pid2Process(pid) ==
    IF pid = 0 THEN curProcess
    ELSE LET p == PROCESS_OFFSET(pid)
         IN  IF state[p] = "FREE" \/ id[p] # pid THEN NULL ELSE p

-----------------------------------------------------------------------------
(* Yielding the hart.                                                      *)

\* Mutant: process_yield takes the first process whatever its state.
FirstOfAll(queue, i) == i = 1

\* Mutant: process_yield takes the runnable process nearest to the end.
LastRunnable(queue, i) ==
    /\ state'[queue[i]] = "RUNNABLE"
    /\ \A j \in i + 1 .. Len(queue) : state'[queue[j]] # "RUNNABLE"

IsFirstRunnable(queue, i) ==
    /\ state'[queue[i]] = "RUNNABLE"
    /\ \A j \in 1 .. i - 1 : state'[queue[j]] # "RUNNABLE"

\* What is left of the queue when its i-th element is taken: the ones before
\* it were taken, found not runnable and put back at the end.
Rotated(queue, i) == SubSeq(queue, i + 1, Len(queue)) \o SubSeq(queue, 1, i - 1)

\* Mutant: a process that blocks is taken off the run queue.
QueueWithoutBlocked(leaving) ==
    IF leaving = NULL \/ state'[leaving] = "BLOCKED" THEN scheduleList
    ELSE Append(scheduleList, leaving)

\* Mutant: the running process is not put back.
QueueOfOthers(leaving) == scheduleList

\* Mutant: LIST_INSERT_HEAD for LIST_INSERT_TAIL.
QueueInFront(leaving) ==
    IF leaving = NULL THEN scheduleList ELSE <<leaving>> \o scheduleList

Queue(leaving) ==
    IF leaving = NULL THEN scheduleList ELSE Append(scheduleList, leaving)

\* process_yield for the process that leaves the hart (NULL: none), which
\* goes to the end of the queue whatever its state, then process_run.  With
\* nothing runnable the loop never ends; once in each round of it the list
\* and the process in hand are the ones it started with.
process_yield(leaving) ==
    LET queue == Queue(leaving)
    IN  \/ \E i \in 1 .. Len(queue) :
              /\ IsFirstRunnable(queue, i)
              /\ scheduleList' = Rotated(queue, i)
              /\ curProcess' = queue[i]
              /\ kernel' = "user"
        \/ /\ \A i \in 1 .. Len(queue) : state'[queue[i]] # "RUNNABLE"
           /\ kernel' = "spin"
           /\ curProcess' = leaving
           /\ UNCHANGED scheduleList

-----------------------------------------------------------------------------
(* Booting.  main's list of PROCESS_CREATE_PRIORITY lines is edited from   *)
(* build to build: any number of programs is loaded before the first yield.*)

ProcessCreatePriority ==
    /\ kernel = "boot"
    /\ \E p \in Slot :
          process_alloc(p) /\ scheduleList' = Append(scheduleList, p)
    /\ UNCHANGED <<recving, curProcess, kernel>>

FirstYield ==
    /\ kernel = "boot"
    /\ UNCHANGED <<state, id, recving, freeProcesses, nextId>>
    /\ process_yield(NULL)

-----------------------------------------------------------------------------
(* The running process.                                                    *)

InUser == kernel = "user"

\* The timer interrupt, and schedYield: both end in process_yield.
Reschedule ==
    /\ InUser
    /\ UNCHANGED <<state, id, recving, freeProcesses, nextId>>
    /\ process_yield(curProcess)

Fork ==
    /\ InUser
    /\ \E p \in Slot :
          process_alloc(p) /\ scheduleList' = Append(scheduleList, p)
    /\ UNCHANGED <<recving, curProcess, kernel>>

\* process_destory(curProcess), if pgdir_free comes back.  The entry does not
\* go back to freeProcesses.  curProcess is NULL when process_yield starts.
Exit ==
    /\ InUser
    /\ state' = [state EXCEPT ![curProcess] = "FREE"]
    /\ process_yield(NULL)
    /\ UNCHANGED <<id, recving, freeProcesses, nextId>>

\* pgdir_free removes the kernel's text from the page table in use: from the
\* page that holds page_remove on, every fetch faults, the trap vector's too.
ExitFaults ==
    /\ InUser
    /\ kernel' = "fault"
    /\ UNCHANGED <<state, id, recving, freeProcesses, scheduleList, curProcess,
                   nextId>>

\* A destination outside the user's range returns at once, a stuttering step.
IpcRecv ==
    /\ InUser
    /\ recving' = [recving EXCEPT ![curProcess] = TRUE]
    /\ state' = [state EXCEPT ![curProcess] = "BLOCKED"]
    /\ process_yield(curProcess)
    /\ UNCHANGED <<id, freeProcesses, nextId>>

\* Mutant: the receiver is told but not woken.
DeliverWithoutWaking(p) ==
    /\ recving' = [recving EXCEPT ![p] = FALSE]
    /\ UNCHANGED state

\* syscallIpcCanSend once the receiver is found and found receiving: it is
\* in the run queue already.
Deliver(p) ==
    /\ recving' = [recving EXCEPT ![p] = FALSE]
    /\ state' = [state EXCEPT ![p] = "RUNNABLE"]

IpcCanSend(pid) ==
    LET p == pid2Process(pid)
    IN  /\ InUser
        /\ p # NULL
        /\ recving[p]
        /\ Deliver(p)
        /\ UNCHANGED <<id, freeProcesses, scheduleList, curProcess, nextId, kernel>>

Getchar ==
    /\ InUser
    /\ kernel' = "getchar"
    /\ UNCHANGED <<state, id, recving, freeProcesses, scheduleList, curProcess,
                   nextId>>

KeyArrives ==
    /\ kernel = "getchar"
    /\ kernel' = "user"
    /\ UNCHANGED <<state, id, recving, freeProcesses, scheduleList, curProcess,
                   nextId>>

Next ==
    \/ ProcessCreatePriority \/ FirstYield
    \/ Reschedule \/ Fork \/ Exit \/ ExitFaults
    \/ IpcRecv \/ \E pid \in PidInputs : IpcCanSend(pid)
    \/ Getchar \/ KeyArrives

Spec == Init /\ [][Next]_schedVars

\* Every interrupt re-arms the timer, and one that became pending while the
\* kernel ran is taken before the first user instruction after sret: hence
\* strong fairness, a timer interrupt cannot be missed for ever.
FairSpec == Spec /\ SF_schedVars(Reschedule)
-----------------------------------------------------------------------------
(* Properties.                                                             *)

Live == {s \in Slot : state[s] # "FREE"}

\* The type of every variable.
TypeOK ==
    /\ state \in [Slot -> ProcessState]
    /\ id \in [Slot -> Nat]
    /\ recving \in [Slot -> BOOLEAN]
    /\ freeProcesses \in Seq(Slot)
    /\ scheduleList \in Seq(Slot)
    /\ curProcess \in Slot \union {NULL}
    /\ nextId \in Nat
    /\ kernel \in KernelMode

\* Every live process is in the run queue exactly once, except the one that
\* has the hart, and no dead one is: LIST_INSERT_TAIL on an entry that is
\* already linked would corrupt the list, and a live process that is in
\* neither place never runs again.  Fork, exit, yield and a blocking receive
\* all move entries and none of them looks at where the entry was.
RunQueueExact ==
    /\ IsInjective(scheduleList)
    /\ Range(scheduleList) = Live \ {curProcess}

\* The free list holds exactly the entries never handed out, each once:
\* process_alloc can give a caller neither a live process nor one entry twice.
FreeListExact ==
    /\ IsInjective(freeProcesses)
    /\ Range(freeProcesses) = {s \in Slot : id[s] = 0}
    /\ \A s \in Live : id[s] # 0

\* A process is blocked exactly while its mailbox is open, so that the send
\* that closes the mailbox always wakes it and nothing else does: the two
\* fields are written by syscallIpcRecv in the receiver and by
\* syscallIpcCanSend in the sender.
BlockedIffReceiving ==
    \A s \in Slot : state[s] = "BLOCKED" <=> recving[s]

\* The hart is never in user mode, or waiting for a key, on behalf of a
\* process that is blocked, dead or absent.
CurrentIsRunnable ==
    kernel \in {"user", "getchar"} =>
        curProcess \in Slot /\ state[curProcess] = "RUNNABLE"

\* process_yield spins for ever only when no process can run: since
\* interrupts are off by then, a runnable process it missed would be lost.
SpinsOnlyWhenStuck ==
    kernel = "spin" => \A s \in Slot : state[s] # "RUNNABLE"

\* generate_pid gives every process an identifier of its own that leads
\* pid2Process back to it; the identifier of a dead process leads nowhere.
PidsResolve ==
    \A s \in Slot : id[s] # 0 =>
        /\ pid2Process(id[s]) = IF s \in Live THEN s ELSE NULL
        /\ \A t \in Slot \ {s} : id[t] # id[s]

\* An identifier holds the index of its entry, and is 0 until the entry is
\* handed out.
IdsWellFormed == \A s \in Slot : id[s] # 0 => PROCESS_OFFSET(id[s]) = s

\* Nobody has the hart before the first yield.
BootHasNoProcess == kernel = "boot" => curProcess = NULL

\* The inductive invariant behind the ones above.
IInv ==
    /\ TypeOK
    /\ RunQueueExact
    /\ FreeListExact
    /\ BlockedIffReceiving
    /\ CurrentIsRunnable
    /\ SpinsOnlyWhenStuck
    /\ IdsWellFormed
    /\ BootHasNoProcess

\* s is in the run queue before t.
Ahead(s, t) ==
    \E i, j \in 1 .. Len(scheduleList) :
        i < j /\ scheduleList[i] = s /\ scheduleList[j] = t

\* A process that can run and is ahead of another in the run queue gets the
\* hart first: no rotation of the blocked ones, fork or wake-up lets the
\* other one past it.
NoOvertaking ==
    [][\A s, t \in Slot :
         Ahead(s, t) /\ state[s] = "RUNNABLE" =>
             /\ curProcess' # t
             /\ curProcess' = s \/ Ahead(s, t)']_schedVars

\* As long as the hart keeps coming back to user mode, that is, no process
\* waits for a key for ever and exit does not take the kernel down, every
\* process that can run gets the hart.
NoStarvation ==
    []<>InUser =>
        \A s \in Slot : (s \in Live /\ state[s] = "RUNNABLE") ~> curProcess = s
=============================================================================
