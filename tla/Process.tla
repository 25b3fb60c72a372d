------------------------------- MODULE Process -------------------------------
(***************************************************************************)
(* Processes with their registers and messages: each operation of the      *)
(* module Scheduler together with what it does to the trapframe page, to   *)
(* the copies of it in the process table and to the mailboxes              *)
(* (kernel/trap/process.c, kernel/trap/syscall.c, kernel/trap/trap.c).     *)
(***************************************************************************)
EXTENDS Scheduler

CONSTANTS
    Regs,       \* register contents other than a0, pc included
    Entry,      \* the registers a freshly loaded program starts with
    Values,     \* the words processes send each other
    Keys        \* the characters the console can deliver

ASSUME RegsAssumption == Entry \in Regs
ASSUME DataAssumption == Values \subseteq Nat /\ Keys \subseteq Nat

E_BAD_ENV == 2
E_NO_FREE_ENV == 5

VARIABLES
    parentId,   \* processes[s].parentId
    saved,      \* processes[s].trapframe
    message,    \* processes[s].env_ipc_{value,from}
    trapframe,  \* the registers the next return to user mode loads
    turn        \* history: flips when a program takes a step of its own

contextVars == <<parentId, saved, message, trapframe, turn>>
vars == <<schedVars, contextVars>>

Trapframe == [a0 : Int, regs : Regs]
ASSUME NullIsNoTrapframe == NULL \notin Trapframe

\* The handler's last word to the caller: trapframe->a0 = r.
Return(r) == trapframe' = [trapframe EXCEPT !.a0 = r]

ProcessInit ==
    /\ Init
    /\ parentId = [s \in Slot |-> 0]
    /\ saved = [s \in Slot |-> [a0 |-> 0, regs |-> Entry]]
    /\ message = [s \in Slot |-> [value |-> 0, from |-> 0]]
    /\ trapframe = [a0 |-> 0, regs |-> Entry]
    /\ turn = FALSE

-----------------------------------------------------------------------------
(* The context switch.                                                     *)

\* Mutant: the leaving process's registers are not saved.
RunWithoutSaving(leaving, p) == trapframe' = saved[p] /\ UNCHANGED saved

\* The live trapframe goes to the entry of the process that leaves, if there
\* is one, and the entry of p becomes the live trapframe.
process_run(leaving, p) ==
    /\ saved' = IF leaving = NULL THEN saved
                                  ELSE [saved EXCEPT ![leaving] = trapframe]
    /\ trapframe' = saved'[p]

\* process_run follows process_yield unless that spins for ever.
Switch(leaving) ==
    \/ kernel' = "user" /\ process_run(leaving, curProcess')
    \/ kernel' = "spin" /\ UNCHANGED <<saved, trapframe>>

-----------------------------------------------------------------------------
(* The operations of Scheduler, with their effect on the contexts.         *)

\* Mutant: no parent is -1 and not 0, as in processes of other kernels.
SetUpMinusOne(parent, frame) ==
    LET p == Head(freeProcesses)
    IN  /\ parentId' = [parentId EXCEPT ![p] = IF parent = 0 THEN -1 ELSE parent]
        /\ saved' = [saved EXCEPT ![p] = frame]

\* Mutant: the child becomes its own parent.
SetUpOrphan(parent, frame) ==
    LET p == Head(freeProcesses)
    IN  /\ parentId' = [parentId EXCEPT ![p] = generate_pid(p)]
        /\ saved' = [saved EXCEPT ![p] = frame]

\* The parent id and the first trapframe of the entry process_alloc took.
SetUp(parent, frame) ==
    LET p == Head(freeProcesses)
    IN  /\ parentId' = [parentId EXCEPT ![p] = parent]
        /\ saved' = [saved EXCEPT ![p] = frame]

LoadProgram ==
    /\ ProcessCreatePriority
    /\ SetUp(0, [a0 |-> 0, regs |-> Entry])
    /\ UNCHANGED <<message, trapframe, turn>>

RunFirst == FirstYield /\ Switch(NULL) /\ UNCHANGED <<parentId, message, turn>>

Preempt ==
    Reschedule /\ Switch(curProcess) /\ UNCHANGED <<parentId, message, turn>>

\* Mutant: the parent is not told who its child is.
ForkTellsChildOnly ==
    /\ Fork
    /\ SetUp(id[curProcess], [trapframe EXCEPT !.a0 = 0])
    /\ UNCHANGED <<message, trapframe, turn>>

\* The copy of the parent's registers is made before the parent's a0 is set.
process_fork ==
    /\ Fork
    /\ SetUp(id[curProcess], [trapframe EXCEPT !.a0 = 0])
    /\ Return(generate_pid(Head(freeProcesses)))
    /\ UNCHANGED <<message, turn>>

\* With no free entry the error goes to the saved copy of the caller's
\* trapframe: the live one is left alone and the next switch overwrites the
\* copy.
ForkFails ==
    /\ InUser
    /\ freeProcesses = <<>>
    /\ saved' = [saved EXCEPT ![curProcess].a0 = -E_NO_FREE_ENV]
    /\ UNCHANGED <<schedVars, parentId, message, trapframe, turn>>

syscallExit == Exit /\ Switch(NULL) /\ UNCHANGED <<parentId, message, turn>>

syscallExitFaults == ExitFaults /\ UNCHANGED contextVars

syscallIpcRecv ==
    IpcRecv /\ Switch(curProcess) /\ UNCHANGED <<parentId, message, turn>>

\* The result is 0, or -1 when a page was to go with the message and could
\* not be mapped: by then the receiver has the message and has been woken.
syscallIpcCanSend ==
    \E pid \in PidInputs, value \in Values :
        /\ IpcCanSend(pid)
        /\ message' = [message EXCEPT ![pid2Process(pid)] =
                          [value |-> value, from |-> id[curProcess]]]
        /\ \E r \in {0, -1} : Return(r)
        /\ UNCHANGED <<parentId, saved, turn>>

syscallGetchar == Getchar /\ UNCHANGED contextVars

\* The program on the hart takes a step.
OwnStep == turn' = ~turn

KeyRead ==
    /\ KeyArrives
    /\ \E key \in Keys : Return(key)
    /\ OwnStep
    /\ UNCHANGED <<parentId, saved, message>>

-----------------------------------------------------------------------------
(* Operations that only concern the caller's registers.                    *)

OwnRegisters ==
    InUser /\ OwnStep /\ UNCHANGED <<schedVars, parentId, saved, message>>

UserStep ==
    /\ OwnRegisters
    /\ \E r \in Regs : trapframe' = [trapframe EXCEPT !.regs = r]

syscallGetProcessId == OwnRegisters /\ Return(id[curProcess])

syscallGetParentProcessId == OwnRegisters /\ Return(parentId[curProcess])

\* A send to nobody, or to a process that is not receiving.
IpcRefused ==
    /\ OwnRegisters
    /\ \E pid \in PidInputs :
          LET p == pid2Process(pid)
          IN  \/ p = NULL /\ Return(-E_BAD_ENV)
              \/ p # NULL /\ ~recving[p] /\ Return(-1)

ProcessNext ==
    \/ LoadProgram \/ RunFirst \/ Preempt
    \/ process_fork \/ ForkFails \/ syscallExit \/ syscallExitFaults
    \/ syscallIpcRecv \/ syscallIpcCanSend \/ IpcRefused
    \/ syscallGetchar \/ KeyRead
    \/ UserStep \/ syscallGetProcessId \/ syscallGetParentProcessId

ProcessSpec == ProcessInit /\ [][ProcessNext]_vars

-----------------------------------------------------------------------------
(* Properties.                                                             *)

\* The type of the variables this module adds.
ContextTypeOK ==
    /\ parentId \in [Slot -> Nat]
    /\ saved \in [Slot -> Trapframe]
    /\ message \in [Slot -> [value : Nat, from : Nat]]
    /\ trapframe \in Trapframe
    /\ turn \in BOOLEAN

\* The registers and the mailbox of each process, as it sees them: those of
\* the running one are in the trapframe page, and its entry is stale.
Registers(s) == IF s = curProcess THEN trapframe ELSE saved[s]
Contexts == [s \in Slot |-> IF state[s] = "FREE" THEN NULL ELSE Registers(s)]
Waiting == {s \in Slot : state[s] = "BLOCKED"}
Virtual == INSTANCE VirtualCpus WITH
    NoProcess <- NULL, ctx <- Contexts, name <- id, waiting <- Waiting,
    parent <- parentId, Refusals <- {-1, -E_BAD_ENV}

\* The single trapframe page and its copies in the process table give every
\* process registers of its own and a mailbox that takes one message for
\* each receive (the specification of VirtualCpus).  A timer interrupt or a
\* yield changes nobody's registers, neither those of the process that leaves
\* nor those of the one that comes; a fork gives parent and child the results
\* each must see; nothing else writes registers but the process itself.
ImplementsVirtualCpus == Virtual!Spec

\* A parent id, which pid2Process(pid, ., 1) accepts as a permission, never
\* comes to name a process other than the one that forked: what it names is
\* older than the child, or gone.
ParentIsOlder ==
    \A s \in Live :
        LET p == pid2Process(parentId[s])
        IN  parentId[s] # 0 /\ p # NULL => id[p] < id[s]
=============================================================================
