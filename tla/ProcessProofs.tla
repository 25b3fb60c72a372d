---------------------------- MODULE ProcessProofs ----------------------------
(***************************************************************************)
(* What registers and messages add to the process table, for every size of *)
(* it: Process implements Scheduler, so that the theorems about Scheduler  *)
(* hold of it, its variables keep their types, parents are older than      *)
(* their children, and it implements VirtualCpus: each step of the kernel  *)
(* is a step of one process on registers of its own, or is not seen by any *)
(* program.                                                                *)
(***************************************************************************)
EXTENDS Process, SchedulerProofs

-----------------------------------------------------------------------------
(* Process implements Scheduler.                                           *)

\* Every operation, with its effect on registers and mailboxes, is one of
\* Scheduler's or leaves the table alone.
LEMMA StepIsSchedulerStep == [ProcessNext]_vars => [Next]_schedVars
<1> SUFFICES ASSUME [ProcessNext]_vars PROVE [Next]_schedVars
  OBVIOUS
<1>1. CASE LoadProgram \/ RunFirst \/ Preempt \/ process_fork
  BY <1>1 DEF LoadProgram, RunFirst, Preempt, process_fork, Next
<1>2. CASE syscallExit \/ syscallExitFaults \/ syscallIpcRecv
           \/ syscallGetchar \/ KeyRead
  BY <1>2 DEF syscallExit, syscallExitFaults, syscallIpcRecv, syscallGetchar,
              KeyRead, Next
<1>3. CASE syscallIpcCanSend
  BY <1>3 DEF syscallIpcCanSend, Next
<1>4. CASE ForkFails \/ IpcRefused \/ UserStep \/ syscallGetProcessId
           \/ syscallGetParentProcessId
  BY <1>4 DEF ForkFails, IpcRefused, UserStep, syscallGetProcessId,
              syscallGetParentProcessId, OwnRegisters
<1>5. CASE UNCHANGED vars
  BY <1>5 DEF vars
<1> QED
  BY <1>1, <1>2, <1>3, <1>4, <1>5 DEF ProcessNext

\* The kernel with its context switches does to the process table and the
\* run queue only what Scheduler allows.
THEOREM ProcessImplementsScheduler == ProcessSpec => Spec
<1>1. ProcessInit => Init
  BY DEF ProcessInit
<1>2. [ProcessNext]_vars => [Next]_schedVars
  BY StepIsSchedulerStep
<1> QED
  BY <1>1, <1>2, PTL DEF ProcessSpec, Spec

\* The invariant of the process table holds with registers and messages too.
THEOREM TableInvariant == ProcessSpec => []IInv
  BY ProcessImplementsScheduler, InductiveInvariant, PTL

-----------------------------------------------------------------------------
(* Types.                                                                  *)

\* process_run copies one trapframe over another.
LEMMA SwitchKeepsTypes ==
    ASSUME ContextTypeOK, NEW leaving \in Slot \union {NULL}, Switch(leaving),
           kernel' = "user" => curProcess' \in Slot
    PROVE  saved' \in [Slot -> Trapframe] /\ trapframe' \in Trapframe
<1>1. CASE kernel' = "user" /\ process_run(leaving, curProcess')
  <2>1. saved' \in [Slot -> Trapframe]
    <3>1. CASE leaving = NULL
      BY <1>1, <3>1 DEF process_run, ContextTypeOK
    <3>2. CASE leaving # NULL
      BY <1>1, <3>2 DEF process_run, ContextTypeOK
    <3> QED
      BY <3>1, <3>2
  <2> QED
    BY <1>1, <2>1 DEF process_run
<1>2. CASE kernel' = "spin" /\ UNCHANGED <<saved, trapframe>>
  BY <1>2 DEF ContextTypeOK
<1> QED
  BY <1>1, <1>2 DEF Switch

\* The parent id and the trapframe a new entry gets.
LEMMA SetUpKeepsTypes ==
    ASSUME ContextTypeOK, NEW parent \in Nat, NEW frame \in Trapframe,
           SetUp(parent, frame)
    PROVE  parentId' \in [Slot -> Nat] /\ saved' \in [Slot -> Trapframe]
  BY DEF SetUp, ContextTypeOK

\* What a handler returns in a0.
LEMMA ReturnKeepsTypes ==
    ASSUME trapframe \in Trapframe, NEW r \in Int, Return(r)
    PROVE  trapframe' \in Trapframe
  BY DEF Return, Trapframe

\* The first registers of a program, and the contexts before any runs.
LEMMA InitContexts == ProcessInit => ContextTypeOK
<1>1. [a0 |-> 0, regs |-> Entry] \in Trapframe
  BY RegsAssumption DEF Trapframe
<1>2. ProcessInit => turn \in BOOLEAN
  BY DEF ProcessInit
<1>3. ProcessInit => /\ parentId \in [Slot -> Nat]
                     /\ saved \in [Slot -> Trapframe]
                     /\ message \in [Slot -> [value : Nat, from : Nat]]
                     /\ trapframe \in Trapframe
  BY <1>1 DEF ProcessInit
<1> QED
  BY <1>2, <1>3 DEF ContextTypeOK

\* No operation stores a context, parent or message of another type.
LEMMA NextKeepsContextTypes ==
    IInv /\ IInv' /\ ContextTypeOK /\ [ProcessNext]_vars => ContextTypeOK'
<1> SUFFICES ASSUME IInv, IInv', ContextTypeOK, [ProcessNext]_vars
             PROVE  ContextTypeOK'
  OBVIOUS
<1>0. /\ kernel = "user" => curProcess \in Slot /\ id[curProcess] \in Nat
      /\ kernel' = "user" => curProcess' \in Slot
      /\ trapframe \in Trapframe
  BY DEF IInv, TypeOK, CurrentIsRunnable, ContextTypeOK
<1>1. CASE LoadProgram
  <2>1. [a0 |-> 0, regs |-> Entry] \in Trapframe
    BY RegsAssumption DEF Trapframe
  <2> QED
    BY <1>1, <2>1, SetUpKeepsTypes DEF LoadProgram, ContextTypeOK
<1>2. CASE RunFirst
  BY <1>0, <1>2, SwitchKeepsTypes DEF RunFirst, ContextTypeOK
<1>3. CASE Preempt
  BY <1>0, <1>3, SwitchKeepsTypes DEF Preempt, Reschedule, InUser, ContextTypeOK
<1>4. CASE process_fork
  <2>1. [trapframe EXCEPT !.a0 = 0] \in Trapframe
    BY <1>0 DEF Trapframe
  <2>2. generate_pid(Head(freeProcesses)) \in Int
    <3>1. Head(freeProcesses) \in Slot
      BY <1>4 DEF process_fork, Fork, process_alloc
    <3> QED
      BY <3>1, GeneratedPid DEF IInv, TypeOK
  <2> QED
    BY <1>0, <1>4, <2>1, <2>2, SetUpKeepsTypes, ReturnKeepsTypes
       DEF process_fork, Fork, InUser, ContextTypeOK
<1>5. CASE ForkFails
  <2>1. -E_NO_FREE_ENV \in Int
    BY DEF E_NO_FREE_ENV
  <2> QED
    BY <1>0, <1>5, <2>1 DEF ForkFails, InUser, ContextTypeOK, Trapframe
<1>6. CASE syscallExit
  BY <1>0, <1>6, SwitchKeepsTypes DEF syscallExit, ContextTypeOK
<1>7. CASE syscallIpcRecv
  BY <1>0, <1>7, SwitchKeepsTypes DEF syscallIpcRecv, IpcRecv, InUser, ContextTypeOK
<1>8. CASE syscallIpcCanSend
  <2>1. PICK pid \in PidInputs, value \in Values, r \in {0, -1} :
           /\ IpcCanSend(pid)
           /\ message' = [message EXCEPT ![pid2Process(pid)] =
                             [value |-> value, from |-> id[curProcess]]]
           /\ Return(r)
           /\ UNCHANGED <<parentId, saved, turn>>
    BY <1>8 DEF syscallIpcCanSend
  <2>2. [value |-> value, from |-> id[curProcess]] \in [value : Nat, from : Nat]
    BY <1>0, <2>1, DataAssumption DEF IpcCanSend, InUser
  <2>3. message' \in [Slot -> [value : Nat, from : Nat]]
    BY <2>1, <2>2 DEF ContextTypeOK
  <2>4. trapframe' \in Trapframe
    BY <1>0, <2>1, ReturnKeepsTypes
  <2> QED
    BY <2>1, <2>3, <2>4 DEF ContextTypeOK
<1>9. CASE KeyRead
  BY <1>0, <1>9, DataAssumption, ReturnKeepsTypes DEF KeyRead, OwnStep, ContextTypeOK
<1>10. CASE UserStep
  BY <1>0, <1>10 DEF UserStep, OwnRegisters, OwnStep, ContextTypeOK, Trapframe
<1>11. CASE syscallGetProcessId
  BY <1>0, <1>11, ReturnKeepsTypes
     DEF syscallGetProcessId, OwnRegisters, OwnStep, InUser, ContextTypeOK
<1>12. CASE syscallGetParentProcessId
  BY <1>0, <1>12, ReturnKeepsTypes
     DEF syscallGetParentProcessId, OwnRegisters, OwnStep, InUser, ContextTypeOK
<1>13. CASE IpcRefused
  <2>1. -E_BAD_ENV \in Int /\ -1 \in Int
    BY DEF E_BAD_ENV
  <2> QED
    BY <1>0, <1>13, <2>1, ReturnKeepsTypes
       DEF IpcRefused, OwnRegisters, OwnStep, ContextTypeOK
<1>14. CASE syscallExitFaults \/ syscallGetchar \/ UNCHANGED vars
  BY <1>14 DEF syscallExitFaults, syscallGetchar, contextVars, vars, ContextTypeOK
<1> QED
  BY <1>1, <1>2, <1>3, <1>4, <1>5, <1>6, <1>7, <1>8, <1>9, <1>10, <1>11, <1>12,
     <1>13, <1>14 DEF ProcessNext

\* Contexts, parents and messages keep their types through every operation
\* of the kernel.
THEOREM ContextTypeCorrect == ProcessSpec => []ContextTypeOK
<1>1. ProcessInit => ContextTypeOK
  BY InitContexts
<1>2. IInv /\ IInv' /\ ContextTypeOK /\ [ProcessNext]_vars => ContextTypeOK'
  BY NextKeepsContextTypes
<1> QED
  BY <1>1, <1>2, TableInvariant, PTL DEF ProcessSpec

-----------------------------------------------------------------------------
(* Parents are older.                                                      *)

\* Identifiers grow with nextId.
IdsBounded == \A s \in Slot : id[s] < (nextId + 1) * (2 * PROCESS_TOTAL_NUMBER)

\* Whoever has been handed out was created by nobody, or by an older process.
ParentsBefore == \A s \in Slot : id[s] # 0 => parentId[s] < id[s]

\* The inductive invariant behind ParentIsOlder, on top of Scheduler's.
AgeInv == IdsBounded /\ ParentsBefore

\* The identifier of a new entry is above all the others.
LEMMA NewIdIsHighest ==
    ASSUME nextId \in Nat, NEW p \in Slot, NEW n \in Nat,
           n < (nextId + 1) * (2 * PROCESS_TOTAL_NUMBER)
    PROVE  /\ n < generate_pid(p)
           /\ 0 < generate_pid(p)
           /\ n < (nextId + 2) * (2 * PROCESS_TOTAL_NUMBER)
           /\ generate_pid(p) < (nextId + 2) * (2 * PROCESS_TOTAL_NUMBER)
<1> DEFINE w == 2 * PROCESS_TOTAL_NUMBER
           b == (nextId + 1) * w
<1>1. w \in Nat /\ p \in Nat /\ p < w /\ w > 0
  BY TableAssumption, SMT DEF Slot
<1>2. b \in Nat /\ (nextId + 2) * w = b + w
  BY <1>1, SMT
<1>3. b > 0
  BY <1>1, SMT
<1> HIDE DEF w, b
<1>4. n < b + p /\ 0 < b + p /\ n < b + w /\ b + p < b + w
  <2>1. n < b
    BY DEF w, b
  <2> QED
    BY <1>1, <1>2, <1>3, <2>1, SMT
<1> QED
  BY <1>2, <1>4 DEF generate_pid, w, b

\* An operation that creates an entry gives it a parent that exists already.
LEMMA CreationKeepsAges ==
    ASSUME IInv, ContextTypeOK, AgeInv, NEW p \in Slot, process_alloc(p),
           NEW parent \in Nat, NEW frame, SetUp(parent, frame),
           parent < (nextId + 1) * (2 * PROCESS_TOTAL_NUMBER)
    PROVE  AgeInv'
<1>1. /\ id' = [id EXCEPT ![p] = generate_pid(p)]
      /\ parentId' = [parentId EXCEPT ![p] = parent]
      /\ nextId' = nextId + 1
      /\ nextId \in Nat
      /\ id \in [Slot -> Nat]
      /\ parentId \in [Slot -> Nat]
  BY DEF process_alloc, SetUp, IInv, TypeOK, ContextTypeOK
<1>2. nextId' + 1 = nextId + 2
  BY <1>1, SMT
<1>3. parent < generate_pid(p)
  BY <1>1, NewIdIsHighest
<1>4. ASSUME NEW s \in Slot
      PROVE  /\ id'[s] < (nextId + 2) * (2 * PROCESS_TOTAL_NUMBER)
             /\ id'[s] # 0 => parentId'[s] < id'[s]
  <2>1. id[s] \in Nat /\ id[s] < (nextId + 1) * (2 * PROCESS_TOTAL_NUMBER)
    BY <1>1 DEF AgeInv, IdsBounded
  <2>2. /\ id[s] < (nextId + 2) * (2 * PROCESS_TOTAL_NUMBER)
        /\ generate_pid(p) < (nextId + 2) * (2 * PROCESS_TOTAL_NUMBER)
    BY <1>1, <2>1, NewIdIsHighest
  <2>3. CASE s = p
    BY <1>1, <1>3, <2>2, <2>3
  <2>4. CASE s # p
    BY <1>1, <2>2, <2>4 DEF AgeInv, ParentsBefore
  <2> QED
    BY <2>3, <2>4
<1> QED
  BY <1>2, <1>4 DEF AgeInv, IdsBounded, ParentsBefore

\* Only the two creations touch identifiers and parents.
LEMMA NextKeepsAges ==
    IInv /\ ContextTypeOK /\ AgeInv /\ [ProcessNext]_vars => AgeInv'
<1> SUFFICES ASSUME IInv, ContextTypeOK, AgeInv, [ProcessNext]_vars PROVE AgeInv'
  OBVIOUS
<1>1. CASE LoadProgram
  <2>1. PICK p \in Slot : process_alloc(p)
    BY <1>1 DEF LoadProgram, ProcessCreatePriority
  <2>2. 0 < (nextId + 1) * (2 * PROCESS_TOTAL_NUMBER)
    BY TableAssumption, SMT DEF IInv, TypeOK
  <2> QED
    BY <1>1, <2>1, <2>2, CreationKeepsAges DEF LoadProgram
<1>2. CASE process_fork
  <2>1. PICK p \in Slot : process_alloc(p)
    BY <1>2 DEF process_fork, Fork
  <2>2. /\ id[curProcess] \in Nat
        /\ id[curProcess] < (nextId + 1) * (2 * PROCESS_TOTAL_NUMBER)
    BY <1>2 DEF process_fork, Fork, InUser, IInv, TypeOK, CurrentIsRunnable,
                AgeInv, IdsBounded
  <2> QED
    BY <1>2, <2>1, <2>2, CreationKeepsAges DEF process_fork
<1>3. CASE UNCHANGED <<id, nextId, parentId>>
  BY <1>3 DEF AgeInv, IdsBounded, ParentsBefore
<1>4. RunFirst \/ Preempt \/ ForkFails \/ syscallExit \/ syscallExitFaults
      \/ syscallIpcRecv \/ syscallIpcCanSend \/ IpcRefused \/ syscallGetchar
      \/ KeyRead \/ UserStep \/ syscallGetProcessId
      \/ syscallGetParentProcessId \/ UNCHANGED vars
      => UNCHANGED <<id, nextId, parentId>>
  BY DEF RunFirst, FirstYield, Preempt, Reschedule, ForkFails, syscallExit, Exit,
         syscallExitFaults, ExitFaults, syscallIpcRecv, IpcRecv,
         syscallIpcCanSend, IpcCanSend, IpcRefused, syscallGetchar, Getchar,
         KeyRead, KeyArrives, UserStep, syscallGetProcessId,
         syscallGetParentProcessId, OwnRegisters, contextVars, vars, schedVars
<1> QED
  BY <1>1, <1>2, <1>3, <1>4 DEF ProcessNext

\* Identifiers are handed out in increasing order, for ever.
THEOREM AgesAreOrdered == ProcessSpec => []AgeInv
<1>1. ProcessInit => AgeInv
  BY TableAssumption, SMT DEF ProcessInit, Init, AgeInv, IdsBounded, ParentsBefore
<1>2. IInv /\ ContextTypeOK /\ AgeInv /\ [ProcessNext]_vars => AgeInv'
  BY NextKeepsAges
<1> QED
  BY <1>1, <1>2, TableInvariant, ContextTypeCorrect, PTL DEF ProcessSpec

\* Fork gives a child the identifier of its parent, and generate_pid never
\* repeats one: what getParentProcessId returns, and memoryAlloc accepts as a
\* permission, never comes to name a younger process.
THEOREM ParentsAreOlder == ProcessSpec => []ParentIsOlder
<1>1. IInv /\ ContextTypeOK /\ AgeInv => ParentIsOlder
  <2> SUFFICES ASSUME IInv, ContextTypeOK, AgeInv, NEW s \in Live,
                      parentId[s] # 0, pid2Process(parentId[s]) # NULL
               PROVE  id[pid2Process(parentId[s])] < id[s]
    BY DEF ParentIsOlder
  <2>1. s \in Slot /\ id[s] # 0
    BY DEF IInv, FreeListExact, Live
  <2>2. parentId[s] < id[s]
    BY <2>1 DEF AgeInv, ParentsBefore
  <2>3. id[pid2Process(parentId[s])] = parentId[s]
    BY DEF pid2Process
  <2> QED
    BY <2>2, <2>3
<1> QED
  BY <1>1, AgesAreOrdered, TableInvariant, ContextTypeCorrect, PTL


-----------------------------------------------------------------------------
(* The context switch.                                                     *)

\* Whoever has the hart after a process was put back in the queue, every
\* process finds the registers it left: process_yield and process_run.
LEMMA SwitchMovesRegisters ==
    ASSUME ContextTypeOK, curProcess \in Slot, curProcess' \in Slot,
           process_yield(curProcess), Switch(curProcess), NEW s \in Slot
    PROVE  Registers(s)' = Registers(s)
<1>0. curProcess # NULL /\ saved \in [Slot -> Trapframe]
  BY NullAssumption DEF ContextTypeOK
<1>1. CASE kernel' = "user" /\ process_run(curProcess, curProcess')
  <2>1. /\ saved' = [saved EXCEPT ![curProcess] = trapframe]
        /\ trapframe' = saved'[curProcess']
    BY <1>0, <1>1 DEF process_run
  <2> QED
    BY <1>0, <2>1 DEF Registers
<1>2. CASE kernel' = "spin" /\ UNCHANGED <<saved, trapframe>>
  <2>1. curProcess' = curProcess
    BY <1>2 DEF process_yield
  <2> QED
    BY <1>2, <2>1 DEF Registers
<1> QED
  BY <1>1, <1>2 DEF Switch

\* The same when nobody leaves, after an exit and in the first yield.
LEMMA SwitchLoadsRegisters ==
    ASSUME process_yield(NULL), Switch(NULL), NEW s \in Slot
    PROVE  Registers(s)' = saved[s]
<1>1. CASE kernel' = "user" /\ process_run(NULL, curProcess')
  BY <1>1 DEF process_run, Registers
<1>2. CASE kernel' = "spin" /\ UNCHANGED <<saved, trapframe>>
  <2>1. curProcess' = NULL
    BY <1>2 DEF process_yield
  <2> QED
    BY <1>2, <2>1, NullAssumption DEF Registers
<1> QED
  BY <1>1, <1>2 DEF Switch

\* The registers of the process that has the hart are the trapframe page.
LEMMA RunningContext ==
    ASSUME IInv, ContextTypeOK, kernel \in {"user", "getchar"}
    PROVE  /\ curProcess \in Slot /\ curProcess # NULL
           /\ state[curProcess] = "RUNNABLE"
           /\ Contexts[curProcess] = trapframe
           /\ trapframe \in Trapframe
           /\ Virtual!Active(curProcess)
<1>1. /\ curProcess \in Slot /\ curProcess # NULL
      /\ state[curProcess] = "RUNNABLE"
  BY NullAssumption DEF IInv, CurrentIsRunnable
<1>2. Contexts[curProcess] = trapframe /\ trapframe \in Trapframe
  BY <1>1 DEF Contexts, Registers, ContextTypeOK
<1>3. Virtual!Active(curProcess)
  BY <1>1, <1>2, NullIsNoTrapframe DEF Virtual!Active, Virtual!Live, Waiting
<1> QED
  BY <1>1, <1>2, <1>3

-----------------------------------------------------------------------------
(* The operations.                                                         *)

\* An entry process_alloc takes is one nobody ever had, and its identifier
\* is new.
LEMMA NewEntry ==
    ASSUME IInv, AgeInv, kernel \in {"boot", "user"}, NEW p \in Slot,
           process_alloc(p)
    PROVE  /\ state[p] = "FREE" /\ id[p] = 0 /\ p # curProcess
           /\ p = Head(freeProcesses)
           /\ id' = [id EXCEPT ![p] = generate_pid(p)]
           /\ id'[p] = generate_pid(p)
           /\ state' = [state EXCEPT ![p] = "RUNNABLE"]
           /\ Virtual!Fresh(generate_pid(p))
           /\ Contexts[p] = NULL
           /\ Waiting' = Waiting
<1>1. p \in Range(freeProcesses)
  BY TailOfInjective DEF IInv, TypeOK, FreeListExact, process_alloc
<1>2. id[p] = 0 /\ state[p] = "FREE"
  BY <1>1 DEF IInv, FreeListExact, Live
<1>3. /\ id' = [id EXCEPT ![p] = generate_pid(p)]
      /\ state' = [state EXCEPT ![p] = "RUNNABLE"]
      /\ id \in [Slot -> Nat] /\ nextId \in Nat
      /\ state \in [Slot -> ProcessState]
  BY DEF process_alloc, IInv, TypeOK
<1>4. Virtual!Fresh(generate_pid(p))
  <2>1. generate_pid(p) \in Nat \ {0}
    BY <1>3, GeneratedPid
  <2>2. ASSUME NEW s \in Slot PROVE id[s] # generate_pid(p)
    <3>1. id[s] \in Nat /\ id[s] < (nextId + 1) * (2 * PROCESS_TOTAL_NUMBER)
      BY <1>3 DEF AgeInv, IdsBounded
    <3>2. id[s] < generate_pid(p)
      BY <1>3, <3>1, NewIdIsHighest
    <3> QED
      BY <2>1, <3>1, <3>2, SMT
  <2> QED
    BY <2>1, <2>2, SMT DEF Virtual!Fresh
<1>5. Contexts[p] = NULL
  BY <1>2 DEF Contexts
<1>6. Waiting' = Waiting
  BY <1>2, <1>3 DEF Waiting
<1>7. p # curProcess /\ p = Head(freeProcesses) /\ id'[p] = generate_pid(p)
  BY <1>2, <1>3, NullAssumption
     DEF IInv, CurrentIsRunnable, BootHasNoProcess, process_alloc
<1> QED
  BY <1>2, <1>3, <1>4, <1>5, <1>6, <1>7

\* main loads a program: a process appears, with the registers it starts
\* with, and no other is touched.
LEMMA LoadIsSpawn ==
    ASSUME IInv, ContextTypeOK, AgeInv, LoadProgram
    PROVE  \E s \in Slot : Virtual!Spawn(s)
<1> DEFINE frame == [a0 |-> 0, regs |-> Entry]
<1>1. PICK p \in Slot : process_alloc(p)
  BY DEF LoadProgram, ProcessCreatePriority
<1>2. /\ kernel = "boot" /\ curProcess = NULL
      /\ SetUp(0, frame)
      /\ UNCHANGED <<curProcess, message, trapframe, turn>>
  BY DEF LoadProgram, ProcessCreatePriority, IInv, BootHasNoProcess
<1>3. /\ state[p] = "FREE" /\ id[p] = 0 /\ p # curProcess
      /\ p = Head(freeProcesses)
      /\ id' = [id EXCEPT ![p] = generate_pid(p)]
      /\ id'[p] = generate_pid(p)
      /\ state' = [state EXCEPT ![p] = "RUNNABLE"]
      /\ Virtual!Fresh(generate_pid(p))
      /\ Contexts[p] = NULL
      /\ Waiting' = Waiting
  BY <1>1, <1>2, NewEntry
<1>4. frame \in Trapframe
  BY RegsAssumption DEF Trapframe
<1>5. /\ saved' = [saved EXCEPT ![p] = frame]
      /\ parentId' = [parentId EXCEPT ![p] = 0]
  BY <1>2, <1>3 DEF SetUp
<1> HIDE DEF frame
<1>6. /\ state \in [Slot -> ProcessState] /\ saved \in [Slot -> Trapframe]
      /\ NULL \notin Slot
  BY NullAssumption DEF IInv, TypeOK, ContextTypeOK
<1>7. Contexts'[p] = frame
  BY <1>2, <1>3, <1>5, <1>6 DEF Contexts, Registers
<1>8. Contexts' = [Contexts EXCEPT ![p] = frame]
  BY <1>2, <1>3, <1>5, <1>6 DEF Contexts, Registers
<1>9. Virtual!Spawn(p)
  BY <1>2, <1>3, <1>4, <1>5, <1>7, <1>8
     DEF Virtual!Spawn, Virtual!Live, Virtual!Context, Trapframe
<1> QED
  BY <1>9

\* process_fork: the child has the parent's registers, and the two results.
LEMMA ForkIsFork ==
    ASSUME IInv, ContextTypeOK, AgeInv, process_fork
    PROVE  \E t \in Slot : Virtual!Fork(curProcess, t)
<1> DEFINE frame == [trapframe EXCEPT !.a0 = 0]
           result == generate_pid(Head(freeProcesses))
<1>1. PICK p \in Slot : process_alloc(p)
  BY DEF process_fork, Fork
<1>2. /\ kernel = "user"
      /\ SetUp(id[curProcess], frame)
      /\ trapframe' = [trapframe EXCEPT !.a0 = result]
      /\ UNCHANGED <<curProcess, message, turn>>
  BY DEF process_fork, Fork, InUser, Return
<1>3. /\ state[p] = "FREE" /\ id[p] = 0 /\ p # curProcess
      /\ p = Head(freeProcesses)
      /\ id' = [id EXCEPT ![p] = generate_pid(p)]
      /\ id'[p] = generate_pid(p)
      /\ state' = [state EXCEPT ![p] = "RUNNABLE"]
      /\ Virtual!Fresh(generate_pid(p))
      /\ Contexts[p] = NULL
      /\ Waiting' = Waiting
  BY <1>1, <1>2, NewEntry
<1>4. /\ curProcess \in Slot
      /\ state[curProcess] = "RUNNABLE"
      /\ Contexts[curProcess] = trapframe
      /\ Virtual!Active(curProcess)
  BY <1>2, RunningContext
<1>5. /\ saved' = [saved EXCEPT ![p] = frame]
      /\ parentId' = [parentId EXCEPT ![p] = id[curProcess]]
  BY <1>2, <1>3 DEF SetUp
<1>6. /\ state \in [Slot -> ProcessState] /\ saved \in [Slot -> Trapframe]
  BY DEF IInv, TypeOK, ContextTypeOK
<1>7. result = id'[p]
  BY <1>3
<1> HIDE DEF frame, result
<1>8. Contexts' = [Contexts EXCEPT ![p] = frame,
                                   ![curProcess] = trapframe']
  BY <1>2, <1>3, <1>4, <1>5, <1>6 DEF Contexts, Registers
<1>9. [Contexts EXCEPT ![p] = [Contexts[curProcess] EXCEPT !.a0 = 0],
                       ![curProcess].a0 = id'[p]]
      = [Contexts EXCEPT ![p] = frame, ![curProcess] = trapframe']
  BY <1>2, <1>3, <1>4, <1>7 DEF Contexts, frame
<1>10. Virtual!Fork(curProcess, p)
  BY <1>2, <1>3, <1>4, <1>5, <1>8, <1>9 DEF Virtual!Fork, Virtual!Live
<1> QED
  BY <1>10

\* When the running process changes its own trapframe only, nobody else's
\* registers change.
LEMMA OwnRegistersOnly ==
    ASSUME IInv, ContextTypeOK, ContextTypeOK', kernel \in {"user", "getchar"},
           turn' = ~turn, UNCHANGED <<state, id, curProcess, parentId, saved, message>>
    PROVE  /\ curProcess \in Slot
           /\ Virtual!OwnStep(curProcess)
           /\ Contexts[curProcess] = trapframe /\ trapframe \in Trapframe
           /\ Contexts'[curProcess] = trapframe' /\ trapframe' \in Trapframe
           /\ Contexts' = [Contexts EXCEPT ![curProcess] = trapframe']
<1>1. /\ curProcess \in Slot
      /\ state[curProcess] = "RUNNABLE"
      /\ Virtual!Active(curProcess)
      /\ Contexts[curProcess] = trapframe /\ trapframe \in Trapframe
  BY RunningContext
<1>2. Contexts'[curProcess] = trapframe' /\ trapframe' \in Trapframe
  BY <1>1 DEF Contexts, Registers, ContextTypeOK
<1>3. Contexts' = [Contexts EXCEPT ![curProcess] = trapframe']
  BY <1>1 DEF Contexts, Registers
<1>4. Waiting' = Waiting
  BY DEF Waiting
<1>5. Virtual!OwnStep(curProcess)
  BY <1>1, <1>4 DEF Virtual!OwnStep
<1> QED
  BY <1>1, <1>2, <1>3, <1>5

\* The program computes.
LEMMA UserStepIsCompute ==
    ASSUME IInv, ContextTypeOK, ContextTypeOK', UserStep
    PROVE  curProcess \in Slot /\ Virtual!Compute(curProcess)
<1>1. PICK r \in Regs : trapframe' = [trapframe EXCEPT !.regs = r]
  BY DEF UserStep
<1>2. /\ kernel = "user" /\ turn' = ~turn
      /\ UNCHANGED <<state, id, curProcess, parentId, saved, message>>
  BY DEF UserStep, OwnRegisters, OwnStep, InUser, schedVars
<1>3. /\ curProcess \in Slot
      /\ Virtual!OwnStep(curProcess)
      /\ Contexts[curProcess] = trapframe /\ trapframe \in Trapframe
      /\ Contexts'[curProcess] = trapframe'
      /\ Contexts' = [Contexts EXCEPT ![curProcess] = trapframe']
  BY <1>2, OwnRegistersOnly
<1>4. trapframe'.regs = r
  BY <1>1, <1>3 DEF Trapframe
<1>5. [Contexts EXCEPT ![curProcess].regs = r]
      = [Contexts EXCEPT ![curProcess] = trapframe']
  BY <1>1, <1>3
<1> QED
  BY <1>3, <1>4, <1>5 DEF Virtual!Compute

\* A handler that only returns a result.
LEMMA ReturnIsAnswer ==
    ASSUME IInv, ContextTypeOK, ContextTypeOK', kernel \in {"user", "getchar"},
           turn' = ~turn, UNCHANGED <<state, id, curProcess, parentId, saved, message>>,
           NEW r, Return(r), r \in Virtual!Answers(curProcess)
    PROVE  \E s \in Slot : \E a \in Virtual!Answers(s) : Virtual!Answer(s, a)
<1>1. /\ curProcess \in Slot
      /\ Virtual!OwnStep(curProcess)
      /\ Contexts[curProcess] = trapframe
      /\ Contexts' = [Contexts EXCEPT ![curProcess] = trapframe']
  BY OwnRegistersOnly
<1>2. [Contexts EXCEPT ![curProcess].a0 = r]
      = [Contexts EXCEPT ![curProcess] = trapframe']
  BY <1>1 DEF Return
<1>3. Virtual!Answer(curProcess, r)
  BY <1>1, <1>2 DEF Virtual!Answer
<1> QED
  BY <1>1, <1>3

\* The identifiers, the keys and the refusals are all a handler returns
\* without doing anything else.
LEMMA AnswersAreAnswers ==
    ASSUME IInv, ContextTypeOK, ContextTypeOK',
           \/ syscallGetProcessId \/ syscallGetParentProcessId
           \/ IpcRefused \/ KeyRead
    PROVE  \E s \in Slot : \E a \in Virtual!Answers(s) : Virtual!Answer(s, a)
<1>1. /\ kernel \in {"user", "getchar"} /\ turn' = ~turn
      /\ UNCHANGED <<state, id, curProcess, parentId, saved, message>>
  BY DEF syscallGetProcessId, syscallGetParentProcessId, IpcRefused,
         OwnRegisters, OwnStep, KeyRead, KeyArrives, InUser, schedVars
<1>2. PICK r : Return(r) /\ r \in Virtual!Answers(curProcess)
  <2>1. CASE syscallGetProcessId
    BY <2>1 DEF syscallGetProcessId, Virtual!Answers
  <2>2. CASE syscallGetParentProcessId
    BY <2>2 DEF syscallGetParentProcessId, Virtual!Answers
  <2>3. CASE IpcRefused
    BY <2>3 DEF IpcRefused, Virtual!Answers
  <2>4. CASE KeyRead
    BY <2>4 DEF KeyRead, Virtual!Answers
  <2> QED
    BY <2>1, <2>2, <2>3, <2>4
<1> QED
  BY <1>1, <1>2, ReturnIsAnswer

\* An exit takes the registers of one process away and switches to another.
LEMMA ExitIsExit ==
    ASSUME IInv, ContextTypeOK, syscallExit PROVE Virtual!Exit(curProcess)
<1>1. /\ kernel = "user"
      /\ state' = [state EXCEPT ![curProcess] = "FREE"]
      /\ process_yield(NULL) /\ Switch(NULL)
      /\ UNCHANGED <<id, message, parentId, turn>>
  BY DEF syscallExit, Exit, InUser
<1>2. /\ curProcess \in Slot
      /\ state[curProcess] = "RUNNABLE"
      /\ Virtual!Active(curProcess)
  BY <1>1, RunningContext
<1>3. state \in [Slot -> ProcessState]
  BY DEF IInv, TypeOK
<1>4. Contexts' = [Contexts EXCEPT ![curProcess] = NULL]
  <2>1. ASSUME NEW s \in Slot
        PROVE  (IF state'[s] = "FREE" THEN NULL ELSE Registers(s)')
               = (IF s = curProcess THEN NULL ELSE Contexts[s])
    <3>1. Registers(s)' = saved[s]
      BY <1>1, SwitchLoadsRegisters
    <3> QED
      BY <1>1, <1>2, <1>3, <3>1 DEF Contexts, Registers
  <2> QED
    BY <1>2, <2>1 DEF Contexts
<1>5. Waiting' = Waiting
  BY <1>1, <1>2, <1>3 DEF Waiting
<1> QED
  BY <1>1, <1>2, <1>4, <1>5 DEF Virtual!Exit

\* A blocking receive changes nobody's registers.
LEMMA RecvIsReceive ==
    ASSUME IInv, IInv', ContextTypeOK, syscallIpcRecv
    PROVE  Virtual!Receive(curProcess)
<1>1. /\ kernel = "user"
      /\ state' = [state EXCEPT ![curProcess] = "BLOCKED"]
      /\ process_yield(curProcess) /\ Switch(curProcess)
      /\ UNCHANGED <<id, message, parentId, turn>>
  BY DEF syscallIpcRecv, IpcRecv, InUser
<1>2. /\ curProcess \in Slot
      /\ state[curProcess] = "RUNNABLE"
      /\ Virtual!Active(curProcess)
  BY <1>1, RunningContext
<1>3. state \in [Slot -> ProcessState]
  BY DEF IInv, TypeOK
<1>4. curProcess' \in Slot
  <2>1. CASE kernel' = "user"
    BY <2>1 DEF IInv, CurrentIsRunnable
  <2>2. CASE kernel' = "spin"
    BY <1>1, <1>2, <2>2 DEF process_yield
  <2> QED
    BY <1>1, <2>1, <2>2 DEF Switch
<1>5. Contexts' = Contexts
  <2>1. ASSUME NEW s \in Slot
        PROVE  (IF state'[s] = "FREE" THEN NULL ELSE Registers(s)') = Contexts[s]
    <3>1. Registers(s)' = Registers(s)
      BY <1>1, <1>2, <1>4, SwitchMovesRegisters
    <3> QED
      BY <1>1, <1>2, <1>3, <3>1 DEF Contexts
  <2> QED
    BY <2>1 DEF Contexts
<1>6. Waiting' = Waiting \union {curProcess}
  BY <1>1, <1>2, <1>3 DEF Waiting
<1> QED
  BY <1>1, <1>2, <1>5, <1>6 DEF Virtual!Receive

\* A send reaches a waiting process, which then waits no more.
LEMMA CanSendIsSend ==
    ASSUME IInv, ContextTypeOK, syscallIpcCanSend
    PROVE  \E t \in Slot : Virtual!Send(curProcess, t)
<1>1. PICK pid \in PidInputs, value \in Values, r \in {0, -1} :
         /\ IpcCanSend(pid)
         /\ message' = [message EXCEPT ![pid2Process(pid)] =
                           [value |-> value, from |-> id[curProcess]]]
         /\ Return(r)
         /\ UNCHANGED <<parentId, saved, turn>>
  BY DEF syscallIpcCanSend
<1> DEFINE t == pid2Process(pid)
<1>2. /\ kernel = "user" /\ recving[t]
      /\ state' = [state EXCEPT ![t] = "RUNNABLE"]
      /\ UNCHANGED <<id, curProcess>>
  BY <1>1 DEF IpcCanSend, Deliver, InUser
<1>3. /\ curProcess \in Slot
      /\ state[curProcess] = "RUNNABLE"
      /\ Contexts[curProcess] = trapframe
      /\ trapframe \in Trapframe
      /\ Virtual!Active(curProcess)
  BY <1>2, RunningContext
<1>4. t \in Slot
  <2>1. pid \in Nat
    BY TableAssumption, SMT DEF PidInputs
  <2> QED
    BY <1>1, <1>3, <2>1, OffsetInTable DEF IpcCanSend, pid2Process
<1>5. message' = [message EXCEPT ![t] = [value |-> value, from |-> id[curProcess]]]
  BY <1>1
<1> HIDE DEF t
<1>6. /\ state \in [Slot -> ProcessState]
      /\ message \in [Slot -> [value : Nat, from : Nat]]
  BY DEF IInv, TypeOK, ContextTypeOK
<1>7. state[t] = "BLOCKED" /\ t \in Waiting /\ t # curProcess
  BY <1>2, <1>3, <1>4 DEF IInv, BlockedIffReceiving, Waiting
<1>8. Waiting' = Waiting \ {t}
  BY <1>2, <1>4, <1>6 DEF Waiting
<1>9. message'[t].value = value
  BY <1>4, <1>5, <1>6
<1>10. trapframe' = [trapframe EXCEPT !.a0 = r] /\ trapframe'.a0 = r
  BY <1>1, <1>3 DEF Return, Trapframe
<1>11. Contexts' = [Contexts EXCEPT ![curProcess] = trapframe']
  BY <1>1, <1>2, <1>3, <1>4, <1>6, <1>7 DEF Contexts, Registers
<1>12. Contexts'[curProcess] = trapframe'
  BY <1>3, <1>11 DEF Contexts
<1>13. [Contexts EXCEPT ![curProcess].a0 = Contexts'[curProcess].a0]
       = [Contexts EXCEPT ![curProcess] = trapframe']
  BY <1>3, <1>10, <1>12
<1>14. Virtual!Send(curProcess, t)
  BY <1>1, <1>2, <1>3, <1>5, <1>7, <1>8, <1>9, <1>10, <1>11, <1>12, <1>13
     DEF Virtual!Send
<1> QED
  BY <1>4, <1>14

\* The timer interrupt and sched_yield: no program sees the switch.
LEMMA PreemptUnseen ==
    ASSUME IInv, IInv', ContextTypeOK, Preempt PROVE UNCHANGED Virtual!vars
<1>1. /\ kernel = "user" /\ UNCHANGED <<state, id, message, parentId, turn>>
      /\ process_yield(curProcess) /\ Switch(curProcess)
  BY DEF Preempt, Reschedule, InUser
<1>2. curProcess \in Slot
  BY <1>1, RunningContext
<1>3. curProcess' \in Slot
  <2>1. CASE kernel' = "user"
    BY <2>1 DEF IInv, CurrentIsRunnable
  <2>2. CASE kernel' = "spin"
    BY <1>1, <1>2, <2>2 DEF process_yield
  <2> QED
    BY <1>1, <2>1, <2>2 DEF Switch
<1>4. \A s \in Slot : Registers(s)' = Registers(s)
  BY <1>1, <1>2, <1>3, SwitchMovesRegisters
<1>5. Contexts' = Contexts /\ Waiting' = Waiting
  BY <1>1, <1>4 DEF Contexts, Waiting
<1> QED
  BY <1>1, <1>5 DEF Virtual!vars

\* main's first yield puts the first program on the hart with the registers
\* it was loaded with.
LEMMA FirstRunUnseen ==
    ASSUME IInv, RunFirst PROVE UNCHANGED Virtual!vars
<1>1. /\ curProcess = NULL /\ UNCHANGED <<state, id, message, parentId, turn>>
      /\ process_yield(NULL) /\ Switch(NULL)
  BY DEF RunFirst, FirstYield, IInv, BootHasNoProcess
<1>2. \A s \in Slot : Registers(s)' = Registers(s)
  <2>1. \A s \in Slot : Registers(s)' = saved[s]
    BY <1>1, SwitchLoadsRegisters
  <2> QED
    BY <1>1, <2>1, NullAssumption DEF Registers
<1>3. Contexts' = Contexts /\ Waiting' = Waiting
  BY <1>1, <1>2 DEF Contexts, Waiting
<1> QED
  BY <1>1, <1>3 DEF Virtual!vars

\* A failed fork writes to the stale copy of the caller's trapframe, the wait
\* for a key and the fault write nothing.
LEMMA RestUnseen ==
    ASSUME IInv, ContextTypeOK,
           ForkFails \/ syscallExitFaults \/ syscallGetchar \/ UNCHANGED vars
    PROVE  UNCHANGED Virtual!vars
<1>1. UNCHANGED <<state, id, message, parentId, turn, curProcess, trapframe>>
  BY DEF ForkFails, syscallExitFaults, ExitFaults, syscallGetchar, Getchar,
         contextVars, schedVars, vars
<1>2. ASSUME NEW s \in Slot PROVE Registers(s)' = Registers(s)
  <2>1. CASE ForkFails
    <3>1. saved' = [saved EXCEPT ![curProcess].a0 = -E_NO_FREE_ENV]
      BY <2>1 DEF ForkFails
    <3>2. s # curProcess => saved'[s] = saved[s]
      BY <3>1 DEF ContextTypeOK
    <3> QED
      BY <1>1, <3>2 DEF Registers
  <2>2. CASE syscallExitFaults \/ syscallGetchar \/ UNCHANGED vars
    BY <1>1, <2>2 DEF syscallExitFaults, syscallGetchar, contextVars, vars, Registers
  <2> QED
    BY <2>1, <2>2
<1>3. Contexts' = Contexts /\ Waiting' = Waiting
  BY <1>1, <1>2 DEF Contexts, Waiting
<1> QED
  BY <1>1, <1>3 DEF Virtual!vars

-----------------------------------------------------------------------------
(* The refinement.                                                         *)

\* Before any program is loaded there are no contexts.
LEMMA InitIsInit == ProcessInit => Virtual!Init
  BY DEF ProcessInit, Init, Virtual!Init, Contexts, Waiting

\* Every step of the kernel is a step of one process, or is unseen.
LEMMA StepIsVirtualStep ==
    ASSUME IInv, IInv', ContextTypeOK, ContextTypeOK', AgeInv, [ProcessNext]_vars
    PROVE  [Virtual!Next]_(Virtual!vars)
<1>0. kernel \in {"user", "getchar"} => curProcess \in Slot
  BY DEF IInv, CurrentIsRunnable
<1>1. CASE LoadProgram
  BY <1>1, LoadIsSpawn DEF Virtual!Next
<1>2. CASE process_fork
  BY <1>0, <1>2, ForkIsFork DEF Virtual!Next, process_fork, Fork, InUser
<1>3. CASE syscallExit
  BY <1>0, <1>3, ExitIsExit DEF Virtual!Next, syscallExit, Exit, InUser
<1>4. CASE syscallIpcRecv
  BY <1>0, <1>4, RecvIsReceive DEF Virtual!Next, syscallIpcRecv, IpcRecv, InUser
<1>5. CASE syscallIpcCanSend
  BY <1>0, <1>5, CanSendIsSend
     DEF Virtual!Next, syscallIpcCanSend, IpcCanSend, InUser
<1>6. CASE UserStep
  BY <1>6, UserStepIsCompute DEF Virtual!Next
<1>10. CASE syscallGetProcessId \/ syscallGetParentProcessId
            \/ IpcRefused \/ KeyRead
  BY <1>10, AnswersAreAnswers DEF Virtual!Next
<1>7. CASE Preempt
  BY <1>7, PreemptUnseen
<1>8. CASE RunFirst
  BY <1>8, FirstRunUnseen
<1>9. CASE ForkFails \/ syscallExitFaults \/ syscallGetchar \/ UNCHANGED vars
  BY <1>9, RestUnseen
<1> QED
  BY <1>1, <1>2, <1>3, <1>4, <1>5, <1>6, <1>7, <1>8, <1>9, <1>10 DEF ProcessNext

\* One trapframe page, copied by process_run, is as good as registers for
\* every process; the IPC fields are as good as a mailbox for each.
THEOREM KernelImplementsVirtualCpus == ProcessSpec => ImplementsVirtualCpus
<1>1. ProcessInit => Virtual!Init
  BY InitIsInit
<1>2. IInv /\ IInv' /\ ContextTypeOK /\ ContextTypeOK' /\ AgeInv /\ [ProcessNext]_vars
      => [Virtual!Next]_(Virtual!vars)
  BY StepIsVirtualStep
<1>3. ProcessSpec => []AgeInv
  BY AgesAreOrdered
<1> QED
  BY <1>1, <1>2, <1>3, TableInvariant, ContextTypeCorrect, PTL
     DEF ProcessSpec, ImplementsVirtualCpus, Virtual!Spec

=============================================================================
