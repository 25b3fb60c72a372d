----------------------------- MODULE VirtualCpus -----------------------------
(***************************************************************************)
(* What the process component of RiemOS promises the programs that run on  *)
(* it: every process has registers of its own, which only its own steps,   *)
(* its own system calls and the fork that creates it ever write, and a     *)
(* mailbox that takes one message each time its owner waits for one.       *)
(* There is no scheduler, no run queue and no shared trapframe here: the   *)
(* module Process shows that the kernel's single trapframe and its context *)
(* switches provide this.                                                  *)
(***************************************************************************)
EXTENDS Integers

CONSTANTS
    Slot,       \* the places a process can live in
    Regs,       \* the contents of the registers other than a0
    Keys,       \* what the console can answer
    Refusals,   \* what the sender of a refused message is told
    NoProcess   \* stands for the registers of a place nobody lives in

VARIABLES
    ctx,        \* the registers of each process, NoProcess when there is none
    name,       \* the identifier each process was given
    waiting,    \* the processes waiting for a message
    message,    \* the last message each process was given
    parent,     \* the name of the process that forked each one, 0 for none
    turn        \* flips at every step a program takes by itself

vars == <<ctx, name, waiting, message, parent, turn>>

Context == [a0 : Int, regs : Regs]

Live(s) == ctx[s] # NoProcess
Active(s) == Live(s) /\ s \notin waiting

Init ==
    /\ ctx = [s \in Slot |-> NoProcess]
    /\ name = [s \in Slot |-> 0]
    /\ waiting = {}
    /\ message = [s \in Slot |-> [value |-> 0, from |-> 0]]
    /\ parent = [s \in Slot |-> 0]
    /\ turn = FALSE

Fresh(n) == n > 0 /\ \A s \in Slot : name[s] # n

\* A program is loaded in a place that never held a process.
Spawn(s) ==
    /\ ~Live(s) /\ name[s] = 0
    /\ Fresh(name'[s])
    /\ name' = [name EXCEPT ![s] = name'[s]]
    /\ ctx'[s] \in Context
    /\ ctx' = [ctx EXCEPT ![s] = ctx'[s]]
    /\ parent' = [parent EXCEPT ![s] = 0]
    /\ UNCHANGED <<waiting, message, turn>>

\* Only a step of a program flips the turn: no switch from one process to
\* another, and nothing a process does to another, passes for one.
OwnStep(s) ==
    /\ Active(s)
    /\ turn' = ~turn
    /\ UNCHANGED <<name, waiting, message, parent>>

\* A process computes.
Compute(s) ==
    /\ OwnStep(s)
    /\ ctx'[s].regs \in Regs
    /\ ctx' = [ctx EXCEPT ![s].regs = ctx'[s].regs]

\* A system call that only answers: its name, its parent's, a key, or the
\* refusal of a send.
Answer(s, r) ==
    /\ OwnStep(s)
    /\ ctx' = [ctx EXCEPT ![s].a0 = r]

Answers(s) == {name[s], parent[s]} \union Keys \union Refusals

\* The child starts with the registers of its parent: only a0 tells them
\* apart, 0 in the child and the name of the child in the parent.
Fork(s, t) ==
    /\ Active(s) /\ ~Live(t) /\ name[t] = 0
    /\ Fresh(name'[t])
    /\ name' = [name EXCEPT ![t] = name'[t]]
    /\ parent' = [parent EXCEPT ![t] = name[s]]
    /\ ctx' = [ctx EXCEPT ![t] = [ctx[s] EXCEPT !.a0 = 0],
                          ![s].a0 = name'[t]]
    /\ UNCHANGED <<waiting, message, turn>>

Exit(s) ==
    /\ Active(s)
    /\ ctx' = [ctx EXCEPT ![s] = NoProcess]
    /\ UNCHANGED <<name, waiting, message, parent, turn>>

\* From here the process takes no step until a message is put in its mailbox.
Receive(s) ==
    /\ Active(s)
    /\ waiting' = waiting \union {s}
    /\ UNCHANGED <<ctx, name, message, parent, turn>>

Send(s, t) ==
    /\ Active(s) /\ t \in waiting
    /\ waiting' = waiting \ {t}
    /\ message' = [message EXCEPT ![t] = [value |-> message'[t].value,
                                          from  |-> name[s]]]
    /\ ctx'[s].a0 \in {0, -1}
    /\ ctx' = [ctx EXCEPT ![s].a0 = ctx'[s].a0]
    /\ UNCHANGED <<name, parent, turn>>

Next ==
    \E s \in Slot :
        \/ Spawn(s) \/ Compute(s) \/ Exit(s) \/ Receive(s)
        \/ \E r \in Answers(s) : Answer(s, r)
        \/ \E t \in Slot : Fork(s, t) \/ Send(s, t)

Spec == Init /\ [][Next]_vars
=============================================================================
