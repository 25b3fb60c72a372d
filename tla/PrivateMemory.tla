---------------------------- MODULE PrivateMemory ----------------------------
(***************************************************************************)
(* What the memory of a RiemOS process is to the program in it: words that *)
(* only its own stores change, and that a fork copies once and for all.    *)
(* There are no physical pages and no copy-on-write here: the module       *)
(* AddressSpace shows that page tables and faults provide this.            *)
(***************************************************************************)
CONSTANTS
    Proc,       \* the processes that may come to exist
    Va,         \* the pages of a user address space
    Data,       \* what a page can hold
    Zero,       \* what a page holds before the first store
    Unmapped    \* stands for the contents of a page the program has not, no Data

VARIABLES
    booting,    \* the programs are still being loaded
    alive,      \* the processes that exist
    mem,        \* the contents of each page of each of them
    copying,    \* the fork under way, as a set of pairs of parent and child
    scarce      \* no memory is left

vars == <<booting, alive, mem, copying, scarce>>

Init ==
    /\ booting = TRUE
    /\ alive = {}
    /\ mem = [p \in Proc |-> [va \in Va |-> Unmapped]]
    /\ copying = {}
    /\ scarce \in BOOLEAN

\* Programs are loaded at boot, and never later.
Load(p) ==
    /\ booting /\ p \notin alive
    /\ alive' = alive \union {p}
    /\ mem'[p] \in [Va -> Data \union {Unmapped}]
    /\ mem' = [mem EXCEPT ![p] = mem'[p]]
    /\ UNCHANGED <<booting, copying>>

Start ==
    /\ booting /\ alive # {}
    /\ booting' = FALSE
    /\ UNCHANGED <<alive, mem, copying>>

\* Page va of process p, and no other, gets other contents.
Change(p, va, v) ==
    /\ ~booting /\ copying = {} /\ p \in alive
    /\ mem' = [mem EXCEPT ![p][va] = v]
    /\ UNCHANGED <<booting, alive, copying>>

Store(p, va) == mem[p][va] # Unmapped /\ \E v \in Data : Change(p, va, v)

\* The first access, and the explicit allocation of a fresh page.
Fresh(p, va) == Change(p, va, Zero)

Unmap(p, va) == Change(p, va, Unmapped)

\* Nothing happens between the call of fork and its end.
BeginFork(p, c) ==
    /\ ~booting /\ copying = {}
    /\ p \in alive /\ c \notin alive
    /\ copying' = {<<p, c>>}
    /\ UNCHANGED <<booting, alive, mem>>

\* The child gets what the parent that called fork has.  It may miss pages,
\* which then read as untouched, but only when there is no memory.
Fork(p, c) ==
    /\ copying = {<<p, c>>} /\ copying' = {}
    /\ alive' = alive \union {c}
    /\ mem' = [mem EXCEPT ![c] = mem'[c]]
    /\ \A va \in Va : mem'[c][va] = mem[p][va] \/ (mem'[c][va] = Unmapped /\ scarce)
    /\ UNCHANGED booting

Next ==
    /\ scarce' \in BOOLEAN
    /\ \/ Start
       \/ \E p \in Proc :
             \/ Load(p)
             \/ \E c \in Proc : BeginFork(p, c) \/ Fork(p, c)
             \/ \E va \in Va : Store(p, va) \/ Fresh(p, va) \/ Unmap(p, va)

\* How much memory is left may change while no process notices.
Spec == Init /\ [][Next]_<<booting, alive, mem, copying>>
=============================================================================
