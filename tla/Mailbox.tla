------------------------------- MODULE Mailbox -------------------------------
(***************************************************************************)
(* What ipc_send and ipc_recv promise a program: the messages it sends     *)
(* come out one after the other, each is put once, whole and under the     *)
(* sender's name, in the box of the process it is for, and only in a box   *)
(* that its owner has opened and that is empty; the owner takes what is in *)
(* the box in one piece.  The exceptions are two of the owner's own doing: *)
(* one that asks for a letter at an address out of range finds the last    *)
(* one again, and one that keeps the sender's name in too narrow a         *)
(* variable may lose it.  There are no system calls and no entries of the  *)
(* process table here: the module Ipc shows that they provide this.        *)
(***************************************************************************)
EXTENDS Sequences

CONSTANTS
    Process,    \* who sends and receives
    Mailable,   \* the messages there are, with a field perm
    Narrow,     \* the processes that may lose the sender's name
    Nothing     \* stands for what a process holds that has taken no message

VARIABLES
    out,        \* the messages each process has still to send
    to,         \* the process they are for
    open,       \* whether a process has opened its box
    far,        \* the processes that ask for a letter out of range
    box,        \* the letter in the box of each process, or no letter
    last,       \* the last letter put in it
    hand        \* the letter that a process has taken

vars == <<out, to, open, far, box, last, hand>>

Letter(p, m) == [from |-> p, perm |-> m.perm, value |-> m]

Init ==
    /\ out = [p \in Process |-> <<>>]
    /\ to \in [Process -> Process]
    /\ open = [p \in Process |-> FALSE]
    /\ far = {}
    /\ last = [p \in Process |-> Nothing]
    /\ box = [p \in Process |-> {}]
    /\ hand = [p \in Process |-> Nothing]

\* Neither a message to send nor one to take is left from the last call.
Idle(p) == out[p] = <<>> /\ ~open[p] /\ p \notin far /\ box[p] = {}

\* Whoever calls the library again has lost what it had taken.
Forgets(p) == hand' = [hand EXCEPT ![p] = Nothing]

Leave(p) ==
    /\ Idle(p) /\ Forgets(p)
    /\ far' \in {far, far \union {p}}
    /\ UNCHANGED <<out, to, open, box, last>>

Post(p) ==
    /\ Idle(p) /\ Forgets(p)
    /\ out'[p] \in Seq(Mailable) \ {<<>>}
    /\ out' = [out EXCEPT ![p] = out'[p]]
    /\ to'[p] \in Process
    /\ to' = [to EXCEPT ![p] = to'[p]]
    /\ UNCHANGED <<open, far, box, last>>

Deliver(p) ==
    LET q      == to[p]
        letter == Letter(p, Head(out[p]))
    IN  /\ out[p] # <<>> /\ open[q] /\ box[q] = {}
        /\ out' = [out EXCEPT ![p] = Tail(@)]
        /\ open' = [open EXCEPT ![q] = FALSE]
        /\ box' = [box EXCEPT ![q] = {letter}]
        /\ last' = [last EXCEPT ![q] = letter]
        /\ UNCHANGED <<to, far, hand>>

Open(p) ==
    /\ Idle(p) /\ hand[p] = Nothing
    /\ open' = [open EXCEPT ![p] = TRUE]
    /\ UNCHANGED <<out, to, far, box, last, hand>>

\* Nothing is waited for: the box holds the last letter again.
FindAgain(p) ==
    /\ p \in far
    /\ far' = far \ {p}
    /\ box' = [box EXCEPT ![p] = {last[p]}]
    /\ UNCHANGED <<out, to, open, last, hand>>

Take(p) == \E letter \in box[p] :
    /\ \/ hand' = [hand EXCEPT ![p] = letter]
       \/ p \in Narrow /\ hand' = [hand EXCEPT ![p] = [letter EXCEPT !.from = p]]
    /\ box' = [box EXCEPT ![p] = {}]
    /\ UNCHANGED <<out, to, open, far, last>>

Next ==
    \E p \in Process :
        Leave(p) \/ Post(p) \/ Deliver(p) \/ Open(p) \/ FindAgain(p) \/ Take(p)

Spec == Init /\ [][Next]_vars
=============================================================================
