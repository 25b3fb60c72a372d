--------------------------------- MODULE Ipc ---------------------------------
(***************************************************************************)
(* Messages between programs: ipc_send and ipc_recv over the two system    *)
(* calls (user/lib/ipc.c), the requests a client makes of the file server  *)
(* (user/lib/fsipc.c) and the server's loop that answers them              *)
(* (fs/server.c), among programs that also send and receive on their own.  *)
(*                                                                         *)
(* System calls are atomic; the library is interrupted anywhere.  What the *)
(* file layer answers is any outcome it can have (module Files).  The page *)
(* of a message, which the kernel maps in the sender's directory, is only  *)
(* a possible failure here.  The module takes for granted that a program   *)
(* can read its own entry of the process table.  Where serve and the       *)
(* clients hand ipc_recv a u_int for a u_longlong, it writes over the      *)
(* variable next to it: in serve that can be whom; a client goes on with   *)
(* other registers, as any program may.                                    *)
(***************************************************************************)
EXTENDS Integers, Sequences

CONSTANTS
    Program,        \* the programs besides the file server
    Server,         \* the file server, process fileSystemPid
    Requests,       \* the requests that clients make, of FSREQ
    MaxSends        \* bound on the messages that each program sends

FSREQ == {"open", "map", "set_size", "close", "dirty", "remove", "sync"}

ASSUME ProgramAssumption == Server \notin Program
ASSUME RequestAssumption == Requests \subseteq FSREQ
ASSUME SendAssumption == MaxSends \in [Program -> Nat]

VARIABLES
    recving,    \* env_ipc_recving
    pcb,        \* env_ipc_from, env_ipc_perm and env_ipc_value
    pc,         \* where each process is, see Place
    inFsipc,    \* the request a client is in the middle of, or "none"
    whom,       \* whom a process sends to
    queue,      \* what it has still to send
    mine,       \* what it read from its pcb
    sent        \* messages it has begun to send

vars == <<recving, pcb, pc, inFsipc, whom, queue, mine, sent>>

Process == Program \union {Server}
Place == {"user", "send", "recv", "far", "wait", "perm", "value", "serve",
          "panic", "hung", "dead"}

\* what: a request, a result ("ok" or "error") or a word of the program's own;
\* perm: whether PTE_V is in the permissions.  by and n are not in the code:
\* they tell who began the exchange, and with which of its messages.
Message(what, perm, by, n) == [what |-> what, perm |-> perm, by |-> by, n |-> n]
NoMessage == Message("none", FALSE, Server, 0)
Nothing == [from |-> Server, perm |-> FALSE, value |-> NoMessage]

\* The server has been through serve_init and fs_init.
Init ==
    /\ recving = [p \in Process |-> FALSE]
    /\ pcb = [p \in Process |-> Nothing]
    /\ pc = [p \in Process |-> IF p = Server THEN "recv" ELSE "user"]
    /\ inFsipc = [p \in Process |-> "none"]
    /\ whom = [p \in Process |-> Server]
    /\ queue = [p \in Process |-> <<>>]
    /\ mine = [p \in Process |-> Nothing]
    /\ sent = [p \in Process |-> 0]

Goto(p, place) == pc' = [pc EXCEPT ![p] = place]

-----------------------------------------------------------------------------
(* ipc_send.                                                               *)

\* Mutant: a message is taken whether the receiver waits for it or not.
TakesAlways(q) == pc[q] # "dead"

Takes(q) == recving[q]

\* The receiver's fields, written in one system call.
Deliver(q, p, m) ==
    /\ pcb' = [pcb EXCEPT ![q] = [from |-> p, perm |-> m.perm, value |-> m]]
    /\ recving' = [recving EXCEPT ![q] = FALSE]

\* Mutant: the kernel answers -E_IPC_NOT_RECV and the library tries again.
RefusedRetries(p) == UNCHANGED pc

\* The kernel answers -1 or -E_BAD_ENV, and ipc_send calls user_panic.
Refused(p) == Goto(p, "panic")

\* What comes after ipc_send: the next round of serve, the answer to a
\* request, or the program goes on.  After a first answer serve_open looks the
\* file up, in vain for ever, or stores through a pointer that was never set.
AfterSend(p) ==
    IF Len(queue[p]) > 1 THEN \E place \in {"send", "hung", "panic"} : Goto(p, place)
    ELSE Goto(p, IF p = Server \/ inFsipc[p] # "none" THEN "recv" ELSE "user")

\* Whether the message may come with a page, srcVa # 0: in a program's own
\* messages that has nothing to do with the permissions.
MayHavePage(p) == p # Server \/ Head(queue[p]).perm

\* A page that cannot be mapped makes the call fail when the receiver has the
\* message already.
ipc_send(p) ==
    /\ pc[p] = "send"
    /\ LET q == whom[p] IN
       \/ /\ ~Takes(q) /\ Refused(p)
          /\ UNCHANGED <<recving, pcb, queue>>
       \/ /\ Takes(q) /\ Deliver(q, p, Head(queue[p]))
          /\ queue' = [queue EXCEPT ![p] = Tail(@)]
          /\ AfterSend(p) \/ (MayHavePage(p) /\ Goto(p, "panic"))
    /\ UNCHANGED <<inFsipc, whom, mine, sent>>

-----------------------------------------------------------------------------
(* ipc_recv.                                                               *)

\* With an address from PHYSICAL_MEMORY_TOP up, at "far", the system call
\* returns at once and ipc_recv reads what the last message left.
ipcRecv(p) ==
    /\ \/ pc[p] = "recv" /\ recving' = [recving EXCEPT ![p] = TRUE]
       \/ pc[p] = "far" /\ UNCHANGED recving
    /\ Goto(p, "wait")
    /\ UNCHANGED <<pcb, inFsipc, whom, queue, mine, sent>>

\* The permissions a client expects of a block: fsipc_map loops for ever if a
\* result that is no error came without them (a program's word is none).
HangsOn(p) == inFsipc[p] = "map" /\ pcb[p].value.what # "error" /\ ~mine[p].perm

\* The result is returned without a look at whom it came from.
AfterRecv(p) ==
    /\ Goto(p, CASE p = Server -> "serve" [] HangsOn(p) -> "hung" [] OTHER -> "user")
    /\ inFsipc' = [inFsipc EXCEPT ![p] = IF HangsOn(p) THEN @ ELSE "none"]

\* Storing the permissions may clear whom in serve, and 0 names the caller.
SendersKept(p) == {mine[p].from} \union (IF p = Server THEN {Server} ELSE {})

\* Mutant: the system call yields without blocking its caller.
NeverSleeps(p) == TRUE

Awake(p) == ~recving[p]

\* Once awake it reads from, perm and value, one after the other.
ipc_recv(p) ==
    \/ ipcRecv(p)
    \/ /\ pc[p] = "wait" /\ Awake(p)
       /\ mine' = [mine EXCEPT ![p].from = pcb[p].from]
       /\ Goto(p, "perm")
       /\ UNCHANGED <<recving, pcb, inFsipc, whom, queue, sent>>
    \/ /\ pc[p] = "perm"
       /\ \E from \in SendersKept(p) :
             mine' = [mine EXCEPT ![p] = [@ EXCEPT !.perm = pcb[p].perm, !.from = from]]
       /\ Goto(p, "value")
       /\ UNCHANGED <<recving, pcb, inFsipc, whom, queue, sent>>
    \/ /\ pc[p] = "value"
       /\ mine' = [mine EXCEPT ![p].value = pcb[p].value]
       /\ AfterRecv(p)
       /\ UNCHANGED <<recving, pcb, whom, queue, sent>>

-----------------------------------------------------------------------------
(* A program.                                                              *)

StartSend(p, q, what, perm) ==
    /\ pc[p] = "user" /\ sent[p] < MaxSends[p]
    /\ sent' = [sent EXCEPT ![p] = @ + 1]
    /\ whom' = [whom EXCEPT ![p] = q]
    /\ queue' = [queue EXCEPT ![p] = <<Message(what, perm, p, sent[p] + 1)>>]
    /\ mine' = [mine EXCEPT ![p] = Nothing]
    /\ Goto(p, "send")
    /\ UNCHANGED <<recving, pcb>>

\* fsipc_open and its sisters: the request with its page, then the result.
fsipc(p) == \E request \in Requests :
    /\ StartSend(p, Server, request, TRUE)
    /\ inFsipc' = [inFsipc EXCEPT ![p] = request]

\* ipc_send and ipc_recv called by the program itself.  To the server a request
\* without a page is a word.
OwnSend(p) == \E q \in Process \ {p}, what \in Requests \union {"word"}, perm \in BOOLEAN :
    /\ what = "word" \/ (perm /\ q = Server)
    /\ StartSend(p, q, what, perm)
    /\ UNCHANGED inFsipc

\* To any address: the library's own are all below PHYSICAL_MEMORY_TOP.
OwnRecv(p) ==
    /\ pc[p] = "user" /\ \E place \in {"recv", "far"} : Goto(p, place)
    /\ mine' = [mine EXCEPT ![p] = Nothing]
    /\ UNCHANGED <<recving, pcb, inFsipc, whom, queue, sent>>

Exit(p) ==
    /\ pc[p] = "user" /\ Goto(p, "dead")
    /\ UNCHANGED <<recving, pcb, inFsipc, whom, queue, mine, sent>>

-----------------------------------------------------------------------------
(* The file server: the results each request may be answered with.         *)

\* Mutant: a file that is not found is answered, and the request goes on.
OpenAnswersThrice == {<<"ok">>, <<"error", "error", "ok">>}

\* After a failed open_alloc the request is carried out all the same, unless
\* that fails (AfterSend).
serve_open == {<<"ok">>, <<"error", "ok">>}
serve_map == {<<"ok">>, <<"error">>}
serve_set_size == {<<"ok">>, <<"error">>}
serve_close == {<<"ok">>, <<"error">>}
serve_remove == {<<"ok">>, <<"error">>}
serve_dirty == {<<"ok">>, <<"error">>}
serve_sync == {<<"ok">>}

Results(request) ==
    CASE request = "open" -> serve_open         [] request = "map" -> serve_map
      [] request = "set_size" -> serve_set_size [] request = "close" -> serve_close
      [] request = "remove" -> serve_remove     [] request = "dirty" -> serve_dirty
      [] request = "sync" -> serve_sync

\* Only a descriptor or a block that was found goes with a page.
Answers(request, results) ==
    [k \in 1 .. Len(results) |->
        Message(results[k], results[k] = "ok" /\ request.what \in {"open", "map"},
                request.by, request.n)]

Answer(request) == \E results \in Results(request.what) :
    /\ whom' = [whom EXCEPT ![Server] = mine[Server].from]
    /\ queue' = [queue EXCEPT ![Server] = Answers(request, results)]
    /\ Goto(Server, "send")

\* serve, with a request in hand.  What has no page or is no request gets no
\* answer.  A file that is not found makes serve_open loop for ever, and the
\* file layer may panic.
serve ==
    LET request == mine[Server].value IN
    /\ pc[Server] = "serve"
    /\ IF mine[Server].perm /\ request.what \in FSREQ
       THEN \/ Answer(request)
            \/ /\ request.what = "open" /\ Goto(Server, "hung")
               /\ UNCHANGED <<whom, queue>>
            \/ /\ request.what # "close" /\ Goto(Server, "panic")
               /\ UNCHANGED <<whom, queue>>
       ELSE Goto(Server, "recv") /\ UNCHANGED <<whom, queue>>
    /\ UNCHANGED <<recving, pcb, inFsipc, mine, sent>>

-----------------------------------------------------------------------------

\* What a process goes on with once it has called the library.
Library(p) == ipc_send(p) \/ ipc_recv(p) \/ (p = Server /\ serve)

Next ==
    \/ \E p \in Process : ipc_send(p) \/ ipc_recv(p)
    \/ serve
    \/ \E p \in Program : fsipc(p) \/ OwnSend(p) \/ OwnRecv(p) \/ Exit(p)

\* The timer interrupt gives every process its turn (module Scheduler).
Spec == Init /\ [][Next]_vars
FairSpec == Spec /\ \A p \in Process : WF_vars(Library(p))

-----------------------------------------------------------------------------
(* Properties.                                                             *)

Messages ==
    [what : FSREQ \union {"none", "word", "ok", "error"}, perm : BOOLEAN,
     by : Process, n : Nat]
Fields == [from : Process, perm : BOOLEAN, value : Messages]

\* The types of the variables.
TypeOK ==
    /\ recving \in [Process -> BOOLEAN]
    /\ pcb \in [Process -> Fields]
    /\ pc \in [Process -> Place]
    /\ inFsipc \in [Process -> Requests \union {"none"}]
    /\ whom \in [Process -> Process]
    /\ queue \in [Process -> Seq(Messages)] /\ \A p \in Process : Len(queue[p]) <= 2
    /\ mine \in [Process -> Fields]
    /\ sent \in [Process -> Nat]

\* A result that comes from the server is the result of the request just made,
\* never of an earlier one, although fsipc does not look who sent it and any
\* program may send to the client while it waits (fsipc, serve).
AnswersMatch ==
    [][\A p \in Program :
        inFsipc[p] # "none" /\ inFsipc'[p] = "none" /\ mine'[p].from = Server =>
            mine'[p].value.by = p /\ mine'[p].value.n = sent[p]]_vars

\* A message is in the box of p from its delivery until p has read the last of
\* its three fields; what p has read is its own once it goes on.
Boxes ==
    [p \in Process |-> IF pc[p] \in {"wait", "perm", "value"} /\ ~recving[p]
                       THEN {pcb[p]} ELSE {}]
Far == {p \in Process : pc[p] = "far"}
HasTaken(p) == pc[p] \in {"user", "serve"} \/ (p # Server /\ pc[p] = "hung")
Hands == [p \in Process |-> IF HasTaken(p) THEN mine[p] ELSE Nothing]
Mail == INSTANCE Mailbox WITH
    Mailable <- Messages, Narrow <- {Server}, out <- queue, to <- whom,
    open <- recving, far <- Far, box <- Boxes, last <- pcb, hand <- Hands

\* The two system calls and the three reads are one box for each process (the
\* specification of Mailbox): a message is delivered once, to a process that
\* waits for it and has read the last one to its end, the answers of a request
\* come in order, and what is read is what was sent, under its sender's name.
\* Only a program that gives an address out of range reads a message twice,
\* and only the server may lose the sender's name.
ImplementsMailbox == Mail!Spec

Stopped(p) == pc[p] \in {"panic", "hung"}

\* A request comes to an end: no client waits for ever for a server that has
\* lost its request or waits for somebody itself (fsipc, ipc_send, serve).
CallsReturn == \A p \in Program :
    inFsipc[p] # "none" ~> inFsipc[p] = "none" \/ Stopped(p) \/ Stopped(Server)

\* ipc_send gives up only on a process that is gone, or when the message got
\* through but not its page; a receiver that is not there yet is waited for.
\* Refuted.
SendWaitsForReceiver ==
    [][\A p \in Process :
        pc[p] = "send" /\ pc'[p] = "panic" => pc[whom[p]] = "dead" \/ queue'[p] # queue[p]]_vars

=============================================================================
