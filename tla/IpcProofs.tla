------------------------------ MODULE IpcProofs ------------------------------
(***************************************************************************)
(* Theorems about Ipc, for any number of programs and messages: what       *)
(* ipc_recv reads in three pieces is one message, a result that comes from *)
(* the server is that of the request just made, and Ipc implements the     *)
(* abstract mailboxes of Mailbox.                                          *)
(***************************************************************************)
EXTENDS Ipc, TLAPS

\* What programs send, unlike the server's results.
Own == FSREQ \union {"word"}

\* Fields that were written by one send: the permissions are the message's, and
\* a message that is no result comes from the program that made it.
Whole(f) == f.perm = f.value.perm /\ (f.value.what \in Own => f.from = f.value.by)

\* The same of what p has read: the server may have lost the sender's name.
WholeFor(p, f) ==
    /\ f.perm = f.value.perm
    /\ f.value.what \in Own => f.from = f.value.by \/ (p = Server /\ f.from = Server)

\* A mailbox is open only while its process waits.
OpenInv == \A p \in Process : recving[p] => pc[p] = "wait"

\* The entries of the process table are whole, and so is what a process has
\* read, or read so far.
WholeInv == \A p \in Process :
    /\ Whole(pcb[p])
    /\ pc[p] = "perm" => mine[p].from = pcb[p].from
    /\ pc[p] = "value" =>
        /\ mine[p].perm = pcb[p].perm
        /\ mine[p].from = pcb[p].from \/ (p = Server /\ mine[p].from = Server)
    /\ pc[p] \notin {"perm", "value"} => WholeFor(p, mine[p])

\* What is still to be sent is the sender's own, or a result.
QueueInv == \A p \in Process : \A k \in 1 .. Len(queue[p]) :
    queue[p][k].what \in Own => queue[p][k].by = p

\* A message that belongs to the last exchange that p began.
IsLast(m, p) == m.by = p /\ m.n = sent[p]

\* A program sends one message at a time, its last, and a request to the server.
ProgramInv == \A p \in Program :
    /\ pc[p] \in {"user", "far"} => inFsipc[p] = "none"
    /\ pc[p] = "send" =>
        /\ Len(queue[p]) = 1 /\ IsLast(queue[p][1], p)
        /\ inFsipc[p] # "none" => whom[p] = Server

\* The server makes no request, and sends only while it has a result.
ServerInv ==
    /\ inFsipc[Server] = "none" /\ pc[Server] \notin {"user", "far"}
    /\ pc[Server] = "send" => Len(queue[Server]) > 0

\* The request of p has been taken and its result has not been returned.
Asked(p) == inFsipc[p] # "none" /\ pc[p] \in {"recv", "wait", "perm", "value"}

\* Whatever the server has of such a p, in its entry, in hand or still to be
\* sent, is p's last request or its result, and so is what p has got from it.
InEntry(p) == pcb[Server].from = p => IsLast(pcb[Server].value, p)
InHand(p) == pc[Server] = "serve" /\ mine[Server].from = p => IsLast(mine[Server].value, p)
ToSend(p) == pc[Server] = "send" /\ whom[Server] = p =>
    \A k \in 1 .. Len(queue[Server]) : IsLast(queue[Server][k], p)
Returned(p) == pc[p] \in {"wait", "perm", "value"} /\ ~recving[p] /\ pcb[p].from = Server =>
    IsLast(pcb[p].value, p)

AnswerInv == \A p \in Program :
    Asked(p) => InEntry(p) /\ InHand(p) /\ ToSend(p) /\ Returned(p)

IInv == /\ TypeOK /\ OpenInv /\ WholeInv /\ QueueInv /\ ProgramInv /\ ServerInv
        /\ AnswerInv

-----------------------------------------------------------------------------
(* The initial states.                                                     *)

LEMMA NothingIsWhole ==
    Nothing \in Fields /\ Whole(Nothing) /\ \A p \in Process : WholeFor(p, Nothing)
  <1>1. NoMessage \in Messages
    BY DEF NoMessage, Message, Messages, Process
  <1>2. NoMessage.perm = FALSE /\ NoMessage.what = "none"
    BY DEF NoMessage, Message
  <1>3. Nothing.value = NoMessage /\ Nothing.perm = FALSE
    BY DEF Nothing
  <1>4. "none" \notin Own
    BY DEF Own, FSREQ
  <1> QED
    BY <1>1, <1>2, <1>3, <1>4 DEF Nothing, Fields, Whole, WholeFor, Process

LEMMA InitHoldsIInv == Init => IInv
  <1> SUFFICES ASSUME Init PROVE IInv
    OBVIOUS
  <1>1. TypeOK
    BY NothingIsWhole DEF Init, TypeOK, Process, Place
  <1>2. OpenInv /\ QueueInv
    BY DEF Init, OpenInv, QueueInv
  <1>3. WholeInv
    BY NothingIsWhole DEF Init, WholeInv, Process
  <1>4. ProgramInv /\ ServerInv
    BY ProgramAssumption DEF Init, ProgramInv, ServerInv, Process
  <1>5. AnswerInv
    BY DEF Init, AnswerInv, Asked, Process
  <1> QED
    BY <1>1, <1>2, <1>3, <1>4, <1>5 DEF IInv

-----------------------------------------------------------------------------
(* Steps that only move a process.                                         *)

\* A process that leaves the exchange, or a server that goes back to receive.
LEMMA MovePreserves ==
    ASSUME IInv, NEW p \in Process, pc[p] \in {"user", "send", "serve"},
           NEW place \in {"panic", "hung", "dead", "recv"},
           place = "recv" => p = Server,
           pc' = [pc EXCEPT ![p] = place],
           UNCHANGED <<recving, pcb, queue, inFsipc, whom, mine, sent>>
    PROVE  IInv'
  <1>1. pc \in [Process -> Place] /\ place \in Place
    BY DEF IInv, TypeOK, Place
  <1>2. pc'[p] = place /\ \A q \in Process : q # p => pc'[q] = pc[q]
    BY <1>1
  <1>3. TypeOK'
    BY <1>1 DEF IInv, TypeOK
  <1>4. OpenInv'
    BY <1>1, <1>2 DEF IInv, OpenInv
  <1>5. WholeInv'
    BY <1>1, <1>2 DEF IInv, WholeInv, Whole, WholeFor
  <1>6. QueueInv'
    BY DEF IInv, QueueInv
  <1>7. ProgramInv' /\ ServerInv'
    BY <1>2, ProgramAssumption DEF IInv, ProgramInv, ServerInv, IsLast, Process
  <1>8. AnswerInv'
    <2> SUFFICES ASSUME NEW q \in Program, Asked(q)'
                 PROVE  (InEntry(q) /\ InHand(q) /\ ToSend(q) /\ Returned(q))'
      BY DEF AnswerInv
    <2>1. q # p /\ pc'[q] = pc[q]
      BY <1>2, ProgramAssumption DEF Asked, Process
    <2>2. InEntry(q) /\ InHand(q) /\ ToSend(q) /\ Returned(q)
      BY <2>1 DEF IInv, AnswerInv, Asked
    <2>3. pc'[Server] = pc[Server] \/ pc'[Server] \notin {"serve", "send"}
      BY <1>2 DEF Process
    <2> QED
      BY <2>1, <2>2, <2>3 DEF InEntry, InHand, ToSend, Returned, IsLast
  <1> QED
    BY <1>3, <1>4, <1>5, <1>6, <1>7, <1>8 DEF IInv

-----------------------------------------------------------------------------
(* Sending.                                                                *)

\* Where a sender can be after its message was taken.
LEMMA AfterSendPlace ==
    ASSUME NEW p \in Process, AfterSend(p)
    PROVE  \E place \in {"send", "recv", "user", "hung", "panic"} :
            /\ pc' = [pc EXCEPT ![p] = place]
            /\ place \in {"send", "hung"} => Len(queue[p]) > 1
            /\ place \in {"recv", "user"} => ~(Len(queue[p]) > 1)
            /\ place = "user" => p # Server /\ inFsipc[p] = "none"
  <1> DEFINE more == Len(queue[p]) > 1
             asks == p = Server \/ inFsipc[p] # "none"
  <1>1. CASE more
    <2>1. PICK place \in {"send", "hung", "panic"} : pc' = [pc EXCEPT ![p] = place]
      BY <1>1, ZenonT(40) DEF AfterSend, Goto
    <2> QED
      BY <1>1, <2>1
  <1>2. CASE ~more /\ asks
    <2>1. pc' = [pc EXCEPT ![p] = "recv"]
      BY <1>2, ZenonT(40) DEF AfterSend, Goto
    <2> QED
      BY <1>2, <2>1
  <1>3. CASE ~more /\ ~asks
    <2>1. pc' = [pc EXCEPT ![p] = "user"]
      BY <1>3, ZenonT(40) DEF AfterSend, Goto
    <2> QED
      BY <1>3, <2>1
  <1> QED
    BY <1>1, <1>2, <1>3

\* The message that is sent, and what is left.
LEMMA QueueParts ==
    ASSUME IInv, NEW p \in Process, pc[p] = "send"
    PROVE  /\ Len(queue[p]) \in {1, 2}
           /\ Head(queue[p]) = queue[p][1] /\ Head(queue[p]) \in Messages
           /\ Tail(queue[p]) \in Seq(Messages) /\ Len(Tail(queue[p])) = Len(queue[p]) - 1
           /\ \A k \in 1 .. Len(Tail(queue[p])) :
                k + 1 \in 1 .. Len(queue[p]) /\ Tail(queue[p])[k] = queue[p][k + 1]
  <1> DEFINE s == queue[p]
             rest == Tail(s)
  <1>1. s \in Seq(Messages) /\ Len(s) <= 2
    BY DEF IInv, TypeOK
  <1>2. Len(s) > 0
    BY DEF IInv, ProgramInv, ServerInv, Process
  <1> SUFFICES /\ Len(s) \in {1, 2}
               /\ Head(s) = s[1] /\ Head(s) \in Messages
               /\ rest \in Seq(Messages) /\ Len(rest) = Len(s) - 1
               /\ \A k \in 1 .. Len(rest) : k + 1 \in 1 .. Len(s) /\ rest[k] = s[k + 1]
    OBVIOUS
  <1> HIDE DEF s
  <1>3. Len(s) \in {1, 2}
    <2>1. PICK n \in Nat : n = Len(s)
      BY <1>1
    <2> QED
      BY <1>1, <1>2, <2>1
  <1>4. Head(s) = s[1] /\ Head(s) \in Messages
    BY <1>1, <1>2
  <1>5. /\ rest \in Seq(Messages) /\ Len(rest) = Len(s) - 1
        /\ \A k \in 1 .. Len(s) - 1 : rest[k] = s[k + 1]
    BY <1>1, <1>2
  <1> HIDE DEF rest
  <1>6. \A k \in 1 .. Len(rest) : k + 1 \in 1 .. Len(s) /\ rest[k] = s[k + 1]
    BY <1>3, <1>5
  <1> QED
    BY <1>3, <1>4, <1>5, <1>6

\* A message that is taken.
LEMMA TakenPreserves ==
    ASSUME IInv, NEW p \in Process, NEW q, q = whom[p], pc[p] = "send", Takes(q),
           Deliver(q, p, Head(queue[p])),
           queue' = [queue EXCEPT ![p] = Tail(@)],
           AfterSend(p) \/ Goto(p, "panic"),
           UNCHANGED <<inFsipc, whom, mine, sent>>
    PROVE  IInv'
  <1> DEFINE m == Head(queue[p])
             rest == Tail(queue[p])
  <1>1. q \in Process /\ q # p /\ pc[q] = "wait" /\ recving[q]
    BY DEF IInv, TypeOK, OpenInv, Takes
  <1>2. PICK place \in {"send", "recv", "user", "hung", "panic"} :
            /\ pc' = [pc EXCEPT ![p] = place]
            /\ place = "send" => Len(queue[p]) > 1
            /\ place = "user" => p # Server /\ inFsipc[p] = "none"
    BY AfterSendPlace DEF Goto
  <1>3. /\ Len(queue[p]) \in {1, 2} /\ m = queue[p][1] /\ m \in Messages
        /\ rest \in Seq(Messages) /\ Len(rest) = Len(queue[p]) - 1
        /\ \A k \in 1 .. Len(rest) :
            k + 1 \in 1 .. Len(queue[p]) /\ rest[k] = queue[p][k + 1]
    BY QueueParts
  <1>4. m.what \in Own => m.by = p
    BY <1>3 DEF IInv, QueueInv
  <1>5. /\ pcb' = [pcb EXCEPT ![q] = [from |-> p, perm |-> m.perm, value |-> m]]
        /\ recving' = [recving EXCEPT ![q] = FALSE]
        /\ queue' = [queue EXCEPT ![p] = rest]
    BY DEF Deliver
  <1> HIDE DEF m, rest
  <1>6. /\ pc \in [Process -> Place] /\ pcb \in [Process -> Fields]
        /\ recving \in [Process -> BOOLEAN]
        /\ queue \in [Process -> Seq(Messages)] /\ place \in Place
    BY DEF IInv, TypeOK, Place
  <1>7. /\ pc'[p] = place /\ (\A s \in Process : s # p => pc'[s] = pc[s])
        /\ queue'[p] = rest /\ (\A s \in Process : s # p => queue'[s] = queue[s])
        /\ pcb'[q] = [from |-> p, perm |-> m.perm, value |-> m]
        /\ \A s \in Process : s # q => pcb'[s] = pcb[s]
    BY <1>1, <1>2, <1>5, <1>6
  <1>8. ~recving'[q] /\ \A s \in Process : s # q => recving'[s] = recving[s]
    BY <1>1, <1>5, <1>6, Zenon
  <1>9. [from |-> p, perm |-> m.perm, value |-> m] \in Fields
    BY <1>3 DEF Fields, Messages
  <1>10. TypeOK'
    <2>1. /\ pc' \in [Process -> Place] /\ pcb' \in [Process -> Fields]
          /\ queue' \in [Process -> Seq(Messages)]
      BY <1>1, <1>2, <1>3, <1>5, <1>6, <1>9
    <2>2. recving' \in [Process -> BOOLEAN]
      BY <1>1, <1>5, <1>6
    <2>3. \A s \in Process : Len(queue'[s]) <= 2
      BY <1>3, <1>7 DEF IInv, TypeOK
    <2> QED
      BY <2>1, <2>2, <2>3 DEF IInv, TypeOK
  <1>11. OpenInv'
    BY <1>1, <1>7, <1>8 DEF IInv, OpenInv
  <1>12. WholeInv'
    <2>1. Whole(pcb'[q])
      BY <1>4, <1>7 DEF Whole
    <2>2. pc'[q] = "wait" /\ pc'[p] \notin {"perm", "value"}
      BY <1>1, <1>7
    <2>3. WholeFor(p, mine[p]) /\ WholeFor(q, mine[q])
      BY <1>1 DEF IInv, WholeInv
    <2> SUFFICES ASSUME NEW s \in Process
                 PROVE  /\ Whole(pcb'[s])
                        /\ pc'[s] = "perm" => mine[s].from = pcb'[s].from
                        /\ pc'[s] = "value" =>
                            /\ mine[s].perm = pcb'[s].perm
                            /\ \/ mine[s].from = pcb'[s].from
                               \/ s = Server /\ mine[s].from = Server
                        /\ pc'[s] \notin {"perm", "value"} => WholeFor(s, mine[s])
      BY DEF WholeInv, Whole, WholeFor
    <2>4. CASE s = q \/ s = p
      BY <1>1, <1>7, <2>1, <2>2, <2>3, <2>4 DEF IInv, WholeInv
    <2>5. CASE s # q /\ s # p
      BY <1>7, <2>5 DEF IInv, WholeInv
    <2> QED
      BY <2>4, <2>5
  <1>13. QueueInv'
    BY <1>3, <1>7 DEF IInv, QueueInv
  <1>14. ProgramInv' /\ ServerInv'
    BY <1>2, <1>3, <1>7, ProgramAssumption DEF IInv, ProgramInv, ServerInv, IsLast, Process
  <1>15. AnswerInv'
    <2> SUFFICES ASSUME NEW r \in Program, Asked(r)'
                 PROVE  (InEntry(r) /\ InHand(r) /\ ToSend(r) /\ Returned(r))'
      BY DEF AnswerInv
    <2>0. r \in Process /\ Server \in Process /\ r # Server
      BY ProgramAssumption DEF Process
    \* The request of r is taken now.
    <2>1. CASE r = p
      <3>1. q = Server /\ IsLast(m, r) /\ pc'[r] = "recv"
        BY <1>2, <1>3, <1>7, <2>0, <2>1 DEF IInv, ProgramInv, Asked
      <3>2. pc'[Server] = "wait" /\ pcb'[Server].value = m
        BY <1>1, <1>7, <2>0, <2>1, <3>1
      <3> QED
        BY <3>1, <3>2 DEF InEntry, InHand, ToSend, Returned, IsLast
    \* It was taken before.
    <2>2. CASE r # p
      <3>1. Asked(r) /\ pc'[r] = pc[r]
        BY <1>7, <2>0, <2>2 DEF Asked
      <3>2. InEntry(r) /\ InHand(r) /\ ToSend(r) /\ Returned(r)
        BY <3>1 DEF IInv, AnswerInv
      <3>3. InEntry(r)'
        BY <1>7, <2>0, <2>2, <3>2 DEF InEntry, IsLast
      <3>4. InHand(r)'
        BY <1>2, <1>7, <2>0, <3>2 DEF InHand, IsLast
      <3>5. ToSend(r)'
        BY <1>2, <1>3, <1>7, <2>0, <3>2 DEF ToSend, IsLast
      <3>6. Returned(r)'
        <4>1. CASE r = q /\ p = Server
          <5>1. whom[Server] = r /\ pc[Server] = "send"
            BY <4>1
          <5>2. IsLast(m, r)
            BY <1>3, <4>1, <5>1, <3>2 DEF ToSend
          <5> QED
            BY <1>7, <2>0, <4>1, <5>2 DEF Returned, IsLast
        <4>2. CASE r = q /\ p # Server
          BY <1>7, <2>0, <4>2 DEF Returned
        <4>3. CASE r # q
          <5>1. recving'[r] = recving[r]
            BY <1>8, <2>0, <4>3
          <5> QED
            BY <1>7, <2>0, <3>1, <3>2, <4>3, <5>1 DEF Returned, IsLast
        <4> QED
          BY <4>1, <4>2, <4>3
      <3> QED
        BY <3>3, <3>4, <3>5, <3>6
    <2> QED
      BY <2>1, <2>2
  <1> QED
    BY <1>10, <1>11, <1>12, <1>13, <1>14, <1>15 DEF IInv

LEMMA SendPreserves == ASSUME IInv, NEW p \in Process, ipc_send(p) PROVE IInv'
  <1> DEFINE q == whom[p]
  <1>1. CASE /\ ~Takes(q) /\ Refused(p)
             /\ UNCHANGED <<recving, pcb, queue>>
    BY <1>1, MovePreserves DEF ipc_send, Refused, Goto
  <1>2. CASE /\ Takes(q) /\ Deliver(q, p, Head(queue[p]))
             /\ queue' = [queue EXCEPT ![p] = Tail(@)]
             /\ AfterSend(p) \/ (MayHavePage(p) /\ Goto(p, "panic"))
    <2>1. AfterSend(p) \/ Goto(p, "panic")
      BY <1>2, Zenon
    <2> QED
      BY <1>2, <2>1, TakenPreserves DEF ipc_send
  <1> QED
    BY <1>1, <1>2, ZenonT(40) DEF ipc_send

-----------------------------------------------------------------------------
(* Receiving.                                                              *)

\* The system call opens the mailbox, unless the address is out of range.
LEMMA OpenPreserves == ASSUME IInv, NEW p \in Process, ipcRecv(p) PROVE IInv'
  <1>1. /\ pc \in [Process -> Place] /\ recving \in [Process -> BOOLEAN]
        /\ "wait" \in Place /\ pc[p] \in {"recv", "far"}
    BY DEF IInv, TypeOK, Place, ipcRecv
  <1>2. pc'[p] = "wait" /\ \A q \in Process : q # p => pc'[q] = pc[q]
    BY <1>1 DEF ipcRecv, Goto
  <1>3. /\ recving' \in [Process -> BOOLEAN]
        /\ pc[p] = "far" \/ recving'[p]
        /\ \A q \in Process : q # p => recving'[q] = recving[q]
    <2>1. CASE recving' = recving /\ pc[p] = "far"
      BY <1>1, <2>1
    <2>2. CASE recving' = [recving EXCEPT ![p] = TRUE]
      BY <1>1, <2>2, ZenonT(40)
    <2> QED
      BY <2>1, <2>2, ZenonT(40) DEF ipcRecv
  <1>4. UNCHANGED <<pcb, inFsipc, whom, queue, mine, sent>>
    BY DEF ipcRecv
  <1>5. TypeOK'
    BY <1>1, <1>3 DEF IInv, TypeOK, ipcRecv, Goto
  <1>6. OpenInv'
    BY <1>2, <1>3 DEF IInv, OpenInv
  <1>7. WholeInv' /\ QueueInv'
    BY <1>1, <1>2, <1>4 DEF IInv, WholeInv, Whole, WholeFor, QueueInv
  <1>8. ProgramInv' /\ ServerInv'
    BY <1>2, <1>4 DEF IInv, ProgramInv, ServerInv, IsLast, Process
  <1>9. AnswerInv'
    <2> SUFFICES ASSUME NEW q \in Program, Asked(q)'
                 PROVE  (InEntry(q) /\ InHand(q) /\ ToSend(q) /\ Returned(q))'
      BY DEF AnswerInv
    <2>1. q \in Process
      BY DEF Process
    <2>2. Asked(q) /\ (q = p => pc[p] # "far")
      BY <1>1, <1>2, <1>4, <2>1 DEF Asked, IInv, ProgramInv
    <2>3. InEntry(q) /\ InHand(q) /\ ToSend(q) /\ Returned(q)
      BY <2>2 DEF IInv, AnswerInv
    <2>4. pc'[Server] = pc[Server] \/ pc'[Server] = "wait"
      BY <1>2 DEF Process
    <2>5. (InEntry(q) /\ InHand(q) /\ ToSend(q))'
      BY <1>4, <2>3, <2>4 DEF InEntry, InHand, ToSend, IsLast
    <2>6. CASE q = p
      BY <1>3, <2>2, <2>5, <2>6 DEF Returned
    <2>7. CASE q # p
      <3>1. pc'[q] = pc[q] /\ recving'[q] = recving[q]
        BY <1>2, <1>3, <2>1, <2>7
      <3> QED
        BY <1>4, <2>3, <2>5, <3>1 DEF Returned, IsLast
    <2> QED
      BY <2>6, <2>7
  <1> QED
    BY <1>5, <1>6, <1>7, <1>8, <1>9 DEF IInv

\* Reading the sender and the permissions: mine[p] becomes f and p moves on.
LEMMA ReadPreserves ==
    ASSUME IInv, NEW p \in Process, NEW f \in Fields, NEW place \in {"perm", "value"},
           pc[p] \in {"wait", "perm"}, ~recving[p],
           f.from = pcb[p].from \/ (place = "value" /\ p = Server /\ f.from = Server),
           place = "value" => f.perm = pcb[p].perm,
           mine' = [mine EXCEPT ![p] = f], pc' = [pc EXCEPT ![p] = place],
           UNCHANGED <<recving, pcb, inFsipc, whom, queue, sent>>
    PROVE  IInv'
  <1>1. pc \in [Process -> Place] /\ mine \in [Process -> Fields] /\ place \in Place
    BY DEF IInv, TypeOK, Place
  <1>2. /\ pc'[p] = place /\ \A q \in Process : q # p => pc'[q] = pc[q]
        /\ mine'[p] = f /\ \A q \in Process : q # p => mine'[q] = mine[q]
    BY <1>1
  <1>3. TypeOK'
    BY <1>1 DEF IInv, TypeOK
  <1>4. OpenInv'
    BY <1>2 DEF IInv, OpenInv
  <1>5. WholeInv' /\ QueueInv'
    BY <1>2 DEF IInv, WholeInv, Whole, WholeFor, QueueInv
  <1>6. ProgramInv' /\ ServerInv'
    BY <1>2 DEF IInv, ProgramInv, ServerInv, IsLast, Process
  <1>7. AnswerInv'
    <2> SUFFICES ASSUME NEW q \in Program, Asked(q)'
                 PROVE  (InEntry(q) /\ InHand(q) /\ ToSend(q) /\ Returned(q))'
      BY DEF AnswerInv
    <2>1. q \in Process
      BY DEF Process
    <2>2. Asked(q)
      BY <1>2, <2>1 DEF Asked
    <2>3. InEntry(q) /\ InHand(q) /\ ToSend(q) /\ Returned(q)
      BY <2>2 DEF IInv, AnswerInv
    <2>4. (pc'[Server] = pc[Server] /\ mine'[Server] = mine[Server])
            \/ pc'[Server] \in {"perm", "value"}
      BY <1>2 DEF Process
    <2>5. (InEntry(q) /\ InHand(q) /\ ToSend(q))'
      BY <2>3, <2>4 DEF InEntry, InHand, ToSend, IsLast
    <2>6. pc'[q] \in {"wait", "perm", "value"} => pc[q] \in {"wait", "perm", "value"}
      BY <1>2, <2>1
    <2>7. Returned(q)'
      BY <2>3, <2>6 DEF Returned, IsLast
    <2> QED
      BY <2>5, <2>7
  <1> QED
    BY <1>3, <1>4, <1>5, <1>6, <1>7 DEF IInv

\* Where the receiver goes on, and whether its request is over.
LEMMA AfterRecvPlace ==
    ASSUME IInv, NEW p \in Process, AfterRecv(p)
    PROVE  \E place \in {"serve", "hung", "user"}, request \in {inFsipc[p], "none"} :
            /\ pc' = [pc EXCEPT ![p] = place]
            /\ inFsipc' = [inFsipc EXCEPT ![p] = request]
            /\ place = "serve" <=> p = Server
            /\ place # "hung" => request = "none"
  <1> DEFINE H == HangsOn(p)
             place == CASE p = Server -> "serve" [] H -> "hung" [] OTHER -> "user"
             request == IF H THEN inFsipc[p] ELSE "none"
  <1>1. pc' = [pc EXCEPT ![p] = place]
    BY ZenonT(40) DEF AfterRecv, Goto
  <1>2. inFsipc' = [inFsipc EXCEPT ![p] = request]
    BY ZenonT(40) DEF AfterRecv
  <1>3. p = Server => ~H
    BY DEF IInv, ServerInv, HangsOn
  <1>4. CASE p = Server
    <2> HIDE DEF H
    <2>1. place = "serve" /\ request = "none"
      BY <1>3, <1>4, Zenon
    <2> HIDE DEF place, request
    <2> QED
      BY <1>1, <1>2, <1>4, <2>1
  <1>5. CASE p # Server /\ H
    <2> HIDE DEF H
    <2>1. place = "hung" /\ request = inFsipc[p]
      BY <1>5, Zenon
    <2> HIDE DEF place, request
    <2> QED
      BY <1>1, <1>2, <1>5, <2>1
  <1>6. CASE p # Server /\ ~H
    <2> HIDE DEF H
    <2>1. place = "user" /\ request = "none"
      BY <1>6, Zenon
    <2> HIDE DEF place, request
    <2> QED
      BY <1>1, <1>2, <1>6, <2>1
  <1> QED
    BY <1>4, <1>5, <1>6

\* Reading the value.
LEMMA ReadValuePreserves ==
    ASSUME IInv, NEW p \in Process, pc[p] = "value",
           mine' = [mine EXCEPT ![p].value = pcb[p].value], AfterRecv(p),
           UNCHANGED <<recving, pcb, whom, queue, sent>>
    PROVE  IInv'
  <1> DEFINE f == [mine[p] EXCEPT !.value = pcb[p].value]
  <1>1. /\ pc \in [Process -> Place] /\ mine \in [Process -> Fields]
        /\ pcb \in [Process -> Fields] /\ inFsipc \in [Process -> Requests \union {"none"}]
    BY DEF IInv, TypeOK
  <1>2. PICK place \in {"serve", "hung", "user"}, request \in {inFsipc[p], "none"} :
            /\ pc' = [pc EXCEPT ![p] = place]
            /\ inFsipc' = [inFsipc EXCEPT ![p] = request]
            /\ place = "serve" <=> p = Server
            /\ place # "hung" => request = "none"
    BY AfterRecvPlace
  <1>3. /\ f \in Fields /\ f.perm = pcb[p].perm
        /\ f.from = pcb[p].from \/ (p = Server /\ f.from = Server)
        /\ f.value = pcb[p].value /\ mine' = [mine EXCEPT ![p] = f]
    <2>1. mine[p] \in Fields /\ pcb[p] \in Fields
      BY <1>1
    <2>2. /\ mine[p].perm = pcb[p].perm
          /\ mine[p].from = pcb[p].from \/ (p = Server /\ mine[p].from = Server)
      BY DEF IInv, WholeInv
    <2>3. /\ f \in Fields /\ f.from = mine[p].from /\ f.perm = mine[p].perm
          /\ f.value = pcb[p].value
      BY <2>1 DEF Fields
    <2>4. mine' = [mine EXCEPT ![p] = f]
      OBVIOUS
    <2> QED
      BY <2>2, <2>3, <2>4
  <1> HIDE DEF f
  <1>4. WholeFor(p, f)
    BY <1>3 DEF IInv, WholeInv, Whole, WholeFor
  <1>5. /\ pc'[p] = place /\ \A q \in Process : q # p => pc'[q] = pc[q]
        /\ mine'[p] = f /\ \A q \in Process : q # p => mine'[q] = mine[q]
        /\ inFsipc'[p] = request /\ \A q \in Process : q # p => inFsipc'[q] = inFsipc[q]
    BY <1>1, <1>2, <1>3
  <1>6. TypeOK'
    <2>1. request \in Requests \union {"none"} /\ place \in Place
      BY <1>1 DEF Place
    <2>2. /\ pc' \in [Process -> Place] /\ mine' \in [Process -> Fields]
          /\ inFsipc' \in [Process -> Requests \union {"none"}]
      BY <1>1, <1>2, <1>3, <2>1
    <2> QED
      BY <2>2 DEF IInv, TypeOK
  <1>7. OpenInv' /\ QueueInv'
    BY <1>5 DEF IInv, OpenInv, QueueInv
  <1>8. WholeInv'
    BY <1>4, <1>5 DEF IInv, WholeInv, Whole, WholeFor
  <1>9. ProgramInv' /\ ServerInv'
    BY <1>2, <1>5 DEF IInv, ProgramInv, ServerInv, IsLast, Process
  <1>10. AnswerInv'
    <2> SUFFICES ASSUME NEW q \in Program, Asked(q)'
                 PROVE  (InEntry(q) /\ InHand(q) /\ ToSend(q) /\ Returned(q))'
      BY DEF AnswerInv
    <2>1. q \in Process /\ Server \in Process /\ q # p /\ q # Server
      BY <1>5, ProgramAssumption DEF Process, Asked
    <2>2. Asked(q) /\ pc'[q] = pc[q]
      BY <1>5, <2>1 DEF Asked
    <2>3. InEntry(q) /\ InHand(q) /\ ToSend(q) /\ Returned(q)
      BY <2>2 DEF IInv, AnswerInv
    <2>4. InHand(q)'
      <3>1. CASE p = Server
        <4>1. mine'[Server].from = q => IsLast(pcb[Server].value, q)
          BY <1>3, <1>5, <2>1, <2>3, <3>1 DEF InEntry
        <4>2. mine'[Server].value = pcb[Server].value
          BY <1>3, <1>5, <3>1
        <4> QED
          BY <4>1, <4>2 DEF InHand, IsLast
      <3>2. CASE p # Server
        <4>1. pc'[Server] = pc[Server] /\ mine'[Server] = mine[Server]
          BY <1>5, <2>1, <3>2
        <4> QED
          BY <2>3, <4>1 DEF InHand, IsLast
      <3> QED
        BY <3>1, <3>2
    <2>5. (InEntry(q) /\ ToSend(q) /\ Returned(q))'
      BY <1>2, <1>5, <2>1, <2>2, <2>3 DEF InEntry, ToSend, Returned, IsLast
    <2> QED
      BY <2>4, <2>5
  <1> QED
    BY <1>6, <1>7, <1>8, <1>9, <1>10 DEF IInv

LEMMA RecvPreserves == ASSUME IInv, NEW p \in Process, ipc_recv(p) PROVE IInv'
  <1>1. mine \in [Process -> Fields] /\ pcb \in [Process -> Fields]
    BY DEF IInv, TypeOK
  <1>2. CASE ipcRecv(p)
    BY <1>2, OpenPreserves
  <1>3. CASE /\ pc[p] = "wait" /\ Awake(p)
             /\ mine' = [mine EXCEPT ![p].from = pcb[p].from]
             /\ Goto(p, "perm")
             /\ UNCHANGED <<recving, pcb, inFsipc, whom, queue, sent>>
    <2> DEFINE f == [mine[p] EXCEPT !.from = pcb[p].from]
    <2>1. f \in Fields /\ f.from = pcb[p].from /\ mine' = [mine EXCEPT ![p] = f]
      BY <1>1, <1>3 DEF Fields
    <2> HIDE DEF f
    <2> QED
      BY <1>3, <2>1, ReadPreserves DEF Goto, Awake
  <1>4. CASE /\ pc[p] = "perm"
             /\ \E from \in SendersKept(p) :
                    mine' = [mine EXCEPT ![p] = [@ EXCEPT !.perm = pcb[p].perm, !.from = from]]
             /\ Goto(p, "value")
             /\ UNCHANGED <<recving, pcb, inFsipc, whom, queue, sent>>
    <2>0. PICK from \in SendersKept(p) :
            mine' = [mine EXCEPT ![p] = [@ EXCEPT !.perm = pcb[p].perm, !.from = from]]
      BY <1>4
    <2> DEFINE f == [mine[p] EXCEPT !.perm = pcb[p].perm, !.from = from]
    <2>1. from \in Process /\ (from = mine[p].from \/ (p = Server /\ from = Server))
      BY <1>1 DEF SendersKept, Process, Fields
    <2>2. /\ f \in Fields /\ f.from = from /\ f.perm = pcb[p].perm
          /\ mine' = [mine EXCEPT ![p] = f]
      <3>1. mine[p] \in Fields /\ pcb[p] \in Fields
        BY <1>1
      <3>2. f \in Fields /\ f.from = from /\ f.perm = pcb[p].perm
        BY <2>1, <3>1 DEF Fields
      <3>3. mine' = [mine EXCEPT ![p] = f]
        BY <2>0
      <3> QED
        BY <3>2, <3>3
    <2>3. mine[p].from = pcb[p].from /\ ~recving[p]
      BY <1>4 DEF IInv, WholeInv, OpenInv
    <2> HIDE DEF f
    <2> QED
      BY <1>4, <2>1, <2>2, <2>3, ReadPreserves DEF Goto
  <1>5. CASE /\ pc[p] = "value"
             /\ mine' = [mine EXCEPT ![p].value = pcb[p].value]
             /\ AfterRecv(p)
             /\ UNCHANGED <<recving, pcb, whom, queue, sent>>
    BY <1>5, ReadValuePreserves
  <1> QED
    BY <1>2, <1>3, <1>4, <1>5, ZenonT(40) DEF ipc_recv

-----------------------------------------------------------------------------
(* A program.                                                              *)

\* Beginning to send, for a request of the file server or not.
LEMMA StartPreserves ==
    ASSUME IInv, NEW p \in Program, NEW q \in Process, NEW what \in Own,
           NEW perm \in BOOLEAN, NEW request \in Requests \union {"none"},
           request # "none" => q = Server,
           StartSend(p, q, what, perm), inFsipc' = [inFsipc EXCEPT ![p] = request]
    PROVE  IInv'
  <1> DEFINE m == Message(what, perm, p, sent[p] + 1)
             one == <<m>>
  <1>1. p \in Process /\ Server \in Process /\ p # Server /\ pc[p] = "user"
    BY ProgramAssumption DEF Process, StartSend
  <1>2. /\ pc \in [Process -> Place] /\ mine \in [Process -> Fields]
        /\ queue \in [Process -> Seq(Messages)] /\ whom \in [Process -> Process]
        /\ inFsipc \in [Process -> Requests \union {"none"}]
        /\ sent \in [Process -> Nat] /\ "send" \in Place
    BY DEF IInv, TypeOK, Place
  <1>3. /\ m \in Messages /\ m.by = p /\ m.n = sent[p] + 1
    BY <1>1, <1>2 DEF Message, Messages, Own
  <1>4. /\ pc' = [pc EXCEPT ![p] = "send"] /\ whom' = [whom EXCEPT ![p] = q]
        /\ queue' = [queue EXCEPT ![p] = one] /\ mine' = [mine EXCEPT ![p] = Nothing]
        /\ sent' = [sent EXCEPT ![p] = @ + 1]
        /\ UNCHANGED <<recving, pcb>>
    BY DEF StartSend, Goto
  <1> HIDE DEF m
  <1>5. one \in Seq(Messages) /\ Len(one) = 1 /\ one[1] = m
    BY <1>3
  <1> HIDE DEF one
  <1>6. /\ pc'[p] = "send" /\ queue'[p] = one /\ mine'[p] = Nothing
        /\ sent'[p] = sent[p] + 1 /\ whom'[p] = q /\ inFsipc'[p] = request
        /\ \A s \in Process : s # p =>
            /\ pc'[s] = pc[s] /\ queue'[s] = queue[s] /\ mine'[s] = mine[s]
            /\ sent'[s] = sent[s] /\ whom'[s] = whom[s] /\ inFsipc'[s] = inFsipc[s]
    BY <1>1, <1>2, <1>4
  <1>7. TypeOK'
    <2>1. /\ pc' \in [Process -> Place] /\ mine' \in [Process -> Fields]
          /\ whom' \in [Process -> Process] /\ sent' \in [Process -> Nat]
      BY <1>1, <1>2, <1>4, NothingIsWhole
    <2>2. queue' \in [Process -> Seq(Messages)]
      BY <1>1, <1>2, <1>4, <1>5
    <2>3. inFsipc' \in [Process -> Requests \union {"none"}]
      BY <1>2
    <2>4. \A s \in Process : Len(queue'[s]) <= 2
      <3>1. Len(one) <= 2
        BY <1>5
      <3> QED
        BY <1>6, <3>1 DEF IInv, TypeOK
    <2> QED
      BY <1>4, <2>1, <2>2, <2>3, <2>4 DEF IInv, TypeOK
  <1>8. OpenInv'
    BY <1>1, <1>4, <1>6 DEF IInv, OpenInv
  <1>9. WholeInv'
    BY <1>4, <1>6, NothingIsWhole DEF IInv, WholeInv, Whole, WholeFor
  <1>10. QueueInv'
    BY <1>3, <1>5, <1>6 DEF IInv, QueueInv
  <1>11. ProgramInv'
    BY <1>1, <1>3, <1>5, <1>6 DEF IInv, ProgramInv, IsLast, Process
  <1>12. ServerInv'
    BY <1>1, <1>6 DEF IInv, ServerInv
  <1>13. AnswerInv'
    <2> SUFFICES ASSUME NEW r \in Program, Asked(r)'
                 PROVE  (InEntry(r) /\ InHand(r) /\ ToSend(r) /\ Returned(r))'
      BY DEF AnswerInv
    <2>1. r \in Process /\ r # p
      BY <1>6 DEF Process, Asked
    <2>2. Asked(r)
      BY <1>6, <2>1 DEF Asked
    <2>3. InEntry(r) /\ InHand(r) /\ ToSend(r) /\ Returned(r)
      BY <2>2 DEF IInv, AnswerInv
    <2> QED
      BY <1>1, <1>4, <1>6, <2>1, <2>3 DEF InEntry, InHand, ToSend, Returned, IsLast
  <1> QED
    BY <1>7, <1>8, <1>9, <1>10, <1>11, <1>12, <1>13 DEF IInv

LEMMA FsipcPreserves == ASSUME IInv, NEW p \in Program, fsipc(p) PROVE IInv'
  <1>1. PICK request \in Requests :
            StartSend(p, Server, request, TRUE) /\ inFsipc' = [inFsipc EXCEPT ![p] = request]
    BY DEF fsipc
  <1>2. request \in Own /\ Server \in Process
    BY RequestAssumption DEF Own, Process
  <1> QED
    BY <1>1, <1>2, StartPreserves

LEMMA OwnSendPreserves == ASSUME IInv, NEW p \in Program, OwnSend(p) PROVE IInv'
  <1>1. PICK q \in Process \ {p}, what \in Requests \union {"word"}, perm \in BOOLEAN :
            StartSend(p, q, what, perm) /\ UNCHANGED inFsipc
    BY DEF OwnSend
  <1>2. what \in Own /\ q \in Process
    BY RequestAssumption DEF Own
  <1>3. inFsipc' = [inFsipc EXCEPT ![p] = "none"]
    BY <1>1 DEF IInv, TypeOK, ProgramInv, StartSend
  <1>4. PICK none \in Requests \union {"none"} : none = "none"
    OBVIOUS
  <1>5. StartSend(p, q, what, perm) /\ inFsipc' = [inFsipc EXCEPT ![p] = none]
    BY <1>1, <1>3, <1>4
  <1> QED
    BY <1>2, <1>4, <1>5, StartPreserves

LEMMA OwnRecvPreserves == ASSUME IInv, NEW p \in Program, OwnRecv(p) PROVE IInv'
  <1>1. p \in Process /\ p # Server
    BY ProgramAssumption DEF Process
  <1>2. PICK place \in {"recv", "far"} : pc' = [pc EXCEPT ![p] = place]
    BY DEF OwnRecv, Goto
  <1>2a. /\ pc \in [Process -> Place] /\ mine \in [Process -> Fields] /\ place \in Place
    BY DEF IInv, TypeOK, Place
  <1>3. /\ pc'[p] = place /\ \A q \in Process : q # p => pc'[q] = pc[q]
        /\ mine'[p] = Nothing /\ \A q \in Process : q # p => mine'[q] = mine[q]
    BY <1>1, <1>2, <1>2a DEF OwnRecv
  <1>4. pc[p] = "user" /\ UNCHANGED <<recving, pcb, inFsipc, whom, queue, sent>>
    BY DEF OwnRecv
  <1>5. inFsipc[p] = "none"
    BY <1>4 DEF IInv, ProgramInv
  <1>6. TypeOK'
    BY <1>1, <1>2, <1>2a, NothingIsWhole DEF IInv, TypeOK, OwnRecv
  <1>7. OpenInv' /\ QueueInv'
    BY <1>3, <1>4 DEF IInv, OpenInv, QueueInv
  <1>8. WholeInv'
    BY <1>3, <1>4, NothingIsWhole DEF IInv, WholeInv, Whole, WholeFor
  <1>9. ProgramInv' /\ ServerInv'
    BY <1>1, <1>3, <1>4, <1>5 DEF IInv, ProgramInv, ServerInv, IsLast, Process
  <1>10. AnswerInv'
    <2> SUFFICES ASSUME NEW r \in Program, Asked(r)'
                 PROVE  (InEntry(r) /\ InHand(r) /\ ToSend(r) /\ Returned(r))'
      BY DEF AnswerInv
    <2>1. r \in Process /\ Server \in Process /\ r # p
      BY <1>4, <1>5 DEF Process, Asked
    <2>2. Asked(r)
      BY <1>3, <1>4, <2>1 DEF Asked
    <2>3. InEntry(r) /\ InHand(r) /\ ToSend(r) /\ Returned(r)
      BY <2>2 DEF IInv, AnswerInv
    <2> QED
      BY <1>1, <1>3, <1>4, <2>1, <2>3 DEF InEntry, InHand, ToSend, Returned, IsLast
  <1> QED
    BY <1>6, <1>7, <1>8, <1>9, <1>10 DEF IInv

LEMMA ExitPreserves == ASSUME IInv, NEW p \in Program, Exit(p) PROVE IInv'
  BY MovePreserves DEF Exit, Goto, Process

-----------------------------------------------------------------------------
(* The server.                                                             *)

LEMMA ResultsOf ==
    ASSUME NEW request \in FSREQ
    PROVE  Results(request) \subseteq {<<"ok">>, <<"error">>, <<"error", "ok">>}
  <1>1. CASE request = "open"
    <2>1. Results(request) = serve_open
      BY <1>1, ZenonT(40) DEF Results
    <2> QED
      BY <2>1 DEF serve_open
  <1>2. CASE request = "map"
    <2>1. Results(request) = serve_map
      BY <1>2, ZenonT(40) DEF Results
    <2> QED
      BY <2>1 DEF serve_map
  <1>3. CASE request = "set_size"
    <2>1. Results(request) = serve_set_size
      BY <1>3, ZenonT(40) DEF Results
    <2> QED
      BY <2>1 DEF serve_set_size
  <1>4. CASE request = "close"
    <2>1. Results(request) = serve_close
      BY <1>4, ZenonT(40) DEF Results
    <2> QED
      BY <2>1 DEF serve_close
  <1>5. CASE request = "remove"
    <2>1. Results(request) = serve_remove
      BY <1>5, ZenonT(40) DEF Results
    <2> QED
      BY <2>1 DEF serve_remove
  <1>6. CASE request = "dirty"
    <2>1. Results(request) = serve_dirty
      BY <1>6, ZenonT(40) DEF Results
    <2> QED
      BY <2>1 DEF serve_dirty
  <1>7. CASE request = "sync"
    <2>1. Results(request) = serve_sync
      BY <1>7, ZenonT(40) DEF Results
    <2> QED
      BY <2>1 DEF serve_sync
  <1> QED
    BY <1>1, <1>2, <1>3, <1>4, <1>5, <1>6, <1>7 DEF FSREQ

\* The answers are results, of the request they answer.
LEMMA AnswersOf ==
    ASSUME NEW request \in Messages,
           NEW results \in {<<"ok">>, <<"error">>, <<"error", "ok">>}
    PROVE  /\ Answers(request, results) \in Seq(Messages)
           /\ Len(Answers(request, results)) \in {1, 2}
           /\ \A k \in 1 .. Len(Answers(request, results)) :
                /\ Answers(request, results)[k].what \notin Own
                /\ Answers(request, results)[k].by = request.by
                /\ Answers(request, results)[k].n = request.n
  <1> DEFINE answers == Answers(request, results)
             has == Len(results)
  <1>1. has \in {1, 2} /\ \A k \in 1 .. has : results[k] \in {"ok", "error"}
    OBVIOUS
  <1>2. answers = [k \in 1 .. has |->
            Message(results[k], results[k] = "ok" /\ request.what \in {"open", "map"},
                    request.by, request.n)]
    BY DEF Answers
  <1> HIDE DEF has, answers
  <1>3. ASSUME NEW k \in 1 .. has
        PROVE  /\ answers[k] \in Messages /\ answers[k].what \in {"ok", "error"}
               /\ answers[k].by = request.by /\ answers[k].n = request.n
    BY <1>1, <1>2 DEF Message, Messages
  <1>4. answers \in Seq(Messages) /\ Len(answers) = has
    BY <1>1, <1>2, <1>3
  <1> QED
    BY <1>1, <1>3, <1>4 DEF answers, Own, FSREQ

LEMMA AnswerPreserves ==
    ASSUME IInv, pc[Server] = "serve", mine[Server].value.what \in FSREQ,
           Answer(mine[Server].value), UNCHANGED <<recving, pcb, inFsipc, mine, sent>>
    PROVE  IInv'
  <1> DEFINE request == mine[Server].value
  <1>1. /\ Server \in Process /\ mine \in [Process -> Fields]
        /\ pc \in [Process -> Place] /\ whom \in [Process -> Process]
        /\ queue \in [Process -> Seq(Messages)] /\ "send" \in Place
    BY DEF IInv, TypeOK, Place, Process
  <1>2. request \in Messages /\ mine[Server].from \in Process
    BY <1>1 DEF Fields
  <1>3. PICK results \in {<<"ok">>, <<"error">>, <<"error", "ok">>} :
            /\ whom' = [whom EXCEPT ![Server] = mine[Server].from]
            /\ queue' = [queue EXCEPT ![Server] = Answers(request, results)]
            /\ pc' = [pc EXCEPT ![Server] = "send"]
    BY ResultsOf DEF Answer, Goto
  <1> DEFINE answers == Answers(request, results)
  <1>4. /\ answers \in Seq(Messages) /\ Len(answers) \in {1, 2}
        /\ \A k \in 1 .. Len(answers) :
            /\ answers[k].what \notin Own
            /\ answers[k].by = request.by /\ answers[k].n = request.n
    BY <1>2, AnswersOf, Zenon
  <1>5. queue' = [queue EXCEPT ![Server] = answers]
    BY <1>3
  <1> HIDE DEF answers
  <1>6. /\ pc'[Server] = "send" /\ queue'[Server] = answers
        /\ whom'[Server] = mine[Server].from
        /\ \A p \in Process : p # Server =>
            pc'[p] = pc[p] /\ queue'[p] = queue[p] /\ whom'[p] = whom[p]
    BY <1>1, <1>3, <1>5
  <1>7. TypeOK'
    <2>1. pc' \in [Process -> Place] /\ whom' \in [Process -> Process]
      BY <1>1, <1>2, <1>3
    <2>2. queue' \in [Process -> Seq(Messages)]
      BY <1>1, <1>4, <1>5
    <2>3. \A p \in Process : Len(queue'[p]) <= 2
      <3>1. Len(answers) <= 2
        BY <1>4
      <3> QED
        BY <1>6, <3>1 DEF IInv, TypeOK
    <2> QED
      BY <2>1, <2>2, <2>3 DEF IInv, TypeOK
  <1>8. OpenInv'
    BY <1>6 DEF IInv, OpenInv
  <1>9. WholeInv'
    BY <1>6 DEF IInv, WholeInv, Whole, WholeFor
  <1>10. QueueInv'
    BY <1>4, <1>6 DEF IInv, QueueInv
  <1>11. ProgramInv'
    BY <1>6, ProgramAssumption DEF IInv, ProgramInv, IsLast, Process
  <1>12. ServerInv'
    <2>1. Len(queue'[Server]) > 0
      BY <1>4, <1>6
    <2> QED
      BY <1>6, <2>1 DEF IInv, ServerInv
  <1>13. AnswerInv'
    <2> SUFFICES ASSUME NEW r \in Program, Asked(r)'
                 PROVE  (InEntry(r) /\ InHand(r) /\ ToSend(r) /\ Returned(r))'
      BY DEF AnswerInv
    <2>1. r \in Process /\ r # Server
      BY ProgramAssumption DEF Process
    <2>2. Asked(r)
      BY <1>6, <2>1 DEF Asked
    <2>3. InEntry(r) /\ InHand(r) /\ ToSend(r) /\ Returned(r)
      BY <2>2 DEF IInv, AnswerInv
    <2>4. ToSend(r)'
      BY <1>4, <1>6, <2>3 DEF ToSend, InHand, IsLast
    <2> QED
      BY <1>6, <2>1, <2>3, <2>4 DEF InEntry, InHand, Returned, IsLast
  <1> QED
    BY <1>7, <1>8, <1>9, <1>10, <1>11, <1>12, <1>13 DEF IInv

LEMMA ServePreserves == IInv /\ serve => IInv'
  <1> SUFFICES ASSUME IInv, serve PROVE IInv'
    OBVIOUS
  <1>1. /\ pc[Server] = "serve" /\ Server \in Process
        /\ UNCHANGED <<recving, pcb, inFsipc, mine, sent>>
    BY DEF serve, Process
  <1>2. CASE mine[Server].value.what \in FSREQ /\ Answer(mine[Server].value)
    BY <1>1, <1>2, AnswerPreserves
  <1>3. CASE (\E place \in {"panic", "hung", "recv"} : Goto(Server, place))
             /\ UNCHANGED <<whom, queue>>
    BY <1>1, <1>3, MovePreserves DEF Goto
  <1> QED
    BY <1>2, <1>3, ZenonT(40) DEF serve

-----------------------------------------------------------------------------
(* The invariant, and what follows from it.                                *)

LEMMA StutterPreserves == IInv /\ UNCHANGED vars => IInv'
  BY DEF IInv, vars, TypeOK, OpenInv, WholeInv, Whole, WholeFor, QueueInv, ProgramInv, ServerInv,
         IsLast, AnswerInv, Asked, InEntry, InHand, ToSend, Returned

LEMMA NextPreservesIInv == IInv /\ [Next]_vars => IInv'
  <1> SUFFICES ASSUME IInv, [Next]_vars PROVE IInv'
    OBVIOUS
  <1>1. CASE \E p \in Process : ipc_send(p) \/ ipc_recv(p)
    BY <1>1, SendPreserves, RecvPreserves
  <1>2. CASE serve
    BY <1>2, ServePreserves
  <1>3. CASE \E p \in Program : fsipc(p) \/ OwnSend(p) \/ OwnRecv(p) \/ Exit(p)
    BY <1>3, FsipcPreserves, OwnSendPreserves, OwnRecvPreserves, ExitPreserves
  <1>4. CASE UNCHANGED vars
    BY <1>4, StutterPreserves
  <1> QED
    BY <1>1, <1>2, <1>3, <1>4 DEF Next

\* The invariant the others follow from: open mailboxes belong to processes that
\* wait, entries and what was read of them are whole, and the server has nothing
\* of a waiting client but its last request.
THEOREM IpcInvariant == Spec => []IInv
  BY InitHoldsIInv, NextPreservesIInv, PTL DEF Spec

\* The types of the variables, for any number of programs, requests and sends.
THEOREM IpcTypeCorrect == Spec => []TypeOK
  <1>1. IInv => TypeOK
    BY DEF IInv
  <1> QED
    BY <1>1, IpcInvariant, PTL

\* What a process has read are the three fields of one message, and the sender it
\* read is the one that made the message, unless the message is a result or the
\* server has lost the name.
MessageWhole == \A p \in Process :
    LET m == mine[p].value IN
    pc[p] \notin {"perm", "value"} =>
        /\ mine[p].perm = m.perm
        /\ m.what \in Own => mine[p].from = m.by \/ (p = Server /\ mine[p].from = p)

\* What ipc_recv reads in three pieces, with any sends and receives of other
\* processes in between, is one message.
THEOREM MessagesAreWhole == Spec => []MessageWhole
  <1>1. IInv => MessageWhole
    BY DEF IInv, WholeInv, WholeFor, MessageWhole
  <1> QED
    BY <1>1, IpcInvariant, PTL

\* A request ends only when its client reads the value.
LEMMA RequestEndsInRecv ==
    ASSUME IInv, Next, NEW p \in Program, inFsipc[p] # "none", inFsipc'[p] = "none"
    PROVE  /\ pc[p] = "value"
           /\ mine' = [mine EXCEPT ![p].value = pcb[p].value]
  <1>1. inFsipc \in [Process -> Requests \union {"none"}] /\ p \in Process
    BY DEF IInv, TypeOK, Process
  <1>2. inFsipc' # inFsipc
    OBVIOUS
  <1>3. ASSUME NEW q \in Process, ipc_send(q)
        PROVE  FALSE
    BY <1>2, <1>3 DEF ipc_send
  <1>4. ASSUME serve
        PROVE  FALSE
    BY <1>2, <1>4 DEF serve
  <1>5. ASSUME NEW q \in Program, fsipc(q)
        PROVE  FALSE
    <2>1. PICK request \in Requests : inFsipc' = [inFsipc EXCEPT ![q] = request]
      BY <1>5 DEF fsipc
    <2>2. pc[q] = "user"
      BY <1>5 DEF fsipc, StartSend
    <2>3. q = p
      BY <1>1, <2>1
    <2> QED
      BY <2>2, <2>3 DEF IInv, ProgramInv
  <1>6. ASSUME NEW q \in Program, OwnSend(q) \/ OwnRecv(q) \/ Exit(q)
        PROVE  FALSE
    BY <1>2, <1>6 DEF OwnSend, OwnRecv, Exit
  <1>7. PICK q \in Process : ipc_recv(q)
    BY <1>3, <1>4, <1>5, <1>6 DEF Next
  <1>8. /\ pc[q] = "value"
        /\ mine' = [mine EXCEPT ![q].value = pcb[q].value]
        /\ AfterRecv(q)
    BY <1>2, <1>7 DEF ipc_recv, ipcRecv
  <1>9. PICK request \in {inFsipc[q], "none"} : inFsipc' = [inFsipc EXCEPT ![q] = request]
    BY <1>8, AfterRecvPlace
  <1>10. q = p
    BY <1>1, <1>9
  <1> QED
    BY <1>8, <1>10

\* A result that comes from the server is the result of the request just made,
\* whoever else sends to the client and to the server (fsipc, serve).
THEOREM AnswersAlwaysMatch == Spec => AnswersMatch
  <1>1. IInv /\ [Next]_vars =>
        [\A p \in Program :
            inFsipc[p] # "none" /\ inFsipc'[p] = "none" /\ mine'[p].from = Server =>
                mine'[p].value.by = p /\ mine'[p].value.n = sent[p]]_vars
    <2> SUFFICES ASSUME IInv, Next, NEW p \in Program,
                        inFsipc[p] # "none", inFsipc'[p] = "none", mine'[p].from = Server
                 PROVE  mine'[p].value.by = p /\ mine'[p].value.n = sent[p]
      BY DEF vars
    <2>1. /\ pc[p] = "value" /\ p \in Process
          /\ mine' = [mine EXCEPT ![p].value = pcb[p].value]
      BY RequestEndsInRecv DEF Process
    <2>2. mine \in [Process -> Fields]
      BY DEF IInv, TypeOK
    <2>3. mine'[p].value = pcb[p].value /\ mine'[p].from = mine[p].from
      BY <2>1, <2>2 DEF Fields
    <2>4. pcb[p].from = Server
      BY <2>1, <2>3, ProgramAssumption DEF IInv, WholeInv
    <2>5. ~recving[p]
      BY <2>1 DEF IInv, OpenInv
    <2>6. Asked(p)
      BY <2>1 DEF Asked
    <2>7. IsLast(pcb[p].value, p)
      BY <2>1, <2>4, <2>5, <2>6 DEF IInv, AnswerInv, Returned
    <2> QED
      BY <2>3, <2>7 DEF IsLast
  <1> QED
    BY <1>1, IpcInvariant, PTL DEF Spec, AnswersMatch

-----------------------------------------------------------------------------
(* The mailboxes: Ipc implements Mailbox.                                  *)

\* A process that is not sending, or stopped at it, has nothing left to send, and
\* a program that is sending has forgotten what it had read.
IdleInv == \A p \in Process :
    /\ pc[p] \notin {"send", "panic", "hung"} => queue[p] = <<>>
    /\ pc[p] \in {"send", "far"} /\ p # Server => mine[p] = Nothing

MailInv == IInv /\ IdleInv

\* The places of a process with an open or a filled box, and of one that has
\* what it received.
Receiving == {"wait", "perm", "value"}
Holding(p) == {"user", "serve"} \union {place \in {"hung"} : p # Server}

\* What the two functions of the mapping are at one process.
LEMMA MailAt ==
    ASSUME NEW s \in Process
    PROVE  /\ pc[s] \in Receiving /\ ~recving[s] => Boxes[s] = {pcb[s]}
           /\ pc[s] \notin Receiving \/ recving[s] => Boxes[s] = {}
           /\ pc[s] \in Holding(s) => Hands[s] = mine[s]
           /\ pc[s] \notin Holding(s) => Hands[s] = Nothing
  BY DEF Boxes, Hands, HasTaken, Receiving, Holding

LEMMA MailAtNext ==
    ASSUME NEW s \in Process
    PROVE  /\ pc'[s] \in Receiving /\ ~recving'[s] => Boxes'[s] = {pcb'[s]}
           /\ pc'[s] \notin Receiving \/ recving'[s] => Boxes'[s] = {}
           /\ pc'[s] \in Holding(s) => Hands'[s] = mine'[s]
           /\ pc'[s] \notin Holding(s) => Hands'[s] = Nothing
  BY DEF Boxes, Hands, HasTaken, Receiving, Holding

\* A process of which nothing changes has the same box and the same hand.
LEMMA MailSame ==
    ASSUME NEW s \in Process, pc'[s] = pc[s], recving'[s] = recving[s],
           pcb'[s] = pcb[s], mine'[s] = mine[s]
    PROVE  Boxes'[s] = Boxes[s] /\ Hands'[s] = Hands[s]
  <1>1. Boxes'[s] = Boxes[s]
    BY DEF Boxes
  <1>2. Hands'[s] = Hands[s]
    BY DEF Hands, HasTaken
  <1> QED
    BY <1>1, <1>2

\* When at most one process gets another box, or another hand, the function
\* changes at that process.
LEMMA BoxesChangeAt ==
    ASSUME NEW p \in Process, NEW b, Boxes'[p] = b,
           \A s \in Process : s # p => Boxes'[s] = Boxes[s]
    PROVE  Boxes' = [Boxes EXCEPT ![p] = b]
  <1> DEFINE B == Boxes
             C == Boxes'
  <1>1. /\ B = [s \in Process |-> B[s]]
        /\ C = [s \in Process |-> C[s]]
    BY DEF Boxes
  <1> HIDE DEF B, C
  <1>2. C[p] = b /\ \A s \in Process : s # p => C[s] = B[s]
    BY DEF B, C
  <1>3. C = [B EXCEPT ![p] = b]
    BY <1>1, <1>2
  <1> QED
    BY <1>3 DEF B, C

LEMMA HandsChangeAt ==
    ASSUME NEW p \in Process, NEW h, Hands'[p] = h,
           \A s \in Process : s # p => Hands'[s] = Hands[s]
    PROVE  Hands' = [Hands EXCEPT ![p] = h]
  <1> DEFINE B == Hands
             C == Hands'
  <1>1. /\ B = [s \in Process |-> B[s]]
        /\ C = [s \in Process |-> C[s]]
    BY DEF Hands
  <1> HIDE DEF B, C
  <1>2. C[p] = h /\ \A s \in Process : s # p => C[s] = B[s]
    BY DEF B, C
  <1>3. C = [B EXCEPT ![p] = h]
    BY <1>1, <1>2
  <1> QED
    BY <1>3 DEF B, C

LEMMA BoxesUnchanged ==
    ASSUME \A s \in Process : Boxes'[s] = Boxes[s]
    PROVE  Boxes' = Boxes
  <1> DEFINE B == Boxes
             C == Boxes'
  <1>1. B = [s \in Process |-> B[s]] /\ C = [s \in Process |-> C[s]]
    BY DEF Boxes
  <1>2. \A s \in Process : C[s] = B[s]
    OBVIOUS
  <1> HIDE DEF B, C
  <1>3. C = B
    BY <1>1, <1>2
  <1> QED
    BY <1>3 DEF B, C

LEMMA HandsUnchanged ==
    ASSUME \A s \in Process : Hands'[s] = Hands[s]
    PROVE  Hands' = Hands
  <1> DEFINE B == Hands
             C == Hands'
  <1>1. B = [s \in Process |-> B[s]] /\ C = [s \in Process |-> C[s]]
    BY DEF Hands
  <1>2. \A s \in Process : C[s] = B[s]
    OBVIOUS
  <1> HIDE DEF B, C
  <1>3. C = B
    BY <1>1, <1>2
  <1> QED
    BY <1>3 DEF B, C

\* Only a process that comes from, or goes to, the place "far" changes Far.
LEMMA FarChangeAt ==
    ASSUME NEW p \in Process, \A s \in Process : s # p => pc'[s] = pc[s]
    PROVE  /\ pc[p] # "far" /\ pc'[p] # "far" => Far' = Far
           /\ pc[p] # "far" /\ pc'[p] = "far" => Far' = Far \union {p}
           /\ pc[p] = "far" /\ pc'[p] # "far" => Far' = Far \ {p}
  BY DEF Far

\* A process outside the two library functions, in Idle of Mailbox.
LEMMA IdleProcess ==
    ASSUME MailInv, NEW p \in Process, pc[p] \in {"user", "serve", "recv"}
    PROVE  Mail!Idle(p) /\ p \notin Far
  <1>1. queue[p] = <<>>
    BY DEF MailInv, IdleInv
  <1>2. ~recving[p]
    BY DEF MailInv, IInv, OpenInv
  <1>3. Boxes[p] = {}
    BY MailAt DEF Receiving
  <1>4. p \notin Far
    BY DEF Far
  <1> QED
    BY <1>1, <1>2, <1>3, <1>4 DEF Mail!Idle

\* A process that goes on somewhere else and keeps nothing of what it had read:
\* it leaves, and if it had nothing nobody sees a change.
LEMMA GoingIsLeave ==
    ASSUME MailInv, NEW p \in Process, pc[p] \in {"user", "serve"},
           NEW place \in {"panic", "dead", "recv", "far", "hung"},
           place = "hung" => p = Server, pc' = [pc EXCEPT ![p] = place],
           UNCHANGED <<recving, pcb, queue, whom>>,
           \A s \in Process : s # p => mine'[s] = mine[s]
    PROVE  Mail!Leave(p)
  <1>1. pc \in [Process -> Place]
    BY DEF MailInv, IInv, TypeOK
  <1>2. pc'[p] = place /\ \A s \in Process : s # p => pc'[s] = pc[s]
    BY <1>1
  <1>3. \A s \in Process : s # p => Boxes'[s] = Boxes[s] /\ Hands'[s] = Hands[s]
    BY <1>2, MailSame
  <1>4. Boxes[p] = {}
    BY MailAt DEF Receiving
  <1>5. Boxes'[p] = {} /\ Hands'[p] = Nothing
    BY <1>2, MailAtNext DEF Receiving, Holding
  <1>6. Boxes' = Boxes
    <2>1. \A s \in Process : Boxes'[s] = Boxes[s]
      BY <1>3, <1>4, <1>5
    <2> QED
      BY <2>1, BoxesUnchanged
  <1>7. Hands' = [Hands EXCEPT ![p] = Nothing]
    BY <1>3, <1>5, HandsChangeAt
  <1>8. Mail!Idle(p)
    BY IdleProcess
  <1>9. Far' \in {Far, Far \union {p}}
    BY <1>2, FarChangeAt
  <1> QED
    BY <1>6, <1>7, <1>8, <1>9 DEF Mail!Leave, Mail!Forgets

\* Beginning to send.
LEMMA StartIsPost ==
    ASSUME MailInv, NEW p \in Process, pc[p] \in {"user", "serve"},
           NEW q \in Process, NEW messages \in Seq(Messages), messages # <<>>,
           pc' = [pc EXCEPT ![p] = "send"], whom' = [whom EXCEPT ![p] = q],
           queue' = [queue EXCEPT ![p] = messages],
           \A s \in Process : s # p => mine'[s] = mine[s],
           UNCHANGED <<recving, pcb>>
    PROVE  Mail!Post(p)
  <1>1. /\ pc \in [Process -> Place] /\ whom \in [Process -> Process]
        /\ queue \in [Process -> Seq(Messages)]
    BY DEF MailInv, IInv, TypeOK
  <1>2. pc'[p] = "send" /\ \A s \in Process : s # p => pc'[s] = pc[s]
    BY <1>1
  <1>3. \A s \in Process : s # p => Boxes'[s] = Boxes[s] /\ Hands'[s] = Hands[s]
    BY <1>2, MailSame
  <1>4. Boxes[p] = {}
    BY MailAt DEF Receiving
  <1>5. Boxes'[p] = {} /\ Hands'[p] = Nothing
    BY <1>2, MailAtNext DEF Receiving, Holding
  <1>6. Boxes' = Boxes
    <2>1. \A s \in Process : Boxes'[s] = Boxes[s]
      BY <1>3, <1>4, <1>5
    <2> QED
      BY <2>1, BoxesUnchanged
  <1>7. Hands' = [Hands EXCEPT ![p] = Nothing]
    BY <1>3, <1>5, HandsChangeAt
  <1>8. Mail!Idle(p)
    BY IdleProcess
  <1>9. queue'[p] = messages /\ whom'[p] = q
    BY <1>1
  <1>10. queue'[p] \in Seq(Messages) \ {<<>>} /\ queue' = [queue EXCEPT ![p] = queue'[p]]
    BY <1>9
  <1>11. whom'[p] \in Process /\ whom' = [whom EXCEPT ![p] = whom'[p]]
    BY <1>9
  <1>12. Far' = Far
    BY <1>2, FarChangeAt
  <1> QED
    BY <1>6, <1>7, <1>8, <1>10, <1>11, <1>12 DEF Mail!Post, Mail!Forgets

LEMMA ProgramsSendOne ==
    ASSUME MailInv, NEW p \in Program, pc[p] = "send"
    PROVE  ~(Len(queue[p]) > 1)
  <1> DEFINE n == Len(queue[p])
  <1>1. n = 1
    BY DEF MailInv, IInv, ProgramInv
  <1> HIDE DEF n
  <1>2. ~(n > 1)
    BY <1>1
  <1> QED
    BY <1>2 DEF n

\* A message that is taken.
LEMMA TakenIsDeliver ==
    ASSUME MailInv, NEW p \in Process, NEW q, q = whom[p], pc[p] = "send", Takes(q),
           Deliver(q, p, Head(queue[p])),
           queue' = [queue EXCEPT ![p] = Tail(@)],
           AfterSend(p) \/ Goto(p, "panic"),
           UNCHANGED <<whom, mine>>
    PROVE  Mail!Deliver(p)
  <1> DEFINE m == Head(queue[p])
  <1>1. q \in Process /\ q # p /\ pc[q] = "wait" /\ recving[q]
    BY DEF MailInv, IInv, TypeOK, OpenInv, Takes
  <1>2. PICK place \in {"send", "recv", "user", "hung", "panic"} :
            /\ pc' = [pc EXCEPT ![p] = place]
            /\ place = "user" => p # Server
            /\ place = "hung" => Len(queue[p]) > 1
    BY AfterSendPlace DEF Goto
  <1>2a. place = "hung" => p = Server
    BY <1>2, ProgramsSendOne DEF Process
  <1>3. queue[p] # <<>>
    BY QueueParts DEF MailInv
  <1>4. /\ pcb' = [pcb EXCEPT ![q] = Mail!Letter(p, m)]
        /\ recving' = [recving EXCEPT ![q] = FALSE]
    BY DEF Deliver, Mail!Letter
  <1> HIDE DEF m
  <1>5. /\ pc \in [Process -> Place] /\ pcb \in [Process -> Fields]
        /\ recving \in [Process -> BOOLEAN]
    BY DEF MailInv, IInv, TypeOK
  <1>6. /\ pc'[p] = place /\ \A s \in Process : s # p => pc'[s] = pc[s]
        /\ pcb'[q] = Mail!Letter(p, m) /\ \A s \in Process : s # q => pcb'[s] = pcb[s]
    BY <1>1, <1>2, <1>4, <1>5
  <1>7. ~recving'[q] /\ \A s \in Process : s # q => recving'[s] = recving[s]
    BY <1>1, <1>4, <1>5, Zenon
  <1>8. Boxes[q] = {} /\ Boxes'[q] = {Mail!Letter(p, m)}
    <2>1. pc'[q] = "wait"
      BY <1>1, <1>6
    <2> QED
      BY <1>1, <1>6, <1>7, <2>1, MailAt, MailAtNext DEF Receiving
  <1>9. Boxes'[p] = Boxes[p] /\ Hands'[p] = Hands[p]
    <2>1. Boxes'[p] = {} /\ Boxes[p] = {} /\ Hands[p] = Nothing
      BY <1>6, MailAt, MailAtNext DEF Receiving, Holding
    <2>2. Hands'[p] = Nothing
      <3>1. CASE place = "user"
        <4>1. mine[p] = Nothing
          BY <1>2, <3>1 DEF MailInv, IdleInv
        <4> QED
          BY <1>6, <3>1, <4>1, MailAtNext DEF Holding
      <3>2. CASE place # "user"
        BY <1>2a, <1>6, <3>2, MailAtNext DEF Holding
      <3> QED
        BY <3>1, <3>2
    <2> QED
      BY <2>1, <2>2
  <1>10. Hands'[q] = Hands[q]
    <2>1. pc'[q] = "wait"
      BY <1>1, <1>6
    <2> QED
      BY <1>1, <2>1, MailAt, MailAtNext DEF Holding
  <1>11. \A s \in Process : s # q /\ s # p => Boxes'[s] = Boxes[s] /\ Hands'[s] = Hands[s]
    BY <1>6, <1>7, MailSame
  <1>12. Boxes' = [Boxes EXCEPT ![q] = {Mail!Letter(p, m)}]
    <2>1. \A s \in Process : s # q => Boxes'[s] = Boxes[s]
      BY <1>9, <1>11
    <2> QED
      BY <1>1, <1>8, <2>1, BoxesChangeAt
  <1>13. Hands' = Hands
    <2>1. \A s \in Process : Hands'[s] = Hands[s]
      BY <1>9, <1>10, <1>11
    <2> QED
      BY <2>1, HandsUnchanged
  <1>14. Far' = Far
    BY <1>6, FarChangeAt
  <1> QED
    BY <1>1, <1>3, <1>4, <1>8, <1>12, <1>13, <1>14 DEF Mail!Deliver, m

\* A failed send is seen by nobody else: the message stays with its sender.
LEMMA RefusedUnseen ==
    ASSUME MailInv, NEW p \in Process, pc[p] = "send", pc' = [pc EXCEPT ![p] = "panic"],
           UNCHANGED <<recving, pcb, queue, whom, mine>>
    PROVE  UNCHANGED Mail!vars
  <1>1. pc \in [Process -> Place]
    BY DEF MailInv, IInv, TypeOK
  <1>2. pc'[p] = "panic" /\ \A s \in Process : s # p => pc'[s] = pc[s]
    BY <1>1
  <1>3. \A s \in Process : s # p => Boxes'[s] = Boxes[s] /\ Hands'[s] = Hands[s]
    BY <1>2, MailSame
  <1>4. Boxes'[p] = Boxes[p] /\ Hands'[p] = Hands[p]
    <2>1. Boxes[p] = {} /\ Hands[p] = Nothing
      BY MailAt DEF Receiving, Holding
    <2>2. Boxes'[p] = {} /\ Hands'[p] = Nothing
      BY <1>2, MailAtNext DEF Receiving, Holding
    <2> QED
      BY <2>1, <2>2
  <1>5. Boxes' = Boxes
    BY <1>3, <1>4, BoxesUnchanged
  <1>6. Hands' = Hands
    BY <1>3, <1>4, HandsUnchanged
  <1>7. Far' = Far
    BY <1>2, FarChangeAt
  <1> QED
    BY <1>5, <1>6, <1>7 DEF Mail!vars

LEMMA SendIsDeliver ==
    ASSUME MailInv, NEW p \in Process, ipc_send(p)
    PROVE  Mail!Deliver(p) \/ UNCHANGED Mail!vars
  <1> DEFINE q == whom[p]
  <1>1. pc[p] = "send" /\ UNCHANGED <<inFsipc, whom, mine, sent>>
    BY DEF ipc_send
  <1>2. CASE ~Takes(q) /\ Refused(p) /\ UNCHANGED <<recving, pcb, queue>>
    BY <1>1, <1>2, RefusedUnseen DEF Refused, Goto
  <1>3. CASE /\ Takes(q) /\ Deliver(q, p, Head(queue[p]))
             /\ queue' = [queue EXCEPT ![p] = Tail(@)]
             /\ AfterSend(p) \/ (MayHavePage(p) /\ Goto(p, "panic"))
    <2>1. AfterSend(p) \/ Goto(p, "panic")
      BY <1>3, Zenon
    <2> QED
      BY <1>1, <1>3, <2>1, TakenIsDeliver
  <1> QED
    BY <1>2, <1>3, ZenonT(40) DEF ipc_send

LEMMA RecvIsOpen ==
    ASSUME MailInv, NEW p \in Process, ipcRecv(p), pc[p] = "recv"
    PROVE  Mail!Open(p)
  <1>1. /\ pc \in [Process -> Place] /\ recving \in [Process -> BOOLEAN]
    BY DEF MailInv, IInv, TypeOK
  <1>2. pc'[p] = "wait" /\ \A s \in Process : s # p => pc'[s] = pc[s]
    BY <1>1 DEF ipcRecv, Goto
  <1>3. /\ recving' = [recving EXCEPT ![p] = TRUE]
        /\ UNCHANGED <<pcb, queue, whom, mine>>
    BY DEF ipcRecv
  <1>4. recving'[p] /\ \A s \in Process : s # p => recving'[s] = recving[s]
    BY <1>1, <1>3, ZenonT(40)
  <1>5. \A s \in Process : s # p => Boxes'[s] = Boxes[s] /\ Hands'[s] = Hands[s]
    BY <1>2, <1>3, <1>4, MailSame
  <1>6. Boxes[p] = {} /\ Hands[p] = Nothing
    BY <1>1, MailAt DEF Receiving, Holding
  <1>7. Boxes'[p] = {} /\ Hands'[p] = Nothing
    BY <1>2, <1>4, MailAtNext DEF Receiving, Holding
  <1>8. Boxes' = Boxes
    <2>1. \A s \in Process : Boxes'[s] = Boxes[s]
      BY <1>5, <1>6, <1>7
    <2> QED
      BY <2>1, BoxesUnchanged
  <1>9. Hands' = Hands
    <2>1. \A s \in Process : Hands'[s] = Hands[s]
      BY <1>5, <1>6, <1>7
    <2> QED
      BY <2>1, HandsUnchanged
  <1>10. Mail!Idle(p)
    BY IdleProcess
  <1>11. Far' = Far
    BY <1>2, FarChangeAt
  <1> QED
    BY <1>3, <1>6, <1>8, <1>9, <1>10, <1>11 DEF Mail!Open

\* A receive that does not wait puts the last message back.
LEMMA FarRecvIsFindAgain ==
    ASSUME MailInv, NEW p \in Process, ipcRecv(p), pc[p] = "far"
    PROVE  Mail!FindAgain(p)
  <1>1. pc \in [Process -> Place]
    BY DEF MailInv, IInv, TypeOK
  <1>2. pc'[p] = "wait" /\ \A s \in Process : s # p => pc'[s] = pc[s]
    BY <1>1 DEF ipcRecv, Goto
  <1>3. UNCHANGED <<recving, pcb, queue, whom, mine>>
    BY DEF ipcRecv
  <1>4. ~recving[p]
    BY DEF MailInv, IInv, OpenInv
  <1>5. \A s \in Process : s # p => Boxes'[s] = Boxes[s] /\ Hands'[s] = Hands[s]
    BY <1>2, <1>3, MailSame
  <1>6. Hands[p] = Nothing /\ Hands'[p] = Nothing
    BY <1>2, MailAt, MailAtNext DEF Holding
  <1>7. Boxes'[p] = {pcb[p]}
    BY <1>2, <1>3, <1>4, MailAtNext DEF Receiving
  <1>8. Boxes' = [Boxes EXCEPT ![p] = {pcb[p]}]
    BY <1>5, <1>7, BoxesChangeAt
  <1>9. Hands' = Hands
    <2>1. \A s \in Process : Hands'[s] = Hands[s]
      BY <1>5, <1>6
    <2> QED
      BY <2>1, HandsUnchanged
  <1>10. p \in Far /\ Far' = Far \ {p}
    BY <1>2, FarChangeAt DEF Far
  <1> QED
    BY <1>3, <1>8, <1>9, <1>10 DEF Mail!FindAgain

\* Reading the sender or the permissions leaves the message in the box.
LEMMA ReadUnseen ==
    ASSUME MailInv, NEW p \in Process, pc[p] \in {"wait", "perm"}, ~recving[p],
           NEW place \in {"perm", "value"}, pc' = [pc EXCEPT ![p] = place],
           \A s \in Process : s # p => mine'[s] = mine[s],
           UNCHANGED <<recving, pcb, queue, whom>>
    PROVE  UNCHANGED Mail!vars
  <1>1. pc \in [Process -> Place]
    BY DEF MailInv, IInv, TypeOK
  <1>2. pc'[p] = place /\ \A s \in Process : s # p => pc'[s] = pc[s]
    BY <1>1
  <1>3. \A s \in Process : s # p => Boxes'[s] = Boxes[s] /\ Hands'[s] = Hands[s]
    BY <1>2, MailSame
  <1>4. Boxes'[p] = Boxes[p] /\ Hands'[p] = Hands[p]
    <2>1. Boxes[p] = {pcb[p]} /\ Hands[p] = Nothing
      BY MailAt DEF Receiving, Holding
    <2>2. Boxes'[p] = {pcb[p]} /\ Hands'[p] = Nothing
      BY <1>2, MailAtNext DEF Receiving, Holding
    <2> QED
      BY <2>1, <2>2
  <1>5. Boxes' = Boxes
    BY <1>3, <1>4, BoxesUnchanged
  <1>6. Hands' = Hands
    BY <1>3, <1>4, HandsUnchanged
  <1>7. Far' = Far
    BY <1>2, FarChangeAt
  <1> QED
    BY <1>5, <1>6, <1>7 DEF Mail!vars

\* Three fields that agree are the same fields.
LEMMA SameFields ==
    ASSUME NEW f \in Fields, NEW g \in Fields,
           f.from = g.from, f.perm = g.perm, f.value = g.value
    PROVE  f = g
  <1>1. /\ f = [from |-> f.from, perm |-> f.perm, value |-> f.value]
        /\ g = [from |-> g.from, perm |-> g.perm, value |-> g.value]
    BY DEF Fields
  <1> QED
    BY <1>1

\* Reading the value takes the message out of the box, in one piece.
LEMMA ReadValueIsTake ==
    ASSUME MailInv, NEW p \in Process, pc[p] = "value",
           mine' = [mine EXCEPT ![p].value = pcb[p].value], AfterRecv(p),
           UNCHANGED <<recving, pcb, whom, queue>>
    PROVE  Mail!Take(p)
  <1>1. /\ pc \in [Process -> Place] /\ mine \in [Process -> Fields]
        /\ pcb \in [Process -> Fields]
    BY DEF MailInv, IInv, TypeOK
  <1>2. PICK place \in Holding(p) : pc' = [pc EXCEPT ![p] = place]
    BY AfterRecvPlace DEF MailInv, Holding
  <1>3. pc'[p] = place /\ \A s \in Process : s # p => pc'[s] = pc[s]
    BY <1>1, <1>2
  <1>4. mine'[p] = [mine[p] EXCEPT !.value = pcb[p].value]
    BY <1>1
  <1>5. \A s \in Process : s # p => mine'[s] = mine[s]
    BY <1>1
  <1>6. mine'[p] = pcb[p] \/ (p = Server /\ mine'[p] = [pcb[p] EXCEPT !.from = p])
    <2>1. mine[p] \in Fields /\ pcb[p] \in Fields
      BY <1>1
    <2>2. /\ mine[p].perm = pcb[p].perm
          /\ mine[p].from = pcb[p].from \/ (p = Server /\ mine[p].from = p)
      BY DEF MailInv, IInv, WholeInv
    <2>3. /\ mine'[p] \in Fields /\ mine'[p].from = mine[p].from
          /\ mine'[p].perm = mine[p].perm /\ mine'[p].value = pcb[p].value
      BY <1>4, <2>1 DEF Fields
    <2>4. CASE mine[p].from = pcb[p].from
      BY <2>1, <2>2, <2>3, <2>4, SameFields
    <2>5. CASE p = Server /\ mine[p].from = p
      <3> DEFINE g == [pcb[p] EXCEPT !.from = p]
      <3>1. /\ g \in Fields /\ g.from = p /\ g.perm = pcb[p].perm
            /\ g.value = pcb[p].value
        BY <2>1 DEF Fields
      <3> HIDE DEF g
      <3>2. mine'[p] = g
        BY <2>2, <2>3, <2>5, <3>1, SameFields
      <3> QED
        BY <2>5, <3>2 DEF g
    <2> QED
      BY <2>2, <2>4, <2>5
  <1>7. ~recving[p]
    BY DEF MailInv, IInv, OpenInv
  <1>8. \A s \in Process : s # p => Boxes'[s] = Boxes[s] /\ Hands'[s] = Hands[s]
    BY <1>3, <1>5, MailSame
  <1>9. Boxes[p] = {pcb[p]}
    BY <1>7, MailAt DEF Receiving
  <1>10. Boxes'[p] = {}
    BY <1>3, MailAtNext DEF Receiving, Holding
  <1>11. Hands'[p] = mine'[p]
    BY <1>3, MailAtNext
  <1>12. Boxes' = [Boxes EXCEPT ![p] = {}]
    BY <1>8, <1>10, BoxesChangeAt
  <1>13. Hands' = [Hands EXCEPT ![p] = mine'[p]]
    BY <1>8, <1>11, HandsChangeAt
  <1>14. Far' = Far
    BY <1>3, FarChangeAt DEF Holding
  <1>15. \/ Hands' = [Hands EXCEPT ![p] = pcb[p]]
         \/ p \in {Server} /\ Hands' = [Hands EXCEPT ![p] = [pcb[p] EXCEPT !.from = p]]
    BY <1>6, <1>13
  <1> QED
    BY <1>9, <1>12, <1>14, <1>15 DEF Mail!Take

LEMMA RecvIsOpenOrTake ==
    ASSUME MailInv, NEW p \in Process, ipc_recv(p)
    PROVE  Mail!Open(p) \/ Mail!FindAgain(p) \/ Mail!Take(p) \/ UNCHANGED Mail!vars
  <1>1. mine \in [Process -> Fields]
    BY DEF MailInv, IInv, TypeOK
  <1>2. CASE ipcRecv(p)
    <2>1. pc[p] \in {"recv", "far"}
      BY <1>2 DEF ipcRecv
    <2> QED
      BY <1>2, <2>1, RecvIsOpen, FarRecvIsFindAgain
  <1>3. CASE /\ pc[p] = "wait" /\ Awake(p)
             /\ mine' = [mine EXCEPT ![p].from = pcb[p].from]
             /\ Goto(p, "perm")
             /\ UNCHANGED <<recving, pcb, inFsipc, whom, queue, sent>>
    <2>1. \A s \in Process : s # p => mine'[s] = mine[s]
      BY <1>1, <1>3
    <2> QED
      BY <1>3, <2>1, ReadUnseen DEF Goto, Awake
  <1>4. CASE /\ pc[p] = "perm"
             /\ \E from \in SendersKept(p) :
                    mine' = [mine EXCEPT ![p] = [@ EXCEPT !.perm = pcb[p].perm, !.from = from]]
             /\ Goto(p, "value")
             /\ UNCHANGED <<recving, pcb, inFsipc, whom, queue, sent>>
    <2>1. \A s \in Process : s # p => mine'[s] = mine[s]
      BY <1>1, <1>4
    <2>2. ~recving[p]
      BY <1>4 DEF MailInv, IInv, OpenInv
    <2> QED
      BY <1>4, <2>1, <2>2, ReadUnseen DEF Goto
  <1>5. CASE /\ pc[p] = "value"
             /\ mine' = [mine EXCEPT ![p].value = pcb[p].value]
             /\ AfterRecv(p)
             /\ UNCHANGED <<recving, pcb, whom, queue, sent>>
    BY <1>5, ReadValueIsTake
  <1> QED
    BY <1>2, <1>3, <1>4, <1>5, ZenonT(40) DEF ipc_recv

\* A program begins to send.
LEMMA StartSendIsPost ==
    ASSUME MailInv, NEW p \in Program, NEW q \in Process, NEW what \in Own,
           NEW perm \in BOOLEAN, StartSend(p, q, what, perm)
    PROVE  Mail!Post(p)
  <1> DEFINE m == Message(what, perm, p, sent[p] + 1)
             one == <<m>>
  <1>1. p \in Process /\ pc[p] = "user"
    BY DEF Process, StartSend
  <1>2. sent \in [Process -> Nat] /\ mine \in [Process -> Fields]
    BY DEF MailInv, IInv, TypeOK
  <1>3. m \in Messages
    BY <1>1, <1>2 DEF Message, Messages, Own
  <1>4. /\ pc' = [pc EXCEPT ![p] = "send"] /\ whom' = [whom EXCEPT ![p] = q]
        /\ queue' = [queue EXCEPT ![p] = one] /\ UNCHANGED <<recving, pcb>>
        /\ mine' = [mine EXCEPT ![p] = Nothing]
    BY DEF StartSend, Goto
  <1> HIDE DEF m
  <1>5. one \in Seq(Messages) /\ one # <<>>
    BY <1>3
  <1> HIDE DEF one
  <1>6. \A s \in Process : s # p => mine'[s] = mine[s]
    BY <1>2, <1>4
  <1> QED
    BY <1>1, <1>4, <1>5, <1>6, StartIsPost

LEMMA ProgramIsPostOrLeave ==
    ASSUME MailInv, NEW p \in Program, fsipc(p) \/ OwnSend(p) \/ OwnRecv(p) \/ Exit(p)
    PROVE  Mail!Post(p) \/ Mail!Leave(p)
  <1>1. p \in Process /\ Server \in Process
    BY DEF Process
  <1>2. mine \in [Process -> Fields]
    BY DEF MailInv, IInv, TypeOK
  <1>3. CASE fsipc(p)
    <2>1. PICK request \in Requests : StartSend(p, Server, request, TRUE)
      BY <1>3 DEF fsipc
    <2>2. request \in Own
      BY RequestAssumption DEF Own
    <2> QED
      BY <1>1, <2>1, <2>2, StartSendIsPost
  <1>4. CASE OwnSend(p)
    <2>1. PICK q \in Process \ {p}, what \in Requests \union {"word"}, perm \in BOOLEAN :
            StartSend(p, q, what, perm)
      BY <1>4 DEF OwnSend
    <2>2. what \in Own /\ q \in Process
      BY RequestAssumption DEF Own
    <2> QED
      BY <2>1, <2>2, StartSendIsPost
  <1>5. CASE OwnRecv(p)
    <2>1. \A s \in Process : s # p => mine'[s] = mine[s]
      BY <1>2, <1>5 DEF OwnRecv
    <2>2. PICK place \in {"recv", "far"} : pc' = [pc EXCEPT ![p] = place]
      BY <1>5 DEF OwnRecv, Goto
    <2>3. pc[p] = "user" /\ UNCHANGED <<recving, pcb, queue, whom>>
      BY <1>5 DEF OwnRecv
    <2> QED
      BY <1>1, <2>1, <2>2, <2>3, GoingIsLeave
  <1>6. CASE Exit(p)
    <2>1. /\ pc[p] = "user" /\ pc' = [pc EXCEPT ![p] = "dead"]
          /\ UNCHANGED <<recving, pcb, queue, whom, mine>>
      BY <1>6 DEF Exit, Goto
    <2> QED
      BY <1>1, <2>1, GoingIsLeave
  <1> QED
    BY <1>3, <1>4, <1>5, <1>6

LEMMA ServeIsPostOrLeave ==
    MailInv /\ serve => Mail!Post(Server) \/ Mail!Leave(Server)
  <1> SUFFICES ASSUME MailInv, serve PROVE Mail!Post(Server) \/ Mail!Leave(Server)
    OBVIOUS
  <1> DEFINE request == mine[Server].value
  <1>1. /\ pc[Server] = "serve" /\ Server \in Process
        /\ UNCHANGED <<recving, pcb, inFsipc, mine, sent>>
    BY DEF serve, Process
  <1>2. CASE request.what \in FSREQ /\ Answer(request)
    <2>1. PICK results \in {<<"ok">>, <<"error">>, <<"error", "ok">>} :
            /\ whom' = [whom EXCEPT ![Server] = mine[Server].from]
            /\ queue' = [queue EXCEPT ![Server] = Answers(request, results)]
            /\ pc' = [pc EXCEPT ![Server] = "send"]
      BY <1>2, ResultsOf DEF Answer, Goto
    <2>2. request \in Messages /\ mine[Server].from \in Process
      BY <1>1 DEF MailInv, IInv, TypeOK, Fields
    <2> DEFINE answers == Answers(request, results)
    <2>3. answers \in Seq(Messages) /\ Len(answers) \in {1, 2}
      BY <2>2, AnswersOf, Zenon
    <2>4. queue' = [queue EXCEPT ![Server] = answers]
      BY <2>1
    <2> HIDE DEF answers, request
    <2>5. answers # <<>>
      BY <2>3
    <2> QED
      BY <1>1, <2>1, <2>2, <2>3, <2>4, <2>5, StartIsPost
  <1>3. CASE (\E place \in {"panic", "hung", "recv"} : Goto(Server, place))
             /\ UNCHANGED <<whom, queue>>
    BY <1>1, <1>3, GoingIsLeave DEF Goto
  <1> QED
    BY <1>2, <1>3, ZenonT(40) DEF serve

-----------------------------------------------------------------------------
(* What an idle process has left to send, and to forget.                   *)

LEMMA InitHoldsIdleInv == Init => IdleInv
  BY DEF Init, IdleInv

\* A process p moves; what it has to send and has read is its own affair.
LEMMA IdleAt ==
    ASSUME IdleInv, NEW p \in Process,
           \A s \in Process : s # p =>
                pc'[s] = pc[s] /\ queue'[s] = queue[s] /\ mine'[s] = mine[s],
           pc'[p] \notin {"send", "panic", "hung"} => queue'[p] = <<>>,
           pc'[p] \in {"send", "far"} /\ p # Server => mine'[p] = Nothing
    PROVE  IdleInv'
  BY DEF IdleInv

LEMMA SendPreservesIdle == ASSUME MailInv, NEW p \in Process, ipc_send(p) PROVE IdleInv'
  <1>1. /\ pc \in [Process -> Place] /\ queue \in [Process -> Seq(Messages)]
        /\ pc[p] = "send" /\ UNCHANGED mine
    BY DEF MailInv, IInv, TypeOK, ipc_send
  <1>2. p # Server => mine[p] = Nothing
    BY <1>1 DEF MailInv, IdleInv
  <1>3. CASE Refused(p) /\ UNCHANGED queue
    <2>1. pc'[p] = "panic" /\ \A s \in Process : s # p => pc'[s] = pc[s]
      BY <1>1, <1>3 DEF Refused, Goto
    <2> QED
      BY <1>1, <1>3, <2>1, IdleAt DEF MailInv
  <1>4. CASE /\ queue' = [queue EXCEPT ![p] = Tail(@)]
             /\ AfterSend(p) \/ Goto(p, "panic")
    <2>1. PICK place \in {"send", "recv", "user", "hung", "panic"} :
            /\ pc' = [pc EXCEPT ![p] = place]
            /\ place \in {"recv", "user"} => ~(Len(queue[p]) > 1)
      BY <1>4, AfterSendPlace DEF Goto
    <2>2. pc'[p] = place /\ \A s \in Process : s # p => pc'[s] = pc[s]
      BY <1>1, <2>1
    <2>3. queue'[p] = Tail(queue[p]) /\ \A s \in Process : s # p => queue'[s] = queue[s]
      BY <1>1, <1>4
    <2>4. /\ Len(queue[p]) \in {1, 2} /\ Tail(queue[p]) \in Seq(Messages)
          /\ Len(Tail(queue[p])) = Len(queue[p]) - 1
      BY <1>1, QueueParts DEF MailInv
    <2>5. ~(Len(queue[p]) > 1) => Tail(queue[p]) = <<>>
      BY <2>4
    <2> QED
      BY <1>1, <1>2, <2>1, <2>2, <2>3, <2>5, IdleAt DEF MailInv
  <1>5. (Refused(p) /\ UNCHANGED queue)
        \/ (queue' = [queue EXCEPT ![p] = Tail(@)] /\ (AfterSend(p) \/ Goto(p, "panic")))
    BY ZenonT(40) DEF ipc_send
  <1> QED
    BY <1>3, <1>4, <1>5

LEMMA RecvPreservesIdle == ASSUME MailInv, NEW p \in Process, ipc_recv(p) PROVE IdleInv'
  <1>1. pc \in [Process -> Place] /\ mine \in [Process -> Fields]
    BY DEF MailInv, IInv, TypeOK
  <1>2. pc[p] \in {"recv", "far", "wait", "perm", "value"} /\ UNCHANGED queue
    BY DEF ipc_recv, ipcRecv
  <1>3. PICK place \in Receiving \union Holding(p) : pc' = [pc EXCEPT ![p] = place]
    <2>1. AfterRecv(p) => \E place \in Holding(p) : pc' = [pc EXCEPT ![p] = place]
      BY AfterRecvPlace DEF MailInv, Holding
    <2>2. (\E place \in Receiving : Goto(p, place)) \/ AfterRecv(p)
      BY ZenonT(40) DEF ipc_recv, ipcRecv, Receiving
    <2> QED
      BY <2>1, <2>2 DEF Goto
  <1>4. pc'[p] = place /\ \A s \in Process : s # p => pc'[s] = pc[s]
    BY <1>1, <1>3
  <1>5. \A s \in Process : s # p => mine'[s] = mine[s]
    BY <1>1 DEF ipc_recv, ipcRecv
  <1>6. queue[p] = <<>>
    BY <1>2 DEF MailInv, IdleInv
  <1>7. pc'[p] \notin {"send", "far"}
    BY <1>4 DEF Receiving, Holding
  <1> QED
    BY <1>2, <1>4, <1>5, <1>6, <1>7, IdleAt DEF MailInv

LEMMA ProgramPreservesIdle ==
    ASSUME MailInv, NEW p \in Program, fsipc(p) \/ OwnSend(p) \/ OwnRecv(p) \/ Exit(p)
    PROVE  IdleInv'
  <1>1. p \in Process
    BY DEF Process
  <1>2. /\ pc \in [Process -> Place] /\ mine \in [Process -> Fields]
        /\ queue \in [Process -> Seq(Messages)]
    BY DEF MailInv, IInv, TypeOK
  <1>3. ASSUME NEW q, NEW what, NEW perm, StartSend(p, q, what, perm)
        PROVE  IdleInv'
    <2>1. PICK one : queue' = [queue EXCEPT ![p] = one]
      BY <1>3 DEF StartSend
    <2>2. /\ pc' = [pc EXCEPT ![p] = "send"]
          /\ mine' = [mine EXCEPT ![p] = Nothing]
      BY <1>3 DEF StartSend, Goto
    <2>3. /\ pc'[p] = "send" /\ mine'[p] = Nothing
          /\ \A s \in Process : s # p =>
                pc'[s] = pc[s] /\ queue'[s] = queue[s] /\ mine'[s] = mine[s]
      BY <1>1, <1>2, <2>1, <2>2
    <2> QED
      BY <1>1, <2>3, IdleAt DEF MailInv
  <1>4. ASSUME pc[p] = "user", NEW place \in {"recv", "far", "dead"}, Goto(p, place),
               place = "far" => mine'[p] = Nothing,
               UNCHANGED queue, \A s \in Process : s # p => mine'[s] = mine[s]
        PROVE  IdleInv'
    <2>1. pc'[p] = place /\ \A s \in Process : s # p => pc'[s] = pc[s]
      BY <1>1, <1>2, <1>4 DEF Goto
    <2>2. queue[p] = <<>>
      BY <1>1, <1>4 DEF MailInv, IdleInv
    <2> QED
      BY <1>1, <1>4, <2>1, <2>2, IdleAt DEF MailInv
  <1>5. CASE fsipc(p)
    BY <1>3, <1>5 DEF fsipc
  <1>6. CASE OwnSend(p)
    BY <1>3, <1>6 DEF OwnSend
  <1>7. CASE OwnRecv(p)
    <2>1. mine'[p] = Nothing /\ \A s \in Process : s # p => mine'[s] = mine[s]
      BY <1>1, <1>2, <1>7 DEF OwnRecv
    <2> QED
      BY <1>4, <1>7, <2>1 DEF OwnRecv
  <1>8. CASE Exit(p)
    BY <1>4, <1>8 DEF Exit
  <1> QED
    BY <1>5, <1>6, <1>7, <1>8

LEMMA ServePreservesIdle == MailInv /\ serve => IdleInv'
  <1> SUFFICES ASSUME MailInv, serve PROVE IdleInv'
    OBVIOUS
  <1>1. /\ pc[Server] = "serve" /\ Server \in Process /\ UNCHANGED mine
        /\ pc \in [Process -> Place] /\ queue \in [Process -> Seq(Messages)]
    BY DEF serve, Process, MailInv, IInv, TypeOK
  <1>2. queue[Server] = <<>>
    BY <1>1 DEF MailInv, IdleInv
  <1>3. CASE Answer(mine[Server].value)
    <2>1. PICK answers : /\ queue' = [queue EXCEPT ![Server] = answers]
                         /\ pc' = [pc EXCEPT ![Server] = "send"]
      BY <1>3 DEF Answer, Goto
    <2>2. /\ pc'[Server] = "send"
          /\ \A s \in Process : s # Server => pc'[s] = pc[s] /\ queue'[s] = queue[s]
      BY <1>1, <2>1
    <2> QED
      BY <1>1, <2>2, IdleAt DEF MailInv
  <1>4. CASE (\E place \in {"panic", "hung", "recv"} : Goto(Server, place)) /\ UNCHANGED queue
    <2>1. PICK place \in {"panic", "hung", "recv"} : Goto(Server, place)
      BY <1>4
    <2>2. pc'[Server] = place /\ \A s \in Process : s # Server => pc'[s] = pc[s]
      BY <1>1, <2>1 DEF Goto
    <2> QED
      BY <1>1, <1>2, <1>4, <2>2, IdleAt DEF MailInv
  <1> QED
    BY <1>3, <1>4, ZenonT(40) DEF serve

LEMMA NextPreservesMailInv == MailInv /\ [Next]_vars => MailInv'
  <1> SUFFICES ASSUME MailInv, [Next]_vars PROVE IdleInv'
    BY NextPreservesIInv DEF MailInv
  <1>1. CASE \E p \in Process : ipc_send(p) \/ ipc_recv(p)
    BY <1>1, SendPreservesIdle, RecvPreservesIdle
  <1>2. CASE serve
    BY <1>2, ServePreservesIdle
  <1>3. CASE \E p \in Program : fsipc(p) \/ OwnSend(p) \/ OwnRecv(p) \/ Exit(p)
    BY <1>3, ProgramPreservesIdle
  <1>4. CASE UNCHANGED vars
    BY <1>4 DEF MailInv, IdleInv, vars
  <1> QED
    BY <1>1, <1>2, <1>3, <1>4 DEF Next

-----------------------------------------------------------------------------

LEMMA InitIsMailInit == Init => Mail!Init
  <1> SUFFICES ASSUME Init PROVE Mail!Init
    OBVIOUS
  <1>1. Server \in Process
    BY DEF Process
  <1>2. whom \in [Process -> Process]
    BY <1>1 DEF Init
  <1>3. \A s \in Process : pc[s] \in {"recv", "user"} /\ mine[s] = Nothing
    BY DEF Init
  <1>4. \A s \in Process : Boxes[s] = {}
    BY <1>3, MailAt DEF Receiving
  <1>5. \A s \in Process : Hands[s] = Nothing
    BY <1>3, MailAt
  <1>6. Boxes = [s \in Process |-> {}]
    <2>1. Boxes = [s \in Process |-> Boxes[s]]
      BY DEF Boxes
    <2> HIDE DEF Boxes
    <2> QED
      BY <1>4, <2>1
  <1>7. Hands = [s \in Process |-> Nothing]
    <2>1. Hands = [s \in Process |-> Hands[s]]
      BY DEF Hands
    <2> QED
      BY <1>5, <2>1
  <1>8. Far = {}
    BY <1>3 DEF Far
  <1>9. pcb = [s \in Process |-> Nothing]
    BY DEF Init
  <1> QED
    BY <1>2, <1>6, <1>7, <1>8, <1>9 DEF Init, Mail!Init

LEMMA StutterUnseen == UNCHANGED vars => UNCHANGED Mail!vars
  <1> SUFFICES ASSUME UNCHANGED vars PROVE UNCHANGED Mail!vars
    OBVIOUS
  <1>1. UNCHANGED <<recving, pcb, pc, queue, whom, mine>>
    BY DEF vars
  <1>2. \A s \in Process : Boxes'[s] = Boxes[s] /\ Hands'[s] = Hands[s]
    BY <1>1, MailSame
  <1>3. Boxes' = Boxes /\ Hands' = Hands /\ Far' = Far
    BY <1>1, <1>2, BoxesUnchanged, HandsUnchanged DEF Far
  <1> QED
    BY <1>1, <1>3 DEF Mail!vars

LEMMA NextIsMailNext == MailInv /\ [Next]_vars => [Mail!Next]_(Mail!vars)
  <1> SUFFICES ASSUME MailInv, [Next]_vars PROVE Mail!Next \/ UNCHANGED Mail!vars
    OBVIOUS
  <1>1. CASE \E p \in Process : ipc_send(p) \/ ipc_recv(p)
    BY <1>1, SendIsDeliver, RecvIsOpenOrTake DEF Mail!Next
  <1>2. CASE serve
    BY <1>2, ServeIsPostOrLeave DEF Mail!Next, Process
  <1>3. CASE \E p \in Program : fsipc(p) \/ OwnSend(p) \/ OwnRecv(p) \/ Exit(p)
    BY <1>3, ProgramIsPostOrLeave DEF Mail!Next, Process
  <1>4. CASE UNCHANGED vars
    BY <1>4, StutterUnseen
  <1> QED
    BY <1>1, <1>2, <1>3, <1>4 DEF Next

\* The system calls and the reads of ipc_send and ipc_recv provide mailboxes, for
\* any number of programs, requests and sends: each message is delivered once,
\* in order, to a process that waits for it and is done with the last one, and
\* it is taken as it was sent.
THEOREM IpcImplementsMailbox == Spec => ImplementsMailbox
  <1>1. Init => MailInv
    BY InitHoldsIInv, InitHoldsIdleInv DEF MailInv
  <1>2. Spec => []MailInv
    BY <1>1, NextPreservesMailInv, PTL DEF Spec
  <1> QED
    BY <1>2, InitIsMailInit, NextIsMailNext, PTL DEF Spec, ImplementsMailbox, Mail!Spec

=============================================================================
