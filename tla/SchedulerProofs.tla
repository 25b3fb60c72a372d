--------------------------- MODULE SchedulerProofs ---------------------------
(***************************************************************************)
(* Scheduler's invariants for every size of the process table: IInv is     *)
(* inductive, the properties follow from it.                               *)
(***************************************************************************)
EXTENDS Scheduler, SequenceTheorems, TLAPS

-----------------------------------------------------------------------------
(* Arithmetic of the identifiers.                                          *)

\* What generate_pid shifts and ors together comes apart again.
LEMMA OffsetOfPid ==
    ASSUME NEW N \in Nat \ {0}, NEW k \in Nat, NEW s \in 0 .. N - 1
    PROVE  /\ k * (2 * N) + s \in Nat
           /\ (k * (2 * N) + s) % N = s
<1>1. /\ 2 * k \in Nat
      /\ k * (2 * N) = (2 * k) * N
  BY SMT
<1>2. \A m \in Nat : m * N + s \in Nat /\ (m * N + s) % N = s
  BY SMT
<1> QED
  BY <1>1, <1>2

\* The masked identifier is an index of the table.
LEMMA OffsetInTable ==
    ASSUME NEW pid \in Nat PROVE PROCESS_OFFSET(pid) \in Slot
  BY TableAssumption, SMT DEF PROCESS_OFFSET, Slot

\* A new identifier is not 0 and names its own entry.
LEMMA GeneratedPid ==
    ASSUME nextId \in Nat, NEW p \in Slot
    PROVE  /\ generate_pid(p) \in Nat \ {0}
           /\ PROCESS_OFFSET(generate_pid(p)) = p
<1>1. nextId + 1 \in Nat /\ nextId + 1 > 0
  BY SMT
<1>2. /\ generate_pid(p) \in Nat
      /\ PROCESS_OFFSET(generate_pid(p)) = p
  BY <1>1, TableAssumption, OffsetOfPid DEF generate_pid, PROCESS_OFFSET, Slot
<1>3. generate_pid(p) # 0
  BY <1>1, TableAssumption, SMT DEF generate_pid, Slot
<1> QED
  BY <1>2, <1>3

-----------------------------------------------------------------------------
(* Lists without repetition.                                               *)

\* What a list is made of.
LEMMA ElementsOfList ==
    ASSUME NEW S, NEW q \in Seq(S)
    PROVE  \A x \in Range(q) : x \in S
<1>1. \A i \in DOMAIN q : q[i] \in S
  BY SMT
<1>2. ASSUME NEW x \in Range(q) PROVE x \in S
  BY <1>1 DEF Range
<1> QED
  BY <1>2

\* LIST_INSERT_TAIL of an element that is not linked yet.
LEMMA AppendFresh ==
    ASSUME NEW S, NEW q \in Seq(S), IsInjective(q), NEW x \in S, x \notin Range(q)
    PROVE  /\ Append(q, x) \in Seq(S)
           /\ IsInjective(Append(q, x))
           /\ Range(Append(q, x)) = Range(q) \union {x}
<1>1. /\ Append(q, x) \in Seq(S)
      /\ Len(Append(q, x)) = Len(q) + 1
      /\ DOMAIN Append(q, x) = 1 .. Len(q) + 1
      /\ DOMAIN q = 1 .. Len(q)
      /\ Len(q) \in Nat
      /\ \A i \in 1 .. Len(q) : Append(q, x)[i] = q[i]
      /\ Append(q, x)[Len(q) + 1] = x
  BY SMT
<1>2. IsInjective(Append(q, x))
  BY <1>1, SMT DEF IsInjective, Range
<1>3. Range(Append(q, x)) = Range(q) \union {x}
  BY <1>1, SMT DEF Range
<1> QED
  BY <1>1, <1>2, <1>3

\* LIST_REMOVE of the first element.
LEMMA TailOfInjective ==
    ASSUME NEW S, NEW q \in Seq(S), IsInjective(q), q # <<>>
    PROVE  /\ Tail(q) \in Seq(S)
           /\ Head(q) \in S
           /\ Head(q) \in Range(q)
           /\ IsInjective(Tail(q))
           /\ Range(Tail(q)) = Range(q) \ {Head(q)}
<1>1. /\ Tail(q) \in Seq(S)
      /\ Head(q) = q[1]
      /\ Len(q) \in Nat \ {0}
      /\ DOMAIN q = 1 .. Len(q)
      /\ DOMAIN Tail(q) = 1 .. Len(q) - 1
      /\ \A i \in 1 .. Len(q) - 1 : Tail(q)[i] = q[i + 1]
      /\ \A i \in 1 .. Len(q) : q[i] \in S
  BY SMT
<1>2. IsInjective(Tail(q))
  BY <1>1, SMT DEF IsInjective
<1>3. Range(Tail(q)) \subseteq Range(q) \ {Head(q)}
  BY <1>1, SMT DEF IsInjective, Range
<1>4. ASSUME NEW x \in Range(q) \ {Head(q)} PROVE x \in Range(Tail(q))
  <2>1. PICK i \in 1 .. Len(q) : x = q[i]
    BY <1>1 DEF Range
  <2>2. i - 1 \in 1 .. Len(q) - 1 /\ x = Tail(q)[i - 1]
    BY <1>1, <2>1, SMT
  <2> QED
    BY <1>1, <2>2 DEF Range
<1>5. Head(q) \in Range(q)
  BY <1>1, SMT DEF Range
<1> QED
  BY <1>1, <1>2, <1>3, <1>4, <1>5

\* Where each element of a queue is once the i-th one has been taken.
LEMMA RotatedIndexes ==
    ASSUME NEW S, NEW q \in Seq(S), NEW i \in 1 .. Len(q)
    PROVE  /\ Rotated(q, i) \in Seq(S)
           /\ Len(Rotated(q, i)) = Len(q) - 1
           /\ \A k \in 1 .. Len(q) - i : Rotated(q, i)[k] = q[k + i]
           /\ \A k \in Len(q) - i + 1 .. Len(q) - 1 :
                 Rotated(q, i)[k] = q[k - (Len(q) - i)]
<1> DEFINE a == SubSeq(q, i + 1, Len(q))
           b == SubSeq(q, 1, i - 1)
<1>1. Len(q) \in Nat /\ i \in Nat /\ i >= 1 /\ i <= Len(q)
  BY SMT
<1>2. /\ a \in Seq(S) /\ Len(a) = Len(q) - i
      /\ \A k \in 1 .. Len(q) - i : a[k] = q[k + i]
  BY <1>1, SMT
<1>3. /\ b \in Seq(S) /\ Len(b) = i - 1
      /\ \A k \in 1 .. i - 1 : b[k] = q[k]
  BY <1>1, SMT
<1>4. Rotated(q, i) = a \o b
  BY DEF Rotated
<1> HIDE DEF a, b
<1>5. /\ a \o b \in Seq(S) /\ Len(a \o b) = Len(q) - 1
      /\ \A k \in 1 .. Len(q) - i : (a \o b)[k] = a[k]
      /\ \A k \in Len(q) - i + 1 .. Len(q) - 1 : (a \o b)[k] = b[k - (Len(q) - i)]
  <2>1. a \o b \in Seq(S) /\ Len(a \o b) = Len(q) - 1
    BY <1>1, <1>2, <1>3, SMTT(30)
  <2>2. \A k \in 1 .. Len(q) - i : (a \o b)[k] = a[k]
    BY <1>1, <1>2, <1>3, SMTT(30)
  <2>3. \A k \in Len(q) - i + 1 .. Len(q) - 1 : (a \o b)[k] = b[k - (Len(q) - i)]
    BY <1>1, <1>2, <1>3, SMTT(30)
  <2> QED
    BY <2>1, <2>2, <2>3
<1>6. \A k \in Len(q) - i + 1 .. Len(q) - 1 : k - (Len(q) - i) \in 1 .. i - 1
  BY <1>1, SMT
<1> QED
  BY <1>2, <1>3, <1>4, <1>5, <1>6

\* Taking the i-th element of a queue loses and repeats nobody.
LEMMA RotatedExact ==
    ASSUME NEW S, NEW q \in Seq(S), IsInjective(q), NEW i \in 1 .. Len(q)
    PROVE  /\ Rotated(q, i) \in Seq(S)
           /\ IsInjective(Rotated(q, i))
           /\ Range(Rotated(q, i)) = Range(q) \ {q[i]}
<1> DEFINE r == Rotated(q, i)
           m == Len(q) - i
<1>1. /\ r \in Seq(S) /\ Len(r) = Len(q) - 1
      /\ \A k \in 1 .. m : r[k] = q[k + i]
      /\ \A k \in m + 1 .. Len(q) - 1 : r[k] = q[k - m]
  BY RotatedIndexes
<1>2. /\ Len(q) \in Nat /\ i \in Nat /\ i >= 1 /\ i <= Len(q) /\ m \in Nat
      /\ DOMAIN q = 1 .. Len(q) /\ DOMAIN r = 1 .. Len(q) - 1
  BY <1>1, SMT
<1>3. \A j, k \in 1 .. Len(q) : q[j] = q[k] => j = k
  BY <1>2 DEF IsInjective
<1> HIDE DEF r
\* The index in q of the k-th element of r.
<1> DEFINE at(k) == IF k <= m THEN k + i ELSE k - m
<1>4. \A k \in 1 .. Len(q) - 1 : /\ at(k) \in 1 .. Len(q)
                                /\ at(k) # i
                                /\ r[k] = q[at(k)]
  BY <1>1, <1>2, SMT
<1>5. \A j, k \in 1 .. Len(q) - 1 : at(j) = at(k) => j = k
  BY <1>2, SMT
<1>6. ASSUME NEW j \in 1 .. Len(q), j # i
      PROVE  \E k \in 1 .. Len(q) - 1 : r[k] = q[j]
  <2>1. CASE j < i
    <3>1. j + m \in m + 1 .. Len(q) - 1 /\ (j + m) - m = j
      BY <1>2, <2>1, SMT
    <3>2. r[j + m] = q[j]
      BY <1>1, <3>1
    <3>3. j + m \in 1 .. Len(q) - 1
      BY <1>2, <2>1, SMT
    <3> QED
      BY <3>2, <3>3
  <2>2. CASE j > i
    <3>1. j - i \in 1 .. m /\ (j - i) + i = j
      BY <1>2, <2>2, SMT
    <3>2. r[j - i] = q[j]
      BY <1>1, <3>1
    <3>3. j - i \in 1 .. Len(q) - 1
      BY <1>2, <2>2, SMT
    <3> QED
      BY <3>2, <3>3
  <2> QED
    BY <1>2, <1>6, <2>1, <2>2, SMT
<1> HIDE DEF at
<1>7. IsInjective(r)
  <2>1. SUFFICES ASSUME NEW j \in 1 .. Len(q) - 1, NEW k \in 1 .. Len(q) - 1,
                        r[j] = r[k]
                 PROVE  j = k
    BY <1>2 DEF IsInjective
  <2> QED
    BY <1>3, <1>4, <1>5, <2>1
<1>8. Range(r) \subseteq Range(q) \ {q[i]}
  <2>1. SUFFICES ASSUME NEW k \in 1 .. Len(q) - 1
                 PROVE  r[k] \in Range(q) /\ r[k] # q[i]
    BY <1>2 DEF Range
  <2>2. at(k) \in DOMAIN q
    BY <1>2, <1>4
  <2> QED
    BY <1>2, <1>3, <1>4, <2>2 DEF Range
<1>9. Range(q) \ {q[i]} \subseteq Range(r)
  BY <1>2, <1>6 DEF Range
<1> QED
  BY <1>1, <1>7, <1>8, <1>9 DEF r

\* Behind the element that is taken, a queue keeps its order.
LEMMA RotatedOrder ==
    ASSUME NEW S, NEW q \in Seq(S), NEW i \in 1 .. Len(q),
           NEW j \in 1 .. Len(q), NEW k \in 1 .. Len(q), i < j, j < k
    PROVE  /\ j - i \in 1 .. Len(Rotated(q, i))
           /\ k - i \in 1 .. Len(Rotated(q, i))
           /\ j - i < k - i
           /\ Rotated(q, i)[j - i] = q[j]
           /\ Rotated(q, i)[k - i] = q[k]
<1>1. Len(q) \in Nat
  BY SMT
<1>2. /\ Len(Rotated(q, i)) = Len(q) - 1
      /\ \A n \in 1 .. Len(q) - i : Rotated(q, i)[n] = q[n + i]
  BY RotatedIndexes
<1> QED
  BY <1>1, <1>2, SMT

-----------------------------------------------------------------------------
(* Steps of the actions.                                                   *)

\* The processes process_yield chooses from.
Candidates(leaving) == Range(scheduleList) \union ({leaving} \ {NULL})

\* The queue process_yield works on: the run queue and the process that leaves.
LEMMA QueueExact ==
    ASSUME NEW leaving \in Slot \union {NULL}, scheduleList \in Seq(Slot),
           IsInjective(scheduleList), leaving \notin Range(scheduleList)
    PROVE  /\ Queue(leaving) \in Seq(Slot)
           /\ IsInjective(Queue(leaving))
           /\ Range(Queue(leaving)) = Candidates(leaving)
<1>1. CASE leaving = NULL
  BY <1>1 DEF Queue, Candidates
<1>2. CASE leaving # NULL
  <2>1. leaving \in Slot
    BY <1>2
  <2> QED
    BY <1>2, <2>1, AppendFresh DEF Queue, Candidates
<1> QED
  BY <1>1, <1>2

\* process_yield gives the hart to a candidate that can run and keeps every
\* other one in the run queue, or it spins and none can run.
LEMMA YieldExact ==
    ASSUME NEW leaving \in Slot \union {NULL}, scheduleList \in Seq(Slot),
           IsInjective(scheduleList), leaving \notin Range(scheduleList),
           process_yield(leaving)
    PROVE  /\ scheduleList' \in Seq(Slot)
           /\ IsInjective(scheduleList')
           /\ Range(scheduleList') = Candidates(leaving) \ {curProcess'}
           /\ \/ /\ kernel' = "user"
                 /\ curProcess' \in Slot
                 /\ curProcess' \in Candidates(leaving)
                 /\ state'[curProcess'] = "RUNNABLE"
              \/ /\ kernel' = "spin"
                 /\ curProcess' = leaving
                 /\ \A s \in Candidates(leaving) : state'[s] # "RUNNABLE"
<1> DEFINE q == Queue(leaving)
<1>1. q \in Seq(Slot) /\ IsInjective(q) /\ Range(q) = Candidates(leaving)
  BY QueueExact
<1>2. DOMAIN q = 1 .. Len(q) /\ \A i \in 1 .. Len(q) : q[i] \in Slot
  BY <1>1, SMT
<1>3. \/ \E i \in 1 .. Len(q) :
           /\ IsFirstRunnable(q, i)
           /\ scheduleList' = Rotated(q, i)
           /\ curProcess' = q[i]
           /\ kernel' = "user"
      \/ /\ \A i \in 1 .. Len(q) : state'[q[i]] # "RUNNABLE"
         /\ kernel' = "spin"
         /\ curProcess' = leaving
         /\ scheduleList' = scheduleList
  BY DEF process_yield
<1> HIDE DEF q
<1>4. ASSUME NEW i \in 1 .. Len(q), IsFirstRunnable(q, i),
             scheduleList' = Rotated(q, i), curProcess' = q[i], kernel' = "user"
      PROVE  /\ scheduleList' \in Seq(Slot)
             /\ IsInjective(scheduleList')
             /\ Range(scheduleList') = Candidates(leaving) \ {curProcess'}
             /\ curProcess' \in Slot
             /\ curProcess' \in Candidates(leaving)
             /\ state'[curProcess'] = "RUNNABLE"
  <2>1. /\ Rotated(q, i) \in Seq(Slot)
        /\ IsInjective(Rotated(q, i))
        /\ Range(Rotated(q, i)) = Range(q) \ {q[i]}
    BY <1>1, RotatedExact
  <2>2. q[i] \in Range(q) /\ q[i] \in Slot
    BY <1>2 DEF Range
  <2>3. state'[q[i]] = "RUNNABLE"
    BY <1>4 DEF IsFirstRunnable
  <2> QED
    BY <1>1, <1>4, <2>1, <2>2, <2>3
<1>5. ASSUME \A i \in 1 .. Len(q) : state'[q[i]] # "RUNNABLE",
             curProcess' = leaving, scheduleList' = scheduleList
      PROVE  /\ Range(scheduleList') = Candidates(leaving) \ {curProcess'}
             /\ \A s \in Candidates(leaving) : state'[s] # "RUNNABLE"
  <2>1. NULL \notin Range(scheduleList)
    BY NullAssumption, SMT DEF Range
  <2>2. Range(scheduleList') = Candidates(leaving) \ {curProcess'}
    BY <1>5, <2>1 DEF Candidates
  <2>3. \A s \in Range(q) : state'[s] # "RUNNABLE"
    BY <1>2, <1>5 DEF Range
  <2> QED
    BY <1>1, <2>2, <2>3
<1> QED
  BY <1>3, <1>4, <1>5

\* process_management_init leaves a table in which the invariant holds.
LEMMA InitEstablishesIInv == Init => IInv
<1> SUFFICES ASSUME Init PROVE IInv
  OBVIOUS
<1>1. freeProcesses \in Seq(Slot) /\ DOMAIN freeProcesses = 1 .. PROCESS_TOTAL_NUMBER
  BY TableAssumption, SMT DEF Init, InitialFreeList, Slot
<1>2. TypeOK
  BY <1>1, SMT DEF Init, TypeOK, ProcessState, KernelMode
<1>3. RunQueueExact
  BY SMT DEF Init, RunQueueExact, Live, IsInjective, Range
<1>4. FreeListExact
  <2>1. IsInjective(freeProcesses)
    BY <1>1, TableAssumption, SMT DEF Init, InitialFreeList, IsInjective
  <2>2. ASSUME NEW s \in Slot PROVE s \in Range(freeProcesses)
    <3>1. s + 1 \in DOMAIN freeProcesses /\ freeProcesses[s + 1] = s
      BY <1>1, TableAssumption, SMT DEF Init, InitialFreeList, Slot
    <3> QED
      BY <3>1 DEF Range
  <2>3. Range(freeProcesses) \subseteq Slot
    BY <1>1, ElementsOfList
  <2> QED
    BY <2>1, <2>2, <2>3 DEF Init, FreeListExact, Live
<1>5. BlockedIffReceiving /\ CurrentIsRunnable /\ SpinsOnlyWhenStuck
  BY DEF Init, BlockedIffReceiving, CurrentIsRunnable, SpinsOnlyWhenStuck
<1>6. IdsWellFormed /\ BootHasNoProcess
  BY DEF Init, IdsWellFormed, BootHasNoProcess
<1> QED
  BY <1>2, <1>3, <1>4, <1>5, <1>6 DEF IInv

\* The end of every action that yields: what is left to show is that the
\* candidates are the processes alive after the step.
LEMMA YieldPreservesIInv ==
    ASSUME IInv, NEW leaving \in Slot \union {NULL},
           leaving \notin Range(scheduleList), process_yield(leaving),
           state' \in [Slot -> ProcessState], recving' \in [Slot -> BOOLEAN],
           UNCHANGED <<id, freeProcesses, nextId>>,
           Live' = Candidates(leaving), Live' \subseteq Live,
           BlockedIffReceiving'
    PROVE  IInv'
<1>1. /\ scheduleList' \in Seq(Slot)
      /\ IsInjective(scheduleList')
      /\ Range(scheduleList') = Candidates(leaving) \ {curProcess'}
      /\ \/ /\ kernel' = "user"
            /\ curProcess' \in Slot
            /\ state'[curProcess'] = "RUNNABLE"
         \/ /\ kernel' = "spin"
            /\ curProcess' = leaving
            /\ \A s \in Candidates(leaving) : state'[s] # "RUNNABLE"
  BY YieldExact DEF IInv, TypeOK, RunQueueExact
<1>2. TypeOK'
  BY <1>1 DEF IInv, TypeOK, KernelMode
<1>3. RunQueueExact'
  BY <1>1 DEF RunQueueExact
<1>4. FreeListExact'
  BY DEF IInv, FreeListExact
<1>5. CurrentIsRunnable'
  BY <1>1 DEF CurrentIsRunnable
<1>6. SpinsOnlyWhenStuck'
  BY <1>1 DEF SpinsOnlyWhenStuck, Live
<1>7. IdsWellFormed' /\ BootHasNoProcess'
  BY <1>1 DEF IInv, IdsWellFormed, BootHasNoProcess
<1> QED
  BY <1>2, <1>3, <1>4, <1>5, <1>6, <1>7 DEF IInv

\* Loading a program and forking: the entry taken is new to every list.
LEMMA AllocPreservesIInv ==
    ASSUME IInv, kernel \in {"boot", "user"}, NEW p \in Slot,
           process_alloc(p), scheduleList' = Append(scheduleList, p),
           UNCHANGED <<recving, curProcess, kernel>>
    PROVE  IInv'
<1> USE DEF IInv
<1>1. /\ freeProcesses' \in Seq(Slot)
      /\ IsInjective(freeProcesses')
      /\ Range(freeProcesses') = Range(freeProcesses) \ {p}
      /\ p \in Range(freeProcesses)
  BY TailOfInjective DEF TypeOK, FreeListExact, process_alloc
<1>2. id[p] = 0 /\ p \notin Live
  BY <1>1 DEF FreeListExact
<1>3. p # curProcess
  BY <1>2, NullAssumption DEF CurrentIsRunnable, BootHasNoProcess, Live
<1>4. /\ scheduleList' \in Seq(Slot)
      /\ IsInjective(scheduleList')
      /\ Range(scheduleList') = Range(scheduleList) \union {p}
  BY <1>2, AppendFresh DEF TypeOK, RunQueueExact
<1>5. /\ generate_pid(p) \in Nat \ {0}
      /\ PROCESS_OFFSET(generate_pid(p)) = p
  BY GeneratedPid DEF TypeOK
<1>6. /\ state' = [state EXCEPT ![p] = "RUNNABLE"]
      /\ id' = [id EXCEPT ![p] = generate_pid(p)]
      /\ nextId' = nextId + 1
  BY DEF process_alloc
<1>7. Live' = Live \union {p}
  BY <1>6 DEF TypeOK, Live
<1>8. TypeOK'
  BY <1>1, <1>4, <1>5, <1>6, SMT DEF TypeOK, ProcessState
<1>9. RunQueueExact'
  BY <1>3, <1>4, <1>7 DEF RunQueueExact
<1>10. FreeListExact'
  BY <1>1, <1>5, <1>6, <1>7 DEF TypeOK, FreeListExact
<1>11. BlockedIffReceiving' /\ CurrentIsRunnable' /\ SpinsOnlyWhenStuck'
  BY <1>2, <1>6 DEF TypeOK, Live, BlockedIffReceiving, CurrentIsRunnable,
                    SpinsOnlyWhenStuck
<1>12. IdsWellFormed' /\ BootHasNoProcess'
  BY <1>5, <1>6 DEF TypeOK, IdsWellFormed, BootHasNoProcess
<1> QED
  BY <1>8, <1>9, <1>10, <1>11, <1>12

\* No operation of the kernel breaks the invariant: one step per action.
LEMMA NextPreservesIInv == IInv /\ [Next]_schedVars => IInv'
<1> SUFFICES ASSUME IInv, [Next]_schedVars PROVE IInv'
  OBVIOUS
<1>0. ASSUME kernel = "user"
      PROVE  /\ curProcess \in Slot /\ curProcess # NULL
             /\ state[curProcess] = "RUNNABLE"
             /\ curProcess \in Live
             /\ curProcess \notin Range(scheduleList)
             /\ Range(scheduleList) = Live \ {curProcess}
             /\ Candidates(curProcess) = Live
             /\ Candidates(NULL) = Live \ {curProcess}
             /\ NULL \notin Range(scheduleList)
  BY <1>0, NullAssumption DEF IInv, CurrentIsRunnable, RunQueueExact, Live,
                              Candidates
<1>1. CASE ProcessCreatePriority
  BY <1>1, AllocPreservesIInv DEF ProcessCreatePriority
<1>2. CASE FirstYield
  <2>1. NULL \notin Range(scheduleList) /\ Candidates(NULL) = Live
    BY <1>2, NullAssumption DEF FirstYield, IInv, BootHasNoProcess,
                                RunQueueExact, Live, Candidates
  <2>2. Live' = Live /\ BlockedIffReceiving'
    BY <1>2 DEF FirstYield, Live, IInv, BlockedIffReceiving
  <2> QED
    BY <1>2, <2>1, <2>2, YieldPreservesIInv DEF FirstYield, IInv, TypeOK
<1>3. CASE Reschedule
  <2>1. Live' = Live /\ BlockedIffReceiving'
    BY <1>3 DEF Reschedule, Live, IInv, BlockedIffReceiving
  <2> QED
    BY <1>0, <1>3, <2>1, YieldPreservesIInv DEF Reschedule, InUser, IInv, TypeOK
<1>4. CASE Fork
  BY <1>4, AllocPreservesIInv DEF Fork, InUser
<1>5. CASE Exit
  <2>1. state' = [state EXCEPT ![curProcess] = "FREE"] /\ kernel = "user"
    BY <1>5 DEF Exit, InUser
  <2>2. Live' = Live \ {curProcess} /\ state' \in [Slot -> ProcessState]
    BY <1>0, <2>1 DEF Live, IInv, TypeOK, ProcessState
  <2>3. BlockedIffReceiving'
    BY <1>0, <1>5, <2>1 DEF Exit, IInv, TypeOK, BlockedIffReceiving
  <2> QED
    BY <1>0, <1>5, <2>1, <2>2, <2>3, YieldPreservesIInv DEF Exit, IInv, TypeOK
<1>6. CASE ExitFaults
  BY <1>6 DEF ExitFaults, IInv, TypeOK, RunQueueExact, FreeListExact, Live,
              BlockedIffReceiving, CurrentIsRunnable, SpinsOnlyWhenStuck,
              IdsWellFormed, BootHasNoProcess, KernelMode
<1>7. CASE IpcRecv
  <2>1. /\ state' = [state EXCEPT ![curProcess] = "BLOCKED"]
        /\ recving' = [recving EXCEPT ![curProcess] = TRUE]
        /\ kernel = "user"
    BY <1>7 DEF IpcRecv, InUser
  <2>2. /\ Live' = Live
        /\ state' \in [Slot -> ProcessState]
        /\ recving' \in [Slot -> BOOLEAN]
    BY <1>0, <2>1 DEF Live, IInv, TypeOK, ProcessState
  <2>3. BlockedIffReceiving'
    BY <1>0, <2>1 DEF IInv, TypeOK, BlockedIffReceiving
  <2> QED
    BY <1>0, <1>7, <2>1, <2>2, <2>3, YieldPreservesIInv DEF IpcRecv
<1>8. ASSUME NEW pid \in PidInputs, IpcCanSend(pid) PROVE IInv'
  <2> DEFINE p == pid2Process(pid)
  <2>1. p \in Slot
    <3>1. pid \in Nat
      BY TableAssumption, SMT DEF PidInputs
    <3> QED
      BY <1>0, <1>8, <3>1, OffsetInTable DEF IpcCanSend, InUser, pid2Process
  <2>2. /\ kernel = "user" /\ recving[p]
        /\ recving' = [recving EXCEPT ![p] = FALSE]
        /\ state' = [state EXCEPT ![p] = "RUNNABLE"]
        /\ UNCHANGED <<id, freeProcesses, scheduleList, curProcess, nextId, kernel>>
    BY <1>8 DEF IpcCanSend, Deliver, InUser
  <2> HIDE DEF p
  <2>3. state[p] = "BLOCKED" /\ p # curProcess
    BY <1>0, <2>1, <2>2 DEF IInv, BlockedIffReceiving
  <2>4. Live' = Live
    BY <2>1, <2>2, <2>3 DEF Live, IInv, TypeOK
  <2>5. TypeOK'
    BY <2>1, <2>2 DEF IInv, TypeOK, ProcessState
  <2>6. RunQueueExact' /\ FreeListExact'
    BY <2>2, <2>4 DEF IInv, RunQueueExact, FreeListExact
  <2>7. BlockedIffReceiving'
    BY <2>1, <2>2 DEF IInv, TypeOK, BlockedIffReceiving
  <2>8. CurrentIsRunnable' /\ SpinsOnlyWhenStuck'
    BY <1>0, <2>1, <2>2, <2>3 DEF IInv, TypeOK, CurrentIsRunnable,
                                  SpinsOnlyWhenStuck
  <2>9. IdsWellFormed' /\ BootHasNoProcess'
    BY <2>2 DEF IInv, IdsWellFormed, BootHasNoProcess
  <2> QED
    BY <2>5, <2>6, <2>7, <2>8, <2>9 DEF IInv
<1>9. CASE Getchar
  BY <1>0, <1>9 DEF Getchar, InUser, IInv, TypeOK, RunQueueExact, FreeListExact,
              Live, BlockedIffReceiving, CurrentIsRunnable, SpinsOnlyWhenStuck,
              IdsWellFormed, BootHasNoProcess, KernelMode
<1>10. CASE KeyArrives
  BY <1>10 DEF KeyArrives, IInv, TypeOK, RunQueueExact, FreeListExact,
              Live, BlockedIffReceiving, CurrentIsRunnable, SpinsOnlyWhenStuck,
              IdsWellFormed, BootHasNoProcess, KernelMode
<1>11. CASE UNCHANGED schedVars
  BY <1>11 DEF schedVars, IInv, TypeOK, RunQueueExact, FreeListExact,
              Live, BlockedIffReceiving, CurrentIsRunnable, SpinsOnlyWhenStuck,
              IdsWellFormed, BootHasNoProcess
<1> QED
  BY <1>1, <1>2, <1>3, <1>4, <1>5, <1>6, <1>7, <1>8, <1>9, <1>10, <1>11 DEF Next

\* The inductive invariant holds in every reachable state, whatever main
\* loads and whatever system calls and interrupts follow.
THEOREM InductiveInvariant == Spec => []IInv
<1>1. Init => IInv
  BY InitEstablishesIInv
<1>2. IInv /\ [Next]_schedVars => IInv'
  BY NextPreservesIInv
<1> QED
  BY <1>1, <1>2, PTL DEF Spec

\* However processes are forked, exit, block and yield, each live one that
\* does not run is linked in scheduleList exactly once.
THEOREM RunQueueIsExact == Spec => []RunQueueExact
<1>1. IInv => RunQueueExact
  BY DEF IInv
<1> QED
  BY <1>1, InductiveInvariant, PTL

\* process_alloc never hands out an entry that is, or ever was, in use.
THEOREM FreeListIsExact == Spec => []FreeListExact
<1>1. IInv => FreeListExact
  BY DEF IInv
<1> QED
  BY <1>1, InductiveInvariant, PTL

\* syscallIpcRecv and syscallIpcCanSend lose no wake-up and wake nobody else.
THEOREM BlockedAreReceiving == Spec => []BlockedIffReceiving
<1>1. IInv => BlockedIffReceiving
  BY DEF IInv
<1> QED
  BY <1>1, InductiveInvariant, PTL

\* process_yield only searches for ever when no process can run.
THEOREM SpinIsDeadEnd == Spec => []SpinsOnlyWhenStuck
<1>1. IInv => SpinsOnlyWhenStuck
  BY DEF IInv
<1> QED
  BY <1>1, InductiveInvariant, PTL

\* Every variable keeps its type.
THEOREM TypeCorrect == Spec => []TypeOK
<1>1. IInv => TypeOK
  BY DEF IInv
<1> QED
  BY <1>1, InductiveInvariant, PTL

\* Whoever the hart serves in user mode, or polls the UART for, is a process
\* that can run: process_yield never leaves the hart with an entry that exit or
\* a receive has taken out.
THEOREM CurrentAlwaysRunnable == Spec => []CurrentIsRunnable
<1>1. IInv => CurrentIsRunnable
  BY DEF IInv
<1> QED
  BY <1>1, InductiveInvariant, PTL

\* pid2Process undoes generate_pid: identifiers never collide, since each
\* holds the index of its entry, and those of dead processes are refused.
THEOREM PidsAlwaysResolve == Spec => []PidsResolve
<1>1. IInv => PidsResolve
  BY DEF IInv, TypeOK, FreeListExact, IdsWellFormed, PidsResolve, pid2Process, Live
<1> QED
  BY <1>1, InductiveInvariant, PTL

-----------------------------------------------------------------------------
(* The order of the run queue.                                             *)

\* process_yield takes nobody past a process that can run.
LEMMA YieldKeepsOrder ==
    ASSUME IInv, NEW leaving \in Slot \union {NULL},
           leaving \notin Range(scheduleList), process_yield(leaving),
           NEW s \in Slot, NEW t \in Slot, Ahead(s, t), state'[s] = "RUNNABLE"
    PROVE  curProcess' # t /\ (curProcess' = s \/ Ahead(s, t)')
<1> DEFINE q == Queue(leaving)
<1>1. /\ q \in Seq(Slot) /\ IsInjective(q)
      /\ scheduleList \in Seq(Slot)
  BY QueueExact DEF IInv, TypeOK, RunQueueExact
<1>2. PICK j, k \in 1 .. Len(scheduleList) :
         j < k /\ scheduleList[j] = s /\ scheduleList[k] = t
  BY DEF Ahead
<1>3. j \in 1 .. Len(q) /\ k \in 1 .. Len(q) /\ q[j] = s /\ q[k] = t
  <2>1. CASE leaving = NULL
    BY <1>2, <2>1 DEF Queue
  <2>2. CASE leaving # NULL
    <3>1. q = Append(scheduleList, leaving)
      BY <2>2 DEF Queue
    <3> QED
      BY <1>1, <1>2, <3>1, SMT
  <2> QED
    BY <2>1, <2>2
<1>4. j \in Nat /\ k \in Nat /\ Len(q) \in Nat
  BY <1>1, <1>3, SMT
<1>5. \A m, n \in 1 .. Len(q) : q[m] = q[n] => m = n
  BY <1>1, SMT DEF IsInjective
<1>6. \/ \E i \in 1 .. Len(q) :
           /\ IsFirstRunnable(q, i)
           /\ scheduleList' = Rotated(q, i)
           /\ curProcess' = q[i]
      \/ \A i \in 1 .. Len(q) : state'[q[i]] # "RUNNABLE"
  BY DEF process_yield
<1> HIDE DEF q
<1>7. PICK i \in 1 .. Len(q) : /\ IsFirstRunnable(q, i)
                               /\ scheduleList' = Rotated(q, i)
                               /\ curProcess' = q[i]
  BY <1>3, <1>6
<1>8. i <= j
  <2>1. SUFFICES ASSUME j < i PROVE FALSE
    BY <1>4, SMT
  <2>2. j \in 1 .. i - 1
    BY <1>3, <1>4, <2>1, SMT
  <2> QED
    BY <1>3, <1>7, <2>2 DEF IsFirstRunnable
<1>9. i # k /\ i < k
  BY <1>2, <1>4, <1>8, SMT
<1>10. curProcess' # t
  BY <1>3, <1>5, <1>7, <1>9
<1>11. CASE i = j
  BY <1>3, <1>7, <1>10, <1>11
<1>12. CASE i < j
  <2>1. /\ j - i \in 1 .. Len(scheduleList')
        /\ k - i \in 1 .. Len(scheduleList')
        /\ j - i < k - i
        /\ scheduleList'[j - i] = s
        /\ scheduleList'[k - i] = t
    <3>1. /\ j - i \in 1 .. Len(Rotated(q, i))
          /\ k - i \in 1 .. Len(Rotated(q, i))
          /\ j - i < k - i
          /\ Rotated(q, i)[j - i] = q[j]
          /\ Rotated(q, i)[k - i] = q[k]
      <4>1. q \in Seq(Slot) /\ i \in 1 .. Len(q) /\ i < j /\ j < k
        BY <1>1, <1>2, <1>7, <1>12
      <4>2. j \in 1 .. Len(q) /\ k \in 1 .. Len(q)
        BY <1>3
      <4> QED
        BY <4>1, <4>2, RotatedOrder
    <3> QED
      BY <1>3, <1>7, <3>1
  <2> QED
    BY <1>10, <2>1 DEF Ahead
<1> QED
  BY <1>4, <1>8, <1>11, <1>12, SMT

\* LIST_INSERT_TAIL of a new process leaves the order of the others alone.
LEMMA AppendKeepsOrder ==
    ASSUME scheduleList \in Seq(Slot), NEW p \in Slot,
           scheduleList' = Append(scheduleList, p),
           NEW s \in Slot, NEW t \in Slot, Ahead(s, t)
    PROVE  Ahead(s, t)'
<1>1. PICK j, k \in 1 .. Len(scheduleList) :
         j < k /\ scheduleList[j] = s /\ scheduleList[k] = t
  BY DEF Ahead
<1>2. /\ j \in 1 .. Len(scheduleList') /\ k \in 1 .. Len(scheduleList')
      /\ scheduleList'[j] = s /\ scheduleList'[k] = t
  BY <1>1, SMT
<1> QED
  BY <1>1, <1>2 DEF Ahead

\* process_yield serves the run queue in order: a process that can run is
\* never overtaken, whatever the size of the table.
THEOREM RunQueueIsFifo == Spec => NoOvertaking
<1> DEFINE Step == \A s, t \in Slot :
              Ahead(s, t) /\ state[s] = "RUNNABLE" =>
                  /\ curProcess' # t
                  /\ curProcess' = s \/ Ahead(s, t)'
<1>1. IInv /\ [Next]_schedVars => [Step]_schedVars
  <2> SUFFICES ASSUME IInv, Next, NEW s \in Slot, NEW t \in Slot, Ahead(s, t),
                      state[s] = "RUNNABLE"
               PROVE  curProcess' # t /\ (curProcess' = s \/ Ahead(s, t)')
    OBVIOUS
  <2>1. s \in Range(scheduleList) /\ t \in Range(scheduleList)
    BY SMT DEF Ahead, Range, IInv, TypeOK
  <2>2. curProcess # s /\ curProcess # t /\ curProcess \notin Range(scheduleList)
    BY <2>1 DEF IInv, RunQueueExact
  <2>3. CASE FirstYield
    <3>1. NULL \notin Range(scheduleList)
      BY NullAssumption, ElementsOfList DEF IInv, TypeOK
    <3> QED
      BY <2>3, <3>1, YieldKeepsOrder DEF FirstYield
  <2>4. CASE Reschedule
    BY <2>2, <2>4, YieldKeepsOrder DEF Reschedule, IInv, TypeOK
  <2>5. CASE Exit
    <3>1. NULL \notin Range(scheduleList)
      BY NullAssumption, ElementsOfList DEF IInv, TypeOK
    <3>2. state'[s] = "RUNNABLE"
      BY <2>2, <2>5 DEF Exit, IInv, TypeOK
    <3> QED
      BY <2>5, <3>1, <3>2, YieldKeepsOrder DEF Exit
  <2>6. CASE IpcRecv
    <3>1. state'[s] = "RUNNABLE"
      BY <2>2, <2>6 DEF IpcRecv, IInv, TypeOK
    <3> QED
      BY <2>2, <2>6, <3>1, YieldKeepsOrder DEF IpcRecv, IInv, TypeOK
  <2>7. CASE ProcessCreatePriority \/ Fork
    BY <2>2, <2>7, AppendKeepsOrder DEF ProcessCreatePriority, Fork, IInv, TypeOK
  <2>8. CASE UNCHANGED <<scheduleList, curProcess>>
    BY <2>2, <2>8 DEF Ahead
  <2> QED
    BY <2>3, <2>4, <2>5, <2>6, <2>7, <2>8
       DEF Next, ExitFaults, IpcCanSend, Getchar, KeyArrives
<1> QED
  BY <1>1, InductiveInvariant, PTL DEF Spec, NoOvertaking
=============================================================================
