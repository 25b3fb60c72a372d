----------------------------- MODULE PipeProofs -----------------------------
(***************************************************************************)
(* Theorems about Pipe, for a ring of any size and any number of           *)
(* processes that share the pipe: the bytes arrive whole and in order, and *)
(* a process is told that the other end is closed only when it is, unless  *)
(* its two counts were disturbed in one of two ways.                       *)
(***************************************************************************)
EXTENDS Pipe, FiniteSetTheorems, TLAPS

\* The processes that have the pipe's page mapped for an end.
Holders(e) == {q \in Proc : e \in dataMapped[q]}

\* Who is where.
PlaceInv == \A q \in Proc :
    /\ pc[q] \in ReadPlace => q = Reader
    /\ pc[q] \in WritePlace => q = Writer
    /\ pc[q] \in {"read_advance", "write_advance"} => i[q] < n[q]

\* The bytes that were written and not read are in their places of the ring.
RingInv ==
    /\ p_wpos - p_rpos \in 0 .. BY2PIPE
    /\ \A k \in p_rpos .. p_wpos - 1 : p_buf[k % BY2PIPE] = k + 1
    /\ pc[Reader] = "read_advance" => p_rpos < p_wpos
    /\ pc[Writer] = "write_advance" =>
        /\ p_wpos < MaxBytes /\ p_wpos - p_rpos < BY2PIPE
        /\ p_buf[p_wpos % BY2PIPE] = p_wpos + 1

\* The reader took the bytes up to its position, and one more before it moves
\* on.
GotInv ==
    /\ got = [k \in 1 .. Len(got) |-> k]
    /\ Len(got) = IF pc[Reader] = "read_advance" THEN p_rpos + 1 ELSE p_rpos

\* No descriptor is mapped without the pipe, and a process that is not there
\* yet has nothing mapped.
MapInv == \A q \in Proc :
    /\ fdMapped[q] \subseteq dataMapped[q]
    /\ pc[q] = "none" => dataMapped[q] = {}

\* A first count that nothing was taken from is no more than the references
\* that its own end makes to the pipe.
CountInv == \A q \in Proc, e \in End :
    InCheck(q) /\ EndOf(q) = e /\ ~raced[q] => pfd[q] <= others + Cardinality(Holders(e))

IInv == TypeOK /\ PlaceInv /\ RingInv /\ GotInv /\ MapInv /\ CountInv

-----------------------------------------------------------------------------
(* Arithmetic of the ring.                                                 *)

\* Quotient and remainder.
LEMMA DivMod ==
    ASSUME NEW B \in Nat \ {0}, NEW k \in Nat
    PROVE  /\ k \div B \in Nat /\ k % B \in 0 .. B - 1
           /\ k = B * (k \div B) + (k % B)
  BY Z3

\* Bytes that are less than a ring apart are in different places of it.
LEMMA PlacesDiffer ==
    ASSUME NEW B \in Nat \ {0}, NEW k \in Nat, NEW m \in Nat, k < m, m - k < B
    PROVE  k % B # m % B
  <1> SUFFICES ASSUME k % B = m % B PROVE FALSE
    OBVIOUS
  <1> DEFINE q == k \div B
             r == m \div B
             x == k % B
  <1>1. q \in Nat /\ x \in Nat /\ k = B * q + x
    <2>1. k \div B \in Nat /\ k % B \in 0 .. B - 1 /\ k = B * (k \div B) + (k % B)
      BY DivMod
    <2> QED
      BY <2>1
  <1>2. r \in Nat /\ m = B * r + x
    <2>1. m \div B \in Nat /\ m = B * (m \div B) + (m % B)
      BY DivMod
    <2> QED
      BY <2>1
  <1> HIDE DEF q, r, x
  <1>3. m - k = B * (r - q)
    BY <1>1, <1>2
  <1>4. CASE r - q <= 0
    <2>1. B * (r - q) <= 0
      BY <1>1, <1>2, <1>4
    <2> QED
      BY <1>3, <2>1
  <1>5. CASE r - q >= 1
    <2>1. B * (r - q) >= B
      BY <1>1, <1>2, <1>5
    <2> QED
      BY <1>3, <2>1
  <1> QED
    BY <1>1, <1>2, <1>4, <1>5

-----------------------------------------------------------------------------
(* Reference counts.                                                       *)

\* The processes with a property are finitely many.
LEMMA ProcSubsets ==
    ASSUME NEW S \in SUBSET Proc
    PROVE  IsFiniteSet(S) /\ Cardinality(S) \in Nat
  BY ProcAssumption, FS_Subset, FS_CardinalityType

\* The mappings for one end are as many as the processes that have them.
LEMMA MappingsOfEnd ==
    ASSUME NEW S \in SUBSET Proc, NEW e
    PROVE  LET P == {<<q, e>> : q \in S}
           IN  IsFiniteSet(P) /\ Cardinality(P) = Cardinality(S)
  <1> DEFINE P == {<<q, e>> : q \in S}
             f == [q \in S |-> <<q, e>>]
  <1>1. f \in Bijection(S, P)
    BY DEF Bijection, Injection, Surjection, IsInjective
  <1>2. ExistsBijection(S, P)
    BY <1>1 DEF ExistsBijection
  <1>3. IsFiniteSet(S)
    BY ProcSubsets
  <1> QED
    BY <1>2, <1>3, FS_Bijection

\* The references to the pipe's page are those that its two ends make.
LEMMA PipeRefSum ==
    ASSUME dataMapped \in [Proc -> SUBSET End]
    PROVE  PipeRef = others + (Cardinality(Holders("read")) + Cardinality(Holders("write")))
  <1> DEFINE R == {<<q, "read">> : q \in Holders("read")}
             W == {<<q, "write">> : q \in Holders("write")}
             All == {u \in Proc \X End : u[2] \in dataMapped[u[1]]}
  <1>1. Holders("read") \in SUBSET Proc /\ Holders("write") \in SUBSET Proc
    BY DEF Holders
  <1>2. IsFiniteSet(R) /\ Cardinality(R) = Cardinality(Holders("read"))
    BY <1>1, MappingsOfEnd
  <1>3. IsFiniteSet(W) /\ Cardinality(W) = Cardinality(Holders("write"))
    BY <1>1, MappingsOfEnd
  <1>4. All = R \union W
    BY DEF Holders, End
  <1>5. R \intersect W = {}
    OBVIOUS
  <1> HIDE DEF R, W, All
  <1>6. Cardinality(R \union W) = Cardinality(R) + Cardinality(W) - Cardinality(R \intersect W)
    BY <1>2, <1>3, FS_Union
  <1>7. Cardinality(R \intersect W) = 0
    BY <1>5, FS_EmptySet
  <1>8. Cardinality(Holders("read")) \in Nat /\ Cardinality(Holders("write")) \in Nat
    BY <1>1, ProcSubsets
  <1>9. Cardinality(All) = Cardinality(Holders("read")) + Cardinality(Holders("write"))
    BY <1>2, <1>3, <1>4, <1>6, <1>7, <1>8
  <1> QED
    BY <1>9 DEF All, PipeRef
-----------------------------------------------------------------------------
(* The initial state.                                                      *)

LEMMA InitHoldsIInv == Init => IInv
  <1> SUFFICES ASSUME Init PROVE IInv
    OBVIOUS
  <1>1. TypeOK
    BY ProcAssumption, SizeAssumption DEF Init, TypeOK, End, Place
  <1>2. PlaceInv /\ MapInv /\ CountInv
    BY DEF Init, PlaceInv, MapInv, CountInv, InCheck, ReadPlace, WritePlace
  <1>3. RingInv /\ GotInv
    BY ProcAssumption, SizeAssumption DEF Init, RingInv, GotInv
  <1> QED
    BY <1>1, <1>2, <1>3 DEF IInv

-----------------------------------------------------------------------------
(* What a step may leave alone.                                            *)

\* A step that keeps the ring and moves nobody into, out of or at an advance.
LEMMA RingKept ==
    ASSUME IInv, UNCHANGED <<ring, got>>,
           (pc'[Reader] = "read_advance") <=> (pc[Reader] = "read_advance"),
           pc'[Writer] = "write_advance" => pc[Writer] = "write_advance"
    PROVE  RingInv' /\ GotInv'
  BY DEF IInv, RingInv, GotInv, ring

\* A step that keeps the mappings, the counts and who is between two counts.
LEMMA CountsKept ==
    ASSUME IInv, UNCHANGED <<pages, pfd, raced>>,
           \A q \in Proc : /\ InCheck(q)' => InCheck(q) /\ EndOf(q)' = EndOf(q)
                           /\ pc'[q] = "none" => pc[q] = "none"
    PROVE  MapInv' /\ CountInv'
  <1>1. \A e : Holders(e)' = Holders(e)
    BY DEF Holders, pages
  <1> QED
    BY <1>1 DEF IInv, MapInv, CountInv, pages

\* A process that only goes on to another place of its call, or back to its
\* program.
LEMMA MovePreserves ==
    ASSUME IInv, NEW p \in Proc, NEW place, Goto(p, place),
           UNCHANGED <<pages, ring, n, i, pfd, got, raced>>,
           pc[p] \notin {"read_advance", "write_advance"},
           \/ place \in {"user", "close"}
           \/ place \in {"read", "read_pfd"} /\ pc[p] \in ReadPlace
           \/ place \in {"write", "write_pfd"} /\ pc[p] \in WritePlace
    PROVE  IInv'
  <1>1. pc' = [pc EXCEPT ![p] = place] /\ place \in Place
    BY DEF Goto, Place, ReadPlace, WritePlace
  <1>2. TypeOK'
    BY <1>1 DEF IInv, TypeOK, pages, ring
  <1>3. PlaceInv'
    BY <1>1 DEF IInv, TypeOK, PlaceInv, ReadPlace, WritePlace
  <1>4. RingInv' /\ GotInv'
    BY <1>1, RingKept, ProcAssumption DEF IInv, TypeOK, ReadPlace, WritePlace
  <1>5. MapInv' /\ CountInv'
    <2>1. \A q \in Proc : /\ InCheck(q)' => InCheck(q) /\ EndOf(q)' = EndOf(q)
                          /\ pc'[q] = "none" => pc[q] = "none"
      BY <1>1 DEF IInv, TypeOK, InCheck, EndOf, ReadPlace, WritePlace
    <2> QED
      BY <2>1, CountsKept
  <1> QED
    BY <1>2, <1>3, <1>4, <1>5 DEF IInv

\* read or write is called.
LEMMA CallPreserves ==
    ASSUME IInv, NEW p \in Proc, NEW e, NEW place, Call(p, e, place),
           \/ place = "read" /\ p = Reader
           \/ place = "write" /\ p = Writer
    PROVE  IInv'
  <1>1. /\ pc' = [pc EXCEPT ![p] = place] /\ place \in Place
        /\ i' = [i EXCEPT ![p] = 0] /\ pc[p] = "user"
        /\ UNCHANGED <<pages, ring, pfd, got, raced>>
    BY DEF Call, Goto, Place, ReadPlace, WritePlace
  <1>2. PICK count \in 1 .. MaxCount : n' = [n EXCEPT ![p] = count]
    BY DEF Call
  <1>3. TypeOK'
    <2>1. n \in [Proc -> 0 .. MaxCount] /\ i \in [Proc -> 0 .. MaxCount]
      BY DEF IInv, TypeOK
    <2>2. count \in 0 .. MaxCount /\ 0 \in 0 .. MaxCount
      BY SizeAssumption
    <2>3. n' \in [Proc -> 0 .. MaxCount] /\ i' \in [Proc -> 0 .. MaxCount]
      BY <1>1, <1>2, <2>1, <2>2
    <2>4. pc' \in [Proc -> Place]
      BY <1>1 DEF IInv, TypeOK
    <2> QED
      BY <1>1, <2>3, <2>4 DEF IInv, TypeOK, pages, ring
  <1>4. PlaceInv'
    BY <1>1, <1>2 DEF IInv, TypeOK, PlaceInv, ReadPlace, WritePlace
  <1>5. RingInv' /\ GotInv'
    BY <1>1, RingKept, ProcAssumption DEF IInv, TypeOK
  <1>6. MapInv' /\ CountInv'
    <2>1. \A q \in Proc : /\ InCheck(q)' => InCheck(q) /\ EndOf(q)' = EndOf(q)
                          /\ pc'[q] = "none" => pc[q] = "none"
      BY <1>1 DEF IInv, TypeOK, InCheck, EndOf
    <2> QED
      BY <1>1, <2>1, CountsKept
  <1> QED
    BY <1>3, <1>4, <1>5, <1>6 DEF IInv

-----------------------------------------------------------------------------
(* The two counts.                                                         *)

\* The count of an end's descriptors is no more than that of its uses of the
\* pipe.
LEMMA CountEndPreserves ==
    ASSUME IInv, NEW p \in Proc, NEW here, NEW next, CountEnd(p, here, next),
           <<here, next>> \in {<<"read_pfd", "read_pfp">>, <<"write_pfd", "write_pfp">>}
    PROVE  IInv'
  <1> DEFINE e == EndOf(p)
             Open == {q \in Proc : e \in fdMapped[q]}
  <1>1. /\ pc' = [pc EXCEPT ![p] = next] /\ next \in Place /\ pc[p] = here
        /\ pfd' = [pfd EXCEPT ![p] = FdRef(e)]
        /\ raced' = [raced EXCEPT ![p] = FALSE]
        /\ UNCHANGED <<pages, ring, n, i, got>>
    BY DEF CountEnd, Goto, Place, ReadPlace, WritePlace
  <1>2. FdRef(e) = others + Cardinality(Open)
    BY DEF FdRef
  <1>3. Open \in SUBSET Holders(e) /\ Holders(e) \in SUBSET Proc /\ Open \in SUBSET Proc
    BY DEF Holders, IInv, MapInv
  <1>4. /\ Cardinality(Open) \in Nat /\ Cardinality(Holders(e)) \in Nat
        /\ Cardinality(Open) <= Cardinality(Holders(e))
    BY <1>3, ProcSubsets, FS_Subset
  <1>5. FdRef(e) \in Int /\ FdRef(e) <= others + Cardinality(Holders(e))
    BY <1>2, <1>4 DEF IInv, TypeOK
  <1>6. TypeOK'
    BY <1>1, <1>5 DEF IInv, TypeOK, pages, ring
  <1>7. PlaceInv'
    BY <1>1 DEF IInv, TypeOK, PlaceInv, ReadPlace, WritePlace
  <1>8. RingInv' /\ GotInv'
    BY <1>1, RingKept, ProcAssumption DEF IInv, TypeOK
  <1>9. MapInv'
    BY <1>1 DEF IInv, TypeOK, MapInv, pages
  <1>10. \A f : Holders(f)' = Holders(f)
    BY <1>1 DEF Holders, pages
  <1>11. CountInv'
    <2> SUFFICES ASSUME NEW q \in Proc, NEW f \in End, InCheck(q)', EndOf(q)' = f, ~raced'[q]
                 PROVE  pfd'[q] <= others' + Cardinality(Holders(f))
      BY <1>10 DEF CountInv
    <2>1. CASE q = p
      <3>1. EndOf(p)' = e
        BY <1>1 DEF EndOf, IInv, TypeOK, ReadPlace
      <3> QED
        BY <2>1, <3>1, <1>1, <1>5 DEF IInv, TypeOK, pages
    <2>2. CASE q # p
      <3>1. InCheck(q) /\ ~raced[q] /\ EndOf(q)' = EndOf(q) /\ pfd'[q] = pfd[q]
        BY <2>2, <1>1 DEF InCheck, EndOf, IInv, TypeOK
      <3> QED
        BY <3>1, <1>1 DEF IInv, CountInv, pages
    <2> QED
      BY <2>1, <2>2
  <1> QED
    BY <1>6, <1>7, <1>8, <1>9, <1>11 DEF IInv

\* The second count ends the call or starts the next round.
LEMMA CountAllPreserves ==
    ASSUME IInv, NEW p \in Proc, NEW here, NEW again, NEW return, CountAll(p, here, again, return),
           <<here, again>> \in {<<"read_pfp", "read">>, <<"write_pfp", "write">>}
    PROVE  IInv'
  <1>1. PICK place \in {"user", again} : Goto(p, place)
    BY DEF CountAll
  <1> QED
    BY <1>1, MovePreserves DEF CountAll, ReadPlace, WritePlace

-----------------------------------------------------------------------------
(* The ring.                                                               *)

\* The reader takes the byte at its position.
LEMMA TakePreserves ==
    ASSUME IInv, NEW p \in Proc, pc[p] = "read", More(p), p_rpos # p_wpos,
           got' = Append(got, p_buf[p_rpos % BY2PIPE]),
           Goto(p, "read_advance"),
           UNCHANGED <<pages, ring, n, i, pfd, raced>>
    PROVE  IInv'
  <1>1. pc' = [pc EXCEPT ![p] = "read_advance"] /\ "read_advance" \in Place /\ p = Reader
    BY DEF Goto, Place, ReadPlace, IInv, PlaceInv
  <1>2. /\ p_rpos \in Nat /\ p_wpos \in Nat /\ p_rpos < p_wpos
        /\ Len(got) = p_rpos /\ got \in Seq(Nat)
        /\ p_buf[p_rpos % BY2PIPE] = p_rpos + 1
    BY <1>1, SizeAssumption DEF IInv, TypeOK, RingInv, GotInv
  <1>3. /\ got' \in Seq(Nat) /\ Len(got') = p_rpos + 1
        /\ got' = [k \in 1 .. Len(got') |-> k]
    BY <1>2 DEF IInv, GotInv
  <1>4. TypeOK'
    BY <1>1, <1>3 DEF IInv, TypeOK, pages, ring
  <1>5. PlaceInv'
    BY <1>1 DEF IInv, TypeOK, PlaceInv, ReadPlace, WritePlace, More
  <1>6. RingInv'
    BY <1>1, <1>2 DEF IInv, TypeOK, RingInv, ring
  <1>7. GotInv'
    BY <1>1, <1>3 DEF IInv, TypeOK, GotInv, ring
  <1>8. MapInv' /\ CountInv'
    <2>1. \A q \in Proc : /\ InCheck(q)' => InCheck(q) /\ EndOf(q)' = EndOf(q)
                          /\ pc'[q] = "none" => pc[q] = "none"
      BY <1>1 DEF IInv, TypeOK, InCheck, EndOf
    <2> QED
      BY <2>1, CountsKept
  <1> QED
    BY <1>4, <1>5, <1>6, <1>7, <1>8 DEF IInv

\* The reader moves on to the next byte.
LEMMA ReadAdvancePreserves ==
    ASSUME IInv, NEW p \in Proc, pc[p] = "read_advance",
           p_rpos' = p_rpos + 1, i' = [i EXCEPT ![p] = @ + 1],
           Goto(p, "read"),
           UNCHANGED <<pages, p_wpos, p_buf, n, pfd, got, raced>>
    PROVE  IInv'
  <1>1. pc' = [pc EXCEPT ![p] = "read"] /\ "read" \in Place /\ p = Reader
    BY DEF Goto, Place, ReadPlace, IInv, PlaceInv
  <1>2. p_rpos \in Nat /\ p_wpos \in 0 .. MaxBytes /\ p_rpos < p_wpos /\ i[p] < n[p]
    BY <1>1 DEF IInv, TypeOK, RingInv, PlaceInv
  <1>3. TypeOK'
    <2>1. p_rpos' \in 0 .. MaxBytes
      BY <1>2, SizeAssumption
    <2>2. i' \in [Proc -> 0 .. MaxCount]
      <3>1. n \in [Proc -> 0 .. MaxCount] /\ i \in [Proc -> 0 .. MaxCount]
        BY DEF IInv, TypeOK
      <3>2. i[p] + 1 \in 0 .. MaxCount
        BY <1>2, <3>1, SizeAssumption
      <3> QED
        BY <3>1, <3>2
    <2> QED
      BY <1>1, <2>1, <2>2 DEF IInv, TypeOK, pages
  <1>4. PlaceInv'
    BY <1>1 DEF IInv, TypeOK, PlaceInv, ReadPlace, WritePlace
  <1>5. RingInv'
    <2>1. \A k \in p_rpos' .. p_wpos - 1 : p_buf[k % BY2PIPE] = k + 1
      BY <1>2 DEF IInv, RingInv
    <2>2. p_wpos - p_rpos' \in 0 .. BY2PIPE
      BY <1>2, SizeAssumption DEF IInv, RingInv
    <2>3. pc'[Reader] # "read_advance"
      BY <1>1 DEF IInv, TypeOK
    <2>4. pc'[Writer] = "write_advance" => pc[Writer] = "write_advance"
      BY <1>1, ProcAssumption DEF IInv, TypeOK
    <2>5. pc'[Writer] = "write_advance" => p_wpos - p_rpos' < BY2PIPE
      BY <1>2, <2>4, SizeAssumption DEF IInv, RingInv
    <2> QED
      BY <2>1, <2>2, <2>3, <2>4, <2>5 DEF IInv, RingInv
  <1>6. GotInv'
    BY <1>1, <1>2 DEF IInv, TypeOK, GotInv
  <1>7. MapInv' /\ CountInv'
    <2>1. \A q \in Proc : /\ InCheck(q)' => InCheck(q) /\ EndOf(q)' = EndOf(q)
                          /\ pc'[q] = "none" => pc[q] = "none"
      BY <1>1 DEF IInv, TypeOK, InCheck, EndOf
    <2> QED
      BY <2>1, CountsKept
  <1> QED
    BY <1>3, <1>4, <1>5, <1>6, <1>7 DEF IInv

\* The writer puts a byte in a place that has none to be read.
LEMMA PutPreserves ==
    ASSUME IInv, NEW p \in Proc, pc[p] = "write", More(p), p_wpos < MaxBytes, ~Full,
           p_buf' = [p_buf EXCEPT ![p_wpos % BY2PIPE] = p_wpos + 1],
           Goto(p, "write_advance"),
           UNCHANGED <<pages, p_rpos, p_wpos, n, i, pfd, got, raced>>
    PROVE  IInv'
  <1>1. pc' = [pc EXCEPT ![p] = "write_advance"] /\ "write_advance" \in Place /\ p = Writer
    BY DEF Goto, Place, WritePlace, IInv, PlaceInv
  <1>2. /\ p_rpos \in Nat /\ p_wpos \in Nat /\ p_rpos <= p_wpos
        /\ p_wpos - p_rpos < BY2PIPE /\ BY2PIPE \in Nat \ {0}
    BY SizeAssumption DEF IInv, TypeOK, RingInv, Full
  <1>3. p_wpos % BY2PIPE \in 0 .. BY2PIPE - 1
    BY <1>2, DivMod
  <1>4. TypeOK'
    BY <1>1, <1>2, <1>3, SizeAssumption DEF IInv, TypeOK, pages
  <1>5. PlaceInv'
    BY <1>1 DEF IInv, TypeOK, PlaceInv, ReadPlace, WritePlace, More
  <1>6. \A k \in p_rpos .. p_wpos - 1 : p_buf'[k % BY2PIPE] = k + 1
    <2> SUFFICES ASSUME NEW k \in p_rpos .. p_wpos - 1 PROVE p_buf'[k % BY2PIPE] = k + 1
      OBVIOUS
    <2>1. k \in Nat /\ k < p_wpos /\ p_wpos - k < BY2PIPE
      BY <1>2
    <2>2. k % BY2PIPE # p_wpos % BY2PIPE /\ k % BY2PIPE \in 0 .. BY2PIPE - 1
      BY <1>2, <2>1, PlacesDiffer, DivMod
    <2>3. p_buf[k % BY2PIPE] = k + 1
      BY DEF IInv, RingInv
    <2> QED
      BY <2>2, <2>3 DEF IInv, TypeOK
  <1>7. p_buf'[p_wpos % BY2PIPE] = p_wpos + 1
    BY <1>3 DEF IInv, TypeOK
  <1>8. RingInv'
    BY <1>1, <1>2, <1>6, <1>7 DEF IInv, TypeOK, RingInv
  <1>9. GotInv'
    BY <1>1 DEF IInv, TypeOK, GotInv
  <1>10. MapInv' /\ CountInv'
    <2>1. \A q \in Proc : /\ InCheck(q)' => InCheck(q) /\ EndOf(q)' = EndOf(q)
                          /\ pc'[q] = "none" => pc[q] = "none"
      BY <1>1 DEF IInv, TypeOK, InCheck, EndOf, ReadPlace
    <2> QED
      BY <2>1, CountsKept
  <1> QED
    BY <1>4, <1>5, <1>8, <1>9, <1>10 DEF IInv

\* The writer moves on to the next byte.
LEMMA WriteAdvancePreserves ==
    ASSUME IInv, NEW p \in Proc, pc[p] = "write_advance",
           p_wpos' = p_wpos + 1, i' = [i EXCEPT ![p] = @ + 1],
           Goto(p, "write"),
           UNCHANGED <<pages, p_rpos, p_buf, n, pfd, got, raced>>
    PROVE  IInv'
  <1>1. pc' = [pc EXCEPT ![p] = "write"] /\ "write" \in Place /\ p = Writer
    BY DEF Goto, Place, WritePlace, IInv, PlaceInv
  <1>2. /\ p_rpos \in Nat /\ p_wpos \in Nat /\ p_rpos <= p_wpos /\ p_wpos < MaxBytes
        /\ p_wpos - p_rpos < BY2PIPE /\ p_buf[p_wpos % BY2PIPE] = p_wpos + 1
        /\ i[p] < n[p]
    BY <1>1, SizeAssumption DEF IInv, TypeOK, RingInv, PlaceInv
  <1>3. TypeOK'
    <2>1. p_wpos' \in 0 .. MaxBytes
      BY <1>2, SizeAssumption
    <2>2. i' \in [Proc -> 0 .. MaxCount]
      <3>1. n \in [Proc -> 0 .. MaxCount] /\ i \in [Proc -> 0 .. MaxCount]
        BY DEF IInv, TypeOK
      <3>2. i[p] + 1 \in 0 .. MaxCount
        BY <1>2, <3>1, SizeAssumption
      <3> QED
        BY <3>1, <3>2
    <2> QED
      BY <1>1, <2>1, <2>2 DEF IInv, TypeOK, pages
  <1>4. PlaceInv'
    BY <1>1 DEF IInv, TypeOK, PlaceInv, ReadPlace, WritePlace
  <1>5. \A k \in p_rpos .. p_wpos : p_buf[k % BY2PIPE] = k + 1
    BY <1>2 DEF IInv, RingInv
  <1>6. RingInv'
    BY <1>1, <1>2, <1>5, SizeAssumption DEF IInv, TypeOK, RingInv
  <1>7. GotInv'
    BY <1>1 DEF IInv, TypeOK, GotInv
  <1>8. MapInv' /\ CountInv'
    <2>1. \A q \in Proc : /\ InCheck(q)' => InCheck(q) /\ EndOf(q)' = EndOf(q)
                          /\ pc'[q] = "none" => pc[q] = "none"
      BY <1>1 DEF IInv, TypeOK, InCheck, EndOf, ReadPlace
    <2> QED
      BY <2>1, CountsKept
  <1> QED
    BY <1>3, <1>4, <1>6, <1>7, <1>8 DEF IInv

-----------------------------------------------------------------------------
(* The family.                                                             *)

\* A child makes references of its own and takes none away.
LEMMA ForkPreserves ==
    ASSUME IInv, NEW p \in Proc, NEW c \in Proc, Fork(p, c)
    PROVE  IInv'
  <1>1. /\ pc[p] = "user" /\ pc[c] = "none"
        /\ pc' = [pc EXCEPT ![c] = "user"] /\ "user" \in Place
        /\ fdMapped' = [fdMapped EXCEPT ![c] = fdMapped[p]]
        /\ dataMapped' = [dataMapped EXCEPT ![c] = dataMapped[p]]
        /\ others' = others + 1
        /\ UNCHANGED <<events, ring, n, i, pfd, got, raced>>
    BY DEF Fork, Goto, Place
  <1>2. TypeOK'
    <2>1. others' \in Int
      BY <1>1 DEF IInv, TypeOK
    <2>2. fdMapped' \in [Proc -> SUBSET End] /\ dataMapped' \in [Proc -> SUBSET End]
      BY <1>1 DEF IInv, TypeOK
    <2>3. pc' \in [Proc -> Place]
      BY <1>1 DEF IInv, TypeOK
    <2> QED
      BY <1>1, <2>1, <2>2, <2>3 DEF IInv, TypeOK, ring
  <1>3. PlaceInv'
    BY <1>1 DEF IInv, TypeOK, PlaceInv, ReadPlace, WritePlace
  <1>4. RingInv' /\ GotInv'
    BY <1>1, RingKept, ProcAssumption DEF IInv, TypeOK
  <1>5. MapInv'
    BY <1>1 DEF IInv, TypeOK, MapInv
  <1>6. ASSUME NEW e
        PROVE  Holders(e) \in SUBSET Holders(e)' /\ Holders(e)' \in SUBSET Proc
    BY <1>1 DEF IInv, TypeOK, MapInv, Holders
  <1>7. CountInv'
    <2> SUFFICES ASSUME NEW q \in Proc, NEW e \in End, InCheck(q)', EndOf(q)' = e, ~raced'[q]
                 PROVE  pfd'[q] <= others' + Cardinality(Holders(e)')
      BY DEF CountInv
    <2>1. InCheck(q) /\ ~raced[q] /\ EndOf(q) = e /\ pfd'[q] = pfd[q]
      BY <1>1 DEF InCheck, EndOf, IInv, TypeOK
    <2>2. pfd[q] <= others + Cardinality(Holders(e))
      BY <2>1 DEF IInv, CountInv
    <2>3. /\ Holders(e) \in SUBSET Holders(e)' /\ Holders(e) \in SUBSET Proc
          /\ Holders(e)' \in SUBSET Proc
      BY <1>6 DEF Holders
    <2>4. /\ Cardinality(Holders(e)) \in Nat /\ Cardinality(Holders(e)') \in Nat
          /\ Cardinality(Holders(e)) <= Cardinality(Holders(e)')
      BY <2>3, ProcSubsets, FS_Subset
    <2>5. others \in Int /\ pfd[q] \in Int /\ others' = others + 1
      BY <1>1 DEF IInv, TypeOK
    <2> QED
      BY <2>1, <2>2, <2>4, <2>5
  <1> QED
    BY <1>2, <1>3, <1>4, <1>5, <1>7 DEF IInv

\* A process that goes away disturbs whoever is between its two counts.
LEMMA OthersPreserve == IInv /\ OtherProcess => IInv'
  <1> SUFFICES ASSUME IInv, OtherProcess PROVE IInv'
    OBVIOUS
  <1>1. PICK d \in {1, -1} :
            /\ others' = others + d
            /\ raced' = [q \in Proc |-> raced[q] \/ (d < 0 /\ InCheck(q))]
    BY DEF OtherProcess
  <1>2. /\ events < MaxOthers /\ events' = events + 1
        /\ UNCHANGED <<fdMapped, dataMapped, ring, pc, n, i, pfd, got>>
    BY DEF OtherProcess
  <1>3. TypeOK'
    BY <1>1, <1>2, SizeAssumption DEF IInv, TypeOK, ring
  <1>4. PlaceInv' /\ MapInv'
    BY <1>2 DEF IInv, PlaceInv, MapInv
  <1>5. RingInv' /\ GotInv'
    BY <1>2, RingKept
  <1>6. CountInv'
    <2> SUFFICES ASSUME NEW q \in Proc, NEW e \in End, InCheck(q)', EndOf(q)' = e, ~raced'[q]
                 PROVE  pfd'[q] <= others' + Cardinality(Holders(e)')
      BY DEF CountInv
    <2>1. InCheck(q) /\ EndOf(q) = e /\ ~raced[q] /\ d = 1
      <3>1. InCheck(q) /\ EndOf(q) = e
        BY <1>2 DEF InCheck, EndOf
      <3>2. raced'[q] = (raced[q] \/ (d < 0 /\ InCheck(q)))
        BY <1>1, Zenon
      <3>3. ~raced[q] /\ ~(d < 0)
        BY <3>1, <3>2, Zenon
      <3> QED
        BY <3>1, <3>3
    <2>2. Holders(e)' = Holders(e) /\ pfd' = pfd
      BY <1>2 DEF Holders
    <2>3. Cardinality(Holders(e)) \in Nat
      BY ProcSubsets DEF Holders
    <2>4. pfd[q] <= others + Cardinality(Holders(e))
      BY <2>1 DEF IInv, CountInv
    <2> QED
      BY <1>1, <2>1, <2>2, <2>3, <2>4 DEF IInv, TypeOK
  <1> QED
    BY <1>3, <1>4, <1>5, <1>6 DEF IInv

\* Closing takes the descriptor first; when the pipe's mapping goes as well,
\* whoever has counted that end is disturbed.
LEMMA ClosePreserves ==
    ASSUME IInv, NEW p \in Proc, NEW e \in End, pipeclose(p, e)
    PROVE  IInv'
  <1>1. CASE /\ pc[p] = "user" /\ e \in fdMapped[p] /\ dataMapped' = dataMapped
             /\ fdMapped' = [fdMapped EXCEPT ![p] = @ \ {e}] /\ Goto(p, "close")
    <2>1. /\ pc' = [pc EXCEPT ![p] = "close"] /\ "close" \in Place
          /\ UNCHANGED <<others, events, ring, n, i, pfd, got, raced>>
      BY <1>1 DEF pipeclose, Goto, Place
    <2>2. TypeOK'
      BY <1>1, <2>1 DEF IInv, TypeOK, ring
    <2>3. PlaceInv' /\ MapInv'
      BY <1>1, <2>1 DEF IInv, TypeOK, PlaceInv, MapInv, ReadPlace, WritePlace
    <2>4. RingInv' /\ GotInv'
      BY <1>1, <2>1, RingKept, ProcAssumption DEF IInv, TypeOK
    <2>5. CountInv'
      <3>1. \A f : Holders(f)' = Holders(f)
        BY <1>1 DEF Holders
      <3>2. \A q \in Proc : InCheck(q)' => InCheck(q) /\ EndOf(q)' = EndOf(q)
        BY <1>1, <2>1 DEF InCheck, EndOf, IInv, TypeOK
      <3> QED
        BY <2>1, <3>1, <3>2 DEF IInv, CountInv
    <2> QED
      BY <2>2, <2>3, <2>4, <2>5 DEF IInv
  <1>2. CASE /\ pc[p] = "close" /\ e \in dataMapped[p] /\ e \notin fdMapped[p]
             /\ dataMapped' = [dataMapped EXCEPT ![p] = @ \ {e}] /\ Goto(p, "user")
             /\ fdMapped' = fdMapped
    <2>1. /\ pc' = [pc EXCEPT ![p] = "user"] /\ "user" \in Place
          /\ UNCHANGED <<others, events, ring, n, i, pfd, got>>
      BY <1>2 DEF pipeclose, Goto, Place
    <2>2. dataMapped' # dataMapped
      BY <1>2 DEF IInv, TypeOK
    <2>3. raced' = [q \in Proc |-> raced[q] \/ (InCheck(q) /\ EndOf(q) = e)]
      BY <2>2 DEF pipeclose, Raced
    <2>4. TypeOK'
      BY <1>2, <2>1, <2>3 DEF IInv, TypeOK, ring
    <2>5. PlaceInv' /\ MapInv'
      BY <1>2, <2>1 DEF IInv, TypeOK, PlaceInv, MapInv, ReadPlace, WritePlace
    <2>6. RingInv' /\ GotInv'
      BY <1>2, <2>1, RingKept, ProcAssumption DEF IInv, TypeOK
    <2>7. CountInv'
      <3> SUFFICES ASSUME NEW q \in Proc, NEW f \in End, InCheck(q)', EndOf(q)' = f, ~raced'[q]
                   PROVE  pfd'[q] <= others' + Cardinality(Holders(f)')
        BY DEF CountInv
      <3>1. InCheck(q) /\ EndOf(q) = f /\ ~raced[q] /\ f # e
        BY <1>2, <2>1, <2>3 DEF InCheck, EndOf, IInv, TypeOK
      <3>2. Holders(f)' = Holders(f)
        BY <1>2, <3>1 DEF Holders, IInv, TypeOK
      <3> QED
        BY <2>1, <3>1, <3>2 DEF IInv, CountInv
    <2> QED
      BY <2>4, <2>5, <2>6, <2>7 DEF IInv
  <1> QED
    BY <1>1, <1>2 DEF pipeclose, UnmapEnd

-----------------------------------------------------------------------------
(* Every step.                                                             *)

LEMMA PipereadPreserves == ASSUME IInv, NEW p \in Proc, piperead(p) PROVE IInv'
  <1>1. CASE p = Reader /\ Call(p, "read", "read")
    BY <1>1, CallPreserves
  <1>2. CASE pc[p] = "read" /\ ~More(p) /\ Return(p)
    BY <1>2, MovePreserves DEF Return
  <1>3. CASE pc[p] = "read" /\ Goto(p, "read_pfd")
             /\ UNCHANGED <<pages, ring, n, i, pfd, got, raced>>
    BY <1>3, MovePreserves DEF ReadPlace
  <1>4. CASE CountEnd(p, "read_pfd", "read_pfp")
    BY <1>4, CountEndPreserves
  <1>5. CASE CountAll(p, "read_pfp", "read", i[p] > 0)
    BY <1>5, CountAllPreserves
  <1>6. CASE /\ pc[p] = "read" /\ More(p) /\ p_rpos # p_wpos
             /\ got' = Append(got, p_buf[p_rpos % BY2PIPE])
             /\ Goto(p, "read_advance")
             /\ UNCHANGED <<pages, ring, n, i, pfd, raced>>
    BY <1>6, TakePreserves
  <1>7. CASE /\ pc[p] = "read_advance"
             /\ p_rpos' = p_rpos + 1
             /\ i' = [i EXCEPT ![p] = @ + 1]
             /\ Goto(p, "read")
             /\ UNCHANGED <<pages, p_wpos, p_buf, n, pfd, got, raced>>
    BY <1>7, ReadAdvancePreserves
  <1> QED
    BY <1>1, <1>2, <1>3, <1>4, <1>5, <1>6, <1>7, ZenonT(40) DEF piperead

LEMMA PipewritePreserves == ASSUME IInv, NEW p \in Proc, pipewrite(p) PROVE IInv'
  <1>1. CASE p = Writer /\ Call(p, "write", "write")
    BY <1>1, CallPreserves
  <1>2. CASE pc[p] = "write" /\ Return(p)
    BY <1>2, MovePreserves DEF Return
  <1>3. CASE pc[p] = "write" /\ Goto(p, "write_pfd")
             /\ UNCHANGED <<pages, ring, n, i, pfd, got, raced>>
    BY <1>3, MovePreserves DEF WritePlace
  <1>4. CASE CountEnd(p, "write_pfd", "write_pfp")
    BY <1>4, CountEndPreserves
  <1>5. CASE CountAll(p, "write_pfp", "write", FALSE)
    BY <1>5, CountAllPreserves
  <1>6. CASE /\ pc[p] = "write" /\ More(p) /\ p_wpos < MaxBytes /\ ~Full
             /\ p_buf' = [p_buf EXCEPT ![p_wpos % BY2PIPE] = p_wpos + 1]
             /\ Goto(p, "write_advance")
             /\ UNCHANGED <<pages, p_rpos, p_wpos, n, i, pfd, got, raced>>
    BY <1>6, PutPreserves
  <1>7. CASE /\ pc[p] = "write_advance"
             /\ p_wpos' = p_wpos + 1
             /\ i' = [i EXCEPT ![p] = @ + 1]
             /\ Goto(p, "write")
             /\ UNCHANGED <<pages, p_rpos, p_buf, n, pfd, got, raced>>
    BY <1>7, WriteAdvancePreserves
  <1> QED
    BY <1>1, <1>2, <1>3, <1>4, <1>5, <1>6, <1>7, ZenonT(40) DEF pipewrite

LEMMA StutterPreserves == IInv /\ UNCHANGED vars => IInv'
  <1> SUFFICES ASSUME IInv, UNCHANGED vars PROVE IInv'
    OBVIOUS
  <1>1. TypeOK'
    BY DEF IInv, vars, pages, ring, TypeOK
  <1>2. PlaceInv'
    BY DEF IInv, vars, pages, ring, PlaceInv
  <1>3. RingInv' /\ GotInv'
    BY DEF IInv, vars, pages, ring, RingInv, GotInv
  <1>4. MapInv' /\ CountInv'
    BY DEF IInv, vars, pages, ring, MapInv, CountInv, Holders, InCheck, EndOf
  <1> QED
    BY <1>1, <1>2, <1>3, <1>4 DEF IInv

LEMMA NextPreservesIInv == IInv /\ [Next]_vars => IInv'
  BY OthersPreserve, ForkPreserves, ClosePreserves, PipereadPreserves, PipewritePreserves,
     StutterPreserves
  DEF Next

-----------------------------------------------------------------------------
(* The theorems.                                                           *)

\* IInv, from which the rest follows, holds in every state.
THEOREM PipeInvariant == Spec => []IInv
  BY InitHoldsIInv, NextPreservesIInv, PTL DEF Spec

\* Positions stay within what was written, loop counters within the request.
THEOREM PipeTypeCorrect == Spec => []TypeOK
  BY PipeInvariant, PTL DEF IInv

\* The reader gets every byte once, in order, and the writer never overwrites
\* one that was not read.
THEOREM BytesArriveInOrder == Spec => []BytesInOrder
  <1>1. IInv => BytesInOrder
    <2> SUFFICES ASSUME IInv PROVE BytesInOrder
      OBVIOUS
    <2>1. Len(got) - p_rpos \in {0, 1}
      BY DEF IInv, TypeOK, GotInv
    <2> QED
      BY <2>1 DEF IInv, RingInv, GotInv, BytesInOrder
  <1> QED
    BY <1>1, PipeInvariant, PTL

\* A process does not move another one in its call.
LEMMA CallMovesOne ==
    ASSUME IInv, NEW p \in Proc, NEW q \in Proc, p # q, piperead(q) \/ pipewrite(q)
    PROVE  pc'[p] = pc[p]
  <1>1. \E place : Goto(q, place)
    BY DEF piperead, pipewrite, Call, CountEnd, CountAll, Return
  <1> QED
    BY <1>1 DEF Goto, IInv, TypeOK

\* Who leaves its second count for its program, having moved no byte, was told
\* that the other end is closed.
LEMMA ToldClosed ==
    ASSUME IInv, NEW p \in Proc, Next, InCheck(p), pc'[p] = "user", i[p] = 0
    PROVE  Closed(pfd[p], PipeRef)
  <1>1. pc'[p] # pc[p]
    BY DEF InCheck
  <1>2. ~OtherProcess
    BY <1>1 DEF OtherProcess
  <1>3. ASSUME NEW q \in Proc, NEW c \in Proc PROVE ~Fork(q, c)
    BY <1>1 DEF Fork, Goto, IInv, TypeOK, InCheck
  <1>4. ASSUME NEW q \in Proc, NEW e \in End PROVE ~pipeclose(q, e)
    BY <1>1 DEF pipeclose, UnmapEnd, Goto, IInv, TypeOK, InCheck
  <1>5. piperead(p) \/ pipewrite(p)
    BY <1>1, <1>2, <1>3, <1>4, CallMovesOne DEF Next
  <1>6. CASE piperead(p)
    <2>1. CountAll(p, "read_pfp", "read", i[p] > 0)
      BY <1>6 DEF piperead, InCheck, Call, CountEnd
    <2>2. ~(i[p] > 0)
      BY DEF IInv, TypeOK
    <2>3. Goto(p, IF Closed(pfd[p], PipeRef) \/ i[p] > 0 THEN "user" ELSE "read")
      BY <2>1 DEF CountAll
    <2> QED
      BY <2>2, <2>3 DEF Goto, IInv, TypeOK
  <1>7. CASE pipewrite(p)
    <2>1. CountAll(p, "write_pfp", "write", FALSE)
      BY <1>7 DEF pipewrite, InCheck, Call, CountEnd
    <2> QED
      BY <2>1 DEF CountAll, Goto, IInv, TypeOK
  <1> QED
    BY <1>5, <1>6, <1>7

\* Equal counts that nothing disturbed leave no reference for the other end.
LEMMA EqualCounts ==
    ASSUME IInv, NEW p \in Proc, InCheck(p), ~raced[p], Closed(pfd[p], PipeRef)
    PROVE  ~IsOpen(OtherEnd(EndOf(p)))
  <1> DEFINE e == EndOf(p)
             o == OtherEnd(e)
  <1>1. e \in End /\ o \in End
    BY DEF EndOf, OtherEnd, End
  <1>2. /\ Holders(e) \in SUBSET Proc /\ Holders(o) \in SUBSET Proc
    BY DEF Holders
  <1>3. /\ Cardinality(Holders(e)) \in Nat /\ Cardinality(Holders(o)) \in Nat
        /\ IsFiniteSet(Holders(o))
    BY <1>2, ProcSubsets
  <1>4. PipeRef = others + (Cardinality(Holders(e)) + Cardinality(Holders(o)))
    <2>1. PipeRef = others + (Cardinality(Holders("read")) + Cardinality(Holders("write")))
      BY PipeRefSum DEF IInv, TypeOK
    <2>2. CASE e = "read" /\ o = "write"
      BY <2>1, <2>2
    <2>3. CASE e = "write" /\ o = "read"
      BY <2>1, <2>3, <1>3
    <2> QED
      BY <2>2, <2>3 DEF EndOf, OtherEnd
  <1>5. pfd[p] <= others + Cardinality(Holders(e))
    BY <1>1 DEF IInv, CountInv
  <1>6. Cardinality(Holders(o)) = 0
    BY <1>3, <1>4, <1>5 DEF Closed, IInv, TypeOK
  <1>7. Holders(o) = {}
    BY <1>3, <1>6, FS_EmptySet
  <1> QED
    BY <1>7 DEF Holders, IsOpen, IInv, MapInv

\* A process is told that the other end is closed only if it is, or if an end
\* like its own was closed, or a process went away, between its two counts.
THEOREM ClosedIsClosed == Spec => ClosedOrRaced
  <1> DEFINE A == \A p \in Proc :
                InCheck(p) /\ pc'[p] = "user" /\ i[p] = 0 =>
                    ~IsOpen(OtherEnd(EndOf(p))) \/ raced[p]
  <1>1. IInv /\ [Next]_vars => [A]_vars
    BY ToldClosed, EqualCounts
  <1> QED
    BY <1>1, PipeInvariant, PTL DEF Spec, ClosedOrRaced

=============================================================================
