---------------------------- MODULE SdCardProofs ----------------------------
(***************************************************************************)
(* Theorems about SdCard, for a card of any size, any first sector, any    *)
(* number of sectors per call and any number of retries: the types are     *)
(* right, a read that reports success has delivered the sectors that its   *)
(* address names, and a write keeps to those that its addresses name.      *)
(***************************************************************************)
EXTENDS SdCard, TLAPS

Reading == {"read_cmd", "read_block", "read_stop"}
Writing == {"write_cmd", "write_block"}
Starting == {"cmd0", "cmd8", "acmd41", "cmd16"}

\* The first so many sectors of the call are in the buffer.
Delivered(count) == \A i \in 0 .. count - 1 :
    Address(start) + i \in Sector /\ buf[i] = disk[Address(start) + i]

\* The transfer has read p sectors and tot are left.  A read of no sectors
\* waits for one block all the same.
BlockInv ==
    /\ rc = 0 /\ stream = Address(start) + p /\ tot = number - p
    /\ p < number \/ (number = 0 /\ p = 0)
    /\ Delivered(p)

\* What a read has done, by the place it has come to.
ReadInv ==
    /\ pc \in Starting => op = "none"
    /\ pc \in Reading => op = "read"
    /\ pc = "read_block" => BlockInv
    /\ pc \in {"read_stop", "idle"} /\ op = "read" /\ rc = 0 => Delivered(number)

\* A write that is in progress has a sector to write.
WriteInv ==
    /\ pc \in Writing => op = "write" /\ p < number
    /\ pc = "write_block" => Target(p) \in Sector
    /\ WritesInOrder

IInv == TypeOK /\ ReadInv /\ WriteInv

-----------------------------------------------------------------------------
(* The initial states.                                                     *)

LEMMA InitHoldsIInv == Init => IInv
  BY SizeAssumption, BoundAssumption
  DEF Init, IInv, TypeOK, ReadInv, WriteInv, WritesInOrder, Delivered, BlockInv, Place,
      Starting, Reading, Writing, NoStream

-----------------------------------------------------------------------------
(* The steps.                                                              *)

LEMMA InitPreserves == IInv /\ sdInit => IInv'
  BY SizeAssumption, BoundAssumption
  DEF IInv, sdInit, Cmd0, PowerUp, Goto, driverVars, TypeOK, ReadInv, WriteInv,
      WritesInOrder, Delivered, BlockInv, Place, Starting, Reading, Writing, Target, InHand

LEMMA CallReadPreserves == IInv /\ CallRead => IInv'
  BY SizeAssumption, BoundAssumption
  DEF IInv, CallRead, Call, Goto, TypeOK, ReadInv, WriteInv,
      WritesInOrder, Delivered, BlockInv, Place, Starting, Reading, Writing, Target, InHand

LEMMA CallWritePreserves == IInv /\ CallWrite => IInv'
  BY SizeAssumption, BoundAssumption
  DEF IInv, CallWrite, Call, Goto, TypeOK, ReadInv, WriteInv,
      WritesInOrder, Delivered, BlockInv, Place, Starting, Reading, Writing, Target, InHand

LEMMA Cmd18Preserves == IInv /\ Cmd18 => IInv'
  <1> SUFFICES ASSUME IInv, Cmd18 PROVE IInv'
    OBVIOUS
  <1>2. TypeOK'
    <2>1. CASE Refused
      BY <2>1 DEF IInv, Cmd18, Refused, Goto, driverVars, TypeOK, Place
    <2>2. CASE ~Refused
      <3>1. Address(start) \in Sector /\ stream' = Address(start) /\ Restart
        BY <2>2 DEF Cmd18
      <3>2. stream' \in 0 .. SectorCount /\ number \in -1 .. MaxLength /\ 0 \in 0 .. MaxLength
        BY <3>1, SizeAssumption, BoundAssumption DEF IInv, TypeOK, Sector
      <3>3. pc' \in Place
        BY <2>2 DEF Cmd18, Goto, Place
      <3> QED
        BY <2>2, <3>1, <3>2, <3>3 DEF IInv, Cmd18, Restart, TypeOK
    <2> QED
      BY <2>1, <2>2
  <1>3. ReadInv'
    BY DEF IInv, Cmd18, Refused, Restart, Goto, driverVars, TypeOK, ReadInv, BlockInv,
           Delivered, Starting, Reading, Sector
  <1>4. WriteInv'
    BY DEF IInv, Cmd18, Refused, Restart, Goto, driverVars, ReadInv, WriteInv, WritesInOrder,
           Reading, Writing
  <1> QED
    BY <1>2, <1>3, <1>4 DEF IInv

\* A block that arrives: it is the sector after those that are there already.
LEMMA ReceiveBlockPreserves ==
    IInv /\ pc = "read_block" /\ ReceiveBlock /\ UNCHANGED <<disk, before>> => IInv'
  <1> SUFFICES ASSUME IInv, pc = "read_block", ReceiveBlock, UNCHANGED <<disk, before>>
               PROVE  IInv'
    OBVIOUS
  <1>1. PICK good \in BOOLEAN, bytes \in Data :
            /\ good => bytes = disk[stream]
            /\ buf' = [buf EXCEPT ![p] = bytes]
            /\ p' = p + 1
            /\ EndOfBlock(good)
    BY DEF ReceiveBlock
  <1>2. BlockInv /\ op = "read"
    BY DEF IInv, ReadInv, Reading
  <1>3. p \in Index
    BY <1>2, BoundAssumption DEF BlockInv, IInv, TypeOK, Index
  <1>4. TypeOK'
    BY <1>1, <1>2, <1>3, SizeAssumption, BoundAssumption
    DEF ReceiveBlock, EndOfBlock, Goto, IInv, TypeOK, BlockInv, Place, Sector, Index
  <1>5. good => \A i \in 0 .. p :
            Address(start) + i \in Sector /\ buf'[i] = disk[Address(start) + i]
    <2> SUFFICES ASSUME good, NEW i \in 0 .. p
                 PROVE  Address(start) + i \in Sector /\ buf'[i] = disk[Address(start) + i]
      OBVIOUS
    <2>1. CASE i = p
      BY <2>1, <1>1, <1>2, <1>3 DEF ReceiveBlock, BlockInv, IInv, TypeOK
    <2>2. CASE i < p
      BY <2>2, <1>1, <1>2, <1>3 DEF Delivered, BlockInv, IInv, TypeOK, Index
    <2> QED
      BY <2>1, <2>2 DEF IInv, TypeOK
  <1> DEFINE first == Address(start)
  <1>a. first \in Nat /\ first' = first
    BY SizeAssumption, BoundAssumption DEF Address, ReceiveBlock, IInv, TypeOK
  <1> HIDE DEF first
  <1>6. ReadInv'
    BY <1>a, <1>1, <1>2, <1>5
    DEF first, ReceiveBlock, EndOfBlock, Goto, IInv, TypeOK, ReadInv, BlockInv, Delivered, Starting, Reading
  <1>7. WriteInv'
    BY <1>1, <1>2 DEF ReceiveBlock, EndOfBlock, Goto, IInv, WriteInv, WritesInOrder, Writing
  <1> QED
    BY <1>4, <1>6, <1>7 DEF IInv

LEMMA TimeoutPreserves ==
    IInv /\ pc = "read_block" /\ TokenTimeout /\ UNCHANGED <<disk, before>> => IInv'
  BY DEF IInv, TokenTimeout, Retry, Goto, TypeOK, ReadInv, WriteInv, WritesInOrder,
         BlockInv, Delivered, Place, Starting, Reading, Writing, Target, InHand

LEMMA StopReadingPreserves == IInv /\ StopReading => IInv'
  BY SizeAssumption
  DEF IInv, StopReading, Retry, Goto, TypeOK, ReadInv, WriteInv, WritesInOrder,
         BlockInv, Delivered, Place, Starting, Reading, Writing, Target, InHand, NoStream

LEMMA SdReadPreserves == IInv /\ sdRead => IInv'
  BY Cmd18Preserves, ReceiveBlockPreserves, TimeoutPreserves, StopReadingPreserves
  DEF sdRead, ReadBlock

LEMMA Cmd24Preserves == IInv /\ Cmd24 => IInv'
  BY SizeAssumption, BoundAssumption
  DEF IInv, Cmd24, Refused, Goto, driverVars, TypeOK, ReadInv, WriteInv, WritesInOrder,
      Delivered, BlockInv, Place, Starting, Reading, Writing, Target, InHand, NoStream

\* A step of a write: the sector in hand, and no other of the card, may change,
\* and the write goes on to the next one only when it holds its data.
LEMMA SectorPreserves ==
    ASSUME IInv, pc = "write_block", UNCHANGED <<op, start, number, buf, before>>,
           NEW bytes \in Data, disk' = [disk EXCEPT ![Target(p)] = bytes],
           p' = p \/ (p' = p + 1 /\ bytes = buf[p]),
           pc' # "idle" \/ p' = number
    PROVE  WritesInOrder'
  <1>1. WritesInOrder /\ op = "write" /\ p < number /\ Target(p) \in Sector
    BY DEF IInv, WriteInv, Writing
  <1>2. p \in Nat /\ number \in Nat /\ disk \in [Sector -> Data]
    BY SizeAssumption, BoundAssumption DEF IInv, TypeOK
  <1>3. InHand = p /\ InHand' \in Int /\ p <= InHand' /\ p' \in {p, p + 1}
    BY <1>1, <1>2 DEF InHand
  <1>4. \A i \in Int : Target(i)' = Target(i)
    BY DEF Target
  <1>5. /\ disk'[Target(p)] = bytes
        /\ \A s \in Sector : s # Target(p) => disk'[s] = disk[s]
    BY <1>1, <1>2
  <1> HIDE DEF Target, InHand
  <1>6. ASSUME NEW i \in 0 .. p' - 1
        PROVE  /\ Target(i) \in Sector
               /\ \/ disk'[Target(i)] = buf[i]
                  \/ \E j \in i + 1 .. InHand' : Target(j) = Target(i)
    <2>1. CASE i = p
      BY <1>1, <1>2, <1>5, <2>1
    <2>2. CASE i # p
      <3>1. i \in 0 .. p - 1
        <4>1. CASE p' = p
          BY <4>1
        <4>2. CASE p' = p + 1
          <5>1. i \in 0 .. (p + 1) - 1
            BY <4>2
          <5> QED
            BY <1>2, <2>2, <5>1
        <4> QED
          BY <1>3, <4>1, <4>2
      <3>2. /\ Target(i) \in Sector
            /\ \/ disk[Target(i)] = buf[i]
               \/ \E j \in i + 1 .. p : Target(j) = Target(i)
        <4>1. \A k \in 0 .. p - 1 :
                /\ Target(k) \in Sector
                /\ \/ disk[Target(k)] = buf[k]
                   \/ \E j \in k + 1 .. InHand : Target(j) = Target(k)
          BY <1>1 DEF WritesInOrder
        <4>2. /\ Target(i) \in Sector
              /\ \/ disk[Target(i)] = buf[i]
                 \/ \E j \in i + 1 .. InHand : Target(j) = Target(i)
          BY <3>1, <4>1, Zenon
        <4> QED
          BY <1>3, <4>2
      <3> DEFINE last == InHand'
      <3>a. last \in Int /\ p <= last
        BY <1>3
      <3> HIDE DEF last
      <3>b. \A j \in i + 1 .. p : j \in i + 1 .. last
        BY <1>2, <3>a, <3>1
      <3>3. \A j \in i + 1 .. p : j \in i + 1 .. InHand'
        BY <3>b DEF last
      <3>4. CASE Target(i) = Target(p)
        <4>1. p \in i + 1 .. InHand'
          BY <1>2, <3>1, <3>3
        <4> QED
          BY <3>2, <3>4, <4>1
      <3>5. CASE Target(i) # Target(p)
        BY <1>5, <3>2, <3>3, <3>5
      <3> QED
        BY <3>4, <3>5
    <2> QED
      BY <2>1, <2>2
  <1>7. ASSUME NEW s \in Sector, \A i \in 0 .. InHand' : Target(i) # s
        PROVE  disk'[s] = before[s]
    <2>1. p \in 0 .. InHand' /\ \A i \in 0 .. InHand : i \in 0 .. InHand'
      BY <1>2, <1>3
    <2>2. disk[s] = before[s]
      BY <1>1, <1>7, <2>1 DEF WritesInOrder
    <2> QED
      BY <1>5, <1>7, <2>1, <2>2
  <1> QED
    <2>1. ASSUME NEW i \in 0 .. p' - 1
          PROVE  /\ Target(i)' \in Sector
                 /\ \/ disk'[Target(i)'] = buf'[i]
                    \/ \E j \in i + 1 .. InHand' : Target(j)' = Target(i)'
      <3>1. i \in Int /\ Target(i)' = Target(i)
        BY <1>2, <1>3, <1>4
      <3>2. \A j \in i + 1 .. InHand' : Target(j)' = Target(j)
        BY <1>3, <1>4, <3>1
      <3> QED
        BY <1>6, <3>1, <3>2
    <2>2. \A s \in Sector :
            (\A i \in 0 .. InHand' : Target(i)' # s) => disk'[s] = before'[s]
      BY <1>3, <1>4, <1>7
    <2> QED
      BY <2>1, <2>2 DEF WritesInOrder

LEMMA WriteBlockPreserves == IInv /\ WriteBlock => IInv'
  <1> SUFFICES ASSUME IInv, WriteBlock PROVE IInv'
    OBVIOUS
  <1>1. pc = "write_block" /\ op = "write" /\ p < number /\ Target(p) \in Sector
    BY DEF IInv, WriteInv, Writing, WriteBlock
  <1>2. p \in Index /\ p \in Nat /\ number \in Nat
    BY <1>1, BoundAssumption DEF IInv, TypeOK, Index
  <1>3. CASE Written
    <2>1. TypeOK'
      BY <1>1, <1>2, <1>3, SizeAssumption, BoundAssumption
      DEF WriteBlock, Written, Goto, IInv, TypeOK, Place
    <2>2. ReadInv'
      BY <1>1, <1>3 DEF WriteBlock, Written, Goto, ReadInv, Starting, Reading
    <2>3. buf[p] \in Data
      BY <1>2 DEF IInv, TypeOK
    <2>4. WritesInOrder'
      <3>1. disk' = [disk EXCEPT ![Target(p)] = buf[p]] /\ p' = p + 1
        BY <1>3 DEF Written
      <3>2. pc' = "idle" => p' = number
        BY <1>1, <1>2, <1>3 DEF Written, Goto
      <3>3. UNCHANGED <<op, start, number, buf, before>>
        BY DEF WriteBlock
      <3> QED
        BY <1>1, <2>3, <3>1, <3>2, <3>3, SectorPreserves
    <2>5. WriteInv'
      BY <1>1, <1>2, <1>3, <2>4 DEF WriteBlock, Written, Goto, WriteInv, Writing
    <2> QED
      BY <2>1, <2>2, <2>5 DEF IInv
  <1>4. CASE NotWritten
    <2>1. PICK bytes \in Data : disk' = [disk EXCEPT ![Target(p)] = bytes]
      BY <1>4 DEF NotWritten
    <2>2. TypeOK'
      BY <1>1, <1>2, <1>4, <2>1 DEF WriteBlock, NotWritten, Retry, Goto, IInv, TypeOK, Place
    <2>3. ReadInv'
      BY <1>1, <1>4 DEF WriteBlock, NotWritten, Retry, Goto, ReadInv, Starting, Reading
    <2>4. p' = p /\ pc' \in {"write_cmd", "panic"}
      BY <1>4 DEF NotWritten, Retry, Goto
    <2>5. WritesInOrder'
      BY <1>1, <1>4, <2>1, <2>4, SectorPreserves DEF WriteBlock
    <2>6. WriteInv'
      BY <1>1, <1>4, <2>4, <2>5 DEF WriteBlock, WriteInv, Writing
    <2> QED
      BY <2>2, <2>3, <2>6 DEF IInv
  <1> QED
    BY <1>3, <1>4 DEF WriteBlock

LEMMA StutterPreserves == IInv /\ UNCHANGED vars => IInv'
  BY DEF IInv, vars, driverVars, TypeOK, ReadInv, WriteInv, WritesInOrder, BlockInv,
         Delivered, Target, InHand

-----------------------------------------------------------------------------
(* The theorems.                                                           *)

\* IInv, from which the rest follows, holds in every state of the driver.
THEOREM SdCardInvariant == Spec => []IInv
  <1>1. IInv /\ [Next]_vars => IInv'
    BY InitPreserves, CallReadPreserves, CallWritePreserves, SdReadPreserves,
       Cmd24Preserves, WriteBlockPreserves, StutterPreserves
    DEF Next, sdWrite
  <1> QED
    BY <1>1, InitHoldsIInv, PTL DEF Spec

\* The driver's variables, the buffer and the card keep their types.
THEOREM SdCardTypeCorrect == Spec => []TypeOK
  BY SdCardInvariant, PTL DEF IInv

\* A read that returns 0 has filled the buffer with the sectors from its address
\* on, for every first sector and number of sectors.
THEOREM ReadsDeliver == Spec => []ReadDelivers
  <1>1. IInv => ReadDelivers
    BY DEF IInv, ReadInv, ReadDelivers, Delivered
  <1> QED
    BY <1>1, SdCardInvariant, PTL

\* At every moment of a write the sectors addressed so far hold the data, and all
\* others but the one in hand are as they were.
THEOREM WritesKeepOrder == Spec => []WritesInOrder
  BY SdCardInvariant, PTL DEF IInv, WriteInv

=============================================================================
