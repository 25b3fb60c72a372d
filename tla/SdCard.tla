------------------------------- MODULE SdCard -------------------------------
(***************************************************************************)
(* The SD card driver (kernel/driver/sd.c) against the card at the other   *)
(* end of the SPI bus: power-up, the multi-block read with its stop        *)
(* command and its checksum, the block-by-block write, the time-outs and   *)
(* the retries of both.                                                    *)
(*                                                                         *)
(* A poll loop of the driver is one step, with the outcomes that end it:   *)
(* the byte waited for, or the end of the count.  The card is external: it *)
(* may be late, refuse a command, send a block with a wrong checksum, lose *)
(* the stop command, reject a block, or store it and lose the answer.  It  *)
(* is assumed to answer a command with a response of its own (never with a *)
(* byte of a block), and a checksum that fits means that the block is      *)
(* right.  System calls run with interrupts off: one call at a time.       *)
(***************************************************************************)
EXTENDS Integers

CONSTANTS
    SectorCount,    \* sectors of the card
    SectorSpan,     \* sectors a 32-bit byte address reaches, 2^32 / 512
    MaxSector,      \* bound on startSector, any 64-bit number in a system call
    Data,           \* contents of a sector
    MaxLength,      \* bound on sectorNumber
    MaxTries,       \* retries before the driver panics, 10
    InitTimes       \* tries of CMD0, 10

ASSUME SizeAssumption ==
    SectorCount \in Nat /\ MaxSector \in Nat /\ SectorSpan \in Nat \ {0}
ASSUME BoundAssumption ==
    MaxLength \in Nat \ {0} /\ MaxTries \in Nat /\ InitTimes \in Nat \ {0}

VARIABLES
    pc,         \* where the driver is, see Place
    op,         \* the call: "none", "read" or "write"
    start,      \* its startSector
    number,     \* its sectorNumber
    buf,        \* the caller's buffer, by sectors
    p,          \* sectors of buf done: p - buf in the code, and i in sdWrite
    tot,        \* sectors still to read
    rc,         \* the result
    times,      \* readTimes, writeTimes, or the tries of CMD0 used up
    disk,       \* the card's sectors
    stream,     \* the sector a multi-block read sends next, or NoStream
    before      \* history: the card's sectors when the call was made

driverVars == <<op, start, number, buf, p, tot, rc, times>>
vars == <<pc, driverVars, disk, stream, before>>

Sector == 0 .. SectorCount - 1
Index == 0 .. MaxLength - 1
NoStream == -1

Place == {"cmd0", "cmd8", "acmd41", "cmd16", "idle", "read_cmd", "read_block",
          "read_stop", "write_cmd", "write_block", "panic"}

Init ==
    /\ pc = "cmd0"
    /\ op = "none" /\ start = 0 /\ number = 0
    /\ buf \in [Index -> Data]
    /\ p = 0 /\ tot = 0 /\ rc = 0 /\ times = 0
    /\ disk \in [Sector -> Data] /\ before = disk
    /\ stream = NoStream

Goto(place) == pc' = place

-----------------------------------------------------------------------------
(* sdInit.  sd_cmd58 returns 0 in this build.                              *)

Cmd0 ==
    /\ pc = "cmd0"
    /\ \/ Goto("cmd8") /\ UNCHANGED times
       \/ times' = times + 1 /\ Goto(IF times' < InitTimes THEN "cmd0" ELSE "panic")
    /\ UNCHANGED <<op, start, number, buf, p, tot, rc, disk, stream, before>>

\* A wrong answer panics.  CMD41 is repeated for as long as the card says
\* that it is starting up.
PowerUp(here, next) ==
    /\ pc = here
    /\ Goto(next) \/ Goto("panic") \/ (here = "acmd41" /\ Goto("acmd41"))
    /\ UNCHANGED <<driverVars, disk, stream, before>>

sdInit ==
    \/ Cmd0
    \/ PowerUp("cmd8", "acmd41")
    \/ PowerUp("acmd41", "cmd16")
    \/ PowerUp("cmd16", "idle")

-----------------------------------------------------------------------------
(* A call and its retries.                                                 *)

\* The byte address is the sector times 512, cut to a 32-bit argument.
Address(sector) == sector % SectorSpan

Call(which, sector, length, contents) ==
    /\ pc = "idle"
    /\ op' = which /\ start' = sector /\ number' = length /\ buf' = contents
    /\ p' = 0 /\ tot' = length /\ rc' = 0 /\ times' = 0
    /\ before' = disk
    /\ UNCHANGED <<disk, stream>>

CallRead == \E sector \in 0 .. MaxSector, length \in 0 .. MaxLength :
    Call("read", sector, length, buf) /\ Goto("read_cmd")

\* The loop over the sectors is not entered for none.
CallWrite == \E sector \in 0 .. MaxSector, length \in 0 .. MaxLength,
                contents \in [Index -> Data] :
    /\ Call("write", sector, length, contents)
    /\ Goto(IF length = 0 THEN "idle" ELSE "write_cmd")

\* Mutant: the retry is not counted.
RetryUncounted(again) == Goto(again) /\ UNCHANGED times

\* The label retry of both functions.
Retry(again) ==
    times' = times + 1 /\ Goto(IF times' > MaxTries THEN "panic" ELSE again)

\* A response other than 0 to CMD18 or CMD24 panics at once, also in a retry.
Refused == Goto("panic") /\ UNCHANGED <<driverVars, stream>>

-----------------------------------------------------------------------------
(* sdRead.                                                                 *)

\* Mutant: the buffer is not rewound.
RestartWithoutRewinding == tot' = number /\ p' = p /\ rc' = 0

\* The label start: the whole transfer begins again.
Restart == tot' = number /\ p' = 0 /\ rc' = 0

Cmd18 ==
    /\ pc = "read_cmd"
    /\ \/ Refused
       \/ /\ Address(start) \in Sector
          /\ stream' = Address(start)
          /\ Restart
          /\ Goto("read_block")
          /\ UNCHANGED <<op, start, number, buf, times>>
    /\ UNCHANGED <<disk, before>>

\* Mutant: a block with a wrong checksum does not end the loop.
EndOfBlockIgnoringCrc(good) ==
    tot' = tot - 1 /\ rc' = rc /\ Goto(IF tot' > 0 THEN "read_block" ELSE "read_stop")

\* --tot > 0, and the break after a wrong checksum, which leaves rc = 1.
EndOfBlock(good) ==
    \/ /\ good
       /\ tot' = tot - 1 /\ rc' = rc
       /\ Goto(IF tot' > 0 THEN "read_block" ELSE "read_stop")
    \/ /\ ~good
       /\ tot' = tot /\ rc' = 1
       /\ Goto("read_stop")

\* The bytes go to the buffer before the checksum is known.
ReceiveBlock ==
    /\ stream \in Sector
    /\ \E good \in BOOLEAN, bytes \in Data :
        /\ good => bytes = disk[stream]
        /\ buf' = [buf EXCEPT ![p] = bytes]
        /\ p' = p + 1
        /\ EndOfBlock(good)
    /\ stream' = stream + 1
    /\ UNCHANGED <<op, start, number, times>>

\* No start token in MAX_TIMES polls: no stop command is sent either.
TokenTimeout ==
    /\ Retry("read_cmd")
    /\ UNCHANGED <<op, start, number, buf, p, tot, rc, stream>>

ReadBlock ==
    /\ pc = "read_block"
    /\ ReceiveBlock \/ TokenTimeout
    /\ UNCHANGED <<disk, before>>

\* CMD12; its response is not looked at, and the card may not have heard it.
StopReading ==
    /\ pc = "read_stop"
    /\ stream' \in {stream, NoStream}
    /\ \/ Goto("idle") /\ UNCHANGED times
       \/ Retry("read_cmd")
    /\ UNCHANGED <<op, start, number, buf, p, tot, rc, disk, before>>

-----------------------------------------------------------------------------
(* sdWrite.                                                                *)

\* Where the i-th sector of a write goes: each has an address of its own.
Target(i) == Address(start + i)

Cmd24 ==
    /\ pc = "write_cmd"
    /\ \/ Refused
       \/ /\ Target(p) \in Sector
          /\ stream' = NoStream
          /\ Goto("write_block")
          /\ UNCHANGED driverVars
    /\ UNCHANGED <<disk, before>>

\* Mutant: a block without an answer counts as written.
UnansweredIsDone ==
    /\ p' = p + 1 /\ times' = 0
    /\ Goto(IF p' < number THEN "write_cmd" ELSE "idle")
    /\ \E bytes \in Data : disk' = [disk EXCEPT ![Target(p)] = bytes]

\* The answer 5 did not come, or the card stays busy: whatever was stored.
NotWritten ==
    /\ Retry("write_cmd")
    /\ p' = p
    /\ \E bytes \in Data : disk' = [disk EXCEPT ![Target(p)] = bytes]

\* The answer 5, then the end of busy; the next sector has its own retries.
Written ==
    /\ disk' = [disk EXCEPT ![Target(p)] = buf[p]]
    /\ p' = p + 1
    /\ times' = IF p' < number THEN 0 ELSE times
    /\ Goto(IF p' < number THEN "write_cmd" ELSE "idle")

WriteBlock ==
    /\ pc = "write_block"
    /\ Written \/ NotWritten
    /\ UNCHANGED <<op, start, number, buf, tot, rc, stream, before>>

-----------------------------------------------------------------------------

sdRead == Cmd18 \/ ReadBlock \/ StopReading
sdWrite == Cmd24 \/ WriteBlock

Next == sdInit \/ CallRead \/ CallWrite \/ sdRead \/ sdWrite

\* A call in progress goes on: it runs with interrupts off and every poll loop
\* has its own count, whatever the card does.
Spec == Init /\ [][Next]_vars
FairSpec == Spec /\ WF_vars(sdRead \/ sdWrite)

-----------------------------------------------------------------------------
(* Properties.                                                             *)

\* The types of the variables.
TypeOK ==
    /\ pc \in Place
    /\ op \in {"none", "read", "write"}
    /\ start \in 0 .. MaxSector /\ number \in 0 .. MaxLength
    /\ buf \in [Index -> Data]
    /\ p \in 0 .. MaxLength /\ tot \in -1 .. MaxLength /\ rc \in {0, 1}
    /\ times \in Nat
    /\ disk \in [Sector -> Data] /\ before \in [Sector -> Data]
    /\ stream \in {NoStream} \union 0 .. SectorCount

\* A read that returns 0 has filled the buffer with as many sectors, from the
\* one its 32-bit byte address names on, whatever was late, lost or corrupt on
\* the way (sdRead).
ReadDelivers ==
    pc = "idle" /\ op = "read" /\ rc = 0 =>
        \A i \in 0 .. number - 1 :
            Address(start) + i \in Sector /\ buf[i] = disk[Address(start) + i]

\* The last sector of the request that a write has come to.
InHand == IF p < number THEN p ELSE number - 1

\* At every moment of a write, also when it ends in a panic, the sectors that
\* the done ones are addressed to hold the caller's data, except where a later
\* one of the call has the same address, and nothing else but the sector in hand
\* has changed (sdWrite); when it has returned, that is the whole request.
WritesInOrder ==
    op = "write" =>
        /\ \A i \in 0 .. p - 1 :
            /\ Target(i) \in Sector
            /\ \/ disk[Target(i)] = buf[i]
               \/ \E j \in i + 1 .. InHand : Target(j) = Target(i)
        /\ \A s \in Sector :
            (\A i \in 0 .. InHand : Target(i) # s) => disk[s] = before[s]
        /\ pc = "idle" => p = number

\* Every read and every write ends, in a return or in a panic, however the
\* card behaves (sdRead, sdWrite).
CallEnds == pc \notin {"idle", "panic"} /\ op # "none" ~> pc \in {"idle", "panic"}

=============================================================================
