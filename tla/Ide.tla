---------------------------------- MODULE Ide ----------------------------------
(***************************************************************************)
(* The disk driver of ide.c, hardDriverInit, hardReadWait and hardWrite,   *)
(* and the drive at the other end of its ports.  The drive works on its    *)
(* own: it may finish a command between any two accesses of the driver.    *)
(*                                                                         *)
(* Operator precedence makes the condition of the driver's wait loop       *)
(* (state & 1) && (state & 1) != 1, which never holds: hardReadWait looks  *)
(* at the status once, and only at the error bit.                          *)
(***************************************************************************)
EXTENDS Integers

CONSTANTS
  BYTE,     \* number of values of a sector number register; 256
  NIBBLE,   \* number of values of the low half of the device register; 16
  Data,     \* contents of a sector
  MaxCalls, \* bound on the number of calls of the driver
  Traits    \* what the drive is like, see below

ASSUME RegistersAssumption == BYTE \in Nat \ {0} /\ NIBBLE \in Nat \ {0}
ASSUME CallsAssumption == MaxCalls \in Nat
ASSUME DataAssumption == Data # {}

(***************************************************************************)
(* "slow":   the driver may access a port before a command is finished;    *)
(* "strict": a drive with data to transfer ignores commands, as one that   *)
(*           is busy does;                                                 *)
(* "faulty": the drive may fail to store a sector it has accepted.         *)
(***************************************************************************)
ASSUME TraitsAssumption == Traits \subseteq {"slow", "strict", "faulty"}

Sector == 0 .. BYTE * BYTE * BYTE * NIBBLE - 1

SEC_PER_BLK == 1

Block == {b \in Sector : b * SEC_PER_BLK \in Sector}

VARIABLES
  pc,     \* where the driver is
  req,    \* the block, and for a write the data, of the current call
  regs,   \* the sector number registers and the device register
  drive,  \* "idle", "busy", "drq" or "error"
  cmd,    \* the command the drive has last accepted, with its sector
  buf,    \* the sector the drive has accepted to store
  media,  \* the sectors
  got,    \* what the last read returned
  wrote,  \* what the callers have written to each block
  calls   \* number of calls

vars == <<pc, req, regs, drive, cmd, buf, media, got, wrote, calls>>

None == [none |-> TRUE]

SomeData == CHOOSE d \in Data : TRUE

Init ==
  /\ pc = "init" /\ req = None /\ got = None /\ calls = 0
  /\ regs = <<0, 0, 0, 0>>
  /\ drive = "idle" /\ cmd = [op |-> "none", lba |-> 0] /\ buf = SomeData
  /\ media = [s \in Sector |-> SomeData]
  /\ wrote = [b \in Block |-> SomeData]

------------------------------------------------------------------------------
(* The ports *)

\* The driver's next access of a port.
Access == drive # "busy" \/ "slow" \in Traits

\* The drive ignores what is written to its registers.
Deaf == drive = "busy" \/ ("strict" \in Traits /\ drive = "drq")

\* Mutants of Split: a shift by 15 where the code has 16; no mask.
SplitShort(s) == << s % BYTE, (s \div BYTE) % BYTE, (s \div (BYTE * (BYTE \div 2))) % BYTE,
                    (s \div (BYTE * BYTE * BYTE)) % NIBBLE >>
SplitWide(s) == << s, (s \div BYTE) % BYTE, (s \div (BYTE * BYTE)) % BYTE,
                   (s \div (BYTE * BYTE * BYTE)) % NIBBLE >>

\* A sector number as the driver spreads it over four registers.
Split(s) == << s % BYTE, (s \div BYTE) % BYTE, (s \div (BYTE * BYTE)) % BYTE,
               (s \div (BYTE * BYTE * BYTE)) % NIBBLE >>

\* The sector number the drive finds there.
Join(r) == r[1] + BYTE * (r[2] + BYTE * (r[3] + BYTE * r[4]))

Write(s) == regs' = IF Deaf THEN regs ELSE Split(s)

Command(op) ==
  IF Deaf THEN UNCHANGED <<drive, cmd>>
          ELSE drive' = "busy" /\ cmd' = [op |-> op, lba |-> Join(regs)]

------------------------------------------------------------------------------
(* The driver *)

\* hardDriverInit up to the identify command, and its wait loop, which is
\* right.  fsInit does not look at the result, and nobody reads the data.
InitProgram == /\ pc = "init" /\ Access /\ Write(0) /\ pc' = "identify"
               /\ UNCHANGED <<req, drive, cmd, buf, media, got, wrote, calls>>

InitIdentify == /\ pc = "identify" /\ Access /\ Command("identify") /\ pc' = "poll"
                /\ UNCHANGED <<req, regs, buf, media, got, wrote, calls>>

InitDone == /\ pc = "poll" /\ drive # "busy" /\ pc' = "idle"
            /\ UNCHANGED <<req, regs, drive, cmd, buf, media, got, wrote, calls>>

Call(r, p) == /\ pc = "idle" /\ calls < MaxCalls /\ Access
              /\ calls' = calls + 1
              /\ req' = r /\ Write(r.block * SEC_PER_BLK) /\ pc' = p
              /\ UNCHANGED <<drive, cmd, buf, media, got, wrote>>

hardReadWait == \E b \in Block : Call([block |-> b], "read")

ReadCommand == /\ pc = "read" /\ Access /\ Command("read") /\ pc' = "status"
               /\ UNCHANGED <<req, regs, buf, media, got, wrote, calls>>

\* Mutant of ReadStatus: the error bit is not looked at.
ReadStatusBlind ==
  /\ pc = "status" /\ Access
  /\ pc' = "receive" /\ UNCHANGED got
  /\ UNCHANGED <<req, regs, drive, cmd, buf, media, wrote, calls>>

ReadStatus ==
  /\ pc = "status" /\ Access
  /\ \/ drive = "error" /\ pc' = "idle" /\ got' = None
     \/ drive # "error" /\ pc' = "receive" /\ UNCHANGED got
  /\ UNCHANGED <<req, regs, drive, cmd, buf, media, wrote, calls>>

\* insl.  Without a sector to read, the data port reads as anything.
ReadReceive ==
  /\ pc = "receive" /\ Access
  /\ \E d \in Data :
       /\ drive = "drq" /\ cmd.op = "read" => d = media[cmd.lba]
       /\ got' = [block |-> req.block, data |-> d]
  /\ drive' = IF drive = "drq" /\ cmd.op \in {"read", "identify"} THEN "idle" ELSE drive
  /\ pc' = "idle"
  /\ UNCHANGED <<req, regs, cmd, buf, media, wrote, calls>>

hardWrite == \E b \in Block, d \in Data : Call([block |-> b, data |-> d], "write")

WriteCommand == /\ pc = "write" /\ Access /\ Command("write") /\ pc' = "send"
                /\ UNCHANGED <<req, regs, buf, media, got, wrote, calls>>

\* outsl, and success whatever happened.
WriteSend ==
  /\ pc = "send" /\ Access
  /\ \/ /\ drive = "drq" /\ cmd.op = "write"
        /\ buf' = req.data /\ drive' = "busy" /\ cmd' = [cmd EXCEPT !.op = "store"]
     \/ /\ ~(drive = "drq" /\ cmd.op = "write")
        /\ UNCHANGED <<buf, drive, cmd>>
  /\ wrote' = [wrote EXCEPT ![req.block] = req.data]
  /\ pc' = "idle"
  /\ UNCHANGED <<req, regs, media, got, calls>>

------------------------------------------------------------------------------
(* The drive *)

\* It is ready to transfer, or has found an error.
Ready == /\ drive = "busy" /\ cmd.op \in {"identify", "read", "write"}
         /\ \/ drive' = "drq"
            \/ drive' = "error" /\ (cmd.op = "write" => "faulty" \in Traits)
         /\ UNCHANGED <<pc, req, regs, cmd, buf, media, got, wrote, calls>>

Stored == /\ drive = "busy" /\ cmd.op = "store"
          /\ \/ drive' = "idle" /\ media' = [media EXCEPT ![cmd.lba] = buf]
             \/ drive' = "error" /\ "faulty" \in Traits /\ UNCHANGED media
          /\ UNCHANGED <<pc, req, regs, cmd, buf, got, wrote, calls>>

Next == \/ InitProgram \/ InitIdentify \/ InitDone
        \/ hardReadWait \/ ReadCommand \/ ReadStatus \/ ReadReceive
        \/ hardWrite \/ WriteCommand \/ WriteSend
        \/ Ready \/ Stored

Spec == Init /\ [][Next]_vars

------------------------------------------------------------------------------
(* Properties *)

TypeOK ==
  /\ pc \in {"init", "identify", "poll", "idle", "read", "status", "receive",
             "write", "send"}
  /\ req \in {None} \cup [block : Block] \cup [block : Block, data : Data]
  /\ regs[1] \in 0 .. BYTE - 1 /\ regs[2] \in 0 .. BYTE - 1
  /\ regs[3] \in 0 .. BYTE - 1 /\ regs[4] \in 0 .. NIBBLE - 1
  /\ drive \in {"idle", "busy", "drq", "error"}
  /\ cmd \in [op : {"none", "identify", "read", "write", "store"}, lba : Sector]
  /\ buf \in Data
  /\ media \in [Sector -> Data] /\ wrote \in [Block -> Data]
  /\ got \in {None} \cup [block : Block, data : Data]
  /\ calls \in 0 .. MaxCalls

(***************************************************************************)
(* ide.h:95, "hardReadWait: hard read (directly, not interrupt)", and      *)
(* ide.c:167, "wait to read": a read that does not fail returns what was   *)
(* last written to the block (hardReadWait, hardWrite).                    *)
(***************************************************************************)
ReadsBack ==
  [][pc = "receive" /\ pc' = "idle" => got'.data = wrote[got'.block]]_vars

(***************************************************************************)
(* ide.h:100, "hardWrite: write to disk": when the drive is done, each     *)
(* block is where it was written, and no other sector has changed          *)
(* (hardWrite, the sector number registers).                               *)
(***************************************************************************)
WritesLand ==
  pc = "idle" /\ drive # "busy" =>
    \A b \in Block : media[b * SEC_PER_BLK] = wrote[b]
==============================================================================
