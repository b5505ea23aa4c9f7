--------------------------------- MODULE Pio ---------------------------------
(***************************************************************************)
(* The ATA driver kernel/disk/PIO.c: readsectorpio and writesectorpio      *)
(* against two channels of two disks each.  The driver writes registers    *)
(* one by one, then polls the status before each sector; a disk takes its  *)
(* time for every sector.  The registers for address and count are two     *)
(* bytes deep: a second write pushes the first one up.  They keep what     *)
(* earlier calls have left in them.                                        *)
(*                                                                         *)
(* Bytes are digits to the base BYTE.  A word of a sector is named by the  *)
(* disk, the sector and its place.  A disk that does not exist ignores     *)
(* commands, and a disk never gets ready for a sector that it does not     *)
(* have: the driver then polls for ever.  writesectorpio puts single bytes *)
(* (outb) on the data port, which is two bytes wide: a disk takes each for *)
(* a word, of which only the low byte is the caller's, or it ignores them  *)
(* (QEMU does).  Module Disk has the callers.                              *)
(***************************************************************************)
EXTENDS Integers, Sequences, FiniteSets, SequencesExt

CONSTANTS
  BYTE,          \* values of a byte (256)
  WORDS,         \* words of a sector (256)
  SECTORS,       \* sectors of a disk
  Requests       \* arguments of the callers: [LBA, count]

VARIABLES
  content,       \* [disk]: what the disks that exist hold, and whether they
                 \* take a byte on the data port (takes : BOOLEAN)
  call,          \* the call that is running: [op, LBA, count, disk]
  pc,            \* "idle", "poll", "out", "busy", "ready", "data" or "identify"
  step,          \* registers written
  sectors,       \* sectors transferred: i
  words,         \* words of this sector transferred: j
  buf,           \* what readsectorpio has stored
  regs,          \* [channel][register]: <<previous, current>> byte
  bsy, drq,      \* [channel]: status bits
  job,           \* [channel]: the command that the disk carries out
  stored         \* history: the bytes of the caller that have been stored

driverVars == <<call, pc, step, sectors, words, buf>>
deviceVars == <<regs, bsy, drq, job, stored>>
pioVars == <<content, driverVars, deviceVars>>

Channels == {"PRIMARY", "SECOND"}
Registers == {"DHR", "SEC", "LBALO", "LBAMID", "LBAHI"}
NoJob == [op |-> "none", disk |-> 0, LBA |-> 0, word |-> 0, left |-> 0]
NoCall == [op |-> "none", LBA |-> 0, count |-> 0, disk |-> 0]

(* How many values two, four, six and eight bytes have.                    *)
TwoBytes == BYTE * BYTE
FourBytes == TwoBytes * TwoBytes
SixBytes == FourBytes * TwoBytes
EightBytes == FourBytes * FourBytes

ASSUME PioAssumption ==
  /\ BYTE \in Nat \ {0, 1} /\ WORDS \in Nat \ {0}
  /\ SECTORS \in 1 .. SixBytes - FourBytes
  /\ Requests \subseteq [LBA : Nat, count : 1 .. TwoBytes - 1]
  /\ \A r \in Requests : r.LBA + r.count <= SECTORS

Disks == DOMAIN content

(* A number shifted right by k bytes.                                      *)
Shifted(n, k) ==
  LET once(m) == m \div BYTE
  IN  CASE k = 0 -> n
        [] k = 1 -> once(n)
        [] k = 2 -> once(once(n))
        [] k = 3 -> once(once(once(n)))
        [] k = 4 -> once(once(once(once(n))))
        [] k = 5 -> once(once(once(once(once(n)))))

(* Mutant: the rest of the number is not cut off.                          *)
Byte_wide(n, k) == Shifted(n, k)

(* Mutant: only two bytes of a number are sent.                            *)
Byte_of_two(n, k) == IF k < 2 THEN Shifted(n, k) % BYTE ELSE 0

Byte(n, k) == Shifted(n, k) % BYTE

-----------------------------------------------------------------------------
(* The driver                                                              *)

Channel(disk) == IF disk >= 2 THEN "SECOND" ELSE "PRIMARY"

Drive(c) == c.disk % 2

(* What goes to which register, in order, before the command; init_disk    *)
(* sets each register only once.                                           *)
Outs(c) ==
  <<<<"DHR", Drive(c)>>,
    <<"SEC", Byte(c.count, 1)>>, <<"LBALO", Byte(c.LBA, 3)>>,
    <<"LBAMID", Byte(c.LBA, 4)>>, <<"LBAHI", Byte(c.LBA, 5)>>>>
  \o IF c.op = "identify" THEN <<>> ELSE
  <<<<"SEC", Byte(c.count, 0)>>, <<"LBALO", Byte(c.LBA, 0)>>,
    <<"LBAMID", Byte(c.LBA, 1)>>, <<"LBAHI", Byte(c.LBA, 2)>>>>

Start(op, request, disk) ==
  /\ pc = "idle"
  /\ call' = [op |-> op, LBA |-> request.LBA, count |-> request.count, disk |-> disk]
  /\ pc' = "poll"
  /\ step' = 0 /\ sectors' = 0 /\ words' = 0 /\ buf' = <<>>
  /\ stored' = {}
  /\ UNCHANGED <<content, regs, bsy, drq, job>>

Port == Channel(call.disk)
Goto(next) == pc' = next

(* poll(BSY)                                                               *)
PollFree ==
  /\ pc = "poll"
  /\ ~bsy[Port]
  /\ Goto("out")
  /\ UNCHANGED <<content, call, step, sectors, words, buf, deviceVars>>

(* The disk's side of a register.                                          *)
Push(port, register, byte) ==
  regs' = [regs EXCEPT ![port][register] = <<@[2], byte>>]

OutRegister ==
  /\ pc = "out" /\ step < Len(Outs(call))
  /\ Push(Port, Outs(call)[step + 1][1], Outs(call)[step + 1][2])
  /\ step' = step + 1
  /\ UNCHANGED <<content, call, pc, sectors, words, buf, bsy, drq, job, stored>>

(* The disk's side of a command: it is busy from now on.  A count of 0     *)
(* stands for the largest number.                                          *)
Low(port, register) == regs[port][register][2]
High(port, register) == regs[port][register][1]
Joined(low, high) == low + BYTE * high
AddressOf(port) ==
  Joined(Low(port, "LBALO"),
    Joined(Low(port, "LBAMID"),
      Joined(Low(port, "LBAHI"),
        Joined(High(port, "LBALO"),
          Joined(High(port, "LBAMID"), High(port, "LBAHI"))))))
CountOf(port) ==
  LET n == Joined(Low(port, "SEC"), High(port, "SEC")) IN IF n = 0 THEN TwoBytes ELSE n
DiskOf(port) == Low(port, "DHR") + (IF port = "SECOND" THEN 2 ELSE 0)

OutCommand ==
  /\ pc = "out" /\ step = Len(Outs(call))
  /\ LET answers == DiskOf(Port) \in Disks
     IN  /\ job' = [job EXCEPT ![Port] =
                      IF ~answers THEN NoJob
                      ELSE [op |-> call.op, disk |-> DiskOf(Port), LBA |-> AddressOf(Port), word |-> 0,
                            left |-> IF call.op = "identify" THEN 1 ELSE CountOf(Port)]]
         /\ bsy' = [bsy EXCEPT ![Port] = answers]
         /\ drq' = [drq EXCEPT ![Port] = FALSE]
  /\ Goto(IF call.op = "identify" THEN "identify" ELSE "busy")
  /\ UNCHANGED <<content, call, step, sectors, words, buf, regs, stored>>

(* smalldelay and poll(BSY); then antipoll(DRQ).                           *)
PollBusy ==
  /\ pc = "busy"
  /\ ~bsy[Port]
  /\ Goto("ready")
  /\ UNCHANGED <<content, call, step, sectors, words, buf, deviceVars>>

PollReady ==
  /\ pc = "ready"
  /\ drq[Port]
  /\ Goto("data")
  /\ UNCHANGED <<content, call, step, sectors, words, buf, deviceVars>>

(* The disk's side of the data port: after the last word of a sector it is *)
(* busy with the next one, if there is one.  A disk that has been given    *)
(* the last word to write is busy until the sector is stored.              *)
WordName(j) == <<j.disk, j.LBA, j.word>>
NextWord(port) ==
  LET j == job[port]
      last == j.word = WORDS - 1
      left == IF last THEN j.left - 1 ELSE j.left
  IN  /\ job' = [job EXCEPT ![port] =
                   IF left = 0 THEN NoJob
                   ELSE [op |-> j.op, disk |-> j.disk, LBA |-> IF last THEN j.LBA + 1 ELSE j.LBA,
                         word |-> IF last THEN 0 ELSE j.word + 1, left |-> left]]
      /\ drq' = [drq EXCEPT ![port] = ~last]
      /\ bsy' = [bsy EXCEPT ![port] =
                   last /\ (left # 0 \/ j.op = "write")]

(* Mutant: the loop over the sectors waits for the first one only.         *)
AfterWord_no_wait ==
  IF words + 1 < WORDS THEN "data" ELSE IF sectors + 1 < call.count THEN "data" ELSE "idle"

AfterWord ==
  IF words + 1 < WORDS THEN "data" ELSE IF sectors + 1 < call.count THEN "busy" ELSE "idle"

(* A word counts for both sides: j, i and the loops over them.             *)
CountWord ==
  /\ pc = "data"
  /\ words' = (words + 1) % WORDS
  /\ sectors' = IF words + 1 = WORDS THEN sectors + 1 ELSE sectors
  /\ Goto(AfterWord)
  /\ UNCHANGED <<content, call, step, regs>>

(* inw                                                                     *)
ReadWord ==
  /\ CountWord /\ call.op = "read"
  /\ buf' = Append(buf, WordName(job[Port]))
  /\ NextWord(Port)
  /\ UNCHANGED stored

(* outb of the low byte of a word of the caller's buffer.  The other half  *)
(* of the word is not the caller's.                                        *)
LowByte(word) == <<word, "low">>
TakeBytes == {d \in Disks : content[d].takes}

WriteByte ==
  /\ CountWord /\ call.op = "write"
  /\ IF job[Port].disk \in TakeBytes
       THEN stored' = stored \cup {LowByte(WordName(job[Port]))} /\ NextWord(Port)
       ELSE UNCHANGED <<stored, job, drq, bsy>>
  /\ UNCHANGED buf

-----------------------------------------------------------------------------
(* A disk has found a sector, or is ready to take one, or is done.  It     *)
(* reports an error and no data for a sector that it does not have.  A     *)
(* channel without disks may float: its status then reads as busy.         *)
Present(port) == \E disk \in Disks : Channel(disk) = port
Has(j) == j.op = "identify" \/ j.LBA < SECTORS

DiskReady(port) ==
  /\ bsy[port] /\ Present(port)
  /\ bsy' = [bsy EXCEPT ![port] = FALSE]
  /\ drq' = [drq EXCEPT ![port] = job[port] # NoJob /\ Has(job[port])]
  /\ UNCHANGED <<content, driverVars, regs, job, stored>>

PioInit ==
  /\ call = NoCall /\ pc = "idle" /\ step = 0 /\ sectors = 0 /\ words = 0 /\ buf = <<>>
  /\ regs = [port \in Channels |-> [r \in Registers |-> <<0, 0>>]]
  /\ bsy \in [Channels -> BOOLEAN]
  /\ \A port \in Channels : bsy[port] => ~Present(port)
  /\ drq = [port \in Channels |-> FALSE]
  /\ job = [port \in Channels |-> NoJob]
  /\ stored = {}

DriverStep ==
  PollFree \/ OutRegister \/ OutCommand \/ PollBusy \/ PollReady \/ ReadWord \/ WriteByte

-----------------------------------------------------------------------------
(* Properties                                                              *)

PioTypeOK ==
  /\ pc \in {"idle", "poll", "out", "busy", "ready", "data", "identify"}
  /\ regs \in [Channels -> [Registers -> (0 .. BYTE - 1) \X (0 .. BYTE - 1)]]
  /\ bsy \in [Channels -> BOOLEAN] /\ drq \in [Channels -> BOOLEAN]
  /\ call \in [op : {"none", "identify", "read", "write"}, LBA : Nat, count : Nat, disk : 0 .. 3]
  /\ job \in [Channels -> [op : {"none", "identify", "read", "write"}, disk : 0 .. 3, LBA : Nat,
                           word : 0 .. WORDS - 1, left : Nat]]
  /\ step \in 0 .. 9
  /\ sectors \in 0 .. call.count
  /\ words \in 0 .. WORDS - 1

(* The words of the sectors that a call asks for, in order.                *)
Wanted(c) ==
  [n \in 1 .. c.count * WORDS |-> <<c.disk, c.LBA + ((n - 1) \div WORDS), (n - 1) % WORDS>>]

(* readsectorpio stores the words of the sectors asked for, from the disk  *)
(* asked for, in order, whatever earlier calls have left in the registers, *)
(* and all of them when it returns.  writesectorpio touches no word        *)
(* outside the sectors asked for.  When it returns it has stored one half  *)
(* of each of their words on a disk that takes bytes, never the other, and *)
(* nothing on a disk that does not.                                        *)
TransfersSectors ==
  /\ call.op = "read" =>
       /\ IsPrefix(buf, Wanted(call))
       /\ pc = "idle" => buf = Wanted(call)
  /\ call.op = "write" =>
       LET half == {LowByte(word) : word \in ToSet(Wanted(call))}
       IN  /\ stored \subseteq half
           /\ pc = "idle" => stored = IF call.disk \in TakeBytes THEN half ELSE {}

(* Driver and disk keep in step.  Registers are written only while the     *)
(* disk is not busy, not even with storing what the previous call has      *)
(* written.  The data port is used only when the disk has a word to give   *)
(* or to take: the next sector is waited for although the status of the    *)
(* last one said ready.  When a call returns the disk has no word left, so *)
(* that the next command does not cut it off.  Two things may be left: the *)
(* answer to IDENTIFY, which init_disk does not wait for, and a whole      *)
(* write on a disk that ignores bytes.                                     *)
DriverInStep ==
  /\ pc = "out" => ~bsy[Port]
  /\ pc = "data" => drq[Port] /\ ~bsy[Port]
  /\ pc = "idle" =>
       \A port \in Channels :
         \/ job[port] = NoJob /\ ~drq[port]
         \/ job[port].op = "identify"
         \/ /\ job[port].op = "write" /\ job[port].disk \notin TakeBytes
            /\ job[port].word = 0
=============================================================================
