----------------------------- MODULE DiskProofs -----------------------------
(***************************************************************************)
(* Proofs about modules Pio and Disk, for every size of bytes, sectors and *)
(* disks, every content of the disks and every set of requests.            *)
(***************************************************************************)
EXTENDS Disk, LoopLemmas, SequenceTheorems, TLAPS

-----------------------------------------------------------------------------
(* Numbers and their bytes.                                                *)

LEMMA Sizes ==
  /\ BYTE \in Nat /\ BYTE >= 2
  /\ TwoBytes \in Nat /\ TwoBytes >= 4
  /\ FourBytes \in Nat /\ FourBytes >= 16
  /\ SixBytes \in Nat /\ SixBytes >= 4 * FourBytes
  /\ EightBytes \in Nat /\ EightBytes = SixBytes * TwoBytes
  /\ SixBytes = BYTE * (BYTE * (BYTE * (BYTE * TwoBytes)))
<1>1. ASSUME NEW b \in Nat, b >= 2 PROVE b * b \in Nat /\ b * b >= 4
  BY <1>1
<1>2. ASSUME NEW b \in Nat, b >= 4 PROVE b * b \in Nat /\ b * b >= 16
  BY <1>2
<1>3. ASSUME NEW a \in Nat, NEW b \in Nat, b >= 4 PROVE a * b \in Nat /\ a * b >= 4 * a
  BY <1>3
<1>4. BYTE \in Nat /\ BYTE >= 2
  BY PioAssumption
<1>5. TwoBytes \in Nat /\ TwoBytes >= 4
  BY <1>1, <1>4 DEF TwoBytes
<1>6. FourBytes \in Nat /\ FourBytes >= 16
  BY <1>2, <1>5 DEF FourBytes
<1>7. SixBytes \in Nat /\ SixBytes >= 4 * FourBytes
  BY <1>3, <1>5, <1>6 DEF SixBytes
<1>8. ASSUME NEW f \in Nat, NEW t \in Nat, f = t * t PROVE f * f \in Nat /\ f * f = f * t * t
  BY <1>8
<1>9. EightBytes \in Nat /\ EightBytes = SixBytes * TwoBytes
  BY <1>5, <1>6, <1>8 DEF EightBytes, SixBytes, FourBytes
<1>10. ASSUME NEW b \in Nat, NEW t \in Nat, t = b * b
       PROVE  (t * t) * t = b * (b * (b * (b * t)))
  BY <1>10
<1>11. SixBytes = BYTE * (BYTE * (BYTE * (BYTE * TwoBytes)))
  BY <1>4, <1>5, <1>10 DEF SixBytes, FourBytes, TwoBytes
<1> QED
  BY <1>4, <1>5, <1>6, <1>7, <1>9, <1>11

LEMMA LastByte ==
  ASSUME NEW n \in Nat
  PROVE  /\ n \div BYTE \in Nat
         /\ n % BYTE \in 0 .. BYTE - 1
         /\ n = (n % BYTE) + BYTE * (n \div BYTE)
  BY Sizes

(* One more byte below: the number m and its bound, when q is m without    *)
(* the byte.                                                               *)
ByteBelow(b, q, m, P, J, r) ==
  /\ b \in 0 .. BYTE - 1 /\ q \in Nat /\ m = b + BYTE * q
  /\ P \in Nat /\ J \in 0 .. P - 1 /\ r \in Nat /\ q = J + P * r
  => /\ Joined(b, J) \in 0 .. BYTE * P - 1 /\ BYTE * P \in Nat
     /\ m = Joined(b, J) + (BYTE * P) * r

LEMMA OneMore == \A b, q, m, P, J, r : ByteBelow(b, q, m, P, J, r)
<1> SUFFICES ASSUME NEW b \in 0 .. BYTE - 1, NEW q \in Nat, NEW m, m = b + BYTE * q,
                    NEW P \in Nat, NEW J \in 0 .. P - 1, NEW r \in Nat, q = J + P * r
             PROVE  /\ Joined(b, J) \in 0 .. BYTE * P - 1 /\ BYTE * P \in Nat
                    /\ m = Joined(b, J) + (BYTE * P) * r
  BY DEF ByteBelow
<1>1. ASSUME NEW B \in Nat PROVE B * (J + P * r) = B * J + (B * P) * r
  BY <1>1
<1>2. ASSUME NEW B \in Nat, b < B PROVE b + B * J < B * P
  <2>1. B * J <= B * (P - 1)
    BY <1>2
  <2>2. B * (P - 1) = B * P - B
    BY <1>2
  <2> QED
    BY <1>2, <2>1, <2>2
<1>3. BYTE \in Nat /\ b < BYTE /\ b \in Nat /\ BYTE * P \in Nat /\ BYTE * J \in Nat
  BY Sizes
<1>4. b + BYTE * J < BYTE * P
  BY <1>2, <1>3
<1>5. BYTE * q = BYTE * J + (BYTE * P) * r /\ (BYTE * P) * r \in Nat
  BY <1>1, <1>3
<1> QED
  BY <1>3, <1>4, <1>5 DEF Joined

(* What a disk makes of the six bytes of n.                                *)
Address(n) ==
  Joined(Byte(n, 0), Joined(Byte(n, 1), Joined(Byte(n, 2),
    Joined(Byte(n, 3), Joined(Byte(n, 4), Byte(n, 5))))))

LEMMA SixBytesOf ==
  ASSUME NEW n \in Nat
  PROVE  /\ \A k \in 0 .. 5 : Byte(n, k) \in 0 .. BYTE - 1
         /\ Address(n) \in 0 .. SixBytes - 1
         /\ \E r \in Nat : n = Address(n) + SixBytes * r
<1> DEFINE q1 == n \div BYTE
           q2 == q1 \div BYTE
           q3 == q2 \div BYTE
           q4 == q3 \div BYTE
           q5 == q4 \div BYTE
           q6 == q5 \div BYTE
<1>1. /\ Byte(n, 0) = n % BYTE /\ Byte(n, 1) = q1 % BYTE /\ Byte(n, 2) = q2 % BYTE
      /\ Byte(n, 3) = q3 % BYTE /\ Byte(n, 4) = q4 % BYTE /\ Byte(n, 5) = q5 % BYTE
  BY DEF Byte, Shifted
<1>2. /\ q1 \in Nat /\ Byte(n, 0) \in 0 .. BYTE - 1 /\ n = Byte(n, 0) + BYTE * q1
  BY <1>1, LastByte
<1> HIDE DEF q1
<1>3. /\ q2 \in Nat /\ Byte(n, 1) \in 0 .. BYTE - 1 /\ q1 = Byte(n, 1) + BYTE * q2
  BY <1>1, <1>2, LastByte
<1> HIDE DEF q2
<1>4. /\ q3 \in Nat /\ Byte(n, 2) \in 0 .. BYTE - 1 /\ q2 = Byte(n, 2) + BYTE * q3
  BY <1>1, <1>3, LastByte
<1> HIDE DEF q3
<1>5. /\ q4 \in Nat /\ Byte(n, 3) \in 0 .. BYTE - 1 /\ q3 = Byte(n, 3) + BYTE * q4
  BY <1>1, <1>4, LastByte
<1> HIDE DEF q4
<1>6. /\ q5 \in Nat /\ Byte(n, 4) \in 0 .. BYTE - 1 /\ q4 = Byte(n, 4) + BYTE * q5
  BY <1>1, <1>5, LastByte
<1> HIDE DEF q5
<1>7. /\ q6 \in Nat /\ Byte(n, 5) \in 0 .. BYTE - 1 /\ q5 = Byte(n, 5) + BYTE * q6
  BY <1>1, <1>6, LastByte
<1> HIDE DEF q6
<1> DEFINE J5 == Byte(n, 5)
           J4 == Joined(Byte(n, 4), J5)
           J3 == Joined(Byte(n, 3), J4)
           J2 == Joined(Byte(n, 2), J3)
           J1 == Joined(Byte(n, 1), J2)
           J0 == Joined(Byte(n, 0), J1)
           P2 == BYTE * BYTE
           P3 == BYTE * P2
           P4 == BYTE * P3
           P5 == BYTE * P4
           P6 == BYTE * P5
<1>8. J4 \in 0 .. P2 - 1 /\ P2 \in Nat /\ q4 = J4 + P2 * q6
  <2>1. ByteBelow(Byte(n, 4), q5, q4, BYTE, J5, q6)
    BY OneMore
  <2> QED
    BY <1>6, <1>7, <2>1, Sizes DEF ByteBelow
<1> HIDE DEF J4, P2
<1>9. J3 \in 0 .. P3 - 1 /\ P3 \in Nat /\ q3 = J3 + P3 * q6
  <2>1. ByteBelow(Byte(n, 3), q4, q3, P2, J4, q6)
    BY OneMore
  <2> QED
    BY <1>5, <1>7, <1>8, <2>1 DEF ByteBelow
<1> HIDE DEF J3, P3
<1>10. J2 \in 0 .. P4 - 1 /\ P4 \in Nat /\ q2 = J2 + P4 * q6
  <2>1. ByteBelow(Byte(n, 2), q3, q2, P3, J3, q6)
    BY OneMore
  <2> QED
    BY <1>4, <1>7, <1>9, <2>1 DEF ByteBelow
<1> HIDE DEF J2, P4
<1>11. J1 \in 0 .. P5 - 1 /\ P5 \in Nat /\ q1 = J1 + P5 * q6
  <2>1. ByteBelow(Byte(n, 1), q2, q1, P4, J2, q6)
    BY OneMore
  <2> QED
    BY <1>3, <1>7, <1>10, <2>1 DEF ByteBelow
<1> HIDE DEF J1, P5
<1>12. J0 \in 0 .. P6 - 1 /\ P6 \in Nat /\ n = J0 + P6 * q6
  <2>1. ByteBelow(Byte(n, 0), q1, n, P5, J1, q6)
    BY OneMore
  <2> QED
    BY <1>2, <1>7, <1>11, <2>1 DEF ByteBelow
<1>13. J0 = Address(n) /\ P6 = SixBytes
  BY Sizes DEF Address, J1, J2, J3, J4, P2, P3, P4, P5, TwoBytes
<1> HIDE DEF J0, P6
<1>14. \A k \in 0 .. 5 : Byte(n, k) \in 0 .. BYTE - 1
  BY <1>2, <1>3, <1>4, <1>5, <1>6, <1>7
<1> QED
  BY <1>7, <1>12, <1>13, <1>14

(* The addresses that callers use: those of six bytes, and those that      *)
(* init_disk gets from a negative int.                                     *)
Places == {n \in Nat : n < SixBytes \/ \E m \in 0 .. FourBytes - 1 : n = m + EightBytes - FourBytes}

(* The disk gets the address of the call, or one that it does not have.    *)
LEMMA AddressArrives ==
  ASSUME NEW n \in Places
  PROVE  Address(n) \in Nat /\ (Address(n) = n \/ Address(n) >= SECTORS)
<1>1. n \in Nat /\ Address(n) \in 0 .. SixBytes - 1
  BY SixBytesOf DEF Places
<1>2. PICK r \in Nat : n = Address(n) + SixBytes * r
  BY <1>1, SixBytesOf
<1>3. CASE n < SixBytes
  <2>1. n \in 0 .. SixBytes - 1 /\ n + SixBytes * 0 = Address(n) + SixBytes * r
    BY <1>1, <1>2, <1>3, Sizes
  <2>2. n = Address(n)
    BY <1>1, <2>1, Sizes, SameRest
  <2> QED
    BY <1>1, <2>2
<1>4. ASSUME NEW m \in 0 .. FourBytes - 1, n = m + EightBytes - FourBytes
      PROVE  Address(n) >= SECTORS
  <2> DEFINE a == SixBytes - FourBytes + m
             q == TwoBytes - 1
  <2>1. a \in 0 .. SixBytes - 1 /\ q \in Nat
    BY Sizes
  <2>2. SixBytes * TwoBytes = SixBytes + SixBytes * q /\ SixBytes * q \in Nat
    BY Sizes
  <2>3. n = a + SixBytes * q
    BY <1>4, <2>2, Sizes
  <2> HIDE DEF a, q
  <2>4. Address(n) = a
    <3>1. Address(n) + SixBytes * r = a + SixBytes * q
      BY <1>2, <2>3, Zenon
    <3>2. SixBytes \in Nat
      BY Sizes
    <3> QED
      BY <1>1, <2>1, <3>1, <3>2, SameRest
  <2> QED
    BY <2>4, Sizes, PioAssumption DEF a
<1> QED
  BY <1>1, <1>3, <1>4 DEF Places

(* Two bytes are enough for a count.                                       *)
LEMMA CountArrives ==
  ASSUME NEW n \in 0 .. TwoBytes - 1
  PROVE  /\ Byte(n, 0) \in 0 .. BYTE - 1 /\ Byte(n, 1) \in 0 .. BYTE - 1
         /\ Joined(Byte(n, 0), Byte(n, 1)) = n
<1> DEFINE q == n \div BYTE
<1>1. q \in Nat /\ n % BYTE \in 0 .. BYTE - 1 /\ n = (n % BYTE) + BYTE * q
  BY LastByte, Sizes
<1>2. Byte(n, 0) = n % BYTE /\ Byte(n, 1) = q % BYTE
  BY DEF Byte, Shifted
<1> HIDE DEF q
<1>3. q < BYTE
  <2>1. BYTE * q < BYTE * BYTE
    BY <1>1, Sizes DEF TwoBytes
  <2>2. ASSUME NEW b \in Nat, b * q < b * b PROVE q < b
    BY <1>1, <2>2
  <2> QED
    BY <2>1, <2>2, Sizes
<1>4. q % BYTE = q
  BY <1>1, <1>3, Sizes
<1> QED
  BY <1>1, <1>2, <1>3, <1>4, Sizes DEF Joined

-----------------------------------------------------------------------------
(* The inductive invariant of driver and disks.                            *)

Transferring == pc \in {"busy", "ready", "data"}
Moves == call.op \in {"read", "write"}

(* What a call is given.                                                   *)
CallKnown ==
  /\ call.LBA \in Places
  /\ call.count \in 0 .. TwoBytes - 1
  /\ Moves <=> call.count # 0
  /\ pc # "idle" => call.op # "none"
  /\ pc = "identify" => call.op = "identify"
  /\ Transferring => Moves

(* What the registers of the channel hold after so many writes.            *)
Sent ==
  /\ pc = "poll" => step = 0
  /\ pc = "out" =>
       /\ step <= Len(Outs(call))
       /\ step >= 1 => Low(Port, "DHR") = Drive(call)
       /\ step \in 2 .. 5 => Low(Port, "SEC") = Byte(call.count, 1)
       /\ step \in 3 .. 6 => Low(Port, "LBALO") = Byte(call.LBA, 3)
       /\ step \in 4 .. 7 => Low(Port, "LBAMID") = Byte(call.LBA, 4)
       /\ step \in 5 .. 8 => Low(Port, "LBAHI") = Byte(call.LBA, 5)
       /\ step >= 6 => regs[Port]["SEC"] = <<Byte(call.count, 1), Byte(call.count, 0)>>
       /\ step >= 7 => regs[Port]["LBALO"] = <<Byte(call.LBA, 3), Byte(call.LBA, 0)>>
       /\ step >= 8 => regs[Port]["LBAMID"] = <<Byte(call.LBA, 4), Byte(call.LBA, 1)>>
       /\ step >= 9 => regs[Port]["LBAHI"] = <<Byte(call.LBA, 5), Byte(call.LBA, 2)>>

(* A write to a disk that ignores bytes does not move the disk.            *)
Ignored == call.op = "write" /\ call.disk \notin TakeBytes

(* The disk is where the driver believes it to be.                         *)
Active == [op |-> call.op, disk |-> call.disk,
           LBA |-> IF Ignored THEN Address(call.LBA) ELSE Address(call.LBA) + sectors,
           word |-> IF Ignored THEN 0 ELSE words,
           left |-> IF Ignored THEN call.count ELSE call.count - sectors]

(* What a call may leave on a channel.                                     *)
LeftOver(port) ==
  \/ job[port] = NoJob
  \/ job[port].op = "identify"
  \/ job[port].op = "write" /\ job[port].disk \notin TakeBytes /\ job[port].word = 0

JobsInStep ==
  /\ \A port \in Channels : /\ job[port] # NoJob => job[port].left # 0 /\ job[port].op # "none"
                            /\ drq[port] => job[port] # NoJob /\ Has(job[port])
                            /\ Transferring /\ port = Port
                                 => job[port] = NoJob \/ (job[port] = Active /\ call.disk \in Disks)
                            /\ ~Transferring \/ port # Port => LeftOver(port)
                            /\ pc = "identify" /\ port = Port
                                 => job[port] = NoJob \/ job[port].op = "identify"
  /\ Transferring => sectors < call.count
  /\ pc \in {"poll", "out"} => sectors = 0 /\ words = 0
  /\ pc \in {"busy", "ready"} => words = 0
  /\ pc \in {"out", "ready", "data"} => ~bsy[Port]
  /\ pc = "data" => drq[Port]

(* What has been transferred.                                              *)
Done == sectors * WORDS + words
WantedWord(c, n) == <<c.disk, c.LBA + ((n - 1) \div WORDS), (n - 1) % WORDS>>

Progress ==
  /\ call.op = "read" => buf = [n \in 1 .. Done |-> WantedWord(call, n)]
  /\ call.op = "write" =>
       stored = IF Ignored THEN {} ELSE {LowByte(WantedWord(call, n)) : n \in 1 .. Done}
  /\ Moves /\ pc = "idle" => sectors = call.count /\ words = 0
  /\ call.op = "read" /\ (sectors # 0 \/ words # 0) =>
       call.disk \in Disks /\ call.LBA + sectors <= SECTORS

PioInv ==
  /\ PioTypeOK
  /\ CallKnown
  /\ Sent
  /\ JobsInStep
  /\ Progress

-----------------------------------------------------------------------------
LEMMA PortKnown ==
  ASSUME PioTypeOK
  PROVE  Port \in Channels /\ call.disk \in 0 .. 3
  BY DEF PioTypeOK, Port, Channel, Channels

(* The driver's writes, one by one.                                        *)
LEMMA OutsSteps ==
  /\ Len(Outs(call)) = IF call.op = "identify" THEN 5 ELSE 9
  /\ Outs(call)[1] = <<"DHR", Drive(call)>>
  /\ Outs(call)[2] = <<"SEC", Byte(call.count, 1)>>
  /\ Outs(call)[3] = <<"LBALO", Byte(call.LBA, 3)>>
  /\ Outs(call)[4] = <<"LBAMID", Byte(call.LBA, 4)>>
  /\ Outs(call)[5] = <<"LBAHI", Byte(call.LBA, 5)>>
  /\ call.op # "identify" =>
       /\ Outs(call)[6] = <<"SEC", Byte(call.count, 0)>>
       /\ Outs(call)[7] = <<"LBALO", Byte(call.LBA, 0)>>
       /\ Outs(call)[8] = <<"LBAMID", Byte(call.LBA, 1)>>
       /\ Outs(call)[9] = <<"LBAHI", Byte(call.LBA, 2)>>
<1>1. CASE call.op = "identify"
  BY <1>1 DEF Outs
<1>2. CASE call.op # "identify"
  BY <1>2 DEF Outs
<1> QED
  BY <1>1, <1>2

(* What callers may pass to the driver.                                    *)
StartOK(op, request, d) ==
  /\ op \in {"identify", "read", "write"}
  /\ request.LBA \in Places
  /\ request.count \in 0 .. TwoBytes - 1
  /\ op = "identify" <=> request.count = 0
  /\ d \in 0 .. 3

LEMMA StartKeeps ==
  ASSUME PioInv, NEW op, NEW request, NEW d, StartOK(op, request, d), Start(op, request, d)
  PROVE  PioInv'
<1>1. /\ call' = [op |-> op, LBA |-> request.LBA, count |-> request.count, disk |-> d]
      /\ pc = "idle" /\ pc' = "poll" /\ step' = 0 /\ sectors' = 0 /\ words' = 0 /\ buf' = <<>>
      /\ stored' = {} /\ UNCHANGED <<content, regs, bsy, drq, job>>
  BY DEF Start
<1>2. PioTypeOK'
  <2>1. WORDS \in Nat \ {0} /\ request.LBA \in Nat /\ request.count \in Nat /\ d \in 0 .. 3
    BY PioAssumption, Sizes DEF Places, StartOK
  <2>2. /\ call' \in [op : {"none", "identify", "read", "write"}, LBA : Nat, count : Nat, disk : 0 .. 3]
        /\ sectors' \in 0 .. call'.count /\ words' \in 0 .. WORDS - 1
    BY <1>1, <2>1 DEF StartOK
  <2> QED
    BY <1>1, <2>2 DEF PioInv, PioTypeOK
<1>3. CallKnown'
  BY <1>1 DEF CallKnown, Moves, Transferring, StartOK, Places
<1>4. Sent'
  BY <1>1 DEF Sent
<1>5. JobsInStep'
  <2>1. \A port : LeftOver(port)' = LeftOver(port)
    BY <1>1 DEF LeftOver, TakeBytes, Disks
  <2> QED
    BY <1>1, <2>1 DEF PioInv, JobsInStep, Transferring, Has
<1>6. Progress'
  <2>1. Done' = 0
    BY <1>1, PioAssumption DEF Done
  <2>2. /\ buf' = [n \in 1 .. 0 |-> WantedWord(call', n)]
        /\ stored' = {LowByte(WantedWord(call', n)) : n \in 1 .. 0}
    BY <1>1
  <2> QED
    BY <1>1, <2>1, <2>2 DEF Progress, Moves, WantedWord
<1> QED
  BY <1>2, <1>3, <1>4, <1>5, <1>6 DEF PioInv

(* What only a command or a word changes.                                  *)
LEMMA Quiet ==
  ASSUME UNCHANGED <<content, call, sectors, words, job>>
  PROVE  /\ Port' = Port /\ Disks' = Disks /\ Ignored' = Ignored /\ Active' = Active
         /\ \A port : LeftOver(port)' = LeftOver(port)
<1>1. Port' = Port /\ Disks' = Disks /\ TakeBytes' = TakeBytes /\ Ignored' = Ignored
  BY DEF Port, Disks, TakeBytes, Ignored
<1>2. Active' = Active
  BY <1>1 DEF Active, Address, Byte, Shifted, Joined
<1> QED
  BY <1>1, <1>2 DEF LeftOver

(* The steps that only look at the status.                                 *)
LEMMA PollKeeps ==
  ASSUME PioInv, PollFree \/ PollBusy \/ PollReady
  PROVE  PioInv'
<1> USE DEF deviceVars
<1>1. /\ UNCHANGED <<content, call, step, sectors, words, buf, regs, bsy, drq, job, stored>>
      /\ \/ pc = "poll" /\ pc' = "out" /\ ~bsy[Port]
         \/ pc = "busy" /\ pc' = "ready" /\ ~bsy[Port]
         \/ pc = "ready" /\ pc' = "data" /\ drq[Port]
  BY DEF PollFree, PollBusy, PollReady, Goto
<1>2. /\ Port' = Port /\ Disks' = Disks /\ Ignored' = Ignored /\ Active' = Active
      /\ \A port : LeftOver(port)' = LeftOver(port)
  BY <1>1, Quiet
<1>3. PioTypeOK'
  BY <1>1 DEF PioInv, PioTypeOK
<1>4. CallKnown'
  BY <1>1 DEF PioInv, CallKnown, Moves, Transferring, Places
<1>5. Sent'
  <2>1. pc' = "out" => step' = 0
    BY <1>1 DEF PioInv, Sent
  <2>2. Len(Outs(call)') \in Nat
    BY <1>1, OutsSteps DEF Outs
  <2> QED
    BY <1>1, <2>1, <2>2 DEF Sent
<1>6. JobsInStep'
  BY <1>1, <1>2 DEF PioInv, JobsInStep, Transferring, Has
<1>7. Progress'
  BY <1>1, <1>2 DEF PioInv, Progress, Moves, Done, WantedWord
<1> QED
  BY <1>3, <1>4, <1>5, <1>6, <1>7 DEF PioInv

LEMMA ReadyKeeps ==
  ASSUME PioInv, NEW port \in Channels, DiskReady(port)
  PROVE  PioInv'
<1>1. /\ UNCHANGED <<content, call, pc, step, sectors, words, buf, regs, job, stored>>
      /\ bsy' = [bsy EXCEPT ![port] = FALSE]
      /\ drq' = [drq EXCEPT ![port] = job[port] # NoJob /\ Has(job[port])]
      /\ bsy[port]
  BY DEF DiskReady, driverVars
<1>2. /\ Port' = Port /\ Disks' = Disks /\ Port \in Channels /\ Ignored' = Ignored /\ Active' = Active
      /\ \A p : LeftOver(p)' = LeftOver(p)
  BY <1>1, Quiet, PortKnown DEF PioInv
<1>3. bsy \in [Channels -> BOOLEAN] /\ drq \in [Channels -> BOOLEAN]
  BY DEF PioInv, PioTypeOK
<1>4. PioTypeOK'
  BY <1>1, <1>3 DEF PioInv, PioTypeOK
<1>5. CallKnown'
  BY <1>1 DEF PioInv, CallKnown, Moves, Transferring, Places
<1>6. Sent'
  BY <1>1, <1>2 DEF PioInv, Sent, Low, Outs, Drive, Byte, Shifted
<1>7. JobsInStep'
  BY <1>1, <1>2, <1>3 DEF PioInv, JobsInStep, Transferring, Has
<1>8. Progress'
  BY <1>1, <1>2 DEF PioInv, Progress, Moves, Done, WantedWord
<1> QED
  BY <1>4, <1>5, <1>6, <1>7, <1>8 DEF PioInv

(* What the driver writes are bytes.                                       *)
LEMMA OutsBytes ==
  ASSUME PioTypeOK, CallKnown
  PROVE  \A k \in 1 .. Len(Outs(call)) :
           Outs(call)[k][1] \in Registers /\ Outs(call)[k][2] \in 0 .. BYTE - 1
<1>1. call.LBA \in Nat /\ call.count \in Nat /\ Drive(call) \in 0 .. BYTE - 1
  BY Sizes DEF PioTypeOK, Drive
<1> DEFINE Bytes(n) == /\ Byte(n, 0) \in 0 .. BYTE - 1 /\ Byte(n, 1) \in 0 .. BYTE - 1
                       /\ Byte(n, 2) \in 0 .. BYTE - 1 /\ Byte(n, 3) \in 0 .. BYTE - 1
                       /\ Byte(n, 4) \in 0 .. BYTE - 1 /\ Byte(n, 5) \in 0 .. BYTE - 1
<1>2. \A n \in Nat : Bytes(n)
  BY SixBytesOf
<1> HIDE DEF Bytes
<1>3. Bytes(call.LBA) /\ Bytes(call.count)
  BY <1>1, <1>2
<1> USE DEF Bytes
<1> SUFFICES ASSUME NEW k \in 1 .. Len(Outs(call))
             PROVE  Outs(call)[k][1] \in Registers /\ Outs(call)[k][2] \in 0 .. BYTE - 1
  OBVIOUS
<1>4. k \in 1 .. 9 /\ (call.op = "identify" => k <= 5)
  BY OutsSteps
<1>5. CASE k <= 5
  BY <1>1, <1>3, <1>4, <1>5, OutsSteps DEF Registers
<1>6. CASE k > 5
  BY <1>3, <1>4, <1>6, OutsSteps DEF Registers
<1> QED
  BY <1>4, <1>5, <1>6

LEMMA OutRegisterKeeps ==
  ASSUME PioInv, OutRegister
  PROVE  PioInv'
<1> DEFINE r == Outs(call)[step + 1][1]
           b == Outs(call)[step + 1][2]
<1>0. PioTypeOK /\ CallKnown /\ Port \in Channels
  BY PortKnown DEF PioInv
<1>1. /\ UNCHANGED <<content, call, pc, sectors, words, buf, bsy, drq, job, stored>>
      /\ pc = "out" /\ step < Len(Outs(call)) /\ step' = step + 1
      /\ regs' = [regs EXCEPT ![Port][r] = <<@[2], b>>]
  BY DEF OutRegister, Push
<1>2. /\ Port' = Port /\ Disks' = Disks /\ Outs(call') = Outs(call) /\ Ignored' = Ignored /\ Active' = Active
      /\ \A port : LeftOver(port)' = LeftOver(port)
  BY <1>1, Quiet
<1>3. step \in 0 .. 8 /\ step + 1 \in 1 .. Len(Outs(call)) /\ (call.op = "identify" => step <= 4)
  BY <1>0, <1>1, OutsSteps DEF PioTypeOK
<1>4. r \in Registers /\ b \in 0 .. BYTE - 1
  BY <1>0, <1>3, OutsBytes
<1>5. regs \in [Channels -> [Registers -> (0 .. BYTE - 1) \X (0 .. BYTE - 1)]]
  BY <1>0 DEF PioTypeOK
<1>6. /\ regs'[Port][r] = <<Low(Port, r), b>>
      /\ \A q \in Registers \ {r} : regs'[Port][q] = regs[Port][q]
  <2> HIDE DEF r, b
  <2> QED
    BY <1>0, <1>1, <1>4, <1>5 DEF Low
<1>7. PioTypeOK'
  <2> HIDE DEF r, b
  <2>1. <<regs[Port][r][2], b>> \in (0 .. BYTE - 1) \X (0 .. BYTE - 1)
    BY <1>0, <1>4, <1>5
  <2>2. regs' \in [Channels -> [Registers -> (0 .. BYTE - 1) \X (0 .. BYTE - 1)]]
    BY <1>0, <1>1, <1>4, <1>5, <2>1
  <2>3. step' \in 0 .. 9
    BY <1>1, <1>3
  <2> QED
    BY <1>0, <1>1, <2>2, <2>3, Zenon DEF PioTypeOK
<1>8. CallKnown'
  BY <1>1 DEF PioInv, CallKnown, Moves, Transferring, Places
<1>9. Sent'
  <2>1. step' <= Len(Outs(call)) /\ pc' = "out" /\ step' = step + 1 /\ step' \in 1 .. 9
    BY <1>1, <1>3
  <2>2. Registers = {"DHR", "SEC", "LBALO", "LBAMID", "LBAHI"}
    BY DEF Registers
  <2>3. Sent /\ pc = "out"
    BY <1>1 DEF PioInv
  <2> DEFINE R == regs'[Port]
  <2>4. step = 0 => R["DHR"][2] = Drive(call)
    BY <1>6, OutsSteps
  <2>5. step >= 1 => r # "DHR" /\ R["DHR"] = regs[Port]["DHR"]
    BY <1>3, <1>6, <2>2, OutsSteps
  <2>6. R["DHR"][2] = Drive(call)
    BY <1>3, <2>3, <2>4, <2>5 DEF Sent, Low
  <2>7. /\ step' \in 2 .. 5 => R["SEC"][2] = Byte(call.count, 1)
        /\ step' >= 6 => R["SEC"] = <<Byte(call.count, 1), Byte(call.count, 0)>>
    BY <1>3, <1>6, <2>1, <2>2, <2>3, OutsSteps DEF Sent, Low
  <2>8. /\ step' \in 3 .. 6 => R["LBALO"][2] = Byte(call.LBA, 3)
        /\ step' >= 7 => R["LBALO"] = <<Byte(call.LBA, 3), Byte(call.LBA, 0)>>
    BY <1>3, <1>6, <2>1, <2>2, <2>3, OutsSteps DEF Sent, Low
  <2>9. /\ step' \in 4 .. 7 => R["LBAMID"][2] = Byte(call.LBA, 4)
        /\ step' >= 8 => R["LBAMID"] = <<Byte(call.LBA, 4), Byte(call.LBA, 1)>>
    BY <1>3, <1>6, <2>1, <2>2, <2>3, OutsSteps DEF Sent, Low
  <2>10. /\ step' \in 5 .. 8 => R["LBAHI"][2] = Byte(call.LBA, 5)
         /\ step' >= 9 => R["LBAHI"] = <<Byte(call.LBA, 5), Byte(call.LBA, 2)>>
    BY <1>3, <1>6, <2>1, <2>2, <2>3, OutsSteps DEF Sent, Low
  <2>11. call' = call
    BY <1>1
  <2> QED
    BY <1>2, <2>1, <2>6, <2>7, <2>8, <2>9, <2>10, <2>11 DEF Sent, Low, Drive, Byte, Shifted
<1>10. JobsInStep'
  BY <1>1, <1>2 DEF PioInv, JobsInStep, Transferring, Has
<1>11. Progress'
  BY <1>1, <1>2 DEF PioInv, Progress, Moves, Done, WantedWord
<1> QED
  BY <1>7, <1>8, <1>9, <1>10, <1>11 DEF PioInv

(* The disk gets the command that the driver means.                        *)
LEMMA CommandArrives ==
  ASSUME PioInv, pc = "out", step = Len(Outs(call))
  PROVE  /\ DiskOf(Port) = call.disk
         /\ AddressOf(Port) \in Nat
         /\ call.op # "identify" => /\ AddressOf(Port) = Address(call.LBA)
                                    /\ CountOf(Port) = call.count
<1>0. PioTypeOK /\ CallKnown /\ Sent /\ Port \in Channels /\ call.disk \in 0 .. 3
  BY PortKnown DEF PioInv
<1>1. step = IF call.op = "identify" THEN 5 ELSE 9
  BY OutsSteps
<1>2. DiskOf(Port) = call.disk
  <2>1. Low(Port, "DHR") = call.disk % 2
    BY <1>0, <1>1 DEF Sent, Drive
  <2> QED
    BY <1>0, <2>1 DEF DiskOf, Port, Channel
<1>3. AddressOf(Port) \in Nat
  <2>1. \A r \in Registers : Low(Port, r) \in Nat /\ High(Port, r) \in Nat
    BY <1>0, Sizes DEF PioTypeOK, Low, High
  <2>2. /\ Low(Port, "LBALO") \in Nat /\ Low(Port, "LBAMID") \in Nat /\ Low(Port, "LBAHI") \in Nat
        /\ High(Port, "LBALO") \in Nat /\ High(Port, "LBAMID") \in Nat /\ High(Port, "LBAHI") \in Nat
    BY <2>1 DEF Registers
  <2>3. \A a, b \in Nat : Joined(a, b) \in Nat
    BY Sizes DEF Joined
  <2> QED
    BY <2>2, <2>3 DEF AddressOf
<1>4. ASSUME call.op # "identify"
      PROVE  AddressOf(Port) = Address(call.LBA) /\ CountOf(Port) = call.count
  <2>1. /\ regs[Port]["SEC"] = <<Byte(call.count, 1), Byte(call.count, 0)>>
        /\ regs[Port]["LBALO"] = <<Byte(call.LBA, 3), Byte(call.LBA, 0)>>
        /\ regs[Port]["LBAMID"] = <<Byte(call.LBA, 4), Byte(call.LBA, 1)>>
        /\ regs[Port]["LBAHI"] = <<Byte(call.LBA, 5), Byte(call.LBA, 2)>>
    BY <1>0, <1>1, <1>4 DEF Sent
  <2>2. AddressOf(Port) = Address(call.LBA)
    BY <2>1 DEF AddressOf, Address, Low, High
  <2>3. Joined(Low(Port, "SEC"), High(Port, "SEC")) = call.count
    <3>1. Joined(Byte(call.count, 0), Byte(call.count, 1)) = call.count
      BY <1>0, CountArrives DEF CallKnown
    <3> QED
      BY <2>1, <3>1 DEF Low, High
  <2>4. call.count # 0
    BY <1>0, <1>4 DEF CallKnown, Moves, PioTypeOK
  <2> QED
    BY <2>2, <2>3, <2>4 DEF CountOf
<1> QED
  BY <1>2, <1>3, <1>4

LEMMA OutCommandKeeps ==
  ASSUME PioInv, OutCommand
  PROVE  PioInv'
<1> DEFINE answers == DiskOf(Port) \in Disks
           new == IF ~answers THEN NoJob
                  ELSE [op |-> call.op, disk |-> DiskOf(Port), LBA |-> AddressOf(Port), word |-> 0,
                        left |-> IF call.op = "identify" THEN 1 ELSE CountOf(Port)]
<1>1. /\ pc = "out" /\ step = Len(Outs(call))
      /\ job' = [job EXCEPT ![Port] = new]
      /\ bsy' = [bsy EXCEPT ![Port] = answers]
      /\ drq' = [drq EXCEPT ![Port] = FALSE]
      /\ pc' = IF call.op = "identify" THEN "identify" ELSE "busy"
      /\ UNCHANGED <<content, call, step, sectors, words, buf, regs, stored>>
  BY DEF OutCommand, Goto
<1>2. /\ PioTypeOK /\ CallKnown /\ JobsInStep /\ Port \in Channels /\ call.disk \in 0 .. 3
      /\ job \in [Channels -> [op : {"none", "identify", "read", "write"}, disk : 0 .. 3, LBA : Nat,
                               word : 0 .. WORDS - 1, left : Nat]]
      /\ bsy \in [Channels -> BOOLEAN] /\ drq \in [Channels -> BOOLEAN]
  BY PortKnown DEF PioInv, PioTypeOK
<1>3. Port' = Port /\ Disks' = Disks /\ TakeBytes' = TakeBytes /\ Ignored' = Ignored
  BY <1>1 DEF Port, Disks, TakeBytes, Ignored
<1>4. /\ DiskOf(Port) = call.disk /\ AddressOf(Port) \in Nat
      /\ call.op # "identify" => AddressOf(Port) = Address(call.LBA) /\ CountOf(Port) = call.count
  BY <1>1, CommandArrives
<1>5. /\ call.op \in {"identify", "read", "write"} /\ call.count \in Nat
      /\ call.op # "identify" <=> call.count # 0
      /\ sectors = 0 /\ words = 0 /\ WORDS \in Nat \ {0}
  BY <1>1, <1>2, PioAssumption DEF CallKnown, Moves, PioTypeOK, JobsInStep
<1>6. /\ new \in [op : {"none", "identify", "read", "write"}, disk : 0 .. 3, LBA : Nat,
                  word : 0 .. WORDS - 1, left : Nat]
      /\ new # NoJob => new.left # 0 /\ new.op # "none" /\ new.op = call.op
      /\ new # NoJob /\ call.op # "identify" =>
           /\ call.disk \in Disks
           /\ new = [op |-> call.op, disk |-> call.disk, LBA |-> Address(call.LBA), word |-> 0,
                     left |-> call.count]
  BY <1>2, <1>4, <1>5 DEF NoJob
<1> HIDE DEF new, answers
<1>7. PioTypeOK'
  <2>1. /\ job' \in [Channels -> [op : {"none", "identify", "read", "write"}, disk : 0 .. 3, LBA : Nat,
                                  word : 0 .. WORDS - 1, left : Nat]]
        /\ bsy' \in [Channels -> BOOLEAN] /\ drq' \in [Channels -> BOOLEAN]
    BY <1>1, <1>2, <1>6 DEF answers
  <2> QED
    BY <1>1, <1>2, <2>1 DEF PioTypeOK
<1>8. CallKnown'
  BY <1>1, <1>2, <1>5 DEF CallKnown, Moves, Transferring, Places
<1>9. Sent'
  BY <1>1 DEF Sent
<1>10. JobsInStep'
  <2>1. job'[Port] = new /\ \A port \in Channels \ {Port} : job'[port] = job[port] /\ drq'[port] = drq[port]
    BY <1>1, <1>2
  <2>2. ~drq'[Port]
    BY <1>1, <1>2
  <2>3. /\ Transferring' <=> call.op # "identify"
        /\ ~Transferring
    BY <1>1 DEF Transferring
  <2>4. Address(call.LBA) + sectors = Address(call.LBA) /\ call.count - sectors = call.count
    BY <1>2, <1>5, AddressArrives DEF CallKnown
  <2>5. ASSUME new # NoJob, call.op # "identify" PROVE new = Active' /\ call'.disk \in Disks'
    BY <1>1, <1>3, <1>5, <1>6, <2>4, <2>5 DEF Active, Address, Byte, Shifted, Joined
  <2>7. \A port \in Channels : LeftOver(port)' =
          (\/ job'[port] = NoJob \/ job'[port].op = "identify"
           \/ job'[port].op = "write" /\ job'[port].disk \notin TakeBytes /\ job'[port].word = 0)
    BY <1>3 DEF LeftOver
  <2>8. \A port \in Channels \ {Port} : LeftOver(port)' = LeftOver(port)
    BY <2>1, <2>7 DEF LeftOver
  <2>9. \A port : port = Port /\ ~Transferring' => LeftOver(port)'
    BY <1>2, <1>6, <2>1, <2>3, <2>7
  <2>6. \A port \in Channels :
          /\ job'[port] # NoJob => job'[port].left # 0 /\ job'[port].op # "none"
          /\ drq'[port] => job'[port] # NoJob /\ Has(job'[port])
          /\ Transferring' /\ port = Port
               => job'[port] = NoJob \/ (job'[port] = Active' /\ call'.disk \in Disks')
          /\ ~Transferring' \/ port # Port => LeftOver(port)'
          /\ pc' = "identify" /\ port = Port
               => job'[port] = NoJob \/ job'[port].op = "identify"
    BY <1>1, <1>2, <1>6, <2>1, <2>2, <2>3, <2>5, <2>8, <2>9 DEF JobsInStep
  <2> QED
    BY <1>1, <1>3, <1>5, <2>3, <2>6 DEF JobsInStep, Has, Transferring
<1>11. Progress'
  BY <1>1, <1>3 DEF PioInv, Progress, Moves, Done, WantedWord
<1> QED
  BY <1>7, <1>8, <1>9, <1>10, <1>11 DEF PioInv

(* The word at the data port is the next one that the call wants.          *)
LEMMA WordArrives ==
  ASSUME PioInv, pc = "data"
  PROVE  /\ job[Port] = Active /\ call.disk \in Disks /\ drq[Port] /\ ~bsy[Port]
         /\ Moves /\ Done \in Nat
         /\ ~Ignored => /\ call.LBA + sectors < SECTORS
                        /\ WordName(job[Port]) = WantedWord(call, Done + 1)
<1>1. /\ PioTypeOK /\ CallKnown /\ JobsInStep /\ Port \in Channels /\ Transferring
      /\ sectors \in Nat /\ words \in 0 .. WORDS - 1 /\ call.LBA \in Nat
  BY PortKnown DEF PioInv, PioTypeOK, Transferring
<1>2. /\ job[Port] = Active /\ call.disk \in Disks /\ Has(job[Port]) /\ drq[Port] /\ ~bsy[Port] /\ Moves
  BY <1>1 DEF JobsInStep, CallKnown
<1>5. Done \in Nat /\ Done \div WORDS = sectors /\ Done % WORDS = words
  BY <1>1, PartAndPlace, PioAssumption DEF Done
<1>6. Done + 1 - 1 = Done
  BY <1>5
<1>7. ASSUME ~Ignored
      PROVE  call.LBA + sectors < SECTORS /\ WordName(job[Port]) = WantedWord(call, Done + 1)
  <2>1. Address(call.LBA) \in Nat /\ Address(call.LBA) + sectors < SECTORS
    BY <1>1, <1>2, <1>7, AddressArrives DEF Has, Active, Moves, CallKnown
  <2>2. Address(call.LBA) = call.LBA
    BY <1>1, <2>1, AddressArrives, PioAssumption, Sizes DEF CallKnown
  <2>3. WordName(job[Port]) = WantedWord(call, Done + 1)
    BY <1>2, <1>5, <1>6, <1>7, <2>2 DEF WordName, Active, WantedWord
  <2> QED
    BY <2>1, <2>2, <2>3
<1> QED
  BY <1>2, <1>5, <1>7

(* The disk and the driver go on to the next word together.                *)
LEMMA TransferSteps ==
  ASSUME PioInv, CountWord, NextWord(Port), ~Ignored
  PROVE  \/ /\ words + 1 < WORDS /\ pc' = "data" /\ words' = words + 1 /\ sectors' = sectors
            /\ job'[Port] = [op |-> call.op, disk |-> call.disk, LBA |-> Address(call.LBA) + sectors,
                             word |-> words + 1, left |-> call.count - sectors]
            /\ drq'[Port] /\ ~bsy'[Port]
         \/ /\ words + 1 = WORDS /\ pc' = "busy" /\ words' = 0 /\ sectors' = sectors + 1
            /\ sectors + 1 < call.count
            /\ job'[Port] = [op |-> call.op, disk |-> call.disk, LBA |-> Address(call.LBA) + (sectors + 1),
                             word |-> 0, left |-> call.count - (sectors + 1)]
            /\ ~drq'[Port]
         \/ /\ words + 1 = WORDS /\ pc' = "idle" /\ words' = 0 /\ sectors' = sectors + 1
            /\ sectors + 1 = call.count
            /\ job'[Port] = NoJob /\ ~drq'[Port]
<1>1. /\ PioTypeOK /\ CallKnown /\ JobsInStep /\ Port \in Channels
      /\ pc = "data" /\ Transferring
      /\ sectors \in Nat /\ words \in 0 .. WORDS - 1 /\ call.count \in Nat /\ sectors < call.count
      /\ WORDS \in Nat \ {0} /\ Address(call.LBA) \in Nat
  BY PortKnown, AddressArrives, PioAssumption
     DEF PioInv, PioTypeOK, Transferring, CountWord, JobsInStep, CallKnown
<1>2. job[Port] = Active
  BY <1>1, WordArrives
<1>3. /\ words' = (words + 1) % WORDS
      /\ sectors' = IF words + 1 = WORDS THEN sectors + 1 ELSE sectors
      /\ pc' = AfterWord
      /\ NextWord(Port)
  BY DEF CountWord, Goto
<1>4. DOMAIN job = Channels /\ DOMAIN drq = Channels /\ DOMAIN bsy = Channels
  BY <1>1 DEF PioTypeOK
<1> DEFINE last == words = WORDS - 1
           left == IF last THEN call.count - sectors - 1 ELSE call.count - sectors
<1>5. /\ job'[Port] = IF left = 0 THEN NoJob
                      ELSE [op |-> call.op, disk |-> call.disk,
                            LBA |-> IF last THEN (Address(call.LBA) + sectors) + 1
                                    ELSE Address(call.LBA) + sectors,
                            word |-> IF last THEN 0 ELSE words + 1, left |-> left]
      /\ drq'[Port] = ~last
      /\ bsy'[Port] = (last /\ (left # 0 \/ call.op = "write"))
  <2>1. /\ Active.word = words /\ Active.left = call.count - sectors /\ Active.op = call.op
        /\ Active.LBA = Address(call.LBA) + sectors /\ Active.disk = call.disk
    BY DEF Active
  <2> QED
    BY <1>1, <1>2, <1>3, <1>4, <2>1 DEF NextWord
<1>6. CASE words + 1 < WORDS
  <2>1. ~last /\ left = call.count - sectors /\ left # 0
    BY <1>1, <1>6
  <2>2. (words + 1) % WORDS = words + 1
    BY <1>1, <1>6
  <2> HIDE DEF last, left
  <2>3. pc' = "data" /\ words' = words + 1 /\ sectors' = sectors
    BY <1>1, <1>3, <1>6, <2>2 DEF AfterWord
  <2>4. job'[Port] = [op |-> call.op, disk |-> call.disk, LBA |-> Address(call.LBA) + sectors,
                      word |-> words + 1, left |-> call.count - sectors]
    BY <1>5, <2>1
  <2> QED
    BY <1>5, <1>6, <2>1, <2>3, <2>4
<1>7. CASE words + 1 = WORDS
  <2>1. last /\ left = call.count - (sectors + 1)
    BY <1>1, <1>7
  <2>2. (words + 1) % WORDS = 0
    BY <1>1, <1>7
  <2>3. (Address(call.LBA) + sectors) + 1 = Address(call.LBA) + (sectors + 1)
    BY <1>1
  <2> HIDE DEF last, left
  <2>4. words' = 0 /\ sectors' = sectors + 1 /\ ~drq'[Port]
    BY <1>3, <1>5, <1>7, <2>1, <2>2
  <2>5. CASE sectors + 1 < call.count
    <3>1. pc' = "busy" /\ left # 0
      BY <1>1, <1>3, <1>7, <2>1, <2>5 DEF AfterWord
    <3>2. job'[Port] = [op |-> call.op, disk |-> call.disk, LBA |-> Address(call.LBA) + (sectors + 1),
                        word |-> 0, left |-> call.count - (sectors + 1)]
      BY <1>5, <2>1, <2>3, <3>1
    <3> QED
      BY <1>7, <2>4, <2>5, <3>1, <3>2
  <2>6. CASE sectors + 1 = call.count
    <3>1. pc' = "idle" /\ left = 0
      BY <1>1, <1>3, <1>7, <2>1, <2>6 DEF AfterWord
    <3> QED
      BY <1>5, <1>7, <2>4, <2>6, <3>1
  <2> QED
    BY <1>1, <2>5, <2>6
<1> QED
  BY <1>1, <1>6, <1>7

LEMMA TransferKeeps ==
  ASSUME PioInv, ReadWord \/ WriteByte, ~Ignored
  PROVE  PioInv'
<1>1. /\ PioTypeOK /\ CallKnown /\ JobsInStep /\ Progress /\ Port \in Channels
      /\ pc = "data" /\ Transferring
      /\ sectors \in Nat /\ words \in 0 .. WORDS - 1 /\ call.count \in Nat /\ sectors < call.count
      /\ WORDS \in Nat \ {0} /\ Address(call.LBA) \in Nat /\ call.LBA \in Nat
  <2>1. PioTypeOK /\ CallKnown /\ JobsInStep /\ Progress /\ Port \in Channels
    BY PortKnown DEF PioInv
  <2>2. pc = "data" /\ Transferring
    BY DEF Transferring, ReadWord, WriteByte, CountWord
  <2>3. /\ sectors \in Nat /\ words \in 0 .. WORDS - 1 /\ call.count \in Nat /\ call.LBA \in Nat
        /\ WORDS \in Nat \ {0}
    BY <2>1, PioAssumption DEF PioTypeOK
  <2>4. sectors < call.count
    BY <2>1, <2>2, <2>3 DEF JobsInStep
  <2>5. Address(call.LBA) \in Nat
    BY <2>1, AddressArrives DEF CallKnown
  <2> QED
    BY <2>1, <2>2, <2>3, <2>4, <2>5
<1>2. /\ call.disk \in Disks /\ Moves /\ call.LBA + sectors < SECTORS /\ Done \in Nat
      /\ WordName(job[Port]) = WantedWord(call, Done + 1) /\ job[Port].disk = call.disk
  BY <1>1, WordArrives DEF Active
<1>0. /\ CountWord /\ NextWord(Port)
      /\ buf' = IF call.op = "read" THEN Append(buf, WordName(job[Port])) ELSE buf
      /\ stored' = IF call.op = "write" THEN stored \cup {LowByte(WordName(job[Port]))} ELSE stored
  BY <1>2 DEF ReadWord, WriteByte, Ignored
<1>3. /\ UNCHANGED <<content, call, step, regs>>
      /\ \A port \in Channels \ {Port} : job'[port] = job[port] /\ drq'[port] = drq[port]
  BY <1>0, <1>1 DEF CountWord, NextWord, PioTypeOK
<1>4. /\ Port' = Port /\ Disks' = Disks /\ Moves' = Moves /\ TakeBytes' = TakeBytes /\ Ignored' = Ignored
      /\ ~Ignored'
  BY <1>3 DEF Port, Disks, Moves, TakeBytes, Ignored
<1>5. Done' = Done + 1
  <2>1. (sectors + 1) * WORDS = sectors * WORDS + WORDS /\ sectors * WORDS \in Nat
    BY <1>1
  <2> QED
    <3> DEFINE m == sectors * WORDS
    <3> HIDE DEF m
    <3>1. CASE words' = words + 1 /\ sectors' = sectors
      BY <1>1, <2>1, <3>1 DEF Done, m
    <3>2. CASE words + 1 = WORDS /\ words' = 0 /\ sectors' = sectors + 1
      <4>1. Done' = m + WORDS
        BY <1>1, <2>1, <3>2 DEF Done, m
      <4> QED
        BY <1>1, <2>1, <3>2, <4>1 DEF Done, m
    <3> QED
      BY <1>0, <3>1, <3>2, TransferSteps
<1>6. PioTypeOK'
  <2>1. job'[Port] \in [op : {"none", "identify", "read", "write"}, disk : 0 .. 3, LBA : Nat,
                        word : 0 .. WORDS - 1, left : Nat]
    <3>1. call.op \in {"none", "identify", "read", "write"} /\ call.disk \in 0 .. 3
      BY <1>1 DEF PioTypeOK
    <3>2. /\ words + 1 < WORDS => words + 1 \in 0 .. WORDS - 1
          /\ 0 \in 0 .. WORDS - 1
          /\ call.count - sectors \in Nat /\ call.count - (sectors + 1) \in Nat
          /\ Address(call.LBA) + sectors \in Nat /\ Address(call.LBA) + (sectors + 1) \in Nat
      BY <1>1
    <3> QED
      BY <1>0, <3>1, <3>2, TransferSteps DEF NoJob
  <2>2. job' \in [Channels -> [op : {"none", "identify", "read", "write"}, disk : 0 .. 3, LBA : Nat,
                               word : 0 .. WORDS - 1, left : Nat]]
    BY <1>0, <1>1, <2>1 DEF NextWord, PioTypeOK
  <2>3. bsy' \in [Channels -> BOOLEAN] /\ drq' \in [Channels -> BOOLEAN]
    BY <1>0, <1>1 DEF NextWord, PioTypeOK
  <2>5. \/ words + 1 < WORDS /\ pc' = "data" /\ words' = words + 1 /\ sectors' = sectors
        \/ pc' = "busy" /\ words' = 0 /\ sectors' = sectors + 1 /\ sectors + 1 < call.count
        \/ pc' = "idle" /\ words' = 0 /\ sectors' = sectors + 1 /\ sectors + 1 = call.count
    BY <1>0, TransferSteps
  <2>4. /\ sectors' \in 0 .. call.count /\ words' \in 0 .. WORDS - 1
        /\ pc' \in {"busy", "data", "idle"}
    BY <1>1, <2>5
  <2> QED
    BY <1>1, <1>3, <2>2, <2>3, <2>4 DEF PioTypeOK
<1>7. CallKnown'
  <2>1. pc' \in {"busy", "data", "idle"}
    BY <1>0, TransferSteps
  <2> QED
    BY <1>1, <1>2, <1>3, <2>1 DEF CallKnown, Moves, Transferring, Places
<1>8. Sent'
  BY <1>0, TransferSteps DEF Sent
<1>9. JobsInStep'
  <2>1. /\ call'.op = call.op /\ call'.disk = call.disk /\ call'.count = call.count
        /\ Address(call'.LBA) = Address(call.LBA)
    BY <1>3
  <2>2. /\ pc' \in {"busy", "data", "idle"}
        /\ pc' # "idle" => job'[Port] = Active' /\ sectors' < call.count /\ job'[Port].left # 0
        /\ pc' = "idle" => job'[Port] = NoJob
        /\ pc' # "data" => ~drq'[Port] /\ words' = 0
        /\ pc' = "data" => drq'[Port] /\ ~bsy'[Port] /\ job'[Port].LBA < SECTORS
    <3>1. CASE pc' = "data" /\ words' = words + 1 /\ sectors' = sectors
      <4>1. job'[Port] = Active'
        BY <1>0, <1>4, <2>1, <3>1, TransferSteps DEF Active
      <4>2. job'[Port].LBA = Address(call.LBA) + sectors /\ job'[Port].left = call.count - sectors
        BY <1>0, <3>1, TransferSteps
      <4>3. Address(call.LBA) = call.LBA
        BY <1>1, <1>2, WordArrives, AddressArrives, PioAssumption, Sizes DEF Active, Has, JobsInStep, CallKnown, Moves
      <4> QED
        BY <1>0, <1>1, <1>2, <3>1, <4>1, <4>2, <4>3, TransferSteps
    <3>2. CASE pc' = "busy" /\ words' = 0 /\ sectors' = sectors + 1
      <4>1. job'[Port] = Active'
        BY <1>0, <1>4, <2>1, <3>2, TransferSteps DEF Active
      <4>2. job'[Port].left = call.count - (sectors + 1) /\ sectors + 1 < call.count
        BY <1>0, <3>2, TransferSteps
      <4> QED
        BY <1>0, <1>1, <3>2, <4>1, <4>2, TransferSteps
    <3>3. CASE pc' = "idle"
      BY <1>0, <3>3, TransferSteps
    <3> QED
      BY <1>0, <3>1, <3>2, <3>3, TransferSteps
  <2>3. \A port \in Channels :
          /\ job'[port] # NoJob => job'[port].left # 0 /\ job'[port].op # "none"
          /\ drq'[port] => job'[port] # NoJob /\ Has(job'[port])
          /\ Transferring' /\ port = Port
               => job'[port] = NoJob \/ (job'[port] = Active' /\ call'.disk \in Disks')
          /\ ~Transferring' \/ port # Port => LeftOver(port)'
    <3> SUFFICES ASSUME NEW port \in Channels
                 PROVE  /\ job'[port] # NoJob => job'[port].left # 0 /\ job'[port].op # "none"
                        /\ drq'[port] => job'[port] # NoJob /\ Has(job'[port])
                        /\ Transferring' /\ port = Port
                             => job'[port] = NoJob \/ (job'[port] = Active' /\ call'.disk \in Disks')
                        /\ ~Transferring' \/ port # Port => LeftOver(port)'
      OBVIOUS
    <3>1. CASE port # Port
      <4>1. LeftOver(port)' = LeftOver(port)
        BY <1>3, <1>4, <3>1 DEF LeftOver
      <4> QED
        BY <1>1, <1>3, <3>1, <4>1 DEF JobsInStep
    <3>2. CASE port = Port
      <4>1. pc' # "idle" => job'[Port].op \in {"read", "write"}
        BY <1>2, <2>1, <2>2 DEF Active, Moves
      <4>2. Transferring' <=> pc' # "idle"
        BY <2>2 DEF Transferring
      <4>3. drq'[Port] => job'[Port] # NoJob
        BY <2>2, <4>1 DEF NoJob
      <4>4. drq'[Port] => Has(job'[Port])
        BY <2>2 DEF Has
      <4>5. pc' = "idle" => LeftOver(port)'
        BY <2>2, <3>2 DEF LeftOver
      <4> QED
        BY <1>2, <1>3, <1>4, <2>2, <3>2, <4>1, <4>2, <4>3, <4>4, <4>5
    <3> QED
      BY <3>1, <3>2
  <2> QED
    BY <1>1, <1>3, <1>4, <2>2, <2>3 DEF JobsInStep, Has, Transferring
<1>10. Progress'
  <2>1. call.op = "read" => buf' = [n \in 1 .. Done + 1 |-> WantedWord(call, n)]
    <3>1. ASSUME call.op = "read"
          PROVE  Append(buf, WantedWord(call, Done + 1)) = [n \in 1 .. Done + 1 |-> WantedWord(call, n)]
      <4>1. buf = [n \in 1 .. Done |-> WantedWord(call, n)]
        BY <1>1, <3>1 DEF Progress
      <4> HIDE DEF WantedWord, Done
      <4>2. buf \in Seq({WantedWord(call, n) : n \in 1 .. Done + 1}) /\ Len(buf) = Done
        BY <1>2, <4>1
      <4> QED
        BY <1>2, <4>1, <4>2
    <3> QED
      BY <1>0, <1>2, <3>1
  <2>2. call.op = "write" => stored' = {LowByte(WantedWord(call, n)) : n \in 1 .. Done + 1}
    <3> HIDE DEF WantedWord, Done
    <3>1. 1 .. Done + 1 = (1 .. Done) \cup {Done + 1}
      BY <1>2
    <3> QED
      BY <1>0, <1>1, <1>2, <3>1 DEF Progress
  <2>3. pc' = "idle" => sectors' = call.count /\ words' = 0
    BY <1>0, TransferSteps
  <2>4. sectors' <= sectors + 1 /\ sectors' \in Nat
    BY <1>0, <1>1, TransferSteps
  <2>5. call.LBA + sectors' <= SECTORS
    BY <1>1, <1>2, <2>4, PioAssumption, Sizes
  <2> QED
    BY <1>2, <1>3, <1>4, <1>5, <2>1, <2>2, <2>3, <2>5 DEF Progress, WantedWord
<1> QED
  BY <1>6, <1>7, <1>8, <1>9, <1>10 DEF PioInv

(* Bytes that the disk does not take: only the driver counts.              *)
LEMMA IgnoredKeeps ==
  ASSUME PioInv, WriteByte, Ignored
  PROVE  PioInv'
<1>1. /\ PioTypeOK /\ CallKnown /\ JobsInStep /\ Progress /\ Port \in Channels
      /\ pc = "data" /\ Transferring /\ call.op = "write"
      /\ sectors \in Nat /\ words \in 0 .. WORDS - 1 /\ call.count \in Nat /\ sectors < call.count
      /\ WORDS \in Nat \ {0}
  BY PortKnown, PioAssumption
     DEF PioInv, PioTypeOK, Transferring, WriteByte, CountWord, JobsInStep
<1>2. job[Port] = Active /\ call.disk \in Disks /\ drq[Port] /\ ~bsy[Port] /\ job[Port].disk = call.disk
  BY <1>1, WordArrives DEF Active
<1>3. /\ UNCHANGED <<content, call, step, regs, stored, job, drq, bsy, buf>>
      /\ words' = (words + 1) % WORDS
      /\ sectors' = IF words + 1 = WORDS THEN sectors + 1 ELSE sectors
      /\ pc' = AfterWord
  BY <1>2 DEF WriteByte, CountWord, Ignored, Goto
<1>4. \/ pc' = "data" /\ words' = words + 1 /\ words + 1 < WORDS /\ sectors' = sectors
      \/ pc' = "busy" /\ words' = 0 /\ sectors' = sectors + 1 /\ sectors + 1 < call.count
      \/ pc' = "idle" /\ words' = 0 /\ sectors' = sectors + 1 /\ sectors + 1 = call.count
  BY <1>1, <1>3 DEF AfterWord
<1>5. /\ Port' = Port /\ Disks' = Disks /\ TakeBytes' = TakeBytes /\ Ignored' = Ignored /\ Ignored'
      /\ Moves' = Moves
  BY <1>3 DEF Port, Disks, TakeBytes, Ignored, Moves
<1>6. PioTypeOK'
  <2>1. /\ sectors' \in 0 .. call.count /\ words' \in 0 .. WORDS - 1
        /\ pc' \in {"busy", "data", "idle"}
    BY <1>1, <1>4
  <2> QED
    BY <1>1, <1>3, <2>1 DEF PioTypeOK
<1>7. CallKnown'
  BY <1>1, <1>3, <1>4 DEF CallKnown, Moves, Transferring, Places
<1>8. Sent'
  BY <1>4 DEF Sent
<1>9. JobsInStep'
  <2>1. /\ Active' = Active /\ Active.op = "write" /\ Active.word = 0 /\ Active.disk = call.disk
        /\ \A port : LeftOver(port)' = LeftOver(port)
    BY <1>1, <1>3, <1>5 DEF Active, LeftOver, Address, Byte, Shifted, Joined
  <2>2. LeftOver(Port)
    BY <1>2, <2>1 DEF LeftOver, Ignored
  <2>3. /\ Transferring' => sectors' < call.count
        /\ pc' \in {"busy", "ready"} => words' = 0
        /\ pc' \in {"busy", "data", "idle"}
    BY <1>1, <1>4 DEF Transferring
  <2>4. \A port \in Channels :
          /\ job'[port] # NoJob => job'[port].left # 0 /\ job'[port].op # "none"
          /\ drq'[port] => job'[port] # NoJob /\ Has(job'[port])
          /\ Transferring' /\ port = Port
               => job'[port] = NoJob \/ (job'[port] = Active' /\ call'.disk \in Disks')
          /\ ~Transferring' \/ port # Port => LeftOver(port)'
    BY <1>1, <1>2, <1>3, <1>5, <2>1, <2>2 DEF JobsInStep
  <2> QED
    BY <1>2, <1>3, <1>5, <2>3, <2>4 DEF JobsInStep, Has
<1>10. Progress'
  BY <1>1, <1>3, <1>4, <1>5 DEF Progress, Moves, WantedWord
<1> QED
  BY <1>6, <1>7, <1>8, <1>9, <1>10 DEF PioInv

(* The words of IDENTIFY, read while the disk may not be ready.            *)
LEMMA IdentifyKeeps ==
  ASSUME PioInv, InwIdentify
  PROVE  PioInv'
<1>1. /\ PioTypeOK /\ CallKnown /\ JobsInStep /\ Port \in Channels /\ pc = "identify"
      /\ words \in 0 .. WORDS - 1 /\ WORDS \in Nat \ {0}
      /\ job \in [Channels -> [op : {"none", "identify", "read", "write"}, disk : 0 .. 3, LBA : Nat,
                               word : 0 .. WORDS - 1, left : Nat]]
      /\ bsy \in [Channels -> BOOLEAN] /\ drq \in [Channels -> BOOLEAN]
  BY PortKnown, PioAssumption DEF PioInv, PioTypeOK, InwIdentify
<1>2. /\ UNCHANGED <<content, call, step, sectors, buf, regs, stored>>
      /\ words' = (words + 1) % WORDS /\ pc' \in {"identify", "idle"}
      /\ IF drq[Port] THEN NextWord(Port) ELSE UNCHANGED <<job, drq, bsy>>
  BY DEF InwIdentify, Goto
<1>3. call.op = "identify"
  BY <1>1 DEF CallKnown
<1>4. words' \in 0 .. WORDS - 1
  BY <1>1, <1>2
<1>5. Port' = Port /\ Disks' = Disks /\ Moves' = Moves /\ ~Moves /\ ~Transferring /\ ~Transferring'
  BY <1>1, <1>2, <1>3 DEF Port, Disks, Moves, Transferring
<1> DEFINE J == [op : {"none", "identify", "read", "write"}, disk : 0 .. 3, LBA : Nat,
                 word : 0 .. WORDS - 1, left : Nat]
<1>6. /\ job' \in [Channels -> J] /\ drq' \in [Channels -> BOOLEAN] /\ bsy' \in [Channels -> BOOLEAN]
      /\ job'[Port] # NoJob => job'[Port].left # 0 /\ job'[Port].op = "identify"
      /\ drq'[Port] => job'[Port] # NoJob /\ Has(job'[Port])
      /\ \A port \in Channels \ {Port} : job'[port] = job[port] /\ drq'[port] = drq[port]
  <2>1. CASE ~drq[Port]
    BY <1>1, <1>2, <1>5, <2>1 DEF JobsInStep, NoJob
  <2>2. CASE drq[Port]
    <3> DEFINE j == job[Port]
               last == j.word = WORDS - 1
               left == IF last THEN j.left - 1 ELSE j.left
               new == IF left = 0 THEN NoJob
                      ELSE [op |-> j.op, disk |-> j.disk, LBA |-> IF last THEN j.LBA + 1 ELSE j.LBA,
                            word |-> IF last THEN 0 ELSE j.word + 1, left |-> left]
    <3>1. /\ job' = [job EXCEPT ![Port] = new]
          /\ drq' = [drq EXCEPT ![Port] = ~last]
          /\ bsy' = [bsy EXCEPT ![Port] = last /\ (left # 0 \/ j.op = "write")]
      BY <1>2, <2>2 DEF NextWord
    <3>2. j \in J /\ j.left # 0 /\ j.op = "identify"
      BY <1>1, <1>5, <2>2 DEF JobsInStep
    <3>3. left \in Nat /\ (~last => left # 0 /\ j.word + 1 \in 0 .. WORDS - 1)
      BY <1>1, <3>2
    <3>4. new \in J /\ (new # NoJob => new.left # 0 /\ new.op = "identify") /\ (~last => new # NoJob)
      BY <1>1, <3>2, <3>3 DEF NoJob
    <3> HIDE DEF new, last, left, j
    <3>5. job'[Port] = new /\ drq'[Port] = ~last
      BY <1>1, <3>1
    <3> QED
      BY <1>1, <3>1, <3>4, <3>5 DEF Has
  <2> QED
    BY <2>1, <2>2
<1>7. PioTypeOK'
  BY <1>1, <1>2, <1>4, <1>6 DEF PioTypeOK
<1>8. CallKnown'
  BY <1>1, <1>2, <1>3, <1>5 DEF CallKnown, Moves, Transferring, Places
<1>9. Sent'
  BY <1>2 DEF Sent
<1>10. JobsInStep'
  <2>0. TakeBytes' = TakeBytes
    BY <1>2 DEF TakeBytes, Disks
  <2>1. ASSUME NEW port \in Channels
        PROVE  /\ job'[port] # NoJob => job'[port].left # 0 /\ job'[port].op # "none"
               /\ drq'[port] => job'[port] # NoJob /\ Has(job'[port])
               /\ LeftOver(port)'
               /\ port = Port => job'[port] = NoJob \/ job'[port].op = "identify"
    <3>1. CASE port = Port
      BY <1>6, <3>1 DEF LeftOver
    <3>2. CASE port # Port
      <4>1. LeftOver(port)' = LeftOver(port)
        BY <1>6, <2>0, <3>2 DEF LeftOver
      <4> QED
        BY <1>1, <1>5, <1>6, <3>2, <4>1 DEF JobsInStep
    <3> QED
      BY <3>1, <3>2
  <2> QED
    BY <1>2, <1>5, <2>1 DEF JobsInStep, Has
<1>11. Progress'
  BY <1>2, <1>3, <1>5 DEF Progress, Moves
<1> QED
  BY <1>7, <1>8, <1>9, <1>10, <1>11 DEF PioInv

LEMMA PioUnchanged ==
  ASSUME PioInv, UNCHANGED pioVars
  PROVE  PioInv'
<1>1. UNCHANGED <<content, call, pc, step, sectors, words, buf, regs, bsy, drq, job, stored>>
  BY DEF pioVars, driverVars, deviceVars
<1>2. /\ Port' = Port /\ Disks' = Disks /\ Ignored' = Ignored /\ Active' = Active
      /\ \A port : LeftOver(port)' = LeftOver(port)
  BY <1>1, Quiet
<1>3. PioTypeOK' /\ CallKnown'
  BY <1>1 DEF PioInv, PioTypeOK, CallKnown, Moves, Transferring, Places
<1>4. Sent'
  BY <1>1, <1>2 DEF PioInv, Sent, Low, Outs, Drive, Byte, Shifted
<1>5. JobsInStep'
  BY <1>1, <1>2 DEF PioInv, JobsInStep, Transferring, Has
<1>6. Progress'
  BY <1>1, <1>2 DEF PioInv, Progress, Moves, Done, WantedWord
<1> QED
  BY <1>3, <1>4, <1>5, <1>6 DEF PioInv

-----------------------------------------------------------------------------
(* The inductive invariant of init_disk.                                   *)

Locs == {Four(n) : n \in 0 .. FourBytes - 1}
Systems == {"fat32"} \cup {m.fs : m \in Memory}
Infos == [loc : Locs, size : Nat, fs : Systems, fat : Int, data : Int]

(* The places where the table of a disk is complete, and where a sector    *)
(* is being read.                                                          *)
Looking == at \in {"part", "boot", "BPB", "fat", "link", "fault"}
Reading == at \in {"table", "boot", "BPB", "fat", "link"}

TableTypeOK ==
  /\ content \in Contents /\ memory \in Memory
  /\ at \in {"identify", "identified", "table", "part", "boot", "BPB", "fat", "link", "fault", "done"}
  /\ disk \in 0 .. 4 /\ part \in 1 .. PARTS
  /\ at = "done" <=> disk = 4
  /\ at \in {"identify", "identified"} => part = 1
  /\ disktable \in [0 .. 3 -> [blocks : BOOLEAN, parts : [1 .. PARTS -> Infos]]]
  /\ BPB \in Fields \cup {NoBoot}
  /\ current_cluster \in 0 .. FourBytes - 1
  /\ volumes \in Seq([disk : 0 .. 3, partition : 1 .. PARTS])

(* What the driver has been asked for.                                     *)
Asked ==
  /\ at \in {"identify", "part", "fault"} => pc = "idle"
  /\ at = "done" /\ pc # "idle" => Moves
  /\ at = "identified" => call.op = "identify" /\ call.disk = disk
  /\ Reading => call.op = "read" /\ call.count = 1 /\ call.disk = disk
  /\ at = "table" => call.LBA = 0
  /\ at \in {"boot", "BPB"} => call.LBA = Info.loc

(* What fat_setup is called for.                                           *)
Signed ==
  /\ at \in {"BPB", "fat", "link"} => Info.loc < SECTORS /\ Boot(disk, Info.loc).signature
  /\ at \in {"fat", "link"} => BPB = Boot(disk, Info.loc)

(* A partition's place is known, and what is there has been looked at.     *)
Placed(d, i) == disktable[d].parts[i].loc = Four(content[d].table[i].loc)
Judged(d, i) ==
  content[d].table[i].loc < FourBytes \div 2 =>
    LET b == Boot(d, content[d].table[i].loc)
    IN  /\ memory.fs # "fat32" => (disktable[d].parts[i].fs = "fat32" <=> b.signature)
        /\ b.signature => disktable[d].parts[i].data = Data(b)

SetUp ==
  /\ \A d \in Found : d \in Disks /\ \A i \in 1 .. PARTS : Placed(d, i) /\ Judged(d, i)
  /\ \A i \in 1 .. PARTS :
       /\ at = "table" /\ i < part => disk \in Disks /\ Placed(disk, i)
       /\ Looking => disk \in Disks /\ Placed(disk, i) /\ (i < part => Judged(disk, i))
       /\ (Looking /\ i >= part) \/ (at = "table" /\ i < part) => disktable[disk].parts[i].fs = memory.fs

(* The letters that have been given out.                                   *)
Taken(v) == v.disk \in Found \/ (v.disk = disk /\ (Looking \/ (at = "table" /\ v.partition < part)))

Used(v) == content[v.disk].table[v.partition].size # 0

Letters ==
  /\ \A k \in DOMAIN volumes : volumes[k].disk \in Disks /\ Taken(volumes[k]) /\ Used(volumes[k])
  /\ \A v \in [disk : Disks, partition : 1 .. PARTS] :
       Taken(v) /\ Used(v) => \E k \in DOMAIN volumes : volumes[k] = v
  /\ \A k, l \in DOMAIN volumes : k < l => Before(volumes[k], volumes[l])

(* A disk whose words all came in time has its size.                       *)
Sized ==
  /\ Looking \/ at = "table" => disktable[disk].blocks
  /\ \A d \in Disks \ hasty : d < disk => disktable[d].blocks
  /\ at = "identified" /\ disk \in Disks \ hasty =>
       /\ pc = "identify" => /\ job[Port].word = words /\ job[Port].left = 1
                             /\ words > SIZE_WORD => disktable[disk].blocks
       /\ pc = "idle" => disktable[disk].blocks

DiskInv ==
  /\ PioInv
  /\ TableTypeOK
  /\ Asked
  /\ Signed
  /\ SetUp
  /\ Letters
  /\ Sized

-----------------------------------------------------------------------------
(* Where partitions are.                                                   *)
LEMMA FourKnown ==
  ASSUME NEW n \in 0 .. FourBytes - 1
  PROVE  /\ Four(n) \in Nat /\ Four(n) \in Locs /\ Four(n) \in Places
         /\ Four(n) < SECTORS => Four(n) < FourBytes
         /\ n < FourBytes \div 2 => Four(n) = n
<1>1. EightBytes \in Nat /\ FourBytes \in Nat /\ SixBytes \in Nat /\ FourBytes <= SixBytes /\ SixBytes <= EightBytes
  <2>1. SixBytes * TwoBytes >= SixBytes * 1
    BY Sizes
  <2> QED
    BY <2>1, Sizes
<1>2. SixBytes + SixBytes <= EightBytes
  <2>1. SixBytes * TwoBytes >= SixBytes * 2
    BY Sizes
  <2> QED
    BY <2>1, Sizes
<1>3. CASE n < FourBytes \div 2
  BY <1>1, <1>3 DEF Four, Locs, Places
<1>4. CASE ~(n < FourBytes \div 2)
  <2>1. Four(n) = n + EightBytes - FourBytes /\ Four(n) \in Nat /\ Four(n) >= SixBytes
    BY <1>1, <1>2, <1>4 DEF Four
  <2>2. SECTORS < SixBytes
    BY <1>1, PioAssumption, Sizes
  <2> QED
    BY <1>1, <1>4, <2>1, <2>2, PioAssumption DEF Locs, Places
<1> QED
  BY <1>3, <1>4

LEMMA LocsKnown ==
  ASSUME NEW loc \in Locs
  PROVE  loc \in Nat /\ loc \in Places /\ (loc < SECTORS => loc < FourBytes)
  BY FourKnown DEF Locs

LEMMA InfoKnown ==
  ASSUME TableTypeOK, at # "done"
  PROVE  disk \in 0 .. 3 /\ Info \in Infos
<1>1. disk \in 0 .. 3 /\ part \in 1 .. PARTS
  BY DEF TableTypeOK
<1>2. disktable[disk].parts \in [1 .. PARTS -> Infos]
  BY <1>1 DEF TableTypeOK
<1> QED
  BY <1>1, <1>2 DEF Info

LEMMA VolumesKnown ==
  ASSUME TableTypeOK
  PROVE  \A k \in DOMAIN volumes : volumes[k].disk \in 0 .. 3 /\ volumes[k].partition \in 1 .. PARTS
<1> DEFINE S == [disk : 0 .. 3, partition : 1 .. PARTS]
<1>1. volumes \in Seq(S)
  BY DEF TableTypeOK
<1>2. \A v \in S : v.disk \in 0 .. 3 /\ v.partition \in 1 .. PARTS
  OBVIOUS
<1> HIDE DEF S
<1>3. \A k \in DOMAIN volumes : volumes[k] \in S
  BY <1>1
<1> QED
  BY <1>2, <1>3

(* What is on the disks.                                                   *)
LEMMA ContentKnown ==
  ASSUME TableTypeOK, NEW d \in Disks
  PROVE  /\ d \in 0 .. 3
         /\ \A i \in 1 .. PARTS : /\ content[d].table[i].loc \in 0 .. FourBytes - 1
                                  /\ content[d].table[i].size \in 0 .. FourBytes - 1
         /\ \A lba : Boot(d, lba) \in Fields \cup {NoBoot}
         /\ \A lba : Boot(d, lba).signature <=> Boot(d, lba) \in Fields
<1>1. /\ d \in 0 .. 3
      /\ content[d].table \in [1 .. PARTS -> [loc : 0 .. FourBytes - 1, size : 0 .. FourBytes - 1]]
      /\ \A lba \in DOMAIN content[d].boot : content[d].boot[lba] \in Fields \cup {NoBoot}
  BY DiskAssumption DEF TableTypeOK, Disks
<1>2. \A lba : Boot(d, lba) \in Fields \cup {NoBoot}
  BY <1>1 DEF Boot
<1>3. ~NoBoot.signature /\ \A b \in Fields : b.signature
  BY DEF NoBoot, Fields
<1>4. NoBoot \notin Fields
  BY <1>3
<1> QED
  BY <1>1, <1>2, <1>3, <1>4

(* What init_disk finds in the buffer.                                     *)
LEMMA SectorRead ==
  ASSUME DiskInv, Reading, pc = "idle"
  PROVE  /\ disk \in Disks /\ disk \in 0 .. 3
         /\ call.LBA < SECTORS
         /\ BootRead = Boot(disk, call.LBA)
         /\ TableRead = content[disk].table
<1>1. /\ PioTypeOK /\ Progress /\ call.op = "read" /\ call.count = 1 /\ call.disk = disk
      /\ call.LBA \in Nat /\ WORDS \in Nat \ {0}
  BY PioAssumption DEF DiskInv, PioInv, Asked, PioTypeOK
<1>2. sectors = 1 /\ words = 0
  BY <1>1 DEF Progress, Moves
<1>3. disk \in Disks /\ call.LBA + 1 <= SECTORS
  BY <1>1, <1>2 DEF Progress, Moves
<1>4. Done = WORDS
  BY <1>1, <1>2 DEF Done
<1>5. buf[1] = WantedWord(call, 1)
  BY <1>1, <1>4 DEF Progress
<1>6. 0 \div WORDS = 0
  BY <1>1
<1>7. buf[1][1] = disk /\ buf[1][2] = call.LBA
  BY <1>1, <1>5, <1>6 DEF WantedWord
<1>8. disk \in 0 .. 3
  BY <1>3, ContentKnown DEF DiskInv
<1> QED
  BY <1>1, <1>3, <1>7, <1>8, PioAssumption, Sizes DEF BootRead, TableRead

(* What depends on the tables alone.                                       *)
LEMMA TableFrame ==
  ASSUME UNCHANGED <<content, disk, part, memory, disktable>>
  PROVE  /\ Disks' = Disks /\ Found' = Found /\ Info' = Info
         /\ Boot(disk, Info.loc)' = Boot(disk, Info.loc)
         /\ \A d, i : Placed(d, i)' = Placed(d, i)
         /\ \A d, i : Judged(d, i)' = Judged(d, i)
<1>1. Disks' = Disks /\ Found' = Found /\ Info' = Info
  BY DEF Disks, Found, Info
<1>2. Boot(disk, Info.loc)' = Boot(disk, Info.loc)
  BY <1>1 DEF Boot
<1>3. \A d, i : Placed(d, i)' = Placed(d, i)
  BY DEF Placed, Four
<1>4. \A d, i : Judged(d, i)' = Judged(d, i)
  <2> DEFINE b(d, i) == Boot(d, content[d].table[i].loc)
  <2>1. \A d, i : b(d, i)' = b(d, i)
    BY DEF Boot
  <2> QED
    BY <2>1 DEF Judged, Data, FirstFat
<1> QED
  BY <1>1, <1>2, <1>3, <1>4

(* What the letters say does not change while the file systems of a disk   *)
(* are looked at.                                                          *)
LEMMA LettersFrame ==
  ASSUME Letters, UNCHANGED <<content, disk, part, memory, disktable, volumes>>, Looking, Looking'
  PROVE  Letters'
<1>1. Disks' = Disks /\ Found' = Found
  BY TableFrame
<1>2. \A v : Taken(v)' = Taken(v) /\ Used(v)' = Used(v)
  BY <1>1 DEF Taken, Used
<1> QED
  BY <1>1, <1>2 DEF Letters, Before

(* Steps of driver and disks.                                              *)
LEMMA DriverKeepsTable ==
  ASSUME DiskInv, UNCHANGED <<at, disk, part, tableVars>>,
         DriverStep \/ (\E port \in Channels : DiskReady(port)) \/ UNCHANGED pioVars
  PROVE  TableTypeOK' /\ Asked' /\ Signed' /\ SetUp' /\ Letters' /\ Sized'
<1>1. UNCHANGED <<content, call, at, disk, part, memory, disktable, volumes, BPB, current_cluster, hasty>>
  BY DEF tableVars, DriverStep, DiskReady, PollFree, OutRegister, OutCommand, PollBusy, PollReady,
         ReadWord, WriteByte, CountWord, pioVars, driverVars
<1>2. /\ Disks' = Disks /\ Found' = Found /\ Looking' = Looking /\ Reading' = Reading /\ Moves' = Moves
      /\ Port' = Port /\ Info' = Info /\ Boot(disk, Info.loc)' = Boot(disk, Info.loc)
  BY <1>1, TableFrame DEF Looking, Reading, Moves, Port
<1>3. pc' # "idle" => pc # "idle"
  BY DEF DriverStep, DiskReady, PollFree, OutRegister, OutCommand, PollBusy, PollReady,
         ReadWord, WriteByte, CountWord, pioVars, driverVars, deviceVars
<1>4. TableTypeOK'
  BY <1>1 DEF DiskInv, TableTypeOK, Infos, Locs
<1>5. Asked'
  <2>1. pc = "idle" => pc' = "idle"
    BY DEF DriverStep, DiskReady, PollFree, OutRegister, OutCommand, PollBusy, PollReady,
           ReadWord, WriteByte, CountWord, pioVars, driverVars, deviceVars
  <2> QED
    BY <1>1, <1>2, <1>3, <2>1 DEF DiskInv, Asked
<1>6. Signed'
  BY <1>1, <1>2 DEF DiskInv, Signed
<1>7. SetUp'
  BY <1>1, <1>2, TableFrame DEF DiskInv, SetUp
<1>8. Letters'
  BY <1>1, <1>2 DEF DiskInv, Letters, Taken, Used, Before
<1>9. Sized'
  <2>1. CASE pc' = pc /\ job' = job /\ words' = words
    BY <1>1, <1>2, <2>1 DEF DiskInv, Sized
  <2>2. CASE pc' \notin {"identify", "idle"}
    BY <1>1, <1>2, <2>2 DEF DiskInv, Sized
  <2>3. CASE OutCommand
    <3> SUFFICES ASSUME at = "identified", disk \in Disks \ hasty
                 PROVE  /\ pc' = "identify" => /\ job'[Port].word = words' /\ job'[Port].left = 1
                                               /\ words' > SIZE_WORD => disktable[disk].blocks
                        /\ pc' = "idle" => disktable[disk].blocks
      BY <1>1, <1>2 DEF DiskInv, Sized
    <3>1. /\ call.op = "identify" /\ call.disk = disk /\ Port \in Channels /\ words = 0
          /\ DOMAIN job = Channels
      BY <2>3, PortKnown DEF DiskInv, Asked, PioInv, JobsInStep, OutCommand, PioTypeOK
    <3>2. DiskOf(Port) \in Disks
      BY <2>3, <3>1, CommandArrives DEF DiskInv, OutCommand
    <3>3. job'[Port].word = 0 /\ job'[Port].left = 1 /\ words' = 0 /\ pc' = "identify"
      BY <2>3, <3>1, <3>2 DEF OutCommand, Goto
    <3> QED
      BY <3>1, <3>3, DiskAssumption
  <2>4. CASE ReadWord \/ WriteByte
    <3>1. at # "identified"
      BY <2>4 DEF DiskInv, Asked, ReadWord, WriteByte
    <3> QED
      BY <1>1, <1>2, <3>1 DEF DiskInv, Sized
  <2>5. CASE PollFree \/ OutRegister \/ PollBusy \/ PollReady
    BY <2>1, <2>2, <2>5 DEF PollFree, OutRegister, PollBusy, PollReady, Goto, deviceVars
  <2>6. CASE (\E port \in Channels : DiskReady(port)) \/ UNCHANGED pioVars
    BY <2>1, <2>6 DEF DiskReady, pioVars, driverVars, deviceVars
  <2> QED
    BY <2>3, <2>4, <2>5, <2>6 DEF DriverStep
<1> QED
  BY <1>4, <1>5, <1>6, <1>7, <1>8, <1>9

-----------------------------------------------------------------------------
(* Calls of the driver.                                                    *)
LEMMA IdentifyCallKeeps ==
  ASSUME DiskInv, Identify
  PROVE  DiskInv'
<1>1. /\ at = "identify" /\ at' = "identified" /\ pc' = "poll"
      /\ Start("identify", [LBA |-> 0, count |-> 0], disk)
      /\ call' = [op |-> "identify", LBA |-> 0, count |-> 0, disk |-> disk]
      /\ UNCHANGED <<content, disk, part, memory, disktable, volumes, BPB, current_cluster, hasty>>
  BY DEF Identify, Returned, Start, tableVars
<1>2. disk \in 0 .. 3 /\ TableTypeOK
  BY <1>1 DEF DiskInv, TableTypeOK
<1>3. PioInv'
  <2>1. StartOK("identify", [LBA |-> 0, count |-> 0], disk)
    BY <1>2, Sizes DEF StartOK, Places
  <2> QED
    BY <1>1, <2>1, StartKeeps DEF DiskInv
<1>4. TableTypeOK'
  BY <1>1, <1>2 DEF TableTypeOK, Infos, Locs
<1>5. Asked' /\ Signed'
  BY <1>1 DEF Asked, Signed, Reading, Moves
<1>6. ~Looking /\ ~Looking'
  BY <1>1 DEF Looking
<1>7. SetUp'
  BY <1>1, <1>6, TableFrame DEF DiskInv, SetUp
<1>8. Letters'
  BY <1>1, <1>6, TableFrame DEF DiskInv, Letters, Taken, Used, Before
<1>9. Sized'
  BY <1>1, <1>6, TableFrame DEF DiskInv, Sized
<1> QED
  BY <1>3, <1>4, <1>5, <1>7, <1>8, <1>9 DEF DiskInv

LEMMA ReadTableKeeps ==
  ASSUME DiskInv, ReadTable
  PROVE  DiskInv'
<1>1. /\ at = "identified" /\ at' = "table" /\ pc' = "poll" /\ disktable[disk].blocks
      /\ Start("read", [LBA |-> 0, count |-> 1], disk)
      /\ call' = [op |-> "read", LBA |-> 0, count |-> 1, disk |-> disk]
      /\ UNCHANGED <<content, disk, part, memory, disktable, volumes, BPB, current_cluster, hasty>>
  BY DEF ReadTable, ReadSector, Returned, Start, tableVars
<1>2. disk \in 0 .. 3 /\ TableTypeOK /\ part = 1
  BY <1>1 DEF DiskInv, TableTypeOK
<1>3. PioInv'
  <2>1. StartOK("read", [LBA |-> 0, count |-> 1], disk)
    BY <1>2, Sizes DEF StartOK, Places
  <2> QED
    BY <1>1, <2>1, StartKeeps DEF DiskInv
<1>4. TableTypeOK'
  BY <1>1, <1>2 DEF TableTypeOK, Infos, Locs
<1>5. Asked' /\ Signed'
  BY <1>1 DEF Asked, Signed, Reading, Moves
<1>6. ~Looking /\ ~Looking'
  BY <1>1 DEF Looking
<1>7. SetUp'
  BY <1>1, <1>2, <1>6, TableFrame DEF DiskInv, SetUp
<1>8. Letters'
  <2>1. \A v : v.partition \in 1 .. PARTS => ((v.disk \in Found') <=> Taken(v))
    BY <1>1, <1>2, <1>6, TableFrame DEF Taken
  <2>2. \A k \in DOMAIN volumes : volumes[k].partition \in 1 .. PARTS
    BY <1>2, VolumesKnown
  <2>3. \A v : v.partition \in 1 .. PARTS =>
          (Taken(v) <=> v.disk \in Found' \/ (v.disk = disk' /\ (Looking' \/ (at' = "table" /\ v.partition < part'))))
    BY <1>1, <1>2, <1>6, <2>1, DiskAssumption
  <2>4. \A v \in [disk : Disks, partition : 1 .. PARTS] : v.partition \in 1 .. PARTS
    OBVIOUS
  <2>5. Disks' = Disks /\ volumes' = volumes /\ content' = content
    BY <1>1, TableFrame
  <2>6. \A k \in DOMAIN volumes' : (volumes[k].disk \in Disks /\ Taken(volumes[k]) /\ Used(volumes[k]))'
    BY <2>2, <2>3, <2>5 DEF DiskInv, Letters, Taken, Used
  <2>7. \A v \in [disk : Disks', partition : 1 .. PARTS] :
          (Taken(v) /\ Used(v))' => \E k \in DOMAIN volumes' : volumes'[k] = v
    BY <2>3, <2>4, <2>5 DEF DiskInv, Letters, Taken, Used
  <2> QED
    BY <2>5, <2>6, <2>7 DEF DiskInv, Letters, Before
<1>9. Sized'
  BY <1>1, <1>6, TableFrame DEF DiskInv, Sized
<1> QED
  BY <1>3, <1>4, <1>5, <1>7, <1>8, <1>9 DEF DiskInv

LEMMA ReadBootKeeps ==
  ASSUME DiskInv, ReadBoot
  PROVE  DiskInv'
<1>1. /\ at = "part" /\ at' = "boot" /\ pc' = "poll"
      /\ Start("read", [LBA |-> Info.loc, count |-> 1], disk)
      /\ call' = [op |-> "read", LBA |-> Info.loc, count |-> 1, disk |-> disk]
      /\ UNCHANGED <<content, disk, part, memory, disktable, volumes, BPB, current_cluster, hasty>>
  BY DEF ReadBoot, ReadSector, Returned, Start, tableVars
<1>2. disk \in 0 .. 3 /\ TableTypeOK /\ Info.loc \in Locs
  BY <1>1, InfoKnown DEF DiskInv, Infos
<1>3. PioInv'
  <2>1. StartOK("read", [LBA |-> Info.loc, count |-> 1], disk)
    BY <1>2, LocsKnown, Sizes DEF StartOK
  <2> QED
    BY <1>1, <2>1, StartKeeps DEF DiskInv
<1>4. TableTypeOK'
  BY <1>1, <1>2 DEF TableTypeOK, Infos, Locs
<1>5. Asked' /\ Signed'
  BY <1>1, TableFrame DEF Asked, Signed, Reading, Moves
<1>6. Looking /\ Looking'
  BY <1>1 DEF Looking
<1>7. SetUp'
  BY <1>1, <1>6, TableFrame DEF DiskInv, SetUp
<1>8. Letters'
  BY <1>1, <1>6, LettersFrame DEF DiskInv
<1>9. Sized'
  BY <1>1, <1>6, TableFrame DEF DiskInv, Sized
<1> QED
  BY <1>3, <1>4, <1>5, <1>7, <1>8, <1>9 DEF DiskInv

LEMMA FatSetupKeeps ==
  ASSUME DiskInv, FatSetup
  PROVE  DiskInv'
<1>1. /\ at = "boot" /\ at' = "BPB" /\ pc = "idle" /\ pc' = "poll" /\ BootRead.signature
      /\ Start("read", [LBA |-> Info.loc, count |-> 1], disk)
      /\ call' = [op |-> "read", LBA |-> Info.loc, count |-> 1, disk |-> disk]
      /\ UNCHANGED <<content, disk, part, memory, disktable, volumes, BPB, current_cluster, hasty>>
  BY DEF FatSetup, ReadSector, Returned, Start, tableVars
<1>2. disk \in 0 .. 3 /\ TableTypeOK /\ Info.loc \in Locs
  BY <1>1, InfoKnown DEF DiskInv, Infos
<1>3. PioInv'
  <2>1. StartOK("read", [LBA |-> Info.loc, count |-> 1], disk)
    BY <1>2, LocsKnown, Sizes DEF StartOK
  <2> QED
    BY <1>1, <2>1, StartKeeps DEF DiskInv
<1>4. TableTypeOK'
  BY <1>1, <1>2 DEF TableTypeOK, Infos, Locs
<1>5. Asked'
  BY <1>1, TableFrame DEF Asked, Reading, Moves
<1>6. Looking /\ Looking'
  BY <1>1 DEF Looking
<1>7. Signed'
  <2>1. Info.loc < SECTORS /\ BootRead = Boot(disk, Info.loc)
    BY <1>1, SectorRead DEF Reading, DiskInv, Asked
  <2> QED
    BY <1>1, <2>1, TableFrame DEF Signed
<1>8. SetUp'
  BY <1>1, <1>6, TableFrame DEF DiskInv, SetUp
<1>9. Letters'
  BY <1>1, <1>6, LettersFrame DEF DiskInv
<1>10. Sized'
  BY <1>1, <1>6, TableFrame DEF DiskInv, Sized
<1> QED
  BY <1>3, <1>4, <1>5, <1>7, <1>8, <1>9, <1>10 DEF DiskInv

(* An entry of the file allocation table is not so far out that its        *)
(* address would need more than six bytes.                                 *)
LEMMA FatInReach ==
  ASSUME NEW loc \in Locs, loc < SECTORS, NEW b \in Fields, NEW cluster \in 0 .. FourBytes - 1
  PROVE  loc + FirstFat(b) + SectorOf(cluster) \in Places
<1>1. b.reserved_sectors \in 0 .. TwoBytes - 1 /\ b.bytes_per_sector \in 0 .. TwoBytes - 1
  BY DEF Fields
<1>2. \A t \in Nat : \A x, y \in 0 .. t - 1 : x * y \in Nat /\ x * y <= t * t
  <2> SUFFICES ASSUME NEW t \in Nat, NEW x \in 0 .. t - 1, NEW y \in 0 .. t - 1
               PROVE  x * y \in Nat /\ x * y <= t * t
    OBVIOUS
  <2>1. x * y <= x * t
    OBVIOUS
  <2>2. x * t <= t * t
    OBVIOUS
  <2> QED
    BY <2>1, <2>2
<1>3. FirstFat(b) \in Nat /\ FirstFat(b) <= FourBytes
  BY <1>1, <1>2, Sizes DEF FirstFat, FourBytes
<1>4. \A n, f \in Nat : f # 0 => n \div f \in Nat /\ n \div f <= n
  <2> SUFFICES ASSUME NEW n \in Nat, NEW f \in Nat, f # 0
               PROVE  n \div f \in Nat /\ n \div f <= n
    OBVIOUS
  <2> DEFINE q == n \div f
  <2>1. q \in Nat /\ f * q <= n
    OBVIOUS
  <2> HIDE DEF q
  <2>2. q <= f * q
    BY <2>1
  <2>3. f * q \in Nat
    BY <2>1
  <2>4. q <= n
    BY <2>1, <2>2, <2>3
  <2> QED
    BY <2>1, <2>4 DEF q
<1>5. SectorOf(cluster) \in Nat /\ SectorOf(cluster) <= FourBytes
  BY <1>4, Sizes, DiskAssumption DEF SectorOf
<1>6. loc \in Nat /\ loc < FourBytes
  BY LocsKnown
<1> QED
  BY <1>3, <1>5, <1>6, Sizes DEF Places

(* Whatever fat_setup takes for a link is a number of four bytes.          *)
LEMMA RootKnown ==
  ASSUME NEW b \in Fields
  PROVE  \A k \in DOMAIN b.root : b.root[k] \in 0 .. FourBytes - 1 /\ (k # Len(b.root) => k + 1 \in DOMAIN b.root)
<1>1. b.root \in Seq(0 .. EOC - 1)
  BY DEF Fields, Roots
<1>2. EOC \in 1 .. FourBytes - 1 /\ FourBytes \in Nat
  BY DiskAssumption, Sizes
<1> QED
  BY <1>1, <1>2

LEMMA LinksKnown ==
  ASSUME BPB \in Fields, NEW index
  PROVE  Links(index) \subseteq 0 .. FourBytes - 1
<1>1. EOC \in 0 .. FourBytes - 1
  BY DiskAssumption, Sizes
<1> DEFINE places == {k \in DOMAIN BPB.root :
                        SectorOf(BPB.root[k]) = InBuffer /\ BPB.root[k] % FEPS = index}
<1>2. \A k \in places : (IF k = Len(BPB.root) THEN EOC ELSE BPB.root[k + 1]) \in 0 .. FourBytes - 1
  BY <1>1, RootKnown
<1>3. Links(index) = IF places = {} THEN 0 .. FourBytes - 1
                     ELSE {IF k = Len(BPB.root) THEN EOC ELSE BPB.root[k + 1] : k \in places}
  BY DEF Links
<1> HIDE DEF places
<1> QED
  BY <1>2, <1>3

(* The loop over the root directory, between two reads.                    *)
LEMMA RootLoopKeeps ==
  ASSUME DiskInv, KeepFat \/ NextRoot
  PROVE  DiskInv'
<1>1. /\ at \in {"fat", "link"} /\ at' \in {"fat", "link"} /\ pc = "idle" /\ pc' = pc
      /\ UNCHANGED <<pioVars, content, call, job, words>>
      /\ UNCHANGED <<disk, part, memory, disktable, volumes, BPB, hasty>>
  BY DEF KeepFat, NextRoot, Returned, tableVars, pioVars, driverVars, deviceVars
<1>2. TableTypeOK /\ disk \in Disks
  BY <1>1, SectorRead DEF DiskInv, Reading
<1>3. BPB \in Fields
  BY <1>1, <1>2, ContentKnown DEF DiskInv, Signed
<1>4. current_cluster' \in 0 .. FourBytes - 1
  <2>1. CASE KeepFat
    BY <1>2, <2>1 DEF KeepFat, tableVars, TableTypeOK
  <2>2. CASE NextRoot
    BY <1>3, <2>2, LinksKnown DEF NextRoot, Link
  <2> QED
    BY <2>1, <2>2
<1>5. PioInv'
  BY <1>1, PioUnchanged DEF DiskInv
<1>6. TableTypeOK'
  BY <1>1, <1>2, <1>4 DEF TableTypeOK, Infos, Locs
<1>7. Asked' /\ Signed'
  BY <1>1, TableFrame DEF DiskInv, Asked, Signed, Reading, Moves
<1>8. Looking /\ Looking'
  BY <1>1 DEF Looking
<1>9. SetUp'
  BY <1>1, <1>8, TableFrame DEF DiskInv, SetUp
<1>10. Letters'
  BY <1>1, <1>8, LettersFrame DEF DiskInv
<1>11. Sized'
  BY <1>1, <1>8, TableFrame DEF DiskInv, Sized
<1> QED
  BY <1>5, <1>6, <1>7, <1>9, <1>10, <1>11 DEF DiskInv

LEMMA DivideByZeroKeeps ==
  ASSUME DiskInv, DivideByZero
  PROVE  DiskInv'
<1>1. /\ at = "BPB" /\ at' = "fault" /\ pc = "idle" /\ pc' = pc
      /\ UNCHANGED <<pioVars, content, call, job, words>>
      /\ UNCHANGED <<disk, part, memory, disktable, volumes, BPB, current_cluster, hasty>>
  BY DEF DivideByZero, Returned, tableVars, pioVars, driverVars, deviceVars
<1>2. PioInv'
  BY <1>1, PioUnchanged DEF DiskInv
<1>3. TableTypeOK'
  BY <1>1 DEF DiskInv, TableTypeOK, Infos, Locs
<1>4. Asked' /\ Signed'
  BY <1>1 DEF Asked, Signed, Reading
<1>5. Looking /\ Looking'
  BY <1>1 DEF Looking
<1>6. SetUp'
  BY <1>1, <1>5, TableFrame DEF DiskInv, SetUp
<1>7. Letters'
  BY <1>1, <1>5, LettersFrame DEF DiskInv
<1>8. Sized'
  BY <1>1, <1>5, TableFrame DEF DiskInv, Sized
<1> QED
  BY <1>2, <1>3, <1>4, <1>6, <1>7, <1>8 DEF DiskInv

LEMMA ReloadFatKeeps ==
  ASSUME DiskInv, ReloadFat
  PROVE  DiskInv'
<1> DEFINE lba == FatSector(BPB, current_cluster)
<1>1. /\ at = "fat" /\ at' = "link" /\ pc = "idle" /\ pc' = "poll"
      /\ Start("read", [LBA |-> lba, count |-> 1], disk)
      /\ call' = [op |-> "read", LBA |-> lba, count |-> 1, disk |-> disk]
      /\ UNCHANGED <<content, disk, part, memory, disktable, volumes, BPB, current_cluster, hasty>>
  BY DEF ReloadFat, Returned, Start, tableVars
<1>2. disk \in 0 .. 3 /\ TableTypeOK /\ Info.loc \in Locs /\ current_cluster \in 0 .. FourBytes - 1
  BY <1>1, InfoKnown DEF DiskInv, Infos, TableTypeOK
<1>3. Info.loc < SECTORS /\ BPB = Boot(disk, Info.loc) /\ BPB.signature /\ disk \in Disks
  BY <1>1, SectorRead DEF Reading, DiskInv, Signed
<1>4. BPB \in Fields
  BY <1>2, <1>3, ContentKnown
<1>5. PioInv'
  <2>1. lba \in Places
    BY <1>2, <1>3, <1>4, FatInReach DEF FatSector
  <2> HIDE DEF lba
  <2>2. StartOK("read", [LBA |-> lba, count |-> 1], disk)
    BY <1>2, <2>1, Sizes DEF StartOK
  <2> QED
    BY <1>1, <2>2, StartKeeps DEF DiskInv
<1> HIDE DEF lba
<1>6. TableTypeOK'
  BY <1>1, <1>2 DEF TableTypeOK, Infos, Locs
<1>7. Asked' /\ Signed'
  BY <1>1, <1>3, TableFrame DEF DiskInv, Asked, Signed, Reading, Moves
<1>8. Looking /\ Looking'
  BY <1>1 DEF Looking
<1>10. SetUp'
  BY <1>1, <1>8, TableFrame DEF DiskInv, SetUp
<1>11. Letters'
  BY <1>1, <1>8, LettersFrame DEF DiskInv
<1>12. Sized'
  BY <1>1, <1>8, TableFrame DEF DiskInv, Sized
<1> QED
  BY <1>5, <1>6, <1>7, <1>10, <1>11, <1>12 DEF DiskInv

LEMMA ReadFatKeeps ==
  ASSUME DiskInv, ReadFat
  PROVE  DiskInv'
<1> DEFINE lba == FatSector(BootRead, root_cluster(BootRead))
<1>1. /\ at = "BPB" /\ at' = "fat" /\ pc = "idle" /\ pc' = "poll" /\ BPB' = BootRead
      /\ current_cluster' = root_cluster(BootRead)
      /\ Start("read", [LBA |-> lba, count |-> 1], disk)
      /\ call' = [op |-> "read", LBA |-> lba, count |-> 1, disk |-> disk]
      /\ UNCHANGED <<content, disk, part, memory, disktable, volumes, hasty>>
  BY DEF ReadFat, Returned, Start
<1>2. disk \in 0 .. 3 /\ TableTypeOK /\ Info.loc \in Locs
  BY <1>1, InfoKnown DEF DiskInv, Infos
<1>3. Info.loc < SECTORS /\ BootRead = Boot(disk, Info.loc) /\ BootRead.signature /\ disk \in Disks
  BY <1>1, SectorRead DEF Reading, DiskInv, Asked, Signed
<1>4. BootRead \in Fields
  BY <1>2, <1>3, ContentKnown
<1>0. root_cluster(BootRead) \in 0 .. FourBytes - 1
  <2>1. 1 \in DOMAIN BootRead.root
    <3>1. BootRead.root \in Seq(0 .. EOC - 1) /\ BootRead.root # <<>>
      BY <1>4 DEF Fields, Roots
    <3> QED
      BY <3>1
  <2> QED
    BY <1>4, <2>1, RootKnown DEF root_cluster
<1>5. PioInv'
  <2>1. lba \in Places
    BY <1>0, <1>2, <1>3, <1>4, FatInReach DEF FatSector
  <2> HIDE DEF lba
  <2>2. StartOK("read", [LBA |-> lba, count |-> 1], disk)
    BY <1>2, <2>1, Sizes DEF StartOK
  <2> QED
    BY <1>1, <2>2, StartKeeps DEF DiskInv
<1> HIDE DEF lba
<1>6. TableTypeOK'
  BY <1>0, <1>1, <1>2, <1>4 DEF TableTypeOK, Infos, Locs
<1>7. Asked'
  BY <1>1, TableFrame DEF Asked, Reading, Moves
<1>8. Looking /\ Looking'
  BY <1>1 DEF Looking
<1>9. Signed'
  BY <1>1, <1>3, TableFrame DEF Signed
<1>10. SetUp'
  BY <1>1, <1>8, TableFrame DEF DiskInv, SetUp
<1>11. Letters'
  BY <1>1, <1>8, LettersFrame DEF DiskInv
<1>12. Sized'
  BY <1>1, <1>8, TableFrame DEF DiskInv, Sized
<1> QED
  BY <1>5, <1>6, <1>7, <1>9, <1>10, <1>11, <1>12 DEF DiskInv

LEMMA CallKeeps ==
  ASSUME DiskInv, NEW op \in {"read", "write"}, NEW request \in Requests, NEW d \in Found,
         Call(op, request, d)
  PROVE  DiskInv'
<1>1. /\ at = "done" /\ pc' = "poll" /\ Start(op, request, d)
      /\ call' = [op |-> op, LBA |-> request.LBA, count |-> request.count, disk |-> d]
      /\ UNCHANGED <<content, at, disk, part, memory, disktable, volumes, BPB, current_cluster, hasty>>
  BY DEF Call, Returned, Start, tableVars
<1>2. StartOK(op, request, d)
  <2>1. /\ request.LBA \in Nat /\ request.count \in 1 .. TwoBytes - 1
        /\ request.LBA + request.count <= SECTORS
    BY PioAssumption
  <2>2. request.LBA < SixBytes
    BY <2>1, Sizes, PioAssumption
  <2> QED
    BY <2>1, <2>2, Sizes DEF StartOK, Places, Found
<1>3. PioInv'
  BY <1>1, <1>2, StartKeeps DEF DiskInv
<1>4. TableTypeOK'
  BY <1>1 DEF DiskInv, TableTypeOK, Infos, Locs
<1>5. Asked' /\ Signed'
  BY <1>1 DEF Asked, Signed, Reading, Moves
<1>6. ~Looking /\ ~Looking'
  BY <1>1 DEF Looking
<1>7. SetUp'
  BY <1>1, <1>6, TableFrame DEF DiskInv, SetUp
<1>8. Letters'
  BY <1>1, <1>6, TableFrame DEF DiskInv, Letters, Taken, Used, Before
<1>9. Sized'
  BY <1>1, <1>6, TableFrame DEF DiskInv, Sized
<1> QED
  BY <1>3, <1>4, <1>5, <1>7, <1>8, <1>9 DEF DiskInv

-----------------------------------------------------------------------------
(* The steps of init_disk between two calls.                               *)

(* What a change of one partition's entry leaves alone.                    *)
LEMMA EntryFrame ==
  ASSUME UNCHANGED <<content, memory>>
  PROVE  /\ Disks' = Disks
         /\ \A d, i : disktable'[d].parts[i] = disktable[d].parts[i]
                        => (Placed(d, i)' = Placed(d, i) /\ Judged(d, i)' = Judged(d, i))
<1>1. Disks' = Disks
  BY DEF Disks
<1> SUFFICES ASSUME NEW d, NEW i, disktable'[d].parts[i] = disktable[d].parts[i]
             PROVE  Placed(d, i)' = Placed(d, i) /\ Judged(d, i)' = Judged(d, i)
  BY <1>1
<1>2. Placed(d, i)' = Placed(d, i)
  BY DEF Placed, Four
<1>3. Boot(d, content[d].table[i].loc)' = Boot(d, content[d].table[i].loc)
  BY DEF Boot
<1>4. Judged(d, i)' = Judged(d, i)
  BY <1>3 DEF Judged, Data, FirstFat
<1> QED
  BY <1>2, <1>4

LEMMA EntryUpdated ==
  ASSUME TableTypeOK, disk \in 0 .. 3, part \in 1 .. PARTS, NEW new \in Infos,
         disktable' = [disktable EXCEPT ![disk].parts[part] = new]
  PROVE  /\ disktable' \in [0 .. 3 -> [blocks : BOOLEAN, parts : [1 .. PARTS -> Infos]]]
         /\ \A d \in 0 .. 3 : disktable'[d].blocks = disktable[d].blocks
         /\ \A d \in 0 .. 3, i \in 1 .. PARTS :
              d # disk \/ i # part => disktable'[d].parts[i] = disktable[d].parts[i]
         /\ disktable'[disk].parts[part] = new
<1> DEFINE P == [1 .. PARTS -> Infos]
           D == [blocks : BOOLEAN, parts : P]
           row == disktable[disk]
           parts == [row.parts EXCEPT ![part] = new]
           new_row == [row EXCEPT !.parts = parts]
<1>1. disktable \in [0 .. 3 -> D]
  BY DEF TableTypeOK
<1>2. row \in D /\ row.parts \in P
  BY <1>1
<1>3. parts \in P /\ parts[part] = new /\ \A i \in 1 .. PARTS : i # part => parts[i] = row.parts[i]
  BY <1>2
<1> HIDE DEF P, parts
<1>4. new_row \in D /\ new_row.blocks = row.blocks /\ new_row.parts = parts
  BY <1>2, <1>3
<1>5. disktable' = [disktable EXCEPT ![disk] = new_row]
  BY DEF parts
<1> HIDE DEF D, new_row
<1>6. /\ disktable' \in [0 .. 3 -> D] /\ disktable'[disk] = new_row
      /\ \A d \in 0 .. 3 : d # disk => disktable'[d] = disktable[d]
  BY <1>1, <1>4, <1>5
<1>7. disktable' \in [0 .. 3 -> [blocks : BOOLEAN, parts : [1 .. PARTS -> Infos]]]
  BY <1>6 DEF D, P
<1> QED
  BY <1>3, <1>4, <1>6, <1>7

LEMMA SkipDiskKeeps ==
  ASSUME DiskInv, SkipDisk
  PROVE  DiskInv'
<1>1. /\ at = "identified" /\ pc = "idle" /\ ~disktable[disk].blocks
      /\ at' = (IF disk < 3 THEN "identify" ELSE "done") /\ disk' = disk + 1 /\ part' = 1
      /\ UNCHANGED <<pioVars, memory, disktable, volumes, BPB, current_cluster, hasty>>
      /\ UNCHANGED <<content, call, pc, job, words>>
  BY DEF SkipDisk, NextDisk, Returned, tableVars, pioVars, driverVars, deviceVars
<1>2. disk \in 0 .. 3 /\ TableTypeOK
  BY <1>1 DEF DiskInv, TableTypeOK
<1>3. PioInv'
  BY <1>1, PioUnchanged DEF DiskInv
<1>4. TableTypeOK'
  <2>1. /\ at' \in {"identify", "done"} /\ disk' \in 0 .. 4 /\ part' \in 1 .. PARTS
        /\ at' = "done" <=> disk' = 4
        /\ part' = 1
    BY <1>1, <1>2, DiskAssumption
  <2> QED
    BY <1>1, <1>2, <2>1 DEF TableTypeOK, Infos, Locs
<1>5. Asked' /\ Signed'
  BY <1>1 DEF Asked, Signed, Reading
<1>6. ~Looking /\ ~Looking' /\ Found' = Found /\ Disks' = Disks
  BY <1>1, <1>2 DEF Looking, Found, Disks
<1>7. SetUp'
  <2>1. \A d, i : Placed(d, i)' = Placed(d, i) /\ Judged(d, i)' = Judged(d, i)
    BY <1>1, EntryFrame
  <2>2. at' # "table"
    BY <1>1
  <2> QED
    BY <1>6, <2>1, <2>2 DEF DiskInv, SetUp
<1>8. Letters'
  BY <1>1, <1>6 DEF DiskInv, Letters, Taken, Used, Before
<1>9. Sized'
  <2>1. disk \notin Disks \ hasty
    BY <1>1 DEF DiskInv, Sized
  <2>2. ASSUME NEW d \in Disks \ hasty, d < disk + 1 PROVE disktable[d].blocks
    BY <1>2, <2>1, <2>2, ContentKnown DEF DiskInv, Sized
  <2> QED
    BY <1>1, <1>6, <2>2 DEF Sized
<1> QED
  BY <1>3, <1>4, <1>5, <1>7, <1>8, <1>9 DEF DiskInv

(* The next partition, or the next disk, when one has been looked at.      *)
LEMMA NextPartKeeps ==
  ASSUME DiskInv, Looking, pc = "idle", NextPart,
         UNCHANGED <<pioVars, memory, volumes, BPB, current_cluster, hasty>>,
         disktable' \in [0 .. 3 -> [blocks : BOOLEAN, parts : [1 .. PARTS -> Infos]]],
         \A d \in 0 .. 3 : disktable'[d].blocks = disktable[d].blocks,
         \A d \in 0 .. 3, i \in 1 .. PARTS :
           d # disk \/ i # part => disktable'[d].parts[i] = disktable[d].parts[i],
         disktable'[disk].parts[part].loc = Info.loc,
         \A d, i : d = disk /\ i = part => Judged(d, i)'
  PROVE  DiskInv'
<1>1. /\ TableTypeOK /\ SetUp /\ Letters /\ Sized /\ disk \in 0 .. 3 /\ part \in 1 .. PARTS
      /\ PARTS \in Nat \ {0}
      /\ disk \in Disks
  BY DiskAssumption DEF DiskInv, Looking, TableTypeOK, SetUp
<1>2. /\ UNCHANGED <<content, call, pc, job, words>> /\ Disks' = Disks
  BY DEF pioVars, driverVars, deviceVars, Disks
<1>3. PioInv'
  BY PioUnchanged DEF DiskInv
<1>4. \/ at' = "part" /\ part < PARTS /\ part' = part + 1 /\ disk' = disk
      \/ /\ at' = (IF disk < 3 THEN "identify" ELSE "done")
         /\ disk' = disk + 1 /\ part' = 1 /\ part = PARTS
  BY <1>1 DEF NextPart, NextDisk
<1>5. TableTypeOK'
  <2>1. /\ at' \in {"identify", "part", "done"} /\ disk' \in 0 .. 4 /\ part' \in 1 .. PARTS
        /\ at' = "done" <=> disk' = 4
        /\ at' = "identify" => part' = 1
    BY <1>1, <1>4
  <2> QED
    BY <1>1, <1>2, <2>1 DEF TableTypeOK, Infos, Locs
<1>6. Asked' /\ Signed'
  BY <1>2, <1>4 DEF Asked, Signed, Reading
<1>7. disktable[disk].blocks
  BY <1>1 DEF Sized
<1>8. Found' = IF at' = "part" THEN Found ELSE Found \cup {disk}
  BY <1>1, <1>4, <1>7 DEF Found
<1>9. \A i \in 1 .. PARTS : Placed(disk, i) /\ (i < part => Judged(disk, i))
  BY <1>1 DEF SetUp
<1>10. \A d \in 0 .. 3, i \in 1 .. PARTS :
         d # disk \/ i # part => Placed(d, i)' = Placed(d, i) /\ Judged(d, i)' = Judged(d, i)
  BY <1>2, EntryFrame
<1>11. \A d, i : d = disk /\ i = part => Placed(d, i)'
  BY <1>2, <1>9, <1>1 DEF Placed, Info, Four
<1>12. SetUp'
  <2>1. ASSUME NEW d \in Found', NEW i \in 1 .. PARTS PROVE d \in Disks /\ Placed(d, i)' /\ Judged(d, i)'
    <3>1. CASE d \in Found
      <4>1. d # disk /\ d \in 0 .. 3
        BY <1>1, <3>1 DEF Found
      <4> QED
        BY <1>1, <1>10, <3>1, <4>1 DEF SetUp
    <3>2. CASE d \notin Found
      <4>1. d = disk /\ part = PARTS
        BY <1>4, <1>8, <3>2
      <4>2. CASE i = part
        BY <1>1, <1>11, <4>1, <4>2
      <4>3. CASE i # part
        BY <1>1, <1>9, <1>10, <4>1, <4>3
      <4> QED
        BY <4>2, <4>3
    <3> QED
      BY <3>1, <3>2
  <2>2. ASSUME NEW i \in 1 .. PARTS, Looking'
        PROVE  /\ disk' = disk /\ part' = part + 1
               /\ \A d : d = disk => Placed(d, i)' /\ (i < part' => Judged(d, i)')
               /\ i >= part' => disktable'[disk].parts[i].fs = memory.fs
    <3>1. disk' = disk /\ part' = part + 1
      BY <1>4, <2>2 DEF Looking
    <3>2. CASE i = part
      BY <1>1, <1>11, <3>1, <3>2
    <3>3. CASE i # part
      <4>1. i >= part + 1 => disktable'[disk].parts[i].fs = memory.fs
        BY <1>1, <3>3, SMTT(30) DEF SetUp
      <4> QED
        BY <1>1, <1>9, <1>10, <3>1, <3>3, <4>1
    <3> QED
      BY <3>2, <3>3
  <2>3. at' # "table"
    BY <1>4
  <2> QED
    BY <1>1, <1>2, <2>1, <2>2, <2>3 DEF SetUp
<1>13. Letters'
  <2> DEFINE T(v) == v.disk \in Found' \/ (v.disk = disk' /\ (Looking' \/ (at' = "table" /\ v.partition < part')))
  <2>1. \A v : T(v) <=> Taken(v)
    BY <1>1, <1>4, <1>8 DEF Taken, Looking
  <2> HIDE DEF T
  <2>2. /\ \A k \in DOMAIN volumes : volumes[k].disk \in Disks /\ T(volumes[k]) /\ Used(volumes[k])
        /\ \A v \in [disk : Disks, partition : 1 .. PARTS] :
             T(v) /\ Used(v) => \E k \in DOMAIN volumes : volumes[k] = v
        /\ \A k, l \in DOMAIN volumes : k < l => Before(volumes[k], volumes[l])
    BY <1>1, <2>1, Zenon DEF Letters
  <2>3. volumes' = volumes /\ content' = content /\ Disks' = Disks
    BY <1>2
  <2>4. \A k \in DOMAIN volumes' :
          volumes'[k].disk \in Disks' /\ Taken(volumes[k])' /\ Used(volumes[k])'
    BY <2>2, <2>3, Zenon DEF Taken, Used, T
  <2>5. \A v \in [disk : Disks', partition : 1 .. PARTS] :
          Taken(v)' /\ Used(v)' => \E k \in DOMAIN volumes' : volumes'[k] = v
    <3>1. \A v : (Taken(v)' <=> T(v)) /\ (Used(v)' <=> Used(v))
      BY <2>3 DEF Taken, Used, T
    <3> QED
      BY <2>2, <2>3, <3>1
  <2>6. \A k, l \in DOMAIN volumes' : k < l => Before(volumes[k], volumes[l])'
    BY <2>2, <2>3 DEF Before
  <2> QED
    BY <2>4, <2>5, <2>6, Zenon DEF Letters
<1>14. Sized'
  <2>1. ASSUME NEW d \in Disks \ hasty, d < disk' PROVE disktable'[d].blocks
    <3>1. d \in 0 .. 3
      BY <1>1, ContentKnown
    <3>2. d < disk \/ d = disk
      BY <1>1, <1>4, <2>1, <3>1
    <3> QED
      BY <1>1, <1>7, <3>1, <3>2 DEF Sized
  <2>2. disktable'[disk].blocks
    BY <1>1, <1>7
  <2> QED
    BY <1>2, <1>4, <2>1, <2>2 DEF Sized, Looking
<1> QED
  BY <1>3, <1>5, <1>6, <1>12, <1>13, <1>14 DEF DiskInv

LEMMA NotFatKeeps ==
  ASSUME DiskInv, NotFat
  PROVE  DiskInv'
<1>1. /\ at = "boot" /\ pc = "idle" /\ ~BootRead.signature /\ NextPart
      /\ UNCHANGED <<pioVars, memory, disktable, volumes, BPB, current_cluster, hasty>>
      /\ UNCHANGED <<content, memory>>
  BY DEF NotFat, Returned, tableVars, pioVars
<1>2. Looking /\ Reading /\ TableTypeOK
  BY <1>1 DEF Looking, Reading, DiskInv
<1>3. /\ disk \in 0 .. 3 /\ part \in 1 .. PARTS /\ disk \in Disks
      /\ ~Boot(disk, Info.loc).signature
  BY <1>1, <1>2, SectorRead DEF DiskInv, TableTypeOK, Asked
<1>4. Judged(disk, part)
  <2>1. Placed(disk, part) /\ disktable[disk].parts[part].fs = memory.fs
    BY <1>2, <1>3, DiskAssumption DEF DiskInv, SetUp
  <2>2. content[disk].table[part].loc \in 0 .. FourBytes - 1
    BY <1>2, <1>3, ContentKnown
  <2>3. content[disk].table[part].loc < FourBytes \div 2 => content[disk].table[part].loc = Info.loc
    BY <2>1, <2>2, FourKnown DEF Placed, Info
  <2> QED
    BY <1>3, <2>1, <2>3 DEF Judged
<1>5. \A d, i : d = disk /\ i = part => Judged(d, i)'
  BY <1>1, <1>4, EntryFrame
<1>6. disktable' \in [0 .. 3 -> [blocks : BOOLEAN, parts : [1 .. PARTS -> Infos]]]
  BY <1>1, <1>2 DEF TableTypeOK
<1>7. disktable'[disk].parts[part].loc = Info.loc
  BY <1>1 DEF Info
<1> QED
  BY <1>1, <1>2, <1>5, <1>6, <1>7, NextPartKeeps

LEMMA SetFatKeeps ==
  ASSUME DiskInv, SetFat
  PROVE  DiskInv'
<1> DEFINE new == partinfo(Info.loc, Info.size, "fat32", FirstFat(BPB), Data(BPB))
<1>1. /\ at = "link" /\ pc = "idle" /\ NextPart
      /\ disktable' = [disktable EXCEPT ![disk].parts[part] = new]
      /\ UNCHANGED <<pioVars, memory, volumes, BPB, current_cluster, hasty>>
      /\ UNCHANGED <<content, memory>>
  BY DEF SetFat, Returned, pioVars, Info
<1>2. Looking /\ TableTypeOK
  BY <1>1 DEF Looking, DiskInv
<1>3. /\ disk \in 0 .. 3 /\ part \in 1 .. PARTS /\ disk \in Disks /\ Info \in Infos
      /\ BPB = Boot(disk, Info.loc) /\ BPB.signature
  BY <1>1, <1>2, InfoKnown DEF DiskInv, TableTypeOK, Signed, SetUp
<1>4. FirstFat(BPB) \in Int /\ Data(BPB) \in Int
  <2>1. BPB \in Fields
    BY <1>2, <1>3, ContentKnown
  <2>2. /\ BPB.reserved_sectors \in Nat /\ BPB.bytes_per_sector \in Nat
        /\ BPB.FAT_count \in Nat /\ BPB.sectors_per_FAT \in Nat
    BY <2>1, Sizes DEF Fields
  <2>3. \A x, y \in Nat : x * y \in Nat
    OBVIOUS
  <2> QED
    BY <2>2, <2>3 DEF FirstFat, Data
<1>5. new \in Infos /\ new.loc = Info.loc /\ new.fs = "fat32" /\ new.data = Data(BPB)
  <2>1. "fat32" \in Systems
    BY DEF Systems
  <2>2. Info.loc \in Locs /\ Info.size \in Nat
    BY <1>3 DEF Infos
  <2> QED
    BY <1>4, <2>1, <2>2 DEF Infos, partinfo
<1> HIDE DEF new
<1>6. /\ disktable \in [0 .. 3 -> [blocks : BOOLEAN, parts : [1 .. PARTS -> Infos]]]
      /\ disktable[disk] \in [blocks : BOOLEAN, parts : [1 .. PARTS -> Infos]]
      /\ disktable[disk].parts \in [1 .. PARTS -> Infos]
  BY <1>2, <1>3 DEF TableTypeOK
<1>7. /\ disktable' \in [0 .. 3 -> [blocks : BOOLEAN, parts : [1 .. PARTS -> Infos]]]
      /\ \A d \in 0 .. 3 : disktable'[d].blocks = disktable[d].blocks
      /\ \A d \in 0 .. 3, i \in 1 .. PARTS :
           d # disk \/ i # part => disktable'[d].parts[i] = disktable[d].parts[i]
      /\ disktable'[disk].parts[part] = new
  BY <1>1, <1>2, <1>3, <1>5, EntryUpdated
<1>8. \A d, i : d = disk /\ i = part => Judged(d, i)'
  <2>1. Placed(disk, part)
    BY <1>2, <1>3 DEF DiskInv, SetUp
  <2>2. content[disk].table[part].loc \in 0 .. FourBytes - 1
    BY <1>2, <1>3, ContentKnown
  <2>3. content[disk].table[part].loc < FourBytes \div 2 => content[disk].table[part].loc = Info.loc
    BY <2>1, <2>2, FourKnown DEF Placed, Info
  <2>4. \A d, lba : Boot(d, lba)' = Boot(d, lba)
    BY <1>1 DEF Boot
  <2>5. content[disk].table[part].loc < FourBytes \div 2 => Boot(disk, content[disk].table[part].loc) = BPB
    BY <1>3, <2>3
  <2> QED
    BY <1>1, <1>3, <1>5, <1>7, <2>4, <2>5, ZenonT(40) DEF Judged, Data, FirstFat
<1> QED
  BY <1>1, <1>2, <1>5, <1>7, <1>8, NextPartKeeps

LEMMA TakeEntryKeeps ==
  ASSUME DiskInv, TakeEntry
  PROVE  DiskInv'
<1> DEFINE entry == content[disk].table[part]
           new == partinfo(Four(entry.loc), Four(entry.size), memory.fs, 0, 0)
<1>1. /\ at = "table" /\ pc = "idle" /\ Reading /\ ~Looking
      /\ TableTypeOK /\ SetUp /\ Letters /\ Sized
      /\ disk \in Disks /\ disk \in 0 .. 3 /\ TableRead = content[disk].table
      /\ part \in 1 .. PARTS /\ PARTS \in Nat \ {0}
  BY SectorRead, DiskAssumption DEF TakeEntry, Returned, Reading, Looking, DiskInv, TableTypeOK
<1>2. /\ disktable' = [disktable EXCEPT ![disk].parts[part] = new]
      /\ volumes' = Lettered(entry)
      /\ IF part < PARTS THEN part' = part + 1 /\ at' = "table" ELSE part' = 1 /\ at' = "part"
      /\ UNCHANGED <<pioVars, disk, memory, BPB, current_cluster, hasty>>
      /\ UNCHANGED <<content, call, pc, job, words>>
  BY <1>1 DEF TakeEntry, pioVars, driverVars, deviceVars
<1>3. /\ entry.loc \in 0 .. FourBytes - 1 /\ entry.size \in 0 .. FourBytes - 1
  BY <1>1, ContentKnown
<1>4. new \in Infos /\ new.loc = Four(entry.loc) /\ new.fs = memory.fs
  <2>1. memory.fs \in Systems
    BY <1>1 DEF TableTypeOK, Systems
  <2>2. Four(entry.loc) \in Locs /\ Four(entry.size) \in Nat
    BY <1>3, FourKnown
  <2> QED
    BY <2>1, <2>2 DEF Infos, partinfo
<1> HIDE DEF new
<1>5. /\ disktable' \in [0 .. 3 -> [blocks : BOOLEAN, parts : [1 .. PARTS -> Infos]]]
      /\ \A d \in 0 .. 3 : disktable'[d].blocks = disktable[d].blocks
      /\ \A d \in 0 .. 3, i \in 1 .. PARTS :
           d # disk \/ i # part => disktable'[d].parts[i] = disktable[d].parts[i]
      /\ disktable'[disk].parts[part] = new
  BY <1>1, <1>2, <1>4, EntryUpdated
<1>6. PioInv'
  BY <1>2, PioUnchanged DEF DiskInv
<1>7. Letter \in [disk : 0 .. 3, partition : 1 .. PARTS] /\ Letter.disk = disk /\ Letter.partition = part
  BY <1>1 DEF Letter
<1>8. TableTypeOK'
  <2>1. /\ at' \in {"table", "part"} /\ part' \in 1 .. PARTS
    BY <1>1, <1>2
  <2>2. volumes' \in Seq([disk : 0 .. 3, partition : 1 .. PARTS])
    <3> DEFINE S == [disk : 0 .. 3, partition : 1 .. PARTS]
    <3>1. volumes \in Seq(S) /\ Letter \in S
      BY <1>1, <1>7 DEF TableTypeOK
    <3> HIDE DEF S
    <3>2. volumes' \in Seq(S)
      BY <1>2, <3>1 DEF Lettered
    <3> QED
      BY <3>2 DEF S
  <2> QED
    BY <1>1, <1>2, <1>5, <2>1, <2>2 DEF TableTypeOK
<1>9. Asked' /\ Signed'
  BY <1>1, <1>2 DEF Asked, Signed, Reading, Moves, DiskInv
<1>10. Found' = Found /\ Disks' = Disks
  BY <1>1, <1>2, <1>5 DEF Found, Disks
<1>11. \A d \in 0 .. 3, i \in 1 .. PARTS :
         d # disk \/ i # part => Placed(d, i)' = Placed(d, i) /\ Judged(d, i)' = Judged(d, i)
  BY <1>2, <1>5, EntryFrame
<1>12. \A d, i : d = disk /\ i = part => Placed(d, i)'
  BY <1>2, <1>4, <1>5 DEF Placed, Four
<1>13. SetUp'
  <2>1. ASSUME NEW d \in Found', NEW i \in 1 .. PARTS PROVE d \in Disks /\ Placed(d, i)' /\ Judged(d, i)'
    <3>1. d # disk /\ d \in 0 .. 3 /\ d \in Found
      BY <1>1, <1>10 DEF Found
    <3> QED
      BY <1>1, <1>11, <3>1 DEF SetUp
  <2>2. ASSUME NEW i \in 1 .. PARTS, i <= part
        PROVE  (\A d : d = disk => Placed(d, i)') /\ disktable'[disk].parts[i].fs = memory.fs
    <3>1. CASE i = part
      BY <1>4, <1>5, <1>12, <3>1
    <3>2. CASE i < part
      BY <1>1, <1>5, <1>11, <3>2, SMTT(30) DEF SetUp
    <3> QED
      BY <1>1, <2>2, <3>1, <3>2
  <2>3. CASE part < PARTS
    <3>1. at' = "table" /\ ~Looking' /\ part' = part + 1 /\ disk' = disk
      BY <1>2, <2>3 DEF Looking
    <3>2. \A i \in 1 .. PARTS : i < part' => i <= part
      BY <1>1, <3>1
    <3> QED
      BY <1>1, <1>2, <1>10, <2>1, <2>2, <3>1, <3>2 DEF SetUp
  <2>4. CASE ~(part < PARTS)
    <3>1. at' = "part" /\ part' = 1 /\ disk' = disk
      BY <1>2, <2>4
    <3>2. \A i \in 1 .. PARTS : i <= part /\ ~(i < part')
      BY <1>1, <2>4, <3>1
    <3> QED
      BY <1>1, <1>2, <1>10, <2>1, <2>2, <3>1, <3>2 DEF SetUp
  <2> QED
    BY <2>3, <2>4
<1>14. Letters'
  <2>1. \A v : v.partition \in 1 .. PARTS =>
          ((v.disk \in Found' \/ (v.disk = disk' /\ (Looking' \/ (at' = "table" /\ v.partition < part'))))
             <=> Taken(v) \/ (v.disk = disk /\ v.partition = part))
    <3>1. CASE part < PARTS
      <4>1. at' = "table" /\ ~Looking' /\ part' = part + 1 /\ disk' = disk
        BY <1>2, <3>1 DEF Looking
      <4>2. \A p \in 1 .. PARTS : p < part' <=> p < part \/ p = part
        BY <1>1, <4>1
      <4> QED
        BY <1>1, <1>10, <4>1, <4>2 DEF Taken
    <3>2. CASE ~(part < PARTS)
      <4>1. Looking' /\ disk' = disk
        BY <1>2, <3>2 DEF Looking
      <4>2. \A p \in 1 .. PARTS : p < part \/ p = part
        BY <1>1, <3>2
      <4> QED
        BY <1>1, <1>10, <4>1, <4>2 DEF Taken
    <3> QED
      BY <3>1, <3>2
  <2>2. Used(Letter) <=> entry.size # 0
    BY <1>7 DEF Used
  <2> DEFINE S == [disk : 0 .. 3, partition : 1 .. PARTS]
  <2>3. volumes \in Seq(S) /\ Letter \in S
    BY <1>1, <1>7 DEF TableTypeOK
  <2>4. \A v \in S : v.disk \in 0 .. 3 /\ v.partition \in 1 .. PARTS
    OBVIOUS
  <2>5. \A v \in [disk : Disks, partition : 1 .. PARTS] :
          v.disk = disk /\ v.partition = part => v = Letter
    BY DEF Letter
  <2>6. \A k \in DOMAIN volumes : Before(volumes[k], Letter)
    <3> SUFFICES ASSUME NEW k \in DOMAIN volumes PROVE Before(volumes[k], Letter)
      OBVIOUS
    <3>1. Taken(volumes[k])
      BY <1>1 DEF Letters
    <3>2. volumes[k].disk < disk \/ (volumes[k].disk = disk /\ volumes[k].partition < part)
      BY <1>1, <3>1 DEF Taken, Found
    <3> QED
      BY <1>7, <3>2 DEF Before
  <2> HIDE DEF S
  <2>7. \A v \in [disk : Disks, partition : 1 .. PARTS] : v.partition \in 1 .. PARTS
    OBVIOUS
  <2>8. CASE entry.size # 0
    <3>1. volumes' = Append(volumes, Letter)
      BY <1>2, <2>8 DEF Lettered
    <3>2. /\ DOMAIN volumes' = DOMAIN volumes \cup {Len(volumes) + 1}
          /\ volumes'[Len(volumes) + 1] = Letter
          /\ \A k \in DOMAIN volumes : volumes'[k] = volumes[k] /\ k \in 1 .. Len(volumes)
          /\ Len(volumes) \in Nat
      BY <2>3, <3>1
    <3>3. \A k \in DOMAIN volumes' : volumes'[k].partition \in 1 .. PARTS
      BY <2>3, <2>4, <3>2
    <3>4. \A k \in DOMAIN volumes' : (volumes[k].disk \in Disks /\ Taken(volumes[k]) /\ Used(volumes[k]))'
      <4>1. \A k \in DOMAIN volumes' :
              /\ volumes'[k].disk \in Disks /\ Used(volumes'[k])
              /\ Taken(volumes'[k]) \/ (volumes'[k].disk = disk /\ volumes'[k].partition = part)
        BY <1>1, <1>7, <2>2, <2>8, <3>2 DEF Letters
      <4> QED
        BY <1>2, <1>10, <2>1, <3>3, <4>1 DEF Taken, Used
    <3>5. \A v \in [disk : Disks', partition : 1 .. PARTS] :
            (Taken(v) /\ Used(v))' => \E k \in DOMAIN volumes' : volumes'[k] = v
      <4> SUFFICES ASSUME NEW v \in [disk : Disks, partition : 1 .. PARTS], Used(v),
                          Taken(v) \/ (v.disk = disk /\ v.partition = part)
                   PROVE  \E k \in DOMAIN volumes' : volumes'[k] = v
        BY <1>2, <1>10, <2>1, <2>7 DEF Taken, Used
      <4>1. CASE Taken(v)
        BY <1>1, <3>2, <4>1 DEF Letters
      <4>2. CASE v.disk = disk /\ v.partition = part
        BY <2>5, <3>2, <4>2
      <4> QED
        BY <4>1, <4>2
    <3>6. \A k, l \in DOMAIN volumes' : k < l => Before(volumes'[k], volumes'[l])
      BY <1>1, <2>6, <3>2 DEF Letters
    <3> QED
      BY <3>4, <3>5, <3>6 DEF Letters, Before
  <2>9. CASE entry.size = 0
    <3>1. volumes' = volumes
      BY <1>2, <2>9 DEF Lettered
    <3>2. \A k \in DOMAIN volumes : volumes[k].partition \in 1 .. PARTS
      BY <1>1, VolumesKnown
    <3>3. \A k \in DOMAIN volumes' : (volumes[k].disk \in Disks /\ Taken(volumes[k]) /\ Used(volumes[k]))'
      <4>1. \A k \in DOMAIN volumes : volumes[k].disk \in Disks /\ Used(volumes[k]) /\ Taken(volumes[k])
        BY <1>1 DEF Letters
      <4> QED
        BY <1>2, <1>10, <2>1, <3>1, <3>2, <4>1 DEF Taken, Used
    <3>4. \A v \in [disk : Disks', partition : 1 .. PARTS] :
            (Taken(v) /\ Used(v))' => \E k \in DOMAIN volumes' : volumes'[k] = v
      <4> SUFFICES ASSUME NEW v \in [disk : Disks, partition : 1 .. PARTS], Used(v),
                          Taken(v) \/ (v.disk = disk /\ v.partition = part)
                   PROVE  \E k \in DOMAIN volumes' : volumes'[k] = v
        BY <1>2, <1>10, <2>1, <2>7 DEF Taken, Used
      <4>1. v # Letter
        BY <2>2, <2>9
      <4>2. Taken(v)
        BY <2>5, <4>1
      <4> QED
        BY <1>1, <3>1, <4>2 DEF Letters
    <3> QED
      BY <1>1, <3>1, <3>3, <3>4 DEF Letters, Before
  <2> QED
    BY <2>8, <2>9
<1>15. Sized'
  BY <1>1, <1>2, <1>5, <1>10, ContentKnown, SMTT(30) DEF Sized
<1> QED
  BY <1>6, <1>8, <1>9, <1>13, <1>14, <1>15 DEF DiskInv

(* A word of the answer to IDENTIFY.                                       *)
LEMMA InwIdentifyKeeps ==
  ASSUME DiskInv, InwIdentify
  PROVE  DiskInv'
<1>1. /\ PioInv /\ TableTypeOK /\ SetUp /\ Letters /\ Sized /\ Port \in Channels
      /\ pc = "identify" /\ call.op = "identify"
      /\ words \in 0 .. WORDS - 1 /\ WORDS \in Nat \ {0} /\ SIZE_WORD \in 0 .. WORDS - 1
  BY PortKnown, PioAssumption, DiskAssumption DEF DiskInv, PioInv, CallKnown, PioTypeOK, InwIdentify
<1>2. at = "identified" /\ disk \in 0 .. 3 /\ ~Looking /\ part = 1
  BY <1>1 DEF DiskInv, TableTypeOK, Asked, Reading, Moves, Looking
<1>3. /\ UNCHANGED <<content, call, at, disk, part, memory, volumes, BPB, current_cluster>>
      /\ words' = (words + 1) % WORDS
      /\ pc' = IF words + 1 < WORDS THEN "identify" ELSE "idle"
      /\ hasty' = IF drq[Port] THEN hasty ELSE hasty \cup {disk}
  BY DEF InwIdentify, Goto
<1>4. \/ disktable' = disktable /\ words # SIZE_WORD
      \/ /\ words = SIZE_WORD
         /\ \E word \in BOOLEAN : /\ disktable' = [disktable EXCEPT ![disk].blocks = (@ \/ word)]
                                  /\ drq[Port] /\ job[Port].word = SIZE_WORD => word
  BY DEF InwIdentify
<1>5. /\ disktable' \in [0 .. 3 -> [blocks : BOOLEAN, parts : [1 .. PARTS -> Infos]]]
      /\ \A d \in 0 .. 3 : disktable'[d].parts = disktable[d].parts
      /\ \A d \in 0 .. 3 : d # disk => disktable'[d].blocks = disktable[d].blocks
      /\ disktable[disk].blocks => disktable'[disk].blocks
      /\ words = SIZE_WORD /\ drq[Port] /\ job[Port].word = words => disktable'[disk].blocks
  <2> DEFINE P == [1 .. PARTS -> Infos]
  <2>1. disktable \in [0 .. 3 -> [blocks : BOOLEAN, parts : P]]
    BY <1>1 DEF TableTypeOK
  <2> HIDE DEF P
  <2>2. CASE disktable' = disktable /\ words # SIZE_WORD
    BY <2>1, <2>2 DEF P
  <2>3. ASSUME NEW word \in BOOLEAN, disktable' = [disktable EXCEPT ![disk].blocks = (@ \/ word)],
               drq[Port] /\ job[Port].word = SIZE_WORD => word
        PROVE  /\ disktable' \in [0 .. 3 -> [blocks : BOOLEAN, parts : P]]
               /\ \A d \in 0 .. 3 : disktable'[d].parts = disktable[d].parts
               /\ \A d \in 0 .. 3 : d # disk => disktable'[d].blocks = disktable[d].blocks
               /\ disktable'[disk].blocks = (disktable[disk].blocks \/ word)
    BY <1>2, <2>1, <2>3
  <2> QED
    BY <1>4, <2>2, <2>3 DEF P
<1>6. PioInv'
  BY <1>1, IdentifyKeeps
<1>7. TableTypeOK'
  BY <1>1, <1>3, <1>5 DEF TableTypeOK
<1>8. Asked' /\ Signed'
  BY <1>1, <1>2, <1>3 DEF Asked, Signed, Reading, DiskInv
<1>9. Found' = Found /\ Disks' = Disks /\ ~Looking'
  BY <1>2, <1>3, <1>5 DEF Found, Disks, Looking
<1>10. SetUp'
  <2>1. \A d \in 0 .. 3, i \in 1 .. PARTS : Placed(d, i)' = Placed(d, i) /\ Judged(d, i)' = Judged(d, i)
    BY <1>3, <1>5, EntryFrame
  <2>2. \A d \in Found : d \in 0 .. 3
    BY DEF Found
  <2> QED
    BY <1>1, <1>2, <1>3, <1>9, <2>1, <2>2 DEF SetUp
<1>11. Letters'
  BY <1>1, <1>2, <1>3, <1>9 DEF Letters, Taken, Used, Before
<1>12. Sized'
  <2>1. \A d \in Disks \ hasty' : d < disk => disktable'[d].blocks
    <3> SUFFICES ASSUME NEW d \in Disks \ hasty', d < disk PROVE disktable'[d].blocks
      OBVIOUS
    <3>1. d \in 0 .. 3 /\ d # disk /\ d \in Disks \ hasty
      BY <1>1, <1>2, <1>3, ContentKnown
    <3> QED
      BY <1>1, <1>5, <3>1 DEF Sized
  <2>2. ASSUME disk \in Disks \ hasty'
        PROVE  /\ pc' = "identify" => /\ job'[Port].word = words' /\ job'[Port].left = 1
                                      /\ words' > SIZE_WORD => disktable'[disk].blocks
               /\ pc' = "idle" => disktable'[disk].blocks
    <3>1. drq[Port] /\ disk \in Disks \ hasty
      BY <1>3, <2>2
    <3>2. /\ job[Port].word = words /\ job[Port].left = 1
          /\ words > SIZE_WORD => disktable[disk].blocks
      BY <1>1, <1>2, <3>1 DEF Sized
    <3>3. words >= SIZE_WORD => disktable'[disk].blocks
      BY <1>1, <1>5, <3>1, <3>2
    <3>4. CASE words + 1 < WORDS
      <4>1. words' = words + 1 /\ pc' = "identify"
        BY <1>1, <1>3, <3>4
      <4>2. NextWord(Port) /\ DOMAIN job = Channels
        BY <1>1, <3>1 DEF InwIdentify, PioInv, PioTypeOK
      <4>3. job'[Port].word = words + 1 /\ job'[Port].left = 1
        <5>1. job[Port].word # WORDS - 1
          BY <1>1, <3>2, <3>4
        <5> QED
          BY <1>1, <3>2, <4>2, <5>1 DEF NextWord
      <4> QED
        BY <1>1, <3>3, <4>1, <4>3
    <3>5. CASE ~(words + 1 < WORDS)
      BY <1>1, <1>3, <3>3, <3>5
    <3> QED
      BY <3>4, <3>5
  <2>3. Port' = Port
    BY <1>3 DEF Port
  <2> QED
    BY <1>2, <1>3, <1>9, <2>1, <2>2, <2>3 DEF Sized
<1> QED
  BY <1>6, <1>7, <1>8, <1>10, <1>11, <1>12 DEF DiskInv

-----------------------------------------------------------------------------
LEMMA DiskInitInv == DiskInit => DiskInv
<1> SUFFICES ASSUME DiskInit PROVE DiskInv
  OBVIOUS
<1>1. /\ content \in Contents /\ call = NoCall /\ pc = "idle" /\ step = 0 /\ sectors = 0 /\ words = 0
      /\ buf = <<>> /\ stored = {}
      /\ regs = [port \in Channels |-> [r \in Registers |-> <<0, 0>>]]
      /\ bsy \in [Channels -> BOOLEAN]
      /\ drq = [port \in Channels |-> FALSE]
      /\ job = [port \in Channels |-> NoJob]
  BY DEF DiskInit, PioInit
<1>2. /\ at = "identify" /\ disk = 0 /\ part = 1 /\ memory \in Memory
      /\ disktable = [d \in 0 .. 3 |->
                       [blocks |-> memory.blocks, parts |-> [i \in 1 .. PARTS |-> partinfo(0, 0, memory.fs, 0, 0)]]]
      /\ volumes = <<>> /\ BPB = NoBoot /\ current_cluster = 0 /\ hasty = {}
  BY DEF DiskInit
<1>3. /\ WORDS \in Nat \ {0} /\ 0 \in 0 .. WORDS - 1 /\ 0 \in 0 .. BYTE - 1 /\ 0 \in Places /\ PARTS \in Nat \ {0}
      /\ 0 \in 0 .. TwoBytes - 1
  BY PioAssumption, DiskAssumption, Sizes DEF Places
<1>4. PioTypeOK
  <2>1. regs \in [Channels -> [Registers -> (0 .. BYTE - 1) \X (0 .. BYTE - 1)]]
    BY <1>1, <1>3
  <2>2. job \in [Channels -> [op : {"none", "identify", "read", "write"}, disk : 0 .. 3, LBA : Nat,
                              word : 0 .. WORDS - 1, left : Nat]]
    BY <1>1, <1>3 DEF NoJob
  <2>3. call \in [op : {"none", "identify", "read", "write"}, LBA : Nat, count : Nat, disk : 0 .. 3]
    BY <1>1 DEF NoCall
  <2>4. sectors \in 0 .. call.count
    BY <1>1 DEF NoCall
  <2> QED
    BY <1>1, <1>3, <2>1, <2>2, <2>3, <2>4 DEF PioTypeOK
<1>5. CallKnown
  BY <1>1, <1>3 DEF CallKnown, NoCall, Moves, Transferring
<1>6. Sent
  BY <1>1 DEF Sent
<1>7. JobsInStep
  BY <1>1 DEF JobsInStep, Transferring, LeftOver
<1>8. Progress
  BY <1>1 DEF Progress, Moves, NoCall
<1>9. TableTypeOK
  <2>1. partinfo(0, 0, memory.fs, 0, 0) \in Infos
    <3>1. memory.fs \in Systems
      BY <1>2 DEF Systems
    <3>2. 0 \in Locs
      <4>1. Four(0) \in Locs /\ Four(0) = 0
        BY FourKnown, Sizes
      <4> QED
        BY <4>1
    <3> QED
      BY <3>1, <3>2 DEF Infos, partinfo
  <2>2. memory.blocks \in BOOLEAN
    BY <1>2, DiskAssumption
  <2>3. disktable \in [0 .. 3 -> [blocks : BOOLEAN, parts : [1 .. PARTS -> Infos]]]
    BY <1>2, <2>1, <2>2
  <2>4. volumes \in Seq([disk : 0 .. 3, partition : 1 .. PARTS])
    BY <1>2
  <2> QED
    BY <1>1, <1>2, <1>3, <2>3, <2>4, Sizes DEF TableTypeOK
<1>10. Found = {} /\ ~Looking /\ ~Reading
  BY <1>2 DEF Found, Looking, Reading
<1>11. Asked /\ Signed
  BY <1>1, <1>2, <1>10 DEF Asked, Signed
<1>12. SetUp
  BY <1>2, <1>10 DEF SetUp
<1>13. Letters
  BY <1>2, <1>10 DEF Letters, Taken
<1>14. Sized
  BY <1>2, <1>9, <1>10, ContentKnown DEF Sized
<1> QED
  BY <1>4, <1>5, <1>6, <1>7, <1>8, <1>9, <1>11, <1>12, <1>13, <1>14 DEF DiskInv, PioInv

LEMMA DiskStepInv == DiskInv /\ [DiskNext]_diskVars => DiskInv'
<1> SUFFICES ASSUME DiskInv, [DiskNext]_diskVars PROVE DiskInv'
  OBVIOUS
<1>1. CASE InitStep
  BY <1>1, IdentifyCallKeeps, SkipDiskKeeps, ReadTableKeeps, TakeEntryKeeps, ReadBootKeeps, NotFatKeeps,
     FatSetupKeeps, DivideByZeroKeeps, ReadFatKeeps, ReloadFatKeeps, RootLoopKeeps, SetFatKeeps
     DEF InitStep
<1>2. CASE InwIdentify
  BY <1>2, InwIdentifyKeeps
<1>3. CASE DriverStep /\ UNCHANGED <<at, disk, part, tableVars>>
  <2>1. PioInv'
    <3>1. CASE (ReadWord \/ WriteByte) /\ ~Ignored
      BY <3>1, TransferKeeps DEF DiskInv
    <3>2. CASE WriteByte /\ Ignored
      BY <3>2, IgnoredKeeps DEF DiskInv
    <3>3. ReadWord => ~Ignored
      BY DEF ReadWord, Ignored
    <3> QED
      BY <1>3, <3>1, <3>2, <3>3, PollKeeps, OutRegisterKeeps, OutCommandKeeps DEF DiskInv, DriverStep
  <2> QED
    BY <1>3, <2>1, DriverKeepsTable DEF DiskInv
<1>4. ASSUME NEW op \in {"read", "write"}, NEW request \in Requests, NEW d \in Found, Call(op, request, d)
      PROVE  DiskInv'
  BY <1>4, CallKeeps
<1>5. ASSUME NEW port \in Channels, Ready(port)
      PROVE  DiskInv'
  <2>1. PioInv'
    BY <1>5, ReadyKeeps DEF DiskInv, Ready
  <2> QED
    BY <1>5, <2>1, DriverKeepsTable DEF DiskInv, Ready
<1>6. CASE UNCHANGED diskVars
  <2>1. PioInv'
    BY <1>6, PioUnchanged DEF DiskInv, diskVars
  <2> QED
    BY <1>6, <2>1, DriverKeepsTable DEF DiskInv, diskVars
<1> QED
  BY <1>1, <1>2, <1>3, <1>4, <1>5, <1>6 DEF DiskNext, Kernel

(* Driver, disks and init_disk keep the inductive invariant: the registers *)
(* hold the bytes sent so far, the disk is at the word where the driver    *)
(* believes it to be, and the tables tell what has been read.              *)
THEOREM DiskInvariant == DiskSpec => []DiskInv
  BY DiskInitInv, DiskStepInv, PTL DEF DiskSpec

(* Every register gets a byte, and no loop of PIO.c runs over its end.     *)
THEOREM PioTypeCorrect == DiskSpec => []PioTypeOK
<1>1. DiskInv => PioTypeOK
  BY DEF DiskInv, PioInv
<1> QED
  BY <1>1, DiskInvariant, PTL

(* Registers are written while the disk is not busy, the data port is used *)
(* while it is ready, and no call leaves the disk in the middle of a       *)
(* transfer, unless the disk ignores the bytes of a write.                 *)
THEOREM DriverStaysInStep == DiskSpec => []DriverInStep
<1>1. DiskInv => DriverInStep
  <2> SUFFICES ASSUME DiskInv PROVE DriverInStep
    OBVIOUS
  <2>1. pc = "idle" =>
          \A port \in Channels :
            \/ job[port] = NoJob /\ ~drq[port]
            \/ job[port].op = "identify"
            \/ job[port].op = "write" /\ job[port].disk \notin TakeBytes /\ job[port].word = 0
    BY DEF DiskInv, PioInv, JobsInStep, Transferring, LeftOver
  <2>2. pc = "out" => ~bsy[Port]
    BY DEF DiskInv, PioInv, JobsInStep
  <2>3. pc = "data" => drq[Port] /\ ~bsy[Port]
    BY DEF DiskInv, PioInv, JobsInStep
  <2> QED
    BY <2>1, <2>2, <2>3 DEF DriverInStep
<1> QED
  BY <1>1, DiskInvariant, PTL

(* How much of a call is done.                                             *)
LEMMA DoneInside ==
  ASSUME PioInv, Moves
  PROVE  /\ Done \in Nat /\ call.count * WORDS \in Nat /\ Done <= call.count * WORDS
         /\ pc = "idle" => Done = call.count * WORDS
<1>1. /\ sectors \in Nat /\ call.count \in Nat /\ sectors <= call.count
      /\ words \in 0 .. WORDS - 1 /\ WORDS \in Nat \ {0}
  BY PioAssumption DEF PioInv, PioTypeOK
<1>2. sectors < call.count \/ words = 0
  BY DEF PioInv, PioTypeOK, CallKnown, JobsInStep, Progress, Transferring, Moves
<1>3. pc = "idle" => sectors = call.count /\ words = 0
  BY DEF PioInv, Progress
<1>4. sectors * WORDS \in Nat /\ call.count * WORDS \in Nat
  BY <1>1
<1>5. CASE sectors < call.count
  <2>1. (sectors + 1) * WORDS <= call.count * WORDS
    BY <1>1, <1>5
  <2>2. (sectors + 1) * WORDS = sectors * WORDS + WORDS
    BY <1>1
  <2> QED
    BY <1>1, <1>3, <1>4, <1>5, <2>1, <2>2 DEF Done
<1>6. CASE sectors = call.count /\ words = 0
  BY <1>1, <1>4, <1>6 DEF Done
<1> QED
  BY <1>1, <1>2, <1>5, <1>6

(* A read stores the words asked for, in order, and all of them when it    *)
(* returns.  A write stores only low bytes of words of the sectors asked   *)
(* for: all of them on a disk that takes bytes, none on one that does not. *)
THEOREM SectorsTransferred == DiskSpec => []TransfersSectors
<1>1. DiskInv => TransfersSectors
  <2> SUFFICES ASSUME DiskInv PROVE TransfersSectors
    OBVIOUS
  <2> DEFINE all == call.count * WORDS
             W(n) == WantedWord(call, n)
  <2>1. Wanted(call) = [n \in 1 .. all |-> W(n)]
    BY DEF Wanted, WantedWord
  <2>2. Moves => /\ Done \in Nat /\ all \in Nat /\ Done <= all
                 /\ pc = "idle" => Done = all
    BY DoneInside DEF DiskInv
  <2>3. /\ call.op = "read" => buf = [n \in 1 .. Done |-> W(n)]
        /\ call.op = "write" => stored = IF Ignored THEN {} ELSE {LowByte(W(n)) : n \in 1 .. Done}
    BY DEF DiskInv, PioInv, Progress
  <2> HIDE DEF all, W
  <2>4. ASSUME call.op = "read"
        PROVE  IsPrefix(buf, Wanted(call)) /\ (pc = "idle" => buf = Wanted(call))
    <3>1. Done \in Nat /\ all \in Nat /\ Done <= all /\ (pc = "idle" => Done = all)
      BY <2>2, <2>4 DEF Moves
    <3>2. Len(buf) = Done /\ Len(Wanted(call)) = all
      BY <2>1, <2>3, <2>4, <3>1
    <3>3. \A m \in Nat : Done <= m =>
            SubSeq([n \in 1 .. m |-> W(n)], 1, Done) = [n \in 1 .. Done |-> W(n)]
      <4> SUFFICES ASSUME NEW m \in Nat, Done <= m
                   PROVE  SubSeq([n \in 1 .. m |-> W(n)], 1, Done) = [n \in 1 .. Done |-> W(n)]
        OBVIOUS
      <4> DEFINE s == [n \in 1 .. m |-> W(n)]
      <4>1. s \in Seq({W(n) : n \in 1 .. m}) /\ Len(s) = m
        OBVIOUS
      <4>2. \A n \in 1 .. Done : s[n] = W(n)
        BY <3>1
      <4> HIDE DEF s
      <4>3. SubSeq(s, 1, Done) = [n \in 1 .. Done |-> s[n]]
        BY <3>1, <4>1
      <4>4. [n \in 1 .. Done |-> s[n]] = [n \in 1 .. Done |-> W(n)]
        BY <4>2
      <4> QED
        BY <4>3, <4>4 DEF s
    <3>4. /\ SubSeq(buf, 1, Done) = [n \in 1 .. Done |-> W(n)]
          /\ SubSeq(Wanted(call), 1, Done) = [n \in 1 .. Done |-> W(n)]
      BY <2>1, <2>3, <2>4, <3>1, <3>3
    <3> QED
      BY <2>1, <2>3, <2>4, <3>1, <3>2, <3>3, <3>4 DEF IsPrefix
  <2>5. ASSUME call.op = "write"
        PROVE  LET half == {LowByte(word) : word \in ToSet(Wanted(call))}
               IN  /\ stored \subseteq half
                   /\ pc = "idle" => stored = IF call.disk \in TakeBytes THEN half ELSE {}
    <3>1. Done \in Nat /\ all \in Nat /\ Done <= all /\ (pc = "idle" => Done = all)
      BY <2>2, <2>5 DEF Moves
    <3>2. ToSet(Wanted(call)) = {W(n) : n \in 1 .. all}
      BY <2>1 DEF ToSet
    <3> DEFINE half == {LowByte(word) : word \in ToSet(Wanted(call))}
    <3>3. half = {LowByte(W(n)) : n \in 1 .. all}
      BY <3>2
    <3>4. Ignored <=> call.disk \notin TakeBytes
      BY <2>5 DEF Ignored
    <3> HIDE DEF half
    <3>5. {LowByte(W(n)) : n \in 1 .. Done} \subseteq half
      BY <3>1, <3>3
    <3>6. pc = "idle" => {LowByte(W(n)) : n \in 1 .. Done} = half
      BY <3>1, <3>3
    <3>7. stored \subseteq half /\ (pc = "idle" => stored = IF call.disk \in TakeBytes THEN half ELSE {})
      BY <2>3, <2>5, <3>4, <3>5, <3>6
    <3> QED
      BY <3>7 DEF half
  <2> QED
    BY <2>4, <2>5 DEF TransfersSectors
<1> QED
  BY <1>1, DiskInvariant, PTL

(* init_disk finds the disks that exist, but for those it reads too early, *)
(* and gives letters to all partitions in use, in order.                   *)
THEOREM DisksAreFound == DiskSpec => []DisksFound
<1>1. DiskInv => DisksFound
  <2> SUFFICES ASSUME DiskInv, at = "done" PROVE
       /\ Found \subseteq Disks
       /\ Disks \ hasty \subseteq Found
       /\ {volumes[k] : k \in DOMAIN volumes} = Partitions
       /\ \A k, l \in DOMAIN volumes : k < l => Before(volumes[k], volumes[l])
    BY DEF DisksFound
  <2>1. TableTypeOK /\ SetUp /\ Letters /\ Sized /\ disk = 4 /\ ~Looking
    BY DEF DiskInv, TableTypeOK, Looking
  <2>2. Found \subseteq Disks
    BY <2>1 DEF SetUp
  <2>3. Disks \ hasty \subseteq Found
    BY <2>1, ContentKnown DEF Sized, Found
  <2>4. \A v : Taken(v) <=> v.disk \in Found
    BY <2>1 DEF Taken
  <2>5. \A k \in DOMAIN volumes : volumes[k] \in Partitions
    <3> DEFINE S == [disk : 0 .. 3, partition : 1 .. PARTS]
    <3>1. volumes \in Seq(S)
      BY <2>1 DEF TableTypeOK
    <3>2. \A v \in S : v.disk \in Found \cap Disks => v \in [disk : Found \cap Disks, partition : 1 .. PARTS]
      OBVIOUS
    <3> HIDE DEF S
    <3>3. \A k \in DOMAIN volumes : volumes[k] \in S
      BY <3>1
    <3>4. \A k \in DOMAIN volumes : volumes[k].disk \in Found \cap Disks /\ Used(volumes[k])
      BY <2>1, <2>4 DEF Letters
    <3> QED
      BY <3>2, <3>3, <3>4 DEF Partitions, Used
  <2>6. \A v \in Partitions : \E k \in DOMAIN volumes : volumes[k] = v
    BY <2>1, <2>2, <2>4 DEF Letters, Partitions, Used
  <2> QED
    BY <2>1, <2>2, <2>3, <2>5, <2>6 DEF Letters
<1> QED
  BY <1>1, DiskInvariant, PTL

(* Every partition of a disk that has been set up has its place and its    *)
(* file system, and fat_read finds the clusters of a file system that      *)
(* fat_setup understands.                                                  *)
THEOREM PartitionsAreRight == DiskSpec => []PartitionsRight
<1>1. DiskInv => PartitionsRight
  <2> SUFFICES ASSUME DiskInv, NEW d \in Found \cap Disks, NEW i \in 1 .. PARTS,
                      content[d].table[i].loc < FourBytes \div 2
               PROVE  LET info == disktable[d].parts[i]
                          b == Boot(d, content[d].table[i].loc)
                      IN  /\ info.loc = content[d].table[i].loc
                          /\ memory.fs # "fat32" => (info.fs = "fat32" <=> b.signature)
                          /\ b.signature /\ b.bytes_per_sector = 1 /\ b.sectors_per_cluster = 1 =>
                               \A cluster \in 2 .. 4 :
                                 info.loc + info.data + cluster * b.sectors_per_cluster
                                   = info.loc + b.reserved_sectors + b.FAT_count * b.sectors_per_FAT
                                       + cluster - 2
    BY DEF PartitionsRight
  <2> DEFINE info == disktable[d].parts[i]
             b == Boot(d, content[d].table[i].loc)
  <2>1. /\ content[d].table[i].loc \in 0 .. FourBytes - 1
        /\ b \in Fields \cup {NoBoot} /\ (b.signature <=> b \in Fields)
    BY ContentKnown DEF DiskInv
  <2>2. Placed(d, i) /\ Judged(d, i)
    BY DEF DiskInv, SetUp
  <2>3. info.loc = content[d].table[i].loc /\ info.loc \in Nat
    BY <2>1, <2>2, FourKnown DEF Placed
  <2>4. /\ memory.fs # "fat32" => (info.fs = "fat32" <=> b.signature)
        /\ b.signature => info.data = Data(b)
    BY <2>2 DEF Judged
  <2> HIDE DEF info, b
  <2>5. ASSUME b.signature, b.bytes_per_sector = 1, b.sectors_per_cluster = 1, NEW cluster \in 2 .. 4
        PROVE  info.loc + info.data + cluster * b.sectors_per_cluster
                 = info.loc + b.reserved_sectors + b.FAT_count * b.sectors_per_FAT + cluster - 2
    <3>1. b.reserved_sectors \in Nat /\ b.FAT_count \in Nat /\ b.sectors_per_FAT \in Nat
      BY <2>1, <2>5, Sizes DEF Fields
    <3> DEFINE tables == b.FAT_count * b.sectors_per_FAT
    <3>2. tables \in Nat
      BY <3>1
    <3>3. info.data = b.reserved_sectors + tables - 2
      BY <2>4, <2>5, <3>1 DEF Data, FirstFat
    <3> HIDE DEF tables
    <3>4. info.loc + info.data + cluster * 1 = info.loc + b.reserved_sectors + tables + cluster - 2
      BY <2>3, <3>1, <3>2, <3>3
    <3> QED
      BY <2>5, <3>4 DEF tables
  <2> QED
    BY <2>3, <2>4, <2>5 DEF info, b
<1> QED
  BY <1>1, DiskInvariant, PTL
=============================================================================
