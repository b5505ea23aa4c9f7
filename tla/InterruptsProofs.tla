-------------------------- MODULE InterruptsProofs --------------------------
(***************************************************************************)
(* Proofs about module Interrupts, for every set of devices, every mask    *)
(* that the firmware leaves, every address of the handlers and every width *)
(* of the counter.                                                         *)
(***************************************************************************)
EXTENDS Interrupts, LoopLemmas, SequenceTheorems, TLAPS

-----------------------------------------------------------------------------
(* The kernel's program, step by step.                                     *)
LEMMA ProgramSteps ==
  /\ Len(Program) = 19
  /\ Program[1] = Fill
  /\ Program[2] = In("PIC1") /\ Program[3] = In("PIC2")
  /\ Program[4] = Cmd("PIC1") /\ Program[5] = Cmd("PIC2")
  /\ Program[6] = Data("PIC1", {5}) /\ Program[7] = Data("PIC2", {3, 5})
  /\ Program[8] = Data("PIC1", {2}) /\ Program[9] = Data("PIC2", {1})
  /\ Program[10] = Data("PIC1", {0}) /\ Program[11] = Data("PIC2", {0})
  /\ Program[12] = Restore("PIC1") /\ Program[13] = Restore("PIC2")
  /\ Program[14] = Sti
  /\ Program[15] = Store(1) /\ Program[16] = Store(2) /\ Program[17] = Store(3)
  /\ Program[18] = In("PIC1") /\ Program[19] = Unmask
  BY DEF Program, remappic, init_timer

(* Which step of the program each action is, and what it is about.         *)
LEMMA InitSteps ==
  ASSUME IntTypeOK
  PROVE  /\ FillIdt => pc = 1
         /\ InByte => \/ pc \in {2, 18} /\ Word.pic = "PIC1"
                      \/ pc = 3 /\ Word.pic = "PIC2"
         /\ OutByte => \/ pc = 4 /\ StartWords("PIC1")
                       \/ pc = 5 /\ StartWords("PIC2")
                       \/ pc = 6 /\ TakeWord("PIC1", {5})
                       \/ pc = 7 /\ TakeWord("PIC2", {3, 5})
                       \/ pc = 8 /\ TakeWord("PIC1", {2})
                       \/ pc = 9 /\ TakeWord("PIC2", {1})
                       \/ pc = 10 /\ TakeWord("PIC1", {0})
                       \/ pc = 11 /\ TakeWord("PIC2", {0})
                       \/ pc = 12 /\ TakeWord("PIC1", saved["PIC1"])
                       \/ pc = 13 /\ TakeWord("PIC2", saved["PIC2"])
                       \/ pc = 19 /\ TakeWord("PIC1", saved["PIC1"] \ {0})
         /\ EnableInterrupts => pc = 14
         /\ StoreOffset => pc \in 15 .. 17 /\ Word.part = pc - 14
<1>1. pc \in 1 .. 20
  BY ProgramSteps DEF IntTypeOK
<1>2. \/ pc = 1 /\ Word = Fill
      \/ pc \in {2, 18} /\ Word = In("PIC1")
      \/ pc = 3 /\ Word = In("PIC2")
      \/ pc = 4 /\ Word = Cmd("PIC1")
      \/ pc = 5 /\ Word = Cmd("PIC2")
      \/ pc = 6 /\ Word = Data("PIC1", {5})
      \/ pc = 7 /\ Word = Data("PIC2", {3, 5})
      \/ pc = 8 /\ Word = Data("PIC1", {2})
      \/ pc = 9 /\ Word = Data("PIC2", {1})
      \/ pc = 10 /\ Word = Data("PIC1", {0})
      \/ pc = 11 /\ Word = Data("PIC2", {0})
      \/ pc = 12 /\ Word = Restore("PIC1")
      \/ pc = 13 /\ Word = Restore("PIC2")
      \/ pc = 14 /\ Word = Sti
      \/ pc \in 15 .. 17 /\ Word = Store(pc - 14)
      \/ pc = 19 /\ Word = Unmask
      \/ pc = 20
  BY <1>1, ProgramSteps DEF Word
<1>3. ASSUME NEW op, At(op) PROVE pc # 20 /\ Word.op = op
  BY <1>1, <1>3, ProgramSteps DEF At, Word
<1> USE DEF Fill, In, Cmd, Data, Restore, Sti, Store, Unmask
<1>4. FillIdt => pc = 1
  BY <1>2, <1>3 DEF FillIdt
<1>5. InByte => \/ pc \in {2, 18} /\ Word.pic = "PIC1"
                \/ pc = 3 /\ Word.pic = "PIC2"
  BY <1>2, <1>3 DEF InByte
<1>6. EnableInterrupts => pc = 14
  BY <1>2, <1>3 DEF EnableInterrupts
<1>7. StoreOffset => pc \in 15 .. 17 /\ Word.part = pc - 14
  BY <1>2, <1>3 DEF StoreOffset
<1>8. At("cmd") => \/ pc = 4 /\ Word.pic = "PIC1"
                   \/ pc = 5 /\ Word.pic = "PIC2"
  BY <1>2, <1>3
<1>9. At("data") => \/ pc = 6 /\ Word.pic = "PIC1" /\ Word.bits = {5}
                    \/ pc = 7 /\ Word.pic = "PIC2" /\ Word.bits = {3, 5}
                    \/ pc = 8 /\ Word.pic = "PIC1" /\ Word.bits = {2}
                    \/ pc = 9 /\ Word.pic = "PIC2" /\ Word.bits = {1}
                    \/ pc = 10 /\ Word.pic = "PIC1" /\ Word.bits = {0}
                    \/ pc = 11 /\ Word.pic = "PIC2" /\ Word.bits = {0}
  BY <1>2, <1>3
<1>10. At("restore") => \/ pc = 12 /\ Word.pic = "PIC1"
                        \/ pc = 13 /\ Word.pic = "PIC2"
  BY <1>2, <1>3
<1>11. At("unmask") => pc = 19
  BY <1>2, <1>3
<1> QED
  BY <1>4, <1>5, <1>6, <1>7, <1>8, <1>9, <1>10, <1>11, SMTT(30) DEF OutByte, StartWords, TakeWord

-----------------------------------------------------------------------------
(* The inductive invariant.  Interrupts come from sti on, which is step 14 *)
(* of the program, and the last step is 19.                                *)
InPhase ==
  /\ enabled <=> pc >= 15
  /\ state = "init" => pc <= 19
  /\ state \in {"idle", "sleep", "mask"} => pc = 20
  /\ state = "halted" => enabled

(* The word that each controller waits for, while remappic talks to both   *)
(* by turns, and the vectors that they have got.                           *)
Programmed ==
  /\ expect["PIC1"] = CASE pc \in {5, 6} -> "vector"
                        [] pc \in {7, 8} -> "cascade"
                        [] pc \in {9, 10} -> "mode"
                        [] OTHER -> "mask"
  /\ expect["PIC2"] = CASE pc \in {6, 7} -> "vector"
                        [] pc \in {8, 9} -> "cascade"
                        [] pc \in {10, 11} -> "mode"
                        [] OTHER -> "mask"
  /\ pc >= 7 => base["PIC1"] = {5}
  /\ pc >= 8 => base["PIC2"] = {3, 5}

(* The masks that firmware and kernel want are in the registers or, while  *)
(* the controllers are set up, in the local variables of remappic; a mask  *)
(* that is read to be changed is still in its register.                    *)
Right(pic, bits) == \A line \in LinesOf(pic) \ {0} : line % 8 \in bits <=> line \in masked

MasksKnown ==
  /\ pc <= 4 \/ pc >= 13 => Right("PIC1", mask["PIC1"])
  /\ pc <= 5 \/ pc >= 14 => Right("PIC2", mask["PIC2"])
  /\ pc \in 3 .. 12 => Right("PIC1", saved["PIC1"])
  /\ pc \in 4 .. 13 => Right("PIC2", saved["PIC2"])
  /\ pc = 19 => saved["PIC1"] = mask["PIC1"]
  /\ pc = 20 => 0 \notin mask["PIC1"]
  /\ state = "mask" => /\ change.line \in Maskable
                       /\ saved[PicOf(change.line)] = mask[PicOf(change.line)]

(* Once filled, the gates of the lines hold whole addresses at every step: *)
(* the first store of addirq changes the handler, the others nothing.      *)
GatesSet ==
  pc >= 2 =>
    \A v \in 32 .. 47 : idt[v] = IF v = 32 /\ pc >= 16 THEN Offset["pitirq"] ELSE Gate(v)

(* What a handler still has to do fits what is in service.                 *)
InService ==
  /\ \/ handler = <<>> /\ isr = {}
     \/ /\ handler \in {<<"eoi1">>, <<"tick", "eoi1">>}
        /\ isr = {} \/ \E line \in 0 .. 7 : isr = {line}
     \/ /\ handler = <<"eoi2", "eoi1">>
        /\ isr = {Cascade} \/ \E line \in 8 .. 15 : isr = {Cascade, line}
  /\ ~enabled => handler = <<>>

(* The ticks that sleep has seen are what the counter has gained, unless   *)
(* it has slept long enough or its exit has wrapped around.                *)
SleepCounts ==
  /\ slept <= asked
  /\ state = "sleep" => \/ exit < asked
                        \/ slept = asked
                        \/ timerticks = exit - asked + slept

IntInv ==
  /\ IntTypeOK
  /\ InPhase
  /\ Programmed
  /\ MasksKnown
  /\ GatesSet
  /\ InService
  /\ SleepCounts

-----------------------------------------------------------------------------
(* Where an interrupt goes.                                                *)

LEMMA VectorOf ==
  ASSUME IntInv, enabled, NEW line \in Lines
  PROVE  Vector(line) = 32 + line
<1>1. base["PIC1"] = {5} /\ base["PIC2"] = {3, 5}
  BY ProgramSteps DEF IntInv, IntTypeOK, InPhase, Programmed
<1>2. CASE line < 8
  <2>1. base[PicOf(line)] = {5} /\ line % 8 = line
    BY <1>1, <1>2 DEF PicOf, Lines
  <2> QED
    BY <2>1 DEF Vector, Lines
<1>3. CASE line >= 8
  <2>1. base[PicOf(line)] = {3, 5} /\ line % 8 = line - 8
    BY <1>1, <1>3 DEF PicOf, Lines
  <2> QED
    BY <2>1 DEF Vector, Lines
<1> QED
  BY <1>2, <1>3 DEF Lines

(* An address of a handler belongs to that handler only.                   *)
LEMMA HandlerFound ==
  ASSUME NEW h \in Handlers
  PROVE  HandlerAt(Offset[h]) = {h}
  BY OffsetAssumption DEF HandlerAt

LEMMA EnterEffect ==
  ASSUME IntInv, enabled, NEW line \in Lines, Enter(line)
  PROVE  handler' = IF line >= 8 THEN <<"eoi2", "eoi1">>
                    ELSE IF line = 0 /\ pc >= 16 THEN <<"tick", "eoi1">>
                    ELSE <<"eoi1">>
<1> DEFINE h == IF line >= 8 THEN "nop_slave"
                ELSE IF line = 0 /\ pc >= 16 THEN "pitirq"
                ELSE "nop_master"
<1>1. h \in Handlers
  BY DEF Handlers
<1>2. idt[Vector(line)] = Offset[h]
  <2>1. pc >= 2 /\ pc \in Int
    BY ProgramSteps DEF IntInv, IntTypeOK, InPhase
  <2>2. Vector(line) = 32 + line
    BY VectorOf
  <2> QED
    BY <2>1, <2>2 DEF IntInv, GatesSet, Gate, Lines
<1>3. handler' = Steps(CHOOSE g \in {h} : TRUE)
  <2> HIDE DEF h
  <2> QED
    BY <1>1, <1>2, HandlerFound DEF Enter
<1>4. (CHOOSE g \in {h} : TRUE) = h
  OBVIOUS
<1>5. handler' = Steps(h)
  BY <1>3, <1>4
<1>6. /\ Steps("nop_slave") = <<"eoi2", "eoi1">>
      /\ Steps("nop_master") = <<"eoi1">>
      /\ Steps("pitirq") = <<"tick", "eoi1">>
  <2>1. <<"tick">> \o <<"eoi1">> = <<"tick", "eoi1">>
    <3> DEFINE s == <<"tick">> \o <<"eoi1">>
               t == <<"tick", "eoi1">>
               E == {"tick", "eoi1"}
    <3>0. <<"tick">> \in Seq(E) /\ <<"eoi1">> \in Seq(E) /\ t \in Seq(E)
      OBVIOUS
    <3>1. s \in Seq(E) /\ Len(s) = 2 /\ Len(t) = 2
      BY <3>0, ConcatProperties
    <3>2. s[1] = t[1] /\ s[2] = t[2]
      OBVIOUS
    <3>3. \A i \in 1 .. Len(s) : s[i] = t[i]
      BY <3>1, <3>2
    <3> QED
      BY <3>0, <3>1, <3>3, SeqEqual
  <2> QED
    BY <2>1 DEF Steps, Acknowledge
<1> QED
  BY <1>5, <1>6

(* The processor takes a line of the first controller, or one of the       *)
(* second through the cascade; a fallen line is not in service.            *)
LEMMA InterruptEffect ==
  ASSUME IntInv, Interrupt
  PROVE  /\ handler = <<>> /\ enabled
         /\ \/ /\ handler' \in {<<"eoi1">>, <<"tick", "eoi1">>}
               /\ isr' = {} \/ \E line \in 0 .. 7 : isr' = {line}
            \/ /\ handler' = <<"eoi2", "eoi1">>
               /\ isr' = {Cascade} \/ \E line \in 8 .. 15 : isr' = {Cascade, line}
         /\ irr' \subseteq irr
         /\ UNCHANGED <<mask, base, expect, mainVars, timerticks, masked, slept>>
<1>1. /\ handler = <<>> /\ enabled /\ MasterRequests # {}
      /\ isr = {} /\ irr \subseteq Lines \ {Cascade}
  BY DevicesAssumption DEF Interrupt, Interruptible, IntInv, InService, IntTypeOK
<1> DEFINE first == Min(MasterRequests)
           line == IF first = Cascade THEN Min(SlaveRequests) ELSE first
           cascaded == {c \in {Cascade} : first = Cascade}
<1>2. first \in MasterRequests
  <2>1. MasterRequests \in SUBSET Nat
    BY DEF MasterRequests, Eligible, Pending, LinesOf, Lines, Cascade
  <2> QED
    BY <1>1, <2>1, MinMember
<1>3. /\ irr' = irr \ {line}
      /\ \/ Enter(line) /\ isr' = isr \cup cascaded \cup {line}
         \/ Enter(IF first = Cascade THEN 15 ELSE 7) /\ isr' = isr \cup cascaded
      /\ UNCHANGED <<mask, base, expect, mainVars, timerticks, masked, slept>>
  BY DEF Interrupt
<1> HIDE DEF first
<1>4. CASE first = Cascade
  <2>1. SlaveRequests # {}
    BY <1>1, <1>2, <1>4 DEF MasterRequests, Eligible, Pending
  <2>2. SlaveRequests \in SUBSET Nat
    BY DEF SlaveRequests, Eligible, Pending, LinesOf, Lines
  <2>3. line \in SlaveRequests
    BY <1>4, <2>1, <2>2, MinMember
  <2>4. line \in 8 .. 15
    BY <2>3 DEF SlaveRequests, Eligible, Pending, LinesOf, PicOf, Lines
  <2> HIDE DEF line
  <2>5. line \in Lines /\ 15 \in Lines /\ line >= 8 /\ 15 >= 8
    BY <2>4 DEF Lines
  <2>6. handler' = <<"eoi2", "eoi1">>
    BY <1>1, <1>3, <1>4, <2>5, EnterEffect
  <2>7. isr' = {Cascade} \/ isr' = {Cascade, line}
    BY <1>1, <1>3, <1>4
  <2> QED
    BY <1>1, <1>3, <2>4, <2>6, <2>7
<1>5. CASE first # Cascade
  <2>1. line \in 0 .. 7
    BY <1>2, <1>5 DEF MasterRequests, Eligible, Pending, LinesOf, PicOf, Lines
  <2>2. cascaded = {}
    BY <1>5
  <2> HIDE DEF line, cascaded
  <2>3. line \in Lines /\ 7 \in Lines /\ ~(line >= 8) /\ ~(7 >= 8)
    BY <2>1 DEF Lines
  <2>4. handler' \in {<<"eoi1">>, <<"tick", "eoi1">>}
    BY <1>1, <1>3, <1>5, <2>3, EnterEffect
  <2>5. isr' = {} \/ isr' = {line}
    BY <1>1, <1>3, <2>2
  <2> QED
    BY <1>1, <1>3, <2>1, <2>4, <2>5
<1> QED
  BY <1>4, <1>5

-----------------------------------------------------------------------------
(* What may happen beside the program, and what it leaves alone.           *)
Later ==
  \/ \E ticks \in Sleeps : Sleep(ticks)
  \/ Wake
  \/ \E line \in Maskable, on \in BOOLEAN : InMask(line, on)
  \/ OutMask
  \/ Fault
  \/ \E line \in Devices : Raise(line)
  \/ Interrupt
  \/ Tick
  \/ piceoi
  \/ UNCHANGED intVars

LEMMA IntSteps ==
  ASSUME [IntNext]_intVars
  PROVE  FillIdt \/ InByte \/ OutByte \/ EnableInterrupts \/ StoreOffset \/ Later
  BY DEF IntNext, InitStep, Later

(* The second half of maskirq and unmaskirq only changes the mask.         *)
LEMMA OutMaskEffect ==
  ASSUME IntInv, OutMask
  PROVE  LET pic == PicOf(change.line)
             bits == IF change.on THEN mask[pic] \cup {change.line % 8}
                     ELSE mask[pic] \ {change.line % 8}
         IN  /\ mask' = [mask EXCEPT ![pic] = bits]
             /\ change.line \in Maskable
             /\ pc = 20
             /\ state' = "idle"
             /\ UNCHANGED <<base, expect, irr, isr>>
<1> DEFINE pic == PicOf(change.line)
<1>1. /\ pc = 20 /\ change.line \in Maskable /\ saved[pic] = mask[pic]
      /\ expect["PIC1"] = "mask" /\ expect["PIC2"] = "mask"
  BY DEF OutMask, IntInv, InPhase, MasksKnown, Programmed
<1>2. pic \in Pics /\ expect[pic] = "mask"
  BY <1>1 DEF PicOf, Pics
<1>3. expect \in [Pics -> {"vector", "cascade", "mode", "mask"}]
  BY DEF IntInv, IntTypeOK
<1>4. TakeWord(pic, IF change.on THEN saved[pic] \cup {change.line % 8}
                    ELSE saved[pic] \ {change.line % 8})
  BY DEF OutMask
<1> HIDE DEF pic
<1>5. expect' = expect
  BY <1>2, <1>3, <1>4 DEF TakeWord
<1>6. /\ mask' = [mask EXCEPT ![pic] = IF change.on THEN mask[pic] \cup {change.line % 8}
                                       ELSE mask[pic] \ {change.line % 8}]
      /\ UNCHANGED <<base, irr, isr>>
  BY <1>1, <1>2, <1>4 DEF TakeWord
<1>7. state' = "idle"
  BY DEF OutMask
<1> QED
  BY <1>1, <1>5, <1>6, <1>7 DEF pic

LEMMA LaterFrame ==
  ASSUME IntInv, Later
  PROVE  UNCHANGED <<idt, pc, enabled, base, expect>>
  BY OutMaskEffect DEF Later, Sleep, Wake, InMask, OutMask, Fault, Raise, Interrupt, Tick, piceoi,
       intVars, deviceVars, mainVars

-----------------------------------------------------------------------------
(* Each part of the invariant is kept.                                     *)

LEMMA OutByteTypes ==
  ASSUME IntInv, OutByte
  PROVE  /\ mask' \in [Pics -> SUBSET (0 .. 7)]
         /\ base' \in [Pics -> SUBSET (0 .. 7)]
         /\ expect' \in [Pics -> {"vector", "cascade", "mode", "mask"}]
         /\ irr' \subseteq irr /\ isr' \subseteq isr
<1>0. IntTypeOK
  BY DEF IntInv
<1>1. ASSUME NEW pic \in Pics, StartWords(pic)
      PROVE  /\ mask' \in [Pics -> SUBSET (0 .. 7)]
             /\ base' \in [Pics -> SUBSET (0 .. 7)]
             /\ expect' \in [Pics -> {"vector", "cascade", "mode", "mask"}]
             /\ irr' \subseteq irr /\ isr' \subseteq isr
  BY <1>0, <1>1 DEF IntTypeOK, StartWords
<1>2. ASSUME NEW pic \in Pics, NEW bits \in SUBSET (0 .. 7), TakeWord(pic, bits)
      PROVE  /\ mask' \in [Pics -> SUBSET (0 .. 7)]
             /\ base' \in [Pics -> SUBSET (0 .. 7)]
             /\ expect' \in [Pics -> {"vector", "cascade", "mode", "mask"}]
             /\ irr' \subseteq irr /\ isr' \subseteq isr
  BY <1>0, <1>2 DEF IntTypeOK, TakeWord
<1>3. /\ "PIC1" \in Pics /\ "PIC2" \in Pics
      /\ saved["PIC1"] \in SUBSET (0 .. 7) /\ saved["PIC2"] \in SUBSET (0 .. 7)
      /\ saved["PIC1"] \ {0} \in SUBSET (0 .. 7)
      /\ {0} \in SUBSET (0 .. 7) /\ {1} \in SUBSET (0 .. 7) /\ {2} \in SUBSET (0 .. 7)
      /\ {5} \in SUBSET (0 .. 7) /\ {3, 5} \in SUBSET (0 .. 7)
  BY <1>0 DEF Pics, IntTypeOK
<1> QED
  BY <1>0, <1>1, <1>2, <1>3, InitSteps

LEMMA TypeKept ==
  ASSUME IntInv, [IntNext]_intVars
  PROVE  IntTypeOK'
<1>0. IntTypeOK /\ pc \in 1 .. 20 /\ TICKS \in Nat \ {0} /\ Pics = {"PIC1", "PIC2"}
  BY ProgramSteps, DevicesAssumption DEF IntInv, IntTypeOK, Pics
<1> USE DEF deviceVars, mainVars, timeVars
<1>1. CASE FillIdt
  <2>1. \A v \in Vectors : Gate(v) \in Nat \X Nat \X Nat
    BY OffsetAssumption DEF Gate, Handlers
  <2>2. idt' \in [Vectors -> Nat \X Nat \X Nat]
    BY <1>1, <2>1 DEF FillIdt
  <2> QED
    BY <1>0, <1>1, <2>2, InitSteps, ProgramSteps DEF FillIdt, IntTypeOK
<1>2. CASE InByte
  <2>1. saved' \in [Pics -> SUBSET (0 .. 7)]
    BY <1>0, <1>2, InitSteps DEF InByte, IntTypeOK
  <2> QED
    BY <1>0, <1>2, <2>1, InitSteps, ProgramSteps DEF InByte, IntTypeOK
<1>3. CASE OutByte
  <2>1. saved' \in [Pics -> SUBSET (0 .. 7)]
    BY <1>0, <1>3 DEF OutByte, IntTypeOK
  <2>2. pc <= 19
    BY <1>0, <1>3, InitSteps
  <2>3. pc' \in 1 .. 20 /\ state' \in {"init", "idle", "sleep", "mask", "halted"}
    BY <1>0, <1>3, <2>2 DEF OutByte, IntTypeOK
  <2> QED
    BY <1>0, <1>3, <2>1, <2>3, OutByteTypes, ProgramSteps DEF OutByte, IntTypeOK
<1>4. CASE EnableInterrupts
  BY <1>0, <1>4, InitSteps, ProgramSteps DEF EnableInterrupts, IntTypeOK
<1>5. CASE StoreOffset
  <2>1. Offset["pitirq"] \in Nat \X Nat \X Nat /\ idt[32] \in Nat \X Nat \X Nat /\ 32 \in Vectors
    BY <1>0, OffsetAssumption DEF Handlers, IntTypeOK, Vectors
  <2>2. Word.part \in 1 .. 3
    BY <1>0, <1>5, InitSteps
  <2>3. [idt[32] EXCEPT ![Word.part] = Offset["pitirq"][Word.part]] \in Nat \X Nat \X Nat
    BY <2>1, <2>2
  <2>4. idt' \in [Vectors -> Nat \X Nat \X Nat]
    BY <1>0, <1>5, <2>3 DEF StoreOffset, IntTypeOK
  <2> QED
    BY <1>0, <1>5, <2>4, InitSteps, ProgramSteps DEF StoreOffset, IntTypeOK
<1>6. ASSUME NEW ticks \in Sleeps, Sleep(ticks) PROVE IntTypeOK'
  <2>1. ticks \in 0 .. TICKS - 1
    BY DevicesAssumption
  <2>2. exit' \in 0 .. TICKS - 1
    BY <1>0, <1>6, <2>1 DEF Sleep, IntTypeOK
  <2> QED
    BY <1>0, <1>6, <2>1, <2>2 DEF Sleep, IntTypeOK
<1>7. CASE Wake
  BY <1>0, <1>7 DEF Wake, IntTypeOK
<1>8. ASSUME NEW line \in Maskable, NEW on \in BOOLEAN, InMask(line, on) PROVE IntTypeOK'
  <2>1. line \in Lines /\ PicOf(line) \in Pics
    BY <1>0, DevicesAssumption DEF PicOf
  <2>2. saved' \in [Pics -> SUBSET (0 .. 7)]
    BY <1>0, <1>8, <2>1 DEF InMask, IntTypeOK
  <2> QED
    BY <1>0, <1>8, <2>1, <2>2 DEF InMask, IntTypeOK
<1>9. CASE OutMask
  <2>1. change.line \in Lines /\ change.line % 8 \in 0 .. 7 /\ PicOf(change.line) \in Pics
    BY <1>0 DEF IntTypeOK, Lines, PicOf
  <2>2. mask' \in [Pics -> SUBSET (0 .. 7)]
    <3> DEFINE pic == PicOf(change.line)
               bits == IF change.on THEN mask[pic] \cup {change.line % 8}
                       ELSE mask[pic] \ {change.line % 8}
    <3>1. mask' = [mask EXCEPT ![pic] = bits]
      BY <1>9, OutMaskEffect
    <3>2. mask \in [Pics -> SUBSET (0 .. 7)] /\ bits \in SUBSET (0 .. 7)
      BY <1>0, <2>1 DEF IntTypeOK
    <3> HIDE DEF bits
    <3> QED
      BY <2>1, <3>1, <3>2
  <2>3. saved' \in [Pics -> SUBSET (0 .. 7)] /\ change' \in [line : Lines, on : BOOLEAN]
    BY <1>9 DEF OutMask, NoChange, Lines
  <2>4. masked' \in SUBSET Lines
    BY <1>0, <1>9, <2>1 DEF OutMask, IntTypeOK
  <2> QED
    BY <1>0, <1>9, <2>2, <2>3, <2>4, OutMaskEffect DEF OutMask, IntTypeOK
<1>10. CASE Fault
  BY <1>0, <1>10 DEF Fault, IntTypeOK
<1>11. ASSUME NEW line \in Devices, Raise(line) PROVE IntTypeOK'
  BY <1>0, <1>11 DEF Raise, IntTypeOK
<1>12. CASE Interrupt
  <2>1. isr' \in SUBSET Lines
    BY <1>12, InterruptEffect DEF Lines, Cascade
  <2> QED
    BY <1>0, <1>12, <2>1, InterruptEffect DEF IntTypeOK
<1>13. CASE Tick
  <2>1. timerticks' \in 0 .. TICKS - 1
    BY <1>0, <1>13 DEF Tick, Increment, IntTypeOK
  <2>2. slept' \in 0 .. TICKS - 1
    BY <1>0, <1>13 DEF Tick, IntTypeOK
  <2> QED
    BY <1>0, <1>13, <2>1, <2>2 DEF Tick, IntTypeOK
<1>14. CASE piceoi
  <2>1. isr' \in SUBSET Lines
    BY <1>0, <1>14 DEF piceoi, EndOf, IntTypeOK
  <2> QED
    BY <1>0, <1>14, <2>1 DEF piceoi, IntTypeOK
<1>15. CASE UNCHANGED intVars
  BY <1>0, <1>15 DEF intVars, IntTypeOK
<1> QED
  BY <1>1, <1>2, <1>3, <1>4, <1>5, <1>6, <1>7, <1>8, <1>9, <1>10, <1>11, <1>12, <1>13, <1>14,
     <1>15, IntSteps DEF Later

LEMMA PhaseKept ==
  ASSUME IntInv, [IntNext]_intVars
  PROVE  InPhase'
<1>0. IntTypeOK /\ pc \in 1 .. 20 /\ InPhase
  BY ProgramSteps DEF IntInv, IntTypeOK
<1>1. CASE FillIdt
  BY <1>0, <1>1, InitSteps DEF FillIdt, InPhase
<1>2. CASE InByte
  BY <1>0, <1>2, InitSteps DEF InByte, InPhase
<1>3. CASE OutByte
  <2>1. state = "init"
    BY <1>0, <1>3, InitSteps DEF OutByte, InPhase, Running, IntTypeOK
  <2> QED
    BY <1>0, <1>3, <2>1, InitSteps, ProgramSteps DEF OutByte, InPhase
<1>4. CASE EnableInterrupts
  BY <1>0, <1>4, InitSteps DEF EnableInterrupts, InPhase
<1>5. CASE StoreOffset
  BY <1>0, <1>5, InitSteps DEF StoreOffset, InPhase
<1>6. CASE Later
  <2>1. \/ state' = state
        \/ state \in {"idle", "sleep", "mask"} /\ state' \in {"idle", "sleep", "mask"}
        \/ enabled /\ state' = "halted"
    BY <1>6, InterruptEffect DEF Later, Sleep, Wake, InMask, OutMask, Fault, Raise, Tick, piceoi,
         intVars, mainVars
  <2> QED
    BY <1>0, <1>6, <2>1, LaterFrame DEF InPhase
<1> QED
  BY <1>1, <1>2, <1>3, <1>4, <1>5, <1>6, IntSteps

LEMMA ProgrammedKept ==
  ASSUME IntInv, [IntNext]_intVars
  PROVE  Programmed'
<1>0. /\ IntTypeOK /\ pc \in 1 .. 20 /\ Programmed
      /\ base \in [Pics -> SUBSET (0 .. 7)]
      /\ expect \in [Pics -> {"vector", "cascade", "mode", "mask"}]
      /\ "PIC1" \in Pics /\ "PIC2" \in Pics
  BY ProgramSteps DEF IntInv, IntTypeOK, Pics
<1>1. CASE FillIdt
  BY <1>0, <1>1, InitSteps DEF FillIdt, Programmed, deviceVars
<1>2. CASE InByte
  BY <1>0, <1>2, InitSteps DEF InByte, Programmed, deviceVars
<1>3. CASE OutByte
  <2>1. pc' = pc + 1
    BY <1>3 DEF OutByte
  <2>2. ASSUME pc \in {4, 5} PROVE Programmed'
    BY <1>0, <1>3, <2>1, <2>2, InitSteps DEF StartWords, Programmed
  <2>3. ASSUME pc \in {6, 8, 10, 12, 19} PROVE Programmed'
    BY <1>0, <1>3, <2>1, <2>3, InitSteps DEF TakeWord, Programmed
  <2>4. ASSUME pc \in {7, 9, 11, 13} PROVE Programmed'
    BY <1>0, <1>3, <2>1, <2>4, InitSteps DEF TakeWord, Programmed
  <2> QED
    BY <1>0, <1>3, <2>2, <2>3, <2>4, InitSteps
<1>4. CASE EnableInterrupts
  BY <1>0, <1>4, InitSteps DEF EnableInterrupts, Programmed, deviceVars
<1>5. CASE StoreOffset
  BY <1>0, <1>5, InitSteps DEF StoreOffset, Programmed, deviceVars
<1>6. CASE Later
  BY <1>0, <1>6, LaterFrame DEF Programmed
<1> QED
  BY <1>1, <1>2, <1>3, <1>4, <1>5, <1>6, IntSteps

LEMMA GatesKept ==
  ASSUME IntInv, [IntNext]_intVars
  PROVE  GatesSet'
<1>0. /\ IntTypeOK /\ pc \in 1 .. 20 /\ GatesSet
      /\ idt \in [Vectors -> Nat \X Nat \X Nat]
      /\ 32 \in Vectors /\ 32 .. 47 \subseteq Vectors
  BY ProgramSteps DEF IntInv, IntTypeOK, Vectors
<1>1. CASE FillIdt
  BY <1>0, <1>1, InitSteps DEF FillIdt, GatesSet
<1>2. CASE InByte
  BY <1>0, <1>2, InitSteps DEF InByte, GatesSet
<1>3. CASE OutByte
  <2>1. pc' = pc + 1 /\ idt' = idt /\ pc \in 4 .. 19 /\ (pc >= 15 => pc >= 16)
    <3>1. pc \in 4 .. 13 \/ pc = 19
      BY <1>0, <1>3, InitSteps
    <3> QED
      BY <1>3, <3>1 DEF OutByte
  <2> QED
    BY <1>0, <2>1 DEF GatesSet
<1>4. CASE EnableInterrupts
  BY <1>0, <1>4, InitSteps DEF EnableInterrupts, GatesSet
<1>5. CASE StoreOffset
  <2> DEFINE old == idt[32]
             new == Offset["pitirq"]
             part == Word.part
  <2>1. /\ part \in 1 .. 3 /\ pc \in 15 .. 17 /\ part = pc - 14 /\ pc' = pc + 1
        /\ idt' = [idt EXCEPT ![32] = [old EXCEPT ![part] = new[part]]]
    BY <1>0, <1>5, InitSteps DEF StoreOffset
  <2>2. /\ new \in Nat \X Nat \X Nat /\ old \in Nat \X Nat \X Nat
        /\ old[2] = new[2] /\ old[3] = new[3] /\ (part # 1 => old = new)
    BY <1>0, <2>1, OffsetAssumption DEF Handlers, GatesSet, Gate
  <2> HIDE DEF old, new, part
  <2>3. [old EXCEPT ![part] = new[part]] = new
    BY <2>1, <2>2
  <2>4. idt'[32] = new /\ \A v \in 33 .. 47 : idt'[v] = idt[v]
    BY <1>0, <2>1, <2>3
  <2> QED
    BY <1>0, <2>1, <2>4 DEF GatesSet, new
<1>6. CASE Later
  BY <1>0, <1>6, LaterFrame DEF GatesSet
<1> QED
  BY <1>1, <1>2, <1>3, <1>4, <1>5, <1>6, IntSteps

(* The lines of one controller have different bits in its mask.            *)
LEMMA BitsDiffer ==
  ASSUME NEW pic \in Pics, NEW l \in LinesOf(pic), NEW m \in LinesOf(pic), l % 8 = m % 8
  PROVE  l = m
  BY DEF LinesOf, PicOf, Lines, Pics

LEMMA MasksKept ==
  ASSUME IntInv, [IntNext]_intVars
  PROVE  MasksKnown'
<1>0. /\ IntTypeOK /\ pc \in 1 .. 20 /\ MasksKnown /\ Programmed /\ InPhase
      /\ mask \in [Pics -> SUBSET (0 .. 7)] /\ saved \in [Pics -> SUBSET (0 .. 7)]
      /\ "PIC1" \in Pics /\ "PIC2" \in Pics
  BY ProgramSteps DEF IntInv, IntTypeOK, Pics
<1>1. CASE FillIdt
  BY <1>0, <1>1, InitSteps DEF FillIdt, MasksKnown, Right, deviceVars, timeVars, InPhase
<1>2. CASE InByte
  <2>1. /\ pc' = pc + 1 /\ mask' = mask /\ masked' = masked /\ state' = state /\ state # "mask"
        /\ saved' = [saved EXCEPT ![Word.pic] = mask[Word.pic]]
        /\ \/ pc \in {2, 18} /\ Word.pic = "PIC1"
           \/ pc = 3 /\ Word.pic = "PIC2"
    BY <1>0, <1>2, InitSteps DEF InByte, deviceVars, timeVars, InPhase
  <2> QED
    BY <1>0, <2>1 DEF MasksKnown, Right
<1>3. CASE OutByte
  <2>1. pc' = pc + 1 /\ masked' = masked
    BY <1>3 DEF OutByte, timeVars
  <2>2. ASSUME pc \in 4 .. 13 PROVE MasksKnown'
    <3>1. saved' = saved /\ state' = "init"
      BY <1>0, <1>3, <2>2, ProgramSteps, SMTT(30) DEF OutByte, InPhase, IntTypeOK, Running
    <3>2. CASE pc \in {4, 5}
      BY <1>0, <1>3, <2>1, <3>1, <3>2, InitSteps DEF StartWords, MasksKnown, Right
    <3>3. CASE pc \in 6 .. 11
      <4>1. mask' = mask
        BY <1>0, <1>3, <3>3, InitSteps DEF TakeWord, Programmed
      <4> QED
        BY <1>0, <2>1, <3>1, <3>3, <4>1 DEF MasksKnown, Right
    <3>4. CASE pc = 12
      <4>1. mask' = [mask EXCEPT !["PIC1"] = saved["PIC1"]]
        BY <1>0, <1>3, <3>4, InitSteps DEF TakeWord, Programmed
      <4> QED
        BY <1>0, <2>1, <3>1, <3>4, <4>1 DEF MasksKnown, Right
    <3>5. CASE pc = 13
      <4>1. mask' = [mask EXCEPT !["PIC2"] = saved["PIC2"]]
        BY <1>0, <1>3, <3>5, InitSteps DEF TakeWord, Programmed
      <4> QED
        BY <1>0, <2>1, <3>1, <3>5, <4>1 DEF MasksKnown, Right
    <3> QED
      BY <2>2, <3>2, <3>3, <3>4, <3>5
  <2>3. ASSUME pc = 19 PROVE MasksKnown'
    <3>1. mask' = [mask EXCEPT !["PIC1"] = mask["PIC1"] \ {0}] /\ state' = "idle"
      BY <1>0, <1>3, <2>3, InitSteps, ProgramSteps DEF TakeWord, Programmed, MasksKnown, OutByte
    <3>2. \A line \in LinesOf("PIC1") \ {0} : line % 8 # 0
      BY DEF LinesOf, PicOf, Lines
    <3> QED
      BY <1>0, <2>1, <2>3, <3>1, <3>2 DEF MasksKnown, Right
  <2> QED
    BY <1>0, <1>3, <2>2, <2>3, InitSteps
<1>4. CASE EnableInterrupts
  BY <1>0, <1>4, InitSteps DEF EnableInterrupts, MasksKnown, Right, deviceVars, timeVars, InPhase
<1>5. CASE StoreOffset
  BY <1>0, <1>5, InitSteps DEF StoreOffset, MasksKnown, Right, deviceVars, timeVars, InPhase
<1>6. ASSUME NEW line \in Maskable, NEW on \in BOOLEAN, InMask(line, on) PROVE MasksKnown'
  <2>1. /\ pc = 20 /\ pc' = 20 /\ mask' = mask /\ masked' = masked
        /\ change'.line = line
        /\ saved' = [saved EXCEPT ![PicOf(line)] = mask[PicOf(line)]]
        /\ PicOf(line) \in Pics
    BY <1>0, <1>6 DEF InMask, InPhase, deviceVars, PicOf
  <2>2. PicOf(change'.line) = PicOf(line) /\ saved'[PicOf(line)] = mask'[PicOf(line)]
    BY <1>0, <2>1
  <2> QED
    BY <1>0, <2>1, <2>2 DEF MasksKnown, Right, PicOf
<1>7. CASE OutMask
  <2> DEFINE line == change.line
             pic == PicOf(line)
             bits == IF change.on THEN mask[pic] \cup {line % 8} ELSE mask[pic] \ {line % 8}
  <2>1. /\ mask' = [mask EXCEPT ![pic] = bits] /\ state' = "idle"
        /\ pc = 20 /\ pc' = 20 /\ line \in Lines \ {0}
        /\ masked' = IF change.on THEN masked \cup {line} ELSE masked \ {line}
    BY <1>7, OutMaskEffect, DevicesAssumption DEF OutMask
  <2>2. pic \in Pics /\ line \in LinesOf(pic)
    BY <1>0, <2>1 DEF PicOf, LinesOf
  <2>3. \A p \in Pics : Right(p, mask[p])
    BY <1>0, <2>1 DEF MasksKnown, Pics
  <2>4. \A p \in Pics \ {pic} : line \notin LinesOf(p)
    BY DEF LinesOf
  <2>5. pic = "PIC1" => line % 8 # 0
    BY <2>1 DEF PicOf, Lines
  <2> HIDE DEF line, pic
  <2>6. ASSUME NEW l \in LinesOf(pic) \ {0} PROVE l % 8 \in bits <=> l \in masked'
    <3>1. l % 8 = line % 8 => l = line
      BY <2>2, BitsDiffer
    <3>2. l % 8 \in mask[pic] <=> l \in masked
      BY <2>2, <2>3 DEF Right
    <3> QED
      BY <2>1, <3>1, <3>2
  <2>7. ASSUME NEW p \in Pics PROVE Right(p, mask[p])'
    <3>1. CASE p = pic
      BY <1>0, <2>1, <2>2, <2>6, <3>1 DEF Right
    <3>2. CASE p # pic
      BY <1>0, <2>1, <2>2, <2>3, <2>4, <3>2 DEF Right
    <3> QED
      BY <3>1, <3>2
  <2>8. 0 \notin mask'["PIC1"]
    BY <1>0, <2>1, <2>2, <2>5 DEF MasksKnown
  <2> QED
    BY <1>0, <2>1, <2>7, <2>8 DEF MasksKnown
<1>8. CASE Later /\ UNCHANGED <<mask, masked, saved, change>> /\ state' # "mask"
  BY <1>0, <1>8, LaterFrame DEF MasksKnown, Right
<1>9. CASE Later /\ UNCHANGED <<mask, masked, saved, change, state>>
  BY <1>0, <1>9, LaterFrame DEF MasksKnown, Right, PicOf
<1>10. Later => \/ \E line \in Maskable, on \in BOOLEAN : InMask(line, on)
                \/ OutMask
                \/ UNCHANGED <<mask, masked, saved, change>> /\ state' # "mask"
                \/ UNCHANGED <<mask, masked, saved, change, state>>
  BY InterruptEffect DEF Later, Sleep, Wake, Fault, Raise, Tick, piceoi, intVars, mainVars,
       deviceVars, timeVars
<1> QED
  BY <1>1, <1>2, <1>3, <1>4, <1>5, <1>6, <1>7, <1>8, <1>9, <1>10, IntSteps

(* The end of interrupt that a handler sends fits the line in service.     *)
LEMMA EoiEffect ==
  ASSUME IntInv, piceoi
  PROVE  \/ /\ handler = <<"eoi1">>
            /\ handler' = <<>> /\ isr' = {}
         \/ /\ handler = <<"eoi2", "eoi1">>
            /\ handler' = <<"eoi1">> /\ isr' = {Cascade}
<1>0. InService /\ handler # <<>> /\ handler' = Tail(handler)
      /\ Head(handler) \in {"eoi1", "eoi2"}
  BY DEF IntInv, piceoi
<1>1. /\ Head(<<"eoi1">>) = "eoi1" /\ Tail(<<"eoi1">>) = <<>>
      /\ Head(<<"tick", "eoi1">>) = "tick"
      /\ Head(<<"eoi2", "eoi1">>) = "eoi2" /\ Tail(<<"eoi2", "eoi1">>) = <<"eoi1">>
  OBVIOUS
<1>2. handler = <<"eoi1">> \/ handler = <<"eoi2", "eoi1">>
  BY <1>0, <1>1 DEF InService
<1>3. CASE handler = <<"eoi1">>
  <2>1. isr' = EndOf("PIC1") /\ handler' = <<>>
    BY <1>0, <1>1, <1>3 DEF piceoi
  <2>2. isr = {} \/ \E line \in 0 .. 7 : isr = {line}
    BY <1>0, <1>3 DEF InService
  <2>3. CASE isr = {}
    BY <1>3, <2>1, <2>3 DEF EndOf, Served
  <2>4. ASSUME NEW line \in 0 .. 7, isr = {line} PROVE isr' = {}
    <3>1. Served("PIC1") = {line}
      BY <2>4 DEF Served, LinesOf, Lines, PicOf
    <3>2. Min({line}) = line
      BY MinMember
    <3> QED
      BY <2>1, <2>4, <3>1, <3>2 DEF EndOf
  <2> QED
    BY <1>3, <2>1, <2>2, <2>3, <2>4
<1>4. CASE handler = <<"eoi2", "eoi1">>
  <2>1. isr' = EndOf("PIC2") /\ handler' = <<"eoi1">>
    BY <1>0, <1>1, <1>4 DEF piceoi
  <2>2. isr = {Cascade} \/ \E line \in 8 .. 15 : isr = {Cascade, line}
    BY <1>0, <1>4 DEF InService
  <2>3. CASE isr = {Cascade}
    BY <1>4, <2>1, <2>3 DEF EndOf, Served, LinesOf, PicOf, Cascade
  <2>4. ASSUME NEW line \in 8 .. 15, isr = {Cascade, line} PROVE isr' = {Cascade}
    <3>1. Served("PIC2") = {line}
      BY <2>4 DEF Served, LinesOf, Lines, PicOf, Cascade
    <3>2. Min({line}) = line
      BY MinMember
    <3> QED
      BY <2>1, <2>4, <3>1, <3>2 DEF EndOf, Cascade
  <2> QED
    BY <1>4, <2>1, <2>2, <2>3, <2>4
<1> QED
  BY <1>2, <1>3, <1>4

LEMMA ServiceKept ==
  ASSUME IntInv, [IntNext]_intVars
  PROVE  InService'
<1>0. InService /\ IntTypeOK /\ InPhase /\ pc \in 1 .. 20
  BY ProgramSteps DEF IntInv, IntTypeOK
<1>1. CASE UNCHANGED <<handler, isr>> /\ (enabled => enabled')
  BY <1>0, <1>1 DEF InService
<1>2. CASE FillIdt \/ InByte \/ StoreOffset
  BY <1>1, <1>2 DEF FillIdt, InByte, StoreOffset, deviceVars
<1>3. CASE OutByte
  <2>1. handler' = handler /\ enabled' = enabled /\ handler = <<>>
    BY <1>3 DEF OutByte, Running
  <2>2. isr = {}
    BY <1>0, <2>1 DEF InService
  <2>3. isr' = {}
    BY <1>3, <2>2, OutByteTypes
  <2> QED
    BY <2>1, <2>3 DEF InService
<1>4. CASE EnableInterrupts
  BY <1>1, <1>4 DEF EnableInterrupts, deviceVars
<1>5. CASE Interrupt
  BY <1>0, <1>5, InterruptEffect DEF InService, mainVars
<1>6. CASE Tick
  <2>1. /\ handler # <<>> /\ Head(handler) = "tick" /\ handler' = Tail(handler)
        /\ isr' = isr /\ enabled' = enabled
    BY <1>6 DEF Tick, deviceVars, mainVars
  <2>2. /\ Head(<<"eoi1">>) = "eoi1" /\ Head(<<"eoi2", "eoi1">>) = "eoi2"
        /\ Tail(<<"tick", "eoi1">>) = <<"eoi1">>
    OBVIOUS
  <2>3. handler = <<"tick", "eoi1">>
    BY <1>0, <2>1, <2>2 DEF InService
  <2> QED
    BY <1>0, <2>1, <2>2, <2>3 DEF InService
<1>7. CASE piceoi
  <2>1. enabled' = enabled /\ enabled
    BY <1>0, <1>7 DEF piceoi, mainVars, InService
  <2> QED
    BY <1>7, <2>1, EoiEffect DEF InService, Cascade
<1>8. Later => Interrupt \/ Tick \/ piceoi \/ UNCHANGED <<handler, isr, enabled>>
  BY OutMaskEffect DEF Later, Sleep, Wake, InMask, OutMask, Fault, Raise, intVars, deviceVars, mainVars
<1> QED
  BY <1>1, <1>2, <1>3, <1>4, <1>5, <1>6, <1>7, <1>8, IntSteps

LEMMA SleepKept ==
  ASSUME IntInv, [IntNext]_intVars
  PROVE  SleepCounts'
<1>0. /\ IntTypeOK /\ SleepCounts /\ TICKS \in Nat \ {0}
      /\ exit \in 0 .. TICKS - 1 /\ timerticks \in 0 .. TICKS - 1
      /\ asked \in 0 .. TICKS - 1 /\ slept \in 0 .. TICKS - 1
  BY DevicesAssumption DEF IntInv, IntTypeOK
<1>1. CASE UNCHANGED <<slept, asked, exit, timerticks>> /\ (state' = "sleep" => state = "sleep")
  BY <1>0, <1>1 DEF SleepCounts
<1>2. CASE FillIdt \/ InByte \/ OutByte \/ EnableInterrupts \/ StoreOffset
  BY <1>1, <1>2 DEF FillIdt, InByte, OutByte, EnableInterrupts, StoreOffset, timeVars
<1>3. ASSUME NEW ticks \in Sleeps, Sleep(ticks) PROVE SleepCounts'
  <2>1. /\ ticks \in 0 .. TICKS - 1 /\ asked' = ticks /\ slept' = 0
        /\ timerticks' = timerticks /\ exit' = (timerticks + ticks) % TICKS
    BY <1>3, DevicesAssumption DEF Sleep
  <2>2. exit' = IF timerticks + ticks < TICKS THEN timerticks + ticks
                ELSE timerticks + ticks - TICKS
    BY <1>0, <2>1
  <2> QED
    BY <1>0, <2>1, <2>2 DEF SleepCounts
<1>4. CASE Wake
  BY <1>4 DEF Wake, SleepCounts
<1>5. CASE Tick
  <2>1. /\ UNCHANGED <<asked, exit, state>>
        /\ timerticks' = (timerticks + 1) % TICKS
        /\ slept' = IF state = "sleep" /\ slept < asked THEN slept + 1 ELSE slept
    BY <1>5 DEF Tick, mainVars, Increment
  <2>2. timerticks + 1 < TICKS => timerticks' = timerticks + 1
    BY <1>0, <2>1
  <2> QED
    BY <1>0, <2>1, <2>2 DEF SleepCounts
<1>6. Later => \/ \E ticks \in Sleeps : Sleep(ticks)
               \/ Wake
               \/ Tick
               \/ UNCHANGED <<slept, asked, exit, timerticks>> /\ (state' = "sleep" => state = "sleep")
  BY InterruptEffect DEF Later, InMask, OutMask, Fault, Raise, piceoi, intVars, mainVars, timeVars
<1> QED
  BY <1>1, <1>2, <1>3, <1>4, <1>5, <1>6, IntSteps

-----------------------------------------------------------------------------
(* The conjunction of all parts is inductive.                              *)
THEOREM IntInvariant == IntSpec => []IntInv
<1>1. IntInit => IntInv
  <2> SUFFICES ASSUME IntInit PROVE IntInv
    OBVIOUS
  <2> DEFINE start == [pic \in Pics |-> {line % 8 : line \in masked \cap LinesOf(pic)}]
  <2>1. masked \in SUBSET Lines /\ mask = start
    BY DevicesAssumption DEF IntInit
  <2>2. \A pic \in Pics : start[pic] \in SUBSET (0 .. 7) /\ Right(pic, start[pic])
    <3> SUFFICES ASSUME NEW pic \in Pics
                 PROVE  start[pic] \in SUBSET (0 .. 7) /\ Right(pic, start[pic])
      OBVIOUS
    <3>1. start[pic] = {line % 8 : line \in masked \cap LinesOf(pic)}
      OBVIOUS
    <3>2. start[pic] \in SUBSET (0 .. 7)
      BY <2>1, <3>1 DEF Lines
    <3>3. Right(pic, start[pic])
      BY <3>1, BitsDiffer DEF Right
    <3> QED
      BY <3>2, <3>3
  <2>3. start \in [Pics -> SUBSET (0 .. 7)]
    BY <2>2
  <2> HIDE DEF start
  <2>4. pc = 1 /\ state = "init" /\ change = NoChange
    BY DEF IntInit
  <2>5. mask \in [Pics -> SUBSET (0 .. 7)] /\ pc \in 1 .. Len(Program) + 1
    BY <2>1, <2>3, <2>4, ProgramSteps
  <2>6. /\ change \in [line : Lines, on : BOOLEAN]
        /\ TICKS \in Nat \ {0} /\ {3} \in SUBSET (0 .. 7) /\ NoGate \in Nat \X Nat \X Nat
    BY <2>4, DevicesAssumption DEF NoChange, Lines, NoGate
  <2>7. IntTypeOK
    <3>1. /\ base = [pic \in Pics |-> {3}] /\ expect = [pic \in Pics |-> "mask"]
          /\ saved = [pic \in Pics |-> {}]
          /\ idt = [v \in Vectors |-> NoGate] /\ enabled = FALSE
          /\ irr = {} /\ isr = {}
          /\ timerticks = 0 /\ exit = 0 /\ asked = 0 /\ slept = 0
      BY DEF IntInit
    <3>2. base \in [Pics -> SUBSET (0 .. 7)] /\ saved \in [Pics -> SUBSET (0 .. 7)]
      BY <2>6, <3>1
    <3>3. expect \in [Pics -> {"vector", "cascade", "mode", "mask"}] /\ enabled \in BOOLEAN
      BY <3>1
    <3>4. idt \in [Vectors -> Nat \X Nat \X Nat]
      BY <2>6, <3>1
    <3>5. timerticks \in 0 .. TICKS - 1 /\ exit \in 0 .. TICKS - 1
          /\ asked \in 0 .. TICKS - 1 /\ slept \in 0 .. TICKS - 1
      BY <2>6, <3>1
    <3> QED
      BY <2>1, <2>4, <2>5, <2>6, <3>1, <3>2, <3>3, <3>4, <3>5 DEF IntTypeOK
  <2>8. MasksKnown
    <3>1. Right("PIC1", mask["PIC1"]) /\ Right("PIC2", mask["PIC2"])
      BY <2>1, <2>2 DEF Pics
    <3> QED
      BY <2>4, <3>1 DEF MasksKnown
  <2> QED
    BY <2>7, <2>8 DEF IntInit, IntInv, InPhase, Programmed, GatesSet, InService, SleepCounts, Pics
<1>2. IntInv /\ [IntNext]_intVars => IntInv'
  BY TypeKept, PhaseKept, ProgrammedKept, MasksKept, GatesKept, ServiceKept, SleepKept DEF IntInv
<1> QED
  BY <1>1, <1>2, PTL DEF IntSpec

(* Registers, table and counters keep their types: a mask is a byte, the   *)
(* counter stays below its modulus and only devices make requests.         *)
THEOREM IntTypeCorrect == IntSpec => []IntTypeOK
<1>1. IntInv => IntTypeOK
  BY DEF IntInv
<1> QED
  BY <1>1, IntInvariant, PTL

(* No interrupt, at whatever step of init_idt, remappic and addirq it      *)
(* comes, runs anything but an interrupt handler                           *)
(* (InterruptsReachHandlers).                                              *)
THEOREM HandlersAlwaysReached == IntSpec => []InterruptsReachHandlers
<1>1. IntInv => InterruptsReachHandlers
  <2> SUFFICES ASSUME InService PROVE "stuck" \notin ToSet(handler)
    BY DEF IntInv, InterruptsReachHandlers
  <2>1. /\ ToSet(<<"eoi1">>) = {"eoi1"}
        /\ ToSet(<<"tick", "eoi1">>) = {"tick", "eoi1"}
        /\ ToSet(<<"eoi2", "eoi1">>) = {"eoi2", "eoi1"}
    BY DEF ToSet
  <2>2. "stuck" \notin ToSet(<<>>)
    BY DEF ToSet
  <2> QED
    BY <2>1, <2>2 DEF InService
<1> QED
  BY <1>1, IntInvariant, PTL

(* When no handler runs nothing is in service at either controller         *)
(* (AllAcknowledged).                                                      *)
THEOREM EveryInterruptAcknowledged == IntSpec => []AllAcknowledged
<1>1. IntInv => AllAcknowledged
  BY DEF IntInv, InService, AllAcknowledged
<1> QED
  BY <1>1, IntInvariant, PTL

(* From sti on both controllers have their vectors and the masks that      *)
(* firmware and kernel want (MasksSurvive).                                *)
THEOREM MasksAlwaysSurvive == IntSpec => []MasksSurvive
<1>1. IntInv => MasksSurvive
  <2> SUFFICES ASSUME IntInv, enabled
               PROVE  /\ base = [pic \in Pics |-> IF pic = "PIC1" THEN {5} ELSE {3, 5}]
                      /\ \A line \in Lines \ {0} : line % 8 \in mask[PicOf(line)] <=> line \in masked
                      /\ state \in {"idle", "sleep", "mask"} => 0 \notin mask["PIC1"]
    BY DEF MasksSurvive
  <2>1. /\ pc \in 15 .. 20
        /\ base["PIC1"] = {5} /\ base["PIC2"] = {3, 5}
    BY ProgramSteps DEF IntInv, IntTypeOK, InPhase, Programmed
  <2>2. base = [pic \in Pics |-> IF pic = "PIC1" THEN {5} ELSE {3, 5}]
    BY <2>1 DEF IntInv, IntTypeOK, Pics
  <2>3. ASSUME NEW line \in Lines \ {0}
        PROVE  line % 8 \in mask[PicOf(line)] <=> line \in masked
    <3>1. PicOf(line) \in {"PIC1", "PIC2"} /\ line \in LinesOf(PicOf(line)) \ {0}
      BY DEF PicOf, LinesOf
    <3> QED
      BY <2>1, <3>1 DEF IntInv, MasksKnown, Right
  <2>4. state \in {"idle", "sleep", "mask"} => 0 \notin mask["PIC1"]
    BY DEF IntInv, InPhase, MasksKnown
  <2> QED
    BY <2>2, <2>3, <2>4
<1> QED
  BY <1>1, IntInvariant, PTL

(* sleep does not return before the counter has gained the ticks it was    *)
(* asked for, unless its exit has wrapped around (SleepsLongEnough).       *)
THEOREM SleepNeverShort == IntSpec => SleepsLongEnough
<1>1. IntInv /\ [IntNext]_intVars
        => [state = "sleep" /\ state' = "idle" => slept >= asked \/ exit < asked]_intVars
  <2> SUFFICES ASSUME IntInv, [IntNext]_intVars, state = "sleep", state' = "idle"
               PROVE  slept >= asked \/ exit < asked
    OBVIOUS
  <2>1. /\ exit \in Int /\ timerticks \in Int /\ asked \in Int /\ slept \in Int
        /\ SleepCounts
    BY DevicesAssumption DEF IntInv, IntTypeOK
  <2>2. Wake
    <3>1. ~FillIdt /\ ~InByte /\ ~EnableInterrupts /\ ~StoreOffset
      BY DEF FillIdt, InByte, EnableInterrupts, StoreOffset
    <3>2. ~OutByte
      <4>1. IntTypeOK /\ pc = 20
        BY DEF IntInv, InPhase
      <4>2. OutByte => pc # 20
        BY <4>1, InitSteps
      <4> QED
        BY <4>1, <4>2
    <3>3. Later => Wake
      BY InterruptEffect DEF Later, Sleep, InMask, OutMask, Fault, Raise, Tick, piceoi, intVars, mainVars
    <3> QED
      BY <3>1, <3>2, <3>3, IntSteps
  <2>3. timerticks >= exit
    BY <2>2 DEF Wake, Due
  <2> QED
    BY <2>1, <2>3 DEF SleepCounts
<1> QED
  BY <1>1, IntInvariant, PTL DEF IntSpec, SleepsLongEnough
=============================================================================
