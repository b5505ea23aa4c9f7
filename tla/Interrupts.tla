----------------------------- MODULE Interrupts -----------------------------
(***************************************************************************)
(* Interrupts and the timer: init_idt and addirq of cpu/ints/IDT.c, the    *)
(* two interrupt controllers as PIC.c drives them, and PIT.c with the      *)
(* handler of PIT.S.  (In PIT.S the assembler takes ';' for the end of an  *)
(* empty statement, so that the lines behind it are part of the handler.)  *)
(*                                                                         *)
(* The kernel runs Program one port access or store at a time, then calls  *)
(* sleep now and then.  Devices raise their lines whenever they like; the  *)
(* processor lets a handler in between any two steps of the kernel once    *)
(* interrupts are enabled.  A byte on a port is the set of its bits.       *)
(***************************************************************************)
EXTENDS Integers, Sequences, FiniteSets, FiniteSetsExt, SequencesExt

CONSTANTS
  Devices,        \* lines that devices raise; the timer's line is 0
  Fickle,         \* the ones that may fall again before they are served
  FirmwareMasks,  \* masks the firmware may leave: lines that are masked
  Offset,         \* [handler]: its address as <<offset1, offset2, offset3>>
  TICKS,          \* timerticks counts modulo TICKS (2^64)
  Sleeps,         \* arguments of sleep
  Maskable        \* arguments of maskirq and unmaskirq

VARIABLES
  mask, base, expect,  \* [controller]: mask register, first vector, next word
  irr, isr,            \* lines requested, lines in service
  idt,                 \* [vector]: the address in its gate
  enabled,             \* the interrupt flag of the processor
  handler,             \* what is left of the running handler
  pc,                  \* the next step of Program
  saved,               \* mm, sm of remappic, the byte that unmaskirq reads; empty later
  timerticks, exit,    \* the counter, and the local variable of sleep
  state,               \* "init", "idle", "sleep", "mask" or "halted"
  change,              \* the argument of maskirq or unmaskirq
  masked,              \* history: lines that firmware and kernel have masked
  asked, slept         \* history: the argument of sleep, ticks since the call

deviceVars == <<mask, base, expect, irr, isr>>
mainVars == <<idt, enabled, pc, saved, exit, state, asked, change>>
timeVars == <<timerticks, exit, masked, asked, slept, change>>
intVars == <<deviceVars, idt, enabled, handler, pc, saved, state, timeVars>>

Pics == {"PIC1", "PIC2"}
Lines == 0 .. 15
Cascade == 2
Vectors == 0 .. 47
PicOf(line) == IF line < 8 THEN "PIC1" ELSE "PIC2"
LinesOf(pic) == {line \in Lines : PicOf(line) = pic}
Handlers == {"fault", "nop_master", "nop_slave", "pitirq"}
NoGate == <<0, 0, 0>>
NoChange == [line |-> 0, on |-> FALSE]

ASSUME DevicesAssumption ==
  /\ Devices \subseteq Lines \ {Cascade}
  /\ Fickle \subseteq Devices \ {0}
  /\ FirmwareMasks \subseteq SUBSET Lines
  /\ TICKS \in Nat \ {0}
  /\ Sleeps \subseteq 0 .. TICKS - 1
  /\ Maskable \subseteq Lines \ {0}

(* The handlers have distinct addresses in one block of 64K: the kernel's  *)
(* text starts at 0x1000000000 and is shorter than that.                   *)
ASSUME OffsetAssumption ==
  /\ Offset \in [Handlers -> Nat \X Nat \X Nat]
  /\ \A g, h \in Handlers : /\ Offset[g] # NoGate
                            /\ Offset[g][2] = Offset[h][2]
                            /\ Offset[g][3] = Offset[h][3]
                            /\ Offset[g][1] = Offset[h][1] => g = h

-----------------------------------------------------------------------------
(* The kernel's steps up to the end of init_timer.                         *)
Fill == [op |-> "fill"]
In(pic) == [op |-> "inb", pic |-> pic]
Cmd(pic) == [op |-> "cmd", pic |-> pic]
Data(pic, bits) == [op |-> "data", pic |-> pic, bits |-> bits]
Restore(pic) == [op |-> "restore", pic |-> pic]
Sti == [op |-> "sti"]
Store(part) == [op |-> "store", part |-> part]
Unmask == [op |-> "unmask"]

(* Mutant: the last word of the initialisation is missing.                 *)
remappic_no_mode ==
  <<In("PIC1"), In("PIC2"), Cmd("PIC1"), Cmd("PIC2"),
    Data("PIC1", {5}), Data("PIC2", {3, 5}), Data("PIC1", {2}), Data("PIC2", {1}),
    Restore("PIC1"), Restore("PIC2")>>

remappic ==
  <<In("PIC1"), In("PIC2"), Cmd("PIC1"), Cmd("PIC2"),
    Data("PIC1", {5}), Data("PIC2", {3, 5}), Data("PIC1", {2}), Data("PIC2", {1}),
    Data("PIC1", {0}), Data("PIC2", {0}), Restore("PIC1"), Restore("PIC2")>>

init_timer == <<Store(1), Store(2), Store(3), In("PIC1"), Unmask>>

Program == <<Fill>> \o remappic \o <<Sti>> \o init_timer

At(op) == pc <= Len(Program) /\ Program[pc].op = op
Running == handler = <<>> /\ state # "halted"
Word == Program[pc]

(* Mutant: the loops of init_idt end too early.                            *)
Gate_short(v) == IF v < 32 THEN Offset["fault"]
                 ELSE IF v < 40 THEN Offset["nop_master"]
                 ELSE NoGate

(* init_idt fills the table before lidt and sti make it count.             *)
Gate(v) == IF v < 32 THEN Offset["fault"]
           ELSE IF v < 40 THEN Offset["nop_master"]
           ELSE Offset["nop_slave"]

FillIdt ==
  /\ Running /\ At("fill")
  /\ idt' = [v \in Vectors |-> Gate(v)]
  /\ pc' = pc + 1
  /\ UNCHANGED <<deviceVars, enabled, handler, saved, state, timeVars>>

InByte ==
  /\ Running /\ At("inb")
  /\ saved' = [saved EXCEPT ![Word.pic] = mask[Word.pic]]
  /\ pc' = pc + 1
  /\ UNCHANGED <<deviceVars, idt, enabled, handler, state, timeVars>>

(* The controller's side of outb: the command 0x11 starts initialisation,  *)
(* which clears mask and requests; the next three words on the data port   *)
(* are vector, cascade and mode, every later one is the mask.              *)
StartWords(pic) ==
  /\ mask' = [mask EXCEPT ![pic] = {}]
  /\ expect' = [expect EXCEPT ![pic] = "vector"]
  /\ irr' = irr \ LinesOf(pic)
  /\ isr' = isr \ LinesOf(pic)
  /\ UNCHANGED base

TakeWord(pic, bits) ==
  /\ base' = IF expect[pic] = "vector" THEN [base EXCEPT ![pic] = bits] ELSE base
  /\ mask' = IF expect[pic] = "mask" THEN [mask EXCEPT ![pic] = bits] ELSE mask
  /\ expect' = [expect EXCEPT ![pic] = CASE @ = "vector" -> "cascade"
                                         [] @ = "cascade" -> "mode"
                                         [] OTHER -> "mask"]
  /\ UNCHANGED <<irr, isr>>

OutByte ==
  /\ Running
  /\ \/ At("cmd") /\ StartWords(Word.pic)
     \/ At("data") /\ TakeWord(Word.pic, Word.bits)
     \/ At("restore") /\ TakeWord(Word.pic, saved[Word.pic])
     \/ At("unmask") /\ TakeWord("PIC1", saved["PIC1"] \ {0})
  /\ pc' = pc + 1
  /\ state' = IF pc = Len(Program) THEN "idle" ELSE state
  /\ saved' = IF pc = Len(Program) THEN [p \in Pics |-> {}] ELSE saved
  /\ UNCHANGED <<idt, enabled, handler, timeVars>>

EnableInterrupts ==
  /\ Running /\ At("sti")
  /\ enabled' = TRUE
  /\ pc' = pc + 1
  /\ UNCHANGED <<deviceVars, idt, handler, saved, state, timeVars>>

(* addirq(0x20, pitirq) stores the three parts of the address one by one,  *)
(* with interrupts enabled.                                                *)
StoreOffset ==
  /\ Running /\ At("store")
  /\ idt' = [idt EXCEPT ![32][Word.part] = Offset["pitirq"][Word.part]]
  /\ pc' = pc + 1
  /\ UNCHANGED <<deviceVars, enabled, handler, saved, state, timeVars>>

InitStep == FillIdt \/ InByte \/ OutByte \/ EnableInterrupts \/ StoreOffset

-----------------------------------------------------------------------------
(* Mutant: sleep leaves its loop one tick early.                           *)
Due_early == timerticks + 1 >= exit

(* sleep                                                                   *)
Due == timerticks >= exit

Sleep(ticks) ==
  /\ Running /\ state = "idle"
  /\ state' = "sleep"
  /\ exit' = (timerticks + ticks) % TICKS
  /\ asked' = ticks
  /\ slept' = 0
  /\ UNCHANGED <<deviceVars, idt, enabled, handler, pc, saved, timerticks, masked, change>>

Wake ==
  /\ Running /\ state = "sleep"
  /\ Due
  /\ state' = "idle"
  /\ exit' = 0 /\ asked' = 0 /\ slept' = 0
  /\ UNCHANGED <<deviceVars, idt, enabled, handler, pc, saved, timerticks, masked, change>>

(* maskirq and unmaskirq, with interrupts enabled between their two port   *)
(* accesses.                                                               *)
InMask(line, on) ==
  /\ Running /\ state = "idle"
  /\ state' = "mask"
  /\ saved' = [saved EXCEPT ![PicOf(line)] = mask[PicOf(line)]]
  /\ change' = [line |-> line, on |-> on]
  /\ UNCHANGED <<deviceVars, idt, enabled, handler, pc, timerticks, exit, masked, asked, slept>>

OutMask ==
  /\ Running /\ state = "mask"
  /\ LET pic == PicOf(change.line)
     IN  TakeWord(pic, IF change.on THEN saved[pic] \cup {change.line % 8}
                       ELSE saved[pic] \ {change.line % 8})
  /\ masked' = IF change.on THEN masked \cup {change.line} ELSE masked \ {change.line}
  /\ state' = "idle"
  /\ change' = NoChange /\ saved' = [p \in Pics |-> {}]
  /\ UNCHANGED <<idt, enabled, handler, pc, timerticks, exit, asked, slept>>

(* An exception, in the kernel and after sti: its handler never returns,   *)
(* but it is entered by a trap gate and halts with interrupts enabled.     *)
Fault ==
  /\ Running /\ enabled
  /\ state' = "halted"
  /\ UNCHANGED <<deviceVars, idt, enabled, handler, pc, saved, timeVars>>

-----------------------------------------------------------------------------
(* Devices and controllers.  The counter would have to run once around     *)
(* between two looks of sleep at it to pass its exit unseen; the timer     *)
(* waits before it does.                                                   *)
Counted == timerticks + Cardinality({s \in ToSet(handler) : s = "tick"})

Raise(line) ==
  /\ line \notin irr
  /\ line = 0 /\ state = "sleep" => Counted < TICKS - 1
  /\ irr' = irr \cup {line}
  /\ UNCHANGED <<mask, base, expect, isr, mainVars, handler, timerticks, masked, slept>>

(* The request a controller passes on: its first one that is neither       *)
(* masked nor below a line in service.  The second controller is line 2 of *)
(* the first.                                                              *)
Pending(pic) == {line \in irr \cap LinesOf(pic) : line % 8 \notin mask[pic]}
Served(pic) == isr \cap LinesOf(pic)
Eligible(pic, lines) == {line \in lines : \A s \in Served(pic) : line < s}
SlaveRequests == Eligible("PIC2", Pending("PIC2"))
MasterRequests ==
  Eligible("PIC1", Pending("PIC1") \cup {c \in {Cascade} \ mask["PIC1"] : SlaveRequests # {}})

(* Of the vector word the upper five bits count, below them is the line.   *)
Vector(line) ==
  LET digit(bit, weight) == IF bit \in base[PicOf(line)] THEN weight ELSE 0
  IN  digit(7, 128) + digit(6, 64) + digit(5, 32) + digit(4, 16) + digit(3, 8) + (line % 8)

(* Mutant: a line of the second controller is not ended at the first.      *)
Acknowledge_one(isslave) == IF isslave THEN <<"eoi2">> ELSE <<"eoi1">>

(* What a handler does until iretq; an address that is none is lost.       *)
Acknowledge(isslave) == IF isslave THEN <<"eoi2", "eoi1">> ELSE <<"eoi1">>
Steps(h) == CASE h = "nop_master" -> Acknowledge(FALSE)
              [] h = "nop_slave" -> Acknowledge(TRUE)
              [] h = "pitirq" -> <<"tick">> \o Acknowledge(FALSE)
              [] OTHER -> <<"stuck">>
HandlerAt(address) == {h \in Handlers : Offset[h] = address}
Enter(line) ==
  handler' = IF HandlerAt(idt[Vector(line)]) = {}
               THEN <<"stuck">>
               ELSE Steps(CHOOSE h \in HandlerAt(idt[Vector(line)]) : TRUE)

Interruptible == enabled /\ handler = <<>> /\ MasterRequests # {}

(* The processor acknowledges the first request.  A line that has fallen   *)
(* by then is answered as line 7 of its controller and not in service.     *)
Interrupt ==
  /\ Interruptible
  /\ LET first == Min(MasterRequests)
         line == IF first = Cascade THEN Min(SlaveRequests) ELSE first
         cascaded == {c \in {Cascade} : first = Cascade}
     IN  /\ irr' = irr \ {line}
         /\ \/ Enter(line) /\ isr' = isr \cup cascaded \cup {line}
            \/ /\ line \in Fickle
               /\ Enter(IF first = Cascade THEN 15 ELSE 7) /\ isr' = isr \cup cascaded
  /\ UNCHANGED <<mask, base, expect, mainVars, timerticks, masked, slept>>

(* Mutants: the counter is wider than its variable; it does not count.     *)
Increment_wide(n) == n + 1
Increment_not(n) == n

Increment(n) == (n + 1) % TICKS

(* The handlers: pitirq counts, and piceoi ends the first line in service. *)
EndOf(pic) == IF Served(pic) = {} THEN isr ELSE isr \ {Min(Served(pic))}

Tick ==
  /\ handler # <<>> /\ Head(handler) = "tick"
  /\ timerticks' = Increment(timerticks)
  /\ slept' = IF state = "sleep" /\ slept < asked THEN slept + 1 ELSE slept
  /\ handler' = Tail(handler)
  /\ UNCHANGED <<deviceVars, mainVars, masked>>

piceoi ==
  /\ handler # <<>> /\ Head(handler) \in {"eoi1", "eoi2"}
  /\ isr' = EndOf(IF Head(handler) = "eoi1" THEN "PIC1" ELSE "PIC2")
  /\ handler' = Tail(handler)
  /\ UNCHANGED <<mask, base, expect, irr, mainVars, timerticks, masked, slept>>

-----------------------------------------------------------------------------
(* The firmware hands over with some lines masked and with interrupts off. *)
(* The latter is an assumption: init_idt ends with sti, but no cli comes   *)
(* before it, neither here nor in the bootloader.                          *)
IntInit ==
  /\ masked \in FirmwareMasks
  /\ mask = [pic \in Pics |-> {line % 8 : line \in masked \cap LinesOf(pic)}]
  /\ base = [pic \in Pics |-> {3}]
  /\ expect = [pic \in Pics |-> "mask"]
  /\ irr = {} /\ isr = {}
  /\ idt = [v \in Vectors |-> NoGate]
  /\ enabled = FALSE
  /\ handler = <<>>
  /\ pc = 1
  /\ saved = [pic \in Pics |-> {}]
  /\ timerticks = 0 /\ exit = 0
  /\ state = "init"
  /\ asked = 0 /\ slept = 0 /\ change = NoChange

IntNext ==
  \/ InitStep
  \/ \E ticks \in Sleeps : Sleep(ticks)
  \/ Wake
  \/ \E line \in Maskable, on \in BOOLEAN : InMask(line, on)
  \/ OutMask
  \/ Fault
  \/ \E line \in Devices : Raise(line)
  \/ Interrupt
  \/ Tick
  \/ piceoi

(* The processor runs the handlers to their end, the devices are slow      *)
(* enough for the kernel to run between two of them, and the timer has     *)
(* been programmed to raise its line again and again.                      *)
IntSpec ==
  /\ IntInit
  /\ [][IntNext]_intVars
  /\ SF_intVars(InitStep \/ Wake \/ OutMask)
  /\ WF_intVars(Interrupt)
  /\ WF_intVars(Tick \/ piceoi)
  /\ WF_intVars(Raise(0))

-----------------------------------------------------------------------------
(* Properties                                                              *)

IntTypeOK ==
  /\ mask \in [Pics -> SUBSET (0 .. 7)] /\ saved \in [Pics -> SUBSET (0 .. 7)]
  /\ base \in [Pics -> SUBSET (0 .. 7)]
  /\ expect \in [Pics -> {"vector", "cascade", "mode", "mask"}]
  /\ irr \in SUBSET Devices /\ isr \in SUBSET Lines
  /\ idt \in [Vectors -> Nat \X Nat \X Nat]
  /\ enabled \in BOOLEAN
  /\ pc \in 1 .. Len(Program) + 1
  /\ timerticks \in 0 .. TICKS - 1 /\ exit \in 0 .. TICKS - 1
  /\ asked \in 0 .. TICKS - 1 /\ slept \in 0 .. TICKS - 1
  /\ state \in {"init", "idle", "sleep", "mask", "halted"}
  /\ change \in [line : Lines, on : BOOLEAN]
  /\ masked \in SUBSET Lines

(* Whenever an interrupt comes, while addirq rewrites the timer's gate or  *)
(* right after sti, it runs one of the interrupt handlers, never half an   *)
(* address, an empty gate or an exception's handler.  It rests on two      *)
(* things.  Interrupts are off from hand-over to the sti of init_idt       *)
(* (IntInit): firmware that leaves them on, as it may, for the bootloader  *)
(* goes on when ExitBootServices fails, has its own gates and vectors      *)
(* until lidt and remappic, which no code here sets.  And the handlers are *)
(* in one block of 64K (OffsetAssumption), so that half an address is      *)
(* the whole of one.                                                       *)
InterruptsReachHandlers == "stuck" \notin ToSet(handler)

(* Every interrupt is acknowledged at each controller that has it in       *)
(* service: when a handler has returned nothing is left in service that    *)
(* would block the lines below it, though a spurious interrupt, which no   *)
(* controller has in service, is acknowledged as well.                     *)
AllAcknowledged == handler = <<>> => isr = {}

(* remappic gives both controllers their vectors and the masks that the    *)
(* firmware left; init_timer then changes the mask of the timer only, and  *)
(* maskirq and unmaskirq that of their line, whatever interrupts come in   *)
(* between.                                                                *)
MasksSurvive ==
  enabled =>
    /\ base = [pic \in Pics |-> IF pic = "PIC1" THEN {5} ELSE {3, 5}]
    /\ \A line \in Lines \ {0} : line % 8 \in mask[PicOf(line)] <=> line \in masked
    /\ state \in {"idle", "sleep", "mask"} => 0 \notin mask["PIC1"]

(* sleep does not return before the ticks it was asked for, unless the sum *)
(* of counter and argument has wrapped around.                             *)
SleepsLongEnough ==
  [][state = "sleep" /\ state' = "idle" => slept >= asked \/ exit < asked]_intVars

(* sleep returns, whatever the other devices do, unless the kernel faults. *)
SleepEnds == state = "sleep" ~> state \in {"idle", "halted"}
=============================================================================
