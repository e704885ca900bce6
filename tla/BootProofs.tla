------------------------------ MODULE BootProofs ------------------------------
(***************************************************************************)
(* Proofs about Boot, for any devices and whatever the firmware has left   *)
(* in the PICs.                                                            *)
(***************************************************************************)
EXTENDS Boot, TLAPS

-----------------------------------------------------------------------------
(* The inductive invariant: what is ready, by the steps that are done *)

SegmentNames == {"cs", "ds", "es", "fs", "gs", "ss"}

PicType == [next : {"icw2", "icw3", "icw4", "mask"}, mask : 0 .. 255,
            cascade : 0 .. 255, mode : 0 .. 255, offset : 0 .. 255]

TypeInv ==
  /\ pc \in 1 .. 23
  /\ interrupts \in BOOLEAN
  /\ DOMAIN segments = SegmentNames
  /\ pic \in [Chips -> PicType]
  /\ requested \subseteq DeviceIrqs /\ in_service \subseteq 0 .. 15
  /\ DOMAIN idt = Vectors /\ DOMAIN handlers = Vectors

\* Nothing is taken before the last step.
FlagOff == pc <= 22 => ~interrupts

CodeSegment == Segment(EXECUTABLE + READ_WRITE)
DataSegment == Segment(READ_WRITE)

SegmentsLoaded ==
  /\ pc > 3 => gdt = GdtEntries
  /\ pc > 4 => gdtr = GdtLimit
  /\ pc > 5 => segments["cs"] = CodeSegment
  /\ pc > 6 => \A name \in {"ds", "es", "fs", "gs"} : segments[name] = DataSegment
  /\ pc > 7 => segments["ss"] = DataSegment

\* The words of a PIC are every other step, from the first one on.
Remapped(chip, first, offset, cascade, mask) ==
  /\ pc - first \in {1, 2} => pic[chip].next = "icw2"
  /\ pc - first \in {3, 4} => pic[chip].next = "icw3"
  /\ pc - first \in {5, 6} => pic[chip].next = "icw4"
  /\ pc - first > 6 => pic[chip].next = "mask"
  /\ pc - first > 2 => pic[chip].offset = offset
  /\ pc - first > 4 => pic[chip].cascade = cascade
  /\ pc - first > 8 => pic[chip].mask = mask

PicsRemapped ==
  /\ Remapped("master", 8, MASTER_VECTOR, ICW3_MASTER, Imr({1, 2}))
  /\ Remapped("slave", 9, SLAVE_VECTOR, ICW3_SLAVE, Imr({4}))
  /\ pc > 8 => in_service \cap IrqsOf("master") = {}
  /\ pc > 9 => in_service \cap IrqsOf("slave") = {}

Registered(done) ==
  [vector \in Vectors |-> CASE vector = 33 /\ done > 19 -> "keyboard"
                            [] vector = 44 /\ done > 20 -> "mouse"
                            [] OTHER -> "null"]

GatesReady ==
  /\ pc > 2 => handlers = Registered(pc)
  /\ pc > 18 => \A vector \in GateVectors :
                  idt[vector] = set_interrupt_descriptor(StubAddress(vector))
  /\ pc > 21 => idt_loaded

\* What the PIC of the line gives the vector of is right: all of it, with a slave
\* that is wired to the master.
AnsweredRight == served.irq < 8 \/ ~CascadeChecked => RightHandler

IInv == TypeInv /\ FlagOff /\ SegmentsLoaded /\ PicsRemapped /\ GatesReady /\ AnsweredRight

-----------------------------------------------------------------------------
(* The program *)

LEMMA ProgramSteps ==
  /\ Len(Program) = 22
  /\ Program[1] = Do("cli") /\ Program[2] = Do("zero_bss")
  /\ Program[3] = Do("gdt") /\ Program[4] = Do("lgdt")
  /\ Program[5] = LoadSegments({"cs"}, KERNEL_CODE)
  /\ Program[6] = LoadSegments({"ds", "es", "fs", "gs"}, KERNEL_DATA)
  /\ Program[7] = LoadSegments({"ss"}, KERNEL_STACK)
  /\ Program[8] = Outb("master", "command", ICW1)
  /\ Program[9] = Outb("slave", "command", ICW1)
  /\ Program[10] = Outb("master", "data", MASTER_VECTOR)
  /\ Program[11] = Outb("slave", "data", SLAVE_VECTOR)
  /\ Program[12] = Outb("master", "data", ICW3_MASTER)
  /\ Program[13] = Outb("slave", "data", ICW3_SLAVE)
  /\ Program[14] = Outb("master", "data", ICW4)
  /\ Program[15] = Outb("slave", "data", ICW4)
  /\ Program[16] = Outb("master", "data", Imr({1, 2}))
  /\ Program[17] = Outb("slave", "data", Imr({4}))
  /\ Program[18] = Do("gates")
  /\ Program[19] = Register(PIC_OFFSET + 1, "keyboard")
  /\ Program[20] = Register(PIC_OFFSET + 12, "mouse")
  /\ Program[21] = Do("lidt") /\ Program[22] = Do("sti")
BY DEF Program, Entry, RegisterGdt, RemapPic, Offsets, Masks, Handlers, Last

\* Which action is at each step, and what it is given.
LEMMA Places ==
  ASSUME TypeInv
  PROVE  /\ At("cli") => pc = 1
         /\ At("zero_bss") => pc = 2
         /\ At("gdt") => pc = 3
         /\ At("lgdt") => pc = 4
         /\ At("segment") => pc \in 5 .. 7
         /\ At("outb") => pc \in 8 .. 17
         /\ At("gates") => pc = 18
         /\ At("register") => pc \in 19 .. 20
         /\ At("lidt") => pc = 21
         /\ At("sti") => pc = 22
<1>1. /\ Program[1].op = "cli" /\ Program[2].op = "zero_bss"
      /\ Program[3].op = "gdt" /\ Program[4].op = "lgdt"
      /\ \A i \in {5, 6, 7} : Program[i].op = "segment"
      /\ \A i \in {8, 9, 10, 11, 12} : Program[i].op = "outb"
      /\ \A i \in {13, 14, 15, 16, 17} : Program[i].op = "outb"
      /\ Program[18].op = "gates"
      /\ \A i \in {19, 20} : Program[i].op = "register"
      /\ Program[21].op = "lidt" /\ Program[22].op = "sti"
  BY ProgramSteps DEF Do, LoadSegments, Outb, Register
<1>2. CASE pc \in 1 .. 7
  BY <1>1, <1>2, ProgramSteps DEF At, Step
<1>3. CASE pc \in 8 .. 17
  <2>1. pc \in {8, 9, 10, 11, 12} \/ pc \in {13, 14, 15, 16, 17}
    BY <1>3
  <2>2. Step.op = "outb"
    BY <1>1, <2>1 DEF Step
  <2> QED BY <1>3, <2>2 DEF At
<1>4. CASE pc \in 18 .. 22
  BY <1>1, <1>4, ProgramSteps DEF At, Step
<1>5. CASE pc = 23
  BY <1>5, ProgramSteps DEF At
<1> QED BY <1>2, <1>3, <1>4, <1>5 DEF TypeInv

-----------------------------------------------------------------------------
(* The PICs *)

LEMMA PowersOfTwo ==
  2^0 = 1 /\ 2^1 = 2 /\ 2^2 = 4 /\ 2^3 = 8 /\ 2^4 = 16 /\ 2^5 = 32 /\ 2^6 = 64 /\ 2^7 = 128
BY SMT

LEMMA TheMasks == Imr({1, 2}) = 249 /\ Imr({4}) = 239 /\ ICW3_MASTER = 4 /\ ICW3_SLAVE = 4
BY PowersOfTwo DEF Imr, Disabled, ICW3_MASTER, ICW3_SLAVE

\* The write that is next for a PIC.
Word(chip, first, offset, cascade, mask) ==
  \/ Step.chip # chip /\ pc - first \in {-1, 1, 3, 5, 7, 9}
  \/ Step.chip = chip /\ pc = first /\ Step.port = "command"
  \/ Step.chip = chip /\ pc = first + 2 /\ Step.port = "data" /\ Step.byte = offset
  \/ Step.chip = chip /\ pc = first + 4 /\ Step.port = "data" /\ Step.byte = cascade
  \/ Step.chip = chip /\ pc = first + 6 /\ Step.port = "data" /\ Step.byte = ICW4
  \/ Step.chip = chip /\ pc = first + 8 /\ Step.port = "data" /\ Step.byte = mask

LEMMA WriteAt ==
  ASSUME TypeInv, At("outb")
  PROVE  /\ Word("master", 8, MASTER_VECTOR, ICW3_MASTER, Imr({1, 2}))
         /\ Word("slave", 9, SLAVE_VECTOR, ICW3_SLAVE, Imr({4}))
         /\ Step.chip \in Chips /\ Step.byte \in 0 .. 255
         /\ Step.port = IF pc \in {8, 9} THEN "command" ELSE "data"
         /\ Step.chip = IF pc \in {8, 10, 12, 14, 16} THEN "master" ELSE "slave"
<1>1. pc \in {8, 9, 10, 11, 12} \/ pc \in {13, 14, 15, 16, 17}
  BY Places
<1>2. Step = Program[pc]
  BY DEF Step
<1>3. CASE pc \in {8, 10, 12, 14, 16}
  BY <1>2, <1>3, ProgramSteps, TheMasks
    DEF Word, Outb, Chips, ICW1, MASTER_VECTOR, ICW4
<1>4. CASE pc \in {9, 11, 13, 15, 17}
  BY <1>2, <1>4, ProgramSteps, TheMasks, SMTT(30)
    DEF Word, Outb, Chips, ICW1, SLAVE_VECTOR, ICW4
<1> QED BY <1>1, <1>3, <1>4

LEMMA PicStep ==
  ASSUME TypeInv, WritePic
  PROVE  /\ \A chip \in Chips : pic'[chip] = IF chip = Step.chip
                                          THEN PicTakes(chip, Step.port, Step.byte)
                                          ELSE pic[chip]
         /\ pic' \in [Chips -> PicType]
<1>1. Step.chip \in Chips /\ Step.byte \in 0 .. 255 /\ pic[Step.chip] \in PicType
  <2>1. Step.chip \in Chips /\ Step.byte \in 0 .. 255
    BY WriteAt DEF WritePic
  <2> QED BY <2>1 DEF TypeInv
<1>2. PicTakes(Step.chip, Step.port, Step.byte) \in PicType
  <2> DEFINE p == pic[Step.chip]
  <2> HIDE DEF p
  <2>1. \A byte \in 0 .. 255 : [p EXCEPT !.next = "icw2", !.mask = byte] \in PicType
    BY <1>1 DEF PicType, p
  <2>2. [p EXCEPT !.next = "icw2", !.mask = 0] \in PicType
    <3>1. 0 \in 0 .. 255
      OBVIOUS
    <3> QED BY <2>1, <3>1, Zenon
  <2>3. [p EXCEPT !.next = "icw3", !.offset = Step.byte] \in PicType
    BY <1>1 DEF PicType, p
  <2>4. [p EXCEPT !.next = "icw4", !.cascade = Step.byte] \in PicType
    BY <1>1 DEF PicType, p
  <2>5. [p EXCEPT !.next = "mask", !.mode = Step.byte] \in PicType
    BY <1>1 DEF PicType, p
  <2>6. [p EXCEPT !.mask = Step.byte] \in PicType
    BY <1>1 DEF PicType, p
  <2> QED BY <2>2, <2>3, <2>4, <2>5, <2>6 DEF PicTakes, p
<1>3. pic' = [pic EXCEPT ![Step.chip] = PicTakes(Step.chip, Step.port, Step.byte)]
  BY DEF WritePic
<1>4. pic \in [Chips -> PicType]
  BY DEF TypeInv
<1> QED BY <1>1, <1>2, <1>3, <1>4

\* Each word goes where the one before it has brought the PIC.
LEMMA RemappedStep ==
  ASSUME TypeInv, WritePic, pc' = pc + 1, NEW chip \in Chips, NEW first \in {8, 9},
         NEW offset, NEW cascade, NEW mask,
         Word(chip, first, offset, cascade, mask), Remapped(chip, first, offset, cascade, mask)
  PROVE  Remapped(chip, first, offset, cascade, mask)'
<1>1. pc \in 8 .. 17
  BY Places DEF WritePic
<1>2. pic'[chip] = IF chip = Step.chip THEN PicTakes(chip, Step.port, Step.byte) ELSE pic[chip]
  BY PicStep
<1>3. pic[chip] \in PicType
  BY DEF TypeInv
<1>4. CASE Step.chip # chip
  BY <1>1, <1>2, <1>4 DEF Word, Remapped
<1>5. CASE Step.chip = chip
  BY <1>1, <1>2, <1>3, <1>5, SMTT(30) DEF Word, Remapped, PicTakes, PicType
<1> QED BY <1>4, <1>5

-----------------------------------------------------------------------------
(* The invariant is kept *)

LEMMA InitInv == Init => IInv
<1> SUFFICES ASSUME Init PROVE IInv
  OBVIOUS
<1>1. TypeInv
  <2>1. pic \in [Chips -> PicType]
    <3>1. BootMasks \subseteq 0 .. 255 /\ {0} \subseteq 0 .. 255 /\ BootOffsets \subseteq 0 .. 255
      BY BootAssumption
    <3> DEFINE Left == [next : {"mask"}, mask : BootMasks, cascade : {0}, mode : {0},
                        offset : BootOffsets]
    <3>2. ASSUME NEW left \in Left PROVE left \in PicType
      <4>1. left = [next |-> "mask", mask |-> left.mask, cascade |-> 0, mode |-> 0,
                    offset |-> left.offset]
        OBVIOUS
      <4>2. left.mask \in 0 .. 255 /\ left.offset \in 0 .. 255 /\ 0 \in 0 .. 255
        BY <3>1
      <4> QED BY <4>1, <4>2 DEF PicType
    <3>3. pic \in [Chips -> Left]
      BY DEF Init
    <3> HIDE DEF Left
    <3> QED BY <3>2, <3>3
  <2>2. requested \subseteq DeviceIrqs /\ in_service \subseteq 0 .. 15
    BY BootAssumption DEF Init
  <2>3. pc \in 1 .. 23 /\ interrupts \in BOOLEAN
    BY 1 \in 1 .. 23 DEF Init
  <2>4. DOMAIN segments = SegmentNames /\ DOMAIN idt = Vectors /\ DOMAIN handlers = Vectors
    BY DEF Init, SegmentNames
  <2> QED BY <2>1, <2>2, <2>3, <2>4 DEF TypeInv
<1>2. PicsRemapped
  BY DEF Init, PicsRemapped, Remapped
<1> QED BY <1>1, <1>2 DEF Init, IInv, FlagOff, SegmentsLoaded, GatesReady, AnsweredRight, RightHandler

LEMMA MainStep ==
  ASSUME TypeInv, KernelMain
  PROVE  pc \in 1 .. 22 /\ pc' = pc + 1 /\ UNCHANGED served
BY Places DEF KernelMain, Cli, ZeroBss, WriteGdt, Lgdt, LoadSegment, WritePic, InterruptInit,
              InterruptRegister, Lidt, Sti

LEMMA TypeNext == ASSUME TypeInv, [Next]_vars PROVE TypeInv'
<1>1. CASE KernelMain
  <2>1. pc' \in 1 .. 23
    BY <1>1, MainStep
  <2>2. CASE WritePic
    BY <2>1, <2>2, PicStep DEF WritePic, TypeInv, cpuVars
  <2>3. CASE Cli \/ Sti \/ Lgdt \/ Lidt \/ WriteGdt
    BY <2>1, <2>3 DEF Cli, Sti, Lgdt, Lidt, WriteGdt, TypeInv, cpuVars, picVars
  <2>4. CASE ZeroBss \/ LoadSegment \/ InterruptInit \/ InterruptRegister
    BY <2>1, <2>4 DEF ZeroBss, LoadSegment, InterruptInit, InterruptRegister, TypeInv,
                      cpuVars, picVars
  <2> QED BY <1>1, <2>2, <2>3, <2>4 DEF KernelMain
<1>2. CASE RaiseIrq \/ TakeIrq \/ UNCHANGED vars
  BY <1>2 DEF RaiseIrq, TakeIrq, vars, TypeInv, cpuVars, picVars
<1> QED BY <1>1, <1>2 DEF Next

LEMMA FlagNext == ASSUME TypeInv, FlagOff, [Next]_vars PROVE FlagOff'
<1>1. CASE KernelMain
  <2>1. CASE Sti
    BY <1>1, <2>1, Places DEF KernelMain, Sti, FlagOff
  <2>2. CASE Cli
    BY <2>2 DEF Cli, FlagOff
  <2>3. CASE ~Sti /\ ~Cli
    BY <1>1, <2>3, MainStep
      DEF KernelMain, ZeroBss, WriteGdt, Lgdt, LoadSegment, WritePic, InterruptInit,
          InterruptRegister, Lidt, FlagOff, cpuVars, TypeInv
  <2> QED BY <2>1, <2>2, <2>3
<1>2. CASE RaiseIrq \/ TakeIrq \/ UNCHANGED vars
  BY <1>2 DEF RaiseIrq, TakeIrq, vars, FlagOff, cpuVars
<1> QED BY <1>1, <1>2 DEF Next

\* A selector the kernel loads is in the table, and is that of its segment.
LEMMA Selectors ==
  ASSUME TypeInv, SegmentsLoaded, pc > 4
  PROVE  /\ InLimit(KERNEL_CODE) /\ Descriptor(KERNEL_CODE) = CodeSegment
         /\ InLimit(KERNEL_DATA) /\ Descriptor(KERNEL_DATA) = DataSegment
         /\ InLimit(KERNEL_STACK) /\ Descriptor(KERNEL_STACK) = DataSegment
<1>1. gdt = GdtEntries /\ gdtr = 55
  BY DEF SegmentsLoaded, TypeInv, GdtLimit, GDT_ENTRIES
<1>2. /\ GdtEntries[2] = CodeSegment /\ GdtEntries[3] = DataSegment
      /\ GdtEntries[4] = DataSegment
  BY DEF GdtEntries, CodeSegment, DataSegment
<1> QED BY <1>1, <1>2 DEF InLimit, Descriptor, KERNEL_CODE, KERNEL_DATA, KERNEL_STACK

LEMMA SegmentsNext == ASSUME TypeInv, SegmentsLoaded, [Next]_vars PROVE SegmentsLoaded'
<1>1. CASE KernelMain
  <2>1. CASE LoadSegment
    <3>1. pc \in 5 .. 7 /\ pc' = pc + 1 /\ Step = Program[pc]
      BY <1>1, <2>1, Places, MainStep DEF LoadSegment, Step
    <3>2. gdt' = gdt /\ gdtr' = gdtr /\ DOMAIN segments = SegmentNames
      BY <2>1 DEF LoadSegment, TypeInv
    <3>3. pc > 4
      BY <3>1
    <3>4. CASE pc = 5
      <4>1. Step.names = {"cs"} /\ Step.selector = KERNEL_CODE
        BY <3>1, <3>4, ProgramSteps DEF LoadSegments
      <4>2. segments'["cs"] = CodeSegment
        BY <2>1, <3>2, <3>3, <4>1, Selectors DEF LoadSegment, SegmentNames
      <4> QED BY <3>1, <3>2, <3>4, <4>2 DEF SegmentsLoaded
    <3>5. CASE pc = 6
      <4>1. Step.names = {"ds", "es", "fs", "gs"} /\ Step.selector = KERNEL_DATA
        BY <3>1, <3>5, ProgramSteps DEF LoadSegments
      <4>2. /\ segments'["cs"] = segments["cs"]
            /\ \A name \in {"ds", "es", "fs", "gs"} : segments'[name] = DataSegment
        BY <2>1, <3>2, <3>3, <4>1, Selectors DEF LoadSegment, SegmentNames
      <4> QED BY <3>1, <3>2, <3>5, <4>2 DEF SegmentsLoaded
    <3>6. CASE pc = 7
      <4>1. Step.names = {"ss"} /\ Step.selector = KERNEL_STACK
        BY <3>1, <3>6, ProgramSteps DEF LoadSegments
      <4>2. /\ segments'["cs"] = segments["cs"] /\ segments'["ss"] = DataSegment
            /\ \A name \in {"ds", "es", "fs", "gs"} : segments'[name] = segments[name]
        BY <2>1, <3>2, <3>3, <4>1, Selectors DEF LoadSegment, SegmentNames
      <4> QED BY <3>1, <3>2, <3>6, <4>2 DEF SegmentsLoaded
    <3> QED BY <3>1, <3>4, <3>5, <3>6
  <2>2. CASE WriteGdt
    BY <1>1, <2>2, Places, MainStep DEF WriteGdt, SegmentsLoaded
  <2>3. CASE Lgdt
    BY <1>1, <2>3, Places, MainStep DEF Lgdt, SegmentsLoaded
  <2>4. CASE ~LoadSegment /\ ~WriteGdt /\ ~Lgdt
    <3>1. UNCHANGED <<gdt, gdtr, segments>>
      BY <1>1, <2>4 DEF KernelMain, Cli, ZeroBss, WritePic, InterruptInit, InterruptRegister,
                        Lidt, Sti, cpuVars
    <3>2. pc \notin 3 .. 7
      <4>1. ~At("gdt") /\ ~At("lgdt") /\ ~At("segment")
        BY <1>1, <2>4, Places DEF KernelMain, Cli, ZeroBss, WritePic, InterruptInit,
                                  InterruptRegister, Lidt, Sti, At
      <4> QED BY <4>1, ProgramSteps DEF At, Step, Do, LoadSegments
    <3> QED BY <1>1, <3>1, <3>2, MainStep DEF SegmentsLoaded, TypeInv
  <2> QED BY <2>1, <2>2, <2>3, <2>4
<1>2. CASE RaiseIrq \/ TakeIrq \/ UNCHANGED vars
  BY <1>2 DEF RaiseIrq, TakeIrq, vars, SegmentsLoaded, cpuVars
<1> QED BY <1>1, <1>2 DEF Next

LEMMA PicsNext == ASSUME TypeInv, PicsRemapped, [Next]_vars PROVE PicsRemapped'
<1>1. CASE WritePic /\ KernelMain
  <2>1. pc \in 8 .. 17 /\ pc' = pc + 1 /\ At("outb")
    BY <1>1, Places, MainStep DEF WritePic
  <2>2. /\ Remapped("master", 8, MASTER_VECTOR, ICW3_MASTER, Imr({1, 2}))'
        /\ Remapped("slave", 9, SLAVE_VECTOR, ICW3_SLAVE, Imr({4}))'
    BY <1>1, <2>1, WriteAt, RemappedStep DEF PicsRemapped, Chips
  <2>3. in_service' = in_service \ IF Step.port = "command" THEN IrqsOf(Step.chip) ELSE {}
    BY <1>1 DEF WritePic
  <2>4. pc = 8 => in_service' \cap IrqsOf("master") = {}
    BY <2>1, <2>3, WriteAt
  <2>5. pc = 9 => in_service' \cap IrqsOf("slave") = {}
    BY <2>1, <2>3, WriteAt
  <2> QED BY <2>1, <2>2, <2>3, <2>4, <2>5 DEF PicsRemapped
<1>2. CASE ~WritePic /\ KernelMain
  <2>1. UNCHANGED <<pic, in_service>>
    BY <1>2 DEF KernelMain, Cli, ZeroBss, WriteGdt, Lgdt, LoadSegment, InterruptInit,
                InterruptRegister, Lidt, Sti, picVars
  <2>2. pc \notin 8 .. 17
    <3>1. ~At("outb")
      BY <1>2, Places DEF KernelMain, Cli, ZeroBss, WriteGdt, Lgdt, LoadSegment, InterruptInit,
                          InterruptRegister, Lidt, Sti, At
    <3>2. pc \in {8, 9, 10, 11, 12} => Program[pc].op = "outb"
      BY ProgramSteps DEF Outb
    <3>3. pc \in {13, 14, 15, 16, 17} => Program[pc].op = "outb"
      BY ProgramSteps DEF Outb
    <3> QED BY <3>1, <3>2, <3>3, ProgramSteps DEF At, Step
  <2>3. pc' = pc + 1 /\ pc \in 1 .. 22
    BY <1>2, MainStep
  <2>4. CASE pc < 8
    BY <2>3, <2>4 DEF PicsRemapped, Remapped
  <2>5. CASE pc > 17
    BY <2>1, <2>3, <2>5 DEF PicsRemapped, Remapped
  <2> QED BY <2>2, <2>3, <2>4, <2>5
<1>3. CASE RaiseIrq \/ TakeIrq \/ UNCHANGED vars
  BY <1>3 DEF RaiseIrq, TakeIrq, vars, PicsRemapped, Remapped, picVars
<1> QED BY <1>1, <1>2, <1>3 DEF Next

LEMMA GatesNext == ASSUME TypeInv, GatesReady, [Next]_vars PROVE GatesReady'
<1>1. CASE KernelMain
  <2>1. pc \in 1 .. 22 /\ pc' = pc + 1
    BY <1>1, MainStep
  <2>2. CASE ZeroBss
    <3>1. pc = 2 /\ handlers' = [vector \in Vectors |-> "null"]
      BY <2>2, Places DEF ZeroBss
    <3> QED BY <2>1, <3>1 DEF GatesReady, Registered
  <2>3. CASE InterruptInit
    <3>1. pc = 18 /\ handlers' = handlers /\ idt_loaded' = idt_loaded
      BY <2>3, Places DEF InterruptInit, cpuVars
    <3>2. \A vector \in GateVectors : vector \in Vectors
      BY DEF GateVectors, Vectors, EXCEPTION_COUNT, PIC_OFFSET
    <3>3. \A vector \in GateVectors : idt'[vector] = set_interrupt_descriptor(StubAddress(vector))
      BY <2>3, <3>2 DEF InterruptInit
    <3>4. Registered(19) = Registered(18)
      BY DEF Registered
    <3> QED BY <2>1, <3>1, <3>3, <3>4 DEF GatesReady
  <2>4. CASE InterruptRegister
    <3>1. /\ pc \in {19, 20} /\ idt' = idt /\ idt_loaded' = idt_loaded
          /\ handlers' = [handlers EXCEPT ![Step.vector] = Step.handler]
      BY <2>4, Places DEF InterruptRegister, cpuVars
    <3>2. pc = 19 => Step.vector = 33 /\ Step.handler = "keyboard"
      BY ProgramSteps DEF Step, Register, PIC_OFFSET
    <3>3. pc = 20 => Step.vector = 44 /\ Step.handler = "mouse"
      BY ProgramSteps DEF Step, Register, PIC_OFFSET
    <3>4. handlers = Registered(pc)
      BY <3>1 DEF GatesReady
    <3>5. 33 \in Vectors /\ 44 \in Vectors
      BY DEF Vectors
    <3>6. pc = 19 => handlers' = Registered(20)
      BY <3>1, <3>2, <3>4, <3>5 DEF Registered
    <3>7. pc = 20 => handlers' = Registered(21)
      BY <3>1, <3>3, <3>4, <3>5 DEF Registered
    <3>8. handlers' = Registered(pc')
      <4>1. pc = 19 => pc' = 20
        BY <2>1
      <4>2. pc = 20 => pc' = 21
        BY <2>1
      <4> QED BY <3>1, <3>6, <3>7, <4>1, <4>2
    <3>9. pc > 18 /\ ~(pc' > 21)
      BY <2>1, <3>1
    <3>10. \A vector \in GateVectors : idt'[vector] = set_interrupt_descriptor(StubAddress(vector))
      BY <3>1, <3>9 DEF GatesReady
    <3> QED BY <3>8, <3>9, <3>10 DEF GatesReady
  <2>5. CASE Lidt
    <3>1. pc = 21 /\ handlers' = handlers /\ idt' = idt /\ idt_loaded'
      BY <2>5, Places DEF Lidt
    <3>2. Registered(22) = Registered(21)
      BY DEF Registered
    <3> QED BY <2>1, <3>1, <3>2 DEF GatesReady
  <2>6. CASE ~ZeroBss /\ ~InterruptInit /\ ~InterruptRegister /\ ~Lidt
    <3>1. UNCHANGED <<handlers, idt, idt_loaded>>
      BY <1>1, <2>6 DEF KernelMain, Cli, WriteGdt, Lgdt, LoadSegment, WritePic, Sti, cpuVars
    <3>2. pc \in 3 .. 17 \cup {1, 22}
      BY <1>1, <2>6, Places DEF KernelMain, Cli, WriteGdt, Lgdt, LoadSegment, WritePic, Sti
    <3>3. pc \in 3 .. 17 \cup {22} => Registered(pc + 1) = Registered(pc)
      BY DEF Registered
    <3> QED BY <2>1, <3>1, <3>2, <3>3 DEF GatesReady
  <2> QED BY <2>2, <2>3, <2>4, <2>5, <2>6
<1>2. CASE RaiseIrq \/ TakeIrq \/ UNCHANGED vars
  BY <1>2 DEF RaiseIrq, TakeIrq, vars, GatesReady, cpuVars
<1> QED BY <1>1, <1>2 DEF Next

-----------------------------------------------------------------------------
(* What an interrupt finds *)

\* The CPU puts together what set_interrupt_descriptor() takes apart.
LEMMA GateRoundTrip ==
  ASSUME NEW vector \in Vectors
  PROVE  TargetOf(set_interrupt_descriptor(StubAddress(vector))) = StubAddress(vector)
<1> DEFINE address == StubAddress(vector)
<1>1. address \in Nat /\ address \div 65536 = 16
  BY SMT DEF StubAddress, Vectors
<1>2. address = 65536 * (address \div 65536) + (address % 65536)
  BY <1>1, SMT
<1>3. 16 % 65536 = 16
  BY SMT
<1> HIDE DEF address
<1> QED BY <1>1, <1>2, <1>3, SMT DEF TargetOf, set_interrupt_descriptor, address

\* The bits of the access bytes of the segments.
LEMMA SegmentBits ==
  /\ CodeSegment.access = 154 /\ DataSegment.access = 146
  /\ HasBit(154, 7) /\ HasBit(154, 4) /\ HasBit(154, 3)
  /\ HasBit(146, 7) /\ HasBit(146, 4) /\ ~HasBit(146, 3) /\ HasBit(146, 1)
  /\ HasBit(250, 7) /\ HasBit(250, 4) /\ HasBit(242, 7) /\ HasBit(242, 4)
<1>1. CodeSegment.access = 154 /\ DataSegment.access = 146
  BY DEF CodeSegment, DataSegment, Segment, set_entry, DESCRIPTOR, PRESENT, EXECUTABLE, READ_WRITE
<1> QED BY <1>1, PowersOfTwo DEF HasBit

LEMMA Segments ==
  /\ Flat(CodeSegment) /\ IsPresent(CodeSegment) /\ IsExecutable(CodeSegment)
  /\ Privilege(CodeSegment) = 0
  /\ Flat(DataSegment) /\ IsPresent(DataSegment) /\ IsWritable(DataSegment)
  /\ Privilege(DataSegment) = 0
<1>1. \A access \in Nat : Flat(Segment(access))
  BY DEF Flat, Segment, set_entry, ADDRESS_MIN, ADDRESS_MAX
<1>2. Flat(CodeSegment) /\ Flat(DataSegment)
  BY <1>1 DEF CodeSegment, DataSegment, EXECUTABLE, READ_WRITE
<1>3. Privilege(CodeSegment) = 0 /\ Privilege(DataSegment) = 0
  BY SegmentBits DEF Privilege
<1> QED BY <1>2, <1>3, SegmentBits DEF IsPresent, IsExecutable, IsWritable

LEMMA GateWorks ==
  ASSUME IInv, pc = 23, NEW vector \in GateVectors
  PROVE  /\ vector \in Vectors /\ idt_loaded
         /\ Works(idt[vector]) /\ TargetOf(idt[vector]) = StubAddress(vector)
<1>1. vector \in Vectors
  BY DEF GateVectors, Vectors, EXCEPTION_COUNT, PIC_OFFSET
<1>2. idt[vector] = set_interrupt_descriptor(StubAddress(vector)) /\ idt_loaded
  BY DEF IInv, GatesReady
<1>3. TargetOf(idt[vector]) = StubAddress(vector)
  BY <1>1, <1>2, GateRoundTrip
<1>4. idt[vector].selector = KERNEL_CODE /\ IsInterruptGate(idt[vector])
  BY <1>2 DEF set_interrupt_descriptor, IsInterruptGate, Flags32
<1>5. InLimit(KERNEL_CODE) /\ Descriptor(KERNEL_CODE) = CodeSegment
  BY Selectors DEF IInv
<1> QED BY <1>1, <1>2, <1>3, <1>4, <1>5, Segments DEF Works

LEMMA PicsReady ==
  ASSUME IInv, pc = 23
  PROVE  /\ pic["master"].offset = 32 /\ pic["slave"].offset = 40
         /\ pic["master"].mask = 249 /\ pic["slave"].mask = 239
         /\ pic["master"].cascade = 4 /\ pic["slave"].cascade = 4
         /\ in_service = {}
<1>1. in_service = {}
  BY DEF IInv, TypeInv, PicsRemapped, IrqsOf
<1>2. Remapped("master", 8, MASTER_VECTOR, ICW3_MASTER, Imr({1, 2}))
  BY DEF IInv, PicsRemapped
<1>3. Remapped("slave", 9, SLAVE_VECTOR, ICW3_SLAVE, Imr({4}))
  BY DEF IInv, PicsRemapped
<1>4. /\ pic["master"].offset = 32 /\ pic["master"].mask = 249 /\ pic["master"].cascade = 4
  BY <1>2, TheMasks DEF Remapped, MASTER_VECTOR
<1>5. /\ pic["slave"].offset = 40 /\ pic["slave"].mask = 239 /\ pic["slave"].cascade = 4
  BY <1>3, TheMasks DEF Remapped, SLAVE_VECTOR
<1> QED BY <1>1, <1>4, <1>5

LEMMA IrqVectors ==
  ASSUME IInv, pc = 23, NEW irq \in 0 .. 15
  PROVE  VectorOf(irq) = 32 + irq /\ VectorOf(irq) \in GateVectors
<1>1. VectorOf(irq) = 32 + irq
  <2>1. CASE irq < 8
    BY <2>1, PicsReady DEF VectorOf, ChipOf
  <2>2. CASE irq >= 8
    <3>1. irq % 8 = irq - 8
      BY <2>2
    <3> QED BY <2>2, <3>1, PicsReady DEF VectorOf, ChipOf
  <2> QED BY <2>1, <2>2
<1> QED BY <1>1 DEF GateVectors, PIC_OFFSET

LEMMA LinesOpen ==
  ASSUME IInv, pc = 23, NEW irq \in 0 .. 15
  PROVE  Open(irq) <=> irq \in {1, 2, 12}
<1>1. /\ HasBit(249, 0) /\ ~HasBit(249, 1) /\ ~HasBit(249, 2) /\ HasBit(249, 3)
      /\ HasBit(249, 4) /\ HasBit(249, 5) /\ HasBit(249, 6) /\ HasBit(249, 7)
  BY PowersOfTwo DEF HasBit
<1>2. /\ HasBit(239, 0) /\ HasBit(239, 1) /\ HasBit(239, 2) /\ HasBit(239, 3)
      /\ ~HasBit(239, 4) /\ HasBit(239, 5) /\ HasBit(239, 6) /\ HasBit(239, 7)
  BY PowersOfTwo DEF HasBit
<1>4. CASE irq < 8
  <2>1. irq \in {0, 1, 2, 3, 4, 5, 6, 7} /\ irq % 8 = irq
    BY <1>4
  <2> QED BY <1>1, <1>4, <2>1, PicsReady DEF Open, ChipOf
<1>5. CASE irq >= 8
  <2>1. irq - 8 \in {0, 1, 2, 3, 4, 5, 6, 7} /\ irq % 8 = irq - 8
    BY <1>5
  <2>2. Open(irq) <=> ~HasBit(239, irq - 8)
    BY <1>1, <1>5, <2>1, PicsReady DEF Open, ChipOf
  <2> QED BY <1>2, <2>1, <2>2
<1> QED BY <1>4, <1>5

LEMMA HandlerNext == ASSUME IInv, [Next]_vars PROVE AnsweredRight'
<1>1. CASE TakeIrq
  <2>1. pc = 23
    BY <1>1 DEF TakeIrq, IInv, FlagOff, TypeInv
  <2>2. PICK irq \in Deliverable : \E vector \in VectorsRead(irq) :
          served' = [irq |-> irq, vector |-> vector, handler |-> HandlerOf(vector),
                     works |-> idt_loaded /\ vector \in Vectors /\ Works(idt[vector])
                                 /\ TargetOf(idt[vector]) = StubAddress(vector)]
    BY <1>1 DEF TakeIrq
  <2>3. PICK vector \in VectorsRead(irq) :
          served' = [irq |-> irq, vector |-> vector, handler |-> HandlerOf(vector),
                     works |-> idt_loaded /\ vector \in Vectors /\ Works(idt[vector])
                                 /\ TargetOf(idt[vector]) = StubAddress(vector)]
    BY <2>2
  <2>4. irq \in 0 .. 15
    <3>1. requested \subseteq 0 .. 15
      BY BootAssumption DEF IInv, TypeInv
    <3>2. irq \in requested \/ irq = 7 \/ irq = 15
      BY <2>2 DEF Deliverable
    <3>3. 7 \in 0 .. 15 /\ 15 \in 0 .. 15
      OBVIOUS
    <3> QED BY <3>1, <3>2, <3>3, Zenon
  <2>5. SUFFICES ASSUME irq < 8 \/ ~CascadeChecked PROVE RightHandler'
    BY <2>3 DEF AnsweredRight
  <2>6. vector = 32 + irq /\ vector \in GateVectors
    BY <2>1, <2>3, <2>4, <2>5, IrqVectors DEF VectorsRead, Answered, SlaveAnswers
  <2>7. served'.works
    BY <2>1, <2>3, <2>6, GateWorks
  <2>8. served'.handler = Registered(23)[32 + irq]
    BY <2>1, <2>3, <2>6, GateWorks DEF HandlerOf, IInv, GatesReady
  <2>9. 32 + irq \in Vectors
    BY <2>4 DEF Vectors
  <2>10. served'.handler = CASE irq = 1 -> "keyboard" [] irq = 12 -> "mouse" [] OTHER -> "null"
    BY <2>4, <2>8, <2>9 DEF Registered
  <2> QED BY <2>3, <2>7, <2>10 DEF RightHandler
<1>2. CASE KernelMain \/ RaiseIrq \/ UNCHANGED vars
  BY <1>2 DEF KernelMain, RaiseIrq, vars, IInv, AnsweredRight, RightHandler
<1> QED BY <1>1, <1>2 DEF Next

-----------------------------------------------------------------------------
(* The theorems *)

LEMMA Inductive == Spec => []IInv
<1>1. IInv /\ [Next]_vars => IInv'
  BY TypeNext, FlagNext, SegmentsNext, PicsNext, GatesNext, HandlerNext DEF IInv
<1> QED BY <1>1, InitInv, PTL DEF Spec

\* With a slave that is wired to the master, every interrupt, spurious ones
\* included, goes through a loaded IDT, the gate of its vector and flat kernel code
\* to the handler of its device, whatever the firmware has left (main.c 32-43,
\* interrupt.c 18-35).
THEOREM RightHandlerRuns == ASSUME ~CascadeChecked PROVE Spec => []RightHandler
<1>1. IInv => RightHandler
  BY DEF IInv, AnsweredRight
<1> QED BY <1>1, Inductive, PTL

\* The IRQs of the master are right whatever slave the computer has: the byte of
\* pic.c 30 does not reach them.
THEOREM MasterHandlersRun == Spec => [](served.irq < 8 => RightHandler)
<1>1. IInv => (served.irq < 8 => RightHandler)
  BY DEF IInv, AnsweredRight
<1> QED BY <1>1, Inductive, PTL

\* Once interrupts are enabled no line has the vector of an exception (pic.h 27-31).
THEOREM VectorsRemapped == Spec => []NoExceptionVector
<1>1. IInv => NoExceptionVector
  <2> SUFFICES ASSUME IInv, interrupts PROVE \A irq \in 0 .. 15 : VectorOf(irq) >= 32
    BY DEF NoExceptionVector
  <2>1. pc = 23
    BY DEF IInv, FlagOff, TypeInv
  <2> QED BY <2>1, IrqVectors
<1> QED BY <1>1, Inductive, PTL

\* The kernel runs with flat segments of privilege 0, and those of the user are
\* present with privilege 3 (gdt.c 24-118).
THEOREM SegmentsAreFlat == Spec => []SegmentsRight
<1>1. IInv => SegmentsRight
  <2> SUFFICES ASSUME IInv, Running PROVE SegmentsRight
    BY DEF SegmentsRight
  <2>1. pc = 23
    BY ProgramSteps DEF Running, IInv, TypeInv
  <2>2. /\ segments["cs"] = CodeSegment
        /\ \A name \in SegmentNames \ {"cs"} : segments[name] = DataSegment
        /\ gdt = GdtEntries
    BY <2>1 DEF IInv, SegmentsLoaded, SegmentNames
  <2>3. DOMAIN segments = SegmentNames
    BY DEF IInv, TypeInv
  <2>4. ASSUME NEW i \in 5 .. 7
        PROVE  Flat(gdt[i]) /\ IsPresent(gdt[i]) /\ Privilege(gdt[i]) = 3
    <3>1. gdt[5] = Segment(PRIVILEGE_3 + EXECUTABLE + READ_WRITE)
      BY <2>2 DEF GdtEntries
    <3>2. gdt[6] = Segment(PRIVILEGE_3 + READ_WRITE) /\ gdt[7] = Segment(PRIVILEGE_3 + READ_WRITE)
      BY <2>2 DEF GdtEntries
    <3>3. gdt[i].access \in {250, 242} /\ Flat(gdt[i])
      BY <3>1, <3>2 DEF Segment, set_entry, Flat, ADDRESS_MIN, ADDRESS_MAX, DESCRIPTOR, PRESENT,
                        EXECUTABLE, READ_WRITE, PRIVILEGE_3
    <3>4. IsPresent(gdt[i])
      BY <3>3, SegmentBits DEF IsPresent
    <3>5. Privilege(gdt[i]) = 3
      BY <3>3 DEF Privilege
    <3> QED BY <3>3, <3>4, <3>5
  <2> QED BY <2>2, <2>3, <2>4, Segments DEF SegmentsRight, SegmentNames
<1> QED BY <1>1, Inductive, PTL

\* With a slave that is wired to the master, once interrupts are enabled only the
\* keyboard and the mouse are listened to, and nothing is left in service (pic.c
\* 6-13, 24-31, 43-67).
THEOREM OnlyKeyboardAndMouse == ASSUME ~CascadeChecked PROVE Spec => []OnlyTwoDevices
<1>1. IInv => OnlyTwoDevices
  <2> SUFFICES ASSUME IInv, interrupts
               PROVE  /\ {irq \in 0 .. 15 : Open(irq)} \ {2} = {1, 12}
                      /\ Answered(1) /\ Answered(12) /\ in_service = {}
    BY DEF OnlyTwoDevices
  <2>1. pc = 23
    BY DEF IInv, FlagOff, TypeInv
  <2>2. \A irq \in 0 .. 15 : Open(irq) <=> irq \in {1, 2, 12}
    BY <2>1, LinesOpen
  <2>3. Answered(1) /\ Answered(12)
    BY DEF Answered, SlaveAnswers
  <2> QED BY <2>1, <2>2, <2>3, PicsReady
<1> QED BY <1>1, Inductive, PTL

\* An 8259A slave that was given 4 for its number (pic.c 30, pic.h 106) never
\* answers the master: the line of the mouse is open, and no PIC gives its vector.
THEOREM MouseNotAnswered ==
  ASSUME CascadeChecked PROVE Spec => [](interrupts => Open(12) /\ ~Answered(12))
<1>1. IInv => (interrupts => Open(12) /\ ~Answered(12))
  <2> SUFFICES ASSUME IInv, interrupts PROVE Open(12) /\ ~Answered(12)
    OBVIOUS
  <2>1. pc = 23
    BY DEF IInv, FlagOff, TypeInv
  <2>2. Open(12)
    BY <2>1, LinesOpen
  <2>3. pic["slave"].cascade % 8 # 2
    BY <2>1, PicsReady
  <2> QED BY <2>2, <2>3 DEF Answered, SlaveAnswers
<1> QED BY <1>1, Inductive, PTL
=============================================================================
