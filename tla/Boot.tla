-------------------------------- MODULE Boot --------------------------------
(***************************************************************************)
(* The boot, from kernel_entry to the 'sti' of kernel_main(): the .bss,    *)
(* the GDT and the segment registers, the PICs one outb() at a time, the   *)
(* IDT and the handlers; then what an interrupt finds.  Devices raise IRQs *)
(* all along.  The dialogue of mouse_init() is in Ps2.                     *)
(***************************************************************************)
EXTENDS Integers, Sequences

CONSTANTS
  DeviceIrqs,   \* the IRQs that devices raise during the boot and after it
  BootMasks,    \* the interrupt masks the firmware may have left in a PIC,
  BootOffsets,  \* the vectors of their first lines,
  BootServed,   \* and the sets of IRQs in service
  CascadeChecked \* does the slave answer to the number of ICW3 only, as an 8259A
                 \* does, or is it wired to line 2, as QEMU's is?

ASSUME BootAssumption ==
  /\ DeviceIrqs \subseteq 0 .. 15
  /\ BootMasks \subseteq 0 .. 255 /\ BootOffsets \subseteq 0 .. 255
  /\ BootServed \subseteq SUBSET (0 .. 15)
  /\ CascadeChecked \in BOOLEAN

VARIABLES
  pc,                        \* the step of the boot
  interrupts,                \* the interrupt flag
  gdt, gdtr, segments,       \* the table, its register, what each segment loaded
  pic, requested, in_service,  \* the PICs "master" and "slave", and the IRQs
  idt, idt_loaded, handlers, \* the gates, 'lidt' done, the registered handlers
  served                     \* the last IRQ taken, with the handler it ran

cpuVars == <<interrupts, segments, gdtr, idt_loaded>>
picVars == <<pic, requested, in_service>>
vars == <<pc, cpuVars, gdt, picVars, idt, handlers, served>>

HasBit(byte, bit) == (byte \div 2^bit) % 2 = 1

-----------------------------------------------------------------------------
(* The GDT.  Addresses and limits are the four bytes of a word, low first. *)

ADDRESS_MIN == <<0, 0, 0, 0>>
ADDRESS_MAX == <<255, 255, 255, 255>>

KERNEL_CODE == 8    \* the offsets, or selectors
KERNEL_DATA == 16
KERNEL_STACK == 24
GDT_ENTRIES == 7    \* quadwords reserved by gdt.asm

PRESENT     == 128
PRIVILEGE_3 == 96
DESCRIPTOR  == 16
EXECUTABLE  == 8
READ_WRITE  == 2

set_entry(base, limit, access, granularity) ==
  [base_low |-> <<base[1], base[2]>>, base_middle |-> base[3], base_high |-> base[4],
   limit_low |-> <<limit[1], limit[2]>>,
   granularity |-> (limit[3] % 16) + 16 * (granularity \div 16), access |-> access]

Segment(access) == set_entry(ADDRESS_MIN, ADDRESS_MAX, DESCRIPTOR + PRESENT + access, 207)

GdtEntries ==
  <<set_entry(ADDRESS_MIN, ADDRESS_MIN, 0, 0),
    Segment(EXECUTABLE + READ_WRITE), Segment(READ_WRITE), Segment(READ_WRITE),
    Segment(PRIVILEGE_3 + EXECUTABLE + READ_WRITE),
    Segment(PRIVILEGE_3 + READ_WRITE), Segment(PRIVILEGE_3 + READ_WRITE)>>

ZeroEntry == set_entry(ADDRESS_MIN, ADDRESS_MIN, 0, 0)

\* Bug variant: the limit of the register counts entries, not bytes.
EntriesLimit == GDT_ENTRIES - 1
GdtLimit     == GDT_ENTRIES * 8 - 1

\* What the CPU reads in the descriptor of a selector.
Descriptor(selector) == gdt[selector \div 8 + 1]
InLimit(selector)    == selector > 0 /\ selector + 7 <= gdtr

Flat(entry) ==
  /\ entry.base_low = <<0, 0>> /\ entry.base_middle = 0 /\ entry.base_high = 0
  /\ entry.limit_low = <<255, 255>> /\ entry.granularity = 15 + 64 + 128
IsPresent(entry)    == HasBit(entry.access, 7) /\ HasBit(entry.access, 4)
IsExecutable(entry) == HasBit(entry.access, 3)
IsWritable(entry)   == ~HasBit(entry.access, 3) /\ HasBit(entry.access, 1)
Privilege(entry)    == (entry.access \div 32) % 4

-----------------------------------------------------------------------------
(* The PICs *)

Chips == {"master", "slave"}

\* Command port 0x20 or 0xA0, data port 0x21 or 0xA1.
Outb(chip, port, byte) == [op |-> "outb", chip |-> chip, port |-> port, byte |-> byte]

ICW1 == 16 + 1      \* initialization, ICW4 follows
MASTER_VECTOR == 32 \* ICW2
SLAVE_VECTOR  == 40
ICW3_MASTER == 2^2  \* one bit for each line with a slave; a slave takes a number
ICW3_SLAVE  == 2^2
ICW4 == 1           \* 8086 mode

\* The mask that leaves some lines of a PIC open.
Disabled(line, open) == IF line \in open THEN 0 ELSE 2^line
Imr(open) == Disabled(0, open) + Disabled(1, open) + Disabled(2, open) + Disabled(3, open)
               + Disabled(4, open) + Disabled(5, open) + Disabled(6, open) + Disabled(7, open)

\* Bug variants: the PICs keep the vectors of the firmware, or mask the mouse.
FirmwareOffsets == <<Outb("master", "data", 8), Outb("slave", "data", 112)>>
Offsets == <<Outb("master", "data", MASTER_VECTOR), Outb("slave", "data", SLAVE_VECTOR)>>

\* IRQ1 and IRQ2 are open on the master, IRQ12 on the slave.
MouseMasked == <<Outb("master", "data", Imr({1, 2})), Outb("slave", "data", Imr({}))>>
Masks       == <<Outb("master", "data", Imr({1, 2})), Outb("slave", "data", Imr({4}))>>

RemapPic == <<Outb("master", "command", ICW1), Outb("slave", "command", ICW1)>>
              \o Offsets
              \o <<Outb("master", "data", ICW3_MASTER), Outb("slave", "data", ICW3_SLAVE),
                   Outb("master", "data", ICW4), Outb("slave", "data", ICW4)>>
              \o Masks

\* A PIC with one more byte: after ICW1, three words come on the data port,
\* later ones there are the mask.
PicTakes(chip, port, byte) ==
  IF port = "command" THEN [pic[chip] EXCEPT !.next = "icw2", !.mask = 0]
  ELSE CASE pic[chip].next = "icw2" -> [pic[chip] EXCEPT !.next = "icw3", !.offset = byte]
         [] pic[chip].next = "icw3" -> [pic[chip] EXCEPT !.next = "icw4", !.cascade = byte]
         [] pic[chip].next = "icw4" -> [pic[chip] EXCEPT !.next = "mask", !.mode = byte]
         [] OTHER                   -> [pic[chip] EXCEPT !.mask = byte]

ChipOf(irq) == IF irq < 8 THEN "master" ELSE "slave"
IrqsOf(chip) == IF chip = "master" THEN 0 .. 7 ELSE 8 .. 15

\* Is the line open, through both PICs for an IRQ of the slave?
Open(irq) == /\ ~HasBit(pic[ChipOf(irq)].mask, irq % 8)
             /\ irq >= 8 => ~HasBit(pic["master"].mask, 2)

\* On an IRQ of the slave the master calls number 2, and the slave of that
\* number is to give the vector.
SlaveAnswers ==
  CascadeChecked => HasBit(pic["master"].cascade, 2) /\ pic["slave"].cascade % 8 = 2
Answered(irq) == irq < 8 \/ SlaveAnswers

\* What the CPU may read as the vector: anything, when no PIC gives it.
VectorOf(irq)   == pic[ChipOf(irq)].offset + (irq % 8)
VectorsRead(irq) == IF Answered(irq) THEN {VectorOf(irq)} ELSE 0 .. 255

-----------------------------------------------------------------------------
(* The IDT *)

EXCEPTION_COUNT == 20
PIC_OFFSET      == 32
Vectors == 0 .. 63   \* the vectors of the IDT that matter here, of 256

\* Where the linker puts the stub of a vector.
StubAddress(vector) == 1048576 + 131 * vector

NoGate  == [base_low |-> 0, base_high |-> 0, selector |-> 0, flags |-> 0]
Garbage == [base_low |-> 1, base_high |-> 1, selector |-> 1, flags |-> 128]

Flags32 == 142   \* present, privilege 0, 32-bit interrupt gate

set_interrupt_descriptor(handler) ==
  [base_low |-> handler % 65536, base_high |-> (handler \div 65536) % 65536,
   selector |-> KERNEL_CODE, flags |-> Flags32]

GateVectors == (0 .. EXCEPTION_COUNT - 1) \cup (PIC_OFFSET .. PIC_OFFSET + 15)

\* The gate as the CPU decodes it.
TargetOf(gate) == gate.base_low + 65536 * gate.base_high
IsInterruptGate(gate) == gate.flags = 128 + 14
Works(gate) ==
  /\ IsInterruptGate(gate)
  /\ \E vector \in Vectors : TargetOf(gate) = StubAddress(vector)
  /\ InLimit(gate.selector)
  /\ LET entry == Descriptor(gate.selector)
     IN  IsPresent(entry) /\ IsExecutable(entry) /\ Privilege(entry) = 0 /\ Flat(entry)

-----------------------------------------------------------------------------
(* The boot, step by step *)

Do(op)                        == [op |-> op]
LoadSegments(names, selector) == [op |-> "segment", names |-> names, selector |-> selector]
Register(vector, handler)     == [op |-> "register", vector |-> vector, handler |-> handler]

Entry == <<Do("cli"), Do("zero_bss")>>

RegisterGdt == <<Do("gdt"), Do("lgdt"), LoadSegments({"cs"}, KERNEL_CODE),
                 LoadSegments({"ds", "es", "fs", "gs"}, KERNEL_DATA),
                 LoadSegments({"ss"}, KERNEL_STACK)>>

Handlers == <<Register(PIC_OFFSET + 1, "keyboard"), Register(PIC_OFFSET + 12, "mouse")>>

\* Bug variant: interrupts enabled before the IDT is loaded.
EarlySti == <<Do("sti"), Do("lidt")>>
Last     == <<Do("lidt"), Do("sti")>>

Program == Entry \o RegisterGdt \o RemapPic \o <<Do("gates")>> \o Handlers \o Last
Step    == Program[pc]
At(op)  == pc <= Len(Program) /\ Step.op = op
Running == pc > Len(Program)

Cli == /\ At("cli") /\ interrupts' = FALSE
       /\ UNCHANGED <<segments, gdtr, idt_loaded, gdt, picVars, idt, handlers>>

\* The IDT and the handlers are static: they are in the .bss.
ZeroBss == /\ At("zero_bss")
           /\ idt' = [vector \in Vectors |-> NoGate]
           /\ handlers' = [vector \in Vectors |-> "null"]
           /\ UNCHANGED <<cpuVars, gdt, picVars>>

WriteGdt == /\ At("gdt") /\ gdt' = GdtEntries
            /\ UNCHANGED <<cpuVars, picVars, idt, handlers>>

Lgdt == /\ At("lgdt") /\ gdtr' = GdtLimit
        /\ UNCHANGED <<interrupts, segments, idt_loaded, gdt, picVars, idt, handlers>>

\* A segment register keeps the descriptor it was loaded with.
LoadSegment ==
  /\ At("segment")
  /\ segments' = [name \in DOMAIN segments |->
                    IF name \in Step.names
                    THEN IF InLimit(Step.selector) THEN Descriptor(Step.selector) ELSE ZeroEntry
                    ELSE segments[name]]
  /\ UNCHANGED <<interrupts, gdtr, idt_loaded, gdt, picVars, idt, handlers>>

\* ICW1 also forgets the requests and the lines in service.
WritePic ==
  /\ At("outb")
  /\ pic' = [pic EXCEPT ![Step.chip] = PicTakes(Step.chip, Step.port, Step.byte)]
  /\ LET forgotten == IF Step.port = "command" THEN IrqsOf(Step.chip) ELSE {}
     IN  requested' = requested \ forgotten /\ in_service' = in_service \ forgotten
  /\ UNCHANGED <<cpuVars, gdt, idt, handlers>>

InterruptInit ==
  /\ At("gates")
  /\ idt' = [vector \in Vectors |-> IF vector \in GateVectors
                                    THEN set_interrupt_descriptor(StubAddress(vector))
                                    ELSE idt[vector]]
  /\ UNCHANGED <<cpuVars, gdt, picVars, handlers>>

InterruptRegister ==
  /\ At("register") /\ handlers' = [handlers EXCEPT ![Step.vector] = Step.handler]
  /\ UNCHANGED <<cpuVars, gdt, picVars, idt>>

Lidt == /\ At("lidt") /\ idt_loaded' = TRUE
        /\ UNCHANGED <<interrupts, segments, gdtr, gdt, picVars, idt, handlers>>

Sti == /\ At("sti") /\ interrupts' = TRUE
       /\ UNCHANGED <<segments, gdtr, idt_loaded, gdt, picVars, idt, handlers>>

KernelMain ==
  /\ \/ Cli \/ ZeroBss \/ WriteGdt \/ Lgdt \/ LoadSegment \/ WritePic
     \/ InterruptInit \/ InterruptRegister \/ Lidt \/ Sti
  /\ pc' = pc + 1
  /\ UNCHANGED served

-----------------------------------------------------------------------------
(* Interrupts *)

RaiseIrq ==
  /\ \E irq \in DeviceIrqs \ requested : requested' = requested \cup {irq}
  /\ UNCHANGED <<pc, cpuVars, gdt, pic, in_service, idt, handlers, served>>

\* The IRQs the PICs may deliver: those raised and open, and the spurious ones.
Deliverable == IF in_service = {} THEN {irq \in requested : Open(irq)} \cup {7, 15} ELSE {}

\* The handler that the gate, the stub and interrupt_dispatch() lead to.  It is
\* acknowledged before it returns.
HandlerOf(vector) == IF vector \in Vectors THEN handlers[vector] ELSE "garbage"

TakeIrq ==
  /\ interrupts
  /\ \E irq \in Deliverable : \E vector \in VectorsRead(irq) :
       /\ served' = [irq |-> irq, vector |-> vector, handler |-> HandlerOf(vector),
                     works |-> idt_loaded /\ vector \in Vectors /\ Works(idt[vector])
                                 /\ TargetOf(idt[vector]) = StubAddress(vector)]
       /\ requested' = requested \ {irq}
  /\ UNCHANGED <<pc, cpuVars, gdt, pic, in_service, idt, handlers>>

-----------------------------------------------------------------------------
(* The specification *)

\* GRUB's flat segments, the firmware's vectors, memory that is not zeroed.
Init ==
  /\ pc = 1
  /\ interrupts = FALSE
  /\ gdt = [i \in 1 .. GDT_ENTRIES |-> ZeroEntry]
  /\ gdtr = 0
  /\ segments = [name \in {"cs", "ds", "es", "fs", "gs", "ss"} |-> ZeroEntry]
  /\ pic \in [Chips -> [next : {"mask"}, mask : BootMasks, cascade : {0}, mode : {0},
                       offset : BootOffsets]]
  /\ requested = {} /\ in_service \in BootServed
  /\ idt = [vector \in Vectors |-> Garbage]
  /\ idt_loaded = FALSE
  /\ handlers = [vector \in Vectors |-> "garbage"]
  /\ served = [irq |-> -1, vector |-> -1, handler |-> "null", works |-> TRUE]

Next == KernelMain \/ RaiseIrq \/ TakeIrq

Spec == Init /\ [][Next]_vars

-----------------------------------------------------------------------------
(* Properties *)

\* An interrupt always finds a loaded IDT, an interrupt gate to the stub of its
\* own vector and a selector of flat kernel code, and runs the handler of its
\* device, or none (main.c 32-43, interrupt.c 18-35, idt.c, gdt.c, pic.c).
RightHandler ==
  /\ served.works
  /\ served.irq >= 0 =>
       served.handler = CASE served.irq = 1 -> "keyboard" [] served.irq = 12 -> "mouse" [] OTHER -> "null"

\* No line of a PIC has the vector of an exception: the PICs are remapped before
\* interrupts are enabled (pic.h 27-31).
NoExceptionVector == interrupts => \A irq \in 0 .. 15 : VectorOf(irq) >= 32

\* The segment registers hold flat segments: code in CS, writable data of
\* privilege 0 in the others; the user's segments are those of privilege 3
\* (gdt.c 24-118).
SegmentsRight ==
  Running =>
    /\ \A name \in DOMAIN segments : Flat(segments[name]) /\ Privilege(segments[name]) = 0
    /\ IsExecutable(segments["cs"])
    /\ \A name \in DOMAIN segments \ {"cs"} : IsWritable(segments[name])
    /\ \A i \in 5 .. 7 : Flat(gdt[i]) /\ IsPresent(gdt[i]) /\ Privilege(gdt[i]) = 3

\* The lines of the keyboard and of the mouse are open and a PIC gives their
\* vectors, no other line is open, and nothing the firmware left in service keeps
\* them waiting (pic.c 6-13, 24-31, 43-67).
OnlyTwoDevices ==
  interrupts => /\ {irq \in 0 .. 15 : Open(irq)} \ {2} = {1, 12}
                /\ Answered(1) /\ Answered(12) /\ in_service = {}

\* "Slave PIC IRQs 0x28 - 0x2F (IRQ12 mouse = 0x2C)" (src/README.md 136): the
\* IRQ of the mouse comes on the vector of its line (pic.c 16-31, pic.h 103-110).
MouseVector == served.irq = 12 => served.vector = SLAVE_VECTOR + 4
=============================================================================
