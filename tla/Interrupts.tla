----------------------------- MODULE Interrupts -----------------------------
(***************************************************************************)
(* Interrupts and exceptions as the CPU and the assembly stubs handle      *)
(* them, one instruction at a time: what is on the stack when              *)
(* interrupt_dispatch() runs, what 'iretd' goes back to, and which         *)
(* in-service bits of the two PICs the commands of the dispatcher clear,   *)
(* when exceptions and non-maskable interrupts come on top of IRQs and     *)
(* when an IRQ is spurious.                                                *)
(***************************************************************************)
EXTENDS Naturals, Sequences, FiniteSets

CONSTANTS
  Exceptions,   \* the exception vectors that may be raised
  Irqs,         \* the IRQs that the devices raise
  Spurious,     \* the IRQs the PICs may deliver without a request, 7 and 15
  MainSize,     \* instructions of the interrupted program, run in a loop
  Registers,    \* values of the general registers together
  MaxDepth      \* how many interrupts can be on top of one another

EXCEPTION_COUNT == 20
PIC_OFFSET      == 32
PIC_IRQ_COUNT   == 16
SLAVE_OFFSET    == PIC_OFFSET + 8   \* ICW2_SLAVE_VECTOR_OFFSET

ASSUME InterruptAssumption ==
  /\ Exceptions \subseteq 0 .. EXCEPTION_COUNT - 1
  /\ Irqs \subseteq 0 .. PIC_IRQ_COUNT - 1
  /\ Spurious \subseteq {7, 15}
  /\ MainSize \in 1 .. 99 /\ Registers \subseteq Nat /\ MaxDepth \in Nat

VARIABLES
  eip, interrupts, registers,   \* the CPU: address, interrupt flag, registers
  stack,                        \* its words, the last one at ESP
  requested, in_service,        \* the PICs: IRQs raised, lines being served
  entered                       \* for each interrupt on the stack, what it found

cpuVars == <<eip, interrupts, registers, stack>>
vars    == <<cpuVars, requested, in_service, entered>>

\* The words of the stack.
Word(what, value) == [what |-> what, value |-> value]
Flag == IF interrupts THEN 1 ELSE 0

\* The addresses: the program from 0, the two instructions of the stub of each
\* vector, then the common stub with the dispatcher it calls.
PushCode(vector)   == 100 + vector
PushVector(vector) == 200 + vector
PUSHA      == 301
PUSH_ESP   == 302
HANDLER    == 303
EOI_SLAVE  == 304
EOI_MASTER == 305
DROP_ESP   == 306
POPA       == 307
DROP_CODE  == 308
IRETD      == 309

-----------------------------------------------------------------------------
(* The CPU and the PICs *)

\* The exceptions for which the CPU itself pushes an error code.
PushesErrorCode == {8, 10, 11, 12, 13, 14, 17}

\* The exceptions whose stub counts on it.
\* Bug variant: the alignment check is not one of them.
OldErrorCodes      == {8, 10, 11, 12, 13, 14}
StubsWithErrorCode == {8, 10, 11, 12, 13, 14, 17}

\* exception_stub_table and irq_stub_table.
StubOf(vector) ==
  IF vector \in StubsWithErrorCode THEN PushVector(vector) ELSE PushCode(vector)

\* The CPU goes through an interrupt gate, for an interrupt that put these lines
\* in service.
Enter(vector, lines) ==
  /\ Len(entered) < MaxDepth
  /\ stack' = stack \o <<Word("eflags", Flag), Word("cs", 8), Word("eip", eip)>>
                \o IF vector \in PushesErrorCode THEN <<Word("code", 1)>> ELSE << >>
  /\ interrupts' = FALSE
  /\ eip' = StubOf(vector)
  /\ entered' = Append(entered, [vector |-> vector, eip |-> eip, flag |-> Flag,
                                 registers |-> registers, height |-> Len(stack),
                                 lines |-> lines])
  /\ UNCHANGED registers

\* An exception of the current instruction, or the non-maskable interrupt.
Exception ==
  /\ \E vector \in Exceptions : Enter(vector, {})
  /\ UNCHANGED <<requested, in_service>>

\* The lines of both PICs that one IRQ uses: the slave is behind line 2.
Lines(irq) == IF irq < 8 THEN {irq} ELSE {2, irq}
OnMaster(line) == line < 8

\* No line at least as urgent is in service, on the PICs the IRQ goes through.
Free(irq) == \A line \in Lines(irq) :
               \A other \in in_service : OnMaster(other) = OnMaster(line) => line < other

RaiseIrq ==
  /\ \E irq \in Irqs \ requested : requested' = requested \cup {irq}
  /\ UNCHANGED <<cpuVars, in_service, entered>>

TakeIrq ==
  /\ interrupts
  /\ \E irq \in requested :
       /\ Free(irq)
       /\ requested' = requested \ {irq}
       /\ in_service' = in_service \cup Lines(irq)
       /\ Enter(PIC_OFFSET + irq, Lines(irq))

\* A request that is gone when the CPU answers: the PIC that had it delivers its
\* last line and marks nothing in service there.
TakeSpurious ==
  /\ interrupts
  /\ \E irq \in Spurious :
       /\ Free(irq)
       /\ in_service' = in_service \cup (Lines(irq) \ {irq})
       /\ Enter(PIC_OFFSET + irq, Lines(irq) \ {irq})
  /\ UNCHANGED requested

\* PIC_EOI: the PIC clears the most urgent of its lines in service.
EndOfInterrupt(lines) ==
  in_service' = in_service \ {line \in lines : \A other \in lines : line <= other}

Master == {line \in in_service : OnMaster(line)}
Slave  == in_service \ Master

-----------------------------------------------------------------------------
(* The program, the stubs and the dispatcher *)

Push(words) == stack' = stack \o words
Drop(n)     == stack' = SubSeq(stack, 1, Len(stack) - n)
Top(n)      == stack[Len(stack) - n]

At(address) == eip = address
Goto(address) == eip' = address
Outside == UNCHANGED <<requested, in_service, entered>>

\* The interrupted program: any use of the registers, never of the stack.
Main ==
  /\ eip < MainSize
  /\ Goto((eip + 1) % MainSize)
  /\ registers' \in Registers
  /\ UNCHANGED <<interrupts, stack>> /\ Outside

\* The stub of the vector.
Stub ==
  /\ \E vector \in 0 .. PIC_OFFSET + PIC_IRQ_COUNT - 1 :
       \/ At(PushCode(vector)) /\ Push(<<Word("code", 0)>>) /\ Goto(PushVector(vector))
       \/ At(PushVector(vector)) /\ Push(<<Word("vector", vector)>>) /\ Goto(PUSHA)
  /\ UNCHANGED <<interrupts, registers>> /\ Outside

\* interrupt_common_stub up to the call.
Save ==
  /\ \/ At(PUSHA) /\ Push(<<Word("registers", registers)>>) /\ Goto(PUSH_ESP)
     \/ At(PUSH_ESP) /\ Push(<<Word("esp", Len(stack))>>) /\ Goto(HANDLER)
  /\ UNCHANGED <<interrupts, registers>> /\ Outside

\* frame->vector: the frame is under its own address.
Vector == Top(2).value

\* Bug variant: exceptions are acknowledged too.
AnyVector(vector) == TRUE
IsIrq(vector) == vector >= PIC_OFFSET /\ vector < PIC_OFFSET + PIC_IRQ_COUNT

\* interrupt_dispatch(): the handler, if any, ...
Handler ==
  /\ At(HANDLER)
  /\ registers' \in Registers
  /\ Goto(CASE ~IsIrq(Vector)         -> DROP_ESP
            [] Vector >= SLAVE_OFFSET -> EOI_SLAVE
            [] OTHER                  -> EOI_MASTER)
  /\ UNCHANGED <<interrupts, stack>> /\ Outside

\* ... and the acknowledgement of an IRQ.
Acknowledge ==
  /\ \/ At(EOI_SLAVE) /\ EndOfInterrupt(Slave) /\ Goto(EOI_MASTER)
     \/ At(EOI_MASTER) /\ EndOfInterrupt(Master) /\ Goto(DROP_ESP)
  /\ UNCHANGED <<interrupts, registers, stack, requested, entered>>

\* What the common stub drops: the argument of the call, later the vector number
\* and the error code.  Bug variants: the one or the other is left.
NoWord       == 0
ArgumentWord == 1
VectorWord   == 1
FrameWords   == 2

\* interrupt_common_stub after the call.
Restore ==
  /\ \/ At(DROP_ESP) /\ Drop(ArgumentWord) /\ Goto(POPA) /\ UNCHANGED registers
     \/ At(POPA) /\ registers' = Top(0).value /\ Drop(1) /\ Goto(DROP_CODE)
     \/ At(DROP_CODE) /\ Drop(FrameWords) /\ Goto(IRETD) /\ UNCHANGED registers
  /\ UNCHANGED interrupts /\ Outside

Return ==
  /\ At(IRETD)
  /\ Goto(Top(0).value)
  /\ interrupts' = (Top(2).value = 1)
  /\ Drop(3)
  /\ entered' = SubSeq(entered, 1, Len(entered) - 1)
  /\ UNCHANGED <<registers, requested, in_service>>

-----------------------------------------------------------------------------
(* The specification *)

\* kernel_main() after its 'sti'.
Init ==
  /\ eip = 0 /\ interrupts = TRUE
  /\ registers \in Registers
  /\ stack = << >>
  /\ requested = {} /\ in_service = {}
  /\ entered = << >>

Next == \/ Exception \/ RaiseIrq \/ TakeIrq \/ TakeSpurious
        \/ Main \/ Stub \/ Save \/ Handler \/ Acknowledge \/ Restore \/ Return

Spec == Init /\ [][Next]_vars

-----------------------------------------------------------------------------
(* Properties *)

Current == entered[Len(entered)]

\* Where the program is, and where each interrupt on top of it.
AddressOf(i) == IF i = Len(entered) THEN eip ELSE entered[i + 1].eip

Words  == [what : {"eflags", "cs", "eip", "code", "vector", "registers", "esp"}, value : Nat]
Levels == [vector : 0 .. PIC_OFFSET + PIC_IRQ_COUNT - 1, eip : Nat, flag : {0, 1},
           registers : Registers, height : Nat, lines : SUBSET (0 .. PIC_IRQ_COUNT - 1)]

\* Every variable has its type: the words of the stack are those of
\* interrupt_frame_t.
TypeOK ==
  /\ eip \in Nat /\ interrupts \in BOOLEAN /\ registers \in Registers
  /\ stack \in Seq(Words)
  /\ requested \subseteq Irqs
  /\ in_service \subseteq 0 .. PIC_IRQ_COUNT - 1
  /\ entered \in Seq(Levels) /\ Len(entered) <= MaxDepth

\* The frame of interrupt.h 5-33 is where the dispatcher looks for it, whoever
\* pushed the error code, with the vector that was raised.
FrameIsRight ==
  eip = HANDLER =>
    /\ Top(0).value = Len(stack) - 1
    /\ <<Top(2).what, Top(3).what, Top(4).what, Top(5).what, Top(6).what>>
         = <<"vector", "code", "eip", "cs", "eflags">>
    /\ Vector = Current.vector

\* An interrupt is transparent: 'iretd' goes back to the instruction that was
\* interrupted, with its flags, its registers and its stack, at any depth of
\* exceptions over IRQs (irq_stub.asm 34-58, exception_stub.asm 10-47).
Transparent ==
  eip = IRETD =>
    /\ Len(stack) = Current.height + 3
    /\ Top(0) = Word("eip", Current.eip)
    /\ Top(2) = Word("eflags", Current.flag)
    /\ registers = Current.registers

\* The lines in service are those of the IRQ whose dispatcher has not
\* acknowledged it yet: no exception acknowledges the IRQ under it, a spurious
\* IRQ acknowledges no other one, and nothing stays in service for ever
\* (interrupt.c 37-50).
Unacknowledged(i) ==
  CASE AddressOf(i) < EOI_MASTER -> entered[i].lines
    [] AddressOf(i) = EOI_MASTER -> {line \in entered[i].lines : OnMaster(line)}
    [] AddressOf(i) > EOI_MASTER -> {}

OnlyServed == in_service = UNION {Unacknowledged(i) : i \in 1 .. Len(entered)}
=============================================================================
