----------------------------- MODULE KeyBuffer ------------------------------
(***************************************************************************)
(* The path of a key from the PS/2 controller to the main loop: the two    *)
(* interrupt requests and their priorities in the PIC, the interrupt       *)
(* gates, the common stub and interrupt_dispatch(), the keyboard and mouse *)
(* handlers, the ring key_buffer they share with the main loop, and the    *)
(* loop of kernel_main() with its cli / sti;hlt idiom.                     *)
(*                                                                         *)
(* Each action is one access to shared state, so an interrupt can arrive   *)
(* between any two instructions of the main loop where the CPU allows it.  *)
(***************************************************************************)
EXTENDS Naturals, Sequences

CONSTANTS KEY_BUFFER_SIZE,  \* slots of the ring
          Scancodes,        \* the bytes a handler can push
          WHEEL_UP,         \* MOUSE_WHEEL_UP_SCANCODE
          WHEEL_DOWN,       \* MOUSE_WHEEL_DOWN_SCANCODE
          None              \* no byte, no scancode

ASSUME BufferAssumption == KEY_BUFFER_SIZE \in Nat /\ KEY_BUFFER_SIZE >= 2
ASSUME ScancodeAssumption == /\ WHEEL_UP \in Scancodes
                             /\ WHEEL_DOWN \in Scancodes
                             /\ None \notin Scancodes

VARIABLES
  key_buffer, key_buffer_head, key_buffer_tail,  \* keyboard.c 151-153
  scancode,          \* the local of keyboard_handle_input()
  pc,                \* where the main loop of kernel_main() is
  interrupts,        \* the interrupt flag of EFLAGS
  sti_shadow,        \* the instruction before this one was 'sti'
  stack,             \* frames of the interrupts being served, the last runs
  requested,         \* PIC: IRQs raised and not delivered yet
  in_service,        \* PIC: IRQs delivered and not acknowledged yet
  output_byte        \* PS/2 controller: the byte waiting on port 0x60

ringVars == <<key_buffer, key_buffer_head, key_buffer_tail>>
mainVars == <<scancode, pc>>
cpuVars  == <<interrupts, sti_shadow, stack>>
picVars  == <<requested, in_service>>
vars     == <<ringVars, mainVars, cpuVars, picVars, output_byte>>

Slots == 0 .. KEY_BUFFER_SIZE - 1

KEYBOARD == 1    \* IRQ1, on the master PIC
MOUSE    == 12   \* IRQ12, on the slave PIC, behind IRQ2 of the master
Irqs     == {KEYBOARD, MOUSE}

\* The byte on port 0x60 and the device it comes from.  Of a mouse byte only
\* the scancode its packet stands for is kept: a wheel step or none.
MouseBytes == {[irq |-> MOUSE, key |-> k] : k \in {WHEEL_UP, WHEEL_DOWN, None}}
OutputBytes == {[irq |-> KEYBOARD, key |-> k] : k \in Scancodes} \cup MouseBytes

NoByte == [irq |-> 0, key |-> None]

Labels  == {"while", "fetch", "advance", "handle", "cli", "test",
            "sti_hlt", "hlt", "asleep", "sti", "halted"}
\* A handler that has been entered: its IRQ, the place it has reached and the
\* scancode that it read, the parameter of keyboard_push_scancode().
Stages  == {"read", "store", "publish", "eoi", "iret"}
Frames  == [irq : Irqs, stage : Stages, key : Scancodes \cup {None}]

-----------------------------------------------------------------------------
(* The ring *)

\* Bug variant: an index that runs past the end of the ring.
NoWrap(i)   == i + 1
NextSlot(i) == (i + 1) % KEY_BUFFER_SIZE

HasInput == key_buffer_head # key_buffer_tail

\* Bug variant of the full test: one slot too many.
HeadMeetsTail == key_buffer_head = key_buffer_tail
RingFull == NextSlot(key_buffer_head) = key_buffer_tail

Count == (key_buffer_head + KEY_BUFFER_SIZE - key_buffer_tail) % KEY_BUFFER_SIZE

-----------------------------------------------------------------------------
(* The hardware: devices and interrupt delivery *)

\* A device puts a byte on port 0x60 when the last one has been read, and
\* the controller raises its IRQ.
DeviceByte ==
  /\ output_byte = NoByte
  /\ output_byte' \in OutputBytes
  /\ requested' = requested \cup {output_byte'.irq}
  /\ UNCHANGED <<ringVars, mainVars, cpuVars, in_service>>

\* The PIC delivers the most urgent request, if no IRQ at least as urgent is
\* being served: it waits for the end-of-interrupt command.
Deliverable(irq) ==
  /\ irq \in requested
  /\ \A other \in requested  : irq <= other
  /\ \A other \in in_service : irq < other

\* The kind of gate set_interrupt_descriptor() installs: an interrupt gate
\* clears the interrupt flag on entry, a trap gate leaves it set.
TrapGate      == TRUE
GateFlag      == FALSE

\* The CPU takes an interrupt between two instructions, except right after
\* 'sti'.  An interrupt wakes a halted CPU, which returns past 'hlt'.
InterruptEntry(irq) ==
  /\ interrupts
  /\ ~sti_shadow
  /\ Deliverable(irq)
  /\ requested' = requested \ {irq}
  /\ in_service' = in_service \cup {irq}
  /\ stack' = Append(stack, [irq |-> irq, stage |-> "read", key |-> None])
  /\ interrupts' = GateFlag
  /\ pc' = IF pc = "asleep" THEN "sti" ELSE pc
  /\ UNCHANGED <<ringVars, scancode, sti_shadow, output_byte>>

-----------------------------------------------------------------------------
(* The interrupt handlers *)

Top == stack[Len(stack)]

\* The running handler goes to a stage, with the scancode it holds.
Continue(stage, key) ==
  stack' = [stack EXCEPT ![Len(stack)] = [irq |-> @.irq, stage |-> stage, key |-> key]]

Running(stage) == stack # << >> /\ Top.stage = stage

\* keyboard_interrupt_handler() reads port 0x60 without looking at the
\* status port: when the byte is not one from the keyboard, what it gets can
\* be any scancode.
KeyboardRead ==
  /\ Running("read") /\ Top.irq = KEYBOARD
  /\ IF output_byte.irq = KEYBOARD
     THEN Continue("store", output_byte.key)
     ELSE \E k \in Scancodes : Continue("store", k)
  /\ output_byte' = NoByte
  /\ UNCHANGED <<ringVars, mainVars, interrupts, sti_shadow, picVars>>

\* mouse_interrupt_handler() first checks that a mouse byte is waiting, then
\* pushes a wheel scancode if the byte ends a packet with a wheel movement.
MouseRead ==
  /\ Running("read") /\ Top.irq = MOUSE
  /\ IF output_byte.irq = MOUSE
     THEN /\ Continue(IF output_byte.key = None THEN "eoi" ELSE "store", output_byte.key)
          /\ output_byte' = NoByte
     ELSE /\ Continue("eoi", None)
          /\ UNCHANGED output_byte
  /\ UNCHANGED <<ringVars, mainVars, interrupts, sti_shadow, picVars>>

\* keyboard_push_scancode(): a full ring drops the scancode, otherwise it is
\* written in the slot of the head ...
Store ==
  /\ Running("store")
  /\ IF RingFull
     THEN /\ Continue("eoi", None)
          /\ UNCHANGED key_buffer
     ELSE /\ key_buffer' = [key_buffer EXCEPT ![key_buffer_head] = Top.key]
          /\ Continue("publish", Top.key)
  /\ UNCHANGED <<key_buffer_head, key_buffer_tail, mainVars, interrupts,
                 sti_shadow, picVars, output_byte>>

\* ... and the head moves past it.
Publish ==
  /\ Running("publish")
  /\ key_buffer_head' = NextSlot(key_buffer_head)
  /\ Continue("eoi", None)
  /\ UNCHANGED <<key_buffer, key_buffer_tail, mainVars, interrupts,
                 sti_shadow, picVars, output_byte>>

\* Bug variant of the acknowledgement: none for the slave's IRQs.
OnlyMasterEoi(irq) == {irq} \cap {KEYBOARD}
\* The IRQs whose in-service bits the commands of interrupt_dispatch() clear.
Acknowledged(irq) == {irq}

Eoi ==
  /\ Running("eoi")
  /\ in_service' = in_service \ Acknowledged(Top.irq)
  /\ Continue("iret", None)
  /\ UNCHANGED <<ringVars, mainVars, interrupts, sti_shadow, requested, output_byte>>

\* 'iretd' restores the flags saved on entry, where interrupts were enabled.
InterruptReturn ==
  /\ Running("iret")
  /\ stack' = SubSeq(stack, 1, Len(stack) - 1)
  /\ interrupts' = TRUE
  /\ UNCHANGED <<ringVars, mainVars, sti_shadow, picVars, output_byte>>

Handler == KeyboardRead \/ MouseRead \/ Store \/ Publish \/ Eoi \/ InterruptReturn

-----------------------------------------------------------------------------
(* The main loop *)

\* The main loop runs an instruction when no handler runs.
At(label) == stack = << >> /\ pc = label
Goto(label) == pc' = label

\* while (keyboard_has_input())
While ==
  /\ At("while")
  /\ Goto(IF HasInput THEN "fetch" ELSE "cli")
  /\ sti_shadow' = FALSE
  /\ UNCHANGED <<ringVars, scancode, interrupts, stack, picVars, output_byte>>

Fetch ==
  /\ At("fetch")
  /\ scancode' = key_buffer[key_buffer_tail]
  /\ Goto("advance")
  /\ UNCHANGED <<ringVars, cpuVars, picVars, output_byte>>

Advance ==
  /\ At("advance")
  /\ key_buffer_tail' = NextSlot(key_buffer_tail)
  /\ Goto("handle")
  /\ UNCHANGED <<key_buffer, key_buffer_head, scancode, cpuVars, picVars, output_byte>>

\* handle_scancode() returns to the loop, unless the key ran the halt command.
Handle ==
  /\ At("handle")
  /\ scancode' = None
  /\ Goto("while")
  /\ UNCHANGED <<ringVars, cpuVars, picVars, output_byte>>

Halt ==
  /\ At("handle")
  /\ scancode' = None
  /\ Goto("halted")
  /\ interrupts' = FALSE
  /\ UNCHANGED <<ringVars, sti_shadow, stack, picVars, output_byte>>

\* Bug variant: the 'cli' before the test is missing.
InterruptsLeftOn == TRUE
InterruptsOff    == FALSE
Cli ==
  /\ At("cli")
  /\ interrupts' = InterruptsOff
  /\ Goto("test")
  /\ UNCHANGED <<ringVars, scancode, sti_shadow, stack, picVars, output_byte>>

\* if (!keyboard_has_input())
Test ==
  /\ At("test")
  /\ Goto(IF HasInput THEN "sti" ELSE "sti_hlt")
  /\ UNCHANGED <<ringVars, scancode, cpuVars, picVars, output_byte>>

\* Bug variant: a 'sti' that takes effect at once.
NoShadow  == FALSE
StiShadow == TRUE
StiHlt ==
  /\ At("sti_hlt")
  /\ interrupts' = TRUE
  /\ sti_shadow' = StiShadow
  /\ Goto("hlt")
  /\ UNCHANGED <<ringVars, scancode, stack, picVars, output_byte>>

\* The CPU halts; from here only InterruptEntry moves the main loop.
Hlt ==
  /\ At("hlt")
  /\ sti_shadow' = FALSE
  /\ Goto("asleep")
  /\ UNCHANGED <<ringVars, scancode, interrupts, stack, picVars, output_byte>>

Sti ==
  /\ At("sti")
  /\ interrupts' = TRUE
  /\ sti_shadow' = (sti_shadow \/ ~interrupts)
  /\ Goto("while")
  /\ UNCHANGED <<ringVars, scancode, stack, picVars, output_byte>>

\* The loop 'cli; hlt; jmp' of the halt command: interrupts stay disabled.
StayHalted == At("halted") /\ UNCHANGED vars

MainLoop == \/ While \/ Fetch \/ Advance \/ Handle \/ Halt
            \/ Cli \/ Test \/ StiHlt \/ Hlt \/ Sti

-----------------------------------------------------------------------------
(* The specification *)

\* kernel_main() after its 'sti': an empty ring in zeroed memory.  The PS/2
\* dialogue of mouse_init() may have left IRQs pending, and a byte waiting.
Init ==
  /\ key_buffer = [i \in Slots |-> None]
  /\ key_buffer_head = 0
  /\ key_buffer_tail = 0
  /\ scancode = None
  /\ pc = "while"
  /\ interrupts = TRUE
  /\ sti_shadow = TRUE
  /\ stack = << >>
  /\ requested \in SUBSET Irqs
  /\ in_service = {}
  /\ output_byte \in {NoByte} \cup {b \in OutputBytes : b.irq \in requested}

Next == \/ DeviceByte
        \/ \E irq \in Irqs : InterruptEntry(irq)
        \/ Handler
        \/ MainLoop
        \/ StayHalted

\* The processor never stops executing.  A PS/2 byte takes about a millisecond
\* on the wire, far longer than a handler runs, so the main loop always gets
\* the processor between two of them.  Nothing is assumed of the devices.
Fairness == /\ WF_vars(Handler)
            /\ \A irq \in Irqs : WF_vars(InterruptEntry(irq))
            /\ SF_vars(MainLoop)

Spec == Init /\ [][Next]_vars

FairSpec == Spec /\ Fairness

-----------------------------------------------------------------------------
(* Properties *)

\* Every variable has its type: in particular the indices stay in the ring.
TypeOK ==
  /\ key_buffer \in [Slots -> Scancodes \cup {None}]
  /\ key_buffer_head \in Slots
  /\ key_buffer_tail \in Slots
  /\ scancode \in Scancodes \cup {None}
  /\ pc \in Labels
  /\ interrupts \in BOOLEAN
  /\ sti_shadow \in BOOLEAN
  /\ stack \in Seq(Frames)
  /\ requested \in SUBSET Irqs
  /\ in_service \in SUBSET Irqs
  /\ output_byte \in {NoByte} \cup OutputBytes

\* An interrupt handler is never interrupted: keyboard_push_scancode() has two
\* callers, the handlers of IRQ1 and IRQ12, and no lock (keyboard.c 146-150).
NoNesting == Len(stack) <= 1

\* The main loop does not go to sleep on a key: from the moment it has seen
\* the ring empty with interrupts disabled until it is woken up, the ring is
\* empty (main.c 52-58).
NoLostWakeup == pc \in {"sti_hlt", "hlt", "asleep"} => ~HasInput

\* The scancodes of the ring in order, the one a handler is about to push and
\* the one the main loop is handling.
Waiting  == [i \in 1 .. Count |-> key_buffer[(key_buffer_tail + i - 1) % KEY_BUFFER_SIZE]]
Incoming == IF Running("store") \/ Running("publish") THEN Top.key ELSE None
Taken    == IF pc = "handle" THEN scancode ELSE None

\* The interrupt handlers and the main loop, sharing the ring without a lock,
\* implement a first-in first-out queue that drops a scancode only when
\* KEY_BUFFER_SIZE - 1 scancodes wait (keyboard.c 146-153, 289-318).
Queue == INSTANCE KeyQueue WITH
           Keys     <- Scancodes,
           Capacity <- KEY_BUFFER_SIZE - 1,
           inbox    <- Incoming,
           queue    <- Waiting,
           taken    <- Taken
IsAQueue == Queue!Spec

\* A scancode in the ring is taken out of it, unless the kernel is halted.
ScancodesTaken ==
  \A i \in Slots : (HasInput /\ key_buffer_tail = i)
                     ~> (key_buffer_tail # i \/ pc = "halted")

\* An IRQ is delivered, unless the kernel is halted or a more urgent IRQ comes
\* first: the handlers let the PIC go on (interrupt.c 37-50) and the main loop
\* enables interrupts again (main.c 56-59).
IrqsDelivered ==
  \A irq \in Irqs : irq \in requested
                     ~> \/ irq \notin requested
                        \/ pc = "halted"
                        \/ \E other \in requested : other < irq
=============================================================================
