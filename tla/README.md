# A specification of kernel_from_scratch

This directory specifies the kernel: the boot, the interrupts, the dialogue with
the mouse and its packets, the path of a key from the PS/2 controller to the
main loop, the terminal with its ten screens, the keyboard decoder and the
shell, and the code that prints and walks over memory. The modules are TLA+,
checked by TLC on small instances and, for the theorems of section 5,
proved by TLAPS for every value of the constants. Source paths are relative to
`src/`; `kernel/` stands for `src/kernel/`.

## 1. The system

The kernel is single-processor and has no threads. There are two flows of
control: the main loop of `kernel_main()`, which decodes scancodes, edits the
terminal and runs shell commands, and the interrupt handlers of IRQ1 (keyboard)
and IRQ12 (mouse), which can run between any two instructions of the main loop
while interrupts are enabled. They meet in one object, the ring `key_buffer`.

    PS/2 devices -> 8259A PICs -> IDT gate -> stub -> interrupt_dispatch
        -> keyboard / mouse handler -> key_buffer
        -> keyboard_handle_input -> handle_scancode -> terminal input
        -> (Enter) shell_execute -> commands -> terminal output -> VGA

### Inventory

| Component | State | Operations | Interacts with | Correct when |
|---|---|---|---|---|
| Key ring (`kernel/interrupt/handler/keyboard.c` 146-153, 289-318) | `key_buffer`, head, tail | `keyboard_push_scancode`, `keyboard_has_input`, `keyboard_handle_input` | both handlers write, the main loop reads, without a lock | it is a first-in first-out queue; only a full ring drops a key |
| Main loop (`kernel/boot/main.c`) | program counter, interrupt flag | `cli`, test, `sti; hlt`, `sti` | sleeps until an IRQ | it never sleeps on a key |
| Interrupt dispatch (`kernel/interrupt/interrupt.c`, `handler/irq_stub.asm`, `handler/exception_stub.asm`, `idt.c`) | the IDT, the table of handlers | `interrupt_init`, `interrupt_register`, `interrupt_dispatch` | PIC (EOI), handlers | handlers do not nest, every delivered IRQ is acknowledged to the PICs it came through |
| PIC (`kernel/interrupt/pic.c`) | masks, vectors, in-service bits | `remap_pic`, EOI | dispatch | IRQ1, IRQ2 and IRQ12 enabled, on the vectors the IDT serves; the slave knows the line it is behind |
| PS/2 mouse (`kernel/interrupt/handler/mouse.c`) | `has_scroll_wheel`, `cycle`, `packet` | `mouse_init`, `mouse_interrupt_handler` | PS/2 controller, key ring | the driver and the mouse agree on the packet length; packets get back in step |
| Keyboard decoder (`keyboard.c` 12-281) | locks, shifts, Ctrl, layout | `handle_scancode`, `execute`, `keyboard_set_layout` | terminal, shell (`is_reading`) | each key means what the layout, the locks and the shell's state say |
| Terminal (`kernel/terminal.c`) | ten screens: cells, cursor, scroll position, input field | input, output, movement, clear, switch | VGA | the cells implement a line editor per screen; the VGA shows the selected one |
| VGA driver (`kernel/io/vga.c`) | text memory, CRTC registers | `vga_set_cell`, `vga_put_cursor`, `vga_set_cursor_visibility` | hardware | the hardware cursor is where the terminal says |
| Shell (`kernel/shell.c`) | `last_command`, `read_pending` | ten commands, `shell_execute` | terminal, keyboard (layout), PS/2 (reboot) | one answer per line; `read` takes exactly the next line; `last` ends |
| GDT (`kernel/gdt.c`, `sections/gdt.asm`) | a table written once | `register_gdt` | CPU | encoding |
| Boot (`kernel/boot/entry.asm`, `multiboot.c`, `sections/`, `misc/linker.ld`) | none after boot | straight-line | all | the order of the initialisations; the walk of the memory map stays inside it |
| printk, strings, memory, character classes, stack dump, port I/O (`kernel/helper/`, `kernel/stack.c`, `kernel/io/port.c`) | none | pure functions, output | terminal | results for every input |

Hard behaviours: the interleaving of handlers and main loop on a lock-free
ring; the race between the test of the ring and `hlt`; acknowledgement of
cascaded PICs; an input field that wraps over rows, in a buffer that scrolls
both because the user moves it and because it is full; three cursors that must
agree (buffer, input, hardware); state per screen against state per machine
when screens are switched; modes that survive from one line to the next
(`read`, `last`, layouts, locks). `PROJECT.json` lists them as hazards, each at
its line, with the properties that would catch it.

## 2. Modules

| Module | Models | Kind |
|---|---|---|
| `Boot` | `kernel_entry` and `kernel_main()` up to `sti`: `.bss`, GDT, PICs one `outb` at a time, gates, handlers; then what an interrupt finds | one step of the boot per action, IRQs at any moment |
| `BootProofs` | what is ready at each step of the boot | proofs |
| `Interrupts` | stubs, `interrupt_dispatch()`, `iretd`, with exceptions, NMIs and spurious IRQs on top of IRQs | one instruction that matters per action |
| `InterruptsProofs` | frames, transparency, acknowledgements | proofs |
| `Ps2` | `mouse_init()` and `reboot` against the PS/2 controller, the mouse and the keyboard | one port access per action, devices asynchronous |
| `Ps2Proofs` | the bits of the configuration, the program place by place, the invariants, the steps left | proofs |
| `MousePackets` | `mouse_interrupt_handler()`, the mouse, a line that loses bytes | one byte per action |
| `MousePacketsProofs` | the cost of a lost byte, the bytes to the next packet in step | proofs |
| `KeyQueue` | what the key path promises: a bounded FIFO queue with one scancode coming in and one being handled | abstract |
| `KeyBuffer` | devices, PIC, interrupt entry and return, both handlers, the ring, the main loop | one access to shared state per action; implements `KeyQueue` |
| `KeyPath` | the Ctrl keys from the fingers to `is_ctrl`, through `KeyBuffer` | composition |
| `KeyPathProofs` | `KeyBuffer`: the inductive invariant and the refinement; `KeyPath`: `is_ctrl` and the Ctrl keys | proofs |
| `LineEditor` | what the terminal promises: a line with a cursor per screen | abstract |
| `Vga` | the text cells and the index and data ports of the CRT controller | operators |
| `Terminal` | every function of `terminal.c` that changes a screen | one call of the keyboard or of the shell per action; implements `LineEditor` |
| `TerminalProofs` | every function on cells and cursors, the invariants, the refinement | proofs |
| `Console` | `handle_scancode()` and `shell.c` on top of `LineEditor` | one scancode, or the answer to one line, per action |
| `ConsoleProofs` | types, prompts, `read`, `last`; its calls are those of `LineEditor` | proofs |
| `Printk` | `printk()`: formats, paddings, arguments on the stack | one turn of its loop per action |
| `Memory` | `mem.c`, `string.c`, the stack dump, the walk over GRUB's memory map | one turn of a loop per action |
| `MemoryProofs` | the loop invariants of the helpers and of the dumps | proofs |
| `MC...` | constants for TLC, one per module above that a run checks | instances |

How they fit together: `Boot` ends where `Interrupts` and `KeyBuffer` begin, with
the gates, masks and vectors that these take for granted. `Ps2` ends in the
states `KeyBuffer` and `MousePackets` begin in: a byte left on port 0x60 has its
IRQ latched (`PortHandedOver`), and the packet size is the mouse's
(`WheelFound`, `WheelIsReal`). `Interrupts` shows that a handler may be seen as a
call that returns (`Transparent`, `OnlyServed`), which is how `KeyBuffer` treats
it. Both take the vector of IRQ12 as given, which is the case of QEMU's PICs
(section 6). `KeyPath` extends `KeyBuffer`. `Terminal` is shown to implement
`LineEditor`, and `Console` is written on `LineEditor`: what holds of the
console does not depend on cells or rows, and what holds of the cells does not
depend on which key produced the call. `KeyBuffer` leaves what a scancode does
to one action, `Handle`, which is what `KeyPath` details for Ctrl and `Console`
for the rest.

### Boot

The boot is the list `Program` of its steps; every `outb` of `remap_pic()` is
one. The PICs are state machines that count the initialization words and take
later bytes of the data port for the mask, with the mask, offset and in-service
lines the firmware left, any of those that the constants allow. The `.bss` (IDT,
handlers) is garbage until it is zeroed. What the slave does with its ICW3 is a
constant, `CascadeChecked`: an 8259A gives a vector only when the master calls
the number it was given; the PICs of QEMU, which `make run` starts, are wired to
line 2 and ignore the byte. When no PIC answers, the vector the CPU reads is any
byte (`VectorsRead`). Descriptors are encoded as `set_entry()` and
`set_interrupt_descriptor()` do and decoded as the CPU does. `TakeIrq` records
the gate and the handler an IRQ goes through.

### Interrupts

The stack is a sequence of words, each with what it is; the vectors of both stub
tables are addresses. An exception or an NMI may come before any instruction,
also inside a stub; an IRQ needs the flag and the PIC. A spurious IRQ7 marks
nothing in service, a spurious IRQ15 only line 2 of the master. The registers
are one value. `entered` is a history variable: what each interrupt found.

### Ps2

The driver is the list `Program` of the port accesses of `mouse_init()`, retries
and the early return included. The controller has an input byte, a
configuration, a reply and the byte on port 0x60 with its source; it reads its
input later than the driver writes it, so a command can be overwritten. A
machine (constant during a behaviour, chosen in `Init`) says how late controller
and mouse are (`none`: before the next access; `short`: before a wait gives up;
`long`: any time or never), what mouse there is and how many keys are pressed
during the dialogue. Bytes are numbers, since the hazard is one byte taken for
another. Outside of `mouse_init()` only `reboot` writes to the controller.

### MousePackets

Bytes are numbers here too; `has_scroll_wheel` is what the mouse sends, which is
`Ps2!WheelFound`. `slips` counts lost and left-over bytes, `wrong` counts the
bytes for which the handler pushed something else than the mouse said. `packet`
itself is left out: only the byte just stored is read.

### KeyPath

`held` is the set of the Ctrl keys that are down, `misled` whether the last news
of one was dropped by a full ring or made up from an old byte.

### Printk and Memory

A format is a sequence of characters, an argument a word of few bits, so that
the least integer and the widest numbers are met. In `Memory` the functions run
over a small memory; what the dumps read and show is recorded, headings and
notes are left out. The properties state what the whole call must do. A
`uint32_t` has the values below `UINT_RANGE`: `strcmp()` returns the difference of
two bytes as one, so it is compared with 0 after it is taken for an int
(`Signed`). Every entry of GRUB's map is read as a whole structure of
`ENTRY_SIZE` bytes, whatever size it gives; a call has the flags of the
multiboot information, and only `MULTIBOOT_INFO_MEM_MAP` has the map read.

### KeyBuffer

The variables are those of the code (`key_buffer`, `key_buffer_head`,
`key_buffer_tail`, the local `scancode`), the point `pc` the main loop has
reached, the interrupt flag, the one-instruction shadow of `sti`, the stack of
running handlers (`Frames`: the IRQ, the stage reached and the scancode, which are
the handler's place and its parameter; the saved registers are in `Interrupts`),
the PIC's request and in-service bits, and the byte waiting on
port 0x60. A handler goes through the stages `read`, `store`, `publish`, `eoi`
and `iret`, so that every read and write of the ring, of the PIC and of the
flag is its own step. Choices that need a word:

- *Interrupt entry* waits for `interrupts`, for the end of the `sti` shadow and
  for the PIC, which delivers the most urgent request above what is in service.
  IRQ12 goes through IRQ2 of the master, less urgent than IRQ1. Whether the gate
  clears the flag is a definition (`GateFlag`), since the absence of nesting
  rests on the kind of gate `set_interrupt_descriptor()` writes.
- *The keyboard handler* does not read the status port (`keyboard.c` 286): when
  the waiting byte is not from the keyboard it gets an arbitrary scancode. This
  happens after `mouse_init()`, which may leave an IRQ1 or IRQ12 pending
  (`mouse.c` 159-165), so `Init` allows any set of pending IRQs.
- *The mouse handler* is reduced to whether the byte completes a packet with a
  wheel movement; the packets themselves are in `MousePackets`.
- *The main loop's* increments of the tail are one step: it is the only writer.

### Terminal

A screen is the record of the code, with its cells numbered row after row. An
operator with the name of each C function maps a terminal (current screen, VGA,
CRTC) to the terminal it leaves, trailing redraws and cursor updates included;
an action applies the function a key or a command calls. `putc` of a newline
and of a printable character are modelled separately because only the second
redraws the screen. The keyboard calls the functions with a count of one. The
8-bit subtraction of `y_to_vga()` is kept; the widths of the other counters are
not, since `ScreenType` bounds them far below their limits. `vga_set_cell()`
before a `put_screen()` of the same screen is merged with it. The two colors of
a cell are the number of the screen, whose color is fixed.

`Vga` keeps the index register of port 0x3D4 and the registers behind 0x3D5;
ports 0x3DE and 0x3DF, which `vga_set_cursor_visibility()` uses, are not ports
of the CRT controller, so writes to them change nothing.

`phase` says where `shell_execute()` is. A command is a sequence of printed
characters, or one `terminal_clear()`, or nothing (`read`, an empty line); it is
cut into one action per character so that every prefix of the output is a state.

### Console

Keyboard state, `struct shell`, and for each screen whether its input follows a
prompt (`row`). The scancodes are those of two digit keys the layouts treat
differently, the key of `0`, one letter, one sign, and the key only Azerty has;
modifiers and special keys are all there. Shell commands that only print are one
command, `help`; so is `clear`, whose effect on the terminal is in `Terminal`.
`reboot` asks for a reset that comes at any later time, or never; the machine
goes on until then.

## 3. Properties and runs

| Run | Bounds | Distinct states | Checks |
|---|---|---|---|
| `key_path` | ring of 3, two Ctrl keys, a wheel | 1.8 million | `TypeOK`, `NoNesting`, `NoLostWakeup`, `IsAQueue`, `CtrlFollowsKeys` |
| `key_path_live` | the same, ring of 2 | 274,000 | `ScancodesTaken`, `IrqsDelivered` |
| `terminal` | 2 screens of 3 rows of 3 columns, 2 visible; inputs up to 4; 2 characters | 347,000 | `TypeOK`, `BlankAfterEnd`, `PromptBeforeInput`, `IsALineEditor`, `InputInView`, `ScreenShown`, `HistoryKept` |
| `terminal_read` | 1 screen, inputs up to 2 | | violation, section 6 |
| `console` | 2 screens, lines of one character, 4 writing keys | 365,000 | `TypeOK`, `PromptUnlessReading`, `LastReturns`, `ScreenByDigit` |
| `ps2` | waits of 2, 2 tries; 6 machines, up to 2 keys | 770,000 | `TypeOK`, `WheelFound`, `WheelIsReal`, `SettingsKept`, `PortHandedOver`, `BootGoesOn`, `RebootResets` |
| `mouse_packets` | 2 slips, 2 headers, 4 movements, 3 wheel bytes | 11,600 | `TypeOK`, `WheelIsArrows`, `BackInStep` |
| `interrupts` | 3 interrupts deep, 3 exceptions, 2 IRQs, 2 spurious ones | 1.4 million | `TypeOK`, `FrameIsRight`, `Transparent`, `OnlyServed` |
| `boot` | 3 devices; 2 masks, 2 offsets and 2 sets of lines in service left by the firmware | 2,288 | `RightHandler`, `NoExceptionVector`, `SegmentsRight`, `OnlyTwoDevices` |
| `boot_cascade` | the same, with PICs that use ICW3 | | violation, section 6 |
| `printk` | words of 5 bits, 7 paddings | 2,700 | `PrintedRight`, `ArgumentsInStep` |
| `memory` | memories of 6 bytes, stacks of up to 10 bytes, 4 memory maps | 232,000 | `HelpersRight`, `WalksInBounds` |

What they show:

- `IsAQueue`: whatever the interleaving, the ring is a queue. No scancode is
  lost, doubled or reordered except one that arrives when `KEY_BUFFER_SIZE - 1`
  already wait. `NoNesting` is what allows two handlers to push without a lock.
- `NoLostWakeup` is the race of `main.c` 52-58: from the test of the ring until
  the wake-up the ring is empty. `ScancodesTaken` says that the key is then
  really taken, `IrqsDelivered` that no line of the PIC is silenced.
- `CtrlFollowsKeys`: a dropped release of Ctrl leaves the flag wrong only until
  the next scancode of a Ctrl key arrives.
- `IsALineEditor`: inserting, deleting and moving over wrapped rows, when the
  buffer scrolls under the input and characters are moved one `putc` at a time,
  are exactly the operations of `LineEditor`; Enter submits the line the user
  sees; a switch leaves the other lines alone.
- `BlankAfterEnd`: after the end of the input, or of the output, the buffer is
  blank: deletions leave nothing behind. `PromptBeforeInput`: the prompt is
  never deleted. `HistoryKept`: editing never alters the text above the input.
  `InputInView`: the input never leaves the top of the visible page, which is
  what keeps `y_to_vga()` from wrapping below zero. `ScreenShown`: whenever the
  user can type, the VGA shows the rows of the selected screen and the hardware
  cursor is visible, on the cursor.
- `PromptUnlessReading`: a screen is without prompt exactly when a read waits on
  it, and this is the screen shown. `LastReturns`: no command runs itself for ever.
  `ScreenByDigit`: only Ctrl and a key that the layout, Caps Lock and Shift together
  make a digit change the screen, and no such key does under a read.
- `WheelFound`: if the devices answer within a wait and no key is pressed, the
  driver enables the wheel exactly when the mouse has one. `WheelIsReal`: even
  with late or lost answers the driver never waits for a fourth byte that the
  mouse does not send. `SettingsKept`: with a controller that reads its input at
  once, and whatever answers are taken for others, the controller ends with its
  configuration, the two mouse bits changed and both devices on.
  `PortHandedOver`: with such a controller no byte is left on port 0x60 without
  its IRQ, and no IRQ1 is latched without a key. `BootGoesOn`: a controller that never answers
  does not stop the boot. `RebootResets`: `reboot` ends in a reset.
- `WheelIsArrows`, `BackInStep`: one arrow per step of the wheel, and a bounded
  cost of a lost byte, with a mouse whose movements do not have bit 3.
- `FrameIsRight`, `Transparent`, `OnlyServed`: stubs, CPU and dispatcher agree on
  the frame at any depth, `iretd` restores what was interrupted, and each end of
  interrupt clears the line of the IRQ it is for.
- `RightHandler`, `NoExceptionVector`, `SegmentsRight`, `OnlyTwoDevices`: no
  interrupt is taken before everything it goes through is ready, whatever the
  firmware left in memory and in the PICs. For IRQ12 this is so on PICs wired as
  QEMU's.
- `PrintedRight`, `ArgumentsInStep`: numbers read back as the argument, and each
  conversion takes the words it was given.
- `HelpersRight`: what a helper writes, what it leaves alone and what it returns,
  the sign of a comparison included. `WalksInBounds`: what the dumps read and
  show; the walk over the memory map reads nothing without its flag and stays in
  the map if no entry is shorter than the structure it is read by (`Legal`), which
  `multiboot.c` does not check.

Why the bounds are enough. The ring: three slots give an empty, a partly full, a
full and a wrapped ring, and both indices go round; the theorems of section 5
cover every size. The terminal: with three columns and a prompt of one
character an input of four reaches a second row and fills it exactly, on every
row of a buffer of three, so wrapping, scrolling of the page and scrolling of
the buffer all happen in the middle of an insertion and of a deletion; the
constraint `OneScreenUsed` lets only one screen at a time go beyond its first
row and its first character, and a switch to and from the other one is possible
at any moment. `TerminalAssumption` keeps the relation the real sizes have: the
prompt and the longest input fit in the visible rows (2 + 127 < 25 * 80). The
console: lines of one character are enough for every command, since a command is
the name of a line, and for a full line. `ps2`: the dialogue does not depend on
how many turns a wait has but on whether it ends with an answer, and both tries
of a command can fail. `mouse_packets`: two slips put the handler out of step by
one, two and, with both, three bytes of a packet. `interrupts`: three levels
allow an exception on a stub that serves an exception on an IRQ. `printk`: five
bits are two digits and their limits in both bases; the longest formats of the
kernel have three conversions. `memory`: all overlaps of ranges of up to three
bytes, every height of a stack around two rows of the dump; entries of a map have
five to eight bytes, for a structure of five (`ENTRY_SIZE`), and 512 values
(`UINT_RANGE`) hold the differences of bytes of both signs. The named counters
that are capped by a guard are those of lost bytes and misreadings (`MaxSlips`,
`MaxWrong`, in `MousePackets`), of the keys pressed during the dialogue (`keys`
of a machine, in `Ps2`) and of nested interrupts (`MaxDepth`, in `Interrupts`).

Deadlock is checked in every run; a function that has returned, and the kernel
outside of the dialogue, stutter by an action of their own.

## 4. Fairness

`KeyBuffer!FairSpec`, and `PathFairSpec` with it, assumes that the processor
executes a handler that has begun (`WF(Handler)`), that the PIC and the
processor deliver an IRQ that stays deliverable (`WF(InterruptEntry(irq))`), and
`SF(MainLoop)`: the main loop runs again and again although interrupts keep
interrupting it. Strong fairness is justified by time: a byte takes about a
millisecond on the PS/2 wire and a handler runs a few microseconds, so the main
loop gets the processor between two bytes. Nothing is assumed of the devices,
which may send a byte at any moment or never again.

`Ps2!FairSpec`
assumes that the processor runs `mouse_init()` and `reboot`, and that the
controller and the mouse work if their delay has a bound; a device that is
`long` late may stop for ever. `MousePackets!FairSpec` assumes that the user
keeps moving the mouse and that the bytes on port 0x60 are read, which is
`IrqsDelivered`; a handler that is out of step can only come back with bytes.
No liveness is claimed for the other modules: their functions are loops with a
bound, or sequences.

## 5. What is proved

Every theorem holds for any value of the constants that meets the assumptions
of its module. They are:

- `BufferAssumption`, `ScancodeAssumption`: a ring of at least two slots, `None`
  not a scancode and the wheel's scancodes among them;
- `BootAssumption`: IRQs are 0 to 15, masks and offsets of the firmware are
  bytes;
- `CtrlAssumption`: the two scancodes of Ctrl differ and are not the wheel's,
  there is a Ctrl key;
- `Ps2Assumption`: waits and tries of at least one, bytes are bytes, and a
  firmware that leaves a keyboard that works: its interrupt is on, and so is the
  translation to the scancodes `keyboard.c` knows. The kernel sets neither bit;
- `PacketAssumption`: the bytes are bytes, a first byte of a packet has bit 3;
- `InterruptAssumption`: exceptions and IRQs have the numbers the stub tables
  are for, a spurious IRQ is 7 or 15;
- `EditorAssumption`, `ConsoleAssumption`, `CharsAssumption`: at least one screen,
  names of non-empty lines, `NoCommand` not a command, the maps of the keyboard
  give characters;
- `VgaAssumption`, `TerminalAssumption`: positive sizes, a non-empty prompt,
  prompt and longest input within the visible rows, a height that fits in the
  8 bits of `y_to_vga()` and a buffer that fits in the 16 bits of a position. The
  real sizes (35 rows of 80, 25 visible, inputs of 127) meet them;
- `MemoryAssumption`: positive sizes, a dump of whole rows, and calls that the
  standard allows (`Legal`: the ranges are in the memory, strings end, the
  ranges of `strncpy` do not overlap; when the flag is set, the entries of the
  memory map fill it and none is shorter than the structure).

`BootProofs`:

- `RightHandlerRuns`, `VectorsRemapped`, `SegmentsAreFlat`,
  `OnlyKeyboardAndMouse`: `Spec` implies `RightHandler`, `NoExceptionVector`,
  `SegmentsRight` and `OnlyTwoDevices`, for any devices and whatever masks,
  vectors and lines in service the firmware has left in the two PICs. The first
  and the last assume `~CascadeChecked`, a slave that is wired to its line.
- `MasterHandlersRun`: without that assumption, `RightHandler` of every interrupt
  of the master, the keyboard's among them.
- `MouseNotAnswered`: if `CascadeChecked`, once interrupts are enabled IRQ12 is
  open and no PIC gives its vector.

`IInv` says what each of the 22 steps has made ready: `SegmentsLoaded`,
`Remapped` for either PIC (which word it expects and which ones it has), and
`GatesReady`; the flag is off until all of it is. `AnsweredRight` says the same of
an interrupt whose vector a PIC gives, whatever the slave is. `GateRoundTrip` and
`SegmentBits` say that the CPU decodes what the code encodes.

`KeyPathProofs`, about `KeyBuffer`:

- `TypeCorrect`, `HandlersNotNested`, `WakeupNotLost`: `Spec` implies the
  invariants `TypeOK`, `NoNesting` and `NoLostWakeup`.
- `RingIsAQueue`: `Spec => IsAQueue`, the refinement of `KeyQueue`, for every
  size of the ring and every set of scancodes.

None of the invariants is inductive alone. `IInv` adds `Masking` (a handler runs
only with interrupts disabled, never in the shadow of `sti` and never between
the `cli` of the main loop and its `hlt`), `MainView` (what the test of
the main loop said of the ring is still true: between `fetch` and `advance` it
is not empty, `scancode` is the one at the tail; from `sti_hlt` on it is empty)
and `HandlerView` (at `publish` the scancode is in the slot of the head and the
next slot is free; each stage holds a scancode or none). `MainView` survives a
handler because a handler only adds, `HandlerView` survives the main loop
because a handler is never interleaved with it. The refinement then takes one
lemma per action: `Publish` is `Accept`, a `Store` on a full ring is `Drop`, a
read is `Receive`, `Advance` is `Take`, `Handle` and `Halt` are `Finish`, and
all others stutter. Lemmas on the modular indices give the effect of moving the
head and the tail on `Waiting`.

`KeyPathProofs`, about `KeyPath`, which extends `KeyBuffer`:

- `PathIsKeyBuffer`: `PathSpec => Spec`, so every theorem above holds of the path
  with the keys of the user.
- `CtrlIsRight`: `PathSpec => []CtrlFollowsKeys`.

`KeyInv` follows the last news of a Ctrl key from place to place: port 0x60, the
handler that has read it, the slot it has not published, the ring, the scancode
the main loop has taken. In each place the news agrees with the keys that are
down unless fresher news comes behind it. `Leads` says what handling a sequence
of scancodes makes of the flag; two lemmas give it for a sequence with one more
scancode at the end and with one less at the beginning.

`Ps2Proofs`:

- `TypeCorrect`, `WheelIsRealAlways`, `SettingsKeptAlways`,
  `PortHandedOverAlways`, `WheelFoundAlways`: `Spec` implies `TypeOK`,
  `WheelIsReal`, `SettingsKept`, `PortHandedOver` and `WheelFound`, for any
  machines, keys and settings of the firmware, and for waits and tries of any
  length.
- `BootIsBounded`: `StepsLeft`, a number, goes down with each step of
  `mouse_init()`, whatever the devices do, and is 0 exactly when it has returned.
  With the values of the code (10000 reads, 3 tries) it starts below 1,770,178.
  This is the argument of `BootGoesOn` without its fairness; it needs the types
  only.

The theorems in between speak of the end of the dialogue, so `IInv` has to say
what is true at each of its 69 port accesses. They are the 13 of the opening, the
nine calls of `mouse_write()`, whose places are a formula of the number of the
call (`Start`), and the two that read the ID; `StepsAt` gives the access at each
place. Three parts follow, each under the conditions its property needs:

- `Agreement`, for every machine. Without a key, only a mouse in wheel mode says
  3, and the driver takes nothing else for the ID. The one other byte that
  could be a 3 is the configuration, which the controller may still have to
  send: it is asked for once, before it is written, and then has the
  translation bit.
- `AtOnce`, for a controller that reads at once. `Opening` and `Writing` say at
  each place which command is on its way and which configuration the controller
  then has: a command is written only where the one before has been read.
  `Latched` ties the byte on port 0x60 to its IRQ; after the opening it can only
  come from a device that is on.
- `WheelAnswers`, for a mouse with a wheel that answers within a wait and no key.
  `Answering` follows each call: the byte is written once, the mouse goes from
  `MouseBefore(n)` to `MouseBefore(n + 1)`, its answer is read before the wait
  gives up, and no try is repeated; the ID is the answer that is left.

A byte is taken apart into its bits (`ByteBits`), so that setting and clearing
one leaves the others (`OneBit`) and two changes can be swapped (`TwoBits`);
`LastConfig` follows: the changes of the dialogue leave the configuration that
`SettingsKept` names.

`MousePacketsProofs`:

- `TypeCorrect`: `Spec => []TypeOK`, the index of `packet` stays in its array.
- `WheelRight`: `Spec => []WheelIsArrows`.
- `OnlyLossDesyncs`: no step leaves `InStep` unless it counts a slip.
- `NeverFarFromStep`, `StepComesNearer`: `BytesToStep`, a number of bytes, is
  bounded by twice the packet, is 0 exactly in step, and goes down with each byte
  of a calm mouse that loses none. This is the argument of `BackInStep` without
  its fairness, which says that the mouse goes on sending.

`WheelIsArrows` bounds `wrong` by three times `slips`. That is not inductive,
since it says nothing of the errors still to come: `IInv` bounds
`wrong + Debt`, where `Debt` is what the place of the handler and that of the
mouse in their packets can still cost (0 in step, 1 waiting for a first byte, 2
ahead, 3 behind).

`InterruptsProofs`:

- `TypeCorrect`, `FrameAsDeclared`, `InterruptsTransparent`, `LinesServed`:
  `Spec` implies `TypeOK`, `FrameIsRight`, `Transparent` and `OnlyServed`, for any
  depth of nesting and any exceptions, IRQs and length of the program.

`Frames` says of every level, not only of the last one, which words of
`interrupt_frame_t` are on the stack at the instruction it has reached, and that
the levels lie on top of one another without a gap; `Nesting` that only the
program can be interrupted by an IRQ; `Served` which lines the level at the
bottom has still to acknowledge. A push or a pop changes the frame of the top
level only (`PushStep`, `DropStep`), an entry adds a level (`EnterInv`).

`ConsoleProofs`:

- `TypeCorrect`: `Spec => []TypeOK`.
- `PromptsAndReads`: `Spec => []PromptUnlessReading`.
- `LastIsNotRecursive`: `Spec => []LastReturns`.
- `ConsoleEditsLines`: until a reboot, each step of the keyboard and of the shell
  is a step of `LineEditor` or leaves the line alone. `ImplementsLineEditor`
  proves the same abstract editor of `Terminal`: the calls that `Console` makes
  are those that the terminal has been proved for.

`MemoryProofs`:

- `HelpersCorrect`: `Spec => []HelpersRight`, for a memory of any size, any
  overlap of two ranges and strings of any length: what is written, what stays
  as it was, what is returned and the sign of a comparison. The first difference
  decides the sign (`FirstDifference`), and a `uint32_t` taken for an int is the
  difference of the two bytes again (`SignedDifference`).
- `DumpAndWalkInBounds`: `Spec => []WalksInBounds`, for any map that `Legal` allows.

Each function has its loop invariant: which bytes are written or compared so far
and that all others are what they were. For `memmove()` it also says that the
part still to be moved has not been overwritten, which is where the order of the
copy matters.

`TerminalProofs`:

- `TypeCorrect`, `FieldInView`, `NoRemains`, `PromptStays`, `ScreenIsShown`:
  `Spec` implies `TypeOK`, `InputInView`, `BlankAfterEnd`, `PromptBeforeInput` and
  `ScreenShown`.
- `HistoryIsKept`: `Spec => HistoryKept`, the action property.
- `ImplementsLineEditor`: `Spec => IsALineEditor`, the refinement of `LineEditor`.

They hold for any number and size of screens, any prompt and any characters.
None of the invariants is inductive: that a cursor stays in the buffer after a
`putc()` depends on where the input starts, this on where the prompt was
printed, and both on what a scroll has moved. `IInv` therefore says where
everything is. The current screen is, by phase, `AtPrompt` (the field of the
input starts right after a prompt that starts on a row in view, the cursor is
in it at `input_cursor`, what follows the text is blank), `AtRead` (the same on
an empty row, without prompt) or `AtOutput` (blank from the cursor on); the
other screens are `AtPrompt` or were never shown; the CRTC has the cursor of
the current screen, and the VGA its rows. The proof goes up the calls of
`terminal.c`: the ports and the CRTC (`CursorPut`), the redraws, the scrolls,
one `putc()` (`PutPrintableFacts`, `PutNewlineFacts`), then a whole sequence of
them. For this last one, `PutAllFacts`, the induction is on the number of
characters (`SetInduction`, from the existence of a least counterexample): the
first k characters of a text that starts at cell p of row r are in the cells
from there on, k rows up if the buffer has scrolled meanwhile, and the rest of
the buffer has moved with them. `EditFacts` turns this into what
one key does to the field, with one lemma per key
(`PutcInputFacts`, `DelInputFacts`, `DelForwardFacts`, `MoveFacts`). The
refinement has one lemma per action (`EditorPutc` to `EditorAnswered`): a key
changes the line of the current screen as `LineEditor` does, and the fields of
the other screens do not change.

Only model-checked:

- liveness, which is outside of the prover's fragment: `ScancodesTaken`,
  `IrqsDelivered`, `BackInStep`, `BootGoesOn`, `RebootResets`
  (of `BackInStep` and `BootGoesOn` the ranking is proved, see above);
- `ScreenByDigit`, which rests on the maps of the keyboard; they are written with
  `:>` and `@@`, which the provers do not expand.
- `Printk`. `PrintedRight` reads a number back with a fold over its text, and what
  a fold computes for every text is an induction over data, which is out of
  reach here. `ArgumentsInStep` would need to assume of every call that its
  arguments are those of its format, which is what it says.

## 6. Disagreements with the documentation

Two are the counterexamples of runs.

- `terminal_read`: `README.md` 166 says that `put_screen` copies the buffer to
  the VGA. A newline on the last row of the buffer moves the cells up
  (`kernel/terminal.c` 203) without redrawing. Every command then prints a
  prompt, which redraws; a `read` does not, so the page stays one row behind
  until the next key.
- `boot_cascade`: `pic.c` 26 says that the slave is connected to the master's IRQ2
  "and vice versa", and `README.md` 136 that the mouse has vector 0x2C. `pic.c` 30
  sends the slave `1 << 2` (`inc/pic.h` 106), that is 4: the master takes a set of
  lines there but the slave the number of one, 2. An 8259A given 4 leaves the
  IRQs of the slave without a vector. QEMU ignores the byte, so the mouse works
  there; the runs and theorems about IRQ12 are about such PICs.

The others follow from the definitions, or are behind a precondition of a
property, which is stated there:

- `README.md` 95 says that Ctrl and 0-9 switch screens; with Caps Lock (or without
  Shift on Azerty) the key has no digit and is ignored (`keyboard.c` 223,
  `ScreenByDigit`).
- `strcmp()` and `strlen()` return a `uint32_t` (`string.c` 3, 13), so that a
  negative difference is a huge positive number. The shell, which is the only
  caller of `strcmp()`, compares it with 0 only (`shell.c` 179-185).
- `multiboot.c` 29-53 reads 24 bytes of every entry of the memory map, whatever
  size the entry gives; a shorter one at the end of the map would be read past it
  (`Legal` leaves it out; GRUB's entries have 24 bytes).
- `inc/terminal.h` 35-37 says that the cursor is disabled while output is
  printed. `vga_set_cursor_visibility()` adds the register number to the port
  instead of selecting the register (`kernel/io/vga.c` 30-48); nothing is hidden
  (in `Vga` the writes change nothing).
- `kernel/terminal.c` 14 promises 200 lines of scrollback per screen; the value it
  comments, `35 - VGA_HEIGHT`, leaves ten (`TERMINAL_EXTRA_LINES`).
- `README.md` 91 calls Caps Lock an alphabetic mode; it also changes digits and
  signs (`keyboard.c` 205-215, `Console`).
- `README.md` 131 says that only the 16 IRQ gates are installed;
  `interrupt_init()` also installs those of 20 exceptions (`interrupt.c` 20-21,
  `Boot!GateVectors`).
- `inc/mouse.h` 5-8 says that the wheel is enabled when the mouse has one. A key
  pressed during the dialogue is read as an answer: the wheel may be missed, or
  be found where there is none when the scancode is 3 (`WheelFound` and
  `WheelIsReal` require that no key is pressed). A mouse that answers after the
  wait has given up has the same effect on `WheelFound`.
- `mouse.c` 110-111 and 128-129 write two commands in a row without a wait. A
  controller that has not read the first one loses it, ENABLE_KEYBOARD for
  instance, or the configuration with the interrupt of the mouse in it
  (`SettingsKept` and `PortHandedOver` require a controller that reads at once).
- `mouse.c` 146 takes any 3 for the ID of a wheel. A firmware without translation
  and with both devices and interrupts on has the configuration 3, which a late
  controller could send at that point (`Ps2Assumption` excludes it: `keyboard.c`
  would understand no key on such a machine).
- An IRQ1 latched by a key that `mouse_init()` then takes makes the keyboard
  handler push an old byte (what `PortHandedOver` says of IRQ1 requires that no
  key was pressed; `KeyBuffer` and `KeyPath` include that byte).
- `mouse.c` 61 has bit 3 "always set in the first byte of a packet, used to stay in
  sync"; the other bytes may have it too, and a mouse that keeps moving so keeps the handler out
  of step (`calm` in `BackInStep` and `WheelIsArrows`).
- Two Ctrl keys share a flag (`keyboard.c` 188): releasing one forgets the other.
- `inc/stack.h` says that the dump goes up to the top of the stack; it stops
  after `STACK_DUMP_BYTES` bytes, and its test for the end of a string may read
  the byte above the stack (`stack.c` 84-85, `WalksInBounds`).
- `print_entry()` passes a length of 64 bits to `%d` (`multiboot.c` 7), and
  `lower * 1024` is computed on 32 bits. A format that ends in `%` makes
  `printk()` read past its end; no call has one.

## 7. Not modelled

- `terminal_putnbr_output()` and `check_bss()`: no code reaches them.
- The linker script, the section macros and the Multiboot header, which are data
  for the linker and for GRUB; `hang()` and what `kernel_entry` does after
  `kernel_main()`, which does not return.
- Wording: headings, notes and names of the printed tables, and the commands
  `help`, `pmultiboot` and `pstack` beyond what they read.
- What an exception does after its return to the faulting instruction:
  `README.md` 188 announces handlers as future work.
- Colors beyond the number of the screen; the two maps of the keyboard beyond the
  keys of `Console`, which are constants.

## 8. Plan

1. *Done*: `KeyBuffer`, `Terminal`, `LineEditor`, `Console`, `KeyPath`, `Ps2`,
   `MousePackets`, `Interrupts`, `Boot`, `Printk`, `Memory`, each with its run.
2. *Done*: every safety property of `KeyBuffer`, `KeyPath`, `Ps2`, `MousePackets`,
   `Interrupts`, `Boot`, `Console`, `Memory` and `Terminal` proved, both
   refinements, the step from `Console` to `LineEditor`, and the rankings behind
   `BackInStep` and `BootGoesOn`.
3. Left: lemmas about the helpers of `Printk` that do not read a text back: the width
   of a padded number, the place of its sign, the count that is returned.
