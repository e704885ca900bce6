-------------------------------- MODULE Vga ---------------------------------
(***************************************************************************)
(* The VGA text mode as vga.c drives it: the visible page of the memory at *)
(* 0xB8000, and the CRT controller behind the index port 0x3D4 and the     *)
(* data port 0x3D5, which holds the place and the shape of the cursor.     *)
(***************************************************************************)
EXTENDS Integers

CONSTANTS TERMINAL_WIDTH,   \* columns, VGA_WIDTH
          VGA_HEIGHT        \* rows

ASSUME VgaAssumption == /\ TERMINAL_WIDTH \in Nat \ {0}
                        /\ VGA_HEIGHT \in Nat \ {0}

VisibleCells == 0 .. VGA_HEIGHT * TERMINAL_WIDTH - 1

-----------------------------------------------------------------------------
(* The CRT controller: a port write selects a register or writes the       *)
(* selected one.  Other ports are not its own.                             *)

VGA_CURSOR_PORT_COMMAND == 980                           \* 0x3D4
VGA_CURSOR_PORT_DATA    == VGA_CURSOR_PORT_COMMAND + 1   \* 0x3D5

CURSOR_START == 10   \* 0x0A, bit 5 turns the cursor off
CURSOR_END   == 11   \* 0x0B
VGA_CURSOR_PORT_LOW  == 14   \* 0x0E, high byte of the cursor's place
VGA_CURSOR_PORT_HIGH == 15   \* 0x0F, low byte of it

Registers == {CURSOR_START, CURSOR_END, VGA_CURSOR_PORT_LOW, VGA_CURSOR_PORT_HIGH}
Byte == 0 .. 255

CrtcType == [index : Byte, regs : [Registers -> Byte]]

outb(crtc, port, value) ==
  IF port = VGA_CURSOR_PORT_COMMAND
  THEN [crtc EXCEPT !.index = value]
  ELSE IF port = VGA_CURSOR_PORT_DATA /\ crtc.index \in Registers
       THEN [crtc EXCEPT !.regs[crtc.index] = value]
       ELSE crtc

\* A port nobody answers on reads as all ones.
inb(crtc, port) ==
  IF port = VGA_CURSOR_PORT_DATA /\ crtc.index \in Registers
  THEN crtc.regs[crtc.index]
  ELSE 255

CursorPlace(crtc) == crtc.regs[VGA_CURSOR_PORT_LOW] * 256 + crtc.regs[VGA_CURSOR_PORT_HIGH]
CursorOff(crtc)   == (crtc.regs[CURSOR_START] \div 32) % 2 = 1

\* What the firmware leaves: a cursor at the top left.
CrtcInit == [index |-> 0, regs |-> [r \in Registers |-> 0]]

-----------------------------------------------------------------------------
(* The functions of vga.c *)

vga_put_cursor(crtc, x, y) ==
  LET position == (y * TERMINAL_WIDTH + x) % 2^16
      low  == outb(outb(crtc, VGA_CURSOR_PORT_COMMAND, VGA_CURSOR_PORT_HIGH),
                   VGA_CURSOR_PORT_DATA, position % 256)
  IN  outb(outb(low, VGA_CURSOR_PORT_COMMAND, VGA_CURSOR_PORT_LOW),
           VGA_CURSOR_PORT_DATA, position \div 256)

\* v with bit 5 set: v | 0x20.
SetBit5(v) == IF (v \div 32) % 2 = 1 THEN v ELSE v + 32

\* The ports it uses are 0x3D4 + 0x0A and 0x3D4 + 0x0B.
vga_set_cursor_visibility(crtc, visible) ==
  LET start_port == VGA_CURSOR_PORT_COMMAND + 10
      end_port   == VGA_CURSOR_PORT_COMMAND + 11
      cursor_start == inb(crtc, start_port)
      cursor_end   == inb(crtc, end_port)
      start == outb(crtc, start_port, IF visible THEN cursor_start - (cursor_start % 64)
                                                 ELSE SetBit5(cursor_start))
  IN  outb(start, end_port, IF visible THEN cursor_end - (cursor_end % 32) ELSE cursor_end)

\* A cell below the visible rows goes to memory that is not displayed.
vga_set_cells(vga, cell, cells) ==
  [p \in VisibleCells |-> IF p \in cells THEN cell ELSE vga[p]]
=============================================================================
