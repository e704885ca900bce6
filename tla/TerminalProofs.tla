--------------------------- MODULE TerminalProofs ---------------------------
(***************************************************************************)
(* Proofs about Terminal, for screens of any size, any prompt and any      *)
(* length of the input that fits.                                          *)
(***************************************************************************)
EXTENDS Terminal, WellFoundedInduction, TLAPS

-----------------------------------------------------------------------------
(* Rows and positions *)

\* The position of the first cell of a row.
Row(y) == y * TERMINAL_WIDTH

LEMMA Sizes ==
  /\ TERMINAL_WIDTH \in Nat /\ TERMINAL_WIDTH >= 1
  /\ VGA_HEIGHT \in Nat /\ VGA_HEIGHT >= 1
  /\ TERMINAL_EXTRA_LINES \in Nat
  /\ TERMINAL_HEIGHT \in Nat /\ TERMINAL_HEIGHT = VGA_HEIGHT + TERMINAL_EXTRA_LINES
  /\ TERMINAL_HEIGHT >= 2 /\ TERMINAL_HEIGHT <= 256
  /\ INPUT_MAX \in Nat /\ INPUT_MAX >= 1
BY VgaAssumption, TerminalAssumption DEF TERMINAL_HEIGHT

LEMMA RowFacts ==
  /\ Row(0) = 0
  /\ \A a \in Int : Row(a) \in Int
  /\ \A a \in Nat : Row(a) \in Nat
  /\ \A a, b \in Int : Row(a + b) = Row(a) + Row(b) /\ Row(a - b) = Row(a) - Row(b)
  /\ Row(1) = TERMINAL_WIDTH
BY Sizes DEF Row

\* Rows do not overlap.
LEMMA RowOrder == ASSUME NEW a \in Int, NEW b \in Int, a < b PROVE Row(a) + TERMINAL_WIDTH <= Row(b)
<1>1. b - (a + 1) \in Nat /\ b = (a + 1) + (b - (a + 1))
  OBVIOUS
<1>2. Row(b) = Row(a + 1) + Row(b - (a + 1))
  BY <1>1, RowFacts
<1>3. Row(b - (a + 1)) \in Nat
  BY <1>1, RowFacts
<1>4. Row(a + 1) = Row(a) + TERMINAL_WIDTH /\ Row(a) \in Int /\ Row(a + 1) \in Int
  <2>1. Row(a + 1) = Row(a) + Row(1) /\ Row(1) = TERMINAL_WIDTH
    BY RowFacts
  <2>2. Row(a) \in Int
    BY RowFacts
  <2>3. Row(a + 1) \in Int
    <3>1. a + 1 \in Int
      OBVIOUS
    <3> QED BY <3>1, RowFacts
  <2> QED BY <2>1, <2>2, <2>3
<1> QED BY <1>2, <1>3, <1>4, Sizes

\* A position is a row and a column.
LEMMA Division ==
  ASSUME NEW w \in Nat, w > 0, NEW p \in Nat
  PROVE  \E q \in Nat : \E r \in 0 .. w - 1 : p \div w = q /\ p % w = r /\ p = q * w + r
<1>1. p \div w \in Nat /\ p % w \in 0 .. w - 1
  OBVIOUS
<1>2. \A q, r \in Nat : p \div w = q => (p % w = r => p = q * w + r)
  BY Z3
<1>3. PICK q \in Nat : p \div w = q
  BY <1>1
<1>4. PICK r \in 0 .. w - 1 : p % w = r
  BY <1>1
<1> QED BY <1>2, <1>3, <1>4

LEMMA RowAndColumn ==
  ASSUME NEW p \in Nat
  PROVE  \E y \in Nat : \E x \in 0 .. TERMINAL_WIDTH - 1 :
           p \div TERMINAL_WIDTH = y /\ p % TERMINAL_WIDTH = x /\ p = Row(y) + x
BY Sizes, Division DEF Row

\* The row of a position is the one it lies in.
LEMMA InRow ==
  ASSUME NEW y \in Int, NEW x \in 0 .. TERMINAL_WIDTH - 1, NEW b \in Int
  PROVE  /\ Row(y) + x < Row(b) <=> y < b
         /\ Row(b) <= Row(y) + x <=> b <= y
<1>1. Row(y) \in Int /\ Row(b) \in Int /\ x \in Int /\ TERMINAL_WIDTH \in Int /\ 0 <= x /\ x < TERMINAL_WIDTH
  <2>1. Row(y) \in Int /\ Row(b) \in Int
    BY RowFacts
  <2> QED BY <2>1, Sizes
<1>2. CASE y < b
  <2>1. Row(y) + TERMINAL_WIDTH <= Row(b)
    BY <1>2, RowOrder
  <2> QED BY <1>1, <1>2, <2>1
<1>3. CASE y = b
  BY <1>1, <1>3
<1>4. CASE b < y
  <2>1. Row(b) + TERMINAL_WIDTH <= Row(y)
    BY <1>4, RowOrder
  <2> QED BY <1>1, <1>4, <2>1
<1> QED BY <1>2, <1>3, <1>4

LEMMA PositionFacts ==
  /\ Positions = 0 .. Row(TERMINAL_HEIGHT) - 1
  /\ VisibleCells = 0 .. Row(VGA_HEIGHT) - 1
  /\ Row(TERMINAL_HEIGHT) \in Nat /\ Row(VGA_HEIGHT) \in Nat
  /\ Row(TERMINAL_HEIGHT) = Row(VGA_HEIGHT) + Row(TERMINAL_EXTRA_LINES)
  /\ Row(TERMINAL_HEIGHT) <= 2^16
  /\ Row(TERMINAL_EXTRA_LINES) \in Nat
BY Sizes, RowFacts, TerminalAssumption DEF Positions, VisibleCells, Row

-----------------------------------------------------------------------------
(* The working terminal *)

WorkType == [s : ScreenType, color : ScreenIds, vga : [VisibleCells -> Cells], crtc : CrtcType]

LEMMA ScreenFacts ==
  ASSUME NEW s \in ScreenType
  PROVE  /\ s.cursor_x \in 0 .. TERMINAL_WIDTH - 1 /\ s.cursor_y \in 0 .. TERMINAL_HEIGHT - 1
         /\ s.scroll_y \in 0 .. TERMINAL_EXTRA_LINES
         /\ s.input_size \in -1 .. INPUT_MAX /\ s.input_cursor \in 0 .. INPUT_MAX
         /\ s.initialized \in BOOLEAN /\ s.data \in [Positions -> Cells]
         /\ Position(s) = Row(s.cursor_y) + s.cursor_x
         /\ Position(s) \in Positions /\ Position(s) \in Nat
<1>1. /\ s.cursor_x \in 0 .. TERMINAL_WIDTH - 1 /\ s.cursor_y \in 0 .. TERMINAL_HEIGHT - 1
      /\ s.scroll_y \in 0 .. TERMINAL_EXTRA_LINES
      /\ s.input_size \in -1 .. INPUT_MAX /\ s.input_cursor \in 0 .. INPUT_MAX
      /\ s.initialized \in BOOLEAN /\ s.data \in [Positions -> Cells]
  BY DEF ScreenType
<1>2. Position(s) = Row(s.cursor_y) + s.cursor_x
  BY DEF Position, Row
<1>3. s.cursor_y \in Nat /\ s.cursor_x \in Nat /\ s.cursor_y < TERMINAL_HEIGHT /\ TERMINAL_HEIGHT \in Int
  BY <1>1, Sizes
<1>4. Row(s.cursor_y) + s.cursor_x < Row(TERMINAL_HEIGHT)
  BY <1>1, <1>3, InRow
<1>5. Row(s.cursor_y) \in Nat
  BY <1>3, RowFacts
<1>6. Position(s) \in Nat /\ Position(s) < Row(TERMINAL_HEIGHT)
  BY <1>2, <1>3, <1>4, <1>5
<1>7. Position(s) \in Positions
  BY <1>6, PositionFacts
<1> QED BY <1>1, <1>2, <1>6, <1>7

-----------------------------------------------------------------------------
(* The CRT controller *)

LEMMA PortWrites ==
  ASSUME NEW c \in CrtcType, NEW r \in Registers, NEW v \in Byte
  PROVE  /\ outb(c, VGA_CURSOR_PORT_COMMAND, r) \in CrtcType
         /\ outb(c, VGA_CURSOR_PORT_COMMAND, r).index = r
         /\ outb(c, VGA_CURSOR_PORT_COMMAND, r).regs = c.regs
         /\ c.index \in Registers =>
              /\ outb(c, VGA_CURSOR_PORT_DATA, v) \in CrtcType
              /\ outb(c, VGA_CURSOR_PORT_DATA, v).index = c.index
              /\ outb(c, VGA_CURSOR_PORT_DATA, v).regs = [c.regs EXCEPT ![c.index] = v]
<1>1. Registers \subseteq Byte
  BY DEF Registers, Byte, CURSOR_START, CURSOR_END, VGA_CURSOR_PORT_LOW, VGA_CURSOR_PORT_HIGH
<1>2. VGA_CURSOR_PORT_DATA # VGA_CURSOR_PORT_COMMAND
  BY DEF VGA_CURSOR_PORT_DATA, VGA_CURSOR_PORT_COMMAND
<1>3. outb(c, VGA_CURSOR_PORT_COMMAND, r) = [c EXCEPT !.index = r]
  BY DEF outb
<1>4. c.index \in Registers =>
        outb(c, VGA_CURSOR_PORT_DATA, v) = [c EXCEPT !.regs[c.index] = v]
  BY <1>2 DEF outb
<1> QED BY <1>1, <1>3, <1>4 DEF CrtcType

Low16(m) == m % 65536

LEMMA SixteenBits ==
  ASSUME NEW m \in Nat
  PROVE  Low16(m) \in Nat /\ Low16(m) < 65536 /\ (m < 65536 => Low16(m) = m)
BY DEF Low16

\* The cursor goes where it is put, and is seen as before.
LEMMA CursorPut ==
  ASSUME NEW c \in CrtcType, NEW x \in Nat, NEW y \in Nat
  PROVE  /\ vga_put_cursor(c, x, y) \in CrtcType
         /\ CursorOff(vga_put_cursor(c, x, y)) <=> CursorOff(c)
         /\ Row(y) + x < 2^16 => CursorPlace(vga_put_cursor(c, x, y)) = Row(y) + x
<1>1. PICK m \in Nat : m = Row(y) + x
  <2>1. Row(y) \in Nat
    BY RowFacts
  <2>2. Row(y) + x \in Nat
    BY <2>1
  <2> QED BY <2>2
<1>2. PICK n \in Nat : n = Low16(m) /\ n < 65536 /\ (m < 65536 => n = m)
  BY SixteenBits
<1>3. 2^16 = 65536
  BY SMT
<1>4. (y * TERMINAL_WIDTH + x) % 2^16 = n
  BY <1>1, <1>2, <1>3 DEF Low16, Row
<1> DEFINE c1  == outb(c, VGA_CURSOR_PORT_COMMAND, VGA_CURSOR_PORT_HIGH)
           low == outb(c1, VGA_CURSOR_PORT_DATA, n % 256)
           c2  == outb(low, VGA_CURSOR_PORT_COMMAND, VGA_CURSOR_PORT_LOW)
           put == outb(c2, VGA_CURSOR_PORT_DATA, n \div 256)
<1>5. vga_put_cursor(c, x, y) = put
  BY <1>4 DEF vga_put_cursor
<1>6. /\ VGA_CURSOR_PORT_HIGH \in Registers /\ VGA_CURSOR_PORT_LOW \in Registers
      /\ CURSOR_START \in Registers
      /\ CURSOR_START # VGA_CURSOR_PORT_HIGH /\ CURSOR_START # VGA_CURSOR_PORT_LOW
      /\ VGA_CURSOR_PORT_HIGH # VGA_CURSOR_PORT_LOW
  BY DEF Registers, CURSOR_START, CURSOR_END, VGA_CURSOR_PORT_LOW, VGA_CURSOR_PORT_HIGH
<1>7. PICK hi \in Byte, lo \in Byte : n \div 256 = hi /\ n % 256 = lo /\ n = hi * 256 + lo
  <2>1. n \in Nat /\ 256 \in Nat /\ 256 > 0
    OBVIOUS
  <2>2. PICK q \in Nat : \E r \in 0 .. 256 - 1 : n \div 256 = q /\ n % 256 = r /\ n = q * 256 + r
    BY <2>1, Division
  <2>3. PICK r \in 0 .. 255 : n \div 256 = q /\ n % 256 = r /\ n = q * 256 + r
    BY <2>2
  <2>4. q \in Byte /\ r \in Byte
    <3>1. n < 65536 /\ n = q * 256 + r /\ 0 <= r /\ r <= 255 /\ q \in Nat
      BY <1>2, <2>2, <2>3
    <3>2. q <= 255
      BY <3>1
    <3> QED BY <3>1, <3>2 DEF Byte
  <2> QED BY <2>3, <2>4
<1>8. c1 \in CrtcType /\ c1.index = VGA_CURSOR_PORT_HIGH /\ c1.regs = c.regs
  <2>1. VGA_CURSOR_PORT_HIGH \in Registers /\ lo \in Byte /\ c \in CrtcType
    BY <1>6, <1>7
  <2> QED BY ONLY <2>1, PortWrites DEF c1
<1> HIDE DEF c1
<1>9. /\ low \in CrtcType
      /\ low.regs = [c.regs EXCEPT ![VGA_CURSOR_PORT_HIGH] = lo]
  <2>1. VGA_CURSOR_PORT_HIGH \in Registers /\ lo \in Byte /\ low = outb(c1, VGA_CURSOR_PORT_DATA, lo)
    BY <1>6, <1>7
  <2> QED BY ONLY <1>8, <2>1, PortWrites
<1> HIDE DEF low
<1>10. c2 \in CrtcType /\ c2.index = VGA_CURSOR_PORT_LOW /\ c2.regs = low.regs
  <2>1. VGA_CURSOR_PORT_LOW \in Registers /\ hi \in Byte /\ low \in CrtcType
    BY <1>6, <1>7, <1>9
  <2> QED BY ONLY <2>1, PortWrites DEF c2
<1> HIDE DEF c2
<1>11. /\ put \in CrtcType
      /\ put.regs = [low.regs EXCEPT ![VGA_CURSOR_PORT_LOW] = hi]
  <2>1. VGA_CURSOR_PORT_LOW \in Registers /\ hi \in Byte /\ put = outb(c2, VGA_CURSOR_PORT_DATA, hi)
    BY <1>6, <1>7
  <2> QED BY ONLY <1>10, <2>1, PortWrites
<1> HIDE DEF put
<1>12. c.regs \in [Registers -> Byte]
  BY DEF CrtcType
<1>13. /\ put.regs[VGA_CURSOR_PORT_LOW] = hi /\ put.regs[VGA_CURSOR_PORT_HIGH] = lo
       /\ put.regs[CURSOR_START] = c.regs[CURSOR_START]
  BY <1>6, <1>9, <1>11, <1>12
<1>14. CursorPlace(put) = n
  <2>1. CursorPlace(put) = hi * 256 + lo
    BY <1>13 DEF CursorPlace
  <2> QED BY <1>7, <2>1
<1>15. CursorOff(put) <=> CursorOff(c)
  BY <1>13 DEF CursorOff
<1>16. m < 65536 => CursorPlace(put) = m
  BY ONLY <1>14, <1>2
<1>17. Row(y) + x < 2^16 => CursorPlace(put) = Row(y) + x
  BY ONLY <1>1, <1>3, <1>16
<1> QED BY <1>5, <1>11, <1>15, <1>17

\* vga_set_cursor_visibility() writes to ports that are not the controller's.
LEMMA VisibilityIsLost ==
  ASSUME NEW c, NEW visible
  PROVE  vga_set_cursor_visibility(c, visible) = c
BY DEF vga_set_cursor_visibility, outb, inb, VGA_CURSOR_PORT_COMMAND, VGA_CURSOR_PORT_DATA

-----------------------------------------------------------------------------
(* The cursor and the scrolling *)

\* The VGA shows the rows of the screen, and the cursor on its place.
ShownBy(t)  == t.vga = Window(t.s)
CursorAt(t) == /\ ~CursorOff(t.crtc)
               /\ CursorPlace(t.crtc) = Position(t.s) - Row(t.s.scroll_y)

\* The cursor is on a row that is shown.
InView(s) == s.scroll_y <= s.cursor_y /\ s.cursor_y < s.scroll_y + VGA_HEIGHT

LEMMA RowMono == ASSUME NEW a \in Int, NEW b \in Int, a <= b PROVE Row(a) <= Row(b)
<1>1. Row(a) \in Int /\ Row(b) \in Int
  BY RowFacts
<1>2. CASE a = b
  BY <1>1, <1>2
<1>3. CASE a < b
  BY <1>1, <1>3, RowOrder, Sizes
<1> QED BY <1>2, <1>3

LEMMA WorkFacts ==
  ASSUME NEW t \in WorkType
  PROVE  /\ t.s \in ScreenType /\ t.color \in ScreenIds
         /\ t.vga \in [VisibleCells -> Cells] /\ t.crtc \in CrtcType
         /\ BlankCell(t) \in Cells
BY DEF WorkType, BlankCell, Cells, Characters

LEMMA WindowType == ASSUME NEW s \in ScreenType PROVE Window(s) \in [VisibleCells -> Cells]
<1>1. s.scroll_y \in 0 .. TERMINAL_EXTRA_LINES /\ s.data \in [Positions -> Cells]
  BY ScreenFacts
<1>2. Row(s.scroll_y) \in Nat /\ Row(s.scroll_y) <= Row(TERMINAL_EXTRA_LINES)
  <2>1. s.scroll_y \in Nat /\ s.scroll_y \in Int /\ TERMINAL_EXTRA_LINES \in Int /\ s.scroll_y <= TERMINAL_EXTRA_LINES
    BY <1>1, Sizes
  <2> QED BY <2>1, RowFacts, RowMono
<1>3. \A p \in VisibleCells : Row(s.scroll_y) + p \in Positions
  BY <1>2, PositionFacts
<1>4. Window(s) = [p \in VisibleCells |-> s.data[Row(s.scroll_y) + p]]
  BY DEF Window, Row
<1> QED BY <1>1, <1>3, <1>4

LEMMA PutCursorFacts ==
  ASSUME NEW t \in WorkType
  PROVE  /\ PutCursor(t) \in WorkType
         /\ PutCursor(t).s = t.s /\ PutCursor(t).color = t.color /\ PutCursor(t).vga = t.vga
         /\ CursorOff(PutCursor(t).crtc) <=> CursorOff(t.crtc)
         /\ t.s.scroll_y <= t.s.cursor_y /\ ~CursorOff(t.crtc) => CursorAt(PutCursor(t))
<1> DEFINE x == t.s.cursor_x
           y == y_to_vga(t.s, t.s.cursor_y)
<1>1. /\ t.crtc \in CrtcType
      /\ x \in 0 .. TERMINAL_WIDTH - 1 /\ t.s.cursor_y \in 0 .. TERMINAL_HEIGHT - 1
      /\ t.s.scroll_y \in 0 .. TERMINAL_EXTRA_LINES
      /\ Position(t.s) = Row(t.s.cursor_y) + x /\ Position(t.s) \in Positions
  BY WorkFacts, ScreenFacts
<1>2. x \in Nat /\ y \in Nat /\ (t.s.scroll_y <= t.s.cursor_y => y = t.s.cursor_y - t.s.scroll_y)
  <2>1. y = (t.s.cursor_y - t.s.scroll_y) % 256 /\ t.s.cursor_y - t.s.scroll_y \in Int
    BY <1>1, Sizes DEF y_to_vga
  <2>2. t.s.scroll_y <= t.s.cursor_y => t.s.cursor_y - t.s.scroll_y \in 0 .. 255
    <3>1. t.s.cursor_y \in Nat /\ t.s.cursor_y <= 255 /\ t.s.scroll_y \in Nat
      BY <1>1, Sizes
    <3>2. \A a, b \in Nat : a <= 255 /\ b <= a => a - b \in 0 .. 255
      OBVIOUS
    <3> QED BY <3>1, <3>2
  <2> QED BY <1>1, <2>1, <2>2, Sizes
<1> HIDE DEF y
<1>3. PutCursor(t) = [t EXCEPT !.crtc = vga_put_cursor(t.crtc, x, y)]
  BY DEF PutCursor, y
<1>4. /\ vga_put_cursor(t.crtc, x, y) \in CrtcType
      /\ CursorOff(vga_put_cursor(t.crtc, x, y)) <=> CursorOff(t.crtc)
      /\ Row(y) + x < 2^16 => CursorPlace(vga_put_cursor(t.crtc, x, y)) = Row(y) + x
  BY <1>1, <1>2, CursorPut
<1>5. /\ PutCursor(t) \in WorkType
      /\ PutCursor(t).s = t.s /\ PutCursor(t).color = t.color /\ PutCursor(t).vga = t.vga
      /\ PutCursor(t).crtc = vga_put_cursor(t.crtc, x, y)
  BY <1>3, <1>4 DEF WorkType
<1>6. ASSUME t.s.scroll_y <= t.s.cursor_y, ~CursorOff(t.crtc) PROVE CursorAt(PutCursor(t))
  <2>1. Row(y) = Row(t.s.cursor_y) - Row(t.s.scroll_y) /\ Row(t.s.scroll_y) \in Nat /\ Row(y) \in Nat
    <3>1. t.s.cursor_y \in Int /\ t.s.scroll_y \in Int /\ t.s.scroll_y \in Nat
      BY <1>1, Sizes
    <3> QED BY <1>2, <1>6, <3>1, RowFacts
  <2>2. Row(y) + x = Position(t.s) - Row(t.s.scroll_y) /\ Row(y) + x < 2^16
    <3>1. Position(t.s) < Row(TERMINAL_HEIGHT) /\ Row(TERMINAL_HEIGHT) <= 2^16
      BY <1>1, PositionFacts
    <3>2. Row(t.s.cursor_y) \in Nat /\ Row(TERMINAL_HEIGHT) \in Nat
      <4>1. t.s.cursor_y \in Nat
        BY <1>1
      <4> QED BY <4>1, RowFacts, PositionFacts
    <3>3. 2^16 = 65536
      BY SMT
    <3> QED BY <1>1, <2>1, <3>1, <3>2, <3>3
  <2> QED BY <1>4, <1>5, <1>6, <2>2 DEF CursorAt
<1> QED BY <1>4, <1>5, <1>6

LEMMA PutScreenFacts ==
  ASSUME NEW t \in WorkType
  PROVE  /\ put_screen(t) \in WorkType /\ ShownBy(put_screen(t))
         /\ put_screen(t).s = t.s /\ put_screen(t).color = t.color /\ put_screen(t).crtc = t.crtc
BY WorkFacts, WindowType DEF put_screen, WorkType, ShownBy

\* The same but for the scrolling.
SameText(s, u) ==
  /\ u.cursor_x = s.cursor_x /\ u.cursor_y = s.cursor_y /\ Position(u) = Position(s)
  /\ u.input_size = s.input_size /\ u.input_cursor = s.input_cursor
  /\ u.initialized = s.initialized /\ u.data = s.data

LEMMA Rescrolled ==
  ASSUME NEW t \in WorkType, NEW n \in 0 .. TERMINAL_EXTRA_LINES
  PROVE  /\ [t EXCEPT !.s.scroll_y = n] \in WorkType
         /\ SameText(t.s, [t EXCEPT !.s.scroll_y = n].s)
         /\ [t EXCEPT !.s.scroll_y = n].s.scroll_y = n
         /\ [t EXCEPT !.s.scroll_y = n].color = t.color
         /\ [t EXCEPT !.s.scroll_y = n].crtc = t.crtc
         /\ [t EXCEPT !.s.scroll_y = n].vga = t.vga
BY DEF WorkType, ScreenType, SameText, Position

\* Scrolling to a row, as scroll_up() and scroll_down() do.
LEMMA ScrollTo ==
  ASSUME NEW t \in WorkType, NEW n \in 0 .. TERMINAL_EXTRA_LINES, n <= t.s.cursor_y,
         NEW a, a = PutCursor(put_screen([t EXCEPT !.s.scroll_y = n]))
  PROVE  /\ a \in WorkType /\ SameText(t.s, a.s) /\ a.s.scroll_y = n /\ a.color = t.color
         /\ ShownBy(a)
         /\ CursorOff(a.crtc) <=> CursorOff(t.crtc)
         /\ ~CursorOff(t.crtc) => CursorAt(a)
<1> DEFINE u == [t EXCEPT !.s.scroll_y = n]
           v == put_screen(u)
<1>1. /\ u \in WorkType /\ SameText(t.s, u.s) /\ u.s.scroll_y = n /\ u.color = t.color
      /\ u.crtc = t.crtc
  BY Rescrolled
<1>2. v \in WorkType /\ ShownBy(v) /\ v.s = u.s /\ v.color = u.color /\ v.crtc = u.crtc
  BY <1>1, PutScreenFacts
<1> HIDE DEF u, v
<1>3. /\ a \in WorkType /\ a.s = v.s /\ a.color = v.color /\ a.vga = v.vga
      /\ CursorOff(a.crtc) <=> CursorOff(v.crtc)
      /\ v.s.scroll_y <= v.s.cursor_y /\ ~CursorOff(v.crtc) => CursorAt(a)
  BY <1>2, PutCursorFacts DEF u, v
<1>4. v.s.scroll_y <= v.s.cursor_y
  BY <1>1, <1>2 DEF SameText
<1>5. ShownBy(a)
  BY <1>2, <1>3 DEF ShownBy
<1> QED BY <1>1, <1>2, <1>3, <1>4, <1>5

\* The cursor comes into view, with as little scrolling as needed.
LEMMA AlignFacts ==
  ASSUME NEW t \in WorkType, NEW a, a = align_scroll_to_cursor(t)
  PROVE  /\ a \in WorkType /\ SameText(t.s, a.s) /\ a.color = t.color
         /\ CursorOff(a.crtc) <=> CursorOff(t.crtc)
         /\ InView(a.s)
         /\ a.s.scroll_y <= t.s.scroll_y \/ a.s.scroll_y = a.s.cursor_y - VGA_HEIGHT + 1
         /\ \/ a = t
            \/ ShownBy(a) /\ (~CursorOff(t.crtc) => CursorAt(a))
<1> DEFINE s == t.s
           scroll == IF s.cursor_y < s.scroll_y THEN s.cursor_y
                     ELSE IF s.cursor_y >= s.scroll_y + VGA_HEIGHT
                          THEN s.cursor_y - VGA_HEIGHT + 1
                          ELSE s.scroll_y
<1>1. /\ s.cursor_y \in 0 .. TERMINAL_HEIGHT - 1 /\ s.scroll_y \in 0 .. TERMINAL_EXTRA_LINES
      /\ VGA_HEIGHT \in Nat /\ VGA_HEIGHT >= 1 /\ TERMINAL_EXTRA_LINES \in Nat
      /\ TERMINAL_HEIGHT = VGA_HEIGHT + TERMINAL_EXTRA_LINES
  BY WorkFacts, ScreenFacts, Sizes
<1>2. a = IF scroll = s.scroll_y THEN t
          ELSE PutCursor(put_screen([t EXCEPT !.s.scroll_y = scroll]))
  BY DEF align_scroll_to_cursor
<1>3. /\ scroll \in 0 .. TERMINAL_EXTRA_LINES
      /\ scroll <= s.cursor_y /\ s.cursor_y < scroll + VGA_HEIGHT
      /\ scroll <= s.scroll_y \/ scroll = s.cursor_y - VGA_HEIGHT + 1
  <2>1. \A y, o, v, e \in Nat :
          v >= 1 /\ y <= v + e - 1 /\ o <= e =>
            LET m == IF y < o THEN y ELSE IF y >= o + v THEN y - v + 1 ELSE o
            IN  m \in 0 .. e /\ m <= y /\ y < m + v /\ (m <= o \/ m = y - v + 1)
    OBVIOUS
  <2>2. s.cursor_y \in Nat /\ s.scroll_y \in Nat /\ s.cursor_y <= VGA_HEIGHT + TERMINAL_EXTRA_LINES - 1
        /\ s.scroll_y <= TERMINAL_EXTRA_LINES
    BY <1>1
  <2> QED BY <1>1, <2>1, <2>2
<1> HIDE DEF scroll
<1>4. CASE scroll = s.scroll_y
  <2>1. a = t
    BY <1>2, <1>4
  <2> QED BY <1>3, <1>4, <2>1 DEF SameText, InView
<1>5. CASE scroll # s.scroll_y
  <2>1. a = PutCursor(put_screen([t EXCEPT !.s.scroll_y = scroll]))
    BY <1>2, <1>5
  <2>2. /\ a \in WorkType /\ SameText(t.s, a.s) /\ a.s.scroll_y = scroll /\ a.color = t.color
        /\ ShownBy(a) /\ (CursorOff(a.crtc) <=> CursorOff(t.crtc))
        /\ ~CursorOff(t.crtc) => CursorAt(a)
    BY <1>3, <2>1, ScrollTo
  <2> QED BY <1>3, <2>2 DEF SameText, InView
<1> QED BY <1>4, <1>5

\* Where the cursor goes, what is shown stays shown.
LEMMA MoveCursorFacts ==
  ASSUME NEW t \in WorkType, NEW offset \in Int, Position(t.s) + offset \in Positions,
         ~CursorOff(t.crtc), NEW m, m = move_cursor(t, offset)
  PROVE  /\ m \in WorkType /\ m.color = t.color
         /\ Position(m.s) = Position(t.s) + offset
         /\ m.s.input_size = t.s.input_size /\ m.s.input_cursor = t.s.input_cursor
         /\ m.s.initialized = t.s.initialized /\ m.s.data = t.s.data
         /\ InView(m.s)
         /\ m.s.scroll_y <= t.s.scroll_y \/ m.s.scroll_y = m.s.cursor_y - VGA_HEIGHT + 1
         /\ ShownBy(t) => ShownBy(m)
         /\ CursorAt(m)
<1> DEFINE position == Position(t.s) + offset
<1>1. position \in Nat /\ position < Row(TERMINAL_HEIGHT)
  BY PositionFacts
<1>2. PICK y \in Nat : \E x \in 0 .. TERMINAL_WIDTH - 1 :
        position \div TERMINAL_WIDTH = y /\ position % TERMINAL_WIDTH = x /\ position = Row(y) + x
  BY <1>1, RowAndColumn
<1>3. PICK x \in 0 .. TERMINAL_WIDTH - 1 :
        position \div TERMINAL_WIDTH = y /\ position % TERMINAL_WIDTH = x /\ position = Row(y) + x
  BY <1>2
<1> DEFINE u == [t EXCEPT !.s.cursor_x = x, !.s.cursor_y = y]
           a == align_scroll_to_cursor(u)
<1>4. m = PutCursor(a)
  BY <1>3 DEF move_cursor
<1>5. y \in 0 .. TERMINAL_HEIGHT - 1
  <2>1. y \in Int /\ TERMINAL_HEIGHT \in Int
    BY Sizes
  <2>2. y < TERMINAL_HEIGHT
    BY <1>1, <1>3, <2>1, InRow
  <2> QED BY <2>1, <2>2
<1> HIDE DEF position
<1>6. /\ u \in WorkType /\ u.color = t.color /\ u.crtc = t.crtc /\ u.vga = t.vga
      /\ u.s.cursor_x = x /\ u.s.cursor_y = y /\ u.s.scroll_y = t.s.scroll_y
      /\ u.s.input_size = t.s.input_size /\ u.s.input_cursor = t.s.input_cursor
      /\ u.s.initialized = t.s.initialized /\ u.s.data = t.s.data
  BY <1>5 DEF WorkType, ScreenType
<1>7. Position(u.s) = position
  BY <1>3, <1>6 DEF Position, Row
<1> HIDE DEF u
<1>8. /\ a \in WorkType /\ SameText(u.s, a.s) /\ a.color = u.color
      /\ CursorOff(a.crtc) <=> CursorOff(u.crtc)
      /\ InView(a.s)
      /\ a.s.scroll_y <= u.s.scroll_y \/ a.s.scroll_y = a.s.cursor_y - VGA_HEIGHT + 1
      /\ a = u \/ ShownBy(a)
  BY <1>6, AlignFacts
<1> HIDE DEF a
<1>9. /\ m \in WorkType /\ m.s = a.s /\ m.color = a.color /\ m.vga = a.vga
      /\ a.s.scroll_y <= a.s.cursor_y /\ ~CursorOff(a.crtc) => CursorAt(m)
  BY <1>4, <1>8, PutCursorFacts
<1>10. CursorAt(m)
  BY <1>6, <1>8, <1>9 DEF InView
<1>11. ASSUME ShownBy(t) PROVE ShownBy(m)
  <2>1. ShownBy(u)
    BY <1>6, <1>11 DEF ShownBy, Window
  <2> QED BY <1>8, <1>9, <2>1 DEF ShownBy
<1> QED BY <1>6, <1>7, <1>8, <1>9, <1>10, <1>11 DEF SameText, InView, position

-----------------------------------------------------------------------------
(* putc() *)

\* A terminal whose cursor may be on the row below the last one.
RoomType == [s : [cursor_x : 0 .. TERMINAL_WIDTH - 1,
                  cursor_y : 0 .. TERMINAL_HEIGHT,
                  scroll_y : 0 .. TERMINAL_EXTRA_LINES,
                  input_size   : -1 .. INPUT_MAX,
                  input_cursor : 0 .. INPUT_MAX,
                  initialized  : BOOLEAN,
                  data : [Positions -> Cells]],
             color : ScreenIds, vga : [VisibleCells -> Cells], crtc : CrtcType]

\* The same input field and the same scrolling.
SameField(s, u) ==
  /\ u.scroll_y = s.scroll_y /\ u.input_size = s.input_size /\ u.input_cursor = s.input_cursor
  /\ u.initialized = s.initialized

LEMMA RoomFacts ==
  ASSUME NEW t \in RoomType, t.s.cursor_y < TERMINAL_HEIGHT
  PROVE  t \in WorkType
<1>1. t.s.cursor_y \in 0 .. TERMINAL_HEIGHT - 1
  BY Sizes DEF RoomType
<1>2. t.s \in ScreenType
  BY <1>1 DEF RoomType, ScreenType
<1> QED BY <1>2 DEF RoomType, WorkType

\* All rows move up by one.
LEMMA MoveUpFacts ==
  ASSUME NEW t \in RoomType, t.s.cursor_y >= 1, NEW u, u = move_screen_up(t)
  PROVE  /\ u \in WorkType /\ u.color = t.color /\ u.vga = t.vga /\ u.crtc = t.crtc
         /\ u.s.cursor_x = t.s.cursor_x /\ u.s.cursor_y = t.s.cursor_y - 1
         /\ SameField(t.s, u.s)
         /\ \A p \in Positions : u.s.data[p] = IF p + TERMINAL_WIDTH \in Positions
                                               THEN t.s.data[p + TERMINAL_WIDTH] ELSE BlankCell(t)
<1> DEFINE data == [p \in Positions |-> IF p + TERMINAL_WIDTH \in Positions
                                        THEN t.s.data[p + TERMINAL_WIDTH] ELSE BlankCell(t)]
<1>1. BlankCell(t) \in Cells /\ t.s.data \in [Positions -> Cells]
  BY DEF RoomType, BlankCell, Cells, Characters
<1>2. data \in [Positions -> Cells]
  BY <1>1
<1>3. u = [t EXCEPT !.s.data = data, !.s.cursor_y = @ - 1]
  BY DEF move_screen_up
<1>4. \A p \in Positions : data[p] = IF p + TERMINAL_WIDTH \in Positions
                                     THEN t.s.data[p + TERMINAL_WIDTH] ELSE BlankCell(t)
  OBVIOUS
<1> HIDE DEF data
<1>5. t.s.cursor_y - 1 \in 0 .. TERMINAL_HEIGHT - 1
  <2>1. t.s.cursor_y \in 0 .. TERMINAL_HEIGHT
    BY DEF RoomType
  <2> QED BY <2>1, Sizes
<1>6. u \in WorkType
  <2>1. u.s = [t.s EXCEPT !.data = data, !.cursor_y = @ - 1]
    BY <1>3 DEF RoomType
  <2>2. u.s \in ScreenType
    BY <1>2, <1>5, <2>1 DEF RoomType, ScreenType
  <2>3. u = [t EXCEPT !.s = u.s]
    BY <1>3, <2>1
  <2> QED BY <2>2, <2>3 DEF RoomType, WorkType
<1>7. /\ u.color = t.color /\ u.vga = t.vga /\ u.crtc = t.crtc
      /\ u.s.cursor_x = t.s.cursor_x /\ u.s.cursor_y = t.s.cursor_y - 1
      /\ SameField(t.s, u.s) /\ u.s.data = data
  <2>1. u.color = t.color /\ u.vga = t.vga /\ u.crtc = t.crtc
    BY <1>3 DEF RoomType
  <2>2. u.s = [t.s EXCEPT !.data = data, !.cursor_y = @ - 1]
    BY <1>3 DEF RoomType
  <2>3. u.s.cursor_x = t.s.cursor_x /\ u.s.cursor_y = t.s.cursor_y - 1 /\ u.s.data = data
    BY <2>2 DEF RoomType
  <2>4. SameField(t.s, u.s)
    BY <2>2 DEF RoomType, SameField
  <2> QED BY <2>1, <2>3, <2>4
<1> QED BY <1>4, <1>6, <1>7

\* The cell of a buffer after its rows moved up k times.
ShiftedCell(t, k, q) ==
  IF q + Row(k) \in Positions THEN t.s.data[q + Row(k)] ELSE BlankCell(t)

\* r is t with the first n of cs written at the cursor, after which the rows have
\* moved up k times.
Written(t, r, cs, n, k) ==
  /\ r \in WorkType /\ r.color = t.color /\ ~CursorOff(r.crtc)
  /\ r.s.input_size = t.s.input_size /\ r.s.input_cursor = t.s.input_cursor
  /\ r.s.initialized = t.s.initialized
  /\ Position(r.s) = Position(t.s) + n - Row(k)
  /\ k > 0 => Row(TERMINAL_HEIGHT - 1) <= Position(r.s)
  /\ \A q \in Positions :
       r.s.data[q] = IF Position(r.s) - n <= q /\ q < Position(r.s)
                     THEN [character |-> cs[q - (Position(r.s) - n) + 1], color |-> t.color]
                     ELSE ShiftedCell(t, k, q)
  /\ \/ k = 0 /\ r.s.scroll_y <= t.s.scroll_y
     \/ r.s.scroll_y <= r.s.cursor_y - VGA_HEIGHT + 1
  /\ n > 0 => InView(r.s) /\ ShownBy(r) /\ CursorAt(r)

\* The cursor and the cells of putc() before it draws.
PutIn(t, c) ==
  [t EXCEPT !.s.data[Position(t.s)] = [character |-> c, color |-> t.color],
            !.s.cursor_x = IF t.s.cursor_x + 1 >= TERMINAL_WIDTH THEN 0 ELSE @ + 1,
            !.s.cursor_y = IF t.s.cursor_x + 1 >= TERMINAL_WIDTH THEN @ + 1 ELSE @]

LEMMA PutCell ==
  ASSUME NEW t \in WorkType, NEW c \in Characters, NEW w, w = PutIn(t, c)
  PROVE  /\ w \in RoomType /\ w.color = t.color /\ w.vga = t.vga /\ w.crtc = t.crtc
         /\ SameField(t.s, w.s)
         /\ w.s.cursor_x \in 0 .. TERMINAL_WIDTH - 1 /\ w.s.cursor_y \in 0 .. TERMINAL_HEIGHT
         /\ Row(w.s.cursor_y) + w.s.cursor_x = Position(t.s) + 1
         /\ w.s.cursor_y = TERMINAL_HEIGHT => w.s.cursor_x = 0
         /\ \A q \in Positions :
              w.s.data[q] = IF q = Position(t.s) THEN [character |-> c, color |-> t.color]
                                                 ELSE t.s.data[q]
<1> DEFINE endOfRow == t.s.cursor_x + 1 >= TERMINAL_WIDTH
           cell == [character |-> c, color |-> t.color]
           x == IF endOfRow THEN 0 ELSE t.s.cursor_x + 1
           y == IF endOfRow THEN t.s.cursor_y + 1 ELSE t.s.cursor_y
<1>1. /\ t.s.cursor_x \in 0 .. TERMINAL_WIDTH - 1 /\ t.s.cursor_y \in 0 .. TERMINAL_HEIGHT - 1
      /\ Position(t.s) = Row(t.s.cursor_y) + t.s.cursor_x /\ Position(t.s) \in Positions
      /\ t.s.data \in [Positions -> Cells]
  BY WorkFacts, ScreenFacts
<1>2. cell \in Cells
  BY WorkFacts DEF Cells
<1>3. x \in 0 .. TERMINAL_WIDTH - 1 /\ y \in 0 .. TERMINAL_HEIGHT
  BY <1>1, Sizes
<1>4. Row(y) + x = Position(t.s) + 1
  <2>1. t.s.cursor_y \in Int /\ 1 \in Int
    BY <1>1
  <2>2. Row(t.s.cursor_y) \in Int /\ Row(t.s.cursor_y + 1) = Row(t.s.cursor_y) + TERMINAL_WIDTH
    BY <2>1, RowFacts
  <2>3. CASE endOfRow
    <3>1. t.s.cursor_x = TERMINAL_WIDTH - 1 /\ TERMINAL_WIDTH \in Int
      BY <1>1, <2>3, Sizes
    <3> QED BY <1>1, <2>2, <2>3, <3>1
  <2>4. CASE ~endOfRow
    BY <1>1, <2>2, <2>4
  <2> QED BY <2>3, <2>4
<1>5. y = TERMINAL_HEIGHT => x = 0
  <2>1. t.s.cursor_y # TERMINAL_HEIGHT
    BY <1>1, Sizes
  <2> QED BY <2>1
<1> DEFINE data == [t.s.data EXCEPT ![Position(t.s)] = cell]
           s    == [t.s EXCEPT !.data = data, !.cursor_x = x, !.cursor_y = y]
<1>6. w = [t EXCEPT !.s = s]
  BY DEF PutIn, WorkType, ScreenType
<1>8. data \in [Positions -> Cells]
  BY <1>1, <1>2
<1> HIDE DEF cell, x, y, data
<1>9. /\ s \in [cursor_x : 0 .. TERMINAL_WIDTH - 1, cursor_y : 0 .. TERMINAL_HEIGHT,
                scroll_y : 0 .. TERMINAL_EXTRA_LINES, input_size : -1 .. INPUT_MAX,
                input_cursor : 0 .. INPUT_MAX, initialized : BOOLEAN,
                data : [Positions -> Cells]]
      /\ SameField(t.s, s) /\ s.cursor_x = x /\ s.cursor_y = y /\ s.data = data
  <2>1. t.s \in ScreenType
    BY WorkFacts
  <2> QED BY <1>3, <1>8, <2>1 DEF ScreenType, SameField
<1> HIDE DEF s
<1> HIDE DEF endOfRow
<1>7. /\ w \in RoomType /\ w.color = t.color /\ w.vga = t.vga /\ w.crtc = t.crtc
      /\ SameField(t.s, w.s) /\ w.s.cursor_x = x /\ w.s.cursor_y = y
      /\ w.s.data = data
  BY <1>6, <1>9 DEF WorkType, RoomType
<1> QED BY <1>1, <1>3, <1>4, <1>5, <1>7 DEF cell, data

LEMMA PutPrintableFacts ==
  ASSUME NEW t \in WorkType, ~CursorOff(t.crtc), NEW c \in Characters,
         NEW p, p = PutPrintable(t, c)
  PROVE  \E up \in {0, 1} : Written(t, p, <<c>>, 1, up)
<1> DEFINE w == PutIn(t, c)
           u == IF w.s.cursor_y >= TERMINAL_HEIGHT THEN move_screen_up(w) ELSE w
           v == PutCursor(u)
           a == align_scroll_to_cursor(v)
<1>1. p = put_screen(a)
  BY DEF PutPrintable, PutIn
<1>2. /\ w \in RoomType /\ w.color = t.color /\ w.vga = t.vga /\ w.crtc = t.crtc
      /\ SameField(t.s, w.s)
      /\ w.s.cursor_x \in 0 .. TERMINAL_WIDTH - 1 /\ w.s.cursor_y \in 0 .. TERMINAL_HEIGHT
      /\ Row(w.s.cursor_y) + w.s.cursor_x = Position(t.s) + 1
      /\ w.s.cursor_y = TERMINAL_HEIGHT => w.s.cursor_x = 0
      /\ \A q \in Positions :
           w.s.data[q] = IF q = Position(t.s) THEN [character |-> c, color |-> t.color]
                                              ELSE t.s.data[q]
  BY PutCell
<1>3. BlankCell(w) = BlankCell(t)
  BY <1>2 DEF BlankCell
<1> HIDE DEF w
<1>4. Position(t.s) \in Positions /\ Position(t.s) \in Nat /\ t.s.scroll_y \in 0 .. TERMINAL_EXTRA_LINES
  BY WorkFacts, ScreenFacts
<1>5. PICK up \in {0, 1} :
        /\ u \in WorkType /\ u.color = t.color /\ u.crtc = t.crtc
        /\ SameField(t.s, u.s)
        /\ Position(u.s) = Position(t.s) + 1 - Row(up)
        /\ up > 0 => u.s.cursor_y = TERMINAL_HEIGHT - 1 /\ Row(TERMINAL_HEIGHT - 1) <= Position(u.s)
        /\ \A q \in Positions :
             u.s.data[q] = IF q = Position(u.s) - 1 THEN [character |-> c, color |-> t.color]
                                                    ELSE ShiftedCell(t, up, q)
  <2>1. CASE w.s.cursor_y < TERMINAL_HEIGHT
    <3>1. u = w /\ u \in WorkType
      BY <1>2, <2>1, RoomFacts, Sizes
    <3>2. Position(u.s) = Position(t.s) + 1 /\ Row(0) = 0
      BY <1>2, <3>1, RowFacts DEF Position, Row
    <3>3. \A q \in Positions : q + Row(0) = q /\ q + Row(0) \in Positions
      BY <3>2 DEF Positions
    <3>4. \A q \in Positions : ShiftedCell(t, 0, q) = t.s.data[q]
      BY <3>3 DEF ShiftedCell
    <3>5. Position(u.s) - 1 = Position(t.s) /\ Position(u.s) = Position(t.s) + 1 - Row(0)
      BY <1>4, <3>2
    <3> QED BY <1>2, <3>1, <3>4, <3>5
  <2>2. CASE ~(w.s.cursor_y < TERMINAL_HEIGHT)
    <3>1. w.s.cursor_y = TERMINAL_HEIGHT /\ w.s.cursor_y >= 1 /\ w.s.cursor_y >= TERMINAL_HEIGHT
      BY <1>2, <2>2, Sizes
    <3>2. u = move_screen_up(w)
      BY <3>1
    <3> HIDE DEF u
    <3>3. /\ u \in WorkType /\ u.color = w.color /\ u.vga = w.vga /\ u.crtc = w.crtc
          /\ u.s.cursor_x = w.s.cursor_x /\ u.s.cursor_y = w.s.cursor_y - 1
          /\ SameField(w.s, u.s)
          /\ \A q \in Positions : u.s.data[q] = IF q + TERMINAL_WIDTH \in Positions
                                                THEN w.s.data[q + TERMINAL_WIDTH] ELSE BlankCell(w)
      BY <1>2, <3>1, <3>2, MoveUpFacts
    <3>4. Position(u.s) = Row(TERMINAL_HEIGHT - 1) /\ Row(1) = TERMINAL_WIDTH
      <4>1. u.s.cursor_x = 0 /\ u.s.cursor_y = TERMINAL_HEIGHT - 1
        BY <1>2, <3>1, <3>3
      <4>2. Row(TERMINAL_HEIGHT - 1) \in Int
        <5>1. TERMINAL_HEIGHT - 1 \in Int
          BY Sizes
        <5> QED BY <5>1, RowFacts
      <4> QED BY <4>1, <4>2, RowFacts DEF Position, Row
    <3>5. Row(TERMINAL_HEIGHT - 1) = Row(TERMINAL_HEIGHT) - TERMINAL_WIDTH /\ Row(TERMINAL_HEIGHT) \in Int
      <4>1. TERMINAL_HEIGHT \in Int /\ 1 \in Int
        BY Sizes
      <4> QED BY <4>1, RowFacts
    <3>6. Row(TERMINAL_HEIGHT) = Position(t.s) + 1
      BY <1>2, <1>4, <3>1, <3>5
    <3>7. Position(u.s) = Position(t.s) + 1 - Row(1)
      BY <1>4, <3>4, <3>5, <3>6, Sizes
    <3>8. \A q \in Positions : q + TERMINAL_WIDTH = Position(t.s) <=> q = Position(u.s) - 1
      <4>1. \A q \in Positions : q \in Int
        BY DEF Positions
      <4> QED BY <1>4, <3>4, <3>7, <4>1, Sizes
    <3>9. \A q \in Positions :
            u.s.data[q] = IF q = Position(u.s) - 1 THEN [character |-> c, color |-> t.color]
                                                   ELSE ShiftedCell(t, 1, q)
      <4> SUFFICES ASSUME NEW q \in Positions
                   PROVE  u.s.data[q] = IF q = Position(u.s) - 1 THEN [character |-> c, color |-> t.color]
                                                                 ELSE ShiftedCell(t, 1, q)
        OBVIOUS
      <4>1. u.s.data[q] = IF q + TERMINAL_WIDTH \in Positions
                          THEN w.s.data[q + TERMINAL_WIDTH] ELSE BlankCell(t)
        BY <1>3, <3>3
      <4>2. q + TERMINAL_WIDTH \in Positions =>
              w.s.data[q + TERMINAL_WIDTH] = IF q + TERMINAL_WIDTH = Position(t.s)
                                             THEN [character |-> c, color |-> t.color]
                                             ELSE t.s.data[q + TERMINAL_WIDTH]
        BY <1>2
      <4>3. ShiftedCell(t, 1, q) = IF q + TERMINAL_WIDTH \in Positions
                                   THEN t.s.data[q + TERMINAL_WIDTH] ELSE BlankCell(t)
        BY <3>4 DEF ShiftedCell
      <4>4. q + TERMINAL_WIDTH = Position(t.s) <=> q = Position(u.s) - 1
        BY <3>8
      <4> HIDE DEF w
      <4> QED BY <1>4, <4>1, <4>2, <4>3, <4>4
    <3>10. SameField(t.s, u.s) /\ u.color = t.color /\ u.crtc = t.crtc
      BY <1>2, <3>3 DEF SameField
    <3>11. u.s.cursor_y = TERMINAL_HEIGHT - 1 /\ Row(TERMINAL_HEIGHT - 1) <= Position(u.s)
      <4>1. Row(TERMINAL_HEIGHT - 1) \in Int
        BY <3>5, Sizes
      <4> QED BY <3>1, <3>3, <3>4, <4>1
    <3> QED BY <3>3, <3>7, <3>9, <3>10, <3>11
  <2> QED BY <2>1, <2>2
<1> HIDE DEF u
<1>6. /\ v \in WorkType /\ v.s = u.s /\ v.color = u.color /\ v.vga = u.vga
      /\ ~CursorOff(v.crtc)
      /\ v.s.scroll_y <= v.s.cursor_y => CursorAt(v)
  BY <1>5, PutCursorFacts
<1> HIDE DEF v
<1>7. /\ a \in WorkType /\ SameText(v.s, a.s) /\ a.color = v.color
      /\ ~CursorOff(a.crtc) /\ InView(a.s)
      /\ a.s.scroll_y <= v.s.scroll_y \/ a.s.scroll_y = a.s.cursor_y - VGA_HEIGHT + 1
      /\ a = v \/ CursorAt(a)
  BY <1>6, AlignFacts
<1>8. CursorAt(a)
  BY <1>6, <1>7 DEF InView
<1> HIDE DEF a
<1>9. p \in WorkType /\ ShownBy(p) /\ p.s = a.s /\ p.color = a.color /\ p.crtc = a.crtc
  BY <1>1, <1>7, PutScreenFacts
<1>10. InView(p.s) /\ CursorAt(p) /\ ~CursorOff(p.crtc)
  BY <1>7, <1>8, <1>9 DEF CursorAt
<1>11. /\ Position(p.s) = Position(u.s) /\ p.s.data = u.s.data /\ p.s.cursor_y = u.s.cursor_y
       /\ SameText(u.s, p.s) /\ p.color = t.color
  BY <1>5, <1>6, <1>7, <1>9 DEF SameText
<1>12. /\ p.s.input_size = t.s.input_size /\ p.s.input_cursor = t.s.input_cursor
       /\ p.s.initialized = t.s.initialized
  BY <1>5, <1>11 DEF SameText, SameField
<1>13. \/ up = 0 /\ p.s.scroll_y <= t.s.scroll_y
       \/ p.s.scroll_y <= p.s.cursor_y - VGA_HEIGHT + 1
  <2>1. /\ p.s.scroll_y \in 0 .. TERMINAL_EXTRA_LINES
        /\ p.s.cursor_y \in 0 .. TERMINAL_HEIGHT - 1
    BY <1>9, WorkFacts, ScreenFacts
  <2>2. p.s.scroll_y <= t.s.scroll_y \/ p.s.scroll_y = p.s.cursor_y - VGA_HEIGHT + 1
    BY <1>5, <1>6, <1>7, <1>9 DEF SameField
  <2>3. CASE up = 0
    BY <2>1, <2>2, <2>3, Sizes
  <2>4. CASE up = 1
    <3>1. p.s.cursor_y = TERMINAL_HEIGHT - 1
      BY <1>5, <1>11, <2>4
    <3> QED BY <2>1, <3>1, Sizes
  <2> QED BY <2>3, <2>4
<1>14. \A q \in Positions :
         p.s.data[q] = IF Position(p.s) - 1 <= q /\ q < Position(p.s)
                       THEN [character |-> <<c>>[q - (Position(p.s) - 1) + 1], color |-> t.color]
                       ELSE ShiftedCell(t, up, q)
  <2> SUFFICES ASSUME NEW q \in Positions
               PROVE  p.s.data[q] = IF Position(p.s) - 1 <= q /\ q < Position(p.s)
                                    THEN [character |-> <<c>>[q - (Position(p.s) - 1) + 1], color |-> t.color]
                                    ELSE ShiftedCell(t, up, q)
    OBVIOUS
  <2>1. q \in Int /\ Position(p.s) \in Int
    BY <1>9, WorkFacts, ScreenFacts DEF Positions
  <2>2. Position(p.s) - 1 <= q /\ q < Position(p.s) <=> q = Position(p.s) - 1
    BY <2>1
  <2>3. q = Position(p.s) - 1 => q - (Position(p.s) - 1) + 1 = 1
    BY <2>1
  <2>4. <<c>>[1] = c
    OBVIOUS
  <2>5. p.s.data[q] = IF q = Position(p.s) - 1 THEN [character |-> c, color |-> t.color]
                                               ELSE ShiftedCell(t, up, q)
    BY <1>5, <1>11
  <2> QED BY <2>2, <2>3, <2>4, <2>5
<1>15. Position(p.s) = Position(t.s) + 1 - Row(up) /\ (up > 0 => Row(TERMINAL_HEIGHT - 1) <= Position(p.s))
  BY <1>5, <1>11
<1>16. Written(t, p, <<c>>, 1, up)
  BY <1>9, <1>10, <1>11, <1>12, <1>13, <1>14, <1>15 DEF Written
<1> QED BY <1>16

\* r is t after a newline, for which the rows moved up k times.
NewRow(t, r, k) ==
  /\ r \in WorkType /\ r.color = t.color /\ ~CursorOff(r.crtc)
  /\ r.s.input_size = t.s.input_size /\ r.s.input_cursor = t.s.input_cursor
  /\ r.s.initialized = t.s.initialized
  /\ r.s.cursor_x = 0 /\ r.s.cursor_y = t.s.cursor_y + 1 - k
  /\ \A q \in Positions : q >= Position(r.s) => r.s.data[q] = ShiftedCell(t, k, q)
  /\ InView(r.s) /\ CursorAt(r)

LEMMA WorkIsRoom == ASSUME NEW t \in WorkType PROVE t \in RoomType
<1>1. t.s \in ScreenType /\ t.s.cursor_y \in 0 .. TERMINAL_HEIGHT
  BY WorkFacts, ScreenFacts, Sizes
<1> QED BY <1>1 DEF WorkType, RoomType, ScreenType

LEMMA SetCellsType ==
  ASSUME NEW v \in [VisibleCells -> Cells], NEW cell \in Cells, NEW S
  PROVE  vga_set_cells(v, cell, S) \in [VisibleCells -> Cells]
BY DEF vga_set_cells

LEMMA PutNewlineFacts ==
  ASSUME NEW t \in WorkType, ~CursorOff(t.crtc), NEW r, r = PutNewline(t)
  PROVE  \E up \in {0, 1} : NewRow(t, r, up)
<1> DEFINE u == IF t.s.cursor_y + 1 >= TERMINAL_HEIGHT THEN move_screen_up(t) ELSE t
           columns == u.s.cursor_x .. TERMINAL_WIDTH - 1
           inBuffer == {u.s.cursor_y * TERMINAL_WIDTH + x : x \in columns}
           onVga == {y_to_vga(u.s, u.s.cursor_y) * TERMINAL_WIDTH + x : x \in columns}
           data == [p \in Positions |-> IF p \in inBuffer THEN BlankCell(t) ELSE u.s.data[p]]
           cells == vga_set_cells(u.vga, BlankCell(t), onVga)
           b == [u EXCEPT !.s.data = data, !.vga = cells, !.s.cursor_x = 0,
                          !.s.cursor_y = @ + 1]
           a == align_scroll_to_cursor(b)
<1>1. /\ t.s.cursor_y \in 0 .. TERMINAL_HEIGHT - 1 /\ t.s.cursor_x \in 0 .. TERMINAL_WIDTH - 1
      /\ t.s.data \in [Positions -> Cells]
      /\ BlankCell(t) \in Cells
  BY WorkFacts, ScreenFacts
<1>2. PICK up \in {0, 1} :
        /\ u \in WorkType /\ u.color = t.color /\ u.crtc = t.crtc
        /\ SameField(t.s, u.s)
        /\ u.s.cursor_x = t.s.cursor_x /\ u.s.cursor_y = t.s.cursor_y - up
        /\ u.s.cursor_y + 1 < TERMINAL_HEIGHT
        /\ \A q \in Positions : u.s.data[q] = ShiftedCell(t, up, q)
  <2>1. CASE t.s.cursor_y + 1 >= TERMINAL_HEIGHT
    <3>1. u = move_screen_up(t) /\ t \in RoomType /\ t.s.cursor_y >= 1
      BY <1>1, <2>1, WorkIsRoom, Sizes
    <3> HIDE DEF u
    <3>2. /\ u \in WorkType /\ u.color = t.color /\ u.crtc = t.crtc
          /\ u.s.cursor_x = t.s.cursor_x /\ u.s.cursor_y = t.s.cursor_y - 1
          /\ SameField(t.s, u.s)
          /\ \A p \in Positions : u.s.data[p] = IF p + TERMINAL_WIDTH \in Positions
                                                THEN t.s.data[p + TERMINAL_WIDTH] ELSE BlankCell(t)
      BY <3>1, MoveUpFacts
    <3>3. Row(1) = TERMINAL_WIDTH
      BY RowFacts
    <3>4. \A q \in Positions : u.s.data[q] = ShiftedCell(t, 1, q)
      BY <3>2, <3>3 DEF ShiftedCell
    <3>5. u.s.cursor_y + 1 < TERMINAL_HEIGHT
      BY <1>1, <3>2, Sizes
    <3> QED BY <3>2, <3>4, <3>5
  <2>2. CASE ~(t.s.cursor_y + 1 >= TERMINAL_HEIGHT)
    <3>1. u = t
      BY <2>2
    <3> HIDE DEF u
    <3>2. \A q \in Positions : q + Row(0) = q
      BY RowFacts DEF Positions
    <3>3. \A q \in Positions : u.s.data[q] = ShiftedCell(t, 0, q)
      BY <3>1, <3>2 DEF ShiftedCell
    <3>4. SameField(t.s, u.s)
      BY <3>1 DEF SameField
    <3>5. u.s.cursor_y + 1 < TERMINAL_HEIGHT /\ u.s.cursor_y = t.s.cursor_y - 0
      BY <1>1, <2>2, <3>1, Sizes
    <3> QED BY <3>1, <3>3, <3>4, <3>5
  <2> QED BY <2>1, <2>2
<1>3. r = PutCursor(a)
  BY Zenon DEF PutNewline
<1> HIDE DEF u
<1>4. u.s \in ScreenType /\ u.s.data \in [Positions -> Cells] /\ u.vga \in [VisibleCells -> Cells]
      /\ u.s.cursor_y \in 0 .. TERMINAL_HEIGHT - 1 /\ u.s.cursor_x \in 0 .. TERMINAL_WIDTH - 1
  BY <1>2, WorkFacts, ScreenFacts
<1>5. data \in [Positions -> Cells] /\ cells \in [VisibleCells -> Cells]
  BY <1>1, <1>4, SetCellsType
<1>6. u.s.cursor_y + 1 \in 0 .. TERMINAL_HEIGHT - 1
  BY <1>2, <1>4, Sizes
<1>7. 0 \in 0 .. TERMINAL_WIDTH - 1
  BY Sizes
<1>8. \A q \in Positions : q >= Row(u.s.cursor_y + 1) => data[q] = u.s.data[q]
  <2> SUFFICES ASSUME NEW q \in Positions, q >= Row(u.s.cursor_y + 1) PROVE q \notin inBuffer
    OBVIOUS
  <2> SUFFICES ASSUME NEW x \in columns, q = u.s.cursor_y * TERMINAL_WIDTH + x PROVE FALSE
    OBVIOUS
  <2>1. x \in 0 .. TERMINAL_WIDTH - 1
    BY <1>4
  <2>2. q = Row(u.s.cursor_y) + x
    BY DEF Row
  <2>3. u.s.cursor_y + 1 \in Int /\ u.s.cursor_y \in Int
    BY <1>4
  <2>4. u.s.cursor_y + 1 <= u.s.cursor_y
    BY <2>1, <2>2, <2>3, InRow
  <2> QED BY <2>3, <2>4
<1> HIDE DEF data, cells
<1>9. /\ b \in WorkType /\ b.color = u.color /\ b.crtc = u.crtc /\ SameField(u.s, b.s)
      /\ b.s.cursor_x = 0 /\ b.s.cursor_y = u.s.cursor_y + 1 /\ b.s.data = data
  <2>1. u \in WorkType /\ u.s \in ScreenType
    BY <1>2, <1>4
  <2>2. b = [u EXCEPT !.s = [u.s EXCEPT !.data = data, !.cursor_x = 0, !.cursor_y = @ + 1],
                      !.vga = cells]
    BY <2>1 DEF WorkType, ScreenType
  <2>3. b.s = [u.s EXCEPT !.data = data, !.cursor_x = 0, !.cursor_y = @ + 1]
    BY <2>1, <2>2 DEF WorkType
  <2> HIDE DEF b
  <2>4. b.s \in ScreenType /\ b.s.cursor_x = 0 /\ b.s.cursor_y = u.s.cursor_y + 1 /\ b.s.data = data
    BY <1>5, <1>6, <1>7, <2>1, <2>3 DEF ScreenType
  <2>5. SameField(u.s, b.s)
    BY <2>1, <2>3 DEF ScreenType, SameField
  <2>6. b \in WorkType /\ b.color = u.color /\ b.crtc = u.crtc
    BY <1>5, <2>1, <2>2, <2>3, <2>4 DEF WorkType
  <2> QED BY <2>4, <2>5, <2>6
<1> HIDE DEF b
<1>10. /\ a \in WorkType /\ SameText(b.s, a.s) /\ a.color = b.color
       /\ ~CursorOff(a.crtc) /\ InView(a.s)
  BY <1>2, <1>9, AlignFacts
<1> HIDE DEF a
<1>11. /\ r \in WorkType /\ r.s = a.s /\ r.color = a.color /\ ~CursorOff(r.crtc) /\ CursorAt(r)
  BY <1>3, <1>10, PutCursorFacts DEF InView
<1>12. /\ r.s.cursor_x = 0 /\ r.s.cursor_y = u.s.cursor_y + 1 /\ r.s.data = data
       /\ r.s.input_size = t.s.input_size /\ r.s.input_cursor = t.s.input_cursor
       /\ r.s.initialized = t.s.initialized /\ r.color = t.color /\ InView(r.s)
  BY <1>2, <1>9, <1>10, <1>11 DEF SameText, SameField
<1>13. Position(r.s) = Row(u.s.cursor_y + 1)
  <2>1. u.s.cursor_y + 1 \in Int
    BY <1>4
  <2>2. Row(u.s.cursor_y + 1) \in Int
    BY <2>1, RowFacts
  <2> QED BY <1>12, <2>2 DEF Position, Row
<1>14. \A q \in Positions : q >= Position(r.s) => r.s.data[q] = ShiftedCell(t, up, q)
  BY <1>2, <1>8, <1>12, <1>13
<1>15. r.s.cursor_y = t.s.cursor_y + 1 - up
  BY <1>1, <1>2, <1>12
<1>16. NewRow(t, r, up)
  BY <1>11, <1>12, <1>14, <1>15 DEF NewRow
<1> QED BY <1>16

-----------------------------------------------------------------------------
(* Several characters *)

LEMMA WrittenFacts ==
  ASSUME NEW t \in WorkType, NEW r, NEW cs, NEW n \in Nat, NEW k \in Nat, Written(t, r, cs, n, k)
  PROVE  /\ Position(t.s) \in Nat /\ Position(r.s) \in Nat /\ Position(r.s) \in Positions
         /\ Row(k) \in Nat /\ r.s.scroll_y \in 0 .. TERMINAL_EXTRA_LINES
         /\ r.s.cursor_y \in 0 .. TERMINAL_HEIGHT - 1 /\ r.s.cursor_x \in 0 .. TERMINAL_WIDTH - 1
         /\ Position(r.s) = Row(r.s.cursor_y) + r.s.cursor_x
         /\ r \in WorkType
<1>1. r \in WorkType
  BY DEF Written
<1>2. Row(k) \in Nat
  BY RowFacts
<1> QED BY <1>1, <1>2, WorkFacts, ScreenFacts

\* What was written is kept when more is written.
LEMMA WrittenThen ==
  ASSUME NEW t \in WorkType, NEW u, NEW p, NEW cs, NEW ds, NEW es,
         NEW n \in Nat, NEW m \in Nat, NEW k \in Nat, NEW j \in Nat,
         Written(t, u, cs, n, k), Written(u, p, ds, m, j), m = 0 => p = u,
         \A i \in 1 .. n : es[i] = cs[i],
         \A i \in 1 .. m : es[n + i] = ds[i]
  PROVE  Written(t, p, es, n + m, k + j)
<1> DEFINE P == Position(p.s)
           U == Position(u.s)
<1>1. /\ u \in WorkType /\ U \in Nat /\ U \in Positions /\ Row(k) \in Nat /\ Position(t.s) \in Nat
      /\ u.s.scroll_y \in 0 .. TERMINAL_EXTRA_LINES
      /\ u.s.cursor_y \in 0 .. TERMINAL_HEIGHT - 1 /\ u.s.cursor_x \in 0 .. TERMINAL_WIDTH - 1
      /\ U = Row(u.s.cursor_y) + u.s.cursor_x
  BY WrittenFacts
<1>2. /\ p \in WorkType /\ P \in Nat /\ P \in Positions /\ Row(j) \in Nat
      /\ p.s.scroll_y \in 0 .. TERMINAL_EXTRA_LINES
      /\ p.s.cursor_y \in 0 .. TERMINAL_HEIGHT - 1 /\ p.s.cursor_x \in 0 .. TERMINAL_WIDTH - 1
      /\ P = Row(p.s.cursor_y) + p.s.cursor_x
  BY <1>1, WrittenFacts
<1>3. Row(k + j) = Row(k) + Row(j)
  <2>1. k \in Int /\ j \in Int
    OBVIOUS
  <2> QED BY <2>1, RowFacts
<1>4. /\ U = Position(t.s) + n - Row(k) /\ P = U + m - Row(j)
      /\ u.color = t.color /\ p.color = u.color
  BY DEF Written
<1>5. BlankCell(u) = BlankCell(t)
  BY <1>4 DEF BlankCell
<1>6. P = Position(t.s) + (n + m) - Row(k + j)
  BY <1>1, <1>2, <1>3, <1>4
<1>7. \A q \in Positions : u.s.data[q] = IF U - n <= q /\ q < U
                                         THEN [character |-> cs[q - (U - n) + 1], color |-> t.color]
                                         ELSE ShiftedCell(t, k, q)
  BY DEF Written
<1>8. \A q \in Positions : p.s.data[q] = IF P - m <= q /\ q < P
                                         THEN [character |-> ds[q - (P - m) + 1], color |-> t.color]
                                         ELSE ShiftedCell(u, j, q)
  BY <1>4 DEF Written
<1>9. \A q \in Positions : ShiftedCell(u, j, q) = IF q + Row(j) \in Positions THEN u.s.data[q + Row(j)]
                                                                             ELSE BlankCell(t)
  BY <1>5 DEF ShiftedCell
<1>10. \A q \in Int : q \in Positions <=> 0 <= q /\ q < Row(TERMINAL_HEIGHT)
  BY PositionFacts
<1>11. Row(TERMINAL_HEIGHT) \in Nat /\ U < Row(TERMINAL_HEIGHT)
  BY <1>1, <1>10, PositionFacts
<1>12. ASSUME NEW q \in Positions
       PROVE  p.s.data[q] = IF P - (n + m) <= q /\ q < P
                            THEN [character |-> es[q - (P - (n + m)) + 1], color |-> t.color]
                            ELSE ShiftedCell(t, k + j, q)
  <2>1. q \in Nat /\ q + Row(j) \in Nat
    BY <1>2 DEF Positions
  <2> HIDE DEF P, U
  <2>2. ShiftedCell(t, k + j, q) = IF (q + Row(j)) + Row(k) \in Positions
                                   THEN t.s.data[(q + Row(j)) + Row(k)] ELSE BlankCell(t)
    <3>1. q + Row(k + j) = (q + Row(j)) + Row(k)
      BY <1>1, <1>2, <1>3, <2>1
    <3> QED BY <3>1 DEF ShiftedCell
  <2>3. CASE P - m <= q /\ q < P
    <3>1. p.s.data[q] = [character |-> ds[q - (P - m) + 1], color |-> t.color]
      BY <1>8, <2>3
    <3> DEFINE i == q - (P - m) + 1
    <3>2. i \in 1 .. m /\ q - (P - (n + m)) + 1 = n + i /\ P - (n + m) <= q
      BY <1>2, <2>1, <2>3
    <3> HIDE DEF i
    <3>3. es[n + i] = ds[i]
      BY <3>2
    <3> QED BY <2>3, <3>1, <3>2, <3>3 DEF i
  <2>4. CASE ~(P - m <= q /\ q < P) /\ q + Row(j) \in Positions
    <3> DEFINE v == q + Row(j)
    <3>1. p.s.data[q] = u.s.data[v]
      BY <1>8, <1>9, <2>4
    <3>2. v \in Nat /\ v \in Positions
      BY <2>1, <2>4
    <3>3. /\ U - n <= v /\ v < U <=> P - (n + m) <= q /\ q < P
          /\ v - (U - n) + 1 = q - (P - (n + m)) + 1
      BY <1>1, <1>2, <1>4, <2>1, <2>4
    <3>4. ShiftedCell(t, k + j, q) = ShiftedCell(t, k, v)
      BY <2>2 DEF ShiftedCell
    <3> DEFINE i == v - (U - n) + 1
    <3> HIDE DEF v
    <3>5. U - n <= v /\ v < U => i \in 1 .. n /\ es[i] = cs[i]
      <4>1. U - n <= v /\ v < U => i \in 1 .. n
        BY <1>1, <3>2
      <4> QED BY <4>1
    <3>6. u.s.data[v] = IF U - n <= v /\ v < U THEN [character |-> cs[i], color |-> t.color]
                                               ELSE ShiftedCell(t, k, v)
      BY <1>7, <3>2
    <3>7. i = q - (P - (n + m)) + 1
      BY <3>3
    <3> HIDE DEF i
    <3>8. CASE U - n <= v /\ v < U
      BY <3>1, <3>3, <3>5, <3>6, <3>7, <3>8
    <3>9. CASE ~(U - n <= v /\ v < U)
      BY <3>1, <3>3, <3>4, <3>6, <3>9
    <3> QED BY <3>8, <3>9
  <2>5. CASE ~(P - m <= q /\ q < P) /\ q + Row(j) \notin Positions
    <3>1. p.s.data[q] = BlankCell(t)
      BY <1>8, <1>9, <2>5
    <3>2. q + Row(j) >= Row(TERMINAL_HEIGHT)
      BY <1>10, <1>11, <2>1, <2>5
    <3>3. q >= P
      BY <1>1, <1>2, <1>4, <1>11, <2>1, <2>5, <3>2
    <3>4. (q + Row(j)) + Row(k) \notin Positions
      <4>1. (q + Row(j)) + Row(k) \in Nat /\ (q + Row(j)) + Row(k) >= Row(TERMINAL_HEIGHT)
        BY <1>1, <1>11, <2>1, <3>2
      <4> QED BY <1>10, <1>11, <4>1
    <3>5. ~(q < P)
      BY <1>2, <2>1, <3>3
    <3> QED BY <2>2, <3>1, <3>4, <3>5
  <2> QED BY <2>3, <2>4, <2>5
<1>13. /\ p.s.input_size = t.s.input_size /\ p.s.input_cursor = t.s.input_cursor
       /\ p.s.initialized = t.s.initialized /\ p.color = t.color /\ ~CursorOff(p.crtc)
  BY DEF Written
<1>14. k + j > 0 => Row(TERMINAL_HEIGHT - 1) <= P
  <2>1. (j > 0 => Row(TERMINAL_HEIGHT - 1) <= P) /\ (k > 0 => Row(TERMINAL_HEIGHT - 1) <= U)
    BY DEF Written
  <2>2. Row(TERMINAL_HEIGHT - 1) \in Int
    <3>1. TERMINAL_HEIGHT - 1 \in Int
      BY Sizes
    <3> QED BY <3>1, RowFacts
  <2>3. j = 0 => Row(j) = 0
    BY RowFacts
  <2> QED BY <1>1, <1>2, <1>4, <2>1, <2>2, <2>3
<1>15. \/ k + j = 0 /\ p.s.scroll_y <= t.s.scroll_y
       \/ p.s.scroll_y <= p.s.cursor_y - VGA_HEIGHT + 1
  <2>1. \/ k = 0 /\ u.s.scroll_y <= t.s.scroll_y
        \/ u.s.scroll_y <= u.s.cursor_y - VGA_HEIGHT + 1
    BY DEF Written
  <2>2. \/ j = 0 /\ p.s.scroll_y <= u.s.scroll_y
        \/ p.s.scroll_y <= p.s.cursor_y - VGA_HEIGHT + 1
    BY DEF Written
  <2>3. t.s.scroll_y \in 0 .. TERMINAL_EXTRA_LINES
    BY WorkFacts, ScreenFacts
  <2>4. j = 0 => u.s.cursor_y <= p.s.cursor_y
    <3>1. SUFFICES ASSUME j = 0 PROVE u.s.cursor_y <= p.s.cursor_y
      OBVIOUS
    <3>2. P = U + m
      BY <1>1, <1>2, <1>4, <3>1, RowFacts
    <3>3. u.s.cursor_y \in Nat /\ u.s.cursor_y \in Int /\ p.s.cursor_y \in Int
      BY <1>1, <1>2
    <3>4. Row(u.s.cursor_y) \in Nat
      BY <3>3, RowFacts
    <3>5. Row(u.s.cursor_y) <= Row(p.s.cursor_y) + p.s.cursor_x
      BY <1>1, <1>2, <3>2, <3>4
    <3> QED BY <1>2, <3>3, <3>5, InRow
  <2> QED BY <1>1, <1>2, <2>1, <2>2, <2>3, <2>4, Sizes
<1>16. n + m > 0 => InView(p.s) /\ ShownBy(p) /\ CursorAt(p)
  <2>1. /\ n > 0 => InView(u.s) /\ ShownBy(u) /\ CursorAt(u)
        /\ m > 0 => InView(p.s) /\ ShownBy(p) /\ CursorAt(p)
    BY DEF Written
  <2> QED BY <2>1
<1> QED BY <1>2, <1>6, <1>12, <1>13, <1>14, <1>15, <1>16 DEF Written

LEMMA SetInduction ==
  ASSUME NEW S \in SUBSET Nat, 0 \in S, \A n \in S : n + 1 \in S
  PROVE  S = Nat
<1> SUFFICES ASSUME S # Nat PROVE FALSE
  OBVIOUS
<1> DEFINE R == OpToRel(<, Nat)
           C == Nat \ S
<1>1. IsWellFoundedOn(R, Nat)
  BY NatLessThanWellFounded
<1>2. \A x, y \in Nat : <<y, x>> \in R <=> y < x
  BY DEF OpToRel
<1>3. C \in SUBSET Nat /\ C # {}
  OBVIOUS
<1> HIDE DEF R
<1>4. \E x \in C : \A y \in C : ~(<<y, x>> \in R)
  BY <1>1, <1>3, WFMin
<1>5. PICK x \in C : \A y \in C : ~(<<y, x>> \in R)
  BY <1>4
<1>6. x \in Nat /\ x # 0 /\ x - 1 \in Nat /\ (x - 1) + 1 = x /\ x - 1 < x
  OBVIOUS
<1>7. x - 1 \in S
  BY <1>2, <1>5, <1>6
<1> QED BY <1>5, <1>6, <1>7

\* The states of PutAll().
PutsTo(put, t, cs, n) ==
  put = [m \in 0 .. n |-> IF m = 0 THEN t ELSE putc(put[m - 1], cs[m])]

LEMMA PutsExist ==
  ASSUME NEW t, NEW cs, NEW n \in Nat
  PROVE  \E put : PutsTo(put, t, cs, n)
<1> DEFINE S == {m \in Nat : \E put : PutsTo(put, t, cs, m)}
<1>1. 0 \in S
  <2>1. PutsTo([m \in 0 .. 0 |-> t], t, cs, 0)
    BY DEF PutsTo
  <2> QED BY <2>1
<1>2. ASSUME NEW m \in S PROVE m + 1 \in S
  <2>1. m \in Nat /\ \E put : PutsTo(put, t, cs, m)
    OBVIOUS
  <2>2. PICK g : PutsTo(g, t, cs, m)
    BY <2>1
  <2> DEFINE h == [l \in 0 .. m + 1 |-> IF l = m + 1 THEN putc(g[m], cs[m + 1]) ELSE g[l]]
  <2>3. \A l \in 0 .. m : g[l] = IF l = 0 THEN t ELSE putc(g[l - 1], cs[l])
    BY <2>2 DEF PutsTo
  <2>4. ASSUME NEW l \in 0 .. m + 1
        PROVE  h[l] = IF l = 0 THEN t ELSE putc(h[l - 1], cs[l])
    <3>1. CASE l = m + 1
      <4>1. l # 0 /\ l - 1 = m /\ m \in 0 .. m + 1 /\ m # m + 1
        BY <2>1, <3>1
      <4>2. h[l - 1] = g[m] /\ h[l] = putc(g[m], cs[m + 1])
        BY <3>1, <4>1
      <4> HIDE DEF h
      <4> QED BY <3>1, <4>1, <4>2
    <3>2. CASE l # m + 1
      <4>1. l \in 0 .. m /\ h[l] = g[l]
        BY <2>1, <3>2
      <4>2. l # 0 => l - 1 \in 0 .. m + 1 /\ l - 1 # m + 1
        BY <2>1, <4>1
      <4>3. l # 0 => h[l - 1] = g[l - 1]
        BY <4>2
      <4> HIDE DEF h
      <4> QED BY <2>3, <4>1, <4>3
    <3> QED BY <3>1, <3>2
  <2>5. h = [l \in 0 .. m + 1 |-> IF l = 0 THEN t ELSE putc(h[l - 1], cs[l])]
    <3>1. h = [l \in 0 .. m + 1 |-> h[l]]
      OBVIOUS
    <3> HIDE DEF h
    <3> QED BY <2>4, <3>1
  <2>6. PutsTo(h, t, cs, m + 1)
    BY <2>5 DEF PutsTo
  <2> QED BY <2>1, <2>6
<1> HIDE DEF S
<1>3. S = Nat
  <2>1. S \in SUBSET Nat
    BY DEF S
  <2> QED BY <1>1, <1>2, <2>1, SetInduction
<1> QED BY <1>3 DEF S

LEMMA PutAllFacts ==
  ASSUME NEW t \in WorkType, ~CursorOff(t.crtc), NEW cs \in Seq(Characters),
         NEW r, r = PutAll(t, cs)
  PROVE  \E k \in Nat : Written(t, r, cs, Len(cs), k) /\ (Len(cs) = 0 => r = t)
<1>1. Len(cs) \in Nat
  OBVIOUS
<1>2. \E put : PutsTo(put, t, cs, Len(cs))
  BY <1>1, PutsExist
<1> DEFINE put == CHOOSE f : PutsTo(f, t, cs, Len(cs))
<1>3. PutsTo(put, t, cs, Len(cs))
  BY <1>2
<1>4. PutAll(t, cs) = put[Len(cs)]
  BY Zenon DEF PutAll, PutsTo
<1> HIDE DEF put
<1>5. \A m \in 0 .. Len(cs) : put[m] = IF m = 0 THEN t ELSE putc(put[m - 1], cs[m])
  BY <1>3 DEF PutsTo
<1> DEFINE S == {n \in Nat : n <= Len(cs) =>
                    \E k \in Nat : Written(t, put[n], cs, n, k) /\ (n = 0 => put[n] = t)}
<1>6. 0 \in S
  <2>1. put[0] = t
    BY <1>1, <1>5
  <2>2. Row(0) = 0
    BY RowFacts
  <2>3. Position(t.s) \in Nat /\ t.s.scroll_y \in Nat /\ t \in WorkType
    BY WorkFacts, ScreenFacts
  <2>4. \A q \in Positions : q + Row(0) = q /\ q \in Nat
    BY <2>2 DEF Positions
  <2>5. \A q \in Positions : ShiftedCell(t, 0, q) = t.s.data[q]
    BY <2>4 DEF ShiftedCell
  <2>6. \A q \in Positions : ~(Position(t.s) - 0 <= q /\ q < Position(t.s))
    BY <2>3, <2>4
  <2>7. Position(t.s) = Position(t.s) + 0 - Row(0)
    BY <2>2, <2>3
  <2>8. Written(t, t, cs, 0, 0)
    BY <2>3, <2>5, <2>6, <2>7 DEF Written
  <2> QED BY <2>1, <2>8
<1>7. ASSUME NEW n \in S PROVE n + 1 \in S
  <2>1. n \in Nat /\ n + 1 \in Nat
    OBVIOUS
  <2> SUFFICES ASSUME n + 1 <= Len(cs)
               PROVE  \E k \in Nat : Written(t, put[n + 1], cs, n + 1, k)
    BY <2>1
  <2>2. n <= Len(cs) /\ n + 1 \in 1 .. Len(cs) /\ n + 1 \in 0 .. Len(cs) /\ (n + 1) - 1 = n
    BY <1>1, <2>1
  <2>3. PICK k \in Nat : Written(t, put[n], cs, n, k)
    BY <2>2
  <2> HIDE DEF S
  <2> DEFINE u == put[n]
             p == put[n + 1]
             c == cs[n + 1]
  <2>4. p = putc(u, c) /\ c \in Characters
    BY <1>5, <2>1, <2>2
  <2>5. u \in WorkType /\ ~CursorOff(u.crtc)
    BY <2>3 DEF Written
  <2>6. p = PutPrintable(u, c)
    BY <2>4, TerminalAssumption DEF putc
  <2> HIDE DEF u, p, c
  <2>7. PICK up \in {0, 1} : Written(u, p, <<c>>, 1, up)
    BY <2>4, <2>5, <2>6, PutPrintableFacts
  <2>8. up \in Nat /\ k + up \in Nat /\ k \in Nat
    OBVIOUS
  <2>9. Written(t, u, cs, n, k)
    BY <2>3 DEF u
  <2>10. /\ \A i \in 1 .. n : cs[i] = cs[i]
         /\ \A i \in 1 .. 1 : cs[n + i] = <<c>>[i]
    BY DEF c
  <2>11. Written(t, p, cs, n + 1, k + up)
    BY <2>1, <2>7, <2>8, <2>9, <2>10, WrittenThen
  <2> QED BY <2>8, <2>11 DEF p
<1> HIDE DEF S
<1>8. S = Nat
  <2>1. S \in SUBSET Nat
    BY DEF S
  <2> QED BY <1>6, <1>7, <2>1, SetInduction
<1>9. Len(cs) \in S
  BY <1>1, <1>8
<1> QED BY <1>1, <1>4, <1>9 DEF S

-----------------------------------------------------------------------------
(* The input field *)

LEMMA NumberFacts ==
  ASSUME NEW r \in Int, NEW k \in Int
  PROVE  Row(r) \in Int /\ Row(k) \in Int /\ Row(r - k) = Row(r) - Row(k) /\ Row(r - k) \in Int
<1>1. r - k \in Int
  OBVIOUS
<1> QED BY <1>1, RowFacts

\* A field that starts on the row r is on the row r - k after its rows moved up k
\* times, and not above the rows that are shown: it fits in them.
LEMMA RowsKept ==
  ASSUME NEW t \in WorkType, NEW r \in Nat, t.s.scroll_y <= r,
         NEW a \in Nat, Position(t.s) = Row(r) + a,
         NEW n \in Nat, a + n < Row(VGA_HEIGHT),
         NEW p, NEW cs, NEW k \in Nat, Written(t, p, cs, n, k)
  PROVE  /\ r - k \in Nat /\ p.s.scroll_y <= r - k
         /\ Position(p.s) = Row(r - k) + a + n
<1>1. /\ Position(p.s) \in Nat /\ p.s.scroll_y \in 0 .. TERMINAL_EXTRA_LINES
      /\ p.s.cursor_y \in 0 .. TERMINAL_HEIGHT - 1 /\ p.s.cursor_x \in 0 .. TERMINAL_WIDTH - 1
      /\ Position(p.s) = Row(p.s.cursor_y) + p.s.cursor_x
  BY WrittenFacts
<1>2. Row(r) \in Int /\ Row(k) \in Int /\ Row(r - k) = Row(r) - Row(k) /\ Row(r - k) \in Int
  BY NumberFacts
<1>3. Position(p.s) = Row(r - k) + a + n
  <2>1. Position(p.s) = Position(t.s) + n - Row(k)
    BY DEF Written
  <2> QED BY <1>2, <2>1
<1>4. p.s.cursor_y < r - k + VGA_HEIGHT
  <2>1. r - k \in Int /\ VGA_HEIGHT \in Int /\ r - k + VGA_HEIGHT \in Int /\ p.s.cursor_y \in Int
    BY <1>1, Sizes
  <2>2. Row(r - k + VGA_HEIGHT) = Row(r - k) + Row(VGA_HEIGHT) /\ Row(VGA_HEIGHT) \in Nat
    BY <2>1, RowFacts, PositionFacts
  <2>3. Row(p.s.cursor_y) + p.s.cursor_x < Row(r - k + VGA_HEIGHT)
    BY <1>1, <1>2, <1>3, <2>2
  <2> QED BY <1>1, <2>1, <2>3, InRow
<1>5. k > 0 => p.s.cursor_y >= TERMINAL_HEIGHT - 1
  <2>1. k > 0 => Row(TERMINAL_HEIGHT - 1) <= Row(p.s.cursor_y) + p.s.cursor_x
    BY <1>1 DEF Written
  <2>2. TERMINAL_HEIGHT - 1 \in Int /\ p.s.cursor_y \in Int
    BY <1>1, Sizes
  <2> QED BY <1>1, <2>1, <2>2, InRow
<1>6. \/ k = 0 /\ p.s.scroll_y <= t.s.scroll_y
      \/ p.s.scroll_y <= p.s.cursor_y - VGA_HEIGHT + 1
  BY DEF Written
<1>7. t.s.scroll_y \in 0 .. TERMINAL_EXTRA_LINES
  BY WorkFacts, ScreenFacts
<1>8. k > 0 => r - k >= TERMINAL_EXTRA_LINES
  BY <1>1, <1>4, <1>5, Sizes
<1>9. r - k \in Nat
  BY <1>8, Sizes
<1>10. p.s.scroll_y <= r - k
  BY <1>1, <1>4, <1>6, <1>7, <1>9, Sizes
<1> QED BY <1>3, <1>9, <1>10

\* What is written after a characters of the text: the rest of it, and spaces.
RestOf(text, a, cs, n) ==
  \A j \in 1 .. n : cs[j] = IF a + j <= Len(text) THEN text[a + j] ELSE Space

\* The field starts with the first a characters of text.
StartsWith(s, r, l, a, text) ==
  \A j \in 1 .. a : s.data[Row(r) + l + j - 1].character = text[j]

\* The cells from a position on are blank.
BlankFrom(s, i, start) ==
  \A q \in Positions : q >= start => s.data[q] = [character |-> Space, color |-> i]

\* The field of a screen of color i holds text, from the column after l cells of
\* the row r on, and the cells that follow are blank.
FieldAt(s, i, r, l, text) ==
  /\ s.scroll_y <= r
  /\ Row(r) + l + Len(text) \in Positions
  /\ StartsWith(s, r, l, Len(text), text)
  /\ BlankFrom(s, i, Row(r) + l + Len(text))

\* m is t with another text in its field and the cursor after c of its characters:
\* the field and what is above it moved up k times.
Edited(t, m, r, k, l, text, c) ==
  /\ m \in WorkType /\ m.color = t.color
  /\ m.s.input_size = t.s.input_size /\ m.s.input_cursor = t.s.input_cursor
  /\ m.s.initialized = t.s.initialized
  /\ r - k \in Nat /\ Position(m.s) = Row(r - k) + l + c
  /\ FieldAt(m.s, t.color, r - k, l, text)
  /\ \A q \in Positions : q < Row(r - k) + l => q + Row(k) \in Positions /\ m.s.data[q] = t.s.data[q + Row(k)]
  /\ InView(m.s) /\ CursorAt(m)

\* The text from its character a on is written again, up to where the old text
\* ended, and the cursor goes back over b characters.
LEMMA EditFacts ==
  ASSUME NEW t \in WorkType, NEW r \in Nat, t.s.scroll_y <= r,
         NEW l \in Nat, NEW a \in Nat, Position(t.s) = Row(r) + l + a,
         NEW n \in Nat, l + a + n < Row(VGA_HEIGHT),
         NEW text, Len(text) \in Nat, a <= Len(text), Len(text) <= a + n,
         NEW p, NEW cs, NEW k \in Nat, Written(t, p, cs, n, k),
         RestOf(text, a, cs, n), StartsWith(t.s, r, l, a, text),
         BlankFrom(t.s, t.color, Row(r) + l + a + n),
         NEW b \in 0 .. n, NEW m, m = move_cursor(p, -b)
  PROVE  /\ Edited(t, m, r, k, l, text, a + n - b)
         /\ n > 0 \/ (p = t /\ ShownBy(t)) => ShownBy(m)
<1>1. PICK R \in Nat : R = Row(r)
  BY RowFacts
<1>2. PICK K \in Nat : K = Row(k)
  BY RowFacts
<1>3. PICK H \in Nat : H = Row(TERMINAL_HEIGHT)
  BY PositionFacts
<1>4. PICK V \in Nat : V = Row(VGA_HEIGHT)
  BY PositionFacts
<1>5. p \in WorkType /\ ~CursorOff(p.crtc)
  BY DEF Written
<1>6. PICK T \in Nat : T = Position(t.s) /\ T \in Positions
  BY WorkFacts, ScreenFacts
<1>7. PICK P \in Nat : P = Position(p.s) /\ P \in Positions
  BY <1>5, WorkFacts, ScreenFacts
<1>8. r - k \in Nat /\ p.s.scroll_y <= r - k /\ P = Row(r - k) + (l + a) + n
  <2>1. l + a \in Nat /\ l + a + n = (l + a) + n
    OBVIOUS
  <2>2. Position(t.s) = Row(r) + (l + a)
    BY <1>1
  <2> QED BY <1>7, <2>1, <2>2, RowsKept
<1>9. PICK Q \in Nat : Q = Row(r - k)
  BY <1>8, RowFacts
<1>10. PICK d \in Nat : d = r - k
  BY <1>8
<1>11. PICK B \in Nat : B = Q + l
  OBVIOUS
<1>12. B = R + l - K
  <2>1. Row(r - k) = R - K
    BY <1>1, <1>2, NumberFacts
  <2> QED BY <1>11, <1>9, <2>1
<1>13. P = B + a + n
  <2>1. P = Q + (l + a) + n
    BY <1>8, <1>9
  <2> QED BY <1>11, <2>1
<1>14. T = R + l + a /\ l + a + n < V
  BY <1>1, <1>4, <1>6
<1>15. b \in Nat /\ b <= n
  OBVIOUS
<1>16. \A q \in Int : q \in Positions <=> 0 <= q /\ q < H
  <2>1. Positions = 0 .. H - 1
    BY <1>3, PositionFacts
  <2> QED BY <2>1
<1>17. \A q \in Positions :
         p.s.data[q] = IF P - n <= q /\ q < P
                       THEN [character |-> cs[q - (P - n) + 1], color |-> t.color]
                       ELSE ShiftedCell(t, k, q)
  BY <1>7 DEF Written
<1>18. \A q \in Positions : ShiftedCell(t, k, q) = IF q + K \in Positions THEN t.s.data[q + K]
                                                                          ELSE BlankCell(t)
  BY <1>2 DEF ShiftedCell
<1>19. T < H /\ P < H
  BY <1>6, <1>7, <1>16
<1>20. PICK o \in Int : o = -b
  BY <1>15
<1>21. P + o = P - b /\ P - b \in Nat /\ P - b < H
  BY <1>13, <1>15, <1>19, <1>20
<1>22. P + o \in Positions
  BY <1>16, <1>21
<1>23. /\ m \in WorkType /\ m.color = p.color /\ Position(m.s) = P - b
       /\ m.s.input_size = p.s.input_size /\ m.s.input_cursor = p.s.input_cursor
       /\ m.s.initialized = p.s.initialized /\ m.s.data = p.s.data
       /\ InView(m.s)
       /\ m.s.scroll_y <= p.s.scroll_y \/ m.s.scroll_y = m.s.cursor_y - VGA_HEIGHT + 1
       /\ ShownBy(p) => ShownBy(m)
       /\ CursorAt(m)
  <2>1. m = move_cursor(p, o) /\ Position(p.s) + o \in Positions
    BY <1>7, <1>20, <1>22
  <2>2. /\ m \in WorkType /\ m.color = p.color /\ Position(m.s) = Position(p.s) + o
        /\ m.s.input_size = p.s.input_size /\ m.s.input_cursor = p.s.input_cursor
        /\ m.s.initialized = p.s.initialized /\ m.s.data = p.s.data
        /\ InView(m.s)
        /\ m.s.scroll_y <= p.s.scroll_y \/ m.s.scroll_y = m.s.cursor_y - VGA_HEIGHT + 1
        /\ ShownBy(p) => ShownBy(m)
        /\ CursorAt(m)
    BY <1>5, <2>1, MoveCursorFacts
  <2>3. Position(m.s) = P - b
    BY <1>7, <1>21, <2>2
  <2> QED BY <2>2, <2>3
<1>24. m.s.scroll_y <= r - k
  <2>1. /\ m.s.scroll_y \in 0 .. TERMINAL_EXTRA_LINES /\ m.s.cursor_y \in 0 .. TERMINAL_HEIGHT - 1
        /\ m.s.cursor_x \in 0 .. TERMINAL_WIDTH - 1
        /\ Position(m.s) = Row(m.s.cursor_y) + m.s.cursor_x
        /\ p.s.scroll_y \in 0 .. TERMINAL_EXTRA_LINES
    BY <1>5, <1>23, WorkFacts, ScreenFacts
  <2>2. PICK v \in Nat : v = VGA_HEIGHT
    BY Sizes
  <2>3. d \in Int /\ v \in Int /\ d + v \in Int /\ m.s.cursor_y \in Int
    BY <2>1
  <2>4. Row(d + v) = Q + V
    <3>1. Row(d + v) = Row(d) + Row(v)
      BY <2>3, RowFacts
    <3> QED BY <1>4, <1>9, <1>10, <2>2, <3>1
  <2>5. P - b < Q + V
    BY <1>11, <1>13, <1>14, <1>15
  <2>6. Row(m.s.cursor_y) + m.s.cursor_x < Row(d + v)
    BY <1>23, <2>1, <2>4, <2>5
  <2>7. m.s.cursor_y < d + v
    BY <2>1, <2>3, <2>6, InRow
  <2>8. m.s.cursor_y - v + 1 <= d
    BY <2>3, <2>7, SMTT(30)
  <2>9. p.s.scroll_y <= d
    BY <1>8, <1>10
  <2>10. m.s.scroll_y <= d
    <3>1. PICK x \in Int : x = m.s.scroll_y
      BY <2>1
    <3>2. PICK y \in Int : y = p.s.scroll_y
      BY <2>1
    <3>3. PICK z \in Int : z = m.s.cursor_y
      BY <2>1
    <3>4. x <= y \/ x = z - v + 1
      BY <1>23, <2>2, <3>1, <3>2, <3>3
    <3>5. y <= d /\ z - v + 1 <= d
      BY <2>8, <2>9, <3>2, <3>3
    <3>6. x <= d
      BY <3>4, <3>5
    <3> QED BY <3>1, <3>6
  <2> QED BY <1>10, <2>10
<1>25. ASSUME NEW q \in Positions, q < B
       PROVE  q + K \in Positions /\ m.s.data[q] = t.s.data[q + K]
  <2>1. q \in Nat
    BY DEF Positions
  <2>2. q + K <= T /\ q + K \in Nat
    BY <1>12, <1>14, <1>25, <2>1
  <2>3. q + K < H /\ ~(P - n <= q)
    BY <1>13, <1>19, <1>25, <2>1, <2>2
  <2>4. q + K \in Positions
    BY <1>16, <2>2, <2>3
  <2> QED BY <1>17, <1>18, <1>23, <2>3, <2>4
<1>26. B + Len(text) \in Positions
  <2>1. B + Len(text) \in Nat /\ B + Len(text) < H
    BY <1>13, <1>19
  <2> QED BY <1>16, <2>1
<1>27. ASSUME NEW j \in 1 .. Len(text)
       PROVE  m.s.data[B + j - 1].character = text[j]
  <2>1. PICK q \in Nat : q = B + j - 1
    OBVIOUS
  <2>2. q \in Positions
    <3>1. q < H
      BY <1>13, <1>19, <2>1
    <3> QED BY <1>16, <3>1
  <2>3. CASE j <= a
    <3>1. ~(P - n <= q) /\ q + K = R + l + j - 1
      BY <1>12, <1>13, <2>1, <2>3
    <3>2. q + K \in Nat /\ q + K < H
      BY <1>14, <1>19, <2>3, <3>1
    <3>3. q + K \in Positions
      BY <1>16, <3>2
    <3>4. m.s.data[q] = t.s.data[q + K]
      BY <1>17, <1>18, <1>23, <2>2, <3>1, <3>3
    <3>5. j \in 1 .. a
      BY <2>3
    <3>6. t.s.data[R + l + j - 1].character = text[j]
      BY <1>1, <3>5 DEF StartsWith
    <3> QED BY <2>1, <3>1, <3>4, <3>6
  <2>4. CASE j > a
    <3>1. PICK g \in Int : g = j - a
      OBVIOUS
    <3>2. /\ P - n <= q /\ q < P /\ q - (P - n) + 1 = g /\ g \in 1 .. n /\ a + g = j
          /\ a + g <= Len(text)
      BY <1>13, <2>1, <2>4, <3>1
    <3>3. m.s.data[q] = [character |-> cs[g], color |-> t.color]
      BY <1>17, <1>23, <2>2, <3>2
    <3>4. cs[g] = text[j]
      BY <3>2 DEF RestOf
    <3> QED BY <2>1, <3>3, <3>4
  <2> QED BY <2>3, <2>4
<1>28. ASSUME NEW q \in Positions, q >= B + Len(text)
       PROVE  m.s.data[q] = [character |-> Space, color |-> t.color]
  <2>1. q \in Nat
    BY DEF Positions
  <2>2. CASE q < P
    <3>1. PICK g \in Int : g = q - (P - n) + 1
      BY <2>1
    <3>2. P - n <= q /\ g \in 1 .. n /\ ~(a + g <= Len(text))
      BY <1>13, <1>28, <2>1, <2>2, <3>1
    <3>3. cs[g] = Space
      BY <3>2 DEF RestOf
    <3>4. m.s.data[q] = [character |-> cs[g], color |-> t.color]
      BY <1>17, <1>23, <2>2, <3>1, <3>2
    <3> QED BY <3>3, <3>4
  <2>3. CASE ~(q < P)
    <3>1. m.s.data[q] = ShiftedCell(t, k, q)
      BY <1>17, <1>23, <2>3
    <3>2. q + K >= R + l + a + n
      <4>1. q >= P /\ P + K = R + l + a + n
        BY <1>12, <1>13, <2>1, <2>3
      <4> QED BY <2>1, <4>1
    <3>3. ShiftedCell(t, k, q) = BlankCell(t)
      BY <1>1, <1>18, <3>2 DEF BlankFrom, BlankCell
    <3> QED BY <3>1, <3>3 DEF BlankCell
  <2> QED BY <2>2, <2>3
<1>29. FieldAt(m.s, t.color, r - k, l, text)
  BY <1>11, <1>9, <1>24, <1>26, <1>27, <1>28 DEF FieldAt, StartsWith, BlankFrom
<1>30. Position(m.s) = Row(r - k) + l + (a + n - b)
  <2>1. P - b = B + (a + n - b)
    BY <1>13, <1>15
  <2> QED BY <1>11, <1>23, <1>9, <2>1
<1>31. /\ m.color = t.color /\ m.s.input_size = t.s.input_size /\ m.s.input_cursor = t.s.input_cursor
       /\ m.s.initialized = t.s.initialized
  BY <1>23 DEF Written
<1>32. n > 0 \/ (p = t /\ ShownBy(t)) => ShownBy(m)
  <2>1. n > 0 => ShownBy(p)
    BY DEF Written
  <2> QED BY <1>23, <2>1
<1>33. Edited(t, m, r, k, l, text, a + n - b)
  BY <1>2, <1>8, <1>11, <1>9, <1>23, <1>25, <1>29, <1>30, <1>31 DEF Edited
<1> QED BY <1>32, <1>33

-----------------------------------------------------------------------------
(* The inductive invariant *)

\* The input of a screen of color i, and its cursor, are where a line starts after
\* l cells of a row that is not above the rows that are shown.
InputAt(s, i, l) ==
  /\ s.initialized
  /\ s.input_size >= 0 /\ s.input_cursor <= s.input_size
  /\ \E r \in Nat : /\ Position(s) = Row(r) + l + s.input_cursor
                    /\ FieldAt(s, i, r, l, terminal_get_input(s))

PromptBefore(s) ==
  \A j \in 1 .. Len(PROMPT) :
    s.data[InputStart(s) - Len(PROMPT) + j - 1].character = PROMPT[j]

AtPrompt(s, i) == InputAt(s, i, Len(PROMPT)) /\ PromptBefore(s)
AtRead(s, i)   == InputAt(s, i, 0)
AtOutput(s, i) == s.initialized /\ InView(s) /\ BlankFrom(s, i, Position(s))
Unused(s)      == ~s.initialized /\ s.input_size = 0 /\ s.input_cursor = 0

\* A screen that is not shown is left at its prompt, or was never shown.
OthersReady ==
  \A i \in ScreenIds \ {terminal_index} : AtPrompt(screens[i], i) \/ Unused(screens[i])

\* The empty row of a read is the one case in which the VGA may be behind.
CurrentReady ==
  LET t == Current IN
  /\ ~CursorOff(t.crtc)
  /\ phase # "cleared" => CursorAt(t)
  /\ phase # "input" => AtOutput(t.s, t.color)
  /\ phase = "input" /\ ~reading => AtPrompt(t.s, t.color) /\ ShownBy(t)
  /\ phase = "input" /\ reading => AtRead(t.s, t.color) /\ (t.s.input_size = 0 \/ ShownBy(t))

IInv == TypeOK /\ OthersReady /\ CurrentReady

-----------------------------------------------------------------------------
(* The functions of the input *)

LEMMA InputFacts ==
  ASSUME NEW s \in ScreenType, s.input_size >= 0, s.input_cursor <= s.input_size
  PROVE  /\ s.input_size \in Nat /\ s.input_cursor \in Nat /\ s.input_size <= INPUT_MAX
         /\ Len(terminal_get_input(s)) = s.input_size
         /\ \A j \in 1 .. s.input_size :
              terminal_get_input(s)[j] = s.data[InputStart(s) + j - 1].character
<1>1. s.input_size \in Nat /\ s.input_cursor \in Nat /\ s.input_size <= INPUT_MAX
  BY ScreenFacts, Sizes
<1> QED BY <1>1 DEF terminal_get_input

\* The input, and the cursor in it, have changed.
Lined(p, n, c) == [p EXCEPT !.s = [p.s EXCEPT !.input_size = n, !.input_cursor = c]]

LEMMA LinedFacts ==
  ASSUME NEW p \in WorkType, NEW n \in -1 .. INPUT_MAX, NEW c \in 0 .. INPUT_MAX,
         NEW m, m = Lined(p, n, c)
  PROVE  /\ m \in WorkType /\ m.color = p.color /\ m.vga = p.vga /\ m.crtc = p.crtc
         /\ m.s.input_size = n /\ m.s.input_cursor = c
         /\ m.s.cursor_x = p.s.cursor_x /\ m.s.cursor_y = p.s.cursor_y /\ m.s.data = p.s.data
         /\ m.s.scroll_y = p.s.scroll_y /\ m.s.initialized = p.s.initialized
         /\ Position(m.s) = Position(p.s)
         /\ InView(m.s) <=> InView(p.s)
         /\ CursorAt(m) <=> CursorAt(p)
         /\ ShownBy(m) <=> ShownBy(p)
<1>1. /\ m \in WorkType /\ m.color = p.color /\ m.vga = p.vga /\ m.crtc = p.crtc
      /\ m.s.input_size = n /\ m.s.input_cursor = c
      /\ m.s.cursor_x = p.s.cursor_x /\ m.s.cursor_y = p.s.cursor_y /\ m.s.data = p.s.data
      /\ m.s.scroll_y = p.s.scroll_y /\ m.s.initialized = p.s.initialized
  BY DEF Lined, WorkType, ScreenType
<1>2. Position(m.s) = Position(p.s) /\ (InView(m.s) <=> InView(p.s))
  BY <1>1 DEF Position, InView
<1> QED BY <1>1, <1>2 DEF CursorAt, ShownBy, Window

\* The text above the input, which may have moved up with it.
KeptAbove(old, new) ==
  LET up == InputStart(old) - InputStart(new)
  IN  /\ up >= 0
      /\ \A p \in 0 .. InputStart(new) - 1 : new.data[p] = old.data[p + up]

\* From t to m the input becomes text, with the cursor after c characters.
LineBecomes(t, m, l, text, c) ==
  /\ m \in WorkType /\ m.color = t.color
  /\ InputAt(m.s, m.color, l)
  /\ terminal_get_input(m.s) = text
  /\ m.s.input_size = Len(text) /\ m.s.input_cursor = c
  /\ KeptAbove(t.s, m.s)
  /\ CursorAt(m)
  /\ ShownBy(t) => ShownBy(m)
  /\ t.s.input_size = 0 \/ ShownBy(t) => m.s.input_size = 0 \/ ShownBy(m)

\* The text an edit has written is the input of the screen.
LEMMA LinedText ==
  ASSUME NEW t \in WorkType, NEW r \in Nat, NEW l \in Nat, InputStart(t.s) = Row(r) + l,
         NEW u, u.color = t.color, u.s.initialized,
         \A q \in Positions : q < Row(r) + l => u.s.data[q] = t.s.data[q],
         NEW text \in Seq(Characters), Len(text) <= INPUT_MAX, NEW c \in 0 .. Len(text),
         NEW p, NEW k \in Nat, Edited(u, p, r, k, l, text, c),
         NEW m, m = Lined(p, Len(text), c)
  PROVE  /\ m \in WorkType /\ m.color = t.color /\ CursorAt(m) /\ InView(m.s)
         /\ InputAt(m.s, m.color, l)
         /\ terminal_get_input(m.s) = text
         /\ m.s.input_size = Len(text) /\ m.s.input_cursor = c
         /\ KeptAbove(t.s, m.s)
         /\ ShownBy(p) => ShownBy(m)
<1>1. /\ p \in WorkType /\ p.color = u.color /\ p.s.initialized = u.s.initialized
      /\ r - k \in Nat /\ Position(p.s) = Row(r - k) + l + c
      /\ FieldAt(p.s, u.color, r - k, l, text) /\ CursorAt(p) /\ InView(p.s)
  BY DEF Edited
<1>2. PICK n \in Nat : n = Len(text)
  OBVIOUS
<1>3. n \in -1 .. INPUT_MAX /\ c \in 0 .. INPUT_MAX /\ c \in Nat /\ c <= n
  BY <1>2, Sizes
<1>4. /\ m \in WorkType /\ m.color = p.color
      /\ m.s.input_size = n /\ m.s.input_cursor = c /\ m.s.data = p.s.data
      /\ m.s.scroll_y = p.s.scroll_y /\ m.s.initialized = p.s.initialized
      /\ Position(m.s) = Position(p.s)
      /\ InView(m.s) <=> InView(p.s)
      /\ CursorAt(m) <=> CursorAt(p)
      /\ ShownBy(m) <=> ShownBy(p)
  <2>1. m = Lined(p, n, c)
    BY <1>2
  <2>2. p \in WorkType /\ n \in -1 .. INPUT_MAX /\ c \in 0 .. INPUT_MAX
    BY <1>1, <1>3
  <2> HIDE DEF WorkType
  <2>3. /\ m \in WorkType /\ m.color = p.color /\ m.vga = p.vga /\ m.crtc = p.crtc
        /\ m.s.input_size = n /\ m.s.input_cursor = c
        /\ m.s.cursor_x = p.s.cursor_x /\ m.s.cursor_y = p.s.cursor_y /\ m.s.data = p.s.data
        /\ m.s.scroll_y = p.s.scroll_y /\ m.s.initialized = p.s.initialized
        /\ Position(m.s) = Position(p.s)
        /\ InView(m.s) <=> InView(p.s)
        /\ CursorAt(m) <=> CursorAt(p)
        /\ ShownBy(m) <=> ShownBy(p)
    BY ONLY <2>1, <2>2, LinedFacts, SMTT(40)
  <2> QED BY <2>3
<1>5. PICK Q \in Nat : Q = Row(r - k)
  BY <1>1, RowFacts
<1>6. InputStart(m.s) = Q + l
  <2>1. Position(m.s) = Q + l + c
    BY <1>1, <1>4, <1>5
  <2> QED BY <1>3, <1>4, <2>1 DEF InputStart
<1>7. terminal_get_input(m.s) = text
  <2>1. m.s \in ScreenType
    BY <1>4, WorkFacts
  <2>2. terminal_get_input(m.s) = [j \in 1 .. n |-> m.s.data[Q + l + j - 1].character]
    BY <1>4, <1>6 DEF terminal_get_input
  <2>3. \A j \in 1 .. n : m.s.data[Q + l + j - 1].character = text[j]
    BY <1>1, <1>2, <1>4, <1>5 DEF FieldAt, StartsWith
  <2>4. terminal_get_input(m.s) = [j \in 1 .. n |-> text[j]]
    BY <2>2, <2>3
  <2>5. text = [j \in 1 .. n |-> text[j]]
    BY <1>2
  <2> QED BY <2>4, <2>5
<1>8. FieldAt(m.s, m.color, r - k, l, terminal_get_input(m.s))
  BY <1>1, <1>4, <1>7 DEF FieldAt, StartsWith, BlankFrom
<1>9. InputAt(m.s, m.color, l)
  <2>1. m.s.initialized /\ m.s.input_size >= 0 /\ m.s.input_cursor <= m.s.input_size
    BY <1>1, <1>3, <1>4
  <2>2. Position(m.s) = Row(r - k) + l + m.s.input_cursor
    BY <1>1, <1>4
  <2> QED BY <1>1, <1>8, <2>1, <2>2 DEF InputAt
<1>10. KeptAbove(t.s, m.s)
  <2>1. PICK R \in Nat : R = Row(r)
    BY RowFacts
  <2>2. PICK K \in Nat : K = Row(k)
    BY RowFacts
  <2>3. Q = R - K
    BY <1>5, <2>1, <2>2, NumberFacts
  <2>4. InputStart(t.s) - InputStart(m.s) = K
    BY <1>6, <2>1, <2>3
  <2>5. ASSUME NEW q \in 0 .. Q + l - 1
        PROVE  m.s.data[q] = t.s.data[q + K]
    <3>1. PICK H \in Nat : H = Row(TERMINAL_HEIGHT) /\ Positions = 0 .. H - 1
      BY PositionFacts
    <3>2. PICK P \in Nat : P = Position(p.s) /\ P < H
      BY <1>1, <3>1, WorkFacts, ScreenFacts
    <3>3. P = Q + l + c
      BY <1>1, <1>5, <3>2
    <3>4. q \in Positions /\ q < Q + l
      <4>1. l \in Nat /\ c \in Nat
        BY <1>3
      <4>2. Q + l <= P
        BY <3>3, <4>1
      <4> QED BY <3>1, <3>2, <4>1, <4>2
    <3>5. q + K \in Positions /\ p.s.data[q] = u.s.data[q + K]
      BY <1>5, <2>2, <3>4 DEF Edited
    <3>6. q + K < R + l
      BY <2>3, <3>4
    <3> QED BY <1>4, <2>1, <3>5, <3>6
  <2> QED BY <1>6, <2>4, <2>5 DEF KeptAbove
<1> QED BY <1>1, <1>2, <1>4, <1>7, <1>9, <1>10

\* The line of a screen, in n cells from the column after l cells of the row r on,
\* with the cursor after c of them.
LineAt(s, i, l, r, n, c) ==
  /\ n = s.input_size /\ c = s.input_cursor /\ c <= n /\ n <= INPUT_MAX
  /\ s.scroll_y <= r /\ Position(s) = Row(r) + l + c /\ InputStart(s) = Row(r) + l
  /\ Row(r) + l + n \in Positions
  /\ terminal_get_input(s) \in Seq(Characters) /\ Len(terminal_get_input(s)) = n
  /\ StartsWith(s, r, l, n, terminal_get_input(s))
  /\ BlankFrom(s, i, Row(r) + l + n)
  /\ get_input_after_cursor(s) \in Seq(Characters)
  /\ Len(get_input_after_cursor(s)) = n - c
  /\ \A j \in 1 .. n - c : get_input_after_cursor(s)[j] = terminal_get_input(s)[c + j]

LEMMA LineFacts ==
  ASSUME NEW s \in ScreenType, NEW i, NEW l \in Nat, InputAt(s, i, l)
  PROVE  \E r \in Nat, n \in Nat, c \in Nat : LineAt(s, i, l, r, n, c)
<1> DEFINE text == terminal_get_input(s)
           after == get_input_after_cursor(s)
<1>1. s.input_size >= 0 /\ s.input_cursor <= s.input_size
  BY DEF InputAt
<1>2. PICK n \in Nat : n = s.input_size /\ n <= INPUT_MAX
  BY <1>1, InputFacts
<1>3. PICK c \in Nat : c = s.input_cursor /\ c <= n
  BY <1>1, <1>2, InputFacts
<1>4. PICK r \in Nat : Position(s) = Row(r) + l + c /\ FieldAt(s, i, r, l, text)
  BY <1>3 DEF InputAt
<1>5. Len(text) = n /\ text = [j \in 1 .. n |-> s.data[InputStart(s) + j - 1].character]
  BY <1>2 DEF terminal_get_input
<1>6. after = [j \in 1 .. n - c |-> s.data[Position(s) + j - 1].character] /\ Len(after) = n - c
  BY <1>2, <1>3 DEF get_input_after_cursor
<1> HIDE DEF text, after
<1>7. PICK R \in Nat : R = Row(r)
  BY RowFacts
<1>8. InputStart(s) = R + l
  BY <1>3, <1>4, <1>7 DEF InputStart
<1>9. s.scroll_y <= r /\ R + l + n \in Positions /\ StartsWith(s, r, l, n, text)
      /\ BlankFrom(s, i, R + l + n)
  BY <1>4, <1>5, <1>7 DEF FieldAt
<1>10. \A p \in Positions : s.data[p].character \in Characters
  BY ScreenFacts DEF Cells
<1>11. ASSUME NEW j \in 1 .. n PROVE R + l + j - 1 \in Positions
  <2>1. PICK H \in Nat : Positions = 0 .. H - 1
    BY PositionFacts
  <2> QED BY <1>9, <2>1
<1>12. text \in Seq(Characters)
  <2>1. \A j \in 1 .. n : s.data[R + l + j - 1].character \in Characters
    BY <1>10, <1>11
  <2>2. text = [j \in 1 .. n |-> s.data[R + l + j - 1].character]
    BY <1>5, <1>8
  <2> QED BY <2>1, <2>2
<1>13. ASSUME NEW j \in 1 .. n - c PROVE after[j] = text[c + j] /\ after[j] \in Characters
  <2>1. c + j \in 1 .. n /\ (R + l + c) + j - 1 = R + l + (c + j) - 1
    BY <1>3
  <2>2. after[j] = s.data[R + l + (c + j) - 1].character
    BY <1>4, <1>6, <1>7, <2>1
  <2>3. text[c + j] = s.data[R + l + (c + j) - 1].character
    BY <1>5, <1>8, <2>1
  <2>4. R + l + (c + j) - 1 \in Positions
    BY <1>11, <2>1
  <2> QED BY <1>10, <2>2, <2>3, <2>4
<1>14. after \in Seq(Characters)
  <2>1. after = [j \in 1 .. n - c |-> after[j]]
    BY <1>6
  <2>2. n - c \in Nat
    BY <1>3
  <2> QED BY <1>13, <2>1, <2>2
<1>15. /\ s.scroll_y <= r /\ Position(s) = Row(r) + l + c /\ InputStart(s) = Row(r) + l
       /\ Row(r) + l + n \in Positions /\ BlankFrom(s, i, Row(r) + l + n)
  BY <1>4, <1>7, <1>8, <1>9
<1>16. \A j \in 1 .. n - c : after[j] = text[c + j]
  BY <1>13
<1>17. LineAt(s, i, l, r, n, c)
  BY <1>2, <1>3, <1>5, <1>6, <1>9, <1>12, <1>14, <1>15, <1>16 DEF text, after, LineAt
<1> QED BY <1>17

\* What put_input_after_cursor() writes.
LEMMA PaddedFacts ==
  ASSUME NEW buffer \in Seq(Characters), NEW e \in Nat
  PROVE  /\ buffer \o Spaces(e) \in Seq(Characters)
         /\ Len(buffer \o Spaces(e)) = Len(buffer) + e
         /\ \A j \in 1 .. Len(buffer) + e :
              (buffer \o Spaces(e))[j] = IF j <= Len(buffer) THEN buffer[j] ELSE Space
<1>1. Space \in Characters
  BY DEF Characters
<1>2. Spaces(e) \in Seq(Characters) /\ Len(Spaces(e)) = e /\ \A j \in 1 .. e : Spaces(e)[j] = Space
  BY <1>1 DEF Spaces
<1> HIDE DEF Spaces
<1>3. PICK n \in Nat : n = Len(buffer)
  OBVIOUS
<1>4. \A j \in 1 .. n + e : (buffer \o Spaces(e))[j] = IF j <= n THEN buffer[j] ELSE Spaces(e)[j - n]
  BY <1>2, <1>3
<1>5. \A j \in 1 .. n + e : ~(j <= n) => j - n \in 1 .. e
  OBVIOUS
<1>6. \A j \in 1 .. n + e : (buffer \o Spaces(e))[j] = IF j <= n THEN buffer[j] ELSE Space
  BY <1>2, <1>4, <1>5
<1> QED BY <1>2, <1>3, <1>6

\* The input is edited where it fits in the rows that are shown.
Fits(l) == l \in Nat /\ l + INPUT_MAX < Row(VGA_HEIGHT)

LEMMA FitsFacts ==
  ASSUME NEW l, Fits(l), NEW n \in Nat, n <= INPUT_MAX
  PROVE  l \in Nat /\ l + n < Row(VGA_HEIGHT)
BY Sizes, PositionFacts DEF Fits

LEMMA CursorIsOn == ASSUME NEW t, CursorAt(t) PROVE ~CursorOff(t.crtc)
BY DEF CursorAt

Inserted(text, c, ch) == Append(SubSeq(text, 1, c), ch) \o SubSeq(text, c + 1, Len(text))

\* new is the text of n characters with ch inserted after c of them.
IsInserted(new, text, n, c, ch) ==
  /\ new \in Seq(Characters) /\ Len(new) = n + 1
  /\ \A j \in 1 .. c : new[j] = text[j]
  /\ new[c + 1] = ch
  /\ \A j \in 1 .. n - c : new[c + 1 + j] = text[c + j]

LEMMA InsertedFacts ==
  ASSUME NEW text \in Seq(Characters), NEW n \in Nat, n = Len(text),
         NEW c \in 0 .. n, NEW ch \in Characters
  PROVE  IsInserted(Inserted(text, c, ch), text, n, c, ch)
<1> DEFINE x == SubSeq(text, 1, c)
           y == Append(x, ch)
           z == SubSeq(text, c + 1, n)
<1>1. x \in Seq(Characters) /\ Len(x) = c /\ \A j \in 1 .. c : x[j] = text[j]
  OBVIOUS
<1>2. z \in Seq(Characters) /\ Len(z) = n - c /\ \A j \in 1 .. n - c : z[j] = text[c + j]
  <2>1. c + 1 \in 1 .. n + 1 /\ n \in 0 .. n
    OBVIOUS
  <2>2. z \in Seq(Characters) /\ Len(z) = n - c
    BY <2>1
  <2>3. \A j \in 1 .. n - c : z[j] = text[c + 1 + j - 1] /\ c + 1 + j - 1 = c + j
    BY <2>1
  <2> QED BY <2>2, <2>3
<1> HIDE DEF x, z
<1>3. /\ y \in Seq(Characters) /\ Len(y) = c + 1 /\ y[c + 1] = ch
      /\ \A j \in 1 .. c : y[j] = x[j]
  BY <1>1
<1>4. Inserted(text, c, ch) = y \o z
  BY DEF Inserted, x, z
<1> HIDE DEF y
<1>5. /\ y \o z \in Seq(Characters) /\ Len(y \o z) = n + 1
      /\ \A j \in 1 .. c + 1 : (y \o z)[j] = y[j]
      /\ \A j \in 1 .. n - c : (y \o z)[c + 1 + j] = z[j]
  BY <1>2, <1>3
<1>6. c + 1 \in 1 .. c + 1 /\ \A j \in 1 .. c : j \in 1 .. c + 1
  OBVIOUS
<1>7. \A j \in 1 .. c : (y \o z)[j] = text[j]
  BY <1>1, <1>3, <1>5, <1>6
<1>8. (y \o z)[c + 1] = ch
  BY <1>3, <1>5, <1>6
<1>9. \A j \in 1 .. n - c : (y \o z)[c + 1 + j] = text[c + j]
  BY <1>2, <1>5
<1> QED BY <1>4, <1>5, <1>7, <1>8, <1>9 DEF IsInserted

LEMMA PutcInputFacts ==
  ASSUME NEW t \in WorkType, CursorAt(t), NEW l \in Nat, Fits(l), InputAt(t.s, t.color, l),
         t.s.input_size < INPUT_MAX, NEW ch \in Characters,
         NEW m, m = terminal_putc_input(t, ch)
  PROVE  LineBecomes(t, m, l, Inserted(terminal_get_input(t.s), t.s.input_cursor, ch),
                     t.s.input_cursor + 1)
<1> DEFINE text == terminal_get_input(t.s)
           after == get_input_after_cursor(t.s)
<1>1. PICK r \in Nat, n \in Nat, c \in Nat : LineAt(t.s, t.color, l, r, n, c)
  BY WorkFacts, LineFacts DEF Fits
<1>2. c <= n /\ n < INPUT_MAX
  BY <1>1 DEF LineAt
<1>3. n = t.s.input_size /\ c = t.s.input_cursor
  BY <1>1 DEF LineAt
<1>4. t.s.scroll_y <= r /\ Position(t.s) = Row(r) + l + c /\ InputStart(t.s) = Row(r) + l
  BY <1>1 DEF LineAt
<1>5. /\ text \in Seq(Characters) /\ Len(text) = n
       /\ StartsWith(t.s, r, l, n, text) /\ BlankFrom(t.s, t.color, Row(r) + l + n)
  BY <1>1 DEF LineAt
<1>6. /\ after \in Seq(Characters) /\ Len(after) = n - c
       /\ \A j \in 1 .. n - c : after[j] = text[c + j]
  BY <1>1 DEF LineAt
<1> DEFINE new == Inserted(text, c, ch)
           u == putc(t, ch)
           buffer == after \o Spaces(0)
           p == PutAll(u, buffer)
           q == move_cursor(p, -(Len(after) + 0))
           x == n - c + 1
           rest == [j \in 1 .. x |-> new[c + j]]
<1>7. m = [q EXCEPT !.s.input_size = @ + 1, !.s.input_cursor = @ + 1]
  <2>1. ~(t.s.input_size < 0) /\ ~InputFull(t.s)
    BY <1>2, <1>3, Sizes DEF InputFull
  <2> QED BY <2>1 DEF terminal_putc_input, put_input_after_cursor
<1>8. /\ new \in Seq(Characters) /\ Len(new) = n + 1
      /\ \A j \in 1 .. c : new[j] = text[j]
      /\ new[c + 1] = ch
      /\ \A j \in 1 .. n - c : new[c + 1 + j] = text[c + j]
  <2>1. n = Len(text) /\ c \in 0 .. n
    BY <1>2, <1>5
  <2>2. text \in Seq(Characters) /\ n \in Nat /\ ch \in Characters
    BY <1>5
  <2> HIDE DEF text
  <2>3. IsInserted(new, text, n, c, ch)
    BY <2>1, <2>2, InsertedFacts
  <2> HIDE DEF new
  <2> QED BY <2>3 DEF IsInserted
<1>9. PICK up \in {0, 1} : Written(t, u, <<ch>>, 1, up)
  <2>1. u = PutPrintable(t, ch)
    BY TerminalAssumption DEF putc
  <2> HIDE DEF u
  <2> QED BY <2>1, CursorIsOn, PutPrintableFacts
<1> HIDE DEF text, after, new
<1>10. /\ buffer \in Seq(Characters) /\ Len(buffer) = n - c
      /\ \A j \in 1 .. n - c : buffer[j] = after[j]
  <2>1. /\ buffer \in Seq(Characters) /\ Len(buffer) = Len(after) + 0
        /\ \A j \in 1 .. Len(after) + 0 : buffer[j] = IF j <= Len(after) THEN after[j] ELSE Space
    BY <1>6, PaddedFacts
  <2>2. Len(after) = n - c /\ Len(after) + 0 = n - c
    BY <1>2, <1>6
  <2> HIDE DEF buffer
  <2>3. \A j \in 1 .. n - c : j <= n - c
    BY <1>2
  <2> QED BY <2>1, <2>2, <2>3
<1> HIDE DEF u, buffer
<1>11. u \in WorkType /\ ~CursorOff(u.crtc)
  BY <1>9 DEF Written
<1>12. PICK j \in Nat : Written(u, p, buffer, Len(buffer), j) /\ (Len(buffer) = 0 => p = u)
  BY <1>10, <1>11, PutAllFacts
<1> HIDE DEF p
<1>13. PICK y \in Nat : y = n - c
  BY <1>2
<1>14. x = 1 + y /\ x \in Nat /\ c + x = n + 1
  BY <1>2, <1>13
<1>15. Written(t, p, rest, 1 + y, up + j)
  <2>1. \A i \in 1 .. 1 : rest[i] = <<ch>>[i]
    <3>1. rest[1] = ch
      BY <1>8, <1>14
    <3> QED BY <3>1
  <2>2. \A i \in 1 .. y : rest[1 + i] = buffer[i]
    <3> SUFFICES ASSUME NEW i \in 1 .. y PROVE rest[1 + i] = buffer[i]
      OBVIOUS
    <3>1. 1 + i \in 1 .. x /\ c + (1 + i) = c + 1 + i /\ i \in 1 .. n - c
      BY <1>13, <1>14
    <3>2. rest[1 + i] = new[c + 1 + i]
      BY <3>1
    <3> HIDE DEF rest
    <3> QED BY <1>6, <1>8, <1>10, <3>1, <3>2
  <2> HIDE DEF rest
  <2>3. up \in Nat /\ 1 \in Nat
    OBVIOUS
  <2>4. Written(u, p, buffer, y, j) /\ (y = 0 => p = u)
    BY <1>10, <1>12, <1>13
  <2> QED BY <1>9, <2>1, <2>2, <2>3, <2>4, WrittenThen
<1>16. RestOf(new, c, rest, x)
  <2> SUFFICES ASSUME NEW i \in 1 .. x PROVE rest[i] = IF c + i <= Len(new) THEN new[c + i] ELSE Space
    BY DEF RestOf
  <2>1. c + i <= Len(new)
    BY <1>8, <1>14
  <2> QED BY <2>1
<1> HIDE DEF x, rest
<1>17. StartsWith(t.s, r, l, c, new)
  <2>1. \A i \in 1 .. c : i \in 1 .. n
    BY <1>2
  <2> QED BY <1>8, <1>5, <2>1 DEF StartsWith
<1>18. BlankFrom(t.s, t.color, Row(r) + l + c + x)
  <2>1. PICK R \in Nat : R = Row(r)
    BY RowFacts
  <2>2. l \in Nat /\ R + l + c + x >= R + l + n
    BY <1>14 DEF Fits
  <2>3. BlankFrom(t.s, t.color, R + l + n)
    BY <1>5, <2>1
  <2>4. \A i \in Nat : i >= R + l + c + x => i >= R + l + n
    BY <1>14, <2>2
  <2>5. \A i \in Positions : i \in Nat
    BY DEF Positions
  <2> QED BY <2>1, <2>3, <2>4, <2>5 DEF BlankFrom
<1>19. l \in Nat /\ l + c + x < Row(VGA_HEIGHT)
  <2>1. n + 1 \in Nat /\ n + 1 <= INPUT_MAX
    BY <1>2, Sizes
  <2>2. l \in Nat /\ l + (n + 1) < Row(VGA_HEIGHT)
    BY <2>1, FitsFacts
  <2>3. l + c + x = l + (n + 1)
    BY <1>14, <2>2
  <2> QED BY <2>2, <2>3
<1>20. q = move_cursor(p, -y) /\ y \in 0 .. x
  <2>1. Len(after) + 0 = y
    BY <1>13, <1>6
  <2> QED BY <1>14, <2>1
<1>21. up + j \in Nat /\ Written(t, p, rest, x, up + j)
  BY <1>14, <1>15
<1>22. c <= Len(new) /\ Len(new) <= c + x /\ Len(new) \in Nat
  BY <1>2, <1>8, <1>14
<1> HIDE DEF q
<1>23. /\ Edited(t, q, r, up + j, l, new, c + x - y)
       /\ x > 0 => ShownBy(q)
  BY <1>14, <1>16, <1>17, <1>18, <1>19, <1>20, <1>21, <1>22, <1>4, EditFacts
<1>24. Edited(t, q, r, up + j, l, new, c + 1)
  <2>1. c + x - y = c + 1
    BY <1>14
  <2> QED BY <1>23, <2>1
<1>25. m = Lined(q, Len(new), c + 1)
  <2>1. q \in WorkType /\ q.s.input_size = n /\ q.s.input_cursor = c
    BY <1>24, <1>3 DEF Edited
  <2> QED BY <1>7, <1>8, <2>1 DEF Lined, WorkType, ScreenType
<1>26. /\ m \in WorkType /\ m.color = t.color /\ CursorAt(m)
       /\ InputAt(m.s, m.color, l)
       /\ terminal_get_input(m.s) = new
       /\ m.s.input_size = Len(new) /\ m.s.input_cursor = c + 1
       /\ KeptAbove(t.s, m.s)
       /\ ShownBy(q) => ShownBy(m)
  <2>1. t.s.initialized
    BY DEF InputAt
  <2>2. Len(new) <= INPUT_MAX /\ c + 1 \in 0 .. Len(new)
    BY <1>2, <1>8, Sizes
  <2>3. InputStart(t.s) = Row(r) + l /\ new \in Seq(Characters)
    BY <1>8, <1>4
  <2> QED BY <1>21, <1>24, <1>25, <2>1, <2>2, <2>3, LinedText
<1>27. ShownBy(m)
  BY <1>14, <1>23, <1>26
<1>28. LineBecomes(t, m, l, new, c + 1)
  BY <1>26, <1>27 DEF LineBecomes
<1> QED BY <1>28, <1>3 DEF new, text

\* The end of a line is written again, and spaces over what was after it.
LEMMA RewriteFacts ==
  ASSUME NEW u \in WorkType, ~CursorOff(u.crtc),
         NEW l \in Nat, Fits(l), NEW r \in Nat, NEW a \in Nat,
         u.s.scroll_y <= r, Position(u.s) = Row(r) + l + a,
         NEW buffer \in Seq(Characters), NEW e \in Nat, NEW b \in Nat, b = Len(buffer),
         a + b + e <= INPUT_MAX,
         NEW text, Len(text) = a + b,
         \A j \in 1 .. b : buffer[j] = text[a + j],
         StartsWith(u.s, r, l, a, text),
         BlankFrom(u.s, u.color, Row(r) + l + a + (b + e)),
         NEW q, q = put_input_after_cursor(u, buffer, e)
  PROVE  \E k \in Nat : /\ Edited(u, q, r, k, l, text, a)
                        /\ b + e > 0 \/ ShownBy(u) => ShownBy(q)
<1> DEFINE cs == buffer \o Spaces(e)
           p  == PutAll(u, cs)
<1>1. q = move_cursor(p, -(b + e))
  BY DEF put_input_after_cursor
<1>2. PICK x \in Nat : x = b + e
  OBVIOUS
<1>3. /\ cs \in Seq(Characters) /\ Len(cs) = x
      /\ \A j \in 1 .. x : cs[j] = IF j <= b THEN buffer[j] ELSE Space
  <2>1. /\ cs \in Seq(Characters) /\ Len(cs) = Len(buffer) + e
        /\ \A j \in 1 .. Len(buffer) + e : cs[j] = IF j <= Len(buffer) THEN buffer[j] ELSE Space
    BY PaddedFacts
  <2> HIDE DEF cs
  <2> QED BY <1>2, <2>1
<1> HIDE DEF cs
<1>4. PICK k \in Nat : Written(u, p, cs, x, k) /\ (x = 0 => p = u)
  BY <1>3, PutAllFacts
<1> HIDE DEF p
<1>5. RestOf(text, a, cs, x)
  <2> SUFFICES ASSUME NEW j \in 1 .. x
               PROVE  cs[j] = IF a + j <= Len(text) THEN text[a + j] ELSE Space
    BY DEF RestOf
  <2>1. a + j <= Len(text) <=> j <= b
    OBVIOUS
  <2>2. j <= b => buffer[j] = text[a + j]
    OBVIOUS
  <2> QED BY <1>3, <2>1, <2>2
<1>6. l + a + x < Row(VGA_HEIGHT)
  <2>1. a + x \in Nat /\ a + x <= INPUT_MAX
    BY <1>2
  <2>2. l + (a + x) < Row(VGA_HEIGHT)
    BY <2>1, FitsFacts
  <2>3. l + (a + x) = l + a + x
    OBVIOUS
  <2> QED BY <2>2, <2>3
<1>7. BlankFrom(u.s, u.color, Row(r) + l + a + x)
  BY <1>2
<1>8. a <= Len(text) /\ Len(text) <= a + x /\ Len(text) \in Nat
  BY <1>2
<1>9. q = move_cursor(p, -x) /\ x \in 0 .. x
  BY <1>1, <1>2
<1>10. /\ Edited(u, q, r, k, l, text, a + x - x)
       /\ x > 0 \/ (p = u /\ ShownBy(u)) => ShownBy(q)
  BY <1>4, <1>5, <1>6, <1>7, <1>8, <1>9, EditFacts
<1>11. a + x - x = a
  OBVIOUS
<1>12. b + e > 0 \/ ShownBy(u) => ShownBy(q)
  BY <1>2, <1>4, <1>10
<1>13. Edited(u, q, r, k, l, text, a)
  BY <1>10, <1>11
<1> QED BY <1>12, <1>13

Removed(text, a) == SubSeq(text, 1, a) \o SubSeq(text, a + 2, Len(text))

\* new is the text of n characters without the one after its first a.
IsRemoved(new, text, n, a) ==
  /\ new \in Seq(Characters) /\ Len(new) = n - 1
  /\ \A j \in 1 .. a : new[j] = text[j]
  /\ \A j \in 1 .. n - 1 - a : new[a + j] = text[a + 1 + j]

LEMMA RemovedFacts ==
  ASSUME NEW text \in Seq(Characters), NEW n \in Nat, n = Len(text), NEW a \in 0 .. n - 1
  PROVE  IsRemoved(Removed(text, a), text, n, a)
<1> DEFINE x == SubSeq(text, 1, a)
           z == SubSeq(text, a + 2, n)
<1>1. x \in Seq(Characters) /\ Len(x) = a /\ \A j \in 1 .. a : x[j] = text[j]
  OBVIOUS
<1>2. z \in Seq(Characters) /\ Len(z) = n - 1 - a /\ \A j \in 1 .. n - 1 - a : z[j] = text[a + 1 + j]
  <2>1. a + 2 \in 1 .. n + 1 /\ n \in 0 .. n
    OBVIOUS
  <2>2. z \in Seq(Characters) /\ Len(z) = n - 1 - a
    BY <2>1
  <2>3. \A j \in 1 .. n - 1 - a : z[j] = text[a + 2 + j - 1] /\ a + 2 + j - 1 = a + 1 + j
    BY <2>1
  <2> QED BY <2>2, <2>3
<1> HIDE DEF x, z
<1>3. Removed(text, a) = x \o z
  BY DEF Removed, x, z
<1>4. /\ x \o z \in Seq(Characters) /\ Len(x \o z) = n - 1
      /\ \A j \in 1 .. a : (x \o z)[j] = x[j]
      /\ \A j \in 1 .. n - 1 - a : (x \o z)[a + j] = z[j]
  <2>1. x \in Seq(Characters) /\ z \in Seq(Characters) /\ Len(x) = a /\ Len(z) = n - 1 - a
    BY <1>1, <1>2
  <2>2. x \o z \in Seq(Characters) /\ Len(x \o z) = a + (n - 1 - a)
    BY <2>1
  <2>3. \A j \in 1 .. a : (x \o z)[j] = x[j]
    BY <2>1
  <2>4. \A j \in 1 .. n - 1 - a : (x \o z)[a + j] = z[j]
    BY <2>1
  <2> QED BY <2>2, <2>3, <2>4
<1>5. \A j \in 1 .. a : Removed(text, a)[j] = text[j]
  BY <1>1, <1>3, <1>4
<1>6. \A j \in 1 .. n - 1 - a : Removed(text, a)[a + j] = text[a + 1 + j]
  BY <1>2, <1>3, <1>4
<1>7. Removed(text, a) \in Seq(Characters) /\ Len(Removed(text, a)) = n - 1
  BY <1>3, <1>4
<1> QED BY <1>5, <1>6, <1>7 DEF IsRemoved

LEMMA DelForwardFacts ==
  ASSUME NEW t \in WorkType, CursorAt(t), NEW l \in Nat, Fits(l), InputAt(t.s, t.color, l),
         NEW m, m = terminal_del_input_forward(t)
  PROVE  LineBecomes(t, m, l,
                     IF t.s.input_cursor < t.s.input_size
                     THEN Removed(terminal_get_input(t.s), t.s.input_cursor)
                     ELSE terminal_get_input(t.s),
                     t.s.input_cursor)
<1> DEFINE text == terminal_get_input(t.s)
           after == get_input_after_cursor(t.s)
<1>1. PICK r \in Nat, n \in Nat, c \in Nat : LineAt(t.s, t.color, l, r, n, c)
  BY WorkFacts, LineFacts
<1>2. c <= n /\ n <= INPUT_MAX
  BY <1>1 DEF LineAt
<1>3. n = t.s.input_size /\ c = t.s.input_cursor
  BY <1>1 DEF LineAt
<1>4. t.s.scroll_y <= r /\ Position(t.s) = Row(r) + l + c /\ InputStart(t.s) = Row(r) + l
  BY <1>1 DEF LineAt
<1>5. text \in Seq(Characters) /\ Len(text) = n
  BY <1>1 DEF LineAt
<1>6. StartsWith(t.s, r, l, n, text) /\ BlankFrom(t.s, t.color, Row(r) + l + n)
  BY <1>1 DEF LineAt
<1>7. after \in Seq(Characters) /\ Len(after) = n - c
  BY <1>1 DEF LineAt
<1>8. \A j \in 1 .. n - c : after[j] = text[c + j]
  BY <1>1 DEF LineAt
<1> DEFINE new == IF c < n THEN Removed(text, c) ELSE text
           count == IF Len(after) < 1 THEN Len(after) ELSE 1
           buffer == SubSeq(after, count + 1, Len(after))
           q == put_input_after_cursor(t, buffer, count)
<1>9. m = [q EXCEPT !.s.input_size = @ - count]
  <2>1. ~(t.s.input_size < 0)
    BY <1>3
  <2> QED BY <2>1 DEF terminal_del_input_forward
<1> HIDE DEF after, text, q
<1>10. PICK e \in Nat : e = count /\ e = IF c < n THEN 1 ELSE 0
  <2>1. Len(after) \in Nat /\ (Len(after) < 1 <=> ~(c < n)) /\ (Len(after) < 1 => Len(after) = 0)
    BY <1>2, <1>7
  <2> QED BY <2>1
<1>11. PICK b \in Nat : b = n - c - e
  <2>1. n - c - e \in Nat
    <3>1. CASE c < n
      BY <1>10, <3>1
    <3>2. CASE ~(c < n)
      BY <1>2, <1>10, <3>2
    <3> QED BY <3>1, <3>2
  <2> QED BY <2>1
<1>12. /\ buffer \in Seq(Characters) /\ Len(buffer) = b
       /\ \A j \in 1 .. b : buffer[j] = after[e + j]
  <2>1. buffer = SubSeq(after, e + 1, n - c)
    BY <1>7, <1>10
  <2>2. PICK y \in Nat : y = n - c
    BY <1>2
  <2>3. e + 1 \in 1 .. y + 1 /\ y \in 0 .. y /\ y = e + b
    BY <1>2, <1>10, <1>11, <2>2
  <2>4. after \in Seq(Characters) /\ Len(after) = y
    BY <1>7, <2>2
  <2> DEFINE z == SubSeq(after, e + 1, y)
  <2>5. z \in Seq(Characters) /\ Len(z) = b
    BY <2>3, <2>4
  <2>6. \A j \in 1 .. b : z[j] = after[e + 1 + j - 1] /\ e + 1 + j - 1 = e + j
    BY <2>3, <2>4
  <2>7. buffer = z
    BY <2>1, <2>2
  <2> QED BY <2>5, <2>6, <2>7
<1> HIDE DEF buffer
<1>13. /\ new \in Seq(Characters) /\ Len(new) = n - e
       /\ \A j \in 1 .. c : new[j] = text[j]
       /\ \A j \in 1 .. b : new[c + j] = text[c + (e + j)]
  <2>1. CASE c < n
    <3>1. n \in Nat /\ n = Len(text) /\ c \in 0 .. n - 1 /\ text \in Seq(Characters)
      BY <1>5, <2>1
    <3>2. IsRemoved(Removed(text, c), text, n, c)
      BY <3>1, RemovedFacts
    <3>3. IsRemoved(new, text, n, c) /\ e = 1 /\ b = n - 1 - c
      BY <1>10, <1>11, <2>1, <3>2
    <3> HIDE DEF new
    <3>4. \A j \in 1 .. n - 1 - c : new[c + j] = text[c + 1 + j]
      BY <3>3 DEF IsRemoved
    <3>5. \A j \in 1 .. b : j \in 1 .. n - 1 - c /\ c + 1 + j = c + (e + j)
      BY <3>3
    <3>6. \A j \in 1 .. b : new[c + j] = text[c + (e + j)]
      BY <3>4, <3>5
    <3> QED BY <3>3, <3>6 DEF IsRemoved
  <2>2. CASE ~(c < n)
    <3>1. new = text /\ e = 0 /\ n - e = n
      BY <1>10, <2>2
    <3>2. \A j \in 1 .. b : c + (e + j) = c + j
      BY <3>1
    <3> HIDE DEF new
    <3> QED BY <1>5, <3>1, <3>2
  <2> QED BY <2>1, <2>2
<1> HIDE DEF new
<1>14. \A j \in 1 .. b : buffer[j] = new[c + j]
  <2> SUFFICES ASSUME NEW j \in 1 .. b PROVE buffer[j] = new[c + j]
    OBVIOUS
  <2>1. e + j \in 1 .. n - c
    BY <1>2, <1>11
  <2>2. after[e + j] = text[c + (e + j)]
    BY <1>8, <2>1
  <2> QED BY <1>12, <1>13, <2>2
<1>15. StartsWith(t.s, r, l, c, new)
  <2>1. \A i \in 1 .. c : i \in 1 .. n
    BY <1>2
  <2> QED BY <1>6, <1>13, <2>1 DEF StartsWith
<1>16. BlankFrom(t.s, t.color, Row(r) + l + c + (b + e))
  <2>1. PICK R \in Nat : R = Row(r)
    BY RowFacts
  <2>2. R + l + c + (b + e) = R + l + n
    BY <1>11
  <2> QED BY <1>6, <2>1, <2>2
<1>17. Len(new) = c + b /\ c + b + e <= INPUT_MAX /\ b = Len(buffer)
  <2>1. c + b + e = n /\ n - e = c + b
    BY <1>11
  <2> QED BY <1>2, <1>12, <1>13, <2>1
<1>18. q = put_input_after_cursor(t, buffer, e)
  BY <1>10 DEF q
<1>19. PICK k \in Nat : /\ Edited(t, q, r, k, l, new, c)
                        /\ b + e > 0 \/ ShownBy(t) => ShownBy(q)
  BY <1>4, <1>12, <1>14, <1>15, <1>16, <1>17, <1>18, CursorIsOn, RewriteFacts
<1>20. m = Lined(q, Len(new), c)
  <2>1. q \in WorkType /\ q.s.input_size = n /\ q.s.input_cursor = c
    BY <1>3, <1>19 DEF Edited
  <2>2. m = [q EXCEPT !.s.input_size = n - e]
    BY <1>9, <1>10, <2>1
  <2> QED BY <1>13, <2>1, <2>2 DEF Lined, WorkType, ScreenType
<1>21. /\ m \in WorkType /\ m.color = t.color /\ CursorAt(m)
       /\ InputAt(m.s, m.color, l)
       /\ terminal_get_input(m.s) = new
       /\ m.s.input_size = Len(new) /\ m.s.input_cursor = c
       /\ KeptAbove(t.s, m.s)
       /\ ShownBy(q) => ShownBy(m)
  <2>1. t.s.initialized
    BY DEF InputAt
  <2>2. Len(new) <= INPUT_MAX /\ c \in 0 .. Len(new)
    BY <1>17, Sizes
  <2>3. InputStart(t.s) = Row(r) + l /\ new \in Seq(Characters)
    BY <1>4, <1>13
  <2> QED BY <1>19, <1>20, <2>1, <2>2, <2>3, LinedText
<1>22. ShownBy(t) => ShownBy(m)
  BY <1>19, <1>21
<1>23. t.s.input_size = 0 \/ ShownBy(t) => m.s.input_size = 0 \/ ShownBy(m)
  <2>1. CASE b + e > 0
    BY <1>19, <1>21, <2>1
  <2>2. CASE ~(b + e > 0)
    <3>1. b = 0 /\ e = 0 /\ n = c
      BY <1>11, <2>2
    <3>2. m.s.input_size = n
      BY <1>13, <1>21, <3>1
    <3>3. t.s.input_size = m.s.input_size
      BY <1>3, <3>2
    <3> QED BY <1>22, <3>3
  <2> QED BY <2>1, <2>2
<1>24. LineBecomes(t, m, l, new, c)
  BY <1>21, <1>22, <1>23 DEF LineBecomes
<1> QED BY <1>3, <1>24 DEF new, text

\* The cursor before the previous cell, which is blanked.
Back(t) ==
  LET s == t.s
      x == IF s.cursor_x = 0 THEN TERMINAL_WIDTH - 1 ELSE s.cursor_x - 1
      y == IF s.cursor_x = 0 THEN s.cursor_y - 1 ELSE s.cursor_y
  IN  [t EXCEPT !.s.cursor_x = x,
                !.s.cursor_y = y,
                !.s.data[y * TERMINAL_WIDTH + x] = BlankCell(t),
                !.vga = vga_set_cells(@, BlankCell(t), {y_to_vga(s, y) * TERMINAL_WIDTH + x})]

LEMMA BackFacts ==
  ASSUME NEW t \in WorkType, Position(t.s) > 0, NEW b, b = Back(t)
  PROVE  /\ b \in WorkType /\ b.color = t.color /\ b.crtc = t.crtc /\ SameField(t.s, b.s)
         /\ Position(b.s) = Position(t.s) - 1
         /\ \A q \in Positions : q # Position(t.s) - 1 => b.s.data[q] = t.s.data[q]
<1> DEFINE s == t.s
           x == IF s.cursor_x = 0 THEN TERMINAL_WIDTH - 1 ELSE s.cursor_x - 1
           y == IF s.cursor_x = 0 THEN s.cursor_y - 1 ELSE s.cursor_y
<1>1. /\ s.cursor_x \in 0 .. TERMINAL_WIDTH - 1 /\ s.cursor_y \in 0 .. TERMINAL_HEIGHT - 1
      /\ Position(s) = Row(s.cursor_y) + s.cursor_x /\ Position(s) \in Positions
      /\ s.data \in [Positions -> Cells] /\ s \in ScreenType /\ t.vga \in [VisibleCells -> Cells]
      /\ BlankCell(t) \in Cells
  BY WorkFacts, ScreenFacts
<1>2. s.cursor_x = 0 => s.cursor_y >= 1
  <2>1. s.cursor_x = 0 /\ s.cursor_y = 0 => Position(s) = 0
    BY <1>1, RowFacts
  <2>2. ~(s.cursor_x = 0 /\ s.cursor_y = 0)
    BY <2>1
  <2> QED BY <1>1, <2>2, Sizes
<1>3. x \in 0 .. TERMINAL_WIDTH - 1 /\ y \in 0 .. TERMINAL_HEIGHT - 1
  BY <1>1, <1>2, Sizes
<1>4. Row(y) + x = Position(s) - 1
  <2>1. CASE s.cursor_x = 0
    <3>1. s.cursor_y \in Int /\ 1 \in Int
      BY <1>1
    <3>2. Row(s.cursor_y - 1) = Row(s.cursor_y) - TERMINAL_WIDTH /\ Row(s.cursor_y) \in Int
      BY <3>1, RowFacts
    <3>3. y = s.cursor_y - 1 /\ x = TERMINAL_WIDTH - 1
      BY <2>1
    <3> HIDE DEF x, y
    <3> QED BY <1>1, <2>1, <3>2, <3>3, Sizes
  <2>2. CASE s.cursor_x # 0
    <3>1. s.cursor_y \in Int
      BY <1>1
    <3>2. Row(s.cursor_y) \in Int
      BY <3>1, RowFacts
    <3> QED BY <1>1, <2>2, <3>2
  <2> QED BY <2>1, <2>2
<1> DEFINE position == y * TERMINAL_WIDTH + x
           data == [s.data EXCEPT ![position] = BlankCell(t)]
           cells == vga_set_cells(t.vga, BlankCell(t), {y_to_vga(s, y) * TERMINAL_WIDTH + x})
           w == [s EXCEPT !.cursor_x = x, !.cursor_y = y, !.data = data]
<1>5. b = [t EXCEPT !.s = w, !.vga = cells]
  BY DEF Back, WorkType, ScreenType
<1>6. cells \in [VisibleCells -> Cells]
  BY <1>1, SetCellsType
<1>7. position = Position(s) - 1
  BY <1>4 DEF Row
<1> HIDE DEF x, y, position, cells
<1>8. data \in [Positions -> Cells] /\ \A q \in Positions : q # position => data[q] = s.data[q]
  BY <1>1
<1> HIDE DEF data
<1>9. /\ w \in ScreenType /\ SameField(s, w) /\ w.cursor_x = x /\ w.cursor_y = y /\ w.data = data
  BY <1>1, <1>3, <1>8 DEF ScreenType, SameField
<1> HIDE DEF w
<1>10. /\ b \in WorkType /\ b.color = t.color /\ b.crtc = t.crtc /\ b.s = w
  BY <1>5, <1>6, <1>9 DEF WorkType
<1>11. Position(b.s) = Position(s) - 1
  BY <1>4, <1>9, <1>10 DEF Position, Row
<1> QED BY <1>7, <1>8, <1>9, <1>10, <1>11

LEMMA DelInputFacts ==
  ASSUME NEW t \in WorkType, CursorAt(t), NEW l \in Nat, Fits(l), InputAt(t.s, t.color, l),
         NEW m, m = terminal_del_input(t)
  PROVE  LineBecomes(t, m, l,
                     IF t.s.input_cursor > 0
                     THEN Removed(terminal_get_input(t.s), t.s.input_cursor - 1)
                     ELSE terminal_get_input(t.s),
                     IF t.s.input_cursor > 0 THEN t.s.input_cursor - 1 ELSE 0)
<1> DEFINE text == terminal_get_input(t.s)
           after == get_input_after_cursor(t.s)
<1>1. PICK r \in Nat, n \in Nat, c \in Nat : LineAt(t.s, t.color, l, r, n, c)
  BY WorkFacts, LineFacts
<1>2. c <= n /\ n <= INPUT_MAX
  BY <1>1 DEF LineAt
<1>3. n = t.s.input_size /\ c = t.s.input_cursor
  BY <1>1 DEF LineAt
<1>4. t.s.scroll_y <= r /\ Position(t.s) = Row(r) + l + c /\ InputStart(t.s) = Row(r) + l
  BY <1>1 DEF LineAt
<1>5. text \in Seq(Characters) /\ Len(text) = n
  BY <1>1 DEF LineAt
<1>6. StartsWith(t.s, r, l, n, text) /\ BlankFrom(t.s, t.color, Row(r) + l + n)
  BY <1>1 DEF LineAt
<1>7. after \in Seq(Characters) /\ Len(after) = n - c
  BY <1>1 DEF LineAt
<1>8. \A j \in 1 .. n - c : after[j] = text[c + j]
  BY <1>1 DEF LineAt
<1> DEFINE new == IF c > 0 THEN Removed(text, c - 1) ELSE text
           count == BackspaceCount(t.s)
           moved == count = 1 /\ Position(t.s) # 0
           u == IF moved THEN Back(t) ELSE t
           q == put_input_after_cursor(u, after, count)
           w == [q EXCEPT !.s.input_size = @ - count, !.s.input_cursor = @ - count]
<1>9. m = PutCursor(w)
  <2>1. ~(t.s.input_size < 0)
    BY <1>3
  <2> QED BY <2>1 DEF terminal_del_input, Back
<1> HIDE DEF after, text, q
<1>10. PICK e \in Nat : e = count /\ e = IF c > 0 THEN 1 ELSE 0
  BY <1>3 DEF BackspaceCount
<1>11. PICK b \in Nat : b = n - c
  BY <1>2
<1>12. PICK a \in Nat : a = c - e
  <2>1. c - e \in Nat
    BY <1>10
  <2> QED BY <2>1
<1>13. PICK T \in Nat : T = Position(t.s) /\ T \in Positions
  BY WorkFacts, ScreenFacts
<1>14. PICK R \in Nat : R = Row(r)
  BY RowFacts
<1>15. T = R + l + c
  BY <1>4, <1>13, <1>14
<1>16. /\ u \in WorkType /\ u.color = t.color /\ u.crtc = t.crtc /\ SameField(t.s, u.s)
       /\ Position(u.s) = R + l + a
       /\ \A i \in Positions : i < R + l + a \/ i >= R + l + c => u.s.data[i] = t.s.data[i]
       /\ e = 0 => u = t
  <2>1. CASE c > 0
    <3>1. moved /\ Position(t.s) > 0 /\ e = 1
      BY <1>10, <1>13, <1>15, <2>1
    <3>2. u = Back(t)
      BY <3>1
    <3> HIDE DEF u, moved
    <3>3. /\ u \in WorkType /\ u.color = t.color /\ u.crtc = t.crtc /\ SameField(t.s, u.s)
          /\ Position(u.s) = Position(t.s) - 1
          /\ \A i \in Positions : i # Position(t.s) - 1 => u.s.data[i] = t.s.data[i]
      BY <3>1, <3>2, BackFacts
    <3>4. Position(u.s) = T - 1 /\ T - 1 = R + l + a
      <4>1. a = c - 1
        BY <1>12, <3>1
      <4>2. T - 1 = R + l + a
        BY <1>15, <4>1
      <4> QED BY <1>13, <3>3, <4>2
    <3>5. \A i \in Nat : i < R + l + a \/ i >= R + l + c => i # T - 1
      BY <1>12, <1>15, <3>1
    <3>6. \A i \in Positions : i \in Nat
      BY DEF Positions
    <3>7. \A i \in Positions : i < R + l + a \/ i >= R + l + c => u.s.data[i] = t.s.data[i]
      BY <1>13, <3>3, <3>5, <3>6
    <3> QED BY <3>1, <3>3, <3>4, <3>7
  <2>2. CASE ~(c > 0)
    <3>1. e = 0 /\ c = 0
      BY <1>10, <2>2
    <3>2. u = t /\ a = c
      BY <1>10, <1>12, <3>1
    <3>3. SameField(t.s, u.s)
      BY <3>2 DEF SameField
    <3> HIDE DEF u
    <3> QED BY <1>13, <1>15, <3>2, <3>3
  <2> QED BY <2>1, <2>2
<1> HIDE DEF u, moved
<1>17. /\ new \in Seq(Characters) /\ Len(new) = n - e
       /\ \A j \in 1 .. a : new[j] = text[j]
       /\ \A j \in 1 .. b : new[a + j] = text[c + j]
  <2>1. CASE c > 0
    <3>1. n \in Nat /\ n = Len(text) /\ c - 1 \in 0 .. n - 1 /\ text \in Seq(Characters)
      BY <1>2, <1>5, <2>1
    <3>2. IsRemoved(Removed(text, c - 1), text, n, c - 1)
      BY <3>1, RemovedFacts
    <3>3. e = 1 /\ a = c - 1 /\ b = n - 1 - a
      BY <1>10, <1>11, <1>12, <2>1
    <3>4. IsRemoved(new, text, n, a)
      BY <2>1, <3>2, <3>3
    <3> HIDE DEF new
    <3>5. \A j \in 1 .. n - 1 - a : new[a + j] = text[a + 1 + j]
      BY <3>4 DEF IsRemoved
    <3>6. \A j \in 1 .. b : j \in 1 .. n - 1 - a /\ a + 1 + j = c + j
      BY <3>3
    <3>7. \A j \in 1 .. b : new[a + j] = text[c + j]
      BY <3>5, <3>6
    <3> QED BY <3>3, <3>4, <3>7 DEF IsRemoved
  <2>2. CASE ~(c > 0)
    <3>1. new = text /\ e = 0 /\ n - e = n /\ a = c
      BY <1>10, <1>12, <2>2
    <3> HIDE DEF new
    <3> QED BY <1>5, <3>1
  <2> QED BY <2>1, <2>2
<1> HIDE DEF new
<1>18. \A j \in 1 .. b : after[j] = new[a + j]
  BY <1>8, <1>11, <1>17
<1>19. PICK H \in Nat : Positions = 0 .. H - 1
  BY PositionFacts
<1>20. StartsWith(u.s, r, l, a, new)
  <2> SUFFICES ASSUME NEW i \in 1 .. a PROVE u.s.data[R + l + i - 1].character = new[i]
    BY <1>14 DEF StartsWith
  <2>1. i \in 1 .. n /\ R + l + i - 1 \in Nat /\ R + l + i - 1 < R + l + a /\ R + l + i - 1 < T
    BY <1>2, <1>12, <1>15
  <2>2. R + l + i - 1 \in Positions
    BY <1>13, <1>19, <2>1
  <2>3. t.s.data[R + l + i - 1].character = text[i]
    BY <1>6, <1>14, <2>1 DEF StartsWith
  <2> QED BY <1>16, <1>17, <2>1, <2>2, <2>3
<1>21. BlankFrom(u.s, u.color, Row(r) + l + a + (b + e))
  <2>1. R + l + a + (b + e) = R + l + n
    BY <1>11, <1>12
  <2>2. \A i \in Positions : i \in Nat
    BY <1>19
  <2>3. \A i \in Nat : i >= R + l + n => i >= R + l + c
    BY <1>2
  <2>4. BlankFrom(t.s, t.color, R + l + n)
    BY <1>6, <1>14
  <2>5. BlankFrom(u.s, u.color, R + l + n)
    BY <1>16, <2>2, <2>3, <2>4 DEF BlankFrom
  <2> QED BY <1>14, <2>1, <2>5
<1>22. Len(new) = a + b /\ a + b + e <= INPUT_MAX /\ b = Len(after) /\ a <= Len(new)
  <2>1. a + b + e = n /\ n - e = a + b
    BY <1>11, <1>12
  <2> QED BY <1>2, <1>7, <1>11, <1>17, <2>1
<1>23. q = put_input_after_cursor(u, after, e)
  BY <1>10 DEF q
<1>24. u.s.scroll_y <= r /\ Position(u.s) = Row(r) + l + a /\ ~CursorOff(u.crtc)
  BY <1>4, <1>14, <1>16, CursorIsOn DEF SameField
<1>25. PICK k \in Nat : /\ Edited(u, q, r, k, l, new, a)
                        /\ b + e > 0 \/ ShownBy(u) => ShownBy(q)
  BY <1>7, <1>16, <1>18, <1>20, <1>21, <1>22, <1>23, <1>24, RewriteFacts
<1>26. w = Lined(q, Len(new), a)
  <2>1. q \in WorkType /\ q.s.input_size = n /\ q.s.input_cursor = c
    BY <1>3, <1>16, <1>25 DEF Edited, SameField
  <2>2. w = [q EXCEPT !.s.input_size = n - e, !.s.input_cursor = c - e]
    BY <1>10, <2>1
  <2> HIDE DEF w
  <2> QED BY <1>12, <1>17, <2>1, <2>2 DEF Lined, WorkType, ScreenType
<1> HIDE DEF w
<1>27. /\ w \in WorkType /\ w.color = t.color /\ CursorAt(w) /\ InView(w.s)
       /\ InputAt(w.s, w.color, l)
       /\ terminal_get_input(w.s) = new
       /\ w.s.input_size = Len(new) /\ w.s.input_cursor = a
       /\ KeptAbove(t.s, w.s)
       /\ ShownBy(q) => ShownBy(w)
  <2>1. u.s.initialized
    BY <1>16 DEF InputAt, SameField
  <2>2. Len(new) <= INPUT_MAX /\ a \in 0 .. Len(new)
    BY <1>22, Sizes
  <2>3. InputStart(t.s) = Row(r) + l /\ new \in Seq(Characters)
    BY <1>4, <1>17
  <2>4. \A i \in Positions : i < Row(r) + l => u.s.data[i] = t.s.data[i]
    <3>1. \A i \in Nat : i < R + l => i < R + l + a
      OBVIOUS
    <3>2. \A i \in Positions : i \in Nat
      BY <1>19
    <3> QED BY <1>14, <1>16, <3>1, <3>2
  <2> QED BY <1>16, <1>25, <1>26, <2>1, <2>2, <2>3, <2>4, LinedText
<1>28. m \in WorkType /\ m.s = w.s /\ m.color = w.color /\ m.vga = w.vga /\ CursorAt(m)
  BY <1>9, <1>27, CursorIsOn, PutCursorFacts DEF InView
<1>29. ShownBy(w) => ShownBy(m)
  BY <1>28 DEF ShownBy
<1>30. ShownBy(t) => ShownBy(m)
  <2>1. CASE e = 0
    BY <1>16, <1>25, <1>27, <1>29, <2>1
  <2>2. CASE e # 0
    <3>1. b + e > 0
      BY <2>2
    <3> QED BY <1>25, <1>27, <1>29, <3>1
  <2> QED BY <2>1, <2>2
<1>31. t.s.input_size = 0 \/ ShownBy(t) => m.s.input_size = 0 \/ ShownBy(m)
  <2>1. CASE b + e > 0
    BY <1>25, <1>27, <1>29, <2>1
  <2>2. CASE ~(b + e > 0)
    <3>1. b = 0 /\ e = 0 /\ n - e = n
      BY <2>2
    <3>2. m.s.input_size = n
      BY <1>17, <1>27, <1>28, <3>1
    <3>3. t.s.input_size = m.s.input_size
      BY <1>3, <3>2
    <3> QED BY <1>30, <3>3
  <2> QED BY <2>1, <2>2
<1>32. LineBecomes(t, m, l, new, a)
  BY <1>27, <1>28, <1>30, <1>31 DEF LineBecomes
<1>33. a = IF c > 0 THEN c - 1 ELSE 0
  BY <1>10, <1>12
<1> QED BY <1>3, <1>32, <1>33 DEF new, text


\* Moving the cursor in the line, or scrolling, keeps the line.
LEMMA MovedFacts ==
  ASSUME NEW t \in WorkType, NEW l \in Nat, Fits(l), InputAt(t.s, t.color, l),
         NEW m \in WorkType, m.color = t.color, m.s.data = t.s.data, CursorAt(m),
         m.s.initialized = t.s.initialized, m.s.input_size = t.s.input_size,
         NEW c \in Nat, m.s.input_cursor = c, c <= t.s.input_size,
         Position(m.s) = InputStart(t.s) + c,
         ShownBy(t) => ShownBy(m),
         m.s.scroll_y <= t.s.scroll_y \/ m.s.scroll_y + VGA_HEIGHT <= m.s.cursor_y + 1
  PROVE  LineBecomes(t, m, l, terminal_get_input(t.s), c)
<1> DEFINE text == terminal_get_input(t.s)
<1>1. PICK r \in Nat, n \in Nat, d \in Nat : LineAt(t.s, t.color, l, r, n, d)
  BY WorkFacts, LineFacts
<1>2. n = t.s.input_size /\ n <= INPUT_MAX /\ c <= n
  BY <1>1 DEF LineAt
<1>3. t.s.scroll_y <= r /\ InputStart(t.s) = Row(r) + l /\ Row(r) + l + n \in Positions
  BY <1>1 DEF LineAt
<1>4. text \in Seq(Characters) /\ Len(text) = n
  BY <1>1 DEF LineAt
<1>5. StartsWith(t.s, r, l, n, text) /\ BlankFrom(t.s, t.color, Row(r) + l + n)
  BY <1>1 DEF LineAt
<1>6. PICK R \in Nat : R = Row(r)
  BY RowFacts
<1>7. Position(m.s) = R + l + c
  BY <1>3, <1>6
<1>8. InputStart(m.s) = InputStart(t.s)
  BY <1>3, <1>6, <1>7 DEF InputStart
<1>9. terminal_get_input(m.s) = text
  BY <1>8 DEF terminal_get_input
<1>10. m.s.scroll_y <= r
  <2>1. /\ m.s.cursor_y \in 0 .. TERMINAL_HEIGHT - 1 /\ m.s.cursor_x \in 0 .. TERMINAL_WIDTH - 1
        /\ m.s.scroll_y \in 0 .. TERMINAL_EXTRA_LINES /\ t.s.scroll_y \in 0 .. TERMINAL_EXTRA_LINES
        /\ Position(m.s) = Row(m.s.cursor_y) + m.s.cursor_x
    BY WorkFacts, ScreenFacts
  <2>2. PICK v \in Nat : v = VGA_HEIGHT
    BY Sizes
  <2>3. PICK V \in Nat : V = Row(v)
    BY RowFacts
  <2>4. r \in Int /\ v \in Int /\ r + v \in Int /\ m.s.cursor_y \in Int
    BY <2>1
  <2>5. Row(r + v) = R + V
    BY <1>6, <2>3, <2>4, RowFacts
  <2>6. l + c < V
    BY <1>2, <2>2, <2>3, FitsFacts
  <2>7. Row(m.s.cursor_y) + m.s.cursor_x < Row(r + v)
    BY <1>7, <2>1, <2>5, <2>6
  <2>8. m.s.cursor_y < r + v
    BY <2>1, <2>4, <2>7, InRow
  <2>9. PICK x \in Int : x = m.s.scroll_y
    BY <2>1
  <2>10. PICK y \in Int : y = t.s.scroll_y
    BY <2>1
  <2>11. PICK z \in Int : z = m.s.cursor_y
    BY <2>1
  <2>12. x <= y \/ x + v <= z + 1
    BY <2>2, <2>9, <2>10, <2>11
  <2>13. y <= r /\ z < r + v
    BY <1>3, <2>8, <2>10, <2>11
  <2>14. x <= r
    BY <2>12, <2>13
  <2> QED BY <2>9, <2>14
<1> HIDE DEF text
<1>11. FieldAt(m.s, m.color, r, l, terminal_get_input(m.s))
  BY <1>3, <1>4, <1>5, <1>9, <1>10 DEF FieldAt, StartsWith, BlankFrom
<1>12. InputAt(m.s, m.color, l)
  <2>1. m.s.initialized /\ m.s.input_size >= 0 /\ m.s.input_cursor <= m.s.input_size
    BY <1>2 DEF InputAt
  <2>2. Position(m.s) = Row(r) + l + m.s.input_cursor
    BY <1>6, <1>7
  <2> QED BY <1>11, <2>1, <2>2 DEF InputAt
<1>13. KeptAbove(t.s, m.s)
  <2>1. PICK i \in Nat : i = InputStart(t.s) /\ i = InputStart(m.s)
    BY <1>3, <1>6, <1>8
  <2>2. i - i = 0 /\ \A p \in 0 .. i - 1 : p + (i - i) = p
    OBVIOUS
  <2> QED BY <2>1, <2>2 DEF KeptAbove
<1>14. m.s.input_size = Len(text)
  BY <1>2, <1>4
<1> QED BY <1>9, <1>12, <1>13, <1>14 DEF LineBecomes, text

\* What terminal_move() makes of the cursor.
MovedCursor(s, direction) ==
  CASE direction = "left"  -> IF s.input_cursor > 0 THEN s.input_cursor - 1 ELSE s.input_cursor
    [] direction = "right" -> IF s.input_cursor < s.input_size THEN s.input_cursor + 1
                                                               ELSE s.input_cursor
    [] OTHER -> s.input_cursor

LEMMA StaysFacts ==
  ASSUME NEW t \in WorkType, CursorAt(t), NEW l \in Nat, Fits(l), InputAt(t.s, t.color, l)
  PROVE  LineBecomes(t, t, l, terminal_get_input(t.s), t.s.input_cursor)
<1>1. PICK c \in Nat : c = t.s.input_cursor /\ c <= t.s.input_size
  <2>1. t.s.input_cursor \in 0 .. INPUT_MAX
    BY WorkFacts, ScreenFacts
  <2> QED BY <2>1 DEF InputAt
<1>2. Position(t.s) = InputStart(t.s) + c
  <2>1. Position(t.s) \in Nat
    BY WorkFacts, ScreenFacts
  <2> QED BY <1>1, <2>1 DEF InputStart
<1>3. t.s.scroll_y <= t.s.scroll_y
  <2>1. t.s.scroll_y \in 0 .. TERMINAL_EXTRA_LINES
    BY WorkFacts, ScreenFacts
  <2> QED BY <2>1
<1> QED BY <1>1, <1>2, <1>3, MovedFacts

LEMMA ScrolledFacts ==
  ASSUME NEW t \in WorkType, CursorAt(t), NEW l \in Nat, Fits(l), InputAt(t.s, t.color, l),
         NEW n \in 0 .. TERMINAL_EXTRA_LINES, n <= t.s.cursor_y,
         n <= t.s.scroll_y \/ n + VGA_HEIGHT <= t.s.cursor_y + 1,
         NEW m, m = PutCursor(put_screen([t EXCEPT !.s.scroll_y = n]))
  PROVE  LineBecomes(t, m, l, terminal_get_input(t.s), t.s.input_cursor)
<1>1. /\ m \in WorkType /\ SameText(t.s, m.s) /\ m.s.scroll_y = n /\ m.color = t.color
      /\ ShownBy(m) /\ CursorAt(m)
  BY CursorIsOn, ScrollTo
<1>2. PICK c \in Nat : c = t.s.input_cursor /\ c <= t.s.input_size
  <2>1. t.s.input_cursor \in 0 .. INPUT_MAX
    BY WorkFacts, ScreenFacts
  <2> QED BY <2>1 DEF InputAt
<1>3. Position(m.s) = InputStart(t.s) + c
  <2>1. Position(t.s) \in Nat
    BY WorkFacts, ScreenFacts
  <2> QED BY <1>1, <1>2, <2>1 DEF InputStart, SameText
<1>4. m.s.scroll_y <= t.s.scroll_y \/ m.s.scroll_y + VGA_HEIGHT <= m.s.cursor_y + 1
  BY <1>1 DEF SameText
<1>5. /\ m.s.data = t.s.data /\ m.s.initialized = t.s.initialized /\ m.s.input_size = t.s.input_size
      /\ m.s.input_cursor = c
  BY <1>1, <1>2 DEF SameText
<1> QED BY <1>1, <1>2, <1>3, <1>4, <1>5, MovedFacts

\* One step of the cursor in its line.
LEMMA StepCursor ==
  ASSUME NEW t \in WorkType, CursorAt(t), NEW l \in Nat, Fits(l), InputAt(t.s, t.color, l),
         NEW offset \in {-1, 1}, NEW c \in Nat, c = t.s.input_cursor + offset, c <= t.s.input_size,
         NEW q, q = move_cursor(t, offset)
  PROVE  /\ q \in WorkType /\ q.color = t.color
         /\ Position(q.s) = InputStart(t.s) + c
         /\ q.s.input_size = t.s.input_size /\ q.s.input_cursor = t.s.input_cursor
         /\ q.s.initialized = t.s.initialized /\ q.s.data = t.s.data
         /\ InView(q.s)
         /\ q.s.scroll_y <= t.s.scroll_y \/ q.s.scroll_y = q.s.cursor_y - VGA_HEIGHT + 1
         /\ ShownBy(t) => ShownBy(q)
         /\ CursorAt(q)
<1>1. PICK r \in Nat, n \in Nat, d \in Nat : LineAt(t.s, t.color, l, r, n, d)
  BY WorkFacts, LineFacts
<1>2. n = t.s.input_size /\ d = t.s.input_cursor /\ n <= INPUT_MAX /\ d <= n
  BY <1>1 DEF LineAt
<1>3. Position(t.s) = Row(r) + l + d /\ InputStart(t.s) = Row(r) + l /\ Row(r) + l + n \in Positions
  BY <1>1 DEF LineAt
<1>4. PICK R \in Nat : R = Row(r)
  BY RowFacts
<1>5. PICK H \in Nat : Positions = 0 .. H - 1
  BY PositionFacts
<1>6. c = d + offset /\ c <= n
  BY <1>2
<1>7. R + l + n < H
  BY <1>3, <1>4, <1>5
<1>8. R + l + d + offset = R + l + c /\ R + l + c \in Positions
  <2>1. R + l + d + offset = R + l + c
    BY ONLY <1>6, offset \in {-1, 1}, c \in Nat
  <2>2. R + l + c \in 0 .. H - 1
    BY ONLY <1>6, <1>7, c \in Nat, R \in Nat, l \in Nat, n \in Nat, H \in Nat
  <2> QED BY <1>5, <2>1, <2>2
<1>9. Position(t.s) + offset = R + l + c
  BY <1>3, <1>4, <1>8
<1>10. offset \in Int /\ Position(t.s) + offset \in Positions
  BY <1>8, <1>9
<1>11. /\ q \in WorkType /\ q.color = t.color
       /\ Position(q.s) = Position(t.s) + offset
       /\ q.s.input_size = t.s.input_size /\ q.s.input_cursor = t.s.input_cursor
       /\ q.s.initialized = t.s.initialized /\ q.s.data = t.s.data
       /\ InView(q.s)
       /\ q.s.scroll_y <= t.s.scroll_y \/ q.s.scroll_y = q.s.cursor_y - VGA_HEIGHT + 1
       /\ ShownBy(t) => ShownBy(q)
       /\ CursorAt(q)
  BY <1>10, CursorIsOn, MoveCursorFacts
<1>12. Position(q.s) = InputStart(t.s) + c
  BY <1>3, <1>4, <1>9, <1>11
<1> QED BY <1>11, <1>12

LEMMA StepFacts ==
  ASSUME NEW t \in WorkType, CursorAt(t), NEW l \in Nat, Fits(l), InputAt(t.s, t.color, l),
         NEW offset \in {-1, 1}, NEW c \in Nat, c = t.s.input_cursor + offset, c <= t.s.input_size,
         NEW q, q = move_cursor(t, offset), NEW m, m = Lined(q, q.s.input_size, c)
  PROVE  LineBecomes(t, m, l, terminal_get_input(t.s), c)
<1>1. /\ q \in WorkType /\ q.color = t.color
      /\ Position(q.s) = InputStart(t.s) + c
      /\ q.s.input_size = t.s.input_size
      /\ q.s.initialized = t.s.initialized /\ q.s.data = t.s.data
      /\ InView(q.s)
      /\ q.s.scroll_y <= t.s.scroll_y \/ q.s.scroll_y = q.s.cursor_y - VGA_HEIGHT + 1
      /\ ShownBy(t) => ShownBy(q)
      /\ CursorAt(q)
  BY StepCursor
<1>2. PICK n \in Nat : n = t.s.input_size /\ n <= INPUT_MAX
  <2>1. t.s.input_size \in -1 .. INPUT_MAX /\ t.s.input_size >= 0
    BY WorkFacts, ScreenFacts DEF InputAt
  <2> QED BY <2>1, Sizes
<1>3. n \in -1 .. INPUT_MAX /\ c \in 0 .. INPUT_MAX /\ m = Lined(q, n, c)
  BY <1>1, <1>2, Sizes
<1>4. m \in WorkType
  BY ONLY <1>1, <1>3, LinedFacts
<1>5. /\ m.color = q.color /\ m.s.data = q.s.data /\ m.s.initialized = q.s.initialized
      /\ m.s.input_size = n /\ m.s.input_cursor = c
  BY ONLY <1>1, <1>3, LinedFacts
<1>6. /\ m.s.scroll_y = q.s.scroll_y /\ m.s.cursor_y = q.s.cursor_y
      /\ Position(m.s) = Position(q.s)
  BY ONLY <1>1, <1>3, LinedFacts
<1>7. (CursorAt(m) <=> CursorAt(q)) /\ (ShownBy(m) <=> ShownBy(q))
  BY ONLY <1>1, <1>3, LinedFacts
<1>8. m.s.scroll_y <= t.s.scroll_y \/ m.s.scroll_y + VGA_HEIGHT <= m.s.cursor_y + 1
  <2>1. PICK y \in Int : y = m.s.cursor_y
    BY <1>4, WorkFacts, ScreenFacts
  <2>2. PICK v \in Nat : v = VGA_HEIGHT
    BY Sizes
  <2>3. y - v + 1 + v <= y + 1
    OBVIOUS
  <2>4. m.s.scroll_y <= t.s.scroll_y \/ m.s.scroll_y = y - v + 1
    BY <1>1, <1>6, <2>1, <2>2
  <2> QED BY <2>1, <2>2, <2>3, <2>4
<1>9. Position(m.s) = InputStart(t.s) + c
  BY <1>1, <1>6
<1>10. /\ m.color = t.color /\ m.s.data = t.s.data /\ m.s.initialized = t.s.initialized
       /\ m.s.input_size = t.s.input_size /\ m.s.input_cursor = c
  BY <1>1, <1>2, <1>5
<1>11. CursorAt(m) /\ (ShownBy(t) => ShownBy(m))
  BY <1>1, <1>7
<1> QED BY <1>4, <1>8, <1>9, <1>10, <1>11, MovedFacts

\* The cursor is in a line, which is not above the rows that are shown.
LEMMA InputBelowScroll ==
  ASSUME NEW t \in WorkType, NEW l \in Nat, InputAt(t.s, t.color, l)
  PROVE  t.s.scroll_y <= t.s.cursor_y
<1>1. PICK r \in Nat, n \in Nat, d \in Nat : LineAt(t.s, t.color, l, r, n, d)
  BY WorkFacts, LineFacts
<1>2. t.s.scroll_y <= r /\ Position(t.s) = Row(r) + l + d
  BY <1>1 DEF LineAt
<1>3. /\ t.s.cursor_y \in 0 .. TERMINAL_HEIGHT - 1 /\ t.s.cursor_x \in 0 .. TERMINAL_WIDTH - 1
      /\ t.s.scroll_y \in 0 .. TERMINAL_EXTRA_LINES
      /\ Position(t.s) = Row(t.s.cursor_y) + t.s.cursor_x
  BY WorkFacts, ScreenFacts
<1>4. PICK R \in Nat : R = Row(r)
  BY RowFacts
<1>5. R <= R + l + d /\ r \in Int /\ t.s.cursor_y \in Int
  BY <1>3
<1>6. Row(r) <= Row(t.s.cursor_y) + t.s.cursor_x
  BY <1>2, <1>3, <1>4, <1>5
<1>7. r <= t.s.cursor_y
  BY <1>3, <1>5, <1>6, InRow
<1>8. PICK x \in Int : x = t.s.scroll_y
  BY <1>3
<1>9. PICK y \in Int : y = t.s.cursor_y
  BY <1>3
<1> QED BY <1>2, <1>7, <1>8, <1>9

LEMMA MoveFacts ==
  ASSUME NEW t \in WorkType, CursorAt(t), NEW l \in Nat, Fits(l), InputAt(t.s, t.color, l),
         NEW direction \in Directions, NEW m, m = terminal_move(t, direction)
  PROVE  LineBecomes(t, m, l, terminal_get_input(t.s), MovedCursor(t.s, direction))
<1> DEFINE text == terminal_get_input(t.s)
<1>1. /\ t.s.input_size >= 0 /\ ~(t.s.input_size < 0)
      /\ t.s.input_size \in Int /\ t.s.input_cursor \in Nat /\ t.s.input_cursor <= t.s.input_size
  <2>1. t.s.input_size \in -1 .. INPUT_MAX /\ t.s.input_cursor \in 0 .. INPUT_MAX
    BY WorkFacts, ScreenFacts
  <2>2. t.s.input_size >= 0 /\ t.s.input_cursor <= t.s.input_size
    BY DEF InputAt
  <2> QED BY <2>1, <2>2, Sizes
<1>2. LineBecomes(t, t, l, text, t.s.input_cursor)
  BY StaysFacts
<1>3. /\ t.s.scroll_y \in 0 .. TERMINAL_EXTRA_LINES /\ t.s.cursor_y \in 0 .. TERMINAL_HEIGHT - 1
  BY WorkFacts, ScreenFacts
<1>5. CASE direction = "up"
  <2>1. m = IF CanScrollUp(t.s) THEN Scroll(t, -1) ELSE t
    BY <1>1, <1>5 DEF terminal_move
  <2>2. MovedCursor(t.s, direction) = t.s.input_cursor
    BY <1>5 DEF MovedCursor
  <2>3. CASE ~CanScrollUp(t.s)
    BY <1>2, <2>1, <2>2, <2>3
  <2>4. CASE CanScrollUp(t.s)
    \* The cursor is not above the rows that are shown: the line is not.
    <3>1. PICK j \in Nat : j = t.s.scroll_y - 1
      BY <1>3, <2>4 DEF CanScrollUp
    <3>2. t.s.scroll_y <= t.s.cursor_y
      BY InputBelowScroll
    <3>3. j \in 0 .. TERMINAL_EXTRA_LINES /\ j <= t.s.cursor_y /\ j <= t.s.scroll_y
      BY <1>3, <3>1, <3>2, Sizes
    <3>4. m = PutCursor(put_screen([t EXCEPT !.s.scroll_y = j]))
      <4>1. t.s.scroll_y + -1 = j
        BY <1>3, <3>1
      <4>2. [t EXCEPT !.s.scroll_y = @ + -1] = [t EXCEPT !.s.scroll_y = j]
        BY <4>1
      <4> QED BY <2>1, <2>4, <4>2 DEF Scroll
    <3> QED BY <2>2, <3>3, <3>4, ScrolledFacts
  <2> QED BY <2>3, <2>4
<1>6. CASE direction = "down"
  <2>1. m = IF CanScrollDown(t.s) THEN Scroll(t, 1) ELSE t
    BY <1>1, <1>6 DEF terminal_move
  <2>2. MovedCursor(t.s, direction) = t.s.input_cursor
    BY <1>6 DEF MovedCursor
  <2>3. CASE ~CanScrollDown(t.s)
    BY <1>2, <2>1, <2>2, <2>3
  <2>4. CASE CanScrollDown(t.s)
    <3>1. PICK j \in Nat : j = t.s.scroll_y + 1
      BY <1>3
    <3>2. t.s.cursor_y >= t.s.scroll_y + VGA_HEIGHT /\ t.s.scroll_y + VGA_HEIGHT < TERMINAL_HEIGHT
      BY <2>4 DEF CanScrollDown
    <3>3. j \in 0 .. TERMINAL_EXTRA_LINES /\ j <= t.s.cursor_y /\ j + VGA_HEIGHT <= t.s.cursor_y + 1
      BY <1>3, <3>1, <3>2, Sizes
    <3>4. m = PutCursor(put_screen([t EXCEPT !.s.scroll_y = j]))
      <4>1. [t EXCEPT !.s.scroll_y = @ + 1] = [t EXCEPT !.s.scroll_y = j]
        BY <3>1
      <4> QED BY <2>1, <2>4, <4>1 DEF Scroll
    <3> QED BY <2>2, <3>3, <3>4, ScrolledFacts
  <2> QED BY <2>3, <2>4
<1>7. CASE direction = "left"
  <2>1. m = IF t.s.input_cursor > 0
            THEN [move_cursor(t, -1) EXCEPT !.s.input_cursor = @ - 1] ELSE t
    BY <1>1, <1>7 DEF terminal_move
  <2>2. CASE ~(t.s.input_cursor > 0)
    <3>1. MovedCursor(t.s, direction) = t.s.input_cursor
      BY <1>7, <2>2 DEF MovedCursor
    <3> QED BY <1>2, <2>1, <2>2, <3>1
  <2>3. CASE t.s.input_cursor > 0
    <3>1. PICK c \in Nat : c = t.s.input_cursor - 1 /\ c = t.s.input_cursor + -1 /\ c <= t.s.input_size
      BY <1>1, <2>3
    <3>2. MovedCursor(t.s, direction) = c
      BY <1>7, <2>3, <3>1 DEF MovedCursor
    <3> DEFINE q == move_cursor(t, -1)
    <3>3. m = [q EXCEPT !.s.input_cursor = @ - 1]
      BY <2>1, <2>3
    <3>4. q \in WorkType /\ q.s.input_cursor = t.s.input_cursor
      BY <3>1, StepCursor
    <3>5. m = Lined(q, q.s.input_size, c)
      <4>1. q.s.input_cursor - 1 = c
        BY <3>1, <3>4
      <4> HIDE DEF q
      <4> QED BY <3>3, <3>4, <4>1 DEF Lined, WorkType, ScreenType
    <3>6. -1 \in {-1, 1}
      OBVIOUS
    <3> HIDE DEF q
    <3>7. LineBecomes(t, m, l, text, c)
      BY <3>1, <3>5, <3>6, StepFacts DEF q
    <3> QED BY <3>2, <3>7
  <2> QED BY <2>2, <2>3
<1>8. CASE direction = "right"
  <2>1. m = IF t.s.input_cursor < t.s.input_size
            THEN [move_cursor(t, 1) EXCEPT !.s.input_cursor = @ + 1] ELSE t
    BY <1>1, <1>8 DEF terminal_move
  <2>2. CASE ~(t.s.input_cursor < t.s.input_size)
    <3>1. MovedCursor(t.s, direction) = t.s.input_cursor
      BY <1>8, <2>2 DEF MovedCursor
    <3> QED BY <1>2, <2>1, <2>2, <3>1
  <2>3. CASE t.s.input_cursor < t.s.input_size
    <3>1. PICK c \in Nat : c = t.s.input_cursor + 1 /\ c <= t.s.input_size
      BY <1>1, <2>3
    <3>2. MovedCursor(t.s, direction) = c
      BY <1>8, <2>3, <3>1 DEF MovedCursor
    <3> DEFINE q == move_cursor(t, 1)
    <3>3. m = [q EXCEPT !.s.input_cursor = @ + 1]
      BY <2>1, <2>3
    <3>4. q \in WorkType /\ q.s.input_cursor = t.s.input_cursor
      BY <3>1, StepCursor
    <3>5. m = Lined(q, q.s.input_size, c)
      <4>1. q.s.input_cursor + 1 = c
        BY <3>1, <3>4
      <4> HIDE DEF q
      <4> QED BY <3>3, <3>4, <4>1 DEF Lined, WorkType, ScreenType
    <3>6. 1 \in {-1, 1}
      OBVIOUS
    <3> HIDE DEF q
    <3>7. LineBecomes(t, m, l, text, c)
      BY <3>1, <3>5, <3>6, StepFacts DEF q
    <3> QED BY <3>2, <3>7
  <2> QED BY <2>2, <2>3
<1> QED BY <1>5, <1>6, <1>7, <1>8 DEF Directions

-----------------------------------------------------------------------------
(* The output *)

\* A terminal that can print: nothing is after its cursor.
Printing(t) == /\ t \in WorkType /\ ~CursorOff(t.crtc)
               /\ BlankFrom(t.s, t.color, Position(t.s))

\* r is t, whose input is left alone, after some output.
Printed(t, r) == /\ r \in WorkType /\ r.color = t.color /\ CursorAt(r)
                 /\ InView(r.s) /\ BlankFrom(r.s, r.color, Position(r.s))
                 /\ r.s.initialized = t.s.initialized
                 /\ r.s.input_size = t.s.input_size /\ r.s.input_cursor = t.s.input_cursor

LEMMA OutputPrints ==
  ASSUME NEW t \in WorkType, ~CursorOff(t.crtc), AtOutput(t.s, t.color)
  PROVE  Printing(t)
BY DEF Printing, AtOutput

\* Moved up, what is after the cursor stays blank.
LEMMA ShiftedBlank ==
  ASSUME NEW t, Printing(t), NEW k \in Nat, NEW q \in Nat, q + Row(k) >= Position(t.s)
  PROVE  ShiftedCell(t, k, q) = [character |-> Space, color |-> t.color]
BY DEF Printing, ShiftedCell, BlankFrom, BlankCell

LEMMA NewlinePrints ==
  ASSUME NEW t, Printing(t), NEW r, r = PutNewline(t)
  PROVE  Printed(t, r) /\ r.s.cursor_x = 0
<1>1. t \in WorkType /\ ~CursorOff(t.crtc)
  BY DEF Printing
<1>2. PICK k \in {0, 1} : NewRow(t, r, k)
  BY <1>1, PutNewlineFacts
<1>3. r \in WorkType /\ r.color = t.color /\ CursorAt(r) /\ InView(r.s)
  BY <1>2 DEF NewRow
<1>4. /\ r.s.input_size = t.s.input_size /\ r.s.input_cursor = t.s.input_cursor
      /\ r.s.initialized = t.s.initialized /\ r.s.cursor_x = 0
  BY <1>1, <1>2 DEF NewRow
<1>5. Position(r.s) + Row(k) >= Position(t.s)
  <2>1. /\ r.s.cursor_y \in 0 .. TERMINAL_HEIGHT - 1 /\ Position(r.s) = Row(r.s.cursor_y) + r.s.cursor_x
        /\ t.s.cursor_y \in 0 .. TERMINAL_HEIGHT - 1 /\ Position(t.s) = Row(t.s.cursor_y) + t.s.cursor_x
        /\ t.s.cursor_x \in 0 .. TERMINAL_WIDTH - 1
    BY <1>1, <1>3, WorkFacts, ScreenFacts
  <2>2. PICK y \in Int : y = t.s.cursor_y
    BY <2>1
  <2>3. r.s.cursor_y = y + 1 - k
    BY <1>2, <2>2 DEF NewRow
  <2>4. Row(y + 1 - k) = Row(y + 1) - Row(k) /\ Row(y + 1) = Row(y) + TERMINAL_WIDTH
    <3>1. y + 1 \in Int /\ k \in Int /\ 1 \in Int
      BY <1>2
    <3>2. Row(y + 1 - k) = Row(y + 1) - Row(k)
      BY <3>1, NumberFacts
    <3>3. Row(y + 1) = Row(y) + Row(1) /\ Row(1) = TERMINAL_WIDTH
      BY <3>1, RowFacts
    <3> QED BY <3>2, <3>3
  <2>5. PICK Y \in Int, K \in Int : Y = Row(y) /\ K = Row(k)
    <3>1. k \in Int
      BY <1>2
    <3> QED BY <3>1, RowFacts
  <2>6. PICK w \in Nat : w = TERMINAL_WIDTH
    BY Sizes
  <2>7. Position(r.s) = Y + w - K
    BY <1>4, <2>1, <2>3, <2>4, <2>5, <2>6
  <2>8. PICK x \in Int : x = t.s.cursor_x /\ x <= w
    BY <2>1, <2>6
  <2>9. Position(t.s) = Y + x
    BY <2>1, <2>2, <2>5, <2>8
  <2> QED BY <2>5, <2>7, <2>8, <2>9
<1>6. BlankFrom(r.s, r.color, Position(r.s))
  <2>1. Position(r.s) \in Nat /\ Position(t.s) \in Nat /\ Row(k) \in Nat
    BY <1>1, <1>2, <1>3, WorkFacts, ScreenFacts, RowFacts
  <2>2. ASSUME NEW q \in Positions, q >= Position(r.s)
        PROVE  r.s.data[q] = [character |-> Space, color |-> t.color]
    <3>1. q \in Nat
      BY DEF Positions
    <3>2. q + Row(k) >= Position(t.s)
      BY <1>5, <2>1, <2>2, <3>1
    <3>3. r.s.data[q] = ShiftedCell(t, k, q)
      BY <1>2, <2>2 DEF NewRow
    <3> QED BY <1>2, <3>1, <3>2, <3>3, ShiftedBlank
  <2> QED BY <1>3, <2>2 DEF BlankFrom
<1> QED BY <1>3, <1>4, <1>6 DEF Printed

LEMMA TextPrints ==
  ASSUME NEW t, Printing(t), NEW r, NEW cs, NEW n \in Nat, n > 0, NEW k \in Nat, Written(t, r, cs, n, k)
  PROVE  Printed(t, r) /\ ShownBy(r)
<1>1. t \in WorkType
  BY DEF Printing
<1>2. r \in WorkType /\ r.color = t.color /\ CursorAt(r) /\ InView(r.s) /\ ShownBy(r)
  BY DEF Written
<1>3. /\ r.s.input_size = t.s.input_size /\ r.s.input_cursor = t.s.input_cursor
      /\ r.s.initialized = t.s.initialized
  BY <1>1 DEF Written
<1>4. PICK P \in Nat : P = Position(r.s)
  BY <1>1, WrittenFacts
<1>5. PICK T \in Nat : T = Position(t.s)
  BY <1>1, WrittenFacts
<1>6. PICK K \in Nat : K = Row(k)
  BY RowFacts
<1>7. P = T + n - K
  BY <1>4, <1>5, <1>6 DEF Written
<1>8. BlankFrom(r.s, r.color, P)
  <2>1. ASSUME NEW q \in Positions, q >= P
        PROVE  r.s.data[q] = [character |-> Space, color |-> t.color]
    <3>1. q \in Nat
      BY DEF Positions
    <3>2. q + K >= T /\ ~(q < P)
      BY <1>7, <2>1, <3>1
    <3>3. r.s.data[q] = ShiftedCell(t, k, q)
      BY <1>4, <3>2 DEF Written
    <3> QED BY <1>5, <1>6, <3>1, <3>2, <3>3, ShiftedBlank
  <2> QED BY <1>2, <2>1 DEF BlankFrom
<1> QED BY <1>2, <1>3, <1>4, <1>8 DEF Printed

LEMMA VisibilityStays ==
  ASSUME NEW t \in WorkType, NEW visible
  PROVE  SetCursorVisibility(t, visible) = t
<1>1. SetCursorVisibility(t, visible) = [t EXCEPT !.crtc = t.crtc]
  BY VisibilityIsLost DEF SetCursorVisibility, WorkType
<1> QED BY <1>1 DEF WorkType

\* The command prints a character.
LEMMA PutcPrints ==
  ASSUME NEW t, Printing(t), NEW c \in Characters \cup {Newline}, NEW r, r = putc(t, c)
  PROVE  Printed(t, r)
<1>1. CASE c = Newline
  BY <1>1, NewlinePrints DEF putc
<1>2. CASE c # Newline
  <2>1. t \in WorkType /\ ~CursorOff(t.crtc) /\ c \in Characters /\ r = PutPrintable(t, c)
    BY <1>2 DEF putc, Printing
  <2>2. PICK k \in {0, 1} : Written(t, r, <<c>>, 1, k)
    BY <2>1, PutPrintableFacts
  <2> QED BY <2>2, TextPrints
<1> QED BY <1>1, <1>2

LEMMA AtPromptOutput ==
  ASSUME NEW t \in WorkType, NEW l \in Nat, InputAt(t.s, t.color, l)
  PROVE  t.s.initialized /\ BlankFrom(t.s, t.color, InputEnd(t.s))
<1>1. PICK r \in Nat, n \in Nat, c \in Nat : LineAt(t.s, t.color, l, r, n, c)
  BY WorkFacts, LineFacts
<1>2. InputEnd(t.s) = Row(r) + l + n /\ BlankFrom(t.s, t.color, Row(r) + l + n)
  BY <1>1 DEF LineAt, InputEnd
<1> QED BY <1>2 DEF InputAt

\* Enter: the cursor goes after the input, and below it.
LEMMA BeginOutputFacts ==
  ASSUME NEW t \in WorkType, CursorAt(t), NEW l \in Nat, Fits(l), InputAt(t.s, t.color, l),
         NEW m, m = terminal_begin_output(t)
  PROVE  /\ m \in WorkType /\ m.color = t.color /\ CursorAt(m) /\ AtOutput(m.s, m.color)
         /\ m.s.input_size = -1
<1> DEFINE offset == t.s.input_size - t.s.input_cursor
           end == IF t.s.input_size > 0 THEN move_cursor(t, offset) ELSE t
           below == PutNewline(end)
<1>1. PICK r \in Nat, n \in Nat, c \in Nat : LineAt(t.s, t.color, l, r, n, c)
  BY WorkFacts, LineFacts
<1>2. /\ n = t.s.input_size /\ c = t.s.input_cursor /\ c <= n /\ InputStart(t.s) = Row(r) + l
      /\ Position(t.s) = Row(r) + l + c /\ Row(r) + l + n \in Positions
  BY <1>1 DEF LineAt
<1>3. PICK R \in Nat : R = Row(r)
  BY RowFacts
<1>4. InputEnd(t.s) = R + l + n
  BY <1>2, <1>3 DEF InputEnd
<1>5. ~CursorOff(t.crtc)
  BY CursorIsOn
<1>6. t.s.initialized /\ BlankFrom(t.s, t.color, R + l + n)
  BY <1>4, AtPromptOutput
<1>7. /\ end \in WorkType /\ end.color = t.color /\ ~CursorOff(end.crtc)
      /\ end.s.initialized /\ end.s.data = t.s.data /\ Position(end.s) = R + l + n
      /\ end.s.input_size = t.s.input_size /\ end.s.input_cursor = t.s.input_cursor
  <2>1. CASE n > 0
    <3>1. PICK o \in Int : o = offset /\ o = n - c
      BY <1>2
    <3>2. Position(t.s) + o = R + l + n
      BY <1>2, <1>3, <3>1
    <3>3. Position(t.s) + o \in Positions
      BY <1>2, <1>3, <3>2
    <3>4. end = move_cursor(t, o)
      BY <1>2, <2>1, <3>1
    <3> HIDE DEF end
    <3>5. /\ end \in WorkType /\ end.color = t.color /\ Position(end.s) = Position(t.s) + o
          /\ end.s.input_size = t.s.input_size /\ end.s.input_cursor = t.s.input_cursor
          /\ end.s.initialized = t.s.initialized /\ end.s.data = t.s.data /\ CursorAt(end)
      BY <1>5, <3>3, <3>4, MoveCursorFacts
    <3> QED BY <1>6, <3>2, <3>5, CursorIsOn
  <2>2. CASE n = 0
    <3>1. end = t /\ c = 0
      BY <1>2, <2>2
    <3> HIDE DEF end
    <3> QED BY <1>2, <1>3, <1>5, <1>6, <2>2, <3>1
  <2> QED BY <2>1, <2>2, SMTT(30)
<1>8. m = SetCursorVisibility([below EXCEPT !.s.input_size = -1], FALSE)
  BY DEF terminal_begin_output, putc
<1> HIDE DEF end
<1>9. Printing(end)
  BY <1>6, <1>7 DEF Printing, BlankFrom
<1>10. Printed(end, below)
  BY <1>9, NewlinePrints
<1>11. m = Lined(below, -1, below.s.input_cursor)
  <2>1. below \in WorkType
    BY <1>10 DEF Printed
  <2> HIDE DEF below
  <2>2. [below EXCEPT !.s.input_size = -1] = Lined(below, -1, below.s.input_cursor)
    BY <2>1 DEF Lined, WorkType, ScreenType
  <2>3. -1 \in -1 .. INPUT_MAX /\ below.s.input_cursor \in 0 .. INPUT_MAX
    BY <2>1, WorkFacts, ScreenFacts, Sizes
  <2>4. Lined(below, -1, below.s.input_cursor) \in WorkType
    BY <2>1, <2>3, LinedFacts
  <2> QED BY <1>8, <2>2, <2>4, VisibilityStays
<1> HIDE DEF below
<1>12. below \in WorkType /\ below.s.input_cursor \in 0 .. INPUT_MAX /\ -1 \in -1 .. INPUT_MAX
  BY <1>10, WorkFacts, ScreenFacts, Sizes DEF Printed
<1>13. /\ m \in WorkType /\ m.color = below.color /\ m.s.input_size = -1
       /\ m.s.data = below.s.data /\ m.s.initialized = below.s.initialized
       /\ Position(m.s) = Position(below.s)
  BY ONLY <1>11, <1>12, LinedFacts
<1>14. (InView(m.s) <=> InView(below.s)) /\ (CursorAt(m) <=> CursorAt(below))
  BY ONLY <1>11, <1>12, LinedFacts
<1>15. CursorAt(below) /\ AtOutput(below.s, below.color) /\ below.color = t.color
  BY <1>7, <1>10 DEF Printed, AtOutput
<1> QED BY <1>13, <1>14, <1>15 DEF AtOutput, BlankFrom

\* m is p with an empty input at the cursor.
Ready(p, m) == /\ m \in WorkType /\ m.color = p.color /\ m.vga = p.vga /\ m.crtc = p.crtc
               /\ m.s.data = p.s.data /\ m.s.scroll_y = p.s.scroll_y
               /\ Position(m.s) = Position(p.s)
               /\ m.s.input_size = 0 /\ m.s.input_cursor = 0 /\ m.s.initialized

LEMMA ReadyFacts ==
  ASSUME NEW p, NEW m, Ready(p, m), BlankFrom(p.s, p.color, Position(p.s)),
         NEW l \in Nat, NEW r \in Nat, Position(p.s) = Row(r) + l, p.s.scroll_y <= r
  PROVE  /\ InputAt(m.s, m.color, l)
         /\ CursorAt(p) => CursorAt(m)
         /\ ShownBy(p) => ShownBy(m)
<1>1. m \in WorkType /\ m.s.input_size = 0 /\ m.s.input_cursor = 0 /\ m.s.initialized
  BY DEF Ready
<1>2. m.s.data = p.s.data /\ m.s.scroll_y = p.s.scroll_y /\ Position(m.s) = Position(p.s)
  BY DEF Ready
<1>3. terminal_get_input(m.s) = << >>
  BY <1>1 DEF terminal_get_input
<1>4. Position(m.s) \in Positions /\ Position(m.s) \in Nat
  BY <1>1, WorkFacts, ScreenFacts
<1>5. PICK P \in Nat : P = Position(m.s)
  BY <1>4
<1>6. Row(r) + l + Len(<< >>) = P /\ Row(r) + l + m.s.input_cursor = P
  BY <1>1, <1>2, <1>5
<1>7. FieldAt(m.s, m.color, r, l, << >>)
  <2>1. m.s.scroll_y <= r
    BY <1>2
  <2>2. Row(r) + l + Len(<< >>) \in Positions
    BY <1>4, <1>5, <1>6
  <2>3. StartsWith(m.s, r, l, Len(<< >>), << >>)
    BY DEF StartsWith
  <2>4. BlankFrom(m.s, m.color, P)
    BY <1>2, <1>5 DEF BlankFrom, Ready
  <2> QED BY <1>6, <2>1, <2>2, <2>3, <2>4 DEF FieldAt
<1>8. InputAt(m.s, m.color, l)
  BY <1>1, <1>3, <1>5, <1>6, <1>7 DEF InputAt
<1>9. (CursorAt(p) => CursorAt(m)) /\ (ShownBy(p) => ShownBy(m))
  BY <1>2 DEF CursorAt, ShownBy, Window, Ready
<1> QED BY <1>8, <1>9

LEMMA PromptText == PROMPT \in Seq(Characters) /\ Len(PROMPT) \in Nat /\ Len(PROMPT) > 0
<1>1. PROMPT \in Seq(Range(PROMPT)) /\ PROMPT # << >>
  BY TerminalAssumption
<1>2. Range(PROMPT) \subseteq Characters
  BY DEF Characters
<1> QED BY <1>1, <1>2

\* A prompt at the start of an empty row.
LEMMA PromptFacts ==
  ASSUME NEW t, Printing(t), InView(t.s), t.s.cursor_x = 0,
         NEW p, p = put_prompt(t), NEW m, Ready(p, m)
  PROVE  /\ p \in WorkType /\ p.color = t.color
         /\ AtPrompt(m.s, m.color) /\ CursorAt(m) /\ ShownBy(m)
<1>1. t \in WorkType /\ ~CursorOff(t.crtc)
  BY DEF Printing
<1>2. PROMPT \in Seq(Characters) /\ Len(PROMPT) \in Nat /\ Len(PROMPT) > 0
  BY PromptText
<1>3. PICK n \in Nat : n = Len(PROMPT) /\ n > 0
  BY <1>2
<1>4. PICK k \in Nat : Written(t, p, PROMPT, n, k)
  BY <1>1, <1>2, <1>3, PutAllFacts DEF put_prompt
<1>5. Printed(t, p) /\ ShownBy(p)
  BY <1>3, <1>4, TextPrints
<1>6. PICK r \in Nat : r = t.s.cursor_y /\ t.s.scroll_y <= r /\ Position(t.s) = Row(r) + 0
  <2>1. t.s.cursor_y \in 0 .. TERMINAL_HEIGHT - 1 /\ Position(t.s) = Row(t.s.cursor_y) + t.s.cursor_x
    BY <1>1, WorkFacts, ScreenFacts
  <2> QED BY <2>1 DEF InView
<1>7. r - k \in Nat /\ p.s.scroll_y <= r - k /\ Position(p.s) = Row(r - k) + 0 + n
  <2>1. 0 + n < Row(VGA_HEIGHT) /\ 0 \in Nat
    <3>1. Len(PROMPT) + INPUT_MAX < Row(VGA_HEIGHT)
      BY TerminalAssumption DEF Row
    <3> QED BY <1>3, <3>1, Sizes, PositionFacts
  <2> QED BY <1>1, <1>4, <1>6, <2>1, RowsKept
<1>8. PICK Q \in Nat : Q = Row(r - k)
  BY <1>7, RowFacts
<1>9. Position(p.s) = Row(r - k) + n /\ Position(p.s) = Q + n
  BY <1>7, <1>8
<1>10. /\ InputAt(m.s, m.color, n)
       /\ CursorAt(p) => CursorAt(m)
       /\ ShownBy(p) => ShownBy(m)
  BY <1>5, <1>7, <1>9, ReadyFacts DEF Printed
<1>11. PromptBefore(m.s)
  <2>1. InputStart(m.s) = Q + n /\ m.s.data = p.s.data
    BY <1>9 DEF InputStart, Ready
  <2>2. ASSUME NEW j \in 1 .. n
        PROVE  m.s.data[Q + n - n + j - 1].character = PROMPT[j]
    <3>1. PICK q \in Nat : q = Q + n - n + j - 1
      OBVIOUS
    <3>2. q - (Q + n - n) + 1 = j /\ Q + n - n <= q /\ q < Q + n
      BY <3>1
    <3>3. q \in Positions
      <4>1. PICK H \in Nat : Positions = 0 .. H - 1
        BY PositionFacts
      <4>2. Position(p.s) \in Positions
        BY <1>1, <1>4, WrittenFacts
      <4> QED BY <1>9, <3>2, <4>1, <4>2
    <3>4. p.s.data[q] = [character |-> PROMPT[j], color |-> t.color]
      BY <1>4, <1>9, <3>2, <3>3 DEF Written
    <3> QED BY <2>1, <3>1, <3>4
  <2> QED BY <1>3, <2>1, <2>2 DEF PromptBefore
<1> QED BY <1>3, <1>5, <1>10, <1>11 DEF AtPrompt, Printed

LEMMA ClearFacts ==
  ASSUME NEW t \in WorkType, NEW m, m = terminal_clear(t)
  PROVE  /\ m \in WorkType /\ m.color = t.color /\ m.crtc = t.crtc /\ m.vga = t.vga
         /\ m.s.cursor_x = 0 /\ InView(m.s) /\ m.s.initialized = t.s.initialized
         /\ m.s.input_size = 0 /\ m.s.input_cursor = 0
         /\ BlankFrom(m.s, m.color, Position(m.s))
<1>1. /\ m.color = t.color /\ m.crtc = t.crtc /\ m.vga = t.vga
      /\ m.s = [t.s EXCEPT !.data = [p \in Positions |-> BlankCell(t)],
                           !.cursor_x = 0, !.cursor_y = 0, !.scroll_y = 0,
                           !.input_size = 0, !.input_cursor = 0]
  BY DEF terminal_clear, WorkType
<1>2. BlankCell(t) \in Cells /\ t.s \in ScreenType
  BY WorkFacts
<1>3. /\ m.s.cursor_x = 0 /\ m.s.cursor_y = 0 /\ m.s.scroll_y = 0
      /\ m.s.input_size = 0 /\ m.s.input_cursor = 0 /\ m.s.initialized = t.s.initialized
      /\ m.s.data = [p \in Positions |-> BlankCell(t)]
  BY <1>1, <1>2 DEF ScreenType
<1>4. m.s \in ScreenType
  <2>1. /\ 0 \in 0 .. TERMINAL_WIDTH - 1 /\ 0 \in 0 .. TERMINAL_HEIGHT - 1
        /\ 0 \in 0 .. TERMINAL_EXTRA_LINES /\ 0 \in -1 .. INPUT_MAX /\ 0 \in 0 .. INPUT_MAX
    BY Sizes
  <2>2. [p \in Positions |-> BlankCell(t)] \in [Positions -> Cells]
    BY <1>2
  <2> QED BY <1>1, <1>2, <2>1, <2>2 DEF ScreenType
<1>5. m \in WorkType
  BY <1>4 DEF terminal_clear, WorkType
<1>6. InView(m.s)
  BY <1>3, Sizes DEF InView
<1>7. BlankFrom(m.s, m.color, Position(m.s))
  BY <1>1, <1>3 DEF BlankFrom, BlankCell
<1> QED BY <1>1, <1>3, <1>5, <1>6, <1>7

LEMMA EndOutputFacts ==
  ASSUME NEW t \in WorkType, ~CursorOff(t.crtc), AtOutput(t.s, t.color),
         NEW show \in BOOLEAN, show \/ CursorAt(t), NEW m, m = terminal_end_output(t, show)
  PROVE  /\ m \in WorkType /\ m.color = t.color /\ CursorAt(m)
         /\ m.s.input_size = 0 /\ m.s.input_cursor = 0
         /\ show => AtPrompt(m.s, m.color) /\ ShownBy(m)
         /\ ~show => AtRead(m.s, m.color)
<1> DEFINE row == IF t.s.cursor_x # 0 THEN putc(t, Newline) ELSE t
           end == IF show THEN put_prompt(row) ELSE row
<1>1. Printing(t) /\ InView(t.s) /\ t.s.initialized
  BY OutputPrints DEF AtOutput
<1>2. /\ Printing(row) /\ InView(row.s) /\ row.s.cursor_x = 0 /\ row.color = t.color
      /\ row.s.initialized /\ (CursorAt(t) => CursorAt(row))
  <2>1. CASE t.s.cursor_x # 0
    <3>1. Printed(t, row) /\ row.s.cursor_x = 0
      BY <1>1, <2>1, NewlinePrints DEF putc
    <3> HIDE DEF row
    <3> QED BY <1>1, <3>1, CursorIsOn DEF Printed, Printing
  <2>2. CASE t.s.cursor_x = 0
    BY <1>1, <2>2
  <2> QED BY <2>1, <2>2
<1>3. m = SetCursorVisibility([end EXCEPT !.s.input_size = 0, !.s.input_cursor = 0], TRUE)
  BY DEF terminal_end_output
<1> HIDE DEF row
<1>4. end \in WorkType /\ end.s.initialized /\ end.color = t.color
  <2>1. CASE show
    <3>1. row \in WorkType /\ ~CursorOff(row.crtc)
      BY <1>2 DEF Printing
    <3>2. PROMPT \in Seq(Characters)
      BY PromptText
    <3>3. PICK k \in Nat : Written(row, end, PROMPT, Len(PROMPT), k)
      BY <2>1, <3>1, <3>2, PutAllFacts DEF put_prompt
    <3> QED BY <1>2, <3>3 DEF Written
  <2>2. CASE ~show
    BY <1>2, <2>2 DEF Printing
  <2> QED BY <2>1, <2>2
<1> HIDE DEF end
<1>5. m = Lined(end, 0, 0)
  <2>1. [end EXCEPT !.s.input_size = 0, !.s.input_cursor = 0] = Lined(end, 0, 0)
    BY <1>4 DEF Lined, WorkType, ScreenType
  <2>2. Lined(end, 0, 0) \in WorkType
    BY <1>4, LinedFacts, Sizes
  <2> QED BY <1>3, <2>1, <2>2, VisibilityStays
<1>6. 0 \in -1 .. INPUT_MAX /\ 0 \in 0 .. INPUT_MAX
  BY Sizes
<1>7. /\ m \in WorkType /\ m.color = end.color /\ m.vga = end.vga /\ m.crtc = end.crtc
      /\ m.s.input_size = 0 /\ m.s.input_cursor = 0
  <2>1. end \in WorkType
    BY <1>4
  <2> QED BY ONLY <1>5, <1>6, <2>1, LinedFacts
<1>8. Ready(end, m)
  <2>1. end \in WorkType
    BY <1>4
  <2>2. /\ m.s.data = end.s.data /\ m.s.scroll_y = end.s.scroll_y
        /\ m.s.initialized = end.s.initialized /\ Position(m.s) = Position(end.s)
    BY ONLY <1>5, <1>6, <2>1, LinedFacts
  <2> QED BY <1>4, <1>7, <2>2 DEF Ready
<1>9. CASE show
  <2>1. end = put_prompt(row)
    BY <1>9 DEF end
  <2>2. AtPrompt(m.s, m.color) /\ CursorAt(m) /\ ShownBy(m)
    BY <1>2, <1>8, <2>1, PromptFacts
  <2> QED BY <1>4, <1>7, <1>9, <2>2
<1>10. CASE ~show
  <2>1. end = row /\ CursorAt(end) /\ BlankFrom(end.s, end.color, Position(end.s))
    BY <1>2, <1>10 DEF end, Printing
  <2>2. PICK r \in Nat : r = end.s.cursor_y /\ end.s.scroll_y <= r /\ Position(end.s) = Row(r) + 0
    <3>1. /\ end.s.cursor_y \in 0 .. TERMINAL_HEIGHT - 1
          /\ Position(end.s) = Row(end.s.cursor_y) + end.s.cursor_x
      BY <1>4, WorkFacts, ScreenFacts
    <3> QED BY <1>2, <2>1, <3>1 DEF InView
  <2>3. 0 \in Nat
    OBVIOUS
  <2>4. InputAt(m.s, m.color, 0) /\ CursorAt(m)
    BY <1>8, <2>1, <2>2, <2>3, ReadyFacts
  <2> QED BY <1>4, <1>7, <1>10, <2>4 DEF AtRead
<1> QED BY <1>9, <1>10

\* A screen that is shown for the first time.
LEMMA FirstPromptFacts ==
  ASSUME NEW t \in WorkType, ~CursorOff(t.crtc), NEW m, m = FirstPrompt(t)
  PROVE  /\ m \in WorkType /\ m.color = t.color /\ AtPrompt(m.s, m.color)
         /\ CursorAt(m) /\ ShownBy(m)
         /\ m.s.input_size = 0 /\ m.s.input_cursor = 0 /\ m.s.initialized
<1> DEFINE clear == terminal_clear(t)
           p == put_prompt(clear)
<1>1. /\ clear \in WorkType /\ clear.color = t.color /\ clear.crtc = t.crtc
      /\ clear.s.cursor_x = 0 /\ InView(clear.s)
      /\ clear.s.input_size = 0 /\ clear.s.input_cursor = 0
      /\ BlankFrom(clear.s, clear.color, Position(clear.s))
  BY ClearFacts
<1> HIDE DEF clear
<1>2. Printing(clear)
  BY <1>1 DEF Printing
<1>3. PICK k \in Nat : Written(clear, p, PROMPT, Len(PROMPT), k)
  <2>1. ~CursorOff(clear.crtc) /\ PROMPT \in Seq(Characters)
    BY <1>1, PromptText
  <2> QED BY <1>1, <2>1, PutAllFacts DEF put_prompt
<1>4. m = [p EXCEPT !.s.initialized = TRUE]
  BY DEF FirstPrompt, clear
<1> HIDE DEF p
<1>5. p \in WorkType /\ p.color = t.color /\ p.s.input_size = 0 /\ p.s.input_cursor = 0
  BY <1>1, <1>3 DEF Written
<1>6. /\ m \in WorkType /\ m.color = p.color /\ m.vga = p.vga /\ m.crtc = p.crtc
      /\ m.s.data = p.s.data /\ m.s.scroll_y = p.s.scroll_y
      /\ m.s.cursor_x = p.s.cursor_x /\ m.s.cursor_y = p.s.cursor_y
      /\ m.s.input_size = 0 /\ m.s.input_cursor = 0 /\ m.s.initialized
  <2>1. p.s \in ScreenType
    BY <1>5, WorkFacts
  <2>2. m.s = [p.s EXCEPT !.initialized = TRUE] /\ m.color = p.color /\ m.vga = p.vga /\ m.crtc = p.crtc
    BY <1>4, <1>5 DEF WorkType
  <2>3. m.s \in ScreenType
    BY <2>1, <2>2 DEF ScreenType
  <2>4. m \in WorkType
    BY <1>4, <1>5, <2>2, <2>3 DEF WorkType
  <2>5. /\ m.s.data = p.s.data /\ m.s.scroll_y = p.s.scroll_y
        /\ m.s.cursor_x = p.s.cursor_x /\ m.s.cursor_y = p.s.cursor_y
        /\ m.s.input_size = p.s.input_size /\ m.s.input_cursor = p.s.input_cursor
        /\ m.s.initialized
    BY <2>1, <2>2 DEF ScreenType
  <2> QED BY <1>5, <2>2, <2>4, <2>5
<1>7. Ready(p, m)
  BY <1>6 DEF Ready, Position
<1>8. AtPrompt(m.s, m.color) /\ CursorAt(m) /\ ShownBy(m)
  BY <1>1, <1>2, <1>7, PromptFacts DEF p
<1> QED BY <1>5, <1>6, <1>8

\* Another screen, or the same one, is shown.
LEMMA SwitchFacts ==
  ASSUME NEW t \in WorkType, ~CursorOff(t.crtc),
         AtPrompt(t.s, t.color) \/ Unused(t.s),
         NEW m, m = terminal_switch_screen(t)
  PROVE  /\ m \in WorkType /\ m.color = t.color /\ AtPrompt(m.s, m.color)
         /\ CursorAt(m) /\ ShownBy(m)
         /\ AtPrompt(t.s, t.color) => m.s = t.s
         /\ Unused(t.s) => m.s.input_size = 0
<1> DEFINE u == IF t.s.initialized THEN t ELSE FirstPrompt(t)
<1>1. /\ u \in WorkType /\ u.color = t.color /\ AtPrompt(u.s, u.color) /\ ~CursorOff(u.crtc)
      /\ AtPrompt(t.s, t.color) => u.s = t.s
      /\ Unused(t.s) => u.s.input_size = 0
  <2>1. CASE AtPrompt(t.s, t.color)
    <3>1. u = t
      BY <2>1 DEF AtPrompt, InputAt
    <3>2. ~Unused(t.s)
      BY <2>1 DEF AtPrompt, InputAt, Unused
    <3> QED BY <2>1, <3>1, <3>2
  <2>2. CASE ~AtPrompt(t.s, t.color)
    <3>1. u = FirstPrompt(t)
      BY <2>2 DEF Unused
    <3> HIDE DEF u
    <3> QED BY <2>2, <3>1, FirstPromptFacts, CursorIsOn
  <2> QED BY <2>1, <2>2
<1>2. m = PutCursor(put_screen(u))
  BY DEF terminal_switch_screen
<1> HIDE DEF u
<1>3. PICK v \in WorkType : /\ v = put_screen(u) /\ ShownBy(v)
                            /\ v.s = u.s /\ v.color = u.color /\ v.crtc = u.crtc
  BY <1>1, PutScreenFacts
<1>4. u.s.scroll_y <= u.s.cursor_y
  <2>1. Len(PROMPT) \in Nat
    BY PromptText
  <2> QED BY <1>1, <2>1, InputBelowScroll DEF AtPrompt
<1>5. m \in WorkType /\ m.s = v.s /\ m.color = v.color /\ m.vga = v.vga /\ CursorAt(m)
  BY <1>1, <1>2, <1>3, <1>4, PutCursorFacts
<1>6. ShownBy(m)
  BY <1>3, <1>5 DEF ShownBy
<1> QED BY <1>1, <1>3, <1>5, <1>6

LEMMA InitFacts ==
  ASSUME NEW zero, zero = [s |-> ZeroScreen, color |-> 0, crtc |-> CrtcInit,
                           vga |-> Window(ZeroScreen)],
         NEW m, m = SetCursorVisibility(PutCursor(FirstPrompt(zero)), TRUE)
  PROVE  /\ ZeroScreen \in ScreenType /\ Unused(ZeroScreen)
         /\ m \in WorkType /\ m.color = 0 /\ AtPrompt(m.s, 0) /\ CursorAt(m) /\ ShownBy(m)
         /\ m.s.input_size = 0 /\ m.s.input_cursor = 0
<1> DEFINE first == FirstPrompt(zero)
<1>1. 0 \in ScreenIds
  BY TerminalAssumption DEF ScreenIds
<1>2. ZeroScreen \in ScreenType
  <2>1. /\ 0 \in 0 .. TERMINAL_WIDTH - 1 /\ 0 \in 0 .. TERMINAL_HEIGHT - 1
        /\ 0 \in 0 .. TERMINAL_EXTRA_LINES /\ 0 \in -1 .. INPUT_MAX /\ 0 \in 0 .. INPUT_MAX
    BY Sizes
  <2>2. [character |-> Space, color |-> 0] \in Cells
    BY <1>1 DEF Cells, Characters
  <2> QED BY <2>1, <2>2 DEF ZeroScreen, ScreenType
<1>3. CrtcInit \in CrtcType /\ ~CursorOff(CrtcInit)
  <2>1. 0 \in Byte /\ 0 \div 32 = 0 /\ 0 % 2 = 0 /\ CURSOR_START \in Registers
    BY DEF Byte, Registers
  <2> QED BY <2>1 DEF CrtcInit, CrtcType, CursorOff
<1>4. zero \in WorkType /\ ~CursorOff(zero.crtc) /\ zero.color = 0
  BY <1>1, <1>2, <1>3, WindowType DEF WorkType
<1>5. /\ first \in WorkType /\ first.color = 0 /\ AtPrompt(first.s, 0)
      /\ CursorAt(first) /\ ShownBy(first)
      /\ first.s.input_size = 0 /\ first.s.input_cursor = 0
  BY <1>4, FirstPromptFacts
<1> HIDE DEF first
<1>6. PICK v \in WorkType : /\ v = PutCursor(first) /\ v.s = first.s /\ v.color = first.color
                            /\ v.vga = first.vga /\ CursorAt(v)
  <2>1. first.s.scroll_y <= first.s.cursor_y
    <3>1. Len(PROMPT) \in Nat
      BY PromptText
    <3> QED BY <1>5, <3>1, InputBelowScroll DEF AtPrompt
  <2> QED BY <1>5, <2>1, PutCursorFacts, CursorIsOn
<1>7. m = v
  BY <1>6, VisibilityStays DEF first
<1>8. ShownBy(v)
  BY <1>5, <1>6 DEF ShownBy
<1>9. Unused(ZeroScreen)
  BY DEF Unused, ZeroScreen
<1> QED BY <1>2, <1>5, <1>6, <1>7, <1>8, <1>9

-----------------------------------------------------------------------------
(* The invariant holds in every state *)

LEMMA WorkingType ==
  ASSUME TypeOK, NEW i \in ScreenIds
  PROVE  Working(i) \in WorkType /\ Working(i).s = screens[i] /\ Working(i).color = i
BY DEF TypeOK, Working, WorkType

LEMMA BecomesFacts ==
  ASSUME TypeOK, NEW i \in ScreenIds, NEW m \in WorkType, m.color = i, Becomes(i, m)
  PROVE  /\ terminal_index' = i /\ Current' = m
         /\ screens' \in [ScreenIds -> ScreenType] /\ vga' \in [VisibleCells -> Cells]
         /\ crtc' \in CrtcType
         /\ \A j \in ScreenIds : screens'[j] = IF j = i THEN m.s ELSE screens[j]
<1>1. /\ screens' = [screens EXCEPT ![i] = m.s] /\ terminal_index' = i
      /\ vga' = m.vga /\ crtc' = m.crtc
  BY DEF Becomes
<1>2. screens \in [ScreenIds -> ScreenType]
  BY DEF TypeOK
<1>3. m.s \in ScreenType /\ m.vga \in [VisibleCells -> Cells] /\ m.crtc \in CrtcType
  BY WorkFacts
<1>4. screens'[i] = m.s
  BY <1>1, <1>2
<1>5. m = [s |-> m.s, color |-> m.color, vga |-> m.vga, crtc |-> m.crtc]
  BY DEF WorkType
<1>6. Current' = m
  BY <1>1, <1>4, <1>5 DEF Current, Working
<1> QED BY <1>1, <1>2, <1>3, <1>6

\* Where the current screen is left as it must be.
LEMMA CurrentLeft ==
  ASSUME NEW m, Current' = m, ~CursorOff(m.crtc),
         phase' # "cleared" => CursorAt(m),
         phase' # "input" => AtOutput(m.s, m.color),
         phase' = "input" /\ ~reading' => AtPrompt(m.s, m.color) /\ ShownBy(m),
         phase' = "input" /\ reading' =>
           AtRead(m.s, m.color) /\ (m.s.input_size = 0 \/ ShownBy(m))
  PROVE  CurrentReady'
BY DEF CurrentReady

\* What a key does to the line of the screen, and to nothing else on it.
EditsLine(t, m) ==
  \A l : Fits(l) /\ InputAt(t.s, t.color, l) =>
           \E text, c : LineBecomes(t, m, l, text, c)

LEMMA KeysEdit ==
  ASSUME NEW t \in WorkType, CursorAt(t)
  PROVE  /\ \A ch \in Characters : EditsLine(t, terminal_putc_input(t, ch))
         /\ EditsLine(t, terminal_del_input(t))
         /\ EditsLine(t, terminal_del_input_forward(t))
         /\ \A direction \in Directions : EditsLine(t, terminal_move(t, direction))
<1>1. ASSUME NEW l, Fits(l), InputAt(t.s, t.color, l)
      PROVE  /\ \A ch \in Characters : \E text, c : LineBecomes(t, terminal_putc_input(t, ch), l, text, c)
             /\ \E text, c : LineBecomes(t, terminal_del_input(t), l, text, c)
             /\ \E text, c : LineBecomes(t, terminal_del_input_forward(t), l, text, c)
             /\ \A direction \in Directions :
                  \E text, c : LineBecomes(t, terminal_move(t, direction), l, text, c)
  <2>1. l \in Nat
    BY <1>1 DEF Fits
  <2>2. ASSUME NEW ch \in Characters
        PROVE  \E text, c : LineBecomes(t, terminal_putc_input(t, ch), l, text, c)
    <3>1. t.s.input_size \in -1 .. INPUT_MAX
      BY WorkFacts, ScreenFacts
    <3>2. CASE t.s.input_size < INPUT_MAX
      BY <1>1, <2>1, <3>2, PutcInputFacts
    <3>3. CASE t.s.input_size = INPUT_MAX
      <4>1. terminal_putc_input(t, ch) = t
        BY <3>3 DEF terminal_putc_input, InputFull
      <4> QED BY <1>1, <2>1, <4>1, StaysFacts
    <3> QED BY <3>1, <3>2, <3>3, Sizes
  <2>3. \E text, c : LineBecomes(t, terminal_del_input(t), l, text, c)
    BY <1>1, <2>1, DelInputFacts
  <2>4. \E text, c : LineBecomes(t, terminal_del_input_forward(t), l, text, c)
    BY <1>1, <2>1, DelForwardFacts
  <2>5. ASSUME NEW direction \in Directions
        PROVE  \E text, c : LineBecomes(t, terminal_move(t, direction), l, text, c)
    BY <1>1, <2>1, MoveFacts
  <2> QED BY <2>2, <2>3, <2>4, <2>5
<1> QED BY <1>1 DEF EditsLine

LEMMA LengthsFit == Fits(Len(PROMPT)) /\ Fits(0)
BY TerminalAssumption, PromptText, Sizes, PositionFacts DEF Fits, Row

\* The prompt moves up with the input.
LEMMA PromptKept ==
  ASSUME NEW t \in WorkType, NEW m \in WorkType, InputAt(t.s, t.color, Len(PROMPT)),
         InputAt(m.s, m.color, Len(PROMPT)), PromptBefore(t.s), KeptAbove(t.s, m.s)
  PROVE  PromptBefore(m.s)
<1>1. PICK n \in Nat : n = Len(PROMPT)
  BY PromptText
<1>2. PICK I \in Nat : I = InputStart(m.s) /\ n <= I
  <2>1. PICK r \in Nat, k \in Nat, d \in Nat : LineAt(m.s, m.color, n, r, k, d)
    BY <1>1, WorkFacts, LineFacts
  <2>2. InputStart(m.s) = Row(r) + n /\ Row(r) \in Nat
    BY <2>1, RowFacts DEF LineAt
  <2> QED BY <2>2
<1>3. PICK J \in Nat : J = InputStart(t.s)
  <2>1. PICK r \in Nat, k \in Nat, d \in Nat : LineAt(t.s, t.color, n, r, k, d)
    BY <1>1, WorkFacts, LineFacts
  <2>2. InputStart(t.s) = Row(r) + n /\ Row(r) \in Nat
    BY <2>1, RowFacts DEF LineAt
  <2> QED BY <2>2
<1>4. ASSUME NEW j \in 1 .. n
      PROVE  m.s.data[I - n + j - 1].character = PROMPT[j]
  <2>1. I - n + j - 1 \in 0 .. I - 1 /\ I - n + j - 1 + (J - I) = J - n + j - 1
    BY <1>2
  <2>2. m.s.data[I - n + j - 1] = t.s.data[J - n + j - 1]
    BY <1>2, <1>3, <2>1 DEF KeptAbove
  <2>3. t.s.data[J - n + j - 1].character = PROMPT[j]
    BY <1>1, <1>3 DEF PromptBefore
  <2> QED BY <2>2, <2>3
<1> QED BY <1>1, <1>2, <1>4 DEF PromptBefore

\* The state of the current screen, by the phase.
LEMMA CurrentFacts ==
  ASSUME IInv
  PROVE  /\ terminal_index \in ScreenIds
         /\ Current \in WorkType /\ Current.s = screens[terminal_index]
         /\ Current.color = terminal_index
         /\ ~CursorOff(Current.crtc)
         /\ phase # "cleared" => CursorAt(Current)
         /\ phase # "input" => AtOutput(Current.s, Current.color)
         /\ phase = "input" /\ ~reading => AtPrompt(Current.s, Current.color) /\ ShownBy(Current)
         /\ phase = "input" /\ reading =>
              AtRead(Current.s, Current.color) /\ (Current.s.input_size = 0 \/ ShownBy(Current))
BY WorkingType DEF IInv, CurrentReady, Current, TypeOK

\* The start of the input of the current screen.
Start == IF reading THEN 0 ELSE Len(PROMPT)

LEMMA StartFacts ==
  ASSUME IInv, phase = "input"
  PROVE  /\ Fits(Start) /\ Start \in Nat /\ InputAt(Current.s, Current.color, Start)
         /\ CursorAt(Current)
BY CurrentFacts, LengthsFit, PromptText DEF Start, AtPrompt, AtRead, IInv, TypeOK

LEMMA KeyKeeps ==
  ASSUME IInv, NEW m, Key(m), EditsLine(Current, m)
  PROVE  IInv' /\ KeptAbove(Current.s, m.s) /\ Current' = m
<1>1. /\ phase = "input" /\ phase' = phase /\ reading' = reading /\ submitted' = submitted
      /\ Becomes(terminal_index, m)
  BY DEF Key
<1>2. PICK l \in Nat : l = Start
  BY <1>1, StartFacts
<1>3. PICK text, c : LineBecomes(Current, m, l, text, c)
  BY <1>1, <1>2, StartFacts DEF EditsLine
<1>4. /\ m \in WorkType /\ m.color = Current.color /\ InputAt(m.s, m.color, l)
      /\ KeptAbove(Current.s, m.s) /\ CursorAt(m)
      /\ ShownBy(Current) => ShownBy(m)
      /\ Current.s.input_size = 0 \/ ShownBy(Current) => m.s.input_size = 0 \/ ShownBy(m)
  BY <1>3 DEF LineBecomes
<1>5. TypeOK
  BY DEF IInv
<1>6. /\ terminal_index' = terminal_index /\ Current' = m
      /\ screens' \in [ScreenIds -> ScreenType] /\ vga' \in [VisibleCells -> Cells]
      /\ crtc' \in CrtcType
      /\ \A j \in ScreenIds : j # terminal_index => screens'[j] = screens[j]
  BY <1>1, <1>4, <1>5, CurrentFacts, BecomesFacts
<1>7. TypeOK'
  BY <1>1, <1>5, <1>6 DEF TypeOK
<1>8. OthersReady'
  <2>1. OthersReady
    BY DEF IInv
  <2> QED BY <1>6, <2>1 DEF OthersReady
<1>9. ~reading => AtPrompt(m.s, m.color) /\ ShownBy(m)
  <2>1. ASSUME ~reading PROVE AtPrompt(m.s, m.color) /\ ShownBy(m)
    <3>1. l = Len(PROMPT)
      BY <1>2, <2>1 DEF Start
    <3>2. AtPrompt(Current.s, Current.color) /\ ShownBy(Current) /\ Current \in WorkType
      BY <1>1, <2>1, CurrentFacts
    <3>3. PICK t \in WorkType : t = Current
      BY <3>2
    <3>4. PromptBefore(m.s)
      BY <1>4, <3>1, <3>2, <3>3, PromptKept DEF AtPrompt
    <3> QED BY <1>4, <3>1, <3>2, <3>4 DEF AtPrompt
  <2> QED BY <2>1
<1>10. reading => AtRead(m.s, m.color) /\ (m.s.input_size = 0 \/ ShownBy(m))
  <2>1. ASSUME reading PROVE AtRead(m.s, m.color) /\ (m.s.input_size = 0 \/ ShownBy(m))
    <3>1. l = 0
      BY <1>2, <2>1 DEF Start
    <3> QED BY <1>1, <1>4, <2>1, <3>1, CurrentFacts DEF AtRead
  <2> QED BY <2>1
<1>11. CurrentReady'
  <2>1. ~CursorOff(m.crtc)
    BY <1>4, CursorIsOn
  <2> QED BY <1>1, <1>4, <1>6, <1>9, <1>10, <2>1, CurrentLeft
<1> QED BY <1>4, <1>6, <1>7, <1>8, <1>11 DEF IInv

\* A step of the shell on the current screen.
LEMMA ShellKeeps ==
  ASSUME IInv, NEW m \in WorkType, m.color = terminal_index, Becomes(terminal_index, m),
         CurrentReady', phase' \in Phases, reading' \in BOOLEAN, submitted' \in Seq(Characters)
  PROVE  IInv' /\ screens'[terminal_index] = m.s
<1>1. TypeOK /\ OthersReady /\ terminal_index \in ScreenIds
  BY DEF IInv, TypeOK
<1>2. /\ terminal_index' = terminal_index
      /\ screens' \in [ScreenIds -> ScreenType] /\ vga' \in [VisibleCells -> Cells]
      /\ crtc' \in CrtcType
      /\ \A j \in ScreenIds : j # terminal_index => screens'[j] = screens[j]
      /\ screens'[terminal_index] = m.s
  BY <1>1, BecomesFacts
<1>3. TypeOK'
  BY <1>1, <1>2 DEF TypeOK
<1>4. OthersReady'
  BY <1>1, <1>2 DEF OthersReady
<1> QED BY <1>2, <1>3, <1>4 DEF IInv

LEMMA EmptyLineType == << >> \in Seq(Characters)
OBVIOUS

LEMMA EnterKeeps == ASSUME IInv, Enter PROVE IInv'
<1>1. PICK l \in Nat : l = Start
  BY StartFacts DEF Enter
<1>2. PICK t \in WorkType : /\ t = Current /\ t.color = terminal_index
                            /\ Fits(l) /\ InputAt(t.s, t.color, l) /\ CursorAt(t)
  BY <1>1, StartFacts, CurrentFacts DEF Enter
<1>3. PICK m : m = terminal_begin_output(Current)
  OBVIOUS
<1>4. m \in WorkType /\ m.color = t.color /\ CursorAt(m) /\ AtOutput(m.s, m.color)
  BY <1>2, <1>3, BeginOutputFacts
<1>5. /\ Becomes(terminal_index, m) /\ phase' = "entered" /\ reading' = reading
      /\ submitted' = terminal_get_input(t.s)
  BY <1>2, <1>3 DEF Enter
<1>6. submitted' \in Seq(Characters)
  <2>1. PICK r \in Nat, n \in Nat, c \in Nat : LineAt(t.s, t.color, l, r, n, c)
    BY <1>2, WorkFacts, LineFacts
  <2> QED BY <1>5, <2>1 DEF LineAt
<1>7. CurrentReady'
  <2>1. Current' = m
    BY <1>2, <1>4, <1>5, CurrentFacts, BecomesFacts DEF IInv
  <2>2. ~CursorOff(m.crtc)
    BY <1>4, CursorIsOn
  <2> QED BY <1>4, <1>5, <2>1, <2>2, CurrentLeft
<1>8. phase' \in Phases /\ reading' \in BOOLEAN
  BY <1>5 DEF Phases, IInv, TypeOK
<1> QED BY <1>2, <1>4, <1>5, <1>6, <1>7, <1>8, ShellKeeps

LEMMA PutcOutputKeeps ==
  ASSUME IInv, NEW c \in OutputChars \cup {Newline}, PutcOutput(c) PROVE IInv'
<1>1. PICK t \in WorkType : /\ t = Current /\ t.color = terminal_index
                            /\ ~CursorOff(t.crtc) /\ AtOutput(t.s, t.color)
  BY CurrentFacts DEF PutcOutput
<1>2. PICK m : m = putc(t, c)
  OBVIOUS
<1>3. Printed(t, m)
  <2>1. c \in Characters \cup {Newline}
    BY DEF Characters
  <2> QED BY <1>1, <1>2, <2>1, OutputPrints, PutcPrints
<1>4. m \in WorkType /\ m.color = t.color /\ CursorAt(m) /\ AtOutput(m.s, m.color)
  BY <1>1, <1>3 DEF Printed, AtOutput
<1>5. /\ Becomes(terminal_index, m) /\ phase' = "output" /\ reading' = reading
      /\ submitted' = submitted
  BY <1>1, <1>2 DEF PutcOutput
<1>6. CurrentReady'
  <2>1. Current' = m
    BY <1>1, <1>4, <1>5, CurrentFacts, BecomesFacts DEF IInv
  <2>2. ~CursorOff(m.crtc)
    BY <1>4, CursorIsOn
  <2> QED BY <1>4, <1>5, <2>1, <2>2, CurrentLeft
<1>7. phase' \in Phases /\ reading' \in BOOLEAN /\ submitted' \in Seq(Characters)
  BY <1>5 DEF Phases, IInv, TypeOK
<1> QED BY <1>1, <1>4, <1>5, <1>6, <1>7, ShellKeeps

LEMMA ClearKeeps == ASSUME IInv, Clear PROVE IInv'
<1>1. PICK t \in WorkType : /\ t = Current /\ t.color = terminal_index
                            /\ ~CursorOff(t.crtc) /\ t.s.initialized
  BY CurrentFacts DEF Clear, AtOutput
<1>2. PICK m : m = terminal_clear(t)
  OBVIOUS
<1>3. m \in WorkType /\ m.color = t.color /\ ~CursorOff(m.crtc) /\ AtOutput(m.s, m.color)
  BY <1>1, <1>2, ClearFacts DEF AtOutput
<1>4. /\ Becomes(terminal_index, m) /\ phase' = "cleared" /\ reading' = reading
      /\ submitted' = submitted
  BY <1>1, <1>2 DEF Clear
<1>5. CurrentReady'
  <2>1. Current' = m
    BY <1>1, <1>3, <1>4, CurrentFacts, BecomesFacts DEF IInv
  <2> QED BY <1>3, <1>4, <2>1, CurrentLeft
<1>6. phase' \in Phases /\ reading' \in BOOLEAN /\ submitted' \in Seq(Characters)
  BY <1>4 DEF Phases, IInv, TypeOK
<1> QED BY <1>1, <1>3, <1>4, <1>5, <1>6, ShellKeeps

LEMMA EndOutputKeeps ==
  ASSUME IInv, EndOutput
  PROVE  IInv' /\ screens'[terminal_index].input_size = 0
<1>1. PICK t \in WorkType : /\ t = Current /\ t.color = terminal_index
                            /\ ~CursorOff(t.crtc) /\ AtOutput(t.s, t.color)
  BY CurrentFacts DEF EndOutput
<1>2. PICK m : m = terminal_end_output(t, TRUE)
  OBVIOUS
<1>3. /\ m \in WorkType /\ m.color = t.color /\ CursorAt(m)
      /\ AtPrompt(m.s, m.color) /\ ShownBy(m) /\ m.s.input_size = 0
  BY <1>1, <1>2, EndOutputFacts
<1>4. /\ Becomes(terminal_index, m) /\ phase' = "input" /\ reading' = FALSE
      /\ submitted' = << >>
  BY <1>1, <1>2 DEF EndOutput
<1>5. CurrentReady'
  <2>1. Current' = m
    BY <1>1, <1>3, <1>4, CurrentFacts, BecomesFacts DEF IInv
  <2>2. ~CursorOff(m.crtc)
    BY <1>3, CursorIsOn
  <2> QED BY <1>3, <1>4, <2>1, <2>2, CurrentLeft
<1>6. phase' \in Phases /\ reading' \in BOOLEAN /\ submitted' \in Seq(Characters)
  BY <1>4, EmptyLineType DEF Phases
<1> QED BY <1>1, <1>3, <1>4, <1>5, <1>6, ShellKeeps

LEMMA EndReadKeeps ==
  ASSUME IInv, EndRead
  PROVE  IInv' /\ screens'[terminal_index].input_size = 0
<1>1. PICK t \in WorkType : /\ t = Current /\ t.color = terminal_index
                            /\ ~CursorOff(t.crtc) /\ AtOutput(t.s, t.color) /\ CursorAt(t)
  BY CurrentFacts DEF EndRead
<1>2. PICK m : m = terminal_end_output(t, FALSE)
  OBVIOUS
<1>3. /\ m \in WorkType /\ m.color = t.color /\ CursorAt(m)
      /\ AtRead(m.s, m.color) /\ m.s.input_size = 0
  BY <1>1, <1>2, EndOutputFacts
<1>4. /\ Becomes(terminal_index, m) /\ phase' = "input" /\ reading' = TRUE
      /\ submitted' = << >>
  BY <1>1, <1>2 DEF EndRead
<1>5. CurrentReady'
  <2>1. Current' = m
    BY <1>1, <1>3, <1>4, CurrentFacts, BecomesFacts DEF IInv
  <2>2. ~CursorOff(m.crtc)
    BY <1>3, CursorIsOn
  <2> QED BY <1>3, <1>4, <2>1, <2>2, CurrentLeft
<1>6. phase' \in Phases /\ reading' \in BOOLEAN /\ submitted' \in Seq(Characters)
  BY <1>4, EmptyLineType DEF Phases
<1> QED BY <1>1, <1>3, <1>4, <1>5, <1>6, ShellKeeps

LEMMA SwitchKeeps ==
  ASSUME IInv, NEW i \in ScreenIds, SwitchScreen(i)
  PROVE  /\ IInv'
         /\ \A j \in ScreenIds : j # i => screens'[j] = screens[j]
         /\ AtPrompt(screens[i], i) => screens'[i] = screens[i]
         /\ Unused(screens[i]) => screens'[i].input_size = 0
<1>1. phase = "input" /\ ~reading
  BY DEF SwitchScreen, MaySwitch
<1>2. PICK t \in WorkType : t = Working(i) /\ t.s = screens[i] /\ t.color = i
  BY WorkingType DEF IInv
<1>3. ~CursorOff(t.crtc)
  BY <1>2, CurrentFacts DEF Current, Working
<1>4. AtPrompt(screens[terminal_index], terminal_index)
  BY <1>1, CurrentFacts
<1>5. AtPrompt(t.s, t.color) \/ Unused(t.s)
  BY <1>2, <1>4 DEF IInv, OthersReady
<1>6. PICK m : m = terminal_switch_screen(t)
  OBVIOUS
<1>7. /\ m \in WorkType /\ m.color = i /\ AtPrompt(m.s, m.color) /\ CursorAt(m) /\ ShownBy(m)
      /\ AtPrompt(t.s, t.color) => m.s = t.s
      /\ Unused(t.s) => m.s.input_size = 0
  BY <1>2, <1>3, <1>5, <1>6, SwitchFacts
<1>8. /\ Becomes(i, m) /\ phase' = "input" /\ reading' = FALSE /\ submitted' = submitted
  BY <1>1, <1>2, <1>6 DEF SwitchScreen, IInv, TypeOK
<1>9. TypeOK
  BY DEF IInv
<1>10. /\ terminal_index' = i /\ Current' = m
       /\ screens' \in [ScreenIds -> ScreenType] /\ vga' \in [VisibleCells -> Cells]
       /\ crtc' \in CrtcType
       /\ \A j \in ScreenIds : j # i => screens'[j] = screens[j]
       /\ screens'[i] = m.s
  BY <1>7, <1>8, <1>9, BecomesFacts
<1>11. TypeOK'
  BY <1>8, <1>9, <1>10 DEF TypeOK, Phases
<1>12. OthersReady'
  BY <1>4, <1>10 DEF OthersReady, IInv
<1>13. CurrentReady'
  <2>1. ~CursorOff(m.crtc)
    BY <1>7, CursorIsOn
  <2> QED BY <1>7, <1>8, <1>10, <2>1, CurrentLeft
<1>14. IInv'
  BY <1>11, <1>12, <1>13 DEF IInv
<1> QED BY <1>2, <1>7, <1>10, <1>14

LEMMA InitKeeps == ASSUME Init PROVE IInv /\ \A i \in ScreenIds : screens[i].input_size = 0
<1> DEFINE zero == [s |-> ZeroScreen, color |-> 0, crtc |-> CrtcInit, vga |-> Window(ZeroScreen)]
<1>1. PICK m : m = SetCursorVisibility(PutCursor(FirstPrompt(zero)), TRUE)
  OBVIOUS
<1>2. /\ ZeroScreen \in ScreenType /\ Unused(ZeroScreen)
      /\ m \in WorkType /\ m.color = 0 /\ AtPrompt(m.s, 0) /\ CursorAt(m) /\ ShownBy(m)
      /\ m.s.input_size = 0
  BY <1>1, InitFacts
<1>3. /\ screens = [i \in ScreenIds |-> IF i = 0 THEN m.s ELSE ZeroScreen]
      /\ terminal_index = 0 /\ vga = m.vga /\ crtc = m.crtc
      /\ phase = "input" /\ reading = FALSE /\ submitted = << >>
  BY <1>1 DEF Init
<1>4. 0 \in ScreenIds
  BY TerminalAssumption DEF ScreenIds
<1>5. TypeOK
  BY <1>2, <1>3, <1>4, WorkFacts, EmptyLineType DEF TypeOK, Phases
<1>6. OthersReady
  BY <1>2, <1>3 DEF OthersReady
<1>7. CurrentReady
  <2>1. m = [s |-> m.s, color |-> m.color, vga |-> m.vga, crtc |-> m.crtc]
    BY <1>2 DEF WorkType
  <2>2. Current = m
    BY <1>2, <1>3, <1>4, <2>1 DEF Current, Working
  <2>3. ~CursorOff(m.crtc)
    BY <1>2, CursorIsOn
  <2> QED BY <1>2, <1>3, <2>2, <2>3 DEF CurrentReady
<1>8. \A i \in ScreenIds : screens[i].input_size = 0
  BY <1>2, <1>3 DEF Unused
<1> QED BY <1>5, <1>6, <1>7, <1>8 DEF IInv

\* The keys that edit.
EditKey == \/ \E c \in Chars : PutcInput(c)
           \/ DelInput
           \/ DelInputForward
           \/ \E direction \in Directions : Move(direction)

LEMMA EditKeyFacts ==
  ASSUME IInv, EditKey
  PROVE  \E m : Key(m) /\ EditsLine(Current, m)
<1>1. phase = "input"
  BY DEF EditKey, PutcInput, DelInput, DelInputForward, Move, Key
<1>2. PICK t \in WorkType : t = Current /\ CursorAt(t)
  BY <1>1, CurrentFacts
<1>3. ASSUME NEW c \in Chars, PutcInput(c)
      PROVE  \E m : Key(m) /\ EditsLine(Current, m)
  <2>1. PICK m : m = terminal_putc_input(t, c)
    OBVIOUS
  <2>2. Key(m)
    BY <1>2, <1>3, <2>1 DEF PutcInput
  <2>3. c \in Characters
    BY DEF Characters
  <2> QED BY <1>2, <2>1, <2>2, <2>3, KeysEdit
<1>4. ASSUME DelInput
      PROVE  \E m : Key(m) /\ EditsLine(Current, m)
  <2>1. PICK m : m = terminal_del_input(t)
    OBVIOUS
  <2>2. Key(m)
    BY <1>2, <1>4, <2>1 DEF DelInput
  <2> QED BY <1>2, <2>1, <2>2, KeysEdit
<1>5. ASSUME DelInputForward
      PROVE  \E m : Key(m) /\ EditsLine(Current, m)
  <2>1. PICK m : m = terminal_del_input_forward(t)
    OBVIOUS
  <2>2. Key(m)
    BY <1>2, <1>5, <2>1 DEF DelInputForward
  <2> QED BY <1>2, <2>1, <2>2, KeysEdit
<1>6. ASSUME NEW direction \in Directions, Move(direction)
      PROVE  \E m : Key(m) /\ EditsLine(Current, m)
  <2>1. PICK m : m = terminal_move(t, direction)
    OBVIOUS
  <2>2. Key(m)
    BY <1>2, <1>6, <2>1 DEF Move
  <2> QED BY <1>2, <2>1, <2>2, KeysEdit
<1> QED BY <1>3, <1>4, <1>5, <1>6 DEF EditKey

LEMMA EditKeyKeeps ==
  ASSUME IInv, EditKey
  PROVE  IInv' /\ KeptAbove(Current.s, Current'.s)
<1>1. PICK m : Key(m) /\ EditsLine(Current, m)
  BY EditKeyFacts
<1> QED BY <1>1, KeyKeeps

LEMMA NextKeeps == ASSUME IInv, [Next]_vars PROVE IInv'
<1>1. CASE EditKey
  BY <1>1, EditKeyKeeps
<1>2. ASSUME NEW i \in ScreenIds, SwitchScreen(i) PROVE IInv'
  BY <1>2, SwitchKeeps
<1>3. CASE Enter
  BY <1>3, EnterKeeps
<1>4. ASSUME NEW c \in OutputChars \cup {Newline}, PutcOutput(c) PROVE IInv'
  BY <1>4, PutcOutputKeeps
<1>5. CASE Clear
  BY <1>5, ClearKeeps
<1>6. CASE EndOutput
  BY <1>6, EndOutputKeeps
<1>7. CASE EndRead
  BY <1>7, EndReadKeeps
<1>8. CASE UNCHANGED vars
  BY <1>8 DEF vars, IInv, TypeOK, OthersReady, CurrentReady, Current, Working
<1> QED BY <1>1, <1>2, <1>3, <1>4, <1>5, <1>6, <1>7, <1>8 DEF Next, EditKey

LEMMA Invariant == Spec => []IInv
BY InitKeeps, NextKeeps, PTL DEF Spec

-----------------------------------------------------------------------------
(* What the invariant says *)

LEMMA InputPlace ==
  ASSUME NEW s \in ScreenType, NEW i, NEW l \in Nat, InputAt(s, i, l)
  PROVE  /\ s.input_cursor \in 0 .. s.input_size
         /\ InputStart(s) >= s.scroll_y * TERMINAL_WIDTH
         /\ InputEnd(s) \in Positions
         /\ BlankFrom(s, i, InputEnd(s))
<1>1. PICK r \in Nat, n \in Nat, c \in Nat : LineAt(s, i, l, r, n, c)
  BY LineFacts
<1>2. /\ n = s.input_size /\ c = s.input_cursor /\ c <= n /\ s.scroll_y <= r
      /\ InputStart(s) = Row(r) + l /\ Row(r) + l + n \in Positions
      /\ BlankFrom(s, i, Row(r) + l + n)
  BY <1>1 DEF LineAt
<1>3. Row(s.scroll_y) <= Row(r) /\ Row(s.scroll_y) \in Int /\ Row(r) \in Nat
  <2>1. s.scroll_y \in Int /\ r \in Int
    BY ScreenFacts
  <2> QED BY <1>2, <2>1, RowMono, RowFacts
<1>4. InputStart(s) >= Row(s.scroll_y)
  BY <1>2, <1>3
<1>5. InputEnd(s) = Row(r) + l + n
  BY <1>2 DEF InputEnd
<1> QED BY <1>2, <1>4, <1>5 DEF Row

\* Every screen, by what it is used for.
LEMMA ScreensReady ==
  ASSUME IInv, NEW i \in ScreenIds, screens[i].initialized
  PROVE  /\ Editing(i) =>
              /\ \E l \in Nat : InputAt(screens[i], i, l)
              /\ ~(reading /\ i = terminal_index) => AtPrompt(screens[i], i)
         /\ ~Editing(i) => AtOutput(screens[i], i)
<1>1. CASE i # terminal_index
  <2>1. AtPrompt(screens[i], i) /\ Editing(i)
    BY <1>1 DEF IInv, OthersReady, Unused, Editing
  <2> QED BY <2>1, PromptText DEF AtPrompt
<1>2. CASE i = terminal_index
  <2>1. CASE phase = "input"
    <3>1. InputAt(screens[i], i, Start) /\ Start \in Nat
      BY <1>2, <2>1, CurrentFacts, StartFacts
    <3>2. ~reading => AtPrompt(screens[i], i)
      BY <1>2, <2>1, CurrentFacts
    <3> QED BY <1>2, <2>1, <3>1, <3>2 DEF Editing
  <2>2. CASE phase # "input"
    BY <1>2, <2>2, CurrentFacts DEF Editing
  <2> QED BY <2>1, <2>2
<1> QED BY <1>1, <1>2

LEMMA InvariantInView == IInv => InputInView
<1>1. ASSUME IInv, NEW i \in ScreenIds, Editing(i)
      PROVE  /\ screens[i].input_cursor \in 0 .. screens[i].input_size
             /\ InputStart(screens[i]) >= screens[i].scroll_y * TERMINAL_WIDTH
             /\ InputEnd(screens[i]) \in Positions
  <2>1. screens[i].initialized /\ screens[i] \in ScreenType
    BY <1>1 DEF Editing, IInv, TypeOK
  <2>2. PICK l \in Nat : InputAt(screens[i], i, l)
    BY <1>1, <2>1, ScreensReady
  <2> QED BY <2>1, <2>2, InputPlace
<1> QED BY <1>1 DEF InputInView

LEMMA InvariantBlank == IInv => BlankAfterEnd
<1>1. ASSUME IInv, NEW i \in ScreenIds, screens[i].initialized
      PROVE  BlankFrom(screens[i], i, IF Editing(i) THEN InputEnd(screens[i])
                                                    ELSE Position(screens[i]))
  <2>1. screens[i] \in ScreenType
    BY <1>1 DEF IInv, TypeOK
  <2>2. CASE Editing(i)
    <3>1. PICK l \in Nat : InputAt(screens[i], i, l)
      BY <1>1, <2>2, ScreensReady
    <3> QED BY <2>1, <2>2, <3>1, InputPlace
  <2>3. CASE ~Editing(i)
    BY <1>1, <2>3, ScreensReady DEF AtOutput
  <2> QED BY <2>2, <2>3
<1> QED BY <1>1 DEF BlankAfterEnd, BlankFrom

LEMMA InvariantPrompt == IInv => PromptBeforeInput
<1>1. ASSUME IInv, NEW i \in ScreenIds, Editing(i), ~(reading /\ i = terminal_index)
      PROVE  PromptBefore(screens[i])
  <2>1. screens[i].initialized
    BY <1>1 DEF Editing
  <2> QED BY <1>1, <2>1, ScreensReady DEF AtPrompt
<1> QED BY <1>1 DEF PromptBeforeInput, PromptBefore

LEMMA InvariantShown == IInv => ScreenShown
<1>1. ASSUME IInv, phase = "input"
      PROVE  CursorShown /\ (Shown \/ (reading /\ Current.s.input_size = 0))
  <2>1. CursorAt(Current) /\ (ShownBy(Current) \/ (reading /\ Current.s.input_size = 0))
    BY <1>1, CurrentFacts DEF IInv, TypeOK
  <2>2. PICK t \in WorkType : t = Current
    BY <1>1, CurrentFacts
  <2>3. Current.crtc = crtc /\ Current.vga = vga
    BY DEF Current, Working
  <2>4. CursorShown
    BY <2>1, <2>3 DEF CursorAt, CursorShown, Row
  <2>5. ShownBy(Current) => Shown
    BY <2>3 DEF ShownBy, Shown
  <2> QED BY <2>1, <2>4, <2>5
<1> QED BY <1>1 DEF ScreenShown

-----------------------------------------------------------------------------
(* The text above the input *)

LEMMA NothingMoves == ASSUME NEW s \in ScreenType PROVE KeptAbove(s, s)
<1>1. PICK i \in Int : i = InputStart(s)
  BY ScreenFacts DEF InputStart
<1>2. i - i = 0 /\ \A p \in 0 .. i - 1 : p + (i - i) = p
  OBVIOUS
<1> QED BY <1>1, <1>2 DEF KeptAbove

LEMMA HistoryStep ==
  ASSUME IInv, [Next]_vars, phase = "input", phase' = "input", terminal_index' = terminal_index
  PROVE  KeptAbove(Current.s, Current'.s)
<1>1. CASE EditKey
  BY <1>1, EditKeyKeeps
<1>2. ASSUME NEW i \in ScreenIds, SwitchScreen(i)
      PROVE  KeptAbove(Current.s, Current'.s)
  <2>1. i = terminal_index /\ ~reading
    BY <1>2 DEF SwitchScreen, Becomes, MaySwitch
  <2>2. AtPrompt(screens[i], i)
    BY <2>1, CurrentFacts
  <2>3. screens'[i] = screens[i]
    BY <1>2, <2>2, SwitchKeeps
  <2>4. PICK s \in ScreenType : s = Current.s
    BY CurrentFacts, WorkFacts
  <2>5. Current'.s = s
    BY <2>1, <2>3, <2>4 DEF Current, Working
  <2> QED BY <2>4, <2>5, NothingMoves
<1>3. CASE UNCHANGED vars
  <2>1. PICK s \in ScreenType : s = Current.s
    BY CurrentFacts, WorkFacts
  <2>2. Current'.s = s
    BY <1>3, <2>1 DEF vars, Current, Working
  <2> QED BY <2>1, <2>2, NothingMoves
<1> QED BY <1>1, <1>2, <1>3
    DEF Next, EditKey, Enter, PutcOutput, Clear, EndOutput, EndRead

-----------------------------------------------------------------------------
(* The line editor *)

Lines == [i \in ScreenIds |-> LineOf(i)]
Busy  == phase # "input"
Empty == [text |-> << >>, cursor |-> 0]

\* A line in a field, the empty one included.
LEMMA LineOfField ==
  ASSUME NEW s \in ScreenType, NEW i, NEW l \in Nat, InputAt(s, i, l)
  PROVE  /\ s.input_size \in Nat /\ s.input_cursor \in 0 .. s.input_size
         /\ Len(terminal_get_input(s)) = s.input_size
         /\ s.input_size <= 0 => terminal_get_input(s) = << >> /\ s.input_cursor = 0
<1>1. PICK r \in Nat, n \in Nat, c \in Nat : LineAt(s, i, l, r, n, c)
  BY LineFacts
<1>2. n = s.input_size /\ c = s.input_cursor /\ c <= n /\ Len(terminal_get_input(s)) = n
  BY <1>1 DEF LineAt
<1>3. n = 0 => terminal_get_input(s) = << >>
  BY <1>2 DEF terminal_get_input
<1> QED BY <1>2, <1>3

LEMMA CurrentLine ==
  ASSUME IInv, phase = "input"
  PROVE  LineOf(terminal_index) = [text |-> terminal_get_input(Current.s),
                                   cursor |-> Current.s.input_cursor]
<1>1. PICK s \in ScreenType : s = Current.s /\ s = screens[terminal_index]
  BY CurrentFacts, WorkFacts
<1>2. PICK l \in Nat : InputAt(s, Current.color, l)
  BY <1>1, StartFacts
<1>3. s.input_size <= 0 => terminal_get_input(s) = << >> /\ s.input_cursor = 0
  BY <1>2, LineOfField
<1> QED BY <1>1, <1>3 DEF LineOf

\* A key edits the line of the screen that is shown.
LEMMA EditorEdits ==
  ASSUME IInv, NEW m, Key(m), NEW text, NEW c, LineBecomes(Current, m, Start, text, c)
  PROVE  Editor!Edit(text, c)
<1>1. /\ phase = "input" /\ phase' = phase /\ reading' = reading /\ submitted' = submitted
      /\ Becomes(terminal_index, m)
  BY DEF Key
<1>2. PICK l \in Nat : l = Start
  BY <1>1, StartFacts
<1>3. /\ m \in WorkType /\ m.color = Current.color /\ InputAt(m.s, m.color, l)
      /\ terminal_get_input(m.s) = text /\ m.s.input_cursor = c
  BY <1>2 DEF LineBecomes
<1>4. /\ terminal_index' = terminal_index /\ terminal_index \in ScreenIds
      /\ \A j \in ScreenIds : screens'[j] = IF j = terminal_index THEN m.s ELSE screens[j]
  BY <1>1, <1>3, CurrentFacts, BecomesFacts DEF IInv
<1>5. m.s.input_size <= 0 => text = << >> /\ c = 0
  BY <1>3, WorkFacts, LineOfField
<1>6. \A j \in ScreenIds : LineOf(j)' = IF j = terminal_index THEN [text |-> text, cursor |-> c]
                                         ELSE LineOf(j)
  BY <1>1, <1>3, <1>4, <1>5 DEF LineOf
<1>7. Lines' = [Lines EXCEPT ![terminal_index] = [text |-> text, cursor |-> c]]
  BY <1>4, <1>6 DEF Lines
<1> QED BY <1>1, <1>4, <1>7 DEF Editor!Edit, Lines

LEMMA EditorText ==
  ASSUME IInv, phase = "input"
  PROVE  /\ Editor!text = terminal_get_input(Current.s)
         /\ Editor!cursor = Current.s.input_cursor
         /\ Editor!cursor \in Nat /\ Len(Editor!text) = Current.s.input_size
         /\ Current.s.input_size \in Nat
<1>1. terminal_index \in ScreenIds
  BY CurrentFacts
<1>2. PICK s \in ScreenType : s = Current.s /\ InputAt(s, Current.color, Start) /\ Start \in Nat
  BY CurrentFacts, StartFacts, WorkFacts
<1>3. /\ s.input_size \in Nat /\ s.input_cursor \in 0 .. s.input_size
      /\ Len(terminal_get_input(s)) = s.input_size
  BY <1>2, LineOfField
<1> QED BY <1>1, <1>2, <1>3, CurrentLine DEF Editor!text, Editor!cursor

LEMMA EditorStays ==
  ASSUME IInv, phase = "input", NEW text, NEW c, Editor!Edit(text, c),
         text = terminal_get_input(Current.s), c = Current.s.input_cursor
  PROVE  UNCHANGED Editor!editorVars
<1>1. Lines' = [Lines EXCEPT ![terminal_index] = [text |-> text, cursor |-> c]]
  BY DEF Editor!Edit, Lines
<1>2. Lines[terminal_index] = [text |-> text, cursor |-> c]
  BY CurrentLine, CurrentFacts DEF Lines
<1>3. Lines' = Lines
  BY <1>1, <1>2 DEF Lines
<1> QED BY <1>3 DEF Editor!Edit, Editor!editorVars, Lines

\* What a key does to a line, in the words of the editor.
LEMMA EditorPutc ==
  ASSUME IInv, NEW c \in Chars, PutcInput(c)
  PROVE  [Editor!EditorNext]_Editor!editorVars
<1>1. phase = "input"
  BY DEF PutcInput, Key
<1>2. PICK t \in WorkType : t = Current /\ CursorAt(t)
  BY <1>1, CurrentFacts
<1>3. PICK l \in Nat : l = Start /\ Fits(l) /\ InputAt(t.s, t.color, l)
  BY <1>1, <1>2, StartFacts
<1>4. PICK m : m = terminal_putc_input(t, c)
  OBVIOUS
<1>5. Key(m)
  BY <1>2, <1>4 DEF PutcInput
<1>6. t.s.input_size \in -1 .. INPUT_MAX
  BY WorkFacts, ScreenFacts
<1>7. CASE t.s.input_size < INPUT_MAX
  <2>1. PICK text, d : /\ text = Inserted(terminal_get_input(t.s), t.s.input_cursor, c)
                       /\ d = t.s.input_cursor + 1
    OBVIOUS
  <2>2. c \in Characters
    BY DEF Characters
  <2>3. LineBecomes(t, m, l, text, d)
    BY <1>2, <1>3, <1>4, <1>7, <2>1, <2>2, PutcInputFacts
  <2>4. Editor!Edit(text, d)
    BY <1>2, <1>3, <1>5, <2>3, EditorEdits
  <2>5. Editor!Type(c)
    BY <1>1, <1>2, <1>7, <2>1, <2>4, EditorText
       DEF Editor!Type, Editor!Before, Editor!After, Inserted
  <2> QED BY <2>5 DEF Editor!EditorNext
<1>8. CASE t.s.input_size = INPUT_MAX
  <2>1. m = t
    BY <1>4, <1>8 DEF terminal_putc_input, InputFull
  <2>2. LineBecomes(t, m, l, terminal_get_input(t.s), t.s.input_cursor)
    BY <1>2, <1>3, <2>1, StaysFacts
  <2>3. Editor!Edit(terminal_get_input(t.s), t.s.input_cursor)
    BY <1>2, <1>3, <1>5, <2>2, EditorEdits
  <2> QED BY <1>1, <1>2, <2>3, EditorStays
<1> QED BY <1>6, <1>7, <1>8, Sizes

LEMMA EditorDel ==
  ASSUME IInv, DelInput
  PROVE  [Editor!EditorNext]_Editor!editorVars
<1>1. phase = "input"
  BY DEF DelInput, Key
<1>2. PICK t \in WorkType : t = Current /\ CursorAt(t)
  BY <1>1, CurrentFacts
<1>3. PICK l \in Nat : l = Start /\ Fits(l) /\ InputAt(t.s, t.color, l)
  BY <1>1, <1>2, StartFacts
<1>4. PICK m : m = terminal_del_input(t)
  OBVIOUS
<1>5. Key(m)
  BY <1>2, <1>4 DEF DelInput
<1>6. PICK c \in Nat : c = t.s.input_cursor
  BY <1>1, <1>2, EditorText
<1>7. PICK text, d : /\ text = IF c > 0 THEN Removed(terminal_get_input(t.s), c - 1)
                                        ELSE terminal_get_input(t.s)
                     /\ d = IF c > 0 THEN c - 1 ELSE 0
  OBVIOUS
<1>8. LineBecomes(t, m, l, text, d)
  BY <1>2, <1>3, <1>4, <1>6, <1>7, DelInputFacts
<1>9. Editor!Edit(text, d)
  BY <1>2, <1>3, <1>5, <1>8, EditorEdits
<1>10. CASE c > 0
  <2>1. c - 1 + 2 = c + 1
    OBVIOUS
  <2>2. Editor!Backspace
    BY <1>1, <1>2, <1>6, <1>7, <1>9, <1>10, <2>1, EditorText
       DEF Editor!Backspace, Editor!Before, Editor!After, Removed
  <2> QED BY <2>2 DEF Editor!EditorNext
<1>11. CASE ~(c > 0)
  <2>1. text = terminal_get_input(t.s) /\ d = t.s.input_cursor
    BY <1>6, <1>7, <1>11
  <2> QED BY <1>1, <1>2, <1>9, <2>1, EditorStays
<1> QED BY <1>10, <1>11

LEMMA EditorDelForward ==
  ASSUME IInv, DelInputForward
  PROVE  [Editor!EditorNext]_Editor!editorVars
<1>1. phase = "input"
  BY DEF DelInputForward, Key
<1>2. PICK t \in WorkType : t = Current /\ CursorAt(t)
  BY <1>1, CurrentFacts
<1>3. PICK l \in Nat : l = Start /\ Fits(l) /\ InputAt(t.s, t.color, l)
  BY <1>1, <1>2, StartFacts
<1>4. PICK m : m = terminal_del_input_forward(t)
  OBVIOUS
<1>5. Key(m)
  BY <1>2, <1>4 DEF DelInputForward
<1>6. PICK c \in Nat : c = t.s.input_cursor
  BY <1>1, <1>2, EditorText
<1>7. PICK text : text = IF c < t.s.input_size THEN Removed(terminal_get_input(t.s), c)
                                               ELSE terminal_get_input(t.s)
  OBVIOUS
<1>8. LineBecomes(t, m, l, text, c)
  BY <1>2, <1>3, <1>4, <1>6, <1>7, DelForwardFacts
<1>9. Editor!Edit(text, c)
  BY <1>2, <1>3, <1>5, <1>8, EditorEdits
<1>10. CASE c < t.s.input_size
  <2>1. c + 1 + 1 = c + 2
    OBVIOUS
  <2>2. Editor!Delete
    BY <1>1, <1>2, <1>6, <1>7, <1>9, <1>10, <2>1, EditorText
       DEF Editor!Delete, Editor!Before, Editor!After, Removed
  <2> QED BY <2>2 DEF Editor!EditorNext
<1>11. CASE ~(c < t.s.input_size)
  <2>1. text = terminal_get_input(t.s)
    BY <1>7, <1>11
  <2> QED BY <1>1, <1>2, <1>6, <1>9, <2>1, EditorStays
<1> QED BY <1>10, <1>11

LEMMA EditorMove ==
  ASSUME IInv, NEW direction \in Directions, Move(direction)
  PROVE  [Editor!EditorNext]_Editor!editorVars
<1>1. phase = "input"
  BY DEF Move, Key
<1>2. PICK t \in WorkType : t = Current /\ CursorAt(t)
  BY <1>1, CurrentFacts
<1>3. PICK l \in Nat : l = Start /\ Fits(l) /\ InputAt(t.s, t.color, l)
  BY <1>1, <1>2, StartFacts
<1>4. PICK m : m = terminal_move(t, direction)
  OBVIOUS
<1>5. Key(m)
  BY <1>2, <1>4 DEF Move
<1>6. PICK text, c : text = terminal_get_input(t.s) /\ c = MovedCursor(t.s, direction)
  OBVIOUS
<1>7. LineBecomes(t, m, l, text, c)
  BY <1>2, <1>3, <1>4, <1>6, MoveFacts
<1>8. Editor!Edit(text, c)
  BY <1>2, <1>3, <1>5, <1>7, EditorEdits
<1>9. CASE direction = "left" /\ t.s.input_cursor > 0
  <2>1. c = t.s.input_cursor - 1
    BY <1>6, <1>9 DEF MovedCursor
  <2>2. Editor!Left
    BY <1>1, <1>2, <1>6, <1>8, <1>9, <2>1, EditorText DEF Editor!Left
  <2> QED BY <2>2 DEF Editor!EditorNext
<1>10. CASE direction = "right" /\ t.s.input_cursor < t.s.input_size
  <2>1. c = t.s.input_cursor + 1
    BY <1>6, <1>10 DEF MovedCursor
  <2>2. Editor!Right
    BY <1>1, <1>2, <1>6, <1>8, <1>10, <2>1, EditorText DEF Editor!Right
  <2> QED BY <2>2 DEF Editor!EditorNext
<1>11. CASE /\ ~(direction = "left" /\ t.s.input_cursor > 0)
            /\ ~(direction = "right" /\ t.s.input_cursor < t.s.input_size)
  <2>1. c = t.s.input_cursor
    BY <1>6, <1>11 DEF MovedCursor
  <2> QED BY <1>1, <1>2, <1>6, <1>8, <2>1, EditorStays
<1> QED BY <1>9, <1>10, <1>11

\* Output does not touch the lines.
LEMMA LinesKept ==
  ASSUME IInv, NEW m, Becomes(terminal_index, m),
         phase # "input" /\ (phase' # "input" \/ screens'[terminal_index].input_size = 0)
  PROVE  Lines' = Lines /\ terminal_index' = terminal_index
<1>1. /\ terminal_index' = terminal_index /\ terminal_index \in ScreenIds
      /\ screens' = [screens EXCEPT ![terminal_index] = m.s] /\ TypeOK
  BY DEF Becomes, IInv, TypeOK
<1>2. \A j \in ScreenIds : j # terminal_index => screens'[j] = screens[j]
  BY <1>1 DEF TypeOK
<1>3. \A j \in ScreenIds : LineOf(j)' = LineOf(j)
  BY <1>1, <1>2 DEF LineOf
<1> QED BY <1>1, <1>3 DEF Lines

LEMMA EditorSwitch ==
  ASSUME IInv, NEW i \in ScreenIds, SwitchScreen(i)
  PROVE  Editor!Switch(i)
<1>1. /\ phase = "input" /\ ~reading /\ phase' = phase /\ submitted' = submitted
      /\ terminal_index' = i
  BY DEF SwitchScreen, MaySwitch, Becomes
<1>2. /\ \A j \in ScreenIds : j # i => screens'[j] = screens[j]
      /\ AtPrompt(screens[i], i) => screens'[i] = screens[i]
      /\ Unused(screens[i]) => screens'[i].input_size = 0
  BY SwitchKeeps
<1>3. AtPrompt(screens[i], i) \/ Unused(screens[i])
  BY <1>1, CurrentFacts DEF IInv, OthersReady
<1>4. LineOf(i)' = LineOf(i)
  <2>1. CASE AtPrompt(screens[i], i)
    BY <1>1, <1>2, <2>1 DEF LineOf
  <2>2. CASE Unused(screens[i])
    BY <1>1, <1>2, <2>2 DEF LineOf, Unused
  <2> QED BY <1>3, <2>1, <2>2
<1>5. \A j \in ScreenIds : LineOf(j)' = LineOf(j)
  BY <1>1, <1>2, <1>4 DEF LineOf
<1>6. Lines' = Lines
  BY <1>5 DEF Lines
<1> QED BY <1>1, <1>6 DEF Editor!Switch, Lines

LEMMA EditorEnter ==
  ASSUME IInv, Enter
  PROVE  Editor!Submit
<1>1. PICK m : m = terminal_begin_output(Current)
  OBVIOUS
<1>2. /\ phase = "input" /\ phase' = "entered" /\ Becomes(terminal_index, m)
      /\ submitted' = terminal_get_input(Current.s)
  BY <1>1 DEF Enter
<1>3. submitted' = Editor!text
  BY <1>2, EditorText
<1>4. /\ terminal_index' = terminal_index /\ terminal_index \in ScreenIds
      /\ screens' = [screens EXCEPT ![terminal_index] = m.s] /\ TypeOK
  BY <1>2 DEF Becomes, IInv, TypeOK
<1>5. \A j \in ScreenIds : j # terminal_index => screens'[j] = screens[j]
  BY <1>4 DEF TypeOK
<1>6. \A j \in ScreenIds : LineOf(j)' = IF j = terminal_index THEN Editor!EmptyLine ELSE LineOf(j)
  BY <1>2, <1>4, <1>5 DEF LineOf, Editor!EmptyLine
<1>7. Lines' = [Lines EXCEPT ![terminal_index] = Editor!EmptyLine]
  BY <1>4, <1>6 DEF Lines
<1> QED BY <1>2, <1>3, <1>4, <1>7 DEF Editor!Submit, Lines

LEMMA EditorOutput ==
  ASSUME IInv, Clear \/ \E c \in OutputChars \cup {Newline} : PutcOutput(c)
  PROVE  UNCHANGED Editor!editorVars
<1>1. PICK m : Becomes(terminal_index, m)
  BY DEF Clear, PutcOutput
<1>2. phase # "input" /\ phase' # "input" /\ submitted' = submitted
  BY DEF Clear, PutcOutput
<1>3. Lines' = Lines /\ terminal_index' = terminal_index
  BY <1>1, <1>2, LinesKept
<1> QED BY <1>2, <1>3 DEF Editor!editorVars, Lines

LEMMA EditorAnswered ==
  ASSUME IInv, EndOutput \/ EndRead
  PROVE  Editor!Answered
<1>1. PICK m : Becomes(terminal_index, m)
  BY DEF EndOutput, EndRead
<1>2. phase # "input" /\ phase' = "input" /\ submitted' = << >>
  BY DEF EndOutput, EndRead
<1>3. screens'[terminal_index].input_size = 0
  BY EndOutputKeeps, EndReadKeeps
<1>4. Lines' = Lines /\ terminal_index' = terminal_index
  BY <1>1, <1>2, <1>3, LinesKept
<1> QED BY <1>2, <1>4 DEF Editor!Answered, Lines

LEMMA EditorStarts == ASSUME Init PROVE Editor!EditorInit
<1>1. \A i \in ScreenIds : screens[i].input_size = 0
  BY InitKeeps
<1>2. \A i \in ScreenIds : LineOf(i) = Editor!EmptyLine
  BY <1>1 DEF LineOf, Editor!EmptyLine
<1>3. Lines = [i \in ScreenIds |-> Editor!EmptyLine]
  BY <1>2 DEF Lines
<1> QED BY <1>3 DEF Init, Editor!EditorInit, Lines, ScreenIds, Editor!ScreenIds

LEMMA EditorStep ==
  ASSUME IInv, [Next]_vars
  PROVE  [Editor!EditorNext]_Editor!editorVars
<1>1. ASSUME NEW c \in Chars, PutcInput(c)
      PROVE  [Editor!EditorNext]_Editor!editorVars
  BY <1>1, EditorPutc
<1>2. CASE DelInput
  BY <1>2, EditorDel
<1>3. CASE DelInputForward
  BY <1>3, EditorDelForward
<1>4. ASSUME NEW direction \in Directions, Move(direction)
      PROVE  [Editor!EditorNext]_Editor!editorVars
  BY <1>4, EditorMove
<1>5. ASSUME NEW i \in ScreenIds, SwitchScreen(i)
      PROVE  Editor!EditorNext
  BY <1>5, EditorSwitch DEF Editor!EditorNext, ScreenIds, Editor!ScreenIds
<1>6. CASE Enter
  BY <1>6, EditorEnter DEF Editor!EditorNext
<1>7. ASSUME NEW c \in OutputChars \cup {Newline}, PutcOutput(c)
      PROVE  UNCHANGED Editor!editorVars
  BY <1>7, EditorOutput
<1>8. CASE Clear
  BY <1>8, EditorOutput
<1>9. CASE EndOutput \/ EndRead
  BY <1>9, EditorAnswered DEF Editor!EditorNext
<1>10. CASE UNCHANGED vars
  BY <1>10 DEF vars, Editor!editorVars, LineOf
<1> QED BY <1>1, <1>2, <1>3, <1>4, <1>5, <1>6, <1>7, <1>8, <1>9, <1>10 DEF Next

-----------------------------------------------------------------------------
(* The theorems *)

\* Every position, row and length stays within the sizes of terminal.h, in every
\* function of terminal.c, whatever the user types and the commands print.
THEOREM TypeCorrect == Spec => []TypeOK
BY Invariant, PTL DEF IInv

\* The input field is inside the buffer and not above the rows that are shown, so
\* the deletion that draws the row above the cursor stays in the page
\* (terminal.c 119-122, 505-534).
THEOREM FieldInView == Spec => []InputInView
BY Invariant, InvariantInView, PTL

\* An edit or a new row leaves no remains after the text (terminal.c 203-216,
\* 265-276, 346-348).
THEOREM NoRemains == Spec => []BlankAfterEnd
BY Invariant, InvariantBlank, PTL

\* No sequence of keys deletes or overwrites the prompt (terminal.h 48-49).
THEOREM PromptStays == Spec => []PromptBeforeInput
BY Invariant, InvariantPrompt, PTL

\* When the user can type, the VGA shows the rows of the current screen and the
\* cursor (terminal.h 51-54).
THEOREM ScreenIsShown == Spec => []ScreenShown
BY Invariant, InvariantShown, PTL

\* Editing never changes the text above the input: it may only move up with it
\* (terminal.c 237-244, 432-570).
THEOREM HistoryIsKept == Spec => HistoryKept
<1>1. IInv /\ [Next]_vars =>
        [phase = "input" /\ phase' = "input" /\ terminal_index' = terminal_index =>
           LET old == Current.s
               new == Current'.s
               up  == InputStart(old) - InputStart(new)
           IN  /\ up >= 0
               /\ \A p \in 0 .. InputStart(new) - 1 : new.data[p] = old.data[p + up]]_vars
  BY HistoryStep DEF KeptAbove
<1> QED BY <1>1, Invariant, PTL DEF Spec, HistoryKept

\* On cells, rows and the VGA, the keys and the shell do to the lines of the
\* screens what a line editor does, and Enter submits the line the user sees.
THEOREM ImplementsLineEditor == Spec => IsALineEditor
<1>1. Init => Editor!EditorInit
  BY EditorStarts
<1>2. IInv /\ [Next]_vars => [Editor!EditorNext]_Editor!editorVars
  BY EditorStep
<1> QED BY <1>1, <1>2, Invariant, PTL DEF Spec, IsALineEditor, Editor!EditorSpec
=============================================================================
