------------------------------ MODULE Terminal ------------------------------
(***************************************************************************)
(* terminal.c: the screens, each a buffer of cells taller than the visible *)
(* page, the input field the user edits in it, and what of it the VGA      *)
(* shows.  Every function runs to its end in the main loop, interrupts do  *)
(* not touch the terminal: an operator gives the effect of each function   *)
(* and an action calls those the keyboard and the shell call.              *)
(*                                                                         *)
(* The rows of a buffer follow each other, so a cell has one number, its   *)
(* position.  A cell holds a character and the screen whose color it has.  *)
(***************************************************************************)
EXTENDS Vga, Sequences, Functions

CONSTANTS TERMINAL_EXTRA_LINES,  \* rows of a buffer above the visible ones
          SCREEN_COUNT,          \* TERMINAL_SCREEN_COUNT
          INPUT_MAX,             \* INT8_MAX
          PROMPT,                \* the characters of TERMINAL_PROMPT
          Chars,                 \* the characters keys write
          OutputChars,           \* the characters commands print
          Space, Newline

TERMINAL_HEIGHT == VGA_HEIGHT + TERMINAL_EXTRA_LINES

ScreenIds  == 0 .. SCREEN_COUNT - 1
Positions  == 0 .. TERMINAL_HEIGHT * TERMINAL_WIDTH - 1
Characters == Chars \cup OutputChars \cup Range(PROMPT) \cup {Space}

\* The prompt and the longest input fit in the visible rows, a buffer has rows to
\* move up and their numbers are bytes, and a cell has a place for the cursor.
ASSUME TerminalAssumption ==
  /\ TERMINAL_EXTRA_LINES \in Nat
  /\ SCREEN_COUNT \in Nat \ {0}
  /\ INPUT_MAX \in Nat \ {0}
  /\ PROMPT \in Seq(Range(PROMPT)) \ {<< >>}
  /\ Newline \notin Characters
  /\ Len(PROMPT) + INPUT_MAX < VGA_HEIGHT * TERMINAL_WIDTH
  /\ TERMINAL_HEIGHT \in 2 .. 256 /\ TERMINAL_HEIGHT * TERMINAL_WIDTH <= 2^16
Cells      == [character : Characters, color : ScreenIds]

ScreenType == [cursor_x : 0 .. TERMINAL_WIDTH - 1,
               cursor_y : 0 .. TERMINAL_HEIGHT - 1,
               scroll_y : 0 .. TERMINAL_EXTRA_LINES,
               input_size   : -1 .. INPUT_MAX,
               input_cursor : 0 .. INPUT_MAX,
               initialized  : BOOLEAN,
               data : [Positions -> Cells]]

VARIABLES screens,         \* the screens
          terminal_index,  \* the one that is shown
          vga,             \* the cells of the visible page
          crtc,            \* the CRT controller
          phase,           \* where shell_execute() is, see below
          reading,         \* the shell's read_pending
          submitted        \* the line shell_execute() works on

vars == <<screens, terminal_index, vga, crtc, phase, reading, submitted>>

\* "input": the user edits; "entered": terminal_begin_output() has returned;
\* "output": the command has printed; "cleared": it has cleared the screen.
Phases == {"input", "entered", "output", "cleared"}

-----------------------------------------------------------------------------
(* A terminal being worked on: the current screen s, its color, and the    *)
(* hardware.                                                               *)

Working(i) == [s |-> screens[i], color |-> i, vga |-> vga, crtc |-> crtc]

BlankCell(t) == [character |-> Space, color |-> t.color]

Position(s)   == s.cursor_y * TERMINAL_WIDTH + s.cursor_x
InputStart(s) == Position(s) - s.input_cursor
InputEnd(s)   == InputStart(s) + s.input_size

\* y_to_vga() computes on 8 bits.
y_to_vga(s, y) == (y - s.scroll_y) % 256

PutCursor(t) ==
  [t EXCEPT !.crtc = vga_put_cursor(@, t.s.cursor_x, y_to_vga(t.s, t.s.cursor_y))]

Window(s) == [p \in VisibleCells |-> s.data[s.scroll_y * TERMINAL_WIDTH + p]]

put_screen(t) == [t EXCEPT !.vga = Window(t.s)]

\* The loops of one-row scrolls leave the cursor on the nearest visible row.
align_scroll_to_cursor(t) ==
  LET s == t.s
      scroll == IF s.cursor_y < s.scroll_y THEN s.cursor_y
                ELSE IF s.cursor_y >= s.scroll_y + VGA_HEIGHT
                     THEN s.cursor_y - VGA_HEIGHT + 1
                     ELSE s.scroll_y
  IN  IF scroll = s.scroll_y THEN t
      ELSE PutCursor(put_screen([t EXCEPT !.s.scroll_y = scroll]))

\* The first row is lost, the last one becomes blank; the VGA is not redrawn.
move_screen_up(t) ==
  [t EXCEPT !.s.data = [p \in Positions |-> IF p + TERMINAL_WIDTH \in Positions
                                            THEN t.s.data[p + TERMINAL_WIDTH]
                                            ELSE BlankCell(t)],
            !.s.cursor_y = @ - 1]

move_cursor(t, offset) ==
  LET position == Position(t.s) + offset
  IN  PutCursor(align_scroll_to_cursor(
        [t EXCEPT !.s.cursor_x = position % TERMINAL_WIDTH,
                  !.s.cursor_y = position \div TERMINAL_WIDTH]))

\* putc('\n'): the rest of the row becomes blank, in the buffer and on the VGA.
PutNewline(t) ==
  LET up == IF t.s.cursor_y + 1 >= TERMINAL_HEIGHT THEN move_screen_up(t) ELSE t
      columns == up.s.cursor_x .. TERMINAL_WIDTH - 1
      inBuffer == {up.s.cursor_y * TERMINAL_WIDTH + x : x \in columns}
      onVga == {y_to_vga(up.s, up.s.cursor_y) * TERMINAL_WIDTH + x : x \in columns}
      blanked == [up EXCEPT
                    !.s.data = [p \in Positions |-> IF p \in inBuffer THEN BlankCell(t)
                                                    ELSE up.s.data[p]],
                    !.vga = vga_set_cells(@, BlankCell(t), onVga),
                    !.s.cursor_x = 0,
                    !.s.cursor_y = @ + 1]
  IN  PutCursor(align_scroll_to_cursor(blanked))

\* putc() of another character.  Redrawing the screen at the end also draws
\* the cell that was written.
PutPrintable(t, c) ==
  LET s == t.s
      endOfRow == s.cursor_x + 1 >= TERMINAL_WIDTH
      written == [t EXCEPT !.s.data[Position(s)] = [character |-> c, color |-> t.color],
                           !.s.cursor_x = IF endOfRow THEN 0 ELSE @ + 1,
                           !.s.cursor_y = IF endOfRow THEN @ + 1 ELSE @]
      up == IF written.s.cursor_y >= TERMINAL_HEIGHT THEN move_screen_up(written) ELSE written
  IN  put_screen(align_scroll_to_cursor(PutCursor(up)))

putc(t, c) == IF c = Newline THEN PutNewline(t) ELSE PutPrintable(t, c)

PutAll(t, characters) ==
  LET put[n \in 0 .. Len(characters)] ==
        IF n = 0 THEN t ELSE putc(put[n - 1], characters[n])
  IN  put[Len(characters)]

-----------------------------------------------------------------------------
(* The input field *)

\* Bug variant: the copy starts one character too late.
AfterNextCharacter(s) ==
  [i \in 1 .. s.input_size - s.input_cursor |-> s.data[Position(s) + i].character]
get_input_after_cursor(s) ==
  [i \in 1 .. s.input_size - s.input_cursor |-> s.data[Position(s) + i - 1].character]

Spaces(n) == [i \in 1 .. n |-> Space]

\* Bug variant: nothing is erased at the old end of the input.
PutWithoutErasing(t, buffer, erase_count) ==
  move_cursor(PutAll(t, buffer), -Len(buffer))
put_input_after_cursor(t, buffer, erase_count) ==
  move_cursor(PutAll(t, buffer \o Spaces(erase_count)), -(Len(buffer) + erase_count))

\* The input is at most INT8_MAX characters.  Bug variant: one more.
OneMoreFull(s) == s.input_size = INPUT_MAX + 1
InputFull(s)   == s.input_size = INPUT_MAX

terminal_putc_input(t, c) ==
  IF t.s.input_size < 0 \/ InputFull(t.s) THEN t
  ELSE LET after == get_input_after_cursor(t.s)
           put   == put_input_after_cursor(putc(t, c), after, 0)
       IN  [put EXCEPT !.s.input_size = @ + 1, !.s.input_cursor = @ + 1]

\* What a backspace deletes: nothing at the start of the input.  Bug variant:
\* always one character.
AlwaysOne(s)      == 1
BackspaceCount(s) == IF s.input_cursor < 1 THEN s.input_cursor ELSE 1

\* terminal_del_input(1): the cursor moves back over a cell that is blanked.
terminal_del_input(t) ==
  IF t.s.input_size < 0 THEN t
  ELSE LET s     == t.s
           count == BackspaceCount(s)
           moved == count = 1 /\ Position(s) # 0
           x == IF s.cursor_x = 0 THEN TERMINAL_WIDTH - 1 ELSE s.cursor_x - 1
           y == IF s.cursor_x = 0 THEN s.cursor_y - 1 ELSE s.cursor_y
           back == [t EXCEPT !.s.cursor_x = x,
                             !.s.cursor_y = y,
                             !.s.data[y * TERMINAL_WIDTH + x] = BlankCell(t),
                             !.vga = vga_set_cells(@, BlankCell(t),
                                                   {y_to_vga(s, y) * TERMINAL_WIDTH + x})]
           put == put_input_after_cursor(IF moved THEN back ELSE t,
                                         get_input_after_cursor(s), count)
       IN  PutCursor([put EXCEPT !.s.input_size = @ - count, !.s.input_cursor = @ - count])

\* terminal_del_input_forward(1)
terminal_del_input_forward(t) ==
  IF t.s.input_size < 0 THEN t
  ELSE LET after == get_input_after_cursor(t.s)
           count == IF Len(after) < 1 THEN Len(after) ELSE 1
           put == put_input_after_cursor(t, SubSeq(after, count + 1, Len(after)), count)
       IN  [put EXCEPT !.s.input_size = @ - count]

\* What terminal_get_input() copies: the whole input.
terminal_get_input(s) ==
  [i \in 1 .. s.input_size |-> s.data[InputStart(s) + i - 1].character]

CanScrollUp(s)   == s.scroll_y > 0
\* Bug variant: scrolling down does not stop at the cursor.
CanAlwaysScrollDown(s) == s.scroll_y + VGA_HEIGHT < TERMINAL_HEIGHT
CanScrollDown(s) == /\ s.scroll_y + VGA_HEIGHT < TERMINAL_HEIGHT
                    /\ s.cursor_y >= s.scroll_y + VGA_HEIGHT

Scroll(t, rows) == PutCursor(put_screen([t EXCEPT !.s.scroll_y = @ + rows]))

Directions == {"up", "down", "left", "right"}

terminal_move(t, direction) ==
  IF t.s.input_size < 0 THEN t
  ELSE CASE direction = "up"    -> IF CanScrollUp(t.s) THEN Scroll(t, -1) ELSE t
         [] direction = "down"  -> IF CanScrollDown(t.s) THEN Scroll(t, 1) ELSE t
         [] direction = "left"  -> IF t.s.input_cursor > 0
                                   THEN [move_cursor(t, -1) EXCEPT !.s.input_cursor = @ - 1]
                                   ELSE t
         [] direction = "right" -> IF t.s.input_cursor < t.s.input_size
                                   THEN [move_cursor(t, 1) EXCEPT !.s.input_cursor = @ + 1]
                                   ELSE t

-----------------------------------------------------------------------------
(* Output and screens *)

put_prompt(t) == PutAll(t, PROMPT)

SetCursorVisibility(t, visible) ==
  [t EXCEPT !.crtc = vga_set_cursor_visibility(@, visible)]

terminal_begin_output(t) ==
  LET end == IF t.s.input_size > 0
             THEN move_cursor(t, t.s.input_size - t.s.input_cursor) ELSE t
  IN  SetCursorVisibility([putc(end, Newline) EXCEPT !.s.input_size = -1], FALSE)

terminal_end_output(t, show_prompt) ==
  LET row    == IF t.s.cursor_x # 0 THEN putc(t, Newline) ELSE t
      prompt == IF show_prompt THEN put_prompt(row) ELSE row
  IN  SetCursorVisibility([prompt EXCEPT !.s.input_size = 0, !.s.input_cursor = 0], TRUE)

\* Only the buffer is cleared: what is printed next redraws the VGA.
terminal_clear(t) ==
  [t EXCEPT !.s.data = [p \in Positions |-> BlankCell(t)],
            !.s.cursor_x = 0, !.s.cursor_y = 0, !.s.scroll_y = 0,
            !.s.input_size = 0, !.s.input_cursor = 0]

FirstPrompt(t) == [put_prompt(terminal_clear(t)) EXCEPT !.s.initialized = TRUE]

\* Bug variant: the VGA keeps the previous screen.
SwitchWithoutRedraw(t) == PutCursor(IF t.s.initialized THEN t ELSE FirstPrompt(t))
terminal_switch_screen(t) ==
  PutCursor(put_screen(IF t.s.initialized THEN t ELSE FirstPrompt(t)))

-----------------------------------------------------------------------------
(* The specification: the calls of the keyboard and of the shell *)

\* A screen in zeroed memory: its cells are not read before terminal_clear().
ZeroScreen == [cursor_x |-> 0, cursor_y |-> 0, scroll_y |-> 0,
               input_size |-> 0, input_cursor |-> 0, initialized |-> FALSE,
               data |-> [p \in Positions |-> [character |-> Space, color |-> 0]]]

\* terminal_init(): zeroed memory, then the first screen is set up.
Init ==
  LET zero  == [s |-> ZeroScreen, color |-> 0, crtc |-> CrtcInit,
                vga |-> Window(ZeroScreen)]
      first == SetCursorVisibility(PutCursor(FirstPrompt(zero)), TRUE)
  IN  /\ screens = [i \in ScreenIds |-> IF i = 0 THEN first.s ELSE ZeroScreen]
      /\ terminal_index = 0
      /\ vga = first.vga
      /\ crtc = first.crtc
      /\ phase = "input"
      /\ reading = FALSE
      /\ submitted = << >>

\* The terminal becomes t, on the screen i.
Becomes(i, t) ==
  /\ terminal_index' = i
  /\ screens' = [screens EXCEPT ![i] = t.s]
  /\ vga' = t.vga
  /\ crtc' = t.crtc

Current == Working(terminal_index)

\* The keys that edit the input (keyboard.c 231-275).
Key(t) == /\ phase = "input"
          /\ Becomes(terminal_index, t)
          /\ UNCHANGED <<phase, reading, submitted>>

PutcInput(c)    == Key(terminal_putc_input(Current, c))
DelInput        == Key(terminal_del_input(Current))
DelInputForward == Key(terminal_del_input_forward(Current))
Move(direction) == Key(terminal_move(Current, direction))

\* Ctrl and a digit, except while the read command waits for its line.
\* Bug variant: always.
AlwaysSwitch == TRUE
MaySwitch    == ~reading
SwitchScreen(i) ==
  /\ phase = "input"
  /\ MaySwitch
  /\ Becomes(i, terminal_switch_screen(Working(i)))
  /\ UNCHANGED <<phase, reading, submitted>>

\* Enter: execute() copies the input, shell_execute() begins the output.
Enter ==
  /\ phase = "input"
  /\ Current.s.input_size >= 0
  /\ submitted' = terminal_get_input(Current.s)
  /\ Becomes(terminal_index, terminal_begin_output(Current))
  /\ phase' = "entered"
  /\ UNCHANGED reading

\* The command, or the answer to a read, prints a character.
PutcOutput(c) ==
  /\ phase \in {"entered", "output"}
  /\ Becomes(terminal_index, putc(Current, c))
  /\ phase' = "output"
  /\ UNCHANGED <<reading, submitted>>

\* The clear command, which prints nothing else.
Clear ==
  /\ phase = "entered" /\ ~reading
  /\ Becomes(terminal_index, terminal_clear(Current))
  /\ phase' = "cleared"
  /\ UNCHANGED <<reading, submitted>>

\* The end of a command, or of the answer to a read: a new prompt.
EndOutput ==
  /\ phase \in {"entered", "output", "cleared"}
  /\ reading => phase = "output"
  /\ Becomes(terminal_index, terminal_end_output(Current, TRUE))
  /\ phase' = "input"
  /\ reading' = FALSE
  /\ submitted' = << >>

\* The end of the read command, which prints nothing: no prompt.
EndRead ==
  /\ phase = "entered" /\ ~reading
  /\ Becomes(terminal_index, terminal_end_output(Current, FALSE))
  /\ phase' = "input"
  /\ reading' = TRUE
  /\ submitted' = << >>

Next == \/ \E c \in Chars : PutcInput(c)
        \/ DelInput
        \/ DelInputForward
        \/ \E direction \in Directions : Move(direction)
        \/ \E i \in ScreenIds : SwitchScreen(i)
        \/ Enter
        \/ \E c \in OutputChars \cup {Newline} : PutcOutput(c)
        \/ Clear
        \/ EndOutput
        \/ EndRead

Spec == Init /\ [][Next]_vars

-----------------------------------------------------------------------------
(* Properties *)

TypeOK == /\ screens \in [ScreenIds -> ScreenType]
          /\ terminal_index \in ScreenIds
          /\ vga \in [VisibleCells -> Cells]
          /\ crtc \in CrtcType
          /\ phase \in Phases
          /\ reading \in BOOLEAN
          /\ submitted \in Seq(Characters)

\* A screen whose input the user edits, now or when it is shown again.
Editing(i) == screens[i].initialized /\ ~(phase # "input" /\ i = terminal_index)

\* The input field of every screen is inside its buffer and not above the
\* rows that are shown, so the deletion that draws the row above the cursor
\* never computes a row of the VGA below zero (terminal.c 119-122, 505-534).
InputInView ==
  \A i \in ScreenIds :
    LET s == screens[i] IN
    Editing(i) => /\ s.input_cursor \in 0 .. s.input_size
                  /\ InputStart(s) >= s.scroll_y * TERMINAL_WIDTH
                  /\ InputEnd(s) \in Positions

\* What follows the end of the text is blank, in the color of the screen: an
\* edit or a new row leaves no remains (terminal.c 203-216, 265-276, 346-348).
BlankAfterEnd ==
  \A i \in ScreenIds :
    LET s == screens[i]
        end == IF Editing(i) THEN InputEnd(s) ELSE Position(s)
    IN  s.initialized =>
          \A p \in Positions :
            p >= end => s.data[p] = [character |-> Space, color |-> i]

\* The prompt stays whole just before the input (terminal.h 48-49 "Cannot
\* delete characters beyond the input"), except on the row of a read.
PromptBeforeInput ==
  \A i \in ScreenIds :
    LET s == screens[i] IN
    Editing(i) /\ ~(reading /\ i = terminal_index) =>
      \A j \in 1 .. Len(PROMPT) :
        s.data[InputStart(s) - Len(PROMPT) + j - 1].character = PROMPT[j]

\* When the user can type, the VGA shows the rows of the current screen, and the
\* cursor, which is not hidden, on its place (terminal.h 51-54).  Not so on the
\* empty row of a read, see ScreenAlwaysShown.
Shown == vga = Window(Current.s)
CursorShown ==
  /\ ~CursorOff(crtc)
  /\ CursorPlace(crtc) = Position(Current.s) - Current.s.scroll_y * TERMINAL_WIDTH
ScreenShown ==
  phase = "input" => CursorShown /\ (Shown \/ (reading /\ Current.s.input_size = 0))

\* Editing never changes the text above the input: it may only move up with it
\* when the input needs a new row at the bottom (terminal.c 237-244, 432-570).
HistoryKept ==
  [][phase = "input" /\ phase' = "input" /\ terminal_index' = terminal_index =>
       LET old == Current.s
           new == Current'.s
           up  == InputStart(old) - InputStart(new)
       IN  /\ up >= 0
           /\ \A p \in 0 .. InputStart(new) - 1 : new.data[p] = old.data[p + up]]_vars

\* The cells, the cursor and the scrolling implement a line editor on every
\* screen, and what Enter submits is the line the user sees.
LineOf(i) ==
  LET s == screens[i] IN
  IF (phase # "input" /\ i = terminal_index) \/ s.input_size <= 0
  THEN [text |-> << >>, cursor |-> 0]
  ELSE [text |-> terminal_get_input(s), cursor |-> s.input_cursor]
Editor == INSTANCE LineEditor WITH
            shown <- terminal_index,
            lines <- [i \in ScreenIds |-> LineOf(i)],
            busy  <- phase # "input"
IsALineEditor == Editor!EditorSpec

-----------------------------------------------------------------------------
(* What the documentation says and the code does not do *)

\* README.md 166: put_screen copies the selected buffer to the VGA memory.  An
\* empty row of a read at the bottom of the buffer is not drawn.
ScreenAlwaysShown == phase = "input" => Shown
=============================================================================
