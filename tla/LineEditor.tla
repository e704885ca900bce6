----------------------------- MODULE LineEditor -----------------------------
(***************************************************************************)
(* What the terminal promises to the keyboard and to the shell             *)
(* (terminal.h 48-70): every screen has an input line of at most          *)
(* INPUT_MAX characters with a cursor inside it.  Keys edit the line of    *)
(* the screen that is shown; Enter submits it, and the shell gives the     *)
(* screen an empty line back when it has printed its answer.               *)
(*                                                                         *)
(* No cell, wrapping row, scrolling or VGA memory here.                    *)
(***************************************************************************)
EXTENDS Naturals, Sequences

CONSTANTS SCREEN_COUNT,  \* number of screens
          INPUT_MAX,     \* length of the longest line
          Chars          \* the characters keys write

ASSUME EditorAssumption == SCREEN_COUNT \in Nat \ {0} /\ INPUT_MAX \in Nat

VARIABLES shown,      \* index of the screen that is shown
          lines,      \* the input line of each screen
          busy,       \* the shell has the line and prints its answer
          submitted   \* the line the shell executes

editorVars == <<shown, lines, busy, submitted>>

ScreenIds == 0 .. SCREEN_COUNT - 1
EmptyLine == [text |-> << >>, cursor |-> 0]

EditorInit == /\ shown = 0
              /\ lines = [i \in ScreenIds |-> EmptyLine]
              /\ busy = FALSE
              /\ submitted = << >>

text   == lines[shown].text
cursor == lines[shown].cursor

Before(n) == SubSeq(text, 1, n)
After(n)  == SubSeq(text, n + 1, Len(text))

Edit(newText, newCursor) ==
  /\ ~busy
  /\ lines' = [lines EXCEPT ![shown] = [text |-> newText, cursor |-> newCursor]]
  /\ UNCHANGED <<shown, busy, submitted>>

\* A character goes at the cursor, if the line is not full.
Type(c) == /\ Len(text) < INPUT_MAX
           /\ Edit(Append(Before(cursor), c) \o After(cursor), cursor + 1)

\* Backspace removes the character before the cursor.
Backspace == /\ cursor > 0
             /\ Edit(Before(cursor - 1) \o After(cursor), cursor - 1)

\* Delete removes the one after it.
Delete == /\ cursor < Len(text)
          /\ Edit(Before(cursor) \o After(cursor + 1), cursor)

Left  == cursor > 0 /\ Edit(text, cursor - 1)
Right == cursor < Len(text) /\ Edit(text, cursor + 1)

\* Enter gives the line to the shell.
Submit == /\ ~busy
          /\ busy' = TRUE
          /\ submitted' = text
          /\ lines' = [lines EXCEPT ![shown] = EmptyLine]
          /\ UNCHANGED shown

\* The shell has answered: an empty line is ready.
Answered == /\ busy
            /\ busy' = FALSE
            /\ submitted' = << >>
            /\ UNCHANGED <<shown, lines>>

\* Another screen is shown, with its line as it was left.
Switch(i) == /\ ~busy
             /\ shown' = i
             /\ UNCHANGED <<lines, busy, submitted>>

EditorNext == \/ \E c \in Chars : Type(c)
              \/ Backspace \/ Delete \/ Left \/ Right
              \/ Submit \/ Answered
              \/ \E i \in ScreenIds : Switch(i)

EditorSpec == EditorInit /\ [][EditorNext]_editorVars
=============================================================================
