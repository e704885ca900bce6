------------------------------ MODULE Console -------------------------------
(***************************************************************************)
(* The keyboard decoder (keyboard.c 139-281) and the shell (shell.c) on    *)
(* top of the line editors of the screens: which scancodes edit, switch    *)
(* screen or submit, and what the commands do to the keyboard, the shell   *)
(* and the machine.  All of it runs in the main loop, one scancode at a    *)
(* time.                                                                   *)
(*                                                                         *)
(* The scancodes are those of a few keys that stand for the others: keys   *)
(* of digits, of a letter, of a sign that a layout has not.                *)
(***************************************************************************)
EXTENDS LineEditor, TLC

CONSTANTS Keys,       \* the scancodes of the keys that write
          Names,      \* the command each line names
          NoCommand

Commands == {"help", "last", "reboot", "halt", "read", "azerty", "qwerty"}
Layouts  == {"qwerty", "azerty"}

ASSUME ConsoleAssumption ==
  /\ DOMAIN Names \subseteq Seq(Chars) \ {<< >>}
  /\ \A line \in DOMAIN Names : Names[line] \in Commands
  /\ NoCommand \notin Commands

VARIABLES is_lock, is_ctrl, is_left_shift, is_right_shift, current_layout,
          last_command, read_pending,   \* the fields of struct shell
          row,                          \* the row of each screen's input, see Rows
          power                         \* "on", "resetting" or "halted"

\* A screen not shown yet, an input after a prompt, an input without one.
Rows == {"new", "prompt", "bare"}

keyboardVars == <<is_lock, is_ctrl, is_left_shift, is_right_shift, current_layout>>
shellVars    == <<last_command, read_pending, row, power>>
vars         == <<editorVars, keyboardVars, shellVars>>

-----------------------------------------------------------------------------
(* The keyboard maps *)

KEY_CAPS == 58
KEY_BACKSPACE == 14
KEY_ENTER == 28
KEY_DELETE == 83
KEY_LEFT == 75
KEY_RIGHT == 77
KEY_UP == 72
KEY_DOWN == 80
KEY_CTRL_PRESSED == 29
KEY_CTRL_RELEASED == 157
KEY_LEFT_SHIFT_PRESS == 42
KEY_LEFT_SHIFT_RELEASE == 170
KEY_RIGHT_SHIFT_PRESS == 54
KEY_RIGHT_SHIFT_RELEASE == 182

Modifiers == {KEY_CTRL_PRESSED, KEY_CTRL_RELEASED,
              KEY_LEFT_SHIFT_PRESS, KEY_LEFT_SHIFT_RELEASE,
              KEY_RIGHT_SHIFT_PRESS, KEY_RIGHT_SHIFT_RELEASE}
Specials  == {KEY_CAPS, KEY_BACKSPACE, KEY_ENTER, KEY_DELETE,
              KEY_LEFT, KEY_RIGHT, KEY_UP, KEY_DOWN}

\* A scancode that a map leaves out gives no character.
maps == [qwerty |-> 2 :> "1" @@ 3 :> "2" @@ 11 :> "0" @@ 16 :> "q" @@ 39 :> ";",
         azerty |-> 2 :> "&" @@ 3 :> "e'" @@ 11 :> "a'" @@ 16 :> "a" @@ 39 :> "m" @@ 86 :> "<"]
upper_maps == [qwerty |-> 2 :> "!" @@ 3 :> "@" @@ 11 :> ")" @@ 39 :> ":",
               azerty |-> 2 :> "1" @@ 3 :> "2" @@ 11 :> "0" @@ 86 :> ">"]
toupper == "q" :> "Q" @@ "a" :> "A" @@ "m" :> "M"

\* The screens of the digits in the order of the keys: '1' is the first and '0'
\* the tenth.
ScreenOfDigit == "1" :> 0 @@ "2" :> 1 @@ "0" :> 9

\* The lines are made of what the keys write.
ASSUME CharsAssumption ==
  \A layout \in Layouts : \A k \in Keys :
    /\ k \in DOMAIN maps[layout] =>
         /\ maps[layout][k] \in Chars
         /\ maps[layout][k] \in DOMAIN toupper => toupper[maps[layout][k]] \in Chars
    /\ k \in DOMAIN upper_maps[layout] => upper_maps[layout][k] \in Chars

\* Bug variant: Shift does nothing under Caps Lock.
LockOrShift == is_lock \/ is_left_shift \/ is_right_shift
IsShifted   == is_lock # (is_left_shift \/ is_right_shift)

\* The character of a key under the locks and shifts, if it has one.
HasChar(scancode) ==
  \/ scancode \in DOMAIN maps[current_layout]
  \/ IsShifted /\ scancode \in DOMAIN upper_maps[current_layout]
CharOf(scancode) ==
  LET plain == maps[current_layout][scancode] IN
  IF ~IsShifted THEN plain
  ELSE IF scancode \in DOMAIN upper_maps[current_layout]
       THEN upper_maps[current_layout][scancode]
  ELSE IF plain \in DOMAIN toupper THEN toupper[plain] ELSE plain

-----------------------------------------------------------------------------
(* handle_scancode() *)

Awake == power # "halted" /\ ~busy

Modifier(scancode) ==
  /\ Awake
  /\ is_left_shift'  = IF scancode = KEY_LEFT_SHIFT_PRESS THEN TRUE
                       ELSE scancode # KEY_LEFT_SHIFT_RELEASE /\ is_left_shift
  /\ is_right_shift' = IF scancode = KEY_RIGHT_SHIFT_PRESS THEN TRUE
                       ELSE scancode # KEY_RIGHT_SHIFT_RELEASE /\ is_right_shift
  /\ is_ctrl' = IF scancode = KEY_CTRL_PRESSED THEN TRUE
                ELSE scancode # KEY_CTRL_RELEASED /\ is_ctrl
  /\ UNCHANGED <<is_lock, current_layout, editorVars, shellVars>>

\* The characters that switch to a screen: the digits of the existing ones.  Bug
\* variant: any digit.
AnyDigit(c)    == c \in DOMAIN ScreenOfDigit
NamesScreen(c) == c \in DOMAIN ScreenOfDigit /\ ScreenOfDigit[c] \in ScreenIds

\* With Ctrl every other key only may switch the screen.  Bug variant: also
\* while a read waits for its line.
AlwaysSwitch(scancode)   == NamesScreen(CharOf(scancode))
SwitchesScreen(scancode) == ~read_pending /\ NamesScreen(CharOf(scancode))

\* A screen gets its first prompt when it is first shown.
CtrlKey(scancode) ==
  /\ Awake /\ is_ctrl
  /\ IF HasChar(scancode) /\ SwitchesScreen(scancode)
     THEN /\ Switch(ScreenOfDigit[CharOf(scancode)])
          /\ row' = [row EXCEPT ![shown'] = IF @ = "new" THEN "prompt" ELSE @]
     ELSE UNCHANGED <<editorVars, row>>
  /\ UNCHANGED <<keyboardVars, last_command, read_pending, power>>

\* A key that writes; a full line ignores it.
PrintableKey(scancode) ==
  /\ Awake /\ ~is_ctrl
  /\ HasChar(scancode)
  /\ IF Len(text) < INPUT_MAX THEN Type(CharOf(scancode)) ELSE UNCHANGED editorVars
  /\ UNCHANGED <<keyboardVars, shellVars>>

\* The keys without a character, on the line; Up and Down only scroll.
EditKey(scancode) ==
  /\ Awake /\ ~is_ctrl
  /\ scancode \notin {KEY_CAPS, KEY_ENTER} /\ ~HasChar(scancode)
  /\ CASE scancode = KEY_BACKSPACE /\ cursor > 0      -> Backspace
       [] scancode = KEY_DELETE /\ cursor < Len(text) -> Delete
       [] scancode = KEY_LEFT /\ cursor > 0           -> Left
       [] scancode = KEY_RIGHT /\ cursor < Len(text)  -> Right
       [] OTHER -> UNCHANGED editorVars
  /\ UNCHANGED <<keyboardVars, shellVars>>

CapsLock ==
  /\ Awake /\ ~is_ctrl
  /\ is_lock' = ~is_lock
  /\ UNCHANGED <<is_ctrl, is_left_shift, is_right_shift, current_layout,
                 editorVars, shellVars>>

\* execute(): the shell gets the line.
Enter ==
  /\ Awake /\ ~is_ctrl
  /\ Submit
  /\ UNCHANGED <<keyboardVars, shellVars>>

-----------------------------------------------------------------------------
(* shell_execute() *)

\* What the terminal does when the shell is done: a prompt or none.
EndOutput(show_prompt) ==
  /\ Answered
  /\ row' = [row EXCEPT ![shown] = IF show_prompt THEN "prompt" ELSE "bare"]

\* The line a read waits for is printed, whatever it is.
AnswerRead ==
  /\ busy /\ power # "halted"
  /\ read_pending
  /\ EndOutput(TRUE)
  /\ read_pending' = FALSE
  /\ UNCHANGED <<keyboardVars, last_command, power>>

\* The function a command runs: last runs the one of the last command.
FunctionOf(command) == IF command = "last" THEN last_command ELSE command

\* Bug variant: last also becomes the last command, and calls itself.
AnyRemembered(command) == command
Remembered(command)    == IF command = "last" THEN last_command ELSE command

\* A command whose function returns: last() would call itself without end if
\* it were the last command.
ShowPrompt(command) == FunctionOf(command) # "read"
RunCommand ==
  /\ busy /\ power # "halted"
  /\ ~read_pending
  /\ submitted \in DOMAIN Names
  /\ LET command  == Names[submitted]
         function == FunctionOf(command)
     IN  /\ function \notin {"halt", "last"}
         /\ read_pending' = (function = "read")
         /\ current_layout' = IF function \in Layouts THEN function ELSE current_layout
         /\ power' = IF function = "reboot" THEN "resetting" ELSE power
         /\ last_command' = Remembered(command)
         /\ EndOutput(ShowPrompt(command))
  /\ UNCHANGED <<is_lock, is_ctrl, is_left_shift, is_right_shift>>

\* The halt command does not return.
Halt ==
  /\ busy /\ power # "halted"
  /\ ~read_pending
  /\ submitted \in DOMAIN Names
  /\ FunctionOf(Names[submitted]) = "halt"
  /\ power' = "halted"
  /\ UNCHANGED <<editorVars, keyboardVars, last_command, read_pending, row>>

\* An empty line or an unknown command.
UnknownCommand ==
  /\ busy /\ power # "halted"
  /\ ~read_pending
  /\ submitted \notin DOMAIN Names
  /\ EndOutput(TRUE)
  /\ UNCHANGED <<keyboardVars, last_command, read_pending, power>>

-----------------------------------------------------------------------------
(* The specification *)

Init == /\ EditorInit
        /\ is_lock = FALSE /\ is_ctrl = FALSE
        /\ is_left_shift = FALSE /\ is_right_shift = FALSE
        /\ current_layout = "qwerty"
        /\ last_command = NoCommand
        /\ read_pending = FALSE
        /\ row = [i \in ScreenIds |-> IF i = 0 THEN "prompt" ELSE "new"]
        /\ power = "on"

\* The PS/2 controller resets the machine some time after the reboot command.
Reset ==
  /\ power = "resetting"
  /\ shown' = 0 /\ lines' = [i \in ScreenIds |-> EmptyLine]
  /\ busy' = FALSE /\ submitted' = << >>
  /\ is_lock' = FALSE /\ is_ctrl' = FALSE
  /\ is_left_shift' = FALSE /\ is_right_shift' = FALSE
  /\ current_layout' = "qwerty"
  /\ last_command' = NoCommand
  /\ read_pending' = FALSE
  /\ row' = [i \in ScreenIds |-> IF i = 0 THEN "prompt" ELSE "new"]
  /\ power' = "on"

StayHalted == power = "halted" /\ UNCHANGED vars

Scancode == \/ \E k \in Modifiers : Modifier(k)
            \/ \E k \in Keys \cup Specials : CtrlKey(k)
            \/ \E k \in Keys : PrintableKey(k)
            \/ \E k \in Keys \cup Specials : EditKey(k)
            \/ CapsLock
            \/ Enter

Shell == AnswerRead \/ RunCommand \/ Halt \/ UnknownCommand

Next == Scancode \/ Shell \/ Reset \/ StayHalted

Spec == Init /\ [][Next]_vars

-----------------------------------------------------------------------------
(* Properties *)

TypeOK ==
  /\ shown \in ScreenIds
  /\ \A i \in ScreenIds : /\ lines[i].text \in Seq(Chars)
                          /\ Len(lines[i].text) <= INPUT_MAX
                          /\ lines[i].cursor \in 0 .. Len(lines[i].text)
  /\ busy \in BOOLEAN
  /\ submitted \in Seq(Chars)
  /\ is_lock \in BOOLEAN /\ is_ctrl \in BOOLEAN
  /\ is_left_shift \in BOOLEAN /\ is_right_shift \in BOOLEAN /\ read_pending \in BOOLEAN
  /\ current_layout \in Layouts
  /\ last_command \in Commands \cup {NoCommand}
  /\ row \in [ScreenIds -> Rows]
  /\ power \in {"on", "resetting", "halted"}

\* The user edits after a prompt on every screen but the one where a read waits
\* for its line, and it is the screen that is shown (shell.c 165-204, keyboard.c
\* 223, terminal.h 38-39 "The prompt is not printed if show_prompt is false").
PromptUnlessReading ==
  \A i \in ScreenIds : row[i] = "bare" <=> read_pending /\ i = shown

\* The command that last runs again is one that returned, and not last itself,
\* which would call itself until the stack is full (shell.c 53-63, 185-188).
LastReturns == last_command \notin {"last", "halt"}

\* Only Ctrl and a digit change the screen that is shown, between two lines and
\* never under a read.  The digit is the character of the key: the digits of a
\* Qwerty keyboard need Caps Lock and Shift together or neither, those of an
\* Azerty keyboard one of the two (keyboard.c 204-226, README.md 95).
ScreenByDigit ==
  [][shown' # shown =>
       \/ power = "resetting" /\ power' = "on"
       \/ /\ is_ctrl /\ ~busy /\ ~read_pending
          /\ (is_lock # (is_left_shift \/ is_right_shift)) = (current_layout = "azerty")]_vars
=============================================================================
