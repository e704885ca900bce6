--------------------------- MODULE ConsoleProofs ----------------------------
(***************************************************************************)
(* Proofs about Console, for any number of screens, any length of the      *)
(* lines, any set of keys and any names of the commands.                   *)
(***************************************************************************)
EXTENDS Console, TLAPS

\* The parts of the type invariant the proofs need.
ConsoleType == /\ shown \in ScreenIds
               /\ row \in [ScreenIds -> Rows]
               /\ read_pending \in BOOLEAN

IInv == ConsoleType /\ PromptUnlessReading /\ LastReturns

LEMMA InitInv == Init => IInv
<1> SUFFICES ASSUME Init PROVE IInv
  OBVIOUS
<1>1. 0 \in ScreenIds
  BY EditorAssumption DEF ScreenIds
<1> QED BY <1>1, ConsoleAssumption
     DEF Init, EditorInit, IInv, ConsoleType, PromptUnlessReading, LastReturns, Rows, Commands

\* A step that leaves what the invariant reads keeps it.
LEMMA FrameInv ==
  ASSUME IInv, UNCHANGED <<shown, row, read_pending, last_command>>
  PROVE  IInv'
BY DEF IInv, ConsoleType, PromptUnlessReading, LastReturns

\* Editing a line moves neither the screen nor the shell.
LEMMA ScancodeInv == ASSUME IInv, Scancode PROVE IInv'
<1> USE DEF Scancode
<1>1. CASE \E k \in Modifiers : Modifier(k)
  BY <1>1, FrameInv DEF Modifier, editorVars, shellVars
<1>2. ASSUME NEW k \in Keys \cup Specials, CtrlKey(k) PROVE IInv'
  <2>1. CASE HasChar(k) /\ SwitchesScreen(k)
    <3> DEFINE i == ScreenOfDigit[CharOf(k)]
    <3>1. i \in ScreenIds /\ ~read_pending /\ shown' = i
      BY <1>2, <2>1 DEF CtrlKey, SwitchesScreen, NamesScreen, Switch
    <3>2. row' = [row EXCEPT ![i] = IF @ = "new" THEN "prompt" ELSE @]
      BY <1>2, <2>1, <3>1 DEF CtrlKey
    <3>3. ~read_pending' /\ last_command' = last_command /\ read_pending' = read_pending
      BY <1>2, <3>1 DEF CtrlKey
    <3> HIDE DEF i
    <3>4. row' \in [ScreenIds -> Rows] /\ \A j \in ScreenIds : row'[j] # "bare"
      BY <3>1, <3>2 DEF IInv, ConsoleType, PromptUnlessReading, Rows
    <3> QED
      BY <3>1, <3>3, <3>4 DEF IInv, ConsoleType, PromptUnlessReading, LastReturns
  <2>2. CASE ~(HasChar(k) /\ SwitchesScreen(k))
    BY <1>2, <2>2, FrameInv DEF CtrlKey, editorVars
  <2> QED BY <2>1, <2>2
<1>3. CASE \E k \in Keys : PrintableKey(k)
  BY <1>3, FrameInv DEF PrintableKey, Type, Edit, editorVars, shellVars
<1>4. CASE \E k \in Keys \cup Specials : EditKey(k)
  <2>1. PICK k \in Keys \cup Specials : EditKey(k)
    BY <1>4
  <2>2. UNCHANGED shown
    BY <2>1 DEF EditKey, Backspace, Delete, Left, Right, Edit, editorVars
  <2> QED BY <2>1, <2>2, FrameInv DEF EditKey, shellVars
<1>5. CASE CapsLock
  BY <1>5, FrameInv DEF CapsLock, editorVars, shellVars
<1>6. CASE Enter
  BY <1>6, FrameInv DEF Enter, Submit, shellVars
<1> QED BY <1>1, <1>2, <1>3, <1>4, <1>5, <1>6

LEMMA ShellInv == ASSUME IInv, Shell PROVE IInv'
<1> USE DEF IInv, ConsoleType
<1>1. ASSUME NEW show \in BOOLEAN, EndOutput(show), read_pending' = ~show
      PROVE  ConsoleType' /\ PromptUnlessReading'
  BY <1>1 DEF EndOutput, Answered, PromptUnlessReading, Rows
<1>2. CASE AnswerRead
  <2>1. ConsoleType' /\ PromptUnlessReading'
    BY <1>1, <1>2 DEF AnswerRead
  <2> QED BY <1>2, <2>1 DEF AnswerRead, LastReturns
<1>3. CASE RunCommand
  <2> DEFINE function == FunctionOf(Names[submitted])
  <2>1. EndOutput(function # "read") /\ read_pending' = (function = "read")
    BY <1>3 DEF RunCommand, ShowPrompt
  <2>2. ConsoleType' /\ PromptUnlessReading'
    BY <1>1, <2>1
  <2>3. function \notin {"halt", "last"} /\ last_command' = Remembered(Names[submitted])
    BY <1>3 DEF RunCommand
  <2>4. LastReturns'
    BY <2>3 DEF LastReturns, Remembered, FunctionOf
  <2> QED BY <2>2, <2>4
<1>4. CASE Halt
  BY <1>4, FrameInv DEF Halt, editorVars
<1>5. CASE UnknownCommand
  <2>1. ~read_pending /\ EndOutput(TRUE) /\ UNCHANGED <<read_pending, last_command>>
    BY <1>5 DEF UnknownCommand
  <2>2. ConsoleType' /\ PromptUnlessReading'
    BY <1>1, <2>1
  <2> QED BY <2>1, <2>2 DEF LastReturns
<1> QED BY <1>2, <1>3, <1>4, <1>5 DEF Shell

\* IInv holds in every reachable state.
THEOREM Invariant == Spec => []IInv
<1>1. ASSUME IInv, Reset PROVE IInv'
  <2>1. 0 \in ScreenIds
    BY EditorAssumption DEF ScreenIds
  <2> QED BY <1>1, <2>1, ConsoleAssumption
       DEF Reset, IInv, ConsoleType, PromptUnlessReading, LastReturns, Rows, Commands
<1>2. ASSUME IInv, StayHalted \/ UNCHANGED vars PROVE IInv'
  BY <1>2, FrameInv DEF StayHalted, vars, editorVars, shellVars
<1>3. IInv /\ [Next]_vars => IInv'
  BY <1>1, <1>2, ScancodeInv, ShellInv DEF Next
<1> QED BY <1>3, InitInv, PTL DEF Spec

\* The user edits after a prompt on every screen but the one where a read
\* waits, which is the one shown (shell.c 165-204, keyboard.c 223).
THEOREM PromptsAndReads == Spec => []PromptUnlessReading
<1>1. IInv => PromptUnlessReading
  BY DEF IInv
<1> QED BY <1>1, Invariant, PTL

\* The command that last runs again is never last itself (shell.c 185-188).
THEOREM LastIsNotRecursive == Spec => []LastReturns
<1>1. IInv => LastReturns
  BY DEF IInv
<1> QED BY <1>1, Invariant, PTL

-----------------------------------------------------------------------------
(* The types *)

\* A line whose cursor is inside it.
LineType == {l \in [text : Seq(Chars), cursor : Nat] :
               Len(l.text) <= INPUT_MAX /\ l.cursor <= Len(l.text)}
LinesType == lines \in [ScreenIds -> LineType]

TInv == TypeOK /\ LinesType

LEMMA LineFacts ==
  ASSUME LinesType, shown \in ScreenIds
  PROVE  /\ text \in Seq(Chars) /\ Len(text) \in Nat /\ Len(text) <= INPUT_MAX
         /\ cursor \in 0 .. Len(text) /\ cursor \in Nat
BY DEF LinesType, LineType, text, cursor

\* The lines as TypeOK has them.
LEMMA LinesInRange ==
  ASSUME LinesType
  PROVE  \A i \in ScreenIds : /\ lines[i].text \in Seq(Chars)
                              /\ Len(lines[i].text) <= INPUT_MAX
                              /\ lines[i].cursor \in 0 .. Len(lines[i].text)
BY DEF LinesType, LineType

\* A key under any locks and shifts writes a character of a line.
LEMMA CharFacts ==
  ASSUME NEW k \in Keys, HasChar(k), current_layout \in Layouts
  PROVE  CharOf(k) \in Chars
BY CharsAssumption DEF HasChar, CharOf

\* What an edit makes of the line.
LEMMA EditType ==
  ASSUME LinesType, shown \in ScreenIds, NEW t \in Seq(Chars), NEW c \in Nat,
         Len(t) <= INPUT_MAX, c <= Len(t), Edit(t, c)
  PROVE  LinesType' /\ UNCHANGED <<shown, busy, submitted>>
BY DEF LinesType, LineType, Edit

\* The characters before one and from another on.
LEMMA PartsOfText ==
  ASSUME NEW s \in Seq(Chars), NEW m \in 0 .. Len(s), NEW n \in 0 .. Len(s)
  PROVE  /\ SubSeq(s, 1, m) \in Seq(Chars) /\ Len(SubSeq(s, 1, m)) = m
         /\ SubSeq(s, n + 1, Len(s)) \in Seq(Chars) /\ Len(SubSeq(s, n + 1, Len(s))) = Len(s) - n
         /\ SubSeq(s, 1, m) \o SubSeq(s, n + 1, Len(s)) \in Seq(Chars)
         /\ Len(SubSeq(s, 1, m) \o SubSeq(s, n + 1, Len(s))) = m + Len(s) - n
<1> DEFINE x == SubSeq(s, 1, m)
           y == SubSeq(s, n + 1, Len(s))
<1>1. Len(s) \in Nat
  OBVIOUS
<1>2. x \in Seq(Chars) /\ Len(x) = m
  <2>1. \A k \in 1 .. m : s[k] \in Chars
    BY <1>1
  <2>2. x = [k \in 1 .. m |-> s[k]]
    BY <1>1
  <2> QED BY <1>1, <2>1, <2>2
<1>3. y \in Seq(Chars) /\ Len(y) = Len(s) - n
  <2>1. \A k \in 1 .. Len(s) - n : s[n + k] \in Chars
    BY <1>1
  <2>2. y = [k \in 1 .. Len(s) - n |-> s[n + k]]
    BY <1>1
  <2> QED BY <1>1, <2>1, <2>2
<1> HIDE DEF x, y
<1>4. x \o y \in Seq(Chars) /\ Len(x \o y) = Len(x) + Len(y)
  BY <1>2, <1>3
<1>5. m + (Len(s) - n) = m + Len(s) - n
  BY <1>1
<1> QED BY <1>2, <1>3, <1>4, <1>5 DEF x, y

LEMMA TypeType ==
  ASSUME LinesType, shown \in ScreenIds, NEW c \in Chars, Type(c)
  PROVE  LinesType' /\ UNCHANGED <<shown, busy, submitted>>
<1> DEFINE before == Before(cursor)
           after  == After(cursor)
           new    == Append(before, c) \o after
<1>1. /\ text \in Seq(Chars) /\ cursor \in 0 .. Len(text) /\ Len(text) \in Nat
      /\ Len(text) < INPUT_MAX /\ INPUT_MAX \in Nat /\ Edit(new, cursor + 1)
  BY LineFacts, EditorAssumption DEF Type
<1>2. /\ before \in Seq(Chars) /\ Len(before) = cursor
      /\ after \in Seq(Chars) /\ Len(after) = Len(text) - cursor
  BY <1>1, PartsOfText DEF Before, After
<1> HIDE DEF before, after
<1>3. new \in Seq(Chars) /\ Len(new) = cursor + 1 + (Len(text) - cursor)
  BY <1>1, <1>2
<1>4. Len(new) <= INPUT_MAX /\ cursor + 1 <= Len(new) /\ cursor + 1 \in Nat
  BY <1>1, <1>3
<1> HIDE DEF new
<1> QED BY <1>1, <1>3, <1>4, EditType

LEMMA KeysType ==
  ASSUME LinesType, shown \in ScreenIds, Backspace \/ Delete \/ Left \/ Right
  PROVE  LinesType' /\ UNCHANGED <<shown, busy, submitted>>
<1>1. /\ text \in Seq(Chars) /\ cursor \in 0 .. Len(text) /\ Len(text) \in Nat
      /\ Len(text) <= INPUT_MAX /\ INPUT_MAX \in Nat
  BY LineFacts, EditorAssumption
<1>2. ASSUME NEW m \in 0 .. Len(text), NEW n \in 0 .. Len(text), m <= n,
             NEW c \in Nat, c <= m, Edit(Before(m) \o After(n), c)
      PROVE  LinesType' /\ UNCHANGED <<shown, busy, submitted>>
  <2>1. /\ Before(m) \o After(n) \in Seq(Chars)
        /\ Len(Before(m) \o After(n)) = m + Len(text) - n
    BY <1>1, PartsOfText DEF Before, After
  <2>2. m + Len(text) - n <= INPUT_MAX /\ c <= m + Len(text) - n
    BY <1>1, <1>2
  <2> QED BY <1>2, <2>1, <2>2, EditType
<1>3. CASE Backspace
  <2>1. cursor - 1 \in 0 .. Len(text) /\ cursor - 1 \in Nat /\ cursor - 1 <= cursor
    BY <1>1, <1>3 DEF Backspace
  <2> QED BY <1>1, <1>2, <1>3, <2>1 DEF Backspace
<1>4. CASE Delete
  <2>1. cursor + 1 \in 0 .. Len(text) /\ cursor <= cursor + 1 /\ cursor \in Nat
    BY <1>1, <1>4 DEF Delete
  <2> QED BY <1>1, <1>2, <1>4, <2>1 DEF Delete
<1>5. CASE Left
  <2>1. cursor - 1 \in Nat /\ cursor - 1 <= Len(text)
    BY <1>1, <1>5 DEF Left
  <2> QED BY <1>1, <1>5, <2>1, EditType DEF Left
<1>6. CASE Right
  <2>1. cursor + 1 \in Nat /\ cursor + 1 <= Len(text)
    BY <1>1, <1>6 DEF Right
  <2> QED BY <1>1, <1>6, <2>1, EditType DEF Right
<1> QED BY <1>3, <1>4, <1>5, <1>6

LEMMA EmptyLineType == EmptyLine \in LineType
BY EditorAssumption DEF EmptyLine, LineType

LEMMA ScancodeType == ASSUME TInv, Scancode PROVE TInv'
<1>1. LinesType /\ shown \in ScreenIds /\ TypeOK
  BY DEF TInv, TypeOK
<1>2. ASSUME LinesType', shown' \in ScreenIds, busy' \in BOOLEAN, submitted' \in Seq(Chars),
             row' \in [ScreenIds -> Rows], UNCHANGED <<keyboardVars, last_command, read_pending, power>>
      PROVE  TInv'
  <2>1. \A i \in ScreenIds : /\ lines'[i].text \in Seq(Chars)
                             /\ Len(lines'[i].text) <= INPUT_MAX
                             /\ lines'[i].cursor \in 0 .. Len(lines'[i].text)
    BY <1>2, LinesInRange DEF LinesType, LineType
  <2> QED BY <1>1, <1>2, <2>1 DEF TInv, TypeOK, keyboardVars
<1>3. ASSUME UNCHANGED <<current_layout, editorVars, shellVars>>,
             is_lock' \in BOOLEAN, is_ctrl' \in BOOLEAN,
             is_left_shift' \in BOOLEAN, is_right_shift' \in BOOLEAN
      PROVE  TInv'
  <2>1. LinesType'
    BY <1>1, <1>3 DEF LinesType, editorVars
  <2> QED BY <1>1, <1>3, <2>1 DEF TInv, TypeOK, editorVars, shellVars
<1>4. ASSUME UNCHANGED <<editorVars, row>> PROVE LinesType' /\ shown' \in ScreenIds
                 /\ busy' \in BOOLEAN /\ submitted' \in Seq(Chars) /\ row' \in [ScreenIds -> Rows]
  BY <1>1, <1>4 DEF editorVars, LinesType, TypeOK
<1>5. CASE \E k \in Modifiers : Modifier(k)
  <2>1. PICK k \in Modifiers : Modifier(k)
    BY <1>5
  <2>2. is_lock \in BOOLEAN /\ is_ctrl \in BOOLEAN /\ is_left_shift \in BOOLEAN /\ is_right_shift \in BOOLEAN
    BY <1>1 DEF TypeOK
  <2>3. is_left_shift' \in BOOLEAN /\ is_right_shift' \in BOOLEAN /\ is_ctrl' \in BOOLEAN /\ is_lock' \in BOOLEAN
    BY <2>1, <2>2 DEF Modifier
  <2> QED BY <1>3, <2>1, <2>3 DEF Modifier
<1>6. CASE CapsLock
  <2>1. is_lock' \in BOOLEAN
    BY <1>6 DEF CapsLock
  <2> QED BY <1>1, <1>3, <1>6, <2>1 DEF CapsLock, TypeOK
<1>7. ASSUME NEW k \in Keys \cup Specials, CtrlKey(k) PROVE TInv'
  <2>1. UNCHANGED <<keyboardVars, last_command, read_pending, power>>
    BY <1>7 DEF CtrlKey
  <2>2. CASE HasChar(k) /\ SwitchesScreen(k)
    <3> DEFINE i == ScreenOfDigit[CharOf(k)]
    <3>1. i \in ScreenIds
      BY <2>2 DEF SwitchesScreen, NamesScreen
    <3>2. Switch(i) /\ row' = [row EXCEPT ![shown'] = IF @ = "new" THEN "prompt" ELSE @]
      BY <1>7, <2>2 DEF CtrlKey
    <3> HIDE DEF i
    <3>3. shown' = i /\ UNCHANGED <<lines, busy, submitted>>
      BY <3>2 DEF Switch
    <3>4. row' \in [ScreenIds -> Rows]
      BY <1>1, <3>1, <3>2, <3>3 DEF TypeOK, Rows
    <3>5. LinesType' /\ busy' \in BOOLEAN /\ submitted' \in Seq(Chars)
      BY <1>1, <3>3 DEF LinesType, TypeOK
    <3> QED BY <1>2, <2>1, <3>1, <3>3, <3>4, <3>5
  <2>3. CASE ~(HasChar(k) /\ SwitchesScreen(k))
    BY <1>2, <1>4, <1>7, <2>1, <2>3 DEF CtrlKey
  <2> QED BY <2>2, <2>3
<1>8. ASSUME LinesType', UNCHANGED <<shown, busy, submitted, keyboardVars, shellVars>>
      PROVE  TInv'
  BY <1>1, <1>2, <1>8 DEF TypeOK, shellVars
<1>9. ASSUME UNCHANGED editorVars PROVE LinesType' /\ UNCHANGED <<shown, busy, submitted>>
  BY <1>1, <1>9 DEF editorVars, LinesType
<1>10. CASE \E k \in Keys : PrintableKey(k)
  <2>1. PICK k \in Keys : PrintableKey(k)
    BY <1>10
  <2>2. CharOf(k) \in Chars
    BY <1>1, <2>1, CharFacts DEF PrintableKey, TypeOK
  <2>3. Type(CharOf(k)) \/ UNCHANGED editorVars
    BY <2>1 DEF PrintableKey
  <2>4. LinesType' /\ UNCHANGED <<shown, busy, submitted>>
    BY <1>1, <1>9, <2>2, <2>3, TypeType
  <2> QED BY <1>8, <2>1, <2>4 DEF PrintableKey
<1>11. CASE \E k \in Keys \cup Specials : EditKey(k)
  <2>1. PICK k \in Keys \cup Specials : EditKey(k)
    BY <1>11
  <2>2. (Backspace \/ Delete \/ Left \/ Right) \/ UNCHANGED editorVars
    BY <2>1 DEF EditKey
  <2>3. LinesType' /\ UNCHANGED <<shown, busy, submitted>>
    BY <1>1, <1>9, <2>2, KeysType
  <2> QED BY <1>8, <2>1, <2>3 DEF EditKey
<1>12. CASE Enter
  <2>1. /\ busy' = TRUE /\ submitted' = text /\ lines' = [lines EXCEPT ![shown] = EmptyLine]
        /\ UNCHANGED <<shown, keyboardVars, shellVars>>
    BY <1>12 DEF Enter, Submit
  <2>2. LinesType'
    BY <1>1, <2>1, EmptyLineType DEF LinesType
  <2>3. submitted' \in Seq(Chars)
    BY <1>1, <2>1, LineFacts
  <2> QED BY <1>1, <1>2, <2>1, <2>2, <2>3 DEF TypeOK, shellVars
<1> QED BY <1>5, <1>6, <1>7, <1>10, <1>11, <1>12 DEF Scancode

LEMMA ShellType == ASSUME TInv, Shell PROVE TInv'
<1>1. LinesType /\ shown \in ScreenIds /\ TypeOK
  BY DEF TInv, TypeOK
<1>2. ASSUME LinesType', shown' = shown, busy' \in BOOLEAN, submitted' \in Seq(Chars),
             row' \in [ScreenIds -> Rows], UNCHANGED <<is_lock, is_ctrl, is_left_shift, is_right_shift>>,
             current_layout' \in Layouts, last_command' \in Commands \cup {NoCommand},
             read_pending' \in BOOLEAN, power' \in {"on", "resetting", "halted"}
      PROVE  TInv'
  <2>1. \A i \in ScreenIds : /\ lines'[i].text \in Seq(Chars)
                             /\ Len(lines'[i].text) <= INPUT_MAX
                             /\ lines'[i].cursor \in 0 .. Len(lines'[i].text)
    BY <1>2, LinesInRange DEF LinesType, LineType
  <2> QED BY <1>1, <1>2, <2>1 DEF TInv, TypeOK
<1>3. ASSUME NEW show, EndOutput(show)
      PROVE  LinesType' /\ shown' = shown /\ busy' \in BOOLEAN /\ submitted' \in Seq(Chars)
             /\ row' \in [ScreenIds -> Rows]
  <2>1. busy' = FALSE /\ submitted' = << >> /\ UNCHANGED <<shown, lines>>
    BY <1>3 DEF EndOutput, Answered
  <2>2. row' \in [ScreenIds -> Rows]
    BY <1>1, <1>3 DEF EndOutput, TypeOK, Rows
  <2>3. << >> \in Seq(Chars)
    OBVIOUS
  <2>4. LinesType'
    BY <1>1, <2>1 DEF LinesType
  <2> QED BY <2>1, <2>2, <2>3, <2>4
<1>4. CASE AnswerRead
  <2>1. EndOutput(TRUE) /\ read_pending' = FALSE /\ UNCHANGED <<keyboardVars, last_command, power>>
    BY <1>4 DEF AnswerRead
  <2> QED BY <1>1, <1>2, <1>3, <2>1 DEF TypeOK, keyboardVars
<1>5. CASE RunCommand
  <2> DEFINE command  == Names[submitted]
             function == FunctionOf(command)
  <2>1. /\ submitted \in DOMAIN Names
        /\ read_pending' = (function = "read")
        /\ current_layout' = IF function \in Layouts THEN function ELSE current_layout
        /\ power' = IF function = "reboot" THEN "resetting" ELSE power
        /\ last_command' = Remembered(command)
        /\ EndOutput(ShowPrompt(command))
        /\ UNCHANGED <<is_lock, is_ctrl, is_left_shift, is_right_shift>>
    BY <1>5 DEF RunCommand
  <2>2. command \in Commands
    BY <2>1, ConsoleAssumption
  <2> HIDE DEF command, function
  <2>3. last_command' \in Commands \cup {NoCommand}
    BY <1>1, <2>1, <2>2 DEF Remembered, TypeOK
  <2>4. read_pending' \in BOOLEAN /\ current_layout' \in Layouts
    BY <1>1, <2>1 DEF TypeOK
  <2>5. power' \in {"on", "resetting", "halted"}
    BY <1>1, <2>1 DEF TypeOK
  <2> QED BY <1>2, <1>3, <2>1, <2>3, <2>4, <2>5
<1>6. CASE Halt
  <2>1. power' = "halted" /\ UNCHANGED <<editorVars, keyboardVars, last_command, read_pending, row>>
    BY <1>6 DEF Halt
  <2>2. LinesType'
    BY <1>1, <2>1 DEF editorVars, LinesType
  <2> QED BY <1>1, <1>2, <2>1, <2>2 DEF TypeOK, editorVars, keyboardVars
<1>7. CASE UnknownCommand
  <2>1. EndOutput(TRUE) /\ UNCHANGED <<keyboardVars, last_command, read_pending, power>>
    BY <1>7 DEF UnknownCommand
  <2> QED BY <1>1, <1>2, <1>3, <2>1 DEF TypeOK, keyboardVars
<1> QED BY <1>4, <1>5, <1>6, <1>7 DEF Shell

LEMMA StartType ==
  ASSUME shown = 0, lines = [i \in ScreenIds |-> EmptyLine], busy = FALSE, submitted = << >>,
         is_lock = FALSE, is_ctrl = FALSE, is_left_shift = FALSE, is_right_shift = FALSE,
         current_layout = "qwerty", last_command = NoCommand, read_pending = FALSE,
         row = [i \in ScreenIds |-> IF i = 0 THEN "prompt" ELSE "new"], power = "on"
  PROVE  TInv
<1>1. 0 \in ScreenIds
  BY EditorAssumption DEF ScreenIds
<1>2. LinesType
  BY EmptyLineType DEF LinesType
<1>3. TypeOK
  BY <1>1, <1>2, LinesInRange DEF TypeOK, Layouts, Rows
<1> QED BY <1>2, <1>3 DEF TInv

\* Every line keeps its length and its cursor inside it, and what is submitted,
\* the keyboard's state and the shell's are what their types allow, for any
\* number of screens and any keys (keyboard.c 139-281, shell.c, terminal.h 48-70).
THEOREM TypeCorrect == Spec => []TypeOK
<1>1. Init => TInv
  BY StartType DEF Init, EditorInit
<1>2. ASSUME TInv, Reset PROVE TInv'
  <2>1. (shown = 0 /\ lines = [i \in ScreenIds |-> EmptyLine] /\ busy = FALSE /\ submitted = << >>
         /\ is_lock = FALSE /\ is_ctrl = FALSE /\ is_left_shift = FALSE /\ is_right_shift = FALSE
         /\ current_layout = "qwerty" /\ last_command = NoCommand /\ read_pending = FALSE
         /\ row = [i \in ScreenIds |-> IF i = 0 THEN "prompt" ELSE "new"] /\ power = "on")'
    BY <1>2 DEF Reset
  <2> QED BY <2>1, StartType, PTL
<1>3. ASSUME TInv, UNCHANGED vars PROVE TInv'
  BY <1>3 DEF TInv, TypeOK, LinesType, vars, editorVars, keyboardVars, shellVars
<1>4. TInv /\ [Next]_vars => TInv'
  BY <1>2, <1>3, ScancodeType, ShellType DEF Next, StayHalted
<1>5. TInv => TypeOK
  BY DEF TInv
<1> QED BY <1>1, <1>4, <1>5, PTL DEF Spec

-----------------------------------------------------------------------------
(* The editor *)

LEMMA KeyEdits == ASSUME TypeOK, Scancode PROVE [EditorNext]_editorVars
<1>1. CASE (\E k \in Modifiers : Modifier(k)) \/ CapsLock
  BY <1>1 DEF Modifier, CapsLock
<1>2. CASE \E k \in Keys \cup Specials : CtrlKey(k)
  <2>1. PICK k \in Keys \cup Specials : CtrlKey(k)
    BY <1>2
  <2>2. CASE HasChar(k) /\ SwitchesScreen(k)
    <3>1. ScreenOfDigit[CharOf(k)] \in ScreenIds
      BY <2>2 DEF SwitchesScreen, NamesScreen
    <3>2. Switch(ScreenOfDigit[CharOf(k)])
      BY <2>1, <2>2 DEF CtrlKey
    <3> QED BY <3>1, <3>2 DEF EditorNext
  <2>3. CASE ~(HasChar(k) /\ SwitchesScreen(k))
    BY <2>1, <2>3 DEF CtrlKey
  <2> QED BY <2>2, <2>3
<1>3. CASE \E k \in Keys : PrintableKey(k)
  <2>1. PICK k \in Keys : PrintableKey(k)
    BY <1>3
  <2>2. CharOf(k) \in Chars
    BY <2>1, CharFacts DEF PrintableKey, TypeOK
  <2>3. Type(CharOf(k)) \/ UNCHANGED editorVars
    BY <2>1 DEF PrintableKey
  <2> QED BY <2>2, <2>3 DEF EditorNext
<1>4. CASE \E k \in Keys \cup Specials : EditKey(k)
  <2>1. Backspace \/ Delete \/ Left \/ Right \/ UNCHANGED editorVars
    BY <1>4 DEF EditKey
  <2> QED BY <2>1 DEF EditorNext
<1>5. CASE Enter
  BY <1>5 DEF Enter, EditorNext
<1> QED BY <1>1, <1>2, <1>3, <1>4, <1>5 DEF Scancode

LEMMA ShellEdits == ASSUME Shell PROVE [EditorNext]_editorVars
<1>1. Answered \/ UNCHANGED editorVars
  BY DEF Shell, AnswerRead, RunCommand, Halt, UnknownCommand, EndOutput
<1> QED BY <1>1 DEF EditorNext

\* What the keyboard and the shell ask of the terminal is what LineEditor, and so
\* Terminal, allows: a key writes a character of a line, switches to a screen that
\* exists or edits within the line, Enter submits while no line is executed, and
\* the shell answers once for each line, until a reboot starts over (keyboard.c
\* 139-281, shell.c 165-204, terminal.h 48-70).
THEOREM ConsoleEditsLines == Spec => EditorInit /\ [][EditorNext \/ Reset]_editorVars
<1>1. ASSUME TypeOK, [Next]_vars PROVE [EditorNext \/ Reset]_editorVars
  BY <1>1, KeyEdits, ShellEdits DEF Next, StayHalted, vars
<1>2. Init => EditorInit
  BY DEF Init
<1> QED BY <1>1, <1>2, TypeCorrect, PTL DEF Spec
=============================================================================
