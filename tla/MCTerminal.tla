---------------------------- MODULE MCTerminal ------------------------------
(***************************************************************************)
(* Instances of Terminal for TLC.                                          *)
(***************************************************************************)
EXTENDS Terminal

CONSTANTS a, b, out, dollar   \* two keys, a character of a command, the prompt

MCChars == {a, b}
MCOneChar == {a}
MCOutputChars == {out}
MCPrompt == << dollar >>

\* A bound: one screen at a time is beyond its first row and first character.
OneScreenUsed ==
  \E i \in ScreenIds : \A j \in ScreenIds \ {i} :
    screens[j].cursor_y = 0 /\ screens[j].input_size <= 1
=============================================================================
