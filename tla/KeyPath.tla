------------------------------ MODULE KeyPath -------------------------------
(***************************************************************************)
(* The Ctrl keys from the fingers of the user to is_ctrl: the keyboard     *)
(* sends a scancode when a key goes down and another one when it goes up,  *)
(* the interrupt handlers and the ring of KeyBuffer bring them to the main *)
(* loop or drop them, and handle_scancode() keeps one flag (keyboard.c     *)
(* 184-190).  The same holds of each of the two Shift keys, with the flag  *)
(* it has for itself.  The two Ctrl keys send the same scancodes, after a  *)
(* prefix that handle_scancode() ignores.                                  *)
(***************************************************************************)
EXTENDS KeyBuffer

CONSTANTS CtrlKeys,           \* the Ctrl keys of the keyboard
          KEY_CTRL_PRESSED, KEY_CTRL_RELEASED

CtrlScancodes == {KEY_CTRL_PRESSED, KEY_CTRL_RELEASED}

ASSUME CtrlAssumption ==
  /\ CtrlScancodes \subseteq Scancodes \ {WHEEL_UP, WHEEL_DOWN}
  /\ KEY_CTRL_PRESSED # KEY_CTRL_RELEASED
  /\ CtrlKeys # {}

VARIABLES is_ctrl,   \* the flag of the decoder
          held,      \* the Ctrl keys that are down
          made_up,   \* the running handler read a scancode nobody sent
          misled     \* the last news of a Ctrl key was dropped, or made up

keyVars  == <<held, made_up, misled>>
pathVars == <<vars, is_ctrl, keyVars>>

PathInit == /\ Init
            /\ output_byte.key \notin CtrlScancodes
            /\ is_ctrl = FALSE /\ held = {}
            /\ made_up = FALSE /\ misled = FALSE

\* A key goes down or up, or the wheel moves.
KeyMoves ==
  /\ DeviceByte
  /\ \/ output_byte'.key \notin CtrlScancodes /\ UNCHANGED held
     \/ \E key \in CtrlKeys \ held :
          output_byte'.key = KEY_CTRL_PRESSED /\ held' = held \cup {key}
     \/ \E key \in held :
          output_byte'.key = KEY_CTRL_RELEASED /\ held' = held \ {key}
  /\ UNCHANGED <<is_ctrl, made_up, misled>>

\* An old byte read on an IRQ1 that has none may be the scancode of a Ctrl key.
PathKeyboardRead ==
  /\ KeyboardRead
  /\ made_up' = (output_byte.irq # KEYBOARD)
  /\ UNCHANGED <<is_ctrl, held, misled>>

\* The scancode goes to the ring or is dropped.
PathStore ==
  /\ Store
  /\ misled' = IF Top.key \notin CtrlScancodes \/ (RingFull /\ made_up)
               THEN misled ELSE RingFull \/ made_up
  /\ made_up' = FALSE
  /\ UNCHANGED <<is_ctrl, held>>

\* handle_scancode().  Bug variant: the flag is a toggle.
Toggled(flag, key)   == flag # (key \in CtrlScancodes)
CtrlAfter(flag, key) == IF key = KEY_CTRL_PRESSED THEN TRUE
                        ELSE key # KEY_CTRL_RELEASED /\ flag

PathHandle ==
  /\ Handle
  /\ is_ctrl' = CtrlAfter(is_ctrl, scancode)
  /\ UNCHANGED keyVars

Elsewhere ==
  /\ \/ \E irq \in Irqs : InterruptEntry(irq)
     \/ MouseRead \/ Publish \/ Eoi \/ InterruptReturn
     \/ While \/ Fetch \/ Advance \/ Halt
     \/ Cli \/ Test \/ StiHlt \/ Hlt \/ Sti
     \/ StayHalted
  /\ UNCHANGED <<is_ctrl, keyVars>>

PathNext == KeyMoves \/ PathKeyboardRead \/ PathStore \/ PathHandle \/ Elsewhere

PathSpec == PathInit /\ [][PathNext]_pathVars

PathFairSpec == PathSpec /\ Fairness

-----------------------------------------------------------------------------
(* Properties *)

\* No news of a key is on its way.
Drained == /\ output_byte = NoByte /\ stack = << >>
           /\ ~HasInput /\ pc \notin {"handle", "halted"}

\* Once the main loop has caught up, the flag is right unless the last news of a
\* Ctrl key was lost on a full ring or made up: no Ctrl without a key held, and
\* Ctrl while all of them are.  A dropped scancode is made good by the next one.
\* With two keys the flag forgets the one still held when the other goes up
\* (keyboard.c 184-190, 297-303).
CtrlFollowsKeys ==
  Drained /\ ~misled =>
    /\ is_ctrl => held # {}
    /\ held = CtrlKeys => is_ctrl
=============================================================================
