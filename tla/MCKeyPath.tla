----------------------------- MODULE MCKeyPath ------------------------------
(***************************************************************************)
(* An instance of KeyPath for TLC.                                         *)
(***************************************************************************)
EXTENDS KeyPath

CONSTANTS left, right   \* the Ctrl keys

MCCtrlKeys  == {left, right}
MCScancodes == {"wheel", "pressed", "released"}
=============================================================================
