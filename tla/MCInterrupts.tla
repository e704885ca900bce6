---------------------------- MODULE MCInterrupts ----------------------------
(***************************************************************************)
(* An instance of Interrupts for TLC.                                      *)
(***************************************************************************)
EXTENDS Interrupts

\* The non-maskable interrupt, a fault with an error code, the alignment check.
MCExceptions == {2, 13, 17}
\* The keyboard and the mouse.
MCIrqs == {1, 12}
MCSpurious == {7, 15}
=============================================================================
