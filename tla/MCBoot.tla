------------------------------- MODULE MCBoot -------------------------------
(***************************************************************************)
(* An instance of Boot for TLC.                                            *)
(***************************************************************************)
EXTENDS Boot

\* The timer, the keyboard and the mouse.
MCDeviceIrqs == {0, 1, 12}
\* Everything open, everything masked.
MCBootMasks == {0, 255}
\* The vectors of the BIOS.
MCBootOffsets == {8, 112}
\* Nothing in service, or the timer.
MCBootServed == {{}, {0}}
=============================================================================
