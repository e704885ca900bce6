--------------------------- MODULE MCMousePackets ---------------------------
(***************************************************************************)
(* An instance of MousePackets for TLC.                                    *)
(***************************************************************************)
EXTENDS MousePackets

\* A button released, a button pressed.
MCHeaders == {8, 9}
\* Still, one step, minus one step, and a movement with bit 3 set.
MCMovements == {0, 1, 8, 255}
MCWheels == {0, 1, 255}
\* The acknowledgement of the last command.
MCAck == {250}
=============================================================================
