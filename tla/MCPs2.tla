------------------------------- MODULE MCPs2 --------------------------------
(***************************************************************************)
(* An instance of Ps2 for TLC.                                             *)
(***************************************************************************)
EXTENDS Ps2

\* Keyboard interrupt, keyboard translation, mouse disabled.
MCBootConfig == 101

\* The scancode of the key A, and the one of the key 2, which is also the ID of
\* a mouse with a wheel.
MCKeys == {3, 30}

\* A mouse that answers within a wait while keys are pressed; one as late as it
\* likes; no mouse and a controller that may stop answering.
MCMachines ==
  {[controller |-> "none", mouse |-> "short", kind |-> kind, keys |-> 2] :
     kind \in {"none", "plain", "wheel"}} \cup
  {[controller |-> "none", mouse |-> "long", kind |-> kind, keys |-> 0] :
     kind \in {"plain", "wheel"}} \cup
  {[controller |-> "long", mouse |-> "long", kind |-> "none", keys |-> 0]}
=============================================================================
