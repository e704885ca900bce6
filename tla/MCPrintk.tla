------------------------------ MODULE MCPrintk ------------------------------
(***************************************************************************)
(* An instance of Printk for TLC: every number with every padding, and     *)
(* formats like those of the kernel.  print_entry() also passes a length   *)
(* of two words to %d (multiboot.c 7), which is left out.                  *)
(***************************************************************************)
EXTENDS Printk

MCStrings == << <<"a", "b">>, << >> >>

Paddings == {<< >>, <<"0">>, <<"3">>, <<"0", "3">>, <<"5">>, <<"0", "5">>, <<"1", "0">>}

NumberCalls ==
  {[format |-> <<"%">> \o p \o <<c>>, words |-> <<w>>] :
     p \in Paddings, c \in {"d", "i", "u", "x"}, w \in Word} \cup
  {[format |-> <<"%">> \o p \o <<"l", "l", "x">>, words |-> <<w, v>>] :
     p \in Paddings, w \in {0, 1, 17, 31}, v \in {0, 1, 16, 31}}

\* A command and its description, a line of a dump, a range of the memory map,
\* unknown conversions.
OtherCalls ==
  {[format |-> <<"%", "s", ":", "%", "s", "%", "%">>, words |-> <<v, w>>] :
     v \in 0 .. 2, w \in 0 .. 2} \cup
  {[format |-> <<"%", "p", " ", "%", "0", "2", "x", "%", "d">>, words |-> <<w, v, w>>] :
     v \in {0, 16, 31}, w \in Word} \cup
  {[format |-> <<"%", "s", "%", "l", "l", "x", "-", "%", "l", "l", "x", "%", "u">>,
    words |-> <<s, v, w, v, w, v>>] : s \in 0 .. 2, v \in {0, 1, 31}, w \in {0, 1, 31}} \cup
  {[format |-> <<"%">> \o p \o <<"q", "%", "l", "d", "%", "u">>, words |-> <<7>>] :
     p \in Paddings}

MCCalls == NumberCalls \cup OtherCalls
=============================================================================
