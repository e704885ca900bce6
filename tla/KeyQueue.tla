------------------------------ MODULE KeyQueue ------------------------------
(***************************************************************************)
(* What the key path of the kernel promises (keyboard.h, keyboard.c        *)
(* 146-153, 289-318), with neither interrupts nor a ring: a first-in       *)
(* first-out queue of at most Capacity scancodes.  An interrupt handler    *)
(* brings one scancode at a time; it is queued if there is room and        *)
(* dropped only when the queue is full.  The main loop takes the oldest    *)
(* scancode, handles it, and only then takes the next one.                 *)
(***************************************************************************)
EXTENDS Naturals, Sequences

CONSTANTS Keys,      \* the scancodes
          Capacity,  \* how many scancodes can wait
          None       \* no scancode

VARIABLES inbox,     \* the scancode an interrupt handler is bringing
          queue,     \* the scancodes waiting for the main loop
          taken      \* the scancode the main loop is handling

vars == <<inbox, queue, taken>>

Init == /\ inbox = None
        /\ queue = << >>
        /\ taken = None

\* An interrupt handler has obtained a scancode.
Receive == /\ inbox = None
           /\ inbox' \in Keys
           /\ UNCHANGED <<queue, taken>>

\* There is room: the scancode is queued behind the others.
Accept == /\ inbox # None
          /\ Len(queue) < Capacity
          /\ queue' = Append(queue, inbox)
          /\ inbox' = None
          /\ UNCHANGED taken

\* The queue is full: the scancode, and no other one, is lost.
Drop == /\ inbox # None
        /\ Len(queue) = Capacity
        /\ inbox' = None
        /\ UNCHANGED <<queue, taken>>

\* The main loop takes the oldest scancode ...
Take == /\ taken = None
        /\ queue # << >>
        /\ taken' = Head(queue)
        /\ queue' = Tail(queue)
        /\ UNCHANGED inbox

\* ... and is done with it.
Finish == /\ taken # None
          /\ taken' = None
          /\ UNCHANGED <<inbox, queue>>

Next == Receive \/ Accept \/ Drop \/ Take \/ Finish

Spec == Init /\ [][Next]_vars
=============================================================================
