--------------------------- MODULE KeyPathProofs ----------------------------
(***************************************************************************)
(* Proofs about KeyBuffer, for every size of the ring and every set of     *)
(* scancodes, then about KeyPath, which extends it, for any Ctrl keys.     *)
(***************************************************************************)
EXTENDS KeyPath, SequenceTheorems, TLAPS

-----------------------------------------------------------------------------
(* KeyBuffer: the inductive invariant *)

\* A handler runs with interrupts disabled, and never interrupts the part of
\* the main loop that disables them, nor 'hlt' in the shadow of 'sti' (irq
\* gates of idt.c 15-23, main.c 56-58).
Masking ==
  /\ stack # << >> => ~interrupts /\ ~sti_shadow
  /\ stack # << >> => pc \notin {"test", "sti_hlt", "hlt", "asleep", "halted"}
  /\ pc \in {"test", "sti_hlt", "halted"} => ~interrupts
  /\ pc = "hlt" => sti_shadow

\* What the main loop has read of the ring stays true while handlers push.
MainView ==
  /\ pc \in {"fetch", "advance"} => HasInput
  /\ pc = "advance" => scancode = key_buffer[key_buffer_tail]

\* What a handler has read of the ring stays true until it moves the head.
HandlerView ==
  /\ Running("store") => Top.key \in Scancodes
  /\ Running("publish") => /\ Top.key \in Scancodes
                           /\ ~RingFull
                           /\ key_buffer[key_buffer_head] = Top.key

IInv == TypeOK /\ NoNesting /\ Masking /\ MainView /\ HandlerView /\ NoLostWakeup

-----------------------------------------------------------------------------
(* The ring *)

\* NextSlot stays in the ring and differs from its argument.
LEMMA NextSlotFacts ==
  ASSUME NEW i \in Slots
  PROVE  /\ NextSlot(i) \in Slots
         /\ NextSlot(i) = IF i + 1 = KEY_BUFFER_SIZE THEN 0 ELSE i + 1
         /\ NextSlot(i) # i
<1>1. i + 1 \in 0 .. 2 * KEY_BUFFER_SIZE - 1
  BY BufferAssumption DEF Slots
<1>2. (i + 1) % KEY_BUFFER_SIZE =
        IF i + 1 < KEY_BUFFER_SIZE THEN i + 1 ELSE i + 1 - KEY_BUFFER_SIZE
  BY <1>1, BufferAssumption DEF Slots
<1> QED BY <1>2, BufferAssumption DEF NextSlot, Slots

\* How far the slot h is after the slot t, without a remainder.
LEMMA Distance ==
  ASSUME NEW h \in Slots, NEW t \in Slots
  PROVE  (h + KEY_BUFFER_SIZE - t) % KEY_BUFFER_SIZE =
           IF t <= h THEN h - t ELSE h + KEY_BUFFER_SIZE - t
<1> DEFINE i == h + KEY_BUFFER_SIZE - t
<1>1. i \in 0 .. 2 * KEY_BUFFER_SIZE - 1
  BY BufferAssumption DEF Slots
<1>2. i % KEY_BUFFER_SIZE = IF i < KEY_BUFFER_SIZE THEN i ELSE i - KEY_BUFFER_SIZE
  BY <1>1, BufferAssumption DEF Slots
<1> QED BY <1>2, BufferAssumption DEF Slots

\* The number of scancodes in the ring.
LEMMA CountFacts ==
  ASSUME key_buffer_head \in Slots, key_buffer_tail \in Slots
  PROVE  /\ Count = IF key_buffer_tail <= key_buffer_head
                    THEN key_buffer_head - key_buffer_tail
                    ELSE key_buffer_head + KEY_BUFFER_SIZE - key_buffer_tail
         /\ Count \in 0 .. KEY_BUFFER_SIZE - 1
         /\ HasInput <=> Count # 0
         /\ RingFull <=> Count = KEY_BUFFER_SIZE - 1
<1>3. Count = IF key_buffer_tail <= key_buffer_head
              THEN key_buffer_head - key_buffer_tail
              ELSE key_buffer_head + KEY_BUFFER_SIZE - key_buffer_tail
  BY Distance DEF Count
<1>4. Count \in 0 .. KEY_BUFFER_SIZE - 1
  BY <1>3, BufferAssumption DEF Slots
<1>5. HasInput <=> Count # 0
  BY <1>3, BufferAssumption DEF HasInput, Slots
<1>6. RingFull <=> Count = KEY_BUFFER_SIZE - 1
  BY <1>3, NextSlotFacts, BufferAssumption DEF RingFull, Slots
<1> QED BY <1>3, <1>4, <1>5, <1>6

-----------------------------------------------------------------------------
(* The frames of the interrupts *)

\* With at most one handler running, the running one is the only frame.
LEMMA OneFrame ==
  ASSUME stack \in Seq(Frames), Len(stack) <= 1, stack # << >>
  PROVE  Len(stack) = 1 /\ Top = stack[1] /\ Top \in Frames
  BY DEF Top

\* A handler going to its next stage keeps its frame and its IRQ.
LEMMA ContinueFacts ==
  ASSUME stack \in Seq(Frames), Len(stack) <= 1, stack # << >>,
         NEW s \in Stages, NEW k \in Scancodes \cup {None},
         Continue(s, k)
  PROVE  /\ stack' \in Seq(Frames) /\ Len(stack') = 1 /\ stack' # << >>
         /\ Top' = [irq |-> Top.irq, stage |-> s, key |-> k]
<1> DEFINE f == [irq |-> Top.irq, stage |-> s, key |-> k]
<1>1. Len(stack) = 1 /\ Top = stack[1] /\ Top \in Frames
  BY OneFrame
<1>2. f \in Frames
  BY <1>1 DEF Frames
<1>3. stack' = [stack EXCEPT ![1] = f]
  BY <1>1 DEF Continue
<1>4. stack' \in Seq(Frames) /\ Len(stack') = 1 /\ stack'[1] = f
  BY <1>1, <1>2, <1>3
<1> QED BY <1>4 DEF Top

-----------------------------------------------------------------------------
(* The invariant is inductive *)

LEMMA InitInv == Init => IInv
<1> SUFFICES ASSUME Init PROVE IInv
  OBVIOUS
<1>1. TypeOK
  BY BufferAssumption DEF Init, TypeOK, Slots, Labels
<1> QED
  BY <1>1 DEF Init, IInv, NoNesting, Masking, MainView, HandlerView, NoLostWakeup, Running

\* Devices and stuttering steps do not touch what the invariant is about.
LEMMA DeviceInv == ASSUME IInv, DeviceByte PROVE IInv'
<1>1. TypeOK'
  BY DEF IInv, TypeOK, DeviceByte, ringVars, mainVars, cpuVars, OutputBytes, MouseBytes, Irqs, Slots
<1> QED
  BY <1>1 DEF IInv, NoNesting, Masking, MainView, HandlerView, NoLostWakeup, DeviceByte,
      ringVars, mainVars, cpuVars, HasInput, Running, Top, RingFull, NextSlot

LEMMA StutterInv == ASSUME IInv, UNCHANGED vars PROVE IInv'
<1>1. TypeOK'
  BY DEF IInv, TypeOK, vars, ringVars, mainVars, cpuVars, picVars, Slots
<1> QED
  BY <1>1 DEF IInv, NoNesting, Masking, MainView, HandlerView, NoLostWakeup, vars,
      ringVars, mainVars, cpuVars, picVars, HasInput, Running, Top, RingFull, NextSlot

\* An interrupt is only taken with interrupts enabled, so when no handler runs.
LEMMA EntryInv == ASSUME IInv, NEW irq \in Irqs, InterruptEntry(irq) PROVE IInv'
<1> DEFINE f == [irq |-> irq, stage |-> "read", key |-> None]
<1> USE DEF InterruptEntry
<1>1. stack = << >> /\ pc \notin {"test", "sti_hlt", "hlt", "halted"}
  BY DEF IInv, Masking
<1>2. f \in Frames
  BY DEF Frames, Stages
<1>3. stack' = Append(stack, f)
  OBVIOUS
<1>4. stack' \in Seq(Frames) /\ Len(stack') = 1 /\ stack' # << >> /\ Top' = f
  <2> HIDE DEF f
  <2>1. stack \in Seq(Frames) /\ Len(stack) = 0
    BY <1>1 DEF IInv, TypeOK
  <2>2. stack' \in Seq(Frames) /\ Len(stack') = 1 /\ stack'[1] = f
    BY <1>2, <1>3, <2>1
  <2> QED BY <2>2 DEF Top
<1>5. TypeOK'
  BY <1>4 DEF IInv, TypeOK, ringVars, GateFlag, Labels, Slots
<1>6. Masking' /\ MainView' /\ NoLostWakeup'
  BY <1>1, <1>4 DEF IInv, Masking, MainView, NoLostWakeup, HasInput, ringVars, GateFlag
<1>7. HandlerView'
  BY <1>4 DEF HandlerView, Running
<1> QED
  BY <1>4, <1>5, <1>6, <1>7 DEF IInv, NoNesting

\* What the steps of a handler have in common: they keep its frame alone.
LEMMA HandlerFrame ==
  ASSUME IInv, NEW s \in Stages, NEW k \in Scancodes \cup {None},
         stack # << >>, Continue(s, k), UNCHANGED <<mainVars, interrupts, sti_shadow>>
  PROVE  /\ stack' \in Seq(Frames) /\ stack' # << >> /\ NoNesting'
         /\ Top' = [irq |-> Top.irq, stage |-> s, key |-> k]
         /\ Masking'
<1>1. /\ stack' \in Seq(Frames) /\ Len(stack') = 1 /\ stack' # << >>
      /\ Top' = [irq |-> Top.irq, stage |-> s, key |-> k]
  BY ContinueFacts DEF IInv, TypeOK, NoNesting
<1> QED
  BY <1>1 DEF IInv, Masking, NoNesting, mainVars

LEMMA HandlerInv == ASSUME IInv, Handler PROVE IInv'
<1> USE DEF IInv
<1>1. CASE KeyboardRead
  <2>1. PICK k \in Scancodes : Continue("store", k)
    BY <1>1, ScancodeAssumption DEF KeyboardRead, TypeOK, OutputBytes, MouseBytes, NoByte, KEYBOARD, MOUSE
  <2>2. /\ stack' \in Seq(Frames) /\ stack' # << >> /\ NoNesting'
        /\ Top' = [irq |-> Top.irq, stage |-> "store", key |-> k]
        /\ Masking'
    BY <1>1, <2>1, HandlerFrame DEF KeyboardRead, Running, Stages
  <2>3. TypeOK'
    BY <1>1, <2>2 DEF KeyboardRead, TypeOK, ringVars, mainVars, picVars, Slots
  <2>4. HandlerView'
    BY <2>2 DEF HandlerView, Running
  <2>5. MainView' /\ NoLostWakeup'
    BY <1>1 DEF KeyboardRead, MainView, NoLostWakeup, HasInput, ringVars, mainVars
  <2> QED BY <2>2, <2>3, <2>4, <2>5
<1>2. CASE MouseRead
  <2>1. PICK s \in {"eoi", "store"}, k \in Scancodes \cup {None} :
          Continue(s, k) /\ (s = "store" => k # None)
    BY <1>2, ScancodeAssumption DEF MouseRead, TypeOK, OutputBytes, MouseBytes, NoByte, KEYBOARD, MOUSE
  <2>2. /\ stack' \in Seq(Frames) /\ stack' # << >> /\ NoNesting'
        /\ Top' = [irq |-> Top.irq, stage |-> s, key |-> k]
        /\ Masking'
    BY <1>2, <2>1, HandlerFrame DEF MouseRead, Running, Stages
  <2>3. TypeOK'
    BY <1>2, <2>2 DEF MouseRead, TypeOK, ringVars, mainVars, picVars, Slots
  <2>4. HandlerView'
    BY <2>1, <2>2 DEF HandlerView, Running
  <2>5. MainView' /\ NoLostWakeup'
    BY <1>2 DEF MouseRead, MainView, NoLostWakeup, HasInput, ringVars, mainVars
  <2> QED BY <2>2, <2>3, <2>4, <2>5
<1>3. CASE Store
  <2>1. stack # << >> /\ Top.key \in Scancodes /\ Top \in Frames
    BY <1>3, OneFrame DEF Store, Running, HandlerView, TypeOK, NoNesting
  <2>2. CASE RingFull
    <3>1. Continue("eoi", None)
      BY <1>3, <2>2 DEF Store
    <3>2. /\ stack' \in Seq(Frames) /\ stack' # << >> /\ NoNesting'
          /\ Top' = [irq |-> Top.irq, stage |-> "eoi", key |-> None]
          /\ Masking'
      BY <1>3, <2>1, <3>1, HandlerFrame DEF Store, Stages
    <3>3. TypeOK'
      BY <1>3, <2>2, <3>2 DEF Store, TypeOK, mainVars, picVars, Slots
    <3>4. HandlerView' /\ MainView' /\ NoLostWakeup'
      BY <1>3, <2>2, <3>2 DEF Store, HandlerView, Running, MainView, NoLostWakeup, HasInput, mainVars
    <3> QED BY <3>2, <3>3, <3>4
  <2>3. CASE ~RingFull
    <3>1. Continue("publish", Top.key)
      BY <1>3, <2>3 DEF Store
    <3>2. /\ stack' \in Seq(Frames) /\ stack' # << >> /\ NoNesting'
          /\ Top' = [irq |-> Top.irq, stage |-> "publish", key |-> Top.key]
          /\ Masking'
      BY <1>3, <2>1, <3>1, HandlerFrame DEF Store, Stages
    <3>3. TypeOK'
      BY <1>3, <2>1, <2>3, <3>2 DEF Store, TypeOK, mainVars, picVars, Slots
    <3>4. HandlerView'
      BY <1>3, <2>1, <2>3, <3>2 DEF Store, HandlerView, Running, TypeOK, RingFull, NextSlot
    <3>5. MainView' /\ NoLostWakeup'
      BY <1>3, <2>3 DEF Store, TypeOK, MainView, NoLostWakeup, HasInput, mainVars
    <3> QED BY <3>2, <3>3, <3>4, <3>5
  <2> QED BY <2>2, <2>3
<1>4. CASE Publish
  <2>1. stack # << >> /\ ~RingFull
    BY <1>4 DEF Publish, Running, HandlerView
  <2>2. /\ stack' \in Seq(Frames) /\ stack' # << >> /\ NoNesting'
        /\ Top' = [irq |-> Top.irq, stage |-> "eoi", key |-> None]
        /\ Masking'
    BY <1>4, <2>1, HandlerFrame DEF Publish, Stages
  <2>3. TypeOK'
    BY <1>4, <2>2, NextSlotFacts DEF Publish, TypeOK, mainVars, picVars, Slots
  <2>4. HandlerView'
    BY <2>2 DEF HandlerView, Running
  <2>5. HasInput'
    BY <1>4, <2>1 DEF Publish, HasInput, RingFull
  <2>6. MainView' /\ NoLostWakeup'
    BY <1>4, <2>1, <2>5 DEF Publish, MainView, Masking, NoLostWakeup, mainVars
  <2> QED BY <2>2, <2>3, <2>4, <2>6
<1>5. CASE Eoi
  <2>1. /\ stack' \in Seq(Frames) /\ stack' # << >> /\ NoNesting'
        /\ Top' = [irq |-> Top.irq, stage |-> "iret", key |-> None]
        /\ Masking'
    BY <1>5, HandlerFrame DEF Eoi, Running, Stages
  <2>2. TypeOK'
    BY <1>5, <2>1 DEF Eoi, TypeOK, ringVars, mainVars, Acknowledged, Slots
  <2>3. HandlerView' /\ MainView' /\ NoLostWakeup'
    BY <1>5, <2>1 DEF Eoi, HandlerView, Running, MainView, NoLostWakeup, HasInput, ringVars, mainVars
  <2> QED BY <2>1, <2>2, <2>3
<1>6. CASE InterruptReturn
  <2>1. stack # << >> /\ Len(stack) = 1
    BY <1>6, OneFrame DEF InterruptReturn, Running, TypeOK, NoNesting
  <2>2. stack' = << >>
    BY <1>6, <2>1 DEF InterruptReturn, TypeOK
  <2>3. TypeOK' /\ NoNesting'
    BY <1>6, <2>2 DEF InterruptReturn, TypeOK, NoNesting, ringVars, mainVars, picVars, Slots
  <2>4. Masking'
    BY <1>6, <2>1, <2>2 DEF InterruptReturn, Masking, mainVars
  <2>5. HandlerView' /\ MainView' /\ NoLostWakeup'
    BY <1>6, <2>2 DEF InterruptReturn, HandlerView, Running, MainView, NoLostWakeup, HasInput, ringVars, mainVars
  <2> QED BY <2>2, <2>3, <2>4, <2>5
<1> QED BY <1>1, <1>2, <1>3, <1>4, <1>5, <1>6 DEF Handler

LEMMA MainLoopInv == ASSUME IInv, MainLoop PROVE IInv'
<1> USE DEF IInv, At, Goto
<1>1. stack = << >> /\ stack' = << >>
  BY DEF MainLoop, While, Fetch, Advance, Handle, Halt, Cli, Test, StiHlt, Hlt, Sti, cpuVars
<1>2. NoNesting' /\ HandlerView'
  BY <1>1 DEF NoNesting, HandlerView, Running
<1>3. CASE While
  BY <1>1, <1>2, <1>3 DEF While, TypeOK, Masking, MainView, NoLostWakeup, HasInput,
      ringVars, picVars, Labels, Slots
<1>4. CASE Fetch
  BY <1>1, <1>2, <1>4 DEF Fetch, TypeOK, Masking, MainView, NoLostWakeup, HasInput,
      ringVars, cpuVars, picVars, Labels, Slots
<1>5. CASE Advance
  BY <1>1, <1>2, <1>5, NextSlotFacts DEF Advance, TypeOK, Masking, MainView, NoLostWakeup,
      cpuVars, picVars, Labels, Slots
<1>6. CASE Handle \/ Halt
  BY <1>1, <1>2, <1>6 DEF Handle, Halt, TypeOK, Masking, MainView, NoLostWakeup,
      ringVars, cpuVars, picVars, Labels, Slots
<1>7. CASE Cli
  BY <1>1, <1>2, <1>7 DEF Cli, TypeOK, Masking, MainView, NoLostWakeup, InterruptsOff,
      ringVars, picVars, Labels, Slots
<1>8. CASE Test
  BY <1>1, <1>2, <1>8 DEF Test, TypeOK, Masking, MainView, NoLostWakeup, HasInput,
      ringVars, cpuVars, picVars, Labels, Slots
<1>9. CASE StiHlt \/ Hlt
  BY <1>1, <1>2, <1>9 DEF StiHlt, Hlt, TypeOK, Masking, MainView, NoLostWakeup, HasInput,
      StiShadow, ringVars, picVars, Labels, Slots
<1>10. CASE Sti
  BY <1>1, <1>2, <1>10 DEF Sti, TypeOK, Masking, MainView, NoLostWakeup,
      ringVars, picVars, Labels, Slots
<1> QED BY <1>3, <1>4, <1>5, <1>6, <1>7, <1>8, <1>9, <1>10 DEF MainLoop

\* IInv holds in every reachable state.
THEOREM Invariant == Spec => []IInv
<1>1. IInv /\ [Next]_vars => IInv'
  BY DeviceInv, StutterInv, EntryInv, HandlerInv, MainLoopInv DEF Next, StayHalted
<1> QED BY <1>1, InitInv, PTL DEF Spec

-----------------------------------------------------------------------------
(* The safety properties *)

\* Type correctness: the indices of the ring stay in it (keyboard.c 289-318).
THEOREM TypeCorrect == Spec => []TypeOK
<1>1. IInv => TypeOK
  BY DEF IInv
<1> QED BY <1>1, Invariant, PTL

\* The handlers of IRQ1 and IRQ12 are never nested, so keyboard_push_scancode()
\* has one caller at a time (keyboard.c 146-150, 289-302).
THEOREM HandlersNotNested == Spec => []NoNesting
<1>1. IInv => NoNesting
  BY DEF IInv
<1> QED BY <1>1, Invariant, PTL

\* The main loop never sleeps on a key: the cli, test, sti;hlt idiom loses no
\* wakeup (main.c 52-58).
THEOREM WakeupNotLost == Spec => []NoLostWakeup
<1>1. IInv => NoLostWakeup
  BY DEF IInv
<1> QED BY <1>1, Invariant, PTL

-----------------------------------------------------------------------------
(* The ring is a queue *)

\* The slot of the i-th waiting scancode.
LEMMA WaitingSlot ==
  ASSUME key_buffer_head \in Slots, key_buffer_tail \in Slots, NEW i \in 1 .. Count
  PROVE  LET j == key_buffer_tail + i - 1 IN
         /\ j % KEY_BUFFER_SIZE \in Slots
         /\ j % KEY_BUFFER_SIZE = IF j < KEY_BUFFER_SIZE THEN j ELSE j - KEY_BUFFER_SIZE
         /\ j % KEY_BUFFER_SIZE # key_buffer_head
<1> DEFINE j == key_buffer_tail + i - 1
<1>0. i \in Nat /\ 1 <= i /\ i <= Count /\ Count \in 0 .. KEY_BUFFER_SIZE - 1
  BY CountFacts, BufferAssumption
<1>1. j \in 0 .. 2 * KEY_BUFFER_SIZE - 1
  BY <1>0, BufferAssumption DEF Slots
<1>2. j % KEY_BUFFER_SIZE = IF j < KEY_BUFFER_SIZE THEN j ELSE j - KEY_BUFFER_SIZE
  BY <1>0, <1>1, BufferAssumption DEF Slots
<1>3. j % KEY_BUFFER_SIZE \in Slots
  BY <1>0, <1>1, <1>2, BufferAssumption DEF Slots
<1>4. j % KEY_BUFFER_SIZE # key_buffer_head
  BY <1>0, <1>2, CountFacts, BufferAssumption DEF Slots
<1> QED BY <1>2, <1>3, <1>4

\* Waiting is a sequence of Count scancodes.
LEMMA WaitingSeq ==
  ASSUME TypeOK
  PROVE  /\ Waiting \in Seq(Scancodes \cup {None})
         /\ Len(Waiting) = Count
         /\ Count \in Nat
<1>1. key_buffer_head \in Slots /\ key_buffer_tail \in Slots
  BY DEF TypeOK
<1>2. Count \in Nat
  BY <1>1, CountFacts, BufferAssumption
<1>3. \A i \in 1 .. Count :
        key_buffer[(key_buffer_tail + i - 1) % KEY_BUFFER_SIZE] \in Scancodes \cup {None}
  BY <1>1, WaitingSlot DEF TypeOK
<1> QED BY <1>2, <1>3 DEF Waiting

\* Writing the slot of the head does not change the waiting scancodes.
LEMMA StoreWaiting ==
  ASSUME TypeOK, NEW k, key_buffer' = [key_buffer EXCEPT ![key_buffer_head] = k],
         UNCHANGED <<key_buffer_head, key_buffer_tail>>
  PROVE  Waiting' = Waiting
<1>1. key_buffer_head \in Slots /\ key_buffer_tail \in Slots
  BY DEF TypeOK
<1>2. Count' = Count
  BY DEF Count
<1>3. \A i \in 1 .. Count :
        key_buffer'[(key_buffer_tail + i - 1) % KEY_BUFFER_SIZE]
          = key_buffer[(key_buffer_tail + i - 1) % KEY_BUFFER_SIZE]
  BY <1>1, WaitingSlot DEF TypeOK
<1> QED BY <1>2, <1>3 DEF Waiting

\* Moving the head appends the scancode of its slot.
LEMMA PublishWaiting ==
  ASSUME TypeOK, TypeOK', ~RingFull,
         key_buffer_head' = NextSlot(key_buffer_head), UNCHANGED <<key_buffer, key_buffer_tail>>
  PROVE  /\ Len(Waiting) < KEY_BUFFER_SIZE - 1
         /\ Waiting' = Append(Waiting, key_buffer[key_buffer_head])
<1> DEFINE k == key_buffer[key_buffer_head]
           slot(i) == (key_buffer_tail + i - 1) % KEY_BUFFER_SIZE
<1>1. key_buffer_head \in Slots /\ key_buffer_tail \in Slots /\ key_buffer_head' \in Slots
  BY DEF TypeOK
<1>2. Count \in Nat /\ Count < KEY_BUFFER_SIZE - 1
  BY <1>1, CountFacts, BufferAssumption
<1>3. Count' = Count + 1
  <2>1. Count = IF key_buffer_tail <= key_buffer_head
                THEN key_buffer_head - key_buffer_tail
                ELSE key_buffer_head + KEY_BUFFER_SIZE - key_buffer_tail
    BY <1>1, CountFacts
  <2>2. Count' = IF key_buffer_tail' <= key_buffer_head'
                 THEN key_buffer_head' - key_buffer_tail'
                 ELSE key_buffer_head' + KEY_BUFFER_SIZE - key_buffer_tail'
    <3>1. key_buffer_head' \in Slots /\ key_buffer_tail' \in Slots
      BY <1>1
    <3> QED BY <3>1, Distance DEF Count
  <2> QED BY <1>1, <1>2, <2>1, <2>2, NextSlotFacts, BufferAssumption DEF Slots, RingFull
<1>4. slot(Count + 1) = key_buffer_head
  <2>1. key_buffer_tail + Count \in 0 .. 2 * KEY_BUFFER_SIZE - 1
    BY <1>1, <1>2, BufferAssumption DEF Slots
  <2>2. (key_buffer_tail + Count) % KEY_BUFFER_SIZE
          = IF key_buffer_tail + Count < KEY_BUFFER_SIZE THEN key_buffer_tail + Count
            ELSE key_buffer_tail + Count - KEY_BUFFER_SIZE
    BY <1>1, <1>2, <2>1, BufferAssumption DEF Slots
  <2>3. key_buffer_tail + (Count + 1) - 1 = key_buffer_tail + Count
    BY <1>1, <1>2 DEF Slots
  <2> QED BY <1>1, <1>2, <2>2, <2>3, CountFacts, BufferAssumption DEF Slots
<1>5. Waiting' = [i \in 1 .. Count + 1 |-> key_buffer[slot(i)]]
  BY <1>3 DEF Waiting
<1>6. Len(Waiting) = Count /\ Waiting \in Seq(Scancodes \cup {None})
  BY WaitingSeq
<1>7. Append(Waiting, k) = [i \in 1 .. Count + 1 |-> IF i <= Count THEN Waiting[i] ELSE k]
  BY <1>2, <1>6
<1>8. \A i \in 1 .. Count + 1 : key_buffer[slot(i)] = IF i <= Count THEN Waiting[i] ELSE k
  <2> TAKE i \in 1 .. Count + 1
  <2>1. CASE i <= Count
    <3>1. i \in 1 .. Count
      BY <1>2, <2>1
    <3> QED BY <2>1, <3>1 DEF Waiting
  <2>2. CASE ~(i <= Count)
    <3>1. i = Count + 1
      BY <1>2, <2>2
    <3> QED BY <1>4, <2>2, <3>1
  <2> QED BY <2>1, <2>2
<1> QED BY <1>2, <1>5, <1>6, <1>7, <1>8

\* A sequence without its head.
LEMMA TailAsFunction ==
  ASSUME NEW S, NEW s \in Seq(S), s # << >>
  PROVE  Tail(s) = [i \in 1 .. Len(s) - 1 |-> s[i + 1]]
<1> DEFINE t == Tail(s)
<1>1. t \in Seq(S) /\ Len(t) = Len(s) - 1 /\ \A i \in 1 .. Len(t) : t[i] = s[i + 1]
  BY HeadTailProperties
<1> HIDE DEF t
<1>2. t = [i \in 1 .. Len(t) |-> t[i]]
  BY <1>1
<1>3. t = [i \in 1 .. Len(t) |-> s[i + 1]]
  BY <1>1, <1>2
<1> QED BY <1>1, <1>3 DEF t

\* Moving the tail removes the scancode of its slot, the oldest one.
LEMMA AdvanceWaiting ==
  ASSUME TypeOK, TypeOK', HasInput,
         key_buffer_tail' = NextSlot(key_buffer_tail), UNCHANGED <<key_buffer, key_buffer_head>>
  PROVE  /\ Waiting # << >>
         /\ Head(Waiting) = key_buffer[key_buffer_tail]
         /\ Waiting' = Tail(Waiting)
<1> DEFINE slot(i) == (key_buffer_tail + i - 1) % KEY_BUFFER_SIZE
<1>1. key_buffer_head \in Slots /\ key_buffer_tail \in Slots /\ key_buffer_tail' \in Slots
  BY DEF TypeOK
<1>2. Count \in Nat /\ Count >= 1 /\ Count <= KEY_BUFFER_SIZE - 1
  BY <1>1, CountFacts, BufferAssumption
<1>3. Count' = Count - 1
  <2>1. Count = IF key_buffer_tail <= key_buffer_head
                THEN key_buffer_head - key_buffer_tail
                ELSE key_buffer_head + KEY_BUFFER_SIZE - key_buffer_tail
    BY <1>1, CountFacts
  <2>2. Count' = IF key_buffer_tail' <= key_buffer_head'
                 THEN key_buffer_head' - key_buffer_tail'
                 ELSE key_buffer_head' + KEY_BUFFER_SIZE - key_buffer_tail'
    <3>1. key_buffer_head' \in Slots /\ key_buffer_tail' \in Slots
      BY <1>1
    <3> QED BY <3>1, Distance DEF Count
  <2> QED BY <1>1, <1>2, <2>1, <2>2, NextSlotFacts, BufferAssumption DEF Slots, HasInput
<1>4. Len(Waiting) = Count /\ Waiting \in Seq(Scancodes \cup {None})
  BY WaitingSeq
<1>5. slot(1) = key_buffer_tail
  BY <1>1, BufferAssumption DEF Slots
<1>6. Waiting # << >> /\ Head(Waiting) = key_buffer[key_buffer_tail]
  BY <1>2, <1>4, <1>5 DEF Waiting
<1>7. Tail(Waiting) = [i \in 1 .. Count - 1 |-> Waiting[i + 1]]
  BY <1>4, <1>6, TailAsFunction
<1>8. \A i \in 1 .. Count - 1 :
        (key_buffer_tail' + i - 1) % KEY_BUFFER_SIZE = slot(i + 1)
  <2> SUFFICES ASSUME NEW i \in 1 .. Count - 1
               PROVE  (key_buffer_tail' + i - 1) % KEY_BUFFER_SIZE = slot(i + 1)
    OBVIOUS
  <2>1. i \in Nat /\ i + 1 \in 1 .. Count /\ i < KEY_BUFFER_SIZE
    BY <1>2, BufferAssumption
  <2>2. slot(i + 1) = IF key_buffer_tail + i < KEY_BUFFER_SIZE THEN key_buffer_tail + i
                      ELSE key_buffer_tail + i - KEY_BUFFER_SIZE
    BY <1>1, <1>2, <2>1, BufferAssumption DEF Slots
  <2>3. key_buffer_tail' + i - 1 \in 0 .. 2 * KEY_BUFFER_SIZE - 1
    BY <1>1, <1>2, <2>1, BufferAssumption DEF Slots
  <2>4. (key_buffer_tail' + i - 1) % KEY_BUFFER_SIZE
          = IF key_buffer_tail' + i - 1 < KEY_BUFFER_SIZE THEN key_buffer_tail' + i - 1
            ELSE key_buffer_tail' + i - 1 - KEY_BUFFER_SIZE
    BY <1>1, <2>1, <2>3, BufferAssumption DEF Slots
  <2> QED BY <1>1, <2>1, <2>2, <2>4, NextSlotFacts, BufferAssumption DEF Slots
<1>9. Waiting' = [i \in 1 .. Count - 1 |-> key_buffer[slot(i + 1)]]
  BY <1>3, <1>8 DEF Waiting
<1>10. \A i \in 1 .. Count - 1 : Waiting[i + 1] = key_buffer[slot(i + 1)]
  BY <1>2 DEF Waiting
<1> QED BY <1>6, <1>7, <1>9, <1>10

LEMMA QueueInit == Init => Queue!Init
<1> SUFFICES ASSUME Init PROVE Queue!Init
  OBVIOUS
<1>1. TypeOK
  BY InitInv DEF IInv
<1>2. Count = 0
  BY <1>1, CountFacts DEF Init, TypeOK, HasInput
<1>3. Waiting = << >>
  BY <1>1, <1>2, WaitingSeq
<1> QED BY <1>3 DEF Init, Queue!Init, Incoming, Running, Taken

\* Every step of the ring's users is a step of the queue or leaves it alone.
LEMMA QueueStep == IInv /\ IInv' /\ [Next]_vars => [Queue!Next]_Queue!vars
<1> SUFFICES ASSUME IInv, IInv', [Next]_vars PROVE [Queue!Next]_Queue!vars
  OBVIOUS
<1> USE DEF IInv, Queue!vars
<1>0. ASSUME UNCHANGED ringVars PROVE Waiting' = Waiting
  BY <1>0 DEF ringVars, Waiting, Count
<1>1. CASE DeviceByte \/ StayHalted \/ UNCHANGED vars
  <2>1. UNCHANGED ringVars /\ UNCHANGED <<mainVars, cpuVars>>
    BY <1>1 DEF DeviceByte, StayHalted, vars
  <2>2. Incoming' = Incoming /\ Taken' = Taken
    BY <2>1 DEF Incoming, Taken, Running, Top, mainVars, cpuVars
  <2> QED BY <1>0, <2>1, <2>2
<1>2. ASSUME NEW irq \in Irqs, InterruptEntry(irq) PROVE [Queue!Next]_Queue!vars
  <2>1. stack = << >> /\ stack' = Append(stack, [irq |-> irq, stage |-> "read", key |-> None])
    BY <1>2 DEF InterruptEntry, Masking
  <2>2. Incoming = None
    BY <2>1 DEF Incoming, Running
  <2>3. Top'.stage = "read"
    BY <2>1 DEF Top
  <2>4. Incoming' = None
    BY <2>3 DEF Incoming, Running
  <2>5. Taken' = Taken
    BY <1>2 DEF InterruptEntry, Taken
  <2>6. UNCHANGED ringVars
    BY <1>2 DEF InterruptEntry
  <2> QED BY <1>0, <2>2, <2>4, <2>5, <2>6
<1>3. CASE Handler
  <2>1. Taken' = Taken
    BY <1>3 DEF Handler, KeyboardRead, MouseRead, Store, Publish, Eoi, InterruptReturn, Taken, mainVars
  <2>2. CASE KeyboardRead
    <3>1. Incoming = None
      BY <2>2 DEF KeyboardRead, Incoming, Running
    <3>2. Waiting' = Waiting
      BY <1>0, <2>2 DEF KeyboardRead
    <3>3. PICK k \in Scancodes : Continue("store", k)
      BY <2>2, ScancodeAssumption DEF KeyboardRead, TypeOK, OutputBytes, MouseBytes, NoByte, KEYBOARD, MOUSE
    <3>4. stack' # << >> /\ Top' = [irq |-> Top.irq, stage |-> "store", key |-> k]
      BY <2>2, <3>3, HandlerFrame DEF KeyboardRead, Running, Stages
    <3>5. Incoming' = k
      BY <3>4 DEF Incoming, Running
    <3> QED BY <2>1, <3>1, <3>2, <3>5 DEF Queue!Next, Queue!Receive
  <2>3. CASE MouseRead
    <3>1. Incoming = None
      BY <2>3 DEF MouseRead, Incoming, Running
    <3>2. Waiting' = Waiting
      BY <1>0, <2>3 DEF MouseRead
    <3>3. PICK s \in {"eoi", "store"}, k \in Scancodes \cup {None} :
            Continue(s, k) /\ (s = "store" => k # None)
      BY <2>3, ScancodeAssumption DEF MouseRead, TypeOK, OutputBytes, MouseBytes, NoByte, KEYBOARD, MOUSE
    <3>4. stack' # << >> /\ Top' = [irq |-> Top.irq, stage |-> s, key |-> k]
      BY <2>3, <3>3, HandlerFrame DEF MouseRead, Running, Stages
    <3>5. CASE s = "store"
      <4>1. Incoming' = k /\ k \in Scancodes
        BY <3>3, <3>4, <3>5 DEF Incoming, Running
      <4> QED BY <2>1, <3>1, <3>2, <4>1 DEF Queue!Next, Queue!Receive
    <3>6. CASE s = "eoi"
      <4>1. Incoming' = None
        BY <3>4, <3>6 DEF Incoming, Running
      <4> QED BY <2>1, <3>1, <3>2, <4>1
    <3> QED BY <3>5, <3>6
  <2>4. CASE Store
    <3>1. Incoming = Top.key /\ Top.key \in Scancodes /\ stack # << >>
      BY <2>4 DEF Store, Incoming, Running, HandlerView
    <3>2. CASE RingFull
      <4>1. stack' # << >> /\ Top' = [irq |-> Top.irq, stage |-> "eoi", key |-> None]
        BY <2>4, <3>1, <3>2, HandlerFrame DEF Store, Stages
      <4>2. Incoming' = None
        BY <4>1 DEF Incoming, Running
      <4>3. Waiting' = Waiting
        BY <2>4, <3>2 DEF Store, Waiting, Count
      <4>4. Len(Waiting) = KEY_BUFFER_SIZE - 1
        BY <3>2, WaitingSeq, CountFacts DEF TypeOK
      <4> QED
        BY <2>1, <3>1, <4>2, <4>3, <4>4, ScancodeAssumption DEF Queue!Next, Queue!Drop
    <3>3. CASE ~RingFull
      <4>1. Top' = [irq |-> Top.irq, stage |-> "publish", key |-> Top.key] /\ stack' # << >>
        BY <2>4, <3>1, <3>3, HandlerFrame DEF Store, Stages
      <4>2. Incoming' = Incoming
        BY <3>1, <4>1 DEF Incoming, Running
      <4>3. Waiting' = Waiting
        BY <2>4, <3>3, StoreWaiting DEF Store
      <4> QED BY <2>1, <4>2, <4>3
    <3> QED BY <3>2, <3>3
  <2>5. CASE Publish
    <3>1. /\ stack # << >> /\ ~RingFull /\ Top.key \in Scancodes
          /\ Incoming = Top.key /\ key_buffer[key_buffer_head] = Top.key
      BY <2>5 DEF Publish, Incoming, Running, HandlerView
    <3>2. stack' # << >> /\ Top' = [irq |-> Top.irq, stage |-> "eoi", key |-> None]
      BY <2>5, <3>1, HandlerFrame DEF Publish, Stages
    <3>3. Incoming' = None
      BY <3>2 DEF Incoming, Running
    <3>4. Len(Waiting) < KEY_BUFFER_SIZE - 1 /\ Waiting' = Append(Waiting, Incoming)
      BY <2>5, <3>1, PublishWaiting DEF Publish
    <3> QED
      BY <2>1, <3>1, <3>3, <3>4, ScancodeAssumption DEF Queue!Next, Queue!Accept
  <2>6. CASE Eoi \/ InterruptReturn
    <3>1. Incoming = None
      BY <2>6 DEF Eoi, InterruptReturn, Incoming, Running
    <3>2. Waiting' = Waiting
      BY <1>0, <2>6 DEF Eoi, InterruptReturn
    <3>3. Incoming' = None
      <4>1. CASE Eoi
        <5>1. Top' = [irq |-> Top.irq, stage |-> "iret", key |-> None]
          BY <4>1, HandlerFrame DEF Eoi, Running, Stages
        <5> QED BY <5>1 DEF Incoming, Running
      <4>2. CASE InterruptReturn
        <5>1. Len(stack) = 1
          BY <4>2, OneFrame DEF InterruptReturn, Running, TypeOK, NoNesting
        <5>2. stack' = << >>
          BY <4>2, <5>1 DEF InterruptReturn, TypeOK
        <5> QED BY <5>2 DEF Incoming, Running
      <4> QED BY <2>6, <4>1, <4>2
    <3> QED BY <2>1, <3>1, <3>2, <3>3
  <2> QED BY <1>3, <2>2, <2>3, <2>4, <2>5, <2>6 DEF Handler
<1>4. CASE MainLoop
  <2>1. stack = << >> /\ stack' = << >>
    BY <1>4 DEF MainLoop, At, While, Fetch, Advance, Handle, Halt, Cli, Test, StiHlt, Hlt, Sti, cpuVars
  <2>2. Incoming = None /\ Incoming' = None
    BY <2>1 DEF Incoming, Running
  <2>3. CASE Advance
    <3>1. /\ Waiting # << >> /\ Head(Waiting) = scancode /\ Waiting' = Tail(Waiting)
      BY <2>3, AdvanceWaiting DEF Advance, At, MainView
    <3>2. Taken = None /\ Taken' = scancode
      BY <2>3 DEF Advance, At, Goto, Taken
    <3> QED BY <2>2, <3>1, <3>2 DEF Queue!Next, Queue!Take
  <2>4. CASE Handle \/ Halt
    <3>1. Waiting' = Waiting /\ Taken' = None
      BY <1>0, <2>4 DEF Handle, Halt, Goto, Taken
    <3> QED BY <2>2, <3>1 DEF Queue!Next, Queue!Finish
  <2>5. CASE While \/ Fetch \/ Cli \/ Test \/ StiHlt \/ Hlt \/ Sti
    <3>1. Waiting' = Waiting
      BY <1>0, <2>5 DEF While, Fetch, Cli, Test, StiHlt, Hlt, Sti
    <3>2. Taken = None /\ Taken' = None
      BY <2>5 DEF While, Fetch, Cli, Test, StiHlt, Hlt, Sti, At, Goto, Taken
    <3> QED BY <2>2, <3>1, <3>2
  <2> QED BY <1>4, <2>3, <2>4, <2>5 DEF MainLoop
<1> QED BY <1>1, <1>2, <1>3, <1>4 DEF Next

\* The lock-free ring implements the bounded queue: the handlers and the main
\* loop never lose, repeat or reorder a scancode, and one is dropped only when
\* the ring is full (keyboard.c 146-153, 289-318).
THEOREM RingIsAQueue == Spec => IsAQueue
<1> QED BY QueueInit, QueueStep, Invariant, PTL DEF Spec, IsAQueue, Queue!Spec

-----------------------------------------------------------------------------
(* KeyPath: the inductive invariant *)

KeyTypes == /\ is_ctrl \in BOOLEAN /\ made_up \in BOOLEAN /\ misled \in BOOLEAN
            /\ held \subseteq CtrlKeys

\* A flag that agrees with the keys that are down.
Agrees(flag) == (flag => held # {}) /\ (held = CtrlKeys => flag)

\* The flag is one for handling these scancodes, one after the other: that of the
\* last one of a Ctrl key, or what it was.
Leads(flag, keys, result) ==
  \/ /\ \A i \in 1 .. Len(keys) : keys[i] \notin CtrlScancodes
     /\ result = flag
  \/ \E i \in 1 .. Len(keys) :
       /\ keys[i] \in CtrlScancodes
       /\ \A j \in i + 1 .. Len(keys) : keys[j] \notin CtrlScancodes
       /\ result = (keys[i] = KEY_CTRL_PRESSED)

\* The flag once the main loop is done with the scancode it has taken.
FlagAhead == IF pc = "handle" THEN CtrlAfter(is_ctrl, scancode) ELSE is_ctrl

\* A scancode of a Ctrl key waits on port 0x60, in the handler that read it, or in
\* the slot that this handler has not published.
OnPort    == output_byte.key \in CtrlScancodes
InHandler == Running("store") /\ ~made_up /\ Top.key \in CtrlScancodes
InSlot    == Running("publish") /\ Top.key \in CtrlScancodes

\* The last news of a Ctrl key is right wherever it is.
PortAgrees    == OnPort => Agrees(output_byte.key = KEY_CTRL_PRESSED)
HandlerAgrees == InHandler /\ ~OnPort => Agrees(Top.key = KEY_CTRL_PRESSED)
SlotAgrees    == InSlot /\ ~misled /\ ~OnPort => Agrees(Top.key = KEY_CTRL_PRESSED)
RingAgrees ==
  ~misled /\ ~OnPort /\ ~InHandler /\ ~InSlot /\ pc # "halted" =>
    \A flag \in BOOLEAN : Leads(FlagAhead, Waiting, flag) => Agrees(flag)

KeyInv == KeyTypes /\ PortAgrees /\ HandlerAgrees /\ SlotAgrees /\ RingAgrees

-----------------------------------------------------------------------------
(* Handling a sequence of scancodes *)

LEMMA LeadsAppend ==
  ASSUME NEW S, NEW keys \in Seq(S), NEW key \in S, NEW flag \in BOOLEAN,
         NEW result \in BOOLEAN, Leads(flag, Append(keys, key), result)
  PROVE  /\ key \in CtrlScancodes => result = (key = KEY_CTRL_PRESSED)
         /\ key \notin CtrlScancodes => Leads(flag, keys, result)
<1> DEFINE n == Len(keys)
           more == Append(keys, key)
<1>1. n \in Nat /\ Len(more) = n + 1 /\ more[n + 1] = key
  OBVIOUS
<1>2. \A i \in 1 .. n : more[i] = keys[i]
  OBVIOUS
<1> HIDE DEF more, n
<1>3. CASE /\ \A i \in 1 .. n + 1 : more[i] \notin CtrlScancodes
           /\ result = flag
  <2>1. key \notin CtrlScancodes /\ \A i \in 1 .. n : keys[i] \notin CtrlScancodes
    BY <1>1, <1>2, <1>3
  <2> QED BY <1>3, <2>1 DEF Leads, n
<1>4. CASE \E i \in 1 .. n + 1 :
             /\ more[i] \in CtrlScancodes
             /\ \A j \in i + 1 .. n + 1 : more[j] \notin CtrlScancodes
             /\ result = (more[i] = KEY_CTRL_PRESSED)
  <2>1. PICK i \in 1 .. n + 1 : /\ more[i] \in CtrlScancodes
                                /\ \A j \in i + 1 .. n + 1 : more[j] \notin CtrlScancodes
                                /\ result = (more[i] = KEY_CTRL_PRESSED)
    BY <1>4
  <2>2. CASE i = n + 1
    BY <1>1, <2>1, <2>2
  <2>3. CASE i # n + 1
    <3>1. i \in 1 .. n /\ n + 1 \in i + 1 .. n + 1
      BY <1>1, <2>3
    <3>2. key \notin CtrlScancodes
      BY <1>1, <2>1, <3>1
    <3>3. \A j \in i + 1 .. n : keys[j] \notin CtrlScancodes
      BY <1>1, <1>2, <2>1, <3>1
    <3>4. keys[i] \in CtrlScancodes /\ result = (keys[i] = KEY_CTRL_PRESSED)
      BY <1>2, <2>1, <3>1
    <3>5. Leads(flag, keys, result)
      BY <3>1, <3>3, <3>4 DEF Leads, n
    <3> QED BY <3>2, <3>5
  <2> QED BY <2>2, <2>3
<1> QED BY <1>1, <1>3, <1>4 DEF Leads, more, n

LEMMA LeadsTail ==
  ASSUME NEW S, NEW keys \in Seq(S), keys # << >>, NEW flag \in BOOLEAN, NEW result \in BOOLEAN,
         Leads(CtrlAfter(flag, Head(keys)), Tail(keys), result)
  PROVE  Leads(flag, keys, result)
<1> DEFINE n == Len(keys)
           rest == Tail(keys)
<1>1. n \in Nat /\ n > 0 /\ Len(rest) = n - 1 /\ Head(keys) = keys[1]
  OBVIOUS
<1>2. \A i \in 1 .. n - 1 : rest[i] = keys[i + 1]
  BY TailAsFunction
<1> HIDE DEF rest, n
<1>3. CASE /\ \A i \in 1 .. n - 1 : rest[i] \notin CtrlScancodes
           /\ result = CtrlAfter(flag, keys[1])
  <2>1. \A j \in 2 .. n : keys[j] \notin CtrlScancodes
    <3> SUFFICES ASSUME NEW j \in 2 .. n PROVE keys[j] \notin CtrlScancodes
      OBVIOUS
    <3>1. j - 1 \in 1 .. n - 1 /\ (j - 1) + 1 = j
      BY <1>1
    <3> QED BY <1>2, <1>3, <3>1
  <2>2. CASE keys[1] \in CtrlScancodes
    <3>1. result = (keys[1] = KEY_CTRL_PRESSED)
      BY <1>3, <2>2 DEF CtrlAfter, CtrlScancodes
    <3>2. 1 \in 1 .. n /\ 1 + 1 = 2
      BY <1>1
    <3> QED BY <2>1, <2>2, <3>1, <3>2 DEF Leads, n
  <2>3. CASE keys[1] \notin CtrlScancodes
    <3>1. result = flag
      BY <1>3, <2>3 DEF CtrlAfter, CtrlScancodes
    <3>2. \A j \in 1 .. n : keys[j] \notin CtrlScancodes
      BY <1>1, <2>1, <2>3
    <3> QED BY <3>1, <3>2 DEF Leads, n
  <2> QED BY <2>2, <2>3
<1>4. CASE \E i \in 1 .. n - 1 :
             /\ rest[i] \in CtrlScancodes
             /\ \A j \in i + 1 .. n - 1 : rest[j] \notin CtrlScancodes
             /\ result = (rest[i] = KEY_CTRL_PRESSED)
  <2>1. PICK i \in 1 .. n - 1 : /\ rest[i] \in CtrlScancodes
                                /\ \A j \in i + 1 .. n - 1 : rest[j] \notin CtrlScancodes
                                /\ result = (rest[i] = KEY_CTRL_PRESSED)
    BY <1>4
  <2>2. i + 1 \in 1 .. n
    BY <1>1
  <2>3. \A j \in (i + 1) + 1 .. n : keys[j] \notin CtrlScancodes
    <3> SUFFICES ASSUME NEW j \in (i + 1) + 1 .. n PROVE keys[j] \notin CtrlScancodes
      OBVIOUS
    <3>1. j - 1 \in i + 1 .. n - 1 /\ j - 1 \in 1 .. n - 1 /\ (j - 1) + 1 = j
      BY <1>1
    <3> QED BY <1>2, <2>1, <3>1
  <2>4. keys[i + 1] \in CtrlScancodes /\ result = (keys[i + 1] = KEY_CTRL_PRESSED)
    BY <1>2, <2>1
  <2> QED BY <2>2, <2>3, <2>4 DEF Leads, n
<1> QED BY <1>1, <1>3, <1>4 DEF Leads, rest, n

LEMMA FlagTypes ==
  ASSUME NEW flag \in BOOLEAN, NEW key
  PROVE  /\ CtrlAfter(flag, key) \in BOOLEAN
         /\ key \notin CtrlScancodes => CtrlAfter(flag, key) = flag
         /\ key \in CtrlScancodes => CtrlAfter(flag, key) = (key = KEY_CTRL_PRESSED)
BY CtrlAssumption DEF CtrlAfter, CtrlScancodes

-----------------------------------------------------------------------------
(* The invariant is inductive *)

\* The key path is KeyBuffer with the keys of the user.
LEMMA StepOfKeyBuffer == [PathNext]_pathVars => [Next]_vars
BY DEF PathNext, KeyMoves, PathKeyboardRead, PathStore, PathHandle, Elsewhere, pathVars,
   Next, Handler, MainLoop

LEMMA KeyInit == PathInit => KeyInv
<1> SUFFICES ASSUME PathInit PROVE KeyInv
  OBVIOUS
<1>1. IInv /\ ~HasInput
  BY InitInv DEF PathInit, Init, HasInput
<1>2. Waiting = << >> /\ Len(Waiting) = 0
  BY <1>1, WaitingSeq, CountFacts DEF IInv, TypeOK
<1>3. KeyTypes /\ ~OnPort /\ ~InHandler /\ ~InSlot /\ FlagAhead = is_ctrl
  BY DEF PathInit, Init, KeyTypes, OnPort, InHandler, InSlot, Running, FlagAhead
<1>4. \A flag \in BOOLEAN : Leads(FlagAhead, Waiting, flag) => flag = is_ctrl
  BY <1>2, <1>3 DEF Leads
<1>5. Agrees(is_ctrl)
  BY CtrlAssumption DEF PathInit, Agrees
<1> QED BY <1>3, <1>4, <1>5 DEF KeyInv, PortAgrees, HandlerAgrees, SlotAgrees, RingAgrees

\* The ring as it was.
LEMMA SameWaiting == UNCHANGED ringVars => Waiting' = Waiting
BY DEF ringVars, Waiting, Count

\* A step that moves no scancode and changes no key keeps what it leads to.
LEMMA Quiet ==
  ASSUME KeyInv, UNCHANGED <<ringVars, is_ctrl, keyVars>>,
         OnPort' <=> OnPort, OnPort => output_byte' = output_byte,
         pc' # "halted" => pc # "halted" /\ FlagAhead' = FlagAhead,
         ~InHandler, ~InHandler', ~InSlot, ~InSlot'
  PROVE  KeyInv'
<1>1. Waiting' = Waiting
  BY SameWaiting
<1>2. UNCHANGED <<is_ctrl, held, made_up, misled>>
  BY DEF keyVars
<1>3. KeyTypes' /\ PortAgrees'
  BY <1>2 DEF KeyInv, KeyTypes, PortAgrees, Agrees
<1>4. HandlerAgrees' /\ SlotAgrees'
  BY DEF HandlerAgrees, SlotAgrees
<1>5. RingAgrees'
  BY <1>1, <1>2 DEF KeyInv, RingAgrees, Agrees
<1> QED BY <1>3, <1>4, <1>5 DEF KeyInv

\* A key goes down or up: its scancode is right about the keys that are down.
LEMMA KeyMovesInv == ASSUME IInv, KeyInv, KeyMoves PROVE KeyInv'
<1>1. /\ output_byte = NoByte /\ output_byte' \in OutputBytes
      /\ UNCHANGED <<ringVars, scancode, pc, stack, is_ctrl, made_up, misled>>
  BY DEF KeyMoves, DeviceByte, mainVars, cpuVars
<1>2. ~OnPort
  BY <1>1, CtrlAssumption, ScancodeAssumption DEF OnPort, NoByte
<1>3. InHandler' = InHandler /\ FlagAhead' = FlagAhead /\ Waiting' = Waiting
  BY <1>1, SameWaiting DEF InHandler, Running, Top, FlagAhead
<1>4. InSlot' = InSlot
  BY <1>1 DEF InSlot, Running, Top
<1>5. CASE output_byte'.key \notin CtrlScancodes /\ UNCHANGED held
  <2>1. ~OnPort' /\ \A flag : Agrees(flag)' = Agrees(flag)
    BY <1>5 DEF OnPort, Agrees
  <2>2. KeyTypes' /\ PortAgrees'
    BY <1>1, <1>5, <2>1 DEF KeyInv, KeyTypes, PortAgrees
  <2>3. HandlerAgrees' /\ SlotAgrees'
    BY <1>1, <1>2, <1>3, <1>4, <1>5 DEF KeyInv, HandlerAgrees, SlotAgrees, Agrees, Top
  <2>4. RingAgrees'
    BY <1>1, <1>2, <1>3, <1>4, <1>5 DEF KeyInv, RingAgrees, Agrees
  <2> QED BY <2>2, <2>3, <2>4 DEF KeyInv
<1>6. CASE \E key \in CtrlKeys \ held :
             output_byte'.key = KEY_CTRL_PRESSED /\ held' = held \cup {key}
  <2>1. OnPort' /\ held' # {} /\ held' \subseteq CtrlKeys
    BY <1>6 DEF OnPort, CtrlScancodes, KeyInv, KeyTypes
  <2>2. PortAgrees'
    BY <1>6, <2>1 DEF PortAgrees, Agrees
  <2> QED BY <1>1, <2>1, <2>2 DEF KeyInv, KeyTypes, HandlerAgrees, SlotAgrees, RingAgrees
<1>7. CASE \E key \in held :
             output_byte'.key = KEY_CTRL_RELEASED /\ held' = held \ {key}
  <2>1. OnPort' /\ held' \subseteq CtrlKeys /\ held' # CtrlKeys
    BY <1>7 DEF OnPort, CtrlScancodes, KeyInv, KeyTypes
  <2>2. PortAgrees'
    BY <1>7, <2>1, CtrlAssumption DEF PortAgrees, Agrees
  <2> QED BY <1>1, <2>1, <2>2 DEF KeyInv, KeyTypes, HandlerAgrees, SlotAgrees, RingAgrees
<1> QED BY <1>5, <1>6, <1>7 DEF KeyMoves

\* The keyboard handler reads the byte of a key, or one that is not news.
LEMMA KeyboardReadInv == ASSUME IInv, KeyInv, PathKeyboardRead PROVE KeyInv'
<1>1. /\ stack # << >> /\ ~Running("store") /\ ~Running("publish")
      /\ output_byte' = NoByte /\ made_up' = (output_byte.irq # KEYBOARD)
      /\ UNCHANGED <<ringVars, mainVars, interrupts, sti_shadow, is_ctrl, held, misled>>
  BY DEF PathKeyboardRead, KeyboardRead, Running
<1>2. PICK key \in Scancodes :
        Continue("store", key) /\ (output_byte.irq = KEYBOARD => key = output_byte.key)
  BY ScancodeAssumption DEF PathKeyboardRead, KeyboardRead, IInv, TypeOK, OutputBytes, MouseBytes, NoByte, KEYBOARD, MOUSE
<1>3. stack' # << >> /\ Top' = [irq |-> Top.irq, stage |-> "store", key |-> key]
  BY <1>1, <1>2, HandlerFrame DEF Stages
<1>4. Running("store")' /\ ~InSlot' /\ Top'.key = key
  BY <1>3 DEF Running, InSlot
<1>5. ~OnPort' /\ ~InHandler /\ ~InSlot
  BY <1>1, CtrlAssumption, ScancodeAssumption DEF OnPort, InHandler, InSlot, NoByte
<1>6. OnPort => output_byte.irq = KEYBOARD
  BY CtrlAssumption, ScancodeAssumption DEF OnPort, IInv, TypeOK, OutputBytes, MouseBytes, NoByte
<1>7. InHandler' => OnPort /\ key = output_byte.key
  BY <1>1, <1>2, <1>4 DEF InHandler, OnPort
<1>8. OnPort => InHandler'
  BY <1>1, <1>2, <1>4, <1>6 DEF InHandler, OnPort
<1>9. KeyTypes'
  BY <1>1 DEF KeyInv, KeyTypes
<1>10. HandlerAgrees'
  <2>1. InHandler' => Agrees(key = KEY_CTRL_PRESSED)
    BY <1>7 DEF KeyInv, PortAgrees
  <2> QED BY <1>1, <1>4, <2>1 DEF HandlerAgrees, Agrees
<1>11. RingAgrees'
  <2>1. FlagAhead' = FlagAhead /\ Waiting' = Waiting /\ pc' = pc
    BY <1>1, SameWaiting DEF FlagAhead, mainVars
  <2> QED BY <1>1, <1>5, <1>8, <2>1 DEF KeyInv, RingAgrees, Agrees
<1> QED BY <1>4, <1>5, <1>9, <1>10, <1>11 DEF KeyInv, PortAgrees, SlotAgrees

\* The handler writes the scancode in the ring, or drops it.
LEMMA StoreInv == ASSUME IInv, KeyInv, PathStore PROVE KeyInv'
<1>1. /\ Running("store") /\ stack # << >> /\ made_up' = FALSE
      /\ misled' = IF Top.key \notin CtrlScancodes \/ (RingFull /\ made_up)
                   THEN misled ELSE RingFull \/ made_up
      /\ UNCHANGED <<key_buffer_head, key_buffer_tail, mainVars, interrupts, sti_shadow,
                     output_byte, is_ctrl, held>>
  BY DEF PathStore, Store, Running
<1>2. /\ Top.key \in Scancodes /\ ~InSlot
      /\ \A flag : Agrees(flag)' = Agrees(flag)
      /\ FlagAhead' = FlagAhead /\ pc' = pc /\ OnPort' = OnPort
  BY <1>1 DEF IInv, HandlerView, InSlot, Running, Agrees, FlagAhead, OnPort, mainVars
<1>3. KeyTypes' /\ PortAgrees'
  BY <1>1, <1>2 DEF KeyInv, KeyTypes, PortAgrees, Agrees
<1>4. CASE RingFull
  <2>1. /\ Continue("eoi", None) /\ UNCHANGED ringVars
    BY <1>1, <1>4 DEF PathStore, Store, ringVars
  <2>2. stack' # << >> /\ Top' = [irq |-> Top.irq, stage |-> "eoi", key |-> None]
    BY <1>1, <2>1, HandlerFrame DEF Stages
  <2>3. ~InHandler' /\ ~InSlot' /\ Waiting' = Waiting
    BY <2>1, <2>2, SameWaiting DEF InHandler, InSlot, Running
  <2>4. ~misled' => ~misled /\ ~InHandler
    BY <1>1, <1>4 DEF InHandler
  <2>5. RingAgrees'
    BY <1>1, <1>2, <2>3, <2>4 DEF KeyInv, RingAgrees, Agrees
  <2> QED BY <1>3, <2>3, <2>5 DEF KeyInv, HandlerAgrees, SlotAgrees
<1>5. CASE ~RingFull
  <2>1. Continue("publish", Top.key)
    BY <1>5 DEF PathStore, Store
  <2>2. stack' # << >> /\ Top' = [irq |-> Top.irq, stage |-> "publish", key |-> Top.key]
    BY <1>1, <1>2, <2>1, HandlerFrame DEF Stages
  <2>3. ~InHandler' /\ Running("publish")' /\ Top'.key = Top.key
    BY <2>2 DEF InHandler, Running
  <2>4. Waiting' = Waiting
    BY <1>1, <1>5, StoreWaiting DEF PathStore, Store, IInv
  <2>5. InSlot' /\ ~misled' => InHandler
    BY <1>1, <1>5, <2>3 DEF InSlot, InHandler
  <2>6. SlotAgrees'
    BY <1>1, <1>2, <2>3, <2>5 DEF KeyInv, HandlerAgrees, SlotAgrees, Agrees
  <2>7. ~InSlot' /\ ~misled' => ~misled /\ ~InHandler
    BY <1>1, <2>3 DEF InSlot, InHandler
  <2>8. RingAgrees'
    BY <1>1, <1>2, <2>4, <2>7 DEF KeyInv, RingAgrees, Agrees
  <2> QED BY <1>3, <2>3, <2>6, <2>8 DEF KeyInv, HandlerAgrees
<1> QED BY <1>4, <1>5

\* The scancode stored becomes the last of the ring.
LEMMA PublishInv ==
  ASSUME IInv, IInv', KeyInv, Publish, UNCHANGED <<is_ctrl, keyVars>>
  PROVE  KeyInv'
<1>1. /\ Running("publish") /\ stack # << >> /\ ~RingFull
      /\ Top.key \in Scancodes /\ key_buffer[key_buffer_head] = Top.key
      /\ key_buffer_head' = NextSlot(key_buffer_head) /\ Continue("eoi", None)
      /\ UNCHANGED <<key_buffer, key_buffer_tail, mainVars, interrupts, sti_shadow,
                     output_byte, is_ctrl, held, made_up, misled>>
  BY DEF Publish, Running, IInv, HandlerView, keyVars
<1>2. stack' # << >> /\ Top' = [irq |-> Top.irq, stage |-> "eoi", key |-> None]
  BY <1>1, HandlerFrame DEF Stages
<1>3. ~InHandler /\ ~InHandler' /\ ~InSlot' /\ OnPort' = OnPort
  BY <1>1, <1>2 DEF InHandler, InSlot, Running, OnPort
<1>4. FlagAhead' = FlagAhead /\ pc' = pc
  BY <1>1 DEF FlagAhead, mainVars
<1>5. Waiting' = Append(Waiting, Top.key)
  BY <1>1, PublishWaiting DEF IInv
<1>6. Waiting \in Seq(Scancodes \cup {None}) /\ FlagAhead \in BOOLEAN
  BY WaitingSeq, FlagTypes DEF IInv, KeyInv, KeyTypes, FlagAhead
<1>7. KeyTypes' /\ PortAgrees'
  BY <1>1, <1>3 DEF KeyInv, KeyTypes, PortAgrees, Agrees
<1>8. RingAgrees'
  <2> SUFFICES ASSUME ~misled, ~OnPort, pc # "halted",
                      NEW flag \in BOOLEAN, Leads(FlagAhead, Append(Waiting, Top.key), flag)
               PROVE  Agrees(flag)
    BY <1>1, <1>3, <1>4, <1>5 DEF RingAgrees, Agrees
  <2>1. CASE Top.key \in CtrlScancodes
    <3>1. flag = (Top.key = KEY_CTRL_PRESSED)
      BY <1>1, <1>6, <2>1, LeadsAppend
    <3>2. Agrees(Top.key = KEY_CTRL_PRESSED)
      BY <1>1, <2>1 DEF KeyInv, SlotAgrees, InSlot
    <3> QED BY <3>1, <3>2
  <2>2. CASE Top.key \notin CtrlScancodes
    <3>1. Leads(FlagAhead, Waiting, flag)
      BY <1>1, <1>6, <2>2, LeadsAppend
    <3> QED BY <1>1, <1>3, <2>2, <3>1 DEF KeyInv, RingAgrees, InSlot
  <2> QED BY <2>1, <2>2
<1> QED BY <1>3, <1>7, <1>8 DEF KeyInv, HandlerAgrees, SlotAgrees

\* The main loop takes the oldest scancode, with what it has to do to the flag.
LEMMA AdvanceInv ==
  ASSUME IInv, IInv', KeyInv, Advance, UNCHANGED <<is_ctrl, keyVars>>
  PROVE  KeyInv'
<1>1. /\ stack = << >> /\ stack' = << >> /\ pc = "advance" /\ pc' = "handle"
      /\ key_buffer_tail' = NextSlot(key_buffer_tail)
      /\ UNCHANGED <<key_buffer, key_buffer_head, scancode, output_byte, is_ctrl, held, made_up, misled>>
  BY DEF Advance, At, Goto, cpuVars, keyVars
<1>2. ~InHandler /\ ~InHandler' /\ ~InSlot /\ ~InSlot' /\ OnPort' = OnPort
  BY <1>1 DEF InHandler, InSlot, Running, OnPort
<1>3. /\ Waiting # << >> /\ Waiting' = Tail(Waiting) /\ Head(Waiting) = scancode
  BY <1>1, AdvanceWaiting DEF IInv, MainView
<1>4. FlagAhead = is_ctrl /\ FlagAhead' = CtrlAfter(is_ctrl, scancode) /\ is_ctrl \in BOOLEAN
  BY <1>1 DEF FlagAhead, KeyInv, KeyTypes
<1>5. Waiting \in Seq(Scancodes \cup {None})
  BY WaitingSeq DEF IInv
<1>6. \A flag \in BOOLEAN : Leads(FlagAhead', Waiting', flag) => Leads(FlagAhead, Waiting, flag)
  BY <1>3, <1>4, <1>5, LeadsTail
<1>7. KeyTypes' /\ PortAgrees'
  BY <1>1, <1>2 DEF KeyInv, KeyTypes, PortAgrees, Agrees
<1>8. RingAgrees'
  BY <1>1, <1>2, <1>6 DEF KeyInv, RingAgrees, Agrees, Leads
<1> QED BY <1>2, <1>7, <1>8 DEF KeyInv, HandlerAgrees, SlotAgrees

\* handle_scancode() does it.
LEMMA HandleInv == ASSUME IInv, KeyInv, PathHandle PROVE KeyInv'
<1>1. /\ stack = << >> /\ stack' = << >> /\ pc = "handle" /\ pc' = "while"
      /\ is_ctrl' = CtrlAfter(is_ctrl, scancode)
      /\ UNCHANGED <<ringVars, output_byte, held, made_up, misled>>
  BY DEF PathHandle, Handle, At, Goto, cpuVars, keyVars
<1>2. ~InHandler /\ ~InHandler' /\ ~InSlot /\ ~InSlot' /\ OnPort' = OnPort
  BY <1>1 DEF InHandler, InSlot, Running, OnPort
<1>3. FlagAhead' = FlagAhead /\ Waiting' = Waiting
  BY <1>1, SameWaiting DEF FlagAhead
<1>4. KeyTypes' /\ PortAgrees'
  BY <1>1, <1>2, FlagTypes DEF KeyInv, KeyTypes, PortAgrees, Agrees
<1>5. RingAgrees'
  BY <1>1, <1>2, <1>3 DEF KeyInv, RingAgrees, Agrees
<1> QED BY <1>2, <1>4, <1>5 DEF KeyInv, HandlerAgrees, SlotAgrees

\* The other steps, which move no scancode of a Ctrl key.
LEMMA ElsewhereInv == ASSUME IInv, IInv', KeyInv, Elsewhere PROVE KeyInv'
<1>1. UNCHANGED <<is_ctrl, keyVars>>
  BY DEF Elsewhere
<1>2. ASSUME NEW irq \in Irqs, InterruptEntry(irq) PROVE KeyInv'
  <2>1. stack = << >> /\ stack' = Append(stack, [irq |-> irq, stage |-> "read", key |-> None])
    BY <1>2 DEF InterruptEntry, IInv, Masking
  <2>2. Top'.stage = "read"
    BY <2>1 DEF Top
  <2>3. ~InHandler /\ ~InHandler' /\ ~InSlot /\ ~InSlot'
    BY <2>1, <2>2 DEF InHandler, InSlot, Running
  <2>4. UNCHANGED <<ringVars, scancode, output_byte, is_ctrl>>
    BY <1>1, <1>2 DEF InterruptEntry
  <2>5. (OnPort' <=> OnPort) /\ FlagAhead' = FlagAhead /\ (pc' # "halted" => pc # "halted")
    BY <1>2, <2>4 DEF InterruptEntry, OnPort, FlagAhead
  <2> QED BY <1>1, <2>3, <2>4, <2>5, Quiet
<1>3. CASE MouseRead
  <2>1. PICK s \in {"eoi", "store"}, k \in Scancodes \cup {None} :
          Continue(s, k) /\ k \notin CtrlScancodes
    BY <1>3, ScancodeAssumption, CtrlAssumption
       DEF MouseRead, IInv, TypeOK, OutputBytes, MouseBytes, NoByte, KEYBOARD, MOUSE
  <2>2. /\ stack # << >> /\ ~Running("store") /\ ~Running("publish")
        /\ UNCHANGED <<ringVars, mainVars, interrupts, sti_shadow>>
    BY <1>3 DEF MouseRead, Running
  <2>3. stack' # << >> /\ Top' = [irq |-> Top.irq, stage |-> s, key |-> k]
    BY <2>1, <2>2, HandlerFrame DEF Stages
  <2>4. ~InHandler /\ ~InHandler' /\ ~InSlot /\ ~InSlot'
    BY <2>1, <2>2, <2>3 DEF InHandler, InSlot, Running
  <2>5. (OnPort' <=> OnPort) /\ (OnPort => output_byte' = output_byte)
    BY <1>3, CtrlAssumption, ScancodeAssumption
       DEF MouseRead, IInv, TypeOK, OutputBytes, MouseBytes, NoByte, KEYBOARD, MOUSE, OnPort
  <2>6. FlagAhead' = FlagAhead /\ pc' = pc
    BY <1>1, <2>2 DEF FlagAhead, mainVars
  <2> QED BY <1>1, <2>2, <2>4, <2>5, <2>6, Quiet
<1>4. CASE Eoi \/ InterruptReturn
  <2>1. /\ stack # << >> /\ ~Running("store") /\ ~Running("publish")
        /\ UNCHANGED <<ringVars, mainVars, sti_shadow, output_byte>>
    BY <1>4 DEF Eoi, InterruptReturn, Running
  <2>2. ~Running("store")' /\ ~Running("publish")'
    <3>1. CASE Eoi
      <4>1. Continue("iret", None) /\ UNCHANGED interrupts
        BY <3>1 DEF Eoi
      <4>2. Top' = [irq |-> Top.irq, stage |-> "iret", key |-> None]
        BY <2>1, <4>1, HandlerFrame DEF Stages
      <4> QED BY <4>2 DEF Running
    <3>2. CASE InterruptReturn
      <4>1. Len(stack) = 1
        BY <2>1, OneFrame DEF IInv, TypeOK, NoNesting
      <4>2. stack' = << >>
        BY <3>2, <4>1 DEF InterruptReturn, IInv, TypeOK
      <4> QED BY <4>2 DEF Running
    <3> QED BY <1>4, <3>1, <3>2
  <2>3. ~InHandler /\ ~InHandler' /\ ~InSlot /\ ~InSlot' /\ (OnPort' <=> OnPort)
    BY <2>1, <2>2 DEF InHandler, InSlot, OnPort
  <2>4. FlagAhead' = FlagAhead /\ pc' = pc
    BY <1>1, <2>1 DEF FlagAhead, mainVars
  <2> QED BY <1>1, <2>1, <2>3, <2>4, Quiet
<1>5. CASE While \/ Fetch \/ Halt \/ Cli \/ Test \/ StiHlt \/ Hlt \/ Sti \/ StayHalted
  <2>1. stack = << >> /\ stack' = << >> /\ UNCHANGED <<ringVars, output_byte>>
    BY <1>5 DEF At, While, Fetch, Halt, Cli, Test, StiHlt, Hlt, Sti, StayHalted, cpuVars, vars
  <2>2. ~InHandler /\ ~InHandler' /\ ~InSlot /\ ~InSlot' /\ (OnPort' <=> OnPort)
    BY <2>1 DEF InHandler, InSlot, Running, OnPort
  <2>3. pc' # "halted" => pc \notin {"halted", "handle"} /\ pc' # "handle"
    BY <1>5 DEF At, Goto, While, Fetch, Halt, Cli, Test, StiHlt, Hlt, Sti, StayHalted, vars, mainVars
  <2>4. pc' # "halted" => pc # "halted" /\ FlagAhead' = FlagAhead
    BY <1>1, <2>3 DEF FlagAhead
  <2> QED BY <1>1, <2>1, <2>2, <2>4, Quiet
<1>6. CASE Publish
  BY <1>1, <1>6, PublishInv
<1>7. CASE Advance
  BY <1>1, <1>7, AdvanceInv
<1> QED BY <1>2, <1>3, <1>4, <1>5, <1>6, <1>7 DEF Elsewhere

LEMMA PathStutter == ASSUME KeyInv, UNCHANGED pathVars PROVE KeyInv'
<1>1. UNCHANGED <<ringVars, scancode, pc, stack, output_byte, is_ctrl, held, made_up, misled>>
  BY DEF pathVars, vars, mainVars, cpuVars, keyVars
<1>2. Waiting' = Waiting /\ FlagAhead' = FlagAhead
  BY <1>1, SameWaiting DEF FlagAhead
<1>3. OnPort' = OnPort /\ InHandler' = InHandler /\ InSlot' = InSlot /\ Top' = Top
  BY <1>1 DEF OnPort, InHandler, InSlot, Running, Top
<1> QED BY <1>1, <1>2, <1>3 DEF KeyInv, KeyTypes, PortAgrees, HandlerAgrees, SlotAgrees, RingAgrees, Agrees

-----------------------------------------------------------------------------
(* The theorems *)

\* With the keys of the user, the key path is still that of KeyBuffer: whatever is
\* proved of the ring and of the main loop there holds here.
THEOREM PathIsKeyBuffer == PathSpec => Spec
<1>1. PathInit => Init
  BY DEF PathInit
<1> QED BY <1>1, StepOfKeyBuffer, PTL DEF PathSpec, Spec

THEOREM PathInvariant == PathSpec => [](IInv /\ KeyInv)
<1>1. IInv /\ IInv' /\ KeyInv /\ [PathNext]_pathVars => KeyInv'
  BY KeyMovesInv, KeyboardReadInv, StoreInv, HandleInv, ElsewhereInv, PathStutter DEF PathNext
<1>2. PathSpec => []IInv
  BY PathIsKeyBuffer, Invariant, PTL
<1> QED BY <1>1, <1>2, KeyInit, PTL DEF PathSpec

\* Once the main loop has caught up, is_ctrl is right about the keys unless the last
\* news of one was dropped on a full ring or made up (keyboard.c 184-190, 297-303).
THEOREM CtrlIsRight == PathSpec => []CtrlFollowsKeys
<1>1. IInv /\ KeyInv => CtrlFollowsKeys
  <2> SUFFICES ASSUME IInv, KeyInv, Drained, ~misled PROVE Agrees(is_ctrl)
    BY DEF CtrlFollowsKeys, Agrees
  <2>1. ~OnPort /\ ~InHandler /\ ~InSlot /\ FlagAhead = is_ctrl /\ pc # "halted" /\ ~HasInput
    BY CtrlAssumption, ScancodeAssumption DEF Drained, OnPort, InHandler, InSlot, Running, FlagAhead, NoByte
  <2>2. Len(Waiting) = 0
    BY <2>1, WaitingSeq, CountFacts DEF IInv, TypeOK
  <2>3. Leads(FlagAhead, Waiting, is_ctrl) /\ is_ctrl \in BOOLEAN
    BY <2>1, <2>2 DEF Leads, KeyInv, KeyTypes
  <2> QED BY <2>1, <2>3 DEF KeyInv, RingAgrees
<1> QED BY <1>1, PathInvariant, PTL
=============================================================================
