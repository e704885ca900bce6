-------------------------- MODULE InterruptsProofs --------------------------
(***************************************************************************)
(* Proofs about Interrupts, for any exceptions and IRQs, any program and   *)
(* any depth of interrupts on top of one another.                          *)
(***************************************************************************)
EXTENDS Interrupts, SequenceTheorems, TLAPS

-----------------------------------------------------------------------------
(* The inductive invariant *)

Depth == Len(entered)

\* The registers and the top of the stack of each level, as AddressOf.
RegistersOf(i) == IF i = Depth THEN registers ELSE entered[i + 1].registers
TopOf(i)       == IF i = Depth THEN Len(stack) ELSE entered[i + 1].height

\* How many words of interrupt_frame_t are on the stack at each instruction of the
\* stubs.
Pushed(address) ==
  CASE address < 200 -> 3
    [] 200 <= address /\ address < 300 -> 4
    [] address \in {PUSHA, DROP_CODE} -> 5
    [] address \in {PUSH_ESP, POPA} -> 6
    [] address \in HANDLER .. DROP_ESP -> 7
    [] address = IRETD -> 3

InStub(vector, address) ==
  \/ address = PushCode(vector) /\ vector \notin StubsWithErrorCode
  \/ address = PushVector(vector)
  \/ address \in PUSHA .. IRETD

\* The words of interrupt_frame_t, from the first one pushed, and its address.
RightWord(word, level, k) ==
  /\ k = 1 => word = Word("eflags", level.flag)
  /\ k = 2 => word.what = "cs"
  /\ k = 3 => word = Word("eip", level.eip)
  /\ k = 4 => word.what = "code"
  /\ k = 5 => word = Word("vector", level.vector)
  /\ k = 6 => word = Word("registers", level.registers)
  /\ k = 7 => word = Word("esp", level.height + 6)

\* What one level has pushed, up to the top of its stack, and the registers it has:
\* those of the program below where it has not changed or has restored them.
Frame(words, level, address, regs, top) ==
  /\ InStub(level.vector, address)
  /\ top = level.height + Pushed(address)
  /\ \A k \in 1 .. Pushed(address) : RightWord(words[level.height + k], level, k)
  /\ address \notin PUSH_ESP .. POPA => regs = level.registers
  /\ address \in {EOI_SLAVE, EOI_MASTER} => level.vector >= PIC_OFFSET

Frames ==
  \A i \in 1 .. Depth : Frame(stack, entered[i], AddressOf(i), RegistersOf(i), TopOf(i))

\* Only the program is interrupted by an IRQ, and each level starts where the one
\* below has stopped.
Nesting ==
  /\ interrupts <=> Depth = 0
  /\ AddressOf(0) < MainSize /\ TopOf(0) = 0
  /\ \A i \in 1 .. Depth : entered[i].flag = IF i = 1 THEN 1 ELSE 0
  /\ \A i \in 1 .. Depth : entered[i].vector >= PIC_OFFSET => i = 1
  /\ \A i \in 1 .. Depth : \A j \in 1 .. i : entered[j].height <= entered[i].height

\* An interrupt has the lines of its IRQ at most, an exception none, and those of
\* the IRQ under all exceptions are in service.
Served ==
  /\ \A i \in 1 .. Depth :
       IF entered[i].vector < PIC_OFFSET THEN entered[i].lines = {}
       ELSE entered[i].lines \subseteq Lines(entered[i].vector - PIC_OFFSET)
  /\ in_service = IF Depth = 0 THEN {} ELSE Unacknowledged(1)

IInv == TypeOK /\ Frames /\ Nesting /\ Served

-----------------------------------------------------------------------------
(* Facts *)

\* A level that is where a stub can be.
Vectors == 0 .. PIC_OFFSET + PIC_IRQ_COUNT - 1

LEMMA LevelTypes ==
  ASSUME TypeOK
  PROVE  /\ Depth \in Nat
         /\ \A i \in 1 .. Depth :
              /\ entered[i] \in Levels
              /\ entered[i].vector \in Vectors /\ entered[i].vector \in 0 .. 47
              /\ entered[i].eip \in Nat /\ entered[i].flag \in {0, 1}
              /\ entered[i].registers \in Registers /\ entered[i].height \in Nat
              /\ entered[i].lines \subseteq 0 .. 15
<1>1. Depth \in Nat /\ \A i \in 1 .. Depth : entered[i] \in Levels
  BY DEF TypeOK, Depth
<1>2. \A level \in Levels :
        /\ level.vector \in Vectors /\ level.vector \in 0 .. 47
        /\ level.eip \in Nat /\ level.flag \in {0, 1}
        /\ level.registers \in Registers /\ level.height \in Nat
        /\ level.lines \subseteq 0 .. 15
  BY DEF Levels, Vectors, PIC_OFFSET, PIC_IRQ_COUNT
<1> QED BY <1>1, <1>2

LEMMA PushedWords ==
  ASSUME NEW a, NEW v \in 0 .. 47, InStub(v, a)
  PROVE  /\ a \in 100 .. 147 \/ a \in 200 .. 247 \/ a \in 301 .. 309
         /\ a \in 100 .. 147 => Pushed(a) = 3
         /\ a \in 200 .. 247 => Pushed(a) = 4
         /\ a \in {301, 308} => Pushed(a) = 5
         /\ a \in {302, 307} => Pushed(a) = 6
         /\ a \in 303 .. 306 => Pushed(a) = 7
         /\ a = 309 => Pushed(a) = 3
         /\ Pushed(a) \in 3 .. 7
<1>1. a \in 100 .. 147 \/ a \in 200 .. 247 \/ a \in 301 .. 309
  BY DEF InStub, PushCode, PushVector, PUSHA, IRETD
<1> USE DEF Pushed, PUSHA, PUSH_ESP, HANDLER, DROP_ESP, POPA, DROP_CODE, IRETD
<1>2. CASE a \in 100 .. 147
  BY <1>2
<1>3. CASE a \in 200 .. 247
  BY <1>3
<1>4. CASE a \in 301 .. 309
  BY <1>4
<1> QED BY <1>1, <1>2, <1>3, <1>4

LEMMA PushedRange ==
  ASSUME NEW a, NEW v \in 0 .. 47, InStub(v, a)
  PROVE  Pushed(a) \in 3 .. 7
BY PushedWords

\* The stacks s and t are the same up to the word m.
Same(s, t, m) == \A j \in 1 .. m : t[j] = s[j]

\* What is on the stack above a level does not matter to it.
LEMMA FrameSame ==
  ASSUME NEW s, NEW t, NEW level \in Levels, NEW a, NEW regs, NEW top,
         Frame(s, level, a, regs, top), Same(s, t, top)
  PROVE  Frame(t, level, a, regs, top)
<1>1. level.height \in Nat /\ level.vector \in 0 .. 47
  BY DEF Levels, PIC_OFFSET, PIC_IRQ_COUNT
<1>2. Pushed(a) \in 3 .. 7 /\ top = level.height + Pushed(a)
  BY <1>1, PushedWords DEF Frame
<1>3. \A k \in 1 .. Pushed(a) : t[level.height + k] = s[level.height + k]
  BY <1>1, <1>2 DEF Same
<1> QED BY <1>3 DEF Frame

\* A step of the stubs, which only changes what its own level has pushed, keeps
\* the levels below.
LEMMA OwnStep ==
  ASSUME IInv, TypeOK', Depth # 0, UNCHANGED <<entered, interrupts>>,
         Same(stack, stack', Current.height),
         Frame(stack', Current, eip', registers', Len(stack')),
         in_service' = Unacknowledged(1)'
  PROVE  IInv'
<1>1. Depth \in Nat /\ Depth' = Depth /\ Current \in Levels /\ Current = entered[Depth]
  BY LevelTypes DEF IInv, Depth, Current
<1>2. \A i \in 0 .. Depth - 1 : /\ AddressOf(i)' = AddressOf(i)
                               /\ RegistersOf(i)' = RegistersOf(i)
                               /\ TopOf(i)' = TopOf(i)
  BY <1>1 DEF AddressOf, RegistersOf, TopOf, Depth
<1>3. Frames'
  <2> SUFFICES ASSUME NEW i \in 1 .. Depth
               PROVE  Frame(stack', entered[i], AddressOf(i)', RegistersOf(i)', TopOf(i)')
    BY <1>1 DEF Frames
  <2>1. CASE i = Depth
    BY <1>1, <2>1 DEF AddressOf, RegistersOf, TopOf, Depth, Current
  <2>2. CASE i < Depth
    <3>1. Frame(stack, entered[i], AddressOf(i), RegistersOf(i), TopOf(i))
      BY DEF IInv, Frames
    <3>2. TopOf(i) = entered[i + 1].height /\ TopOf(i) <= Current.height /\ TopOf(i) \in Nat
      <4>1. i + 1 \in 1 .. Depth /\ i # Depth
        BY <1>1, <2>2
      <4>2. entered[i + 1].height <= entered[Depth].height
        BY <1>1, <4>1 DEF IInv, Nesting
      <4> QED BY <1>1, <4>1, <4>2, LevelTypes DEF IInv, TopOf
    <3>3. Same(stack, stack', TopOf(i))
      <4>1. Current.height \in Nat
        BY <1>1 DEF Levels
      <4>2. \A j \in 1 .. TopOf(i) : j \in 1 .. Current.height
        BY <3>2, <4>1
      <4> QED BY <4>2 DEF Same
    <3>4. Frame(stack', entered[i], AddressOf(i), RegistersOf(i), TopOf(i))
      BY <3>1, <3>3, LevelTypes, FrameSame DEF IInv
    <3> QED BY <1>1, <1>2, <2>2, <3>4
  <2> QED BY <1>1, <2>1, <2>2
<1>4. Nesting'
  BY <1>1, <1>2 DEF IInv, Nesting, Depth
<1>5. Served'
  BY <1>1 DEF IInv, Served
<1> QED BY <1>3, <1>4, <1>5 DEF IInv

\* Words pushed leave those below alone.
LEMMA PushFacts ==
  ASSUME NEW s \in Seq(Words), NEW w \in Seq(Words)
  PROVE  /\ s \o w \in Seq(Words) /\ Len(s \o w) = Len(s) + Len(w)
         /\ Len(s) \in Nat /\ Len(w) \in Nat
         /\ \A j \in 1 .. Len(s) : (s \o w)[j] = s[j]
         /\ \A j \in 1 .. Len(w) : (s \o w)[Len(s) + j] = w[j]
BY ConcatProperties

LEMMA PushOne ==
  ASSUME NEW s \in Seq(Words), NEW w, <<w>> \in Seq(Words)
  PROVE  /\ s \o <<w>> \in Seq(Words) /\ Len(s \o <<w>>) = Len(s) + 1
         /\ \A j \in 1 .. Len(s) : (s \o <<w>>)[j] = s[j]
         /\ (s \o <<w>>)[Len(s) + 1] = w
<1>1. Len(<<w>>) = 1 /\ <<w>>[1] = w
  OBVIOUS
<1> QED BY <1>1, PushFacts

LEMMA DropFacts ==
  ASSUME NEW S, NEW s \in Seq(S), NEW n \in 0 .. Len(s)
  PROVE  /\ SubSeq(s, 1, Len(s) - n) \in Seq(S) /\ Len(SubSeq(s, 1, Len(s) - n)) = Len(s) - n
         /\ \A j \in 1 .. Len(s) - n : SubSeq(s, 1, Len(s) - n)[j] = s[j]
BY SubSeqProperties

\* The level that runs.
LEMMA Running ==
  ASSUME IInv
  PROVE  /\ Depth \in Nat /\ Len(stack) \in Nat
         /\ Depth = 0 => eip < MainSize /\ eip \in Nat /\ eip < 100 /\ Len(stack) = 0
         /\ Depth # 0 => /\ Current \in Levels /\ Current = entered[Depth]
                         /\ Current.vector \in 0 .. 47 /\ Current.height \in Nat
                         /\ Frame(stack, Current, eip, registers, Len(stack))
                         /\ Len(stack) = Current.height + Pushed(eip)
                         /\ eip \in 100 .. 147 \/ eip \in 200 .. 247 \/ eip \in 301 .. 309
<1>1. Depth \in Nat /\ Len(stack) \in Nat
  BY DEF IInv, TypeOK, Depth
<1>2. CASE Depth = 0
  BY <1>1, <1>2, InterruptAssumption DEF IInv, TypeOK, Nesting, AddressOf, TopOf, Depth
<1>3. CASE Depth # 0
  <2>1. Depth \in 1 .. Depth /\ Current = entered[Depth]
    BY <1>1, <1>3 DEF Current, Depth
  <2>2. Frame(stack, Current, AddressOf(Depth), RegistersOf(Depth), TopOf(Depth))
    BY <2>1 DEF IInv, Frames
  <2>3. AddressOf(Depth) = eip /\ RegistersOf(Depth) = registers /\ TopOf(Depth) = Len(stack)
    BY DEF AddressOf, RegistersOf, TopOf, Depth
  <2>4. Current \in Levels /\ Current.vector \in 0 .. 47 /\ Current.height \in Nat
    BY <2>1, LevelTypes DEF IInv
  <2>5. Frame(stack, Current, eip, registers, Len(stack))
    BY <2>2, <2>3
  <2>6. InStub(Current.vector, eip) /\ Len(stack) = Current.height + Pushed(eip)
    BY <2>5 DEF Frame
  <2> QED BY <1>1, <1>3, <2>1, <2>4, <2>5, <2>6, PushedWords
<1> QED BY <1>2, <1>3

\* The lines in service do not depend on where a level is in the stubs.
LEMMA SameServed ==
  ASSUME IInv, Depth # 0, entered' = entered, in_service' = in_service,
         \/ eip \in 100 .. 303 /\ eip' \in 100 .. 304
         \/ eip \in 306 .. 309 /\ eip' \in 306 .. 309
  PROVE  in_service' = Unacknowledged(1)'
<1>1. in_service' = Unacknowledged(1)
  BY DEF IInv, Served
<1>2. CASE Depth = 1
  <2>1. AddressOf(1) = eip /\ AddressOf(1)' = eip'
    BY <1>2 DEF AddressOf, Depth
  <2> QED BY <1>1, <2>1 DEF Unacknowledged, EOI_SLAVE, EOI_MASTER
<1>3. CASE Depth # 1
  <2>1. AddressOf(1)' = AddressOf(1)
    BY <1>3 DEF AddressOf, Depth
  <2> QED BY <1>1, <2>1 DEF Unacknowledged
<1> QED BY <1>2, <1>3

-----------------------------------------------------------------------------
(* The steps *)

LEMMA InitInv == Init => IInv
<1> SUFFICES ASSUME Init PROVE IInv
  OBVIOUS
<1>1. entered = << >> /\ Depth = 0 /\ stack = << >> /\ Len(stack) = 0
  BY DEF Init, Depth
<1>2. TypeOK
  BY <1>1, InterruptAssumption DEF Init, TypeOK
<1>3. Frames /\ Served
  BY <1>1 DEF Init, Frames, Served
<1>4. Nesting
  BY <1>1, InterruptAssumption DEF Init, Nesting, AddressOf, TopOf, Depth
<1> QED BY <1>2, <1>3, <1>4 DEF IInv

\* Inside an interrupt, the program does not run.
LEMMA MainInv == ASSUME IInv, Main PROVE IInv'
<1>1. /\ Depth = 0 /\ eip \in Nat /\ eip < MainSize /\ Len(stack) = 0
  <2>1. eip < MainSize /\ MainSize \in 1 .. 99
    BY InterruptAssumption DEF Main
  <2>2. ~(eip \in 100 .. 147 \/ eip \in 200 .. 247 \/ eip \in 301 .. 309)
    BY <2>1
  <2> QED BY <2>1, <2>2, Running
<1>2. /\ UNCHANGED <<interrupts, stack, requested, in_service, entered>>
      /\ eip' = (eip + 1) % MainSize /\ registers' \in Registers
  BY DEF Main, Outside, Goto
<1>3. eip' \in 0 .. MainSize - 1
  BY <1>1, <1>2, InterruptAssumption
<1>4. TypeOK'
  BY <1>2, <1>3, InterruptAssumption DEF IInv, TypeOK
<1>5. Depth' = 0
  BY <1>1, <1>2 DEF Depth
<1>6. Frames' /\ Served'
  BY <1>1, <1>2, <1>5 DEF IInv, Frames, Served
<1>7. AddressOf(0)' = eip' /\ TopOf(0)' = 0
  BY <1>1, <1>2, <1>5 DEF AddressOf, TopOf, Depth
<1>8. Nesting'
  BY <1>2, <1>3, <1>5, <1>7, <1>1, InterruptAssumption DEF IInv, Nesting
<1> QED BY <1>4, <1>6, <1>8 DEF IInv

LEMMA Addresses ==
  \A v \in 0 .. 47 :
    PushCode(v) \in 100 .. 147 /\ PushVector(v) \in 200 .. 247 /\ InStub(v, PushVector(v))
BY DEF PushCode, PushVector, InStub

LEMMA OwnAddresses ==
  \A v, c \in 0 .. 47 :
    InStub(c, PushCode(v)) \/ InStub(c, PushVector(v)) => v = c
BY DEF PushCode, PushVector, InStub, PUSHA, IRETD

\* A step of the stubs that leaves n words of its level alone and pushes the next
\* one, or drops the rest.
LEMMA FrameStep ==
  ASSUME NEW s, NEW t, NEW level \in Levels, NEW a, NEW b, NEW regs, NEW regs2, NEW top,
         Frame(s, level, a, regs, top),
         NEW n \in 3 .. 7, n <= Pushed(a), Pushed(b) \in {n, n + 1},
         Same(s, t, level.height + n), InStub(level.vector, b),
         Pushed(b) = n + 1 => RightWord(t[level.height + n + 1], level, n + 1),
         b \notin PUSH_ESP .. POPA => regs2 = level.registers,
         b \in {EOI_SLAVE, EOI_MASTER} => level.vector >= PIC_OFFSET
  PROVE  Frame(t, level, b, regs2, level.height + Pushed(b))
<1>1. level.height \in Nat /\ level.vector \in 0 .. 47
  BY DEF Levels, PIC_OFFSET, PIC_IRQ_COUNT
<1>2. Pushed(a) \in 3 .. 7
  BY <1>1, PushedRange DEF Frame
<1>3. ASSUME NEW k \in 1 .. n PROVE RightWord(t[level.height + k], level, k)
  <2>1. k \in 1 .. Pushed(a) /\ level.height + k \in 1 .. level.height + n
    BY <1>1, <1>2
  <2>2. t[level.height + k] = s[level.height + k]
    BY <2>1 DEF Same
  <2>3. RightWord(s[level.height + k], level, k)
    BY <2>1 DEF Frame
  <2> QED BY <2>2, <2>3
<1>4. ASSUME NEW k \in 1 .. Pushed(b) PROVE RightWord(t[level.height + k], level, k)
  <2>1. CASE k <= n
    BY <1>3, <2>1
  <2>2. CASE k > n
    <3>1. k = n + 1 /\ Pushed(b) = n + 1 /\ level.height + n + 1 = level.height + k
      BY <1>1, <2>2
    <3> QED BY <3>1
  <2> QED BY <2>1, <2>2
<1> QED BY <1>4 DEF Frame

LEMMA PushStep ==
  ASSUME IInv, Depth # 0, UNCHANGED <<interrupts, registers, requested, in_service, entered>>,
         eip \in 100 .. 302, eip' \in 100 .. 303, InStub(Current.vector, eip'),
         eip' \notin PUSH_ESP .. POPA => eip \notin PUSH_ESP .. POPA,
         Pushed(eip') = Pushed(eip) + 1,
         NEW w \in Words, stack' = stack \o <<w>>, RightWord(w, Current, Pushed(eip'))
  PROVE  IInv'
<1> DEFINE n == Pushed(eip)
           h == Current.height
<1>1. /\ Frame(stack, Current, eip, registers, Len(stack)) /\ Current.vector \in 0 .. 47
      /\ Current \in Levels /\ h \in Nat /\ Len(stack) = h + n
  BY Running
<1>2. n \in 3 .. 6
  <2>1. InStub(Current.vector, eip)
    BY <1>1 DEF Frame
  <2>2. Pushed(eip) \in 3 .. 7
    BY <1>1, <2>1, PushedRange
  <2>3. Pushed(eip') \in 3 .. 7
    BY <1>1, PushedRange
  <2> QED BY <2>2, <2>3
<1>3. stack \in Seq(Words) /\ <<w>> \in Seq(Words)
  BY DEF IInv, TypeOK
<1> HIDE DEF n, h
<1>4. /\ stack' \in Seq(Words) /\ Len(stack') = h + n + 1
      /\ Same(stack, stack', h + n) /\ stack'[h + n + 1] = w
  <2>1. Len(stack) = h + n /\ stack' = stack \o <<w>>
    BY <1>1
  <2>2. /\ stack \o <<w>> \in Seq(Words) /\ Len(stack \o <<w>>) = Len(stack) + 1
        /\ \A j \in 1 .. Len(stack) : (stack \o <<w>>)[j] = stack[j]
        /\ (stack \o <<w>>)[Len(stack) + 1] = w
    BY <1>3, PushOne
  <2>3. Same(stack, stack', h + n)
    BY <2>1, <2>2 DEF Same
  <2> QED BY <2>1, <2>2, <2>3
<1>5. Frame(stack', Current, eip', registers', h + Pushed(eip'))
  <2>1. eip' \notin PUSH_ESP .. POPA => registers' = Current.registers
    BY <1>1 DEF Frame
  <2>2. eip' \notin {EOI_SLAVE, EOI_MASTER}
    BY DEF EOI_SLAVE, EOI_MASTER
  <2>3. n \in 3 .. 7 /\ n <= Pushed(eip) /\ Pushed(eip') \in {n, n + 1}
    BY <1>2 DEF n
  <2>4. Pushed(eip') = n + 1 => RightWord(stack'[Current.height + n + 1], Current, n + 1)
    BY <1>4 DEF h
  <2> HIDE DEF n
  <2>5. Same(stack, stack', Current.height + n)
    BY <1>4 DEF h
  <2>6. Current \in Levels /\ Frame(stack, Current, eip, registers, Len(stack))
    BY <1>1
  <2>7. eip' \in {EOI_SLAVE, EOI_MASTER} => Current.vector >= PIC_OFFSET
    BY <2>2
  <2>8. \A k \in 1 .. n : RightWord(stack'[Current.height + k], Current, k)
    <3> SUFFICES ASSUME NEW k \in 1 .. n PROVE RightWord(stack'[Current.height + k], Current, k)
      OBVIOUS
    <3>1. k \in 1 .. Pushed(eip) /\ Current.height + k \in 1 .. Current.height + n
      <4>1. Current.height \in Nat /\ n \in 3 .. 7 /\ n <= Pushed(eip) /\ Pushed(eip) \in 3 .. 7
        BY <1>1, <1>2, <2>3 DEF h, n
      <4> QED BY <4>1
    <3>2. stack'[Current.height + k] = stack[Current.height + k]
      BY <2>5, <3>1 DEF Same
    <3>3. RightWord(stack[Current.height + k], Current, k)
      BY <2>6, <3>1 DEF Frame
    <3> QED BY <3>2, <3>3
  <2>9. \A k \in 1 .. Pushed(eip') : RightWord(stack'[Current.height + k], Current, k)
    <3> SUFFICES ASSUME NEW k \in 1 .. Pushed(eip')
                 PROVE  RightWord(stack'[Current.height + k], Current, k)
      OBVIOUS
    <3>1. k \in 1 .. n \/ (k = n + 1 /\ Pushed(eip') = n + 1)
      BY <2>3
    <3>2. CASE k \in 1 .. n
      BY <2>8, <3>2
    <3>3. CASE k = n + 1 /\ Pushed(eip') = n + 1
      <4>1. Current.height + n + 1 = Current.height + k
        BY <1>1, <2>3, <3>3 DEF h
      <4> QED BY <2>4, <3>3, <4>1
    <3> QED BY <3>1, <3>2, <3>3
  <2> QED BY <2>1, <2>7, <2>9 DEF Frame, h
<1>6. Len(stack') = h + Pushed(eip')
  BY <1>1, <1>2, <1>4 DEF n
<1>7. TypeOK'
  <2>1. eip' \in Nat
    OBVIOUS
  <2> QED BY <1>4, <2>1 DEF IInv, TypeOK
<1>8. Same(stack, stack', Current.height)
  <2>1. \A j \in 1 .. h : j \in 1 .. h + n
    BY <1>1, <1>2
  <2> QED BY <1>4, <2>1 DEF Same, h
<1>9. in_service' = Unacknowledged(1)'
  <2>1. eip \in 100 .. 303 /\ eip' \in 100 .. 304 /\ entered' = entered /\ in_service' = in_service
    OBVIOUS
  <2> QED BY <2>1, SameServed
<1>10. UNCHANGED <<entered, interrupts>>
  OBVIOUS
<1> QED BY <1>5, <1>6, <1>7, <1>8, <1>9, <1>10, OwnStep

LEMMA DropStep ==
  ASSUME IInv, Depth # 0, UNCHANGED <<interrupts, requested, in_service, entered>>,
         registers' \in Registers,
         eip \in 306 .. 308, eip' \in 307 .. 309, InStub(Current.vector, eip'),
         eip' \notin PUSH_ESP .. POPA => registers' = Current.registers,
         Pushed(eip') < Pushed(eip),
         stack' = SubSeq(stack, 1, Len(stack) - (Pushed(eip) - Pushed(eip')))
  PROVE  IInv'
<1> DEFINE n == Pushed(eip')
           h == Current.height
<1>1. /\ Frame(stack, Current, eip, registers, Len(stack)) /\ Current.vector \in 0 .. 47
      /\ Current \in Levels /\ h \in Nat /\ Len(stack) = h + Pushed(eip)
  BY Running
<1>2. n \in 3 .. 7 /\ Pushed(eip) \in 3 .. 7
  <2>1. InStub(Current.vector, eip)
    BY <1>1 DEF Frame
  <2>2. Pushed(eip) \in 3 .. 7
    BY <1>1, <2>1, PushedRange
  <2>3. Pushed(eip') \in 3 .. 7
    BY <1>1, PushedRange
  <2> QED BY <2>2, <2>3
<1>3. stack \in Seq(Words)
  BY DEF IInv, TypeOK
<1>4. /\ stack' \in Seq(Words) /\ Len(stack') = h + n /\ Same(stack, stack', h + n)
  <2>1. Pushed(eip) - n \in 0 .. Len(stack) /\ Len(stack) - (Pushed(eip) - n) = h + n
    <3>1. Len(stack) = h + Pushed(eip) /\ n < Pushed(eip) /\ h \in Nat
      BY <1>1
    <3>2. n \in 3 .. 7 /\ Pushed(eip) \in 3 .. 7
      BY <1>2
    <3> HIDE DEF n, h
    <3>3. \A all \in 3 .. 7 : n < all =>
             all - n \in 0 .. h + all /\ (h + all) - (all - n) = h + n
      BY <3>1, <3>2
    <3> QED BY <3>1, <3>2, <3>3
  <2> HIDE DEF n, h
  <2>2. stack' = SubSeq(stack, 1, Len(stack) - (Pushed(eip) - n))
    BY DEF n
  <2> DEFINE below == SubSeq(stack, 1, Len(stack) - (Pushed(eip) - n))
  <2>3. below \in Seq(Words) /\ Len(below) = Len(stack) - (Pushed(eip) - n)
    BY <1>3, <2>1, DropFacts
  <2>4. \A j \in 1 .. Len(stack) - (Pushed(eip) - n) : below[j] = stack[j]
    BY <1>3, <2>1, DropFacts
  <2>5. stack' = below
    BY <2>2
  <2> HIDE DEF below
  <2> QED BY <2>1, <2>3, <2>4, <2>5 DEF Same
<1> HIDE DEF n, h
<1>5. Frame(stack', Current, eip', registers', h + Pushed(eip'))
  <2>2. eip' \notin {EOI_SLAVE, EOI_MASTER}
    BY DEF EOI_SLAVE, EOI_MASTER
  <2>3. n \in 3 .. 7 /\ n <= Pushed(eip) /\ Pushed(eip') \in {n, n + 1} /\ Pushed(eip') # n + 1
    BY <1>2 DEF n
  <2>5. Same(stack, stack', Current.height + n)
    BY <1>4 DEF h
  <2> QED BY <1>1, <2>2, <2>3, <2>5, FrameStep DEF h
<1>7. TypeOK'
  <2>1. eip' \in Nat
    OBVIOUS
  <2> QED BY <1>4, <2>1 DEF IInv, TypeOK
<1>8. Same(stack, stack', Current.height)
  <2>1. \A j \in 1 .. h : j \in 1 .. h + n
    BY <1>1, <1>2
  <2> QED BY <1>4, <2>1 DEF Same, h
<1>9. in_service' = Unacknowledged(1)'
  <2>1. eip \in 306 .. 309 /\ eip' \in 306 .. 309 /\ entered' = entered /\ in_service' = in_service
    OBVIOUS
  <2> QED BY <2>1, SameServed
<1>10. UNCHANGED <<entered, interrupts>>
  OBVIOUS
<1> QED BY <1>4, <1>5, <1>7, <1>8, <1>9, <1>10, OwnStep DEF n

LEMMA CommonStub == \A v \in 0 .. 47 : \A a \in 301 .. 309 : InStub(v, a)
BY DEF InStub, PUSHA, IRETD

\* How many words each address stands for.
LEMMA PushedAt ==
  /\ Pushed(301) = 5 /\ Pushed(302) = 6 /\ Pushed(303) = 7 /\ Pushed(304) = 7
  /\ Pushed(305) = 7 /\ Pushed(306) = 7 /\ Pushed(307) = 6 /\ Pushed(308) = 5
  /\ Pushed(309) = 3
<1>1. \A a \in 301 .. 309 : InStub(0, a)
  BY CommonStub
<1>2. \A a \in 301 .. 309 :
        /\ a \in {301, 308} => Pushed(a) = 5
        /\ a \in {302, 307} => Pushed(a) = 6
        /\ a \in 303 .. 306 => Pushed(a) = 7
        /\ a = 309 => Pushed(a) = 3
  BY <1>1, PushedWords, SMTT(30)
<1> QED BY <1>2

LEMMA PushedInStub ==
  ASSUME NEW v \in 0 .. 47
  PROVE  Pushed(PushCode(v)) = 3 /\ Pushed(PushVector(v)) = 4
<1> USE DEF Pushed, PUSHA, PUSH_ESP, HANDLER, DROP_ESP, POPA, DROP_CODE, IRETD
<1>1. ASSUME NEW a \in 100 .. 147 PROVE Pushed(a) = 3
  OBVIOUS
<1>2. ASSUME NEW a \in 200 .. 247 PROVE Pushed(a) = 4
  OBVIOUS
<1> HIDE DEF Pushed
<1> QED BY <1>1, <1>2, Addresses

LEMMA StubInv == ASSUME IInv, Stub PROVE IInv'
<1>1. PICK vector \in 0 .. 47 :
        \/ At(PushCode(vector)) /\ Push(<<Word("code", 0)>>) /\ Goto(PushVector(vector))
        \/ At(PushVector(vector)) /\ Push(<<Word("vector", vector)>>) /\ Goto(PUSHA)
  BY DEF Stub, PIC_OFFSET, PIC_IRQ_COUNT
<1>2. UNCHANGED <<interrupts, registers, requested, in_service, entered>>
  BY DEF Stub, Outside
<1>3. Depth # 0 /\ Current.vector \in 0 .. 47 /\ InStub(Current.vector, eip)
  <2>1. eip \in 100 .. 247
    <3>1. eip = PushCode(vector) \/ eip = PushVector(vector)
      BY <1>1 DEF At
    <3>2. PushCode(vector) \in 100 .. 147 /\ PushVector(vector) \in 200 .. 247
      BY Addresses
    <3> QED BY <3>1, <3>2
  <2>2. Depth # 0
    BY <2>1, Running
  <2> QED BY <2>2, Running DEF Frame
<1>4. vector = Current.vector
  BY <1>1, <1>3, OwnAddresses DEF At
<1>5. CASE At(PushCode(vector)) /\ Push(<<Word("code", 0)>>) /\ Goto(PushVector(vector))
  <2>1. /\ eip \in 100 .. 302 /\ eip' \in 100 .. 303 /\ InStub(Current.vector, eip')
        /\ Pushed(eip) = 3 /\ Pushed(eip') = 4
    <3>1. eip = PushCode(vector) /\ eip' = PushVector(vector)
      BY <1>5 DEF At, Goto
    <3>2. eip \in 100 .. 147 /\ eip' \in 200 .. 247
      BY <3>1, Addresses
    <3>3. Pushed(eip) = 3 /\ Pushed(eip') = 4
      BY <3>1, PushedInStub
    <3>4. InStub(Current.vector, eip')
      BY <1>4, <3>1, Addresses
    <3> QED BY <3>2, <3>3, <3>4
  <2>2. eip \notin PUSH_ESP .. POPA
    <3>1. eip \in 100 .. 147
      BY <1>5, Addresses DEF At
    <3> QED BY <3>1 DEF PUSH_ESP, POPA
  <2>3. /\ Word("code", 0) \in Words /\ stack' = stack \o <<Word("code", 0)>>
        /\ RightWord(Word("code", 0), Current, 4)
    BY <1>5 DEF Words, Word, Push, RightWord
  <2>4. Pushed(eip') = Pushed(eip) + 1 /\ RightWord(Word("code", 0), Current, Pushed(eip'))
    BY <2>1, <2>3
  <2> QED BY <1>2, <1>3, <2>1, <2>2, <2>3, <2>4, PushStep
<1>6. CASE At(PushVector(vector)) /\ Push(<<Word("vector", vector)>>) /\ Goto(PUSHA)
  <2>1. /\ eip \in 100 .. 302 /\ eip' \in 100 .. 303 /\ InStub(Current.vector, eip')
        /\ Pushed(eip) = 4 /\ Pushed(eip') = 5
    <3>1. eip = PushVector(vector) /\ eip' = 301
      BY <1>6 DEF At, Goto, PUSHA
    <3>2. eip \in 200 .. 247
      BY <3>1, Addresses
    <3> QED BY <1>3, <3>1, <3>2, CommonStub, PushedAt, PushedInStub
  <2>2. eip \notin PUSH_ESP .. POPA
    <3>1. eip \in 200 .. 247
      BY <1>6, Addresses DEF At
    <3> QED BY <3>1 DEF PUSH_ESP, POPA
  <2>3. /\ Word("vector", vector) \in Words /\ stack' = stack \o <<Word("vector", vector)>>
        /\ RightWord(Word("vector", vector), Current, 5)
    <3>1. vector \in Nat
      OBVIOUS
    <3> QED BY <1>4, <1>6, <3>1 DEF Words, Word, Push, RightWord
  <2>4. Pushed(eip') = Pushed(eip) + 1 /\ RightWord(Word("vector", vector), Current, Pushed(eip'))
    BY <2>1, <2>3
  <2> QED BY <1>2, <1>3, <2>1, <2>2, <2>3, <2>4, PushStep
<1> QED BY <1>1, <1>5, <1>6

LEMMA SaveInv == ASSUME IInv, Save PROVE IInv'
<1>1. UNCHANGED <<interrupts, registers, requested, in_service, entered>>
  BY DEF Save, Outside
<1>2. Depth # 0 /\ Current.vector \in 0 .. 47 /\ Current.height \in Nat
  <2>1. eip \in 301 .. 302
    BY DEF Save, At, PUSHA, PUSH_ESP
  <2> QED BY <2>1, Running
<1>3. registers \in Nat
  BY InterruptAssumption DEF IInv, TypeOK
<1>4. CASE At(PUSHA) /\ Push(<<Word("registers", registers)>>) /\ Goto(PUSH_ESP)
  <2>1. eip = 301 /\ eip' = 302
    BY <1>4 DEF At, Goto, PUSHA, PUSH_ESP
  <2>2. registers = Current.registers
    BY <1>2, <2>1, Running DEF Frame, PUSH_ESP, POPA
  <2>3. /\ Word("registers", registers) \in Words
        /\ stack' = stack \o <<Word("registers", registers)>>
        /\ RightWord(Word("registers", registers), Current, 6)
    BY <1>3, <1>4, <2>2 DEF Words, Word, Push, RightWord
  <2>4. eip' \notin PUSH_ESP .. POPA => eip \notin PUSH_ESP .. POPA
    BY <2>1 DEF PUSH_ESP, POPA
  <2>5. /\ eip \in 100 .. 302 /\ eip' \in 100 .. 303 /\ InStub(Current.vector, eip')
        /\ Pushed(eip) = 5 /\ Pushed(eip') = 6
    BY <1>2, <2>1, PushedAt, CommonStub
  <2>6. Pushed(eip') = Pushed(eip) + 1
        /\ RightWord(Word("registers", registers), Current, Pushed(eip'))
    BY <2>3, <2>5
  <2> QED BY <1>1, <1>2, <2>3, <2>4, <2>5, <2>6, PushStep
<1>5. CASE At(PUSH_ESP) /\ Push(<<Word("esp", Len(stack))>>) /\ Goto(HANDLER)
  <2>1. eip = 302 /\ eip' = 303
    BY <1>5 DEF At, Goto, PUSH_ESP, HANDLER
  <2>2. Len(stack) = Current.height + 6
    BY <1>2, <2>1, Running, PushedAt
  <2>3. /\ Word("esp", Len(stack)) \in Words
        /\ stack' = stack \o <<Word("esp", Len(stack))>>
        /\ RightWord(Word("esp", Len(stack)), Current, 7)
    BY <1>2, <1>5, <2>2 DEF Words, Word, Push, RightWord
  <2>4. eip' \in PUSH_ESP .. POPA
    BY <2>1 DEF PUSH_ESP, POPA
  <2>5. /\ eip \in 100 .. 302 /\ eip' \in 100 .. 303 /\ InStub(Current.vector, eip')
        /\ Pushed(eip) = 6 /\ Pushed(eip') = 7
    BY <1>2, <2>1, PushedAt, CommonStub
  <2>6. Pushed(eip') = Pushed(eip) + 1
        /\ RightWord(Word("esp", Len(stack)), Current, Pushed(eip'))
    BY <2>3, <2>5
  <2> QED BY <1>1, <1>2, <2>3, <2>4, <2>5, <2>6, PushStep
<1> QED BY <1>4, <1>5 DEF Save

LEMMA RestoreInv == ASSUME IInv, Restore PROVE IInv'
<1>1. UNCHANGED <<interrupts, requested, in_service, entered>>
  BY DEF Restore, Outside
<1>2. eip \in 306 .. 308
  BY DEF Restore, At, DROP_ESP, POPA, DROP_CODE
<1>3. /\ Depth # 0 /\ Current.vector \in 0 .. 47 /\ Current.height \in Nat
      /\ Frame(stack, Current, eip, registers, Len(stack))
      /\ Len(stack) = Current.height + Pushed(eip)
      /\ Current.registers \in Registers
  <2>1. Depth # 0
    BY <1>2, Running
  <2>2. Current.registers \in Registers
    BY <2>1, Running DEF Levels
  <2> QED BY <2>1, <2>2, Running
<1>4. registers \in Registers
  BY DEF IInv, TypeOK
<1>5. CASE At(DROP_ESP) /\ Drop(ArgumentWord) /\ Goto(POPA) /\ UNCHANGED registers
  <2>1. eip = 306 /\ eip' = 307 /\ registers' = registers
    BY <1>5 DEF At, Goto, DROP_ESP, POPA
  <2>2. stack' = SubSeq(stack, 1, Len(stack) - (Pushed(eip) - Pushed(eip')))
    <3>1. Pushed(eip) - Pushed(eip') = 1
      BY <2>1, PushedAt
    <3> QED BY <1>5, <3>1 DEF Drop, ArgumentWord
  <2>3. eip' \in PUSH_ESP .. POPA
    BY <2>1 DEF PUSH_ESP, POPA
  <2>4. Pushed(eip') < Pushed(eip) /\ InStub(Current.vector, eip') /\ eip' \in 307 .. 309
    <3>1. Pushed(eip') < Pushed(eip)
      BY <2>1, PushedAt
    <3>2. eip' \in 307 .. 309
      BY <2>1
    <3>3. eip' \in 301 .. 309
      BY <2>1
    <3>4. Current.vector \in 0 .. 47
      BY <1>3
    <3>5. InStub(Current.vector, eip')
      BY <3>3, <3>4, CommonStub
    <3> QED BY <3>1, <3>2, <3>5
  <2> QED BY <1>1, <1>2, <1>3, <1>4, <2>1, <2>2, <2>3, <2>4, DropStep
<1>6. CASE At(POPA) /\ registers' = Top(0).value /\ Drop(1) /\ Goto(DROP_CODE)
  <2>1. eip = 307 /\ eip' = 308
    BY <1>6 DEF At, Goto, POPA, DROP_CODE
  <2>2. stack' = SubSeq(stack, 1, Len(stack) - (Pushed(eip) - Pushed(eip')))
    <3>1. Pushed(eip) - Pushed(eip') = 1
      BY <2>1, PushedAt
    <3> QED BY <1>6, <3>1 DEF Drop
  <2>3. registers' = Current.registers
    <3>1. Pushed(eip) = 6
      BY <2>1, PushedAt
    <3>2. RightWord(stack[Current.height + 6], Current, 6) /\ Len(stack) - 0 = Current.height + 6
      BY <1>3, <3>1 DEF Frame
    <3>3. stack[Current.height + 6].value = Current.registers
      BY <3>2 DEF RightWord, Word
    <3> QED BY <1>6, <3>2, <3>3 DEF Top
  <2>4. Pushed(eip') < Pushed(eip) /\ InStub(Current.vector, eip') /\ eip' \in 307 .. 309
    <3>1. Pushed(eip') < Pushed(eip)
      BY <2>1, PushedAt
    <3>2. eip' \in 307 .. 309
      BY <2>1
    <3>3. eip' \in 301 .. 309
      BY <2>1
    <3>4. Current.vector \in 0 .. 47
      BY <1>3
    <3>5. InStub(Current.vector, eip')
      BY <3>3, <3>4, CommonStub
    <3> QED BY <3>1, <3>2, <3>5
  <2> QED BY <1>1, <1>2, <1>3, <2>2, <2>3, <2>4, DropStep
<1>7. CASE At(DROP_CODE) /\ Drop(FrameWords) /\ Goto(IRETD) /\ UNCHANGED registers
  <2>1. eip = 308 /\ eip' = 309 /\ registers' = registers
    BY <1>7 DEF At, Goto, DROP_CODE, IRETD
  <2>2. stack' = SubSeq(stack, 1, Len(stack) - (Pushed(eip) - Pushed(eip')))
    <3>1. Pushed(eip) - Pushed(eip') = 2
      BY <2>1, PushedAt
    <3> QED BY <1>7, <3>1 DEF Drop, FrameWords
  <2>3. registers' = Current.registers
    BY <1>3, <2>1 DEF Frame, PUSH_ESP, POPA
  <2>4. Pushed(eip') < Pushed(eip) /\ InStub(Current.vector, eip') /\ eip' \in 307 .. 309
    <3>1. Pushed(eip') < Pushed(eip)
      BY <2>1, PushedAt
    <3>2. eip' \in 307 .. 309
      BY <2>1
    <3>3. eip' \in 301 .. 309
      BY <2>1
    <3>4. Current.vector \in 0 .. 47
      BY <1>3
    <3>5. InStub(Current.vector, eip')
      BY <3>3, <3>4, CommonStub
    <3> QED BY <3>1, <3>2, <3>5
  <2> QED BY <1>1, <1>2, <1>3, <1>4, <2>1, <2>2, <2>3, <2>4, DropStep
<1> QED BY <1>5, <1>6, <1>7 DEF Restore

\* A level that stays where it is on the stack, with its frame whole.
LEMMA StayStep ==
  ASSUME IInv, Depth # 0, UNCHANGED <<interrupts, stack, requested, entered>>,
         registers' \in Registers, in_service' \in SUBSET (0 .. 15),
         eip \in 303 .. 305, eip' \in 304 .. 306,
         eip' \in {304, 305} => Current.vector >= PIC_OFFSET,
         in_service' = Unacknowledged(1)'
  PROVE  IInv'
<1>1. /\ Frame(stack, Current, eip, registers, Len(stack)) /\ Current.vector \in 0 .. 47
      /\ Current \in Levels /\ Current.height \in Nat /\ Len(stack) = Current.height + Pushed(eip)
  BY Running
<1>2. Pushed(eip) = 7 /\ Pushed(eip') = 7
  BY PushedAt
<1>3. Frame(stack', Current, eip', registers', Current.height + Pushed(eip'))
  <2>1. InStub(Current.vector, eip')
    <3>1. eip' \in 301 .. 309
      OBVIOUS
    <3>2. Current.vector \in 0 .. 47
      BY <1>1
    <3> QED BY <3>1, <3>2, CommonStub
  <2>2. eip' \in PUSH_ESP .. POPA
    BY DEF PUSH_ESP, POPA
  <2>3. eip' \in {EOI_SLAVE, EOI_MASTER} => Current.vector >= PIC_OFFSET
    BY DEF EOI_SLAVE, EOI_MASTER
  <2>4. Same(stack, stack', Current.height + 7) /\ 7 \in 3 .. 7 /\ 7 <= Pushed(eip)
    BY <1>2 DEF Same
  <2>5. Pushed(eip') \in {7, 7 + 1} /\ Pushed(eip') # 7 + 1
    BY <1>2
  <2> QED BY <1>1, <2>1, <2>2, <2>3, <2>4, <2>5, FrameStep
<1>4. TypeOK'
  <2>1. eip' \in Nat /\ in_service' \subseteq 0 .. PIC_IRQ_COUNT - 1
    BY DEF PIC_IRQ_COUNT
  <2> QED BY <2>1 DEF IInv, TypeOK
<1>5. Same(stack, stack', Current.height) /\ UNCHANGED <<entered, interrupts>>
  BY DEF Same
<1>6. Len(stack') = Current.height + Pushed(eip')
  BY <1>1, <1>2
<1> QED BY <1>3, <1>4, <1>5, <1>6, OwnStep

\* frame->vector is the vector of the interrupt.
LEMMA VectorIs ==
  ASSUME IInv, eip = HANDLER
  PROVE  Depth # 0 /\ Vector = Current.vector /\ Current.vector \in 0 .. 47
<1>1. Depth # 0 /\ Pushed(eip) = 7
  BY Running, PushedAt DEF HANDLER
<1>2. /\ Frame(stack, Current, eip, registers, Len(stack)) /\ Current.vector \in 0 .. 47
      /\ Current.height \in Nat /\ Len(stack) = Current.height + 7
  BY <1>1, Running
<1>3. RightWord(stack[Current.height + 5], Current, 5) /\ Len(stack) - 2 = Current.height + 5
  BY <1>1, <1>2 DEF Frame
<1>4. stack[Current.height + 5].value = Current.vector
  BY <1>3 DEF RightWord, Word
<1> QED BY <1>1, <1>2, <1>3, <1>4 DEF Vector, Top

LEMMA HandlerInv == ASSUME IInv, Handler PROVE IInv'
<1>1. /\ eip = 303 /\ registers' \in Registers
      /\ UNCHANGED <<interrupts, stack, requested, in_service, entered>>
      /\ eip' = CASE ~IsIrq(Vector)         -> 306
                  [] Vector >= SLAVE_OFFSET -> 304
                  [] OTHER                  -> 305
  BY DEF Handler, At, Goto, Outside, HANDLER, DROP_ESP, EOI_SLAVE, EOI_MASTER
<1> DEFINE v == Current.vector
<1>2. Depth # 0 /\ Vector = v /\ v \in 0 .. 47 /\ Depth \in Nat /\ Current = entered[Depth]
  BY <1>1, VectorIs, Running DEF HANDLER
<1> HIDE DEF v
<1>3. /\ v < 32 => eip' = 306
      /\ v >= 32 /\ v < 40 => eip' = 305
      /\ v >= 40 => eip' = 304
  <2>1. IsIrq(v) <=> v >= 32
    BY <1>2 DEF IsIrq, PIC_OFFSET, PIC_IRQ_COUNT
  <2> QED BY <1>1, <1>2, <2>1 DEF SLAVE_OFFSET, PIC_OFFSET
<1>4. eip' \in 304 .. 306 /\ (eip' \in {304, 305} => v >= PIC_OFFSET)
  BY <1>2, <1>3 DEF PIC_OFFSET
<1>5. in_service' = Unacknowledged(1)'
  <2>1. CASE eip' = 304
    BY <1>1, <1>2, <2>1, SameServed
  <2>2. CASE Depth = 1
    <3>1. in_service = entered[1].lines
      BY <1>1, <2>2 DEF IInv, Served, Unacknowledged, AddressOf, Depth, EOI_MASTER
    <3>2. AddressOf(1)' = eip'
      BY <1>1, <2>2 DEF AddressOf, Depth
    <3>3. v = entered[1].vector
      BY <1>2, <2>2 DEF v
    <3>4. CASE eip' = 306
      <4>1. v < 32
        BY <1>2, <1>3, <3>4
      <4>2. entered[1].lines = {}
        BY <2>2, <3>3, <4>1 DEF IInv, Served, PIC_OFFSET
      <4> QED BY <1>1, <3>1, <3>2, <3>4, <4>2 DEF Unacknowledged, EOI_MASTER
    <3>5. CASE eip' = 305
      <4>1. v >= 32 /\ v < 40
        BY <1>2, <1>3, <3>5
      <4>2. entered[1].lines \subseteq {v - 32}
        BY <1>2, <2>2, <3>3, <4>1 DEF IInv, Served, PIC_OFFSET, Lines
      <4>3. \A line \in entered[1].lines : OnMaster(line)
        BY <1>2, <4>1, <4>2 DEF OnMaster
      <4>4. {line \in entered[1].lines : OnMaster(line)} = in_service
        BY <3>1, <4>3
      <4> QED BY <1>1, <3>2, <3>5, <4>4 DEF Unacknowledged, EOI_MASTER
    <3> QED BY <1>4, <2>1, <3>4, <3>5
  <2>3. CASE Depth # 1
    <3>1. AddressOf(1)' = AddressOf(1)
      BY <1>1, <2>3 DEF AddressOf, Depth
    <3> QED BY <1>1, <1>2, <3>1 DEF IInv, Served, Unacknowledged
  <2> QED BY <2>2, <2>3
<1>6. in_service' \in SUBSET (0 .. 15)
  BY <1>1 DEF IInv, TypeOK, PIC_IRQ_COUNT
<1> QED BY <1>1, <1>2, <1>4, <1>5, <1>6, StayStep DEF v

LEMMA AcknowledgeInv == ASSUME IInv, Acknowledge PROVE IInv'
<1>1. UNCHANGED <<interrupts, registers, stack, requested, entered>>
  BY DEF Acknowledge
<1>2. eip \in {304, 305}
  BY DEF Acknowledge, At, EOI_SLAVE, EOI_MASTER
<1>3. Depth = 1 /\ Current = entered[1] /\ Current.vector \in 32 .. 47
  <2>1. /\ Depth # 0 /\ Current = entered[Depth] /\ Current.vector \in 0 .. 47
        /\ Frame(stack, Current, eip, registers, Len(stack)) /\ Depth \in Nat
    BY <1>2, Running
  <2>2. Current.vector >= PIC_OFFSET
    BY <1>2, <2>1 DEF Frame, EOI_SLAVE, EOI_MASTER
  <2>3. Depth = 1
    BY <2>1, <2>2 DEF IInv, Nesting
  <2>4. Current.vector \in 32 .. 47
    <3>1. Current.vector \in 0 .. 47
      BY <2>1
    <3> QED BY <2>2, <3>1 DEF PIC_OFFSET
  <2> QED BY <2>1, <2>3, <2>4
<1>4. in_service \subseteq 0 .. 15 /\ registers \in Registers
  BY DEF IInv, TypeOK, PIC_IRQ_COUNT
<1>5. AddressOf(1) = eip /\ AddressOf(1)' = eip'
  BY <1>1, <1>3 DEF AddressOf, Depth
<1> DEFINE lines == entered[1].lines
<1>6. \A l, m \in lines : l \in 0 .. 15 /\ (OnMaster(l) = OnMaster(m) => l = m)
  <2>1. lines \subseteq Lines(Current.vector - 32)
    BY <1>3 DEF IInv, Served, PIC_OFFSET
  <2> QED BY <1>3, <2>1 DEF Lines, OnMaster
<1> HIDE DEF lines
<1>7. CASE At(EOI_SLAVE) /\ EndOfInterrupt(Slave) /\ Goto(EOI_MASTER)
  <2>1. eip = 304 /\ eip' = 305
    BY <1>7 DEF At, Goto, EOI_SLAVE, EOI_MASTER
  <2>2. in_service = lines
    BY <1>3, <1>5, <2>1 DEF IInv, Served, Unacknowledged, EOI_MASTER, lines
  <2>3. Slave = {line \in lines : ~OnMaster(line)}
    BY <2>2 DEF Slave, Master
  <2>4. in_service' = {line \in lines : OnMaster(line)}
    <3>1. \A l, m \in Slave : l <= m
      BY <1>6, <2>3 DEF OnMaster
    <3>2. in_service' = in_service \ Slave
      BY <1>7, <3>1 DEF EndOfInterrupt
    <3> QED BY <2>2, <2>3, <3>2
  <2>5. in_service' = Unacknowledged(1)'
    BY <1>1, <1>5, <2>1, <2>4 DEF Unacknowledged, EOI_MASTER, lines
  <2>6. in_service' \in SUBSET (0 .. 15)
    BY <1>4, <2>2, <2>4
  <2>7. Current.vector >= PIC_OFFSET
    <3>1. Current.vector \in 32 .. 47
      BY <1>3
    <3> QED BY <3>1 DEF PIC_OFFSET
  <2> QED BY <1>1, <1>3, <1>4, <2>1, <2>5, <2>6, <2>7, StayStep
<1>8. CASE At(EOI_MASTER) /\ EndOfInterrupt(Master) /\ Goto(DROP_ESP)
  <2>1. eip = 305 /\ eip' = 306
    BY <1>8 DEF At, Goto, DROP_ESP, EOI_MASTER
  <2>2. in_service = {line \in lines : OnMaster(line)}
    BY <1>3, <1>5, <2>1 DEF IInv, Served, Unacknowledged, EOI_MASTER, lines
  <2>3. Master = in_service
    BY <2>2 DEF Master
  <2>4. in_service' = {}
    <3>1. \A l, m \in Master : l <= m
      BY <1>6, <2>2, <2>3 DEF OnMaster
    <3>2. in_service' = in_service \ Master
      BY <1>8, <3>1 DEF EndOfInterrupt
    <3> QED BY <2>3, <3>2
  <2>5. in_service' = Unacknowledged(1)'
    BY <1>5, <2>1, <2>4 DEF Unacknowledged, EOI_MASTER
  <2> QED BY <1>1, <1>3, <1>4, <2>1, <2>4, <2>5, StayStep
<1> QED BY <1>7, <1>8 DEF Acknowledge

\* What the CPU pushes for a level.
EntryWords(level) ==
  <<Word("eflags", level.flag), Word("cs", 8), Word("eip", level.eip)>>
    \o IF level.vector \in PushesErrorCode THEN <<Word("code", 1)>> ELSE << >>

LEMMA EntryFrame ==
  ASSUME NEW level \in Levels, NEW words, words = EntryWords(level)
  PROVE  /\ Len(words) = Pushed(StubOf(level.vector)) /\ InStub(level.vector, StubOf(level.vector))
         /\ words \in Seq(Words) /\ StubOf(level.vector) \in 100 .. 247
         /\ \A k \in 1 .. Len(words) : RightWord(words[k], level, k)
<1> DEFINE vector == level.vector
           w3 == <<Word("eflags", level.flag), Word("cs", 8), Word("eip", level.eip)>>
           w1 == IF vector \in PushesErrorCode THEN <<Word("code", 1)>> ELSE << >>
<1>1. level.flag \in Nat /\ level.eip \in Nat /\ vector \in 0 .. 47
  BY DEF Levels, PIC_OFFSET, PIC_IRQ_COUNT
<1>2. /\ Word("eflags", level.flag) \in Words /\ Word("cs", 8) \in Words
      /\ Word("eip", level.eip) \in Words /\ Word("code", 1) \in Words
  BY <1>1 DEF Words, Word
<1>3. w3 \in Seq(Words) /\ w1 \in Seq(Words) /\ Len(w3) = 3
  BY <1>2
<1>4. /\ RightWord(w3[1], level, 1) /\ RightWord(w3[2], level, 2) /\ RightWord(w3[3], level, 3)
      /\ vector \in PushesErrorCode => RightWord(w1[1], level, 4)
  BY DEF RightWord, Word
<1>5. Len(w1) = IF vector \in PushesErrorCode THEN 1 ELSE 0
  OBVIOUS
<1>6. words = w3 \o w1
  BY DEF EntryWords
<1>7. PushesErrorCode = StubsWithErrorCode
  BY DEF PushesErrorCode, StubsWithErrorCode
<1> HIDE DEF w1, w3, vector
<1>8. /\ words \in Seq(Words) /\ Len(words) = 3 + Len(w1)
      /\ \A j \in 1 .. 3 : words[j] = w3[j]
      /\ \A j \in 1 .. Len(w1) : words[3 + j] = w1[j]
  <2>1. w3 \in Seq(Words) /\ w1 \in Seq(Words)
    BY <1>3
  <2>2. /\ w3 \o w1 \in Seq(Words) /\ Len(w3 \o w1) = Len(w3) + Len(w1)
        /\ \A j \in 1 .. Len(w3) : (w3 \o w1)[j] = w3[j]
        /\ \A j \in 1 .. Len(w1) : (w3 \o w1)[Len(w3) + j] = w1[j]
    BY <2>1, PushFacts
  <2> QED BY <1>3, <1>6, <2>2
<1>9. vector \in PushesErrorCode => words[4] = w1[1]
  <2>1. vector \in PushesErrorCode => 1 \in 1 .. Len(w1)
    BY <1>5
  <2> QED BY <1>8, <2>1
<1>10. \A k \in 1 .. Len(words) : RightWord(words[k], level, k)
  BY <1>4, <1>5, <1>8, <1>9
<1>11. CASE vector \in PushesErrorCode
  <2>1. StubOf(vector) = PushVector(vector)
    BY <1>7, <1>11 DEF StubOf
  <2>2. Pushed(StubOf(vector)) = 4
    BY <1>1, <2>1, PushedInStub
  <2>3. InStub(vector, StubOf(vector)) /\ StubOf(vector) \in 100 .. 247
    <3>1. InStub(vector, PushVector(vector)) /\ PushVector(vector) \in 200 .. 247
      BY <1>1, Addresses
    <3> QED BY <2>1, <3>1
  <2> QED BY <1>5, <1>8, <1>10, <1>11, <2>2, <2>3 DEF vector
<1>12. CASE vector \notin PushesErrorCode
  <2>1. StubOf(vector) = PushCode(vector)
    BY <1>7, <1>12 DEF StubOf
  <2>2. Pushed(StubOf(vector)) = 3
    BY <1>1, <2>1, PushedInStub
  <2>3. InStub(vector, StubOf(vector)) /\ StubOf(vector) \in 100 .. 247
    BY <1>1, <1>7, <1>12, <2>1, Addresses DEF InStub
  <2> QED BY <1>5, <1>8, <1>10, <1>12, <2>2, <2>3 DEF vector
<1> QED BY <1>11, <1>12

\* The levels keep what they have pushed when another interrupt comes on top.
LEMMA EnterInv ==
  ASSUME IInv, NEW vector \in 0 .. 47, NEW lines \in SUBSET (0 .. 15), Enter(vector, lines),
         requested' \subseteq Irqs, in_service' = in_service \cup lines,
         vector < PIC_OFFSET => lines = {},
         vector >= PIC_OFFSET => Depth = 0 /\ lines \subseteq Lines(vector - PIC_OFFSET)
  PROVE  IInv'
<1> DEFINE level == [vector |-> vector, eip |-> eip, flag |-> Flag, registers |-> registers,
                     height |-> Len(stack), lines |-> lines]
           words == <<Word("eflags", Flag), Word("cs", 8), Word("eip", eip)>>
                      \o IF vector \in PushesErrorCode THEN <<Word("code", 1)>> ELSE << >>
<1>1. /\ Depth \in Nat /\ Len(stack) \in Nat /\ stack \in Seq(Words) /\ eip \in Nat
      /\ registers \in Registers /\ entered \in Seq(Levels) /\ Depth = Len(entered)
      /\ Flag \in {0, 1} /\ (Flag = 1 <=> Depth = 0)
  BY DEF IInv, TypeOK, Depth, Nesting, Flag
<1>2. /\ level \in Levels /\ level.vector = vector /\ level.eip = eip /\ level.flag = Flag
      /\ level.registers = registers /\ level.height = Len(stack) /\ level.lines = lines
  BY <1>1 DEF Levels, PIC_OFFSET, PIC_IRQ_COUNT
<1>3. /\ Len(words) = Pushed(StubOf(vector)) /\ InStub(vector, StubOf(vector))
      /\ words \in Seq(Words) /\ StubOf(vector) \in 100 .. 247
      /\ \A k \in 1 .. Len(words) : RightWord(words[k], level, k)
  <2> HIDE DEF level
  <2>1. words = EntryWords(level)
    BY <1>2 DEF EntryWords
  <2> HIDE DEF words
  <2>2. level \in Levels /\ level.vector = vector
    BY <1>2
  <2> QED BY <2>1, <2>2, EntryFrame
<1>4. /\ stack' = stack \o words /\ eip' = StubOf(vector) /\ registers' = registers
      /\ interrupts' = FALSE /\ entered' = Append(entered, level) /\ Depth < MaxDepth
  BY DEF Enter, Depth
<1> HIDE DEF level, words
<1>5. /\ stack' \in Seq(Words) /\ Len(stack') = Len(stack) + Len(words) /\ Len(words) \in Nat
      /\ Same(stack, stack', Len(stack))
      /\ \A k \in 1 .. Len(words) : stack'[Len(stack) + k] = words[k]
  BY <1>1, <1>3, <1>4, PushFacts DEF Same
<1>6. /\ entered' \in Seq(Levels) /\ Depth' = Depth + 1 /\ entered'[Depth + 1] = level
      /\ \A i \in 1 .. Depth : entered'[i] = entered[i]
  BY <1>1, <1>2, <1>4, AppendProperties DEF Depth
<1>7. \A i \in 0 .. Depth : /\ AddressOf(i)' = AddressOf(i) /\ RegistersOf(i)' = RegistersOf(i)
                           /\ TopOf(i)' = TopOf(i)
  <2>1. Depth \in Nat /\ Len(entered') = Depth + 1
    BY <1>1, <1>6 DEF Depth
  <2>2. level.eip = eip /\ level.registers = registers /\ level.height = Len(stack)
    BY <1>2
  <2> SUFFICES ASSUME NEW i \in 0 .. Depth
               PROVE  /\ AddressOf(i)' = AddressOf(i) /\ RegistersOf(i)' = RegistersOf(i)
                      /\ TopOf(i)' = TopOf(i)
    OBVIOUS
  <2>3. CASE i = Depth
    BY <1>1, <1>6, <2>1, <2>2, <2>3 DEF AddressOf, RegistersOf, TopOf
  <2>4. CASE i # Depth
    <3>1. i + 1 \in 1 .. Depth /\ i # Depth + 1
      BY <2>1, <2>4
    <3>2. entered'[i + 1] = entered[i + 1]
      BY <1>6, <3>1
    <3>3. i # Len(entered') /\ i # Len(entered) /\ i # Depth /\ i # Depth'
      BY <1>1, <1>6, <2>1, <2>4
    <3>4. /\ entered'[i + 1].registers = entered[i + 1].registers
          /\ entered'[i + 1].height = entered[i + 1].height
      BY <3>2
    <3>5. AddressOf(i)' = AddressOf(i)
      BY <3>2, <3>3 DEF AddressOf
    <3>6. RegistersOf(i)' = RegistersOf(i)
      BY <3>3, <3>4 DEF RegistersOf
    <3>7. TopOf(i)' = TopOf(i)
      BY <3>3, <3>4 DEF TopOf
    <3> QED BY <3>5, <3>6, <3>7
  <2> QED BY <2>3, <2>4
<1>8. \A i \in Nat : i = Depth + 1 => /\ AddressOf(i)' = eip' /\ RegistersOf(i)' = registers'
                                     /\ TopOf(i)' = Len(stack')
  <2>1. Len(entered') = Depth + 1 /\ Depth' = Depth + 1
    BY <1>6 DEF Depth
  <2> QED BY <1>1, <2>1 DEF AddressOf, RegistersOf, TopOf
<1>9. \A i \in 1 .. Depth : entered[i].height \in Nat /\ entered[i].height <= Len(stack)
  <2> SUFFICES ASSUME NEW i \in 1 .. Depth
               PROVE  entered[i].height \in Nat /\ entered[i].height <= Len(stack)
    OBVIOUS
  <2>1. entered[i].height \in Nat /\ entered[i].height <= Current.height
    BY <1>1, LevelTypes DEF IInv, Nesting, Current
  <2>2. Current.height \in Nat /\ Len(stack) = Current.height + Pushed(eip)
        /\ Frame(stack, Current, eip, registers, Len(stack)) /\ Current.vector \in 0 .. 47
    BY <1>1, Running
  <2>3. InStub(Current.vector, eip)
    BY <2>2 DEF Frame
  <2>4. Pushed(eip) \in 3 .. 7
    BY <2>2, <2>3, PushedRange
  <2> QED BY <1>1, <2>1, <2>2, <2>4
<1>10. Frames'
  <2> SUFFICES ASSUME NEW i \in 1 .. Depth + 1
               PROVE  Frame(stack', entered'[i], AddressOf(i)', RegistersOf(i)', TopOf(i)')
    BY <1>6 DEF Frames
  <2>1. CASE i = Depth + 1
    <3>1. eip' \notin PUSH_ESP .. POPA /\ eip' \notin {EOI_SLAVE, EOI_MASTER}
      <4>1. eip' \in 100 .. 247
        BY <1>3, <1>4
      <4> QED BY <4>1 DEF PUSH_ESP, POPA, EOI_SLAVE, EOI_MASTER
    <3>2. \A k \in 1 .. Pushed(eip') : RightWord(stack'[level.height + k], level, k)
      BY <1>2, <1>3, <1>4, <1>5
    <3>3. Len(stack') = level.height + Pushed(eip') /\ InStub(level.vector, eip')
      BY <1>2, <1>3, <1>4, <1>5
    <3>4. Frame(stack', level, eip', registers', Len(stack'))
      BY <1>2, <1>4, <3>1, <3>2, <3>3 DEF Frame
    <3>5. i \in Nat /\ entered'[i] = level
      BY <1>1, <1>6, <2>1
    <3> QED BY <1>8, <2>1, <3>4, <3>5
  <2>2. CASE i # Depth + 1
    <3>1. i \in 1 .. Depth /\ entered[i] \in Levels
      BY <1>1, <2>2, LevelTypes DEF IInv
    <3>2. Frame(stack, entered[i], AddressOf(i), RegistersOf(i), TopOf(i))
      BY <3>1 DEF IInv, Frames
    <3>3. TopOf(i) \in Nat /\ TopOf(i) <= Len(stack)
      <4>1. i # Depth => i + 1 \in 1 .. Depth
        BY <1>1, <3>1
      <4> QED BY <1>1, <1>9, <4>1 DEF TopOf
    <3>4. Same(stack, stack', TopOf(i))
      BY <1>1, <1>5, <3>3 DEF Same
    <3>5. Frame(stack', entered[i], AddressOf(i), RegistersOf(i), TopOf(i))
      BY <3>1, <3>2, <3>4, FrameSame
    <3>6. i \in 0 .. Depth /\ entered'[i] = entered[i]
      BY <1>6, <3>1
    <3> QED BY <1>7, <3>5, <3>6
  <2> QED BY <2>1, <2>2
<1>11. Nesting'
  <2>1. AddressOf(0)' < MainSize /\ TopOf(0)' = 0
    BY <1>1, <1>7 DEF IInv, Nesting
  <2>2. (interrupts <=> Depth = 0)'
    BY <1>1, <1>4, <1>6
  <2>3. \A i \in 1 .. Depth + 1 : entered'[i].flag = IF i = 1 THEN 1 ELSE 0
    BY <1>1, <1>2, <1>6 DEF IInv, Nesting
  <2>4. \A i \in 1 .. Depth + 1 : entered'[i].vector >= PIC_OFFSET => i = 1
    BY <1>1, <1>2, <1>6 DEF IInv, Nesting
  <2>5. \A i \in 1 .. Depth + 1 : \A j \in 1 .. i : entered'[j].height <= entered'[i].height
    <3> SUFFICES ASSUME NEW i \in 1 .. Depth + 1, NEW j \in 1 .. i
                 PROVE  entered'[j].height <= entered'[i].height
      OBVIOUS
    <3>1. CASE i = Depth + 1
      BY <1>1, <1>2, <1>6, <1>9, <3>1
    <3>2. CASE i # Depth + 1
      <4>1. i \in 1 .. Depth /\ j \in 1 .. Depth
        BY <1>1, <3>2
      <4> QED BY <1>6, <4>1 DEF IInv, Nesting
    <3> QED BY <3>1, <3>2
  <2> QED BY <1>6, <2>1, <2>2, <2>3, <2>4, <2>5 DEF Nesting
<1>12. Served'
  <2>1. \A i \in 1 .. Depth + 1 :
          IF entered'[i].vector < PIC_OFFSET THEN entered'[i].lines = {}
          ELSE entered'[i].lines \subseteq Lines(entered'[i].vector - PIC_OFFSET)
    <3> SUFFICES ASSUME NEW i \in 1 .. Depth + 1
                 PROVE  IF entered'[i].vector < PIC_OFFSET THEN entered'[i].lines = {}
                        ELSE entered'[i].lines \subseteq Lines(entered'[i].vector - PIC_OFFSET)
      OBVIOUS
    <3>1. CASE i = Depth + 1
      <4>1. entered'[i] = level
        BY <1>6, <3>1
      <4>2. vector < PIC_OFFSET \/ vector >= PIC_OFFSET
        BY DEF PIC_OFFSET
      <4> QED BY <1>2, <4>1, <4>2
    <3>2. CASE i # Depth + 1
      <4>1. i \in 1 .. Depth
        BY <1>1, <3>2
      <4> QED BY <1>6, <4>1 DEF IInv, Served
    <3> QED BY <3>1, <3>2
  <2>2. in_service' = Unacknowledged(1)'
    <3>1. CASE Depth = 0
      <4>1. AddressOf(1)' = eip'
        BY <1>8, <3>1
      <4>2. entered'[1].lines = lines
        BY <1>2, <1>6, <3>1
      <4>3. in_service' = lines
        BY <3>1 DEF IInv, Served
      <4>4. eip' \in 100 .. 247
        BY <1>3, <1>4
      <4> QED BY <4>1, <4>2, <4>3, <4>4 DEF Unacknowledged, EOI_MASTER
    <3>2. CASE Depth # 0
      <4>1. lines = {}
        BY <3>2 DEF PIC_OFFSET
      <4>2. AddressOf(1)' = AddressOf(1) /\ entered'[1] = entered[1]
        BY <1>1, <1>6, <1>7, <3>2
      <4> QED BY <3>2, <4>1, <4>2 DEF IInv, Served, Unacknowledged
    <3> QED BY <3>1, <3>2
  <2> QED BY <1>1, <1>6, <2>1, <2>2 DEF Served
<1>13. TypeOK'
  <2>1. eip' \in Nat /\ registers' \in Registers /\ interrupts' \in BOOLEAN
    <3>1. StubOf(vector) \in Nat
      <4>1. StubOf(vector) \in 100 .. 247
        BY <1>3
      <4> QED BY <4>1
    <3> QED BY <1>1, <1>4, <3>1
  <2>2. in_service' \subseteq 0 .. PIC_IRQ_COUNT - 1
    BY DEF IInv, TypeOK, PIC_IRQ_COUNT
  <2>3. Len(entered') <= MaxDepth
    BY <1>1, <1>4, <1>6, InterruptAssumption DEF Depth
  <2> QED BY <1>5, <1>6, <2>1, <2>2, <2>3 DEF TypeOK
<1> QED BY <1>10, <1>11, <1>12, <1>13 DEF IInv

LEMMA InterruptInv == ASSUME IInv, Exception \/ TakeIrq \/ TakeSpurious PROVE IInv'
<1> USE DEF PIC_OFFSET, PIC_IRQ_COUNT, EXCEPTION_COUNT
<1>1. requested \subseteq Irqs
  BY DEF IInv, TypeOK
<1>2. CASE Exception
  <2>1. PICK vector \in Exceptions : Enter(vector, {})
    BY <1>2 DEF Exception
  <2>2. vector \in 0 .. 47 /\ vector < PIC_OFFSET
    BY InterruptAssumption
  <2>3. {} \in SUBSET (0 .. 15) /\ in_service' = in_service \cup {} /\ requested' \subseteq Irqs
    BY <1>1, <1>2 DEF Exception
  <2> QED BY <2>1, <2>2, <2>3, EnterInv
<1>3. ASSUME NEW irq \in 0 .. 15, NEW lines, lines \subseteq Lines(irq), interrupts,
             Enter(PIC_OFFSET + irq, lines), requested' \subseteq Irqs,
             in_service' = in_service \cup lines
      PROVE  IInv'
  <2>1. PIC_OFFSET + irq \in 0 .. 47 /\ (PIC_OFFSET + irq) - PIC_OFFSET = irq
    OBVIOUS
  <2>2. lines \in SUBSET (0 .. 15)
    BY <1>3 DEF Lines
  <2>3. Depth = 0
    BY <1>3 DEF IInv, Nesting
  <2>4. ~(PIC_OFFSET + irq < PIC_OFFSET)
    OBVIOUS
  <2> QED BY <1>3, <2>1, <2>2, <2>3, <2>4, EnterInv
<1>4. CASE TakeIrq
  <2>1. PICK irq \in requested : /\ requested' = requested \ {irq}
                                 /\ in_service' = in_service \cup Lines(irq)
                                 /\ Enter(PIC_OFFSET + irq, Lines(irq))
    BY <1>4 DEF TakeIrq
  <2>2. irq \in 0 .. 15 /\ requested' \subseteq Irqs
    BY <1>1, <2>1, InterruptAssumption
  <2> QED BY <1>3, <1>4, <2>1, <2>2 DEF TakeIrq
<1>5. CASE TakeSpurious
  <2>1. PICK irq \in Spurious : /\ in_service' = in_service \cup (Lines(irq) \ {irq})
                                /\ Enter(PIC_OFFSET + irq, Lines(irq) \ {irq})
    BY <1>5 DEF TakeSpurious
  <2>2. irq \in 0 .. 15 /\ requested' \subseteq Irqs /\ interrupts
    BY <1>1, <1>5, InterruptAssumption DEF TakeSpurious
  <2>3. Lines(irq) \ {irq} \subseteq Lines(irq)
    OBVIOUS
  <2> QED BY <1>3, <2>1, <2>2, <2>3
<1> QED BY <1>2, <1>4, <1>5

\* 'iretd' uncovers the level below as it was left.
LEMMA ReturnInv == ASSUME IInv, Return PROVE IInv'
<1> DEFINE h == Current.height
<1>1. /\ eip = 309 /\ eip' = Top(0).value /\ interrupts' = (Top(2).value = 1) /\ Drop(3)
      /\ entered' = SubSeq(entered, 1, Len(entered) - 1)
      /\ UNCHANGED <<registers, requested, in_service>>
  BY DEF Return, At, Goto, IRETD
<1>2. /\ Depth # 0 /\ Depth \in Nat /\ Current = entered[Depth] /\ Current \in Levels
      /\ h \in Nat /\ Len(stack) = h + 3 /\ Frame(stack, Current, 309, registers, Len(stack))
  BY <1>1, Running, PushedAt
<1>3. stack \in Seq(Words) /\ entered \in Seq(Levels) /\ Depth = Len(entered)
  BY DEF IInv, TypeOK, Depth
<1>4. eip' = Current.eip /\ interrupts' = (Current.flag = 1) /\ registers = Current.registers
  <2>1. RightWord(stack[h + 3], Current, 3) /\ RightWord(stack[h + 1], Current, 1)
    BY <1>2, PushedAt DEF Frame
  <2>2. stack[h + 3].value = Current.eip /\ stack[h + 1].value = Current.flag
    BY <2>1 DEF RightWord, Word
  <2>3. Len(stack) - 0 = h + 3 /\ Len(stack) - 2 = h + 1
    BY <1>2
  <2>4. registers = Current.registers
    BY <1>2 DEF Frame, PUSH_ESP, POPA
  <2> QED BY <1>1, <2>2, <2>3, <2>4 DEF Top
<1>5. stack' \in Seq(Words) /\ Len(stack') = h /\ Same(stack, stack', h)
  <2>1. 3 \in 0 .. Len(stack) /\ Len(stack) - 3 = h
    BY <1>2
  <2>2. stack' = SubSeq(stack, 1, Len(stack) - 3)
    BY <1>1 DEF Drop
  <2> QED BY <1>3, <2>1, <2>2, DropFacts DEF Same
<1>6. /\ entered' \in Seq(Levels) /\ Depth' = Depth - 1
      /\ \A i \in 1 .. Depth - 1 : entered'[i] = entered[i]
  <2>1. 1 \in 0 .. Len(entered)
    BY <1>2, <1>3
  <2> QED BY <1>1, <1>3, <2>1, DropFacts DEF Depth
<1> HIDE DEF h
<1>7. \A i \in 0 .. Depth - 1 : /\ AddressOf(i)' = AddressOf(i) /\ RegistersOf(i)' = RegistersOf(i)
                               /\ TopOf(i)' = TopOf(i)
  <2> SUFFICES ASSUME NEW i \in 0 .. Depth - 1
               PROVE  /\ AddressOf(i)' = AddressOf(i) /\ RegistersOf(i)' = RegistersOf(i)
                      /\ TopOf(i)' = TopOf(i)
    OBVIOUS
  <2>1. Len(entered') = Depth - 1 /\ Depth' = Depth - 1 /\ i # Depth /\ i # Len(entered)
    BY <1>2, <1>3, <1>6 DEF Depth
  <2>2. CASE i = Depth - 1
    <3>1. entered[i + 1] = Current
      BY <1>2, <2>2
    <3> QED BY <1>1, <1>4, <1>5, <2>1, <2>2, <3>1 DEF AddressOf, RegistersOf, TopOf, h
  <2>3. CASE i # Depth - 1
    <3>1. entered'[i + 1] = entered[i + 1]
      BY <1>2, <1>6, <2>3
    <3> QED BY <2>1, <2>3, <3>1 DEF AddressOf, RegistersOf, TopOf
  <2> QED BY <2>2, <2>3
<1>8. Frames'
  <2> SUFFICES ASSUME NEW i \in 1 .. Depth - 1
               PROVE  Frame(stack', entered'[i], AddressOf(i)', RegistersOf(i)', TopOf(i)')
    BY <1>6 DEF Frames
  <2>1. i \in 1 .. Depth /\ i + 1 \in 1 .. Depth /\ i # Depth /\ i \in 0 .. Depth - 1
    BY <1>2
  <2>2. Frame(stack, entered[i], AddressOf(i), RegistersOf(i), TopOf(i))
    BY <2>1 DEF IInv, Frames
  <2>3. TopOf(i) \in Nat /\ TopOf(i) <= h
    <3>1. TopOf(i) = entered[i + 1].height
      BY <2>1 DEF TopOf
    <3>2. entered[i + 1].height <= entered[Depth].height
      BY <1>2, <2>1 DEF IInv, Nesting
    <3> QED BY <1>2, <2>1, <3>1, <3>2, LevelTypes DEF IInv, h
  <2>4. Same(stack, stack', TopOf(i))
    BY <1>2, <1>5, <2>3 DEF Same
  <2>5. entered[i] \in Levels
    BY <2>1, LevelTypes DEF IInv
  <2>6. Frame(stack', entered[i], AddressOf(i), RegistersOf(i), TopOf(i))
    BY <2>2, <2>4, <2>5, FrameSame
  <2> QED BY <1>6, <1>7, <2>1, <2>6
<1>9. Nesting'
  <2>1. AddressOf(0)' < MainSize /\ TopOf(0)' = 0
    <3>1. 0 \in 0 .. Depth - 1
      BY <1>2
    <3> QED BY <1>7, <3>1 DEF IInv, Nesting
  <2>2. interrupts' <=> Depth - 1 = 0
    <3>1. Current.flag = IF Depth = 1 THEN 1 ELSE 0
      <4>1. Depth \in 1 .. Depth
        BY <1>2
      <4> QED BY <1>2, <4>1 DEF IInv, Nesting
    <3>2. CASE Depth = 1
      <4>1. Current.flag = 1
        BY <3>1, <3>2
      <4>2. Depth - 1 = 0
        BY <3>2
      <4>3. interrupts'
        BY <1>4, <4>1, Zenon
      <4> QED BY <4>2, <4>3
    <3>3. CASE Depth # 1
      <4>1. Current.flag # 1
        BY <3>1, <3>3
      <4>2. Depth - 1 # 0
        BY <1>2, <3>3
      <4>3. ~interrupts'
        BY <1>4, <4>1, Zenon
      <4> QED BY <4>2, <4>3
    <3> QED BY <3>2, <3>3
  <2> QED BY <1>2, <1>6, <2>1, <2>2 DEF IInv, Nesting
<1>10. Served'
  <2>1. in_service' = IF Depth' = 0 THEN {} ELSE Unacknowledged(1)'
    <3>1. CASE Depth = 1
      <4>1. AddressOf(1) = 309
        BY <1>1, <3>1 DEF AddressOf, Depth
      <4> QED BY <1>1, <1>6, <3>1, <4>1 DEF IInv, Served, Unacknowledged, EOI_MASTER
    <3>2. CASE Depth # 1
      <4>1. 1 \in 1 .. Depth - 1 /\ 1 \in 0 .. Depth - 1
        BY <1>2, <3>2
      <4>2. AddressOf(1)' = AddressOf(1) /\ entered'[1] = entered[1] /\ Depth' # 0
        BY <1>2, <1>6, <1>7, <3>2, <4>1
      <4>3. in_service' = Unacknowledged(1)
        BY <1>1, <1>2 DEF IInv, Served
      <4>4. Unacknowledged(1)' = Unacknowledged(1)
        BY <4>2 DEF Unacknowledged
      <4> QED BY <4>2, <4>3, <4>4
    <3> QED BY <3>1, <3>2
  <2> QED BY <1>2, <1>6, <2>1 DEF IInv, Served
<1>11. TypeOK'
  <2>1. eip' \in Nat
    BY <1>2, <1>4 DEF Levels
  <2>2. Len(entered') <= MaxDepth
    BY <1>2, <1>6, InterruptAssumption DEF IInv, TypeOK, Depth
  <2> QED BY <1>1, <1>4, <1>5, <1>6, <2>1, <2>2 DEF IInv, TypeOK
<1> QED BY <1>8, <1>9, <1>10, <1>11 DEF IInv

\* What the devices raise is nothing the stack or the PICs in service depend on.
LEMMA RaiseInv ==
  ASSUME IInv, UNCHANGED <<cpuVars, in_service, entered>>, requested' \subseteq Irqs
  PROVE  IInv'
<1>1. UNCHANGED <<eip, interrupts, registers, stack, in_service, entered>>
  BY DEF cpuVars
<1>2. Depth' = Depth /\ Unacknowledged(1)' = Unacknowledged(1)
  BY <1>1 DEF Depth, Unacknowledged, AddressOf
<1>3. TypeOK'
  BY <1>1 DEF IInv, TypeOK
<1>4. Frames'
  BY <1>1 DEF IInv, Frames, Depth, AddressOf, RegistersOf, TopOf
<1>5. Nesting'
  BY <1>1 DEF IInv, Nesting, Depth, AddressOf, TopOf
<1>6. Served'
  BY <1>1, <1>2 DEF IInv, Served
<1> QED BY <1>3, <1>4, <1>5, <1>6 DEF IInv

-----------------------------------------------------------------------------
(* The theorems *)

\* The inductive invariant: every interrupt that has not returned has its frame on
\* the stack above that of the one it interrupted.
THEOREM Invariant == Spec => []IInv
<1>1. IInv /\ [Next]_vars => IInv'
  <2> SUFFICES ASSUME IInv, [Next]_vars PROVE IInv'
    OBVIOUS
  <2>1. CASE Exception \/ TakeIrq \/ TakeSpurious
    BY <2>1, InterruptInv
  <2>2. CASE RaiseIrq
    <3>1. UNCHANGED <<cpuVars, in_service, entered>> /\ requested' \subseteq Irqs
      BY <2>2 DEF RaiseIrq, IInv, TypeOK
    <3> QED BY <3>1, RaiseInv
  <2>3. CASE Main
    BY <2>3, MainInv
  <2>4. CASE Stub
    BY <2>4, StubInv
  <2>5. CASE Save
    BY <2>5, SaveInv
  <2>6. CASE Handler
    BY <2>6, HandlerInv
  <2>7. CASE Acknowledge
    BY <2>7, AcknowledgeInv
  <2>8. CASE Restore
    BY <2>8, RestoreInv
  <2>9. CASE Return
    BY <2>9, ReturnInv
  <2>10. CASE UNCHANGED vars
    <3>1. UNCHANGED <<cpuVars, in_service, entered>> /\ requested' \subseteq Irqs
      BY <2>10 DEF vars, IInv, TypeOK
    <3> QED BY <3>1, RaiseInv
  <2> QED BY <2>1, <2>2, <2>3, <2>4, <2>5, <2>6, <2>7, <2>8, <2>9, <2>10 DEF Next
<1> QED BY <1>1, InitInv, PTL DEF Spec

\* What is pushed has the type of its place in interrupt_frame_t, the PICs only
\* serve lines they have, and no level is deeper than MaxDepth.
THEOREM TypeCorrect == Spec => []TypeOK
<1>1. IInv => TypeOK
  BY DEF IInv
<1> QED BY <1>1, Invariant, PTL

\* interrupt_dispatch() always finds interrupt_frame_t where it looks for it
\* (interrupt.h 5-33), whatever the vector and however deep.
THEOREM FrameAsDeclared == Spec => []FrameIsRight
<1>1. IInv => FrameIsRight
  <2> SUFFICES ASSUME IInv, eip = HANDLER PROVE FrameIsRight
    BY DEF FrameIsRight
  <2> DEFINE h == Current.height
  <2>1. eip = 303
    BY DEF HANDLER
  <2>2. Depth # 0
    BY <2>1, Running
  <2>3. /\ h \in Nat /\ Len(stack) = h + 7
        /\ \A k \in 1 .. 7 : RightWord(stack[h + k], Current, k)
    BY <2>1, <2>2, Running, PushedAt DEF Frame
  <2> HIDE DEF h
  <2>4. \A k \in 1 .. 7 : RightWord(stack[h + k], Current, k)
    BY <2>3
  <2>5. Len(stack) = h + 7 /\ h \in Nat
    BY <2>3
  <2>6. Top(0) = stack[h + 7] /\ Top(2) = stack[h + 5] /\ Top(3) = stack[h + 4]
    BY <2>5 DEF Top
  <2>7. Top(4) = stack[h + 3] /\ Top(5) = stack[h + 2] /\ Top(6) = stack[h + 1]
    BY <2>5 DEF Top
  <2>8. Top(0).value = Len(stack) - 1
    <3>1. stack[h + 7] = Word("esp", h + 6)
      BY <2>4 DEF RightWord, h
    <3>2. Len(stack) - 1 = h + 6
      BY <2>5
    <3> QED BY <2>6, <3>1, <3>2 DEF Word
  <2>9. Top(2).what = "vector" /\ Vector = Current.vector
    <3>1. RightWord(stack[h + 5], Current, 5)
      BY <2>4
    <3>2. stack[h + 5] = Word("vector", Current.vector)
      BY <3>1 DEF RightWord
    <3> QED BY <2>6, <3>2 DEF Word, Vector
  <2>10. Top(3).what = "code" /\ Top(5).what = "cs"
    BY <2>4, <2>6, <2>7 DEF RightWord
  <2>11. Top(4).what = "eip" /\ Top(6).what = "eflags"
    BY <2>4, <2>6, <2>7 DEF RightWord, Word
  <2> QED BY <2>8, <2>9, <2>10, <2>11 DEF FrameIsRight
<1> QED BY <1>1, Invariant, PTL

\* 'iretd' goes back to what was interrupted with its flags, its registers and
\* its stack (irq_stub.asm 34-58, exception_stub.asm 10-47).
THEOREM InterruptsTransparent == Spec => []Transparent
<1>1. IInv => Transparent
  <2> SUFFICES ASSUME IInv, eip = IRETD PROVE Transparent
    BY DEF Transparent
  <2> DEFINE h == Current.height
  <2>1. eip = 309
    BY DEF IRETD
  <2>2. Depth # 0
    BY <2>1, Running
  <2>3. /\ h \in Nat /\ Len(stack) = h + 3
        /\ \A k \in 1 .. 3 : RightWord(stack[h + k], Current, k)
        /\ registers = Current.registers
    <3>1. h \in Nat /\ Len(stack) = h + Pushed(eip) /\ Frame(stack, Current, eip, registers, Len(stack))
      BY <2>2, Running
    <3>2. Pushed(eip) = 3
      BY <2>1, PushedAt
    <3>3. eip \notin PUSH_ESP .. POPA
      BY <2>1 DEF PUSH_ESP, POPA
    <3> QED BY <3>1, <3>2, <3>3 DEF Frame
  <2>4. Len(stack) - 0 = h + 3 /\ Len(stack) - 2 = h + 1
    BY <2>3
  <2>5. Top(0) = Word("eip", Current.eip)
    BY <2>3, <2>4 DEF Top, RightWord
  <2>6. Top(2) = Word("eflags", Current.flag)
    BY <2>3, <2>4 DEF Top, RightWord
  <2> QED BY <2>3, <2>5, <2>6 DEF Transparent
<1> QED BY <1>1, Invariant, PTL

\* The PICs serve exactly what the dispatcher has still to acknowledge
\* (interrupt.c 37-50): no exception acknowledges an IRQ, a spurious IRQ
\* acknowledges no other one and none is left in service.
THEOREM LinesServed == Spec => []OnlyServed
<1>1. IInv => OnlyServed
  <2> SUFFICES ASSUME IInv PROVE OnlyServed
    OBVIOUS
  <2>1. Depth \in Nat /\ Depth = Len(entered)
    BY Running DEF Depth
  <2>2. \A i \in 1 .. Depth : i # 1 => Unacknowledged(i) = {}
    <3> SUFFICES ASSUME NEW i \in 1 .. Depth, i # 1 PROVE Unacknowledged(i) = {}
      OBVIOUS
    <3>1. entered[i].vector < PIC_OFFSET
      <4>1. entered[i].vector \in 0 .. 47
        BY LevelTypes DEF IInv
      <4> QED BY <4>1 DEF IInv, Nesting, PIC_OFFSET
    <3>2. entered[i].lines = {}
      BY <3>1 DEF IInv, Served
    <3>3. AddressOf(i) \in Nat
      BY <2>1, LevelTypes DEF IInv, TypeOK, AddressOf
    <3>4. AddressOf(i) < 305 \/ AddressOf(i) = 305 \/ AddressOf(i) > 305
      BY <3>3
    <3> QED BY <3>2, <3>3, <3>4 DEF Unacknowledged, EOI_MASTER
  <2>3. CASE Depth = 0
    <3>1. UNION {Unacknowledged(i) : i \in 1 .. Depth} = {}
      BY <2>3
    <3> QED BY <2>1, <2>3, <3>1 DEF IInv, Served, OnlyServed
  <2>4. CASE Depth # 0
    <3>1. 1 \in 1 .. Depth
      BY <2>1, <2>4
    <3>2. UNION {Unacknowledged(i) : i \in 1 .. Depth} = Unacknowledged(1)
      BY <2>2, <3>1
    <3> QED BY <2>1, <2>4, <3>2 DEF IInv, Served, OnlyServed
  <2> QED BY <2>3, <2>4
<1> QED BY <1>1, Invariant, PTL
=============================================================================
