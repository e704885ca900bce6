------------------------- MODULE MousePacketsProofs -------------------------
(***************************************************************************)
(* Proofs about MousePackets, for any bytes a mouse can send and any number *)
(* of bytes lost.                                                          *)
(***************************************************************************)
EXTENDS MousePackets, SequenceTheorems, TLAPS

-----------------------------------------------------------------------------
(* The inductive invariant *)

\* The place in its packet of the byte the mouse sends next.
Place == IF Len(stream) \in {0, PacketSize} THEN 0 ELSE PacketSize - Len(stream)

\* How many misreadings can still follow from the slips there have been: none in
\* step; one if the handler waits for a first byte (it misses the wheel of this
\* packet); two if it is ahead (it reads the wheel too early, then waits); three
\* if it is behind (the packet ends first, then it is ahead).
Debt == CASE cycle = Place -> 0
          [] cycle # Place /\ cycle = 0 -> 1
          [] cycle > Place -> 2
          [] 0 < cycle /\ cycle < Place -> 3

\* The answer left by the dialogue has not been read yet.
AnswerLeft == Len(stream) = 1 /\ cycle = 0 /\ wrong = 0 /\ slips = 1

\* A packet starts with a byte that has bit 3, and if the mouse is calm no other
\* byte has it.
PacketShape ==
  /\ Len(stream) <= PacketSize
  /\ Len(stream) = PacketSize => Bit3(stream[1])
  /\ calm => \/ AnswerLeft
             \/ \A i \in 1 .. Len(stream) :
                  Bit3(stream[i]) => i = 1 /\ Len(stream) = PacketSize

IInv ==
  /\ TypeOK
  /\ PacketShape
  /\ slips = 0 => cycle = Place /\ wrong = 0
  /\ calm => wrong + Debt <= 3 * slips

-----------------------------------------------------------------------------
(* Facts *)

LEMMA Types ==
  ASSUME TypeOK
  PROVE  /\ PacketSize \in {3, 4} /\ (PacketSize = 4 <=> has_scroll_wheel)
         /\ Len(stream) \in Nat
         /\ cycle \in 0 .. PacketSize - 1
         /\ slips \in Nat /\ wrong \in Nat
BY PacketAssumption DEF TypeOK, PacketSize

LEMMA DebtValue ==
  TypeOK /\ PacketShape => /\ Place \in 0 .. PacketSize - 1
                           /\ Debt = IF cycle = Place THEN 0
                                     ELSE IF cycle = 0 THEN 1
                                     ELSE IF cycle > Place THEN 2 ELSE 3
<1> SUFFICES ASSUME TypeOK, PacketShape
             PROVE  /\ Place \in 0 .. PacketSize - 1
                    /\ Debt = IF cycle = Place THEN 0
                              ELSE IF cycle = 0 THEN 1
                              ELSE IF cycle > Place THEN 2 ELSE 3
  OBVIOUS
<1>1. Place \in 0 .. PacketSize - 1
  BY Types DEF PacketShape, Place
<1> QED BY <1>1, Types DEF Debt

LEMMA DebtRange == TypeOK /\ PacketShape => Debt \in 0 .. 3
BY DebtValue

\* The stream without its first byte.
LEMMA OneByteLess ==
  ASSUME TypeOK, stream # << >>
  PROVE  /\ Len(stream) \in Nat /\ Len(stream) >= 1
         /\ Head(stream) = stream[1] /\ stream[1] \in Byte
         /\ Tail(stream) \in Seq(Byte) /\ Len(Tail(stream)) = Len(stream) - 1
         /\ \A i \in 1 .. Len(Tail(stream)) : Tail(stream)[i] = stream[i + 1]
BY HeadTailProperties DEF TypeOK

LEMMA InitInv == Init => IInv
<1> SUFFICES ASSUME Init PROVE IInv
  OBVIOUS
<1>1. /\ has_scroll_wheel \in BOOLEAN /\ calm \in BOOLEAN /\ cycle = 0 /\ wrong = 0
      /\ slips = Len(stream) /\ slips \in {0, 1} /\ slips <= MaxSlips
      /\ stream \in Seq(Byte)
  <2>1. CASE stream = << >>
    BY <2>1 DEF Init
  <2>2. ASSUME NEW b \in Leftovers, stream = <<b>>
        PROVE  stream \in Seq(Byte) /\ Len(stream) = 1
    BY <2>2, PacketAssumption
  <2> QED BY <2>1, <2>2 DEF Init
<1>2. PacketSize \in {3, 4}
  BY DEF PacketSize
<1>3. PacketShape
  BY <1>1, <1>2 DEF PacketShape, AnswerLeft
<1>4. Place \in 0 .. PacketSize - 1 /\ (slips = 0 => Place = 0)
  BY <1>1, <1>2 DEF Place
<1>5. Debt = IF Place = 0 THEN 0 ELSE 1
  BY <1>1, <1>4 DEF Debt
<1>6. TypeOK
  <2>1. has_scroll_wheel \in BOOLEAN /\ calm \in BOOLEAN
    BY <1>1
  <2>2. cycle \in 0 .. PacketSize - 1
    BY <1>1, <1>2
  <2>3. slips \in 0 .. MaxSlips /\ wrong \in 0 .. MaxWrong
    BY <1>1, PacketAssumption
  <2>4. stream \in Seq(Byte) /\ Len(stream) <= 4
    BY <1>1
  <2> QED BY <2>1, <2>2, <2>3, <2>4 DEF TypeOK
<1> QED BY <1>1, <1>3, <1>4, <1>5, <1>6 DEF IInv

\* A packet has the bytes the mouse sends, and bit 3 where it should.
LEMMA NewPacket ==
  ASSUME IInv, SendPacket
  PROVE  /\ stream' \in Seq(Byte) /\ Len(stream') = PacketSize /\ Bit3(stream'[1])
         /\ calm => \A i \in 2 .. PacketSize : ~Bit3(stream'[i])
         /\ PacketSize' = PacketSize /\ Place' = Place
<1> DEFINE moves == {<<h, x, y>> : h \in Headers, x \in Sent(Movements), y \in Sent(Movements)}
<1>1. PICK m \in moves : IF has_scroll_wheel THEN \E w \in Sent(Wheels) : stream' = Append(m, w)
                                             ELSE stream' = m
  BY DEF SendPacket, Packets
<1>2. PICK h \in Headers, x \in Sent(Movements), y \in Sent(Movements) : m = <<h, x, y>>
  OBVIOUS
<1> HIDE DEF moves
<1>3. h \in Byte /\ Bit3(h) /\ {x, y} \subseteq Byte /\ (calm => ~Bit3(x) /\ ~Bit3(y))
  BY PacketAssumption DEF Sent
<1>4. /\ stream' \in Seq(Byte) /\ Len(stream') = PacketSize /\ Bit3(stream'[1])
      /\ calm => \A i \in 2 .. PacketSize : ~Bit3(stream'[i])
  <2>1. CASE ~has_scroll_wheel
    <3>1. stream' = <<h, x, y>> /\ PacketSize = 3
      BY <1>1, <1>2, <2>1 DEF PacketSize
    <3> QED BY <1>3, <3>1
  <2>2. CASE has_scroll_wheel
    <3>1. PICK w \in Sent(Wheels) : stream' = Append(m, w)
      BY <1>1, <2>2
    <3>2. w \in Byte /\ (calm => ~Bit3(w)) /\ PacketSize = 4
      BY <2>2, PacketAssumption DEF Sent, PacketSize
    <3>3. m \in Seq(Byte) /\ Len(m) = 3 /\ m[1] = h /\ m[2] = x /\ m[3] = y
      BY <1>2, <1>3
    <3>4. /\ stream' \in Seq(Byte) /\ Len(stream') = 4
          /\ stream'[1] = h /\ stream'[2] = x /\ stream'[3] = y /\ stream'[4] = w
      BY <3>1, <3>2, <3>3, AppendProperties
    <3> QED BY <1>3, <3>2, <3>4
  <2> QED BY <2>1, <2>2
<1>5. PacketSize' = PacketSize /\ Place = 0
  BY DEF SendPacket, PacketSize, Place
<1>6. Len(stream') = PacketSize => Place' = 0
  BY <1>5 DEF Place
<1> QED BY <1>4, <1>5, <1>6

LEMMA SendInv == ASSUME IInv, SendPacket PROVE IInv'
<1>1. UNCHANGED <<cycle, calm, slips, wrong, has_scroll_wheel>>
  BY DEF SendPacket
<1>2. PacketSize \in {3, 4}
  BY Types DEF IInv
<1>3. Debt' = Debt
  BY <1>1, NewPacket DEF Debt
<1>4. TypeOK'
  BY <1>1, <1>2, NewPacket DEF IInv, TypeOK
<1>5. PacketShape'
  BY <1>1, <1>2, NewPacket DEF PacketShape
<1> QED BY <1>1, <1>3, <1>4, <1>5, NewPacket DEF IInv

LEMMA LoseInv == ASSUME IInv, LoseByte PROVE IInv'
<1> USE DEF LoseByte
<1>1. /\ PacketSize' = PacketSize /\ cycle' = cycle /\ slips' = slips + 1
      /\ UNCHANGED <<calm, wrong, has_scroll_wheel>>
  BY DEF PacketSize
<1>2. /\ stream' \in Seq(Byte) /\ Len(stream') = Len(stream) - 1 /\ Len(stream) >= 1
      /\ \A i \in 1 .. Len(stream') : stream'[i] = stream[i + 1]
  BY OneByteLess DEF IInv
<1>3. TypeOK'
  BY <1>1, <1>2, PacketAssumption, Types DEF IInv, TypeOK
<1>4. PacketShape'
  BY <1>1, <1>2, Types DEF IInv, PacketShape, AnswerLeft
<1>5. Debt \in 0 .. 3 /\ Debt' \in 0 .. 3
  <2>1. (TypeOK /\ PacketShape => Debt \in 0 .. 3)'
    BY DebtRange, PTL
  <2> QED BY <1>3, <1>4, <2>1, DebtRange DEF IInv
<1>6. calm => wrong + Debt' <= 3 * (slips + 1)
  <2>1. calm => wrong + Debt <= 3 * slips
    BY DEF IInv
  <2>2. slips \in Nat /\ wrong \in Nat
    BY Types DEF IInv
  <2> HIDE DEF LoseByte
  <2>3. \A w \in Nat, l \in Nat, d \in 0 .. 3, e \in 0 .. 3 :
           w + d <= 3 * l => w + e <= 3 * (l + 1)
    OBVIOUS
  <2> QED BY <1>5, <2>1, <2>2, <2>3
<1> QED BY <1>1, <1>3, <1>4, <1>6, Types DEF IInv

\* The places of the two sides after a byte is read.
LEMMA ByteSteps ==
  ASSUME IInv, MouseByte
  PROVE  /\ PacketSize' = PacketSize
         /\ Place' = (IF Place = PacketSize - 1 THEN 0 ELSE Place + 1)
         /\ cycle' = IF (cycle = 0 /\ ~Bit3(stream[1])) \/ cycle = PacketSize - 1
                     THEN 0 ELSE cycle + 1
         /\ Len(stream) = 1 <=> Place = PacketSize - 1
         /\ Len(stream) = PacketSize <=> Place = 0
<1>1. PacketSize' = PacketSize
  BY DEF MouseByte, PacketSize
<1>2. /\ Len(stream) \in 1 .. PacketSize /\ Head(stream) = stream[1]
      /\ Len(stream') = Len(stream) - 1
  BY OneByteLess, Types DEF IInv, MouseByte, PacketShape
<1>3. cycle' = IF cycle = 0 /\ ~Bit3(stream[1]) THEN 0 ELSE (cycle + 1) % PacketSize
  BY <1>2 DEF MouseByte, Take, MayStart, NextPlace
<1>4. (cycle + 1) % PacketSize = IF cycle = PacketSize - 1 THEN 0 ELSE cycle + 1
  BY Types DEF IInv
<1>5. Place = IF Len(stream) = PacketSize THEN 0 ELSE PacketSize - Len(stream)
  BY <1>2 DEF Place
<1>6. Place' = IF Len(stream) = 1 THEN 0 ELSE PacketSize - Len(stream) + 1
  BY <1>1, <1>2, Types DEF IInv, Place
<1>7. PacketSize \in {3, 4} /\ Len(stream) \in 1 .. PacketSize /\ cycle \in 0 .. PacketSize - 1
  BY <1>2, Types DEF IInv
<1>8. cycle' = IF (cycle = 0 /\ ~Bit3(stream[1])) \/ cycle = PacketSize - 1 THEN 0 ELSE cycle + 1
  BY <1>3, <1>4
<1>9. Len(stream) = 1 <=> Place = PacketSize - 1
  BY <1>5, <1>7
<1>10. Len(stream) = PacketSize <=> Place = 0
  BY <1>5, <1>7
<1>11. Place' = (IF Place = PacketSize - 1 THEN 0 ELSE Place + 1)
  <2>1. CASE Len(stream) = 1
    BY <1>6, <1>9, <2>1
  <2>2. CASE Len(stream) # 1
    <3>1. Place = PacketSize - Len(stream)
      BY <1>5, <1>7
    <3>2. Place' = PacketSize - Len(stream) + 1
      BY <1>6, <2>2
    <3> QED BY <1>7, <1>9, <2>2, <3>1, <3>2
  <2> QED BY <2>1, <2>2
<1> QED BY <1>1, <1>8, <1>9, <1>10, <1>11

\* What the handler pushes is what the mouse said, if neither or both of them are
\* at the byte of the wheel.
LEMMA RightPush ==
  ASSUME IInv, MouseByte, ~has_scroll_wheel \/ (cycle = 3 <=> Len(stream) = 1)
  PROVE  wrong' = wrong
<1>1. Head(stream) \in Byte
  BY OneByteLess DEF IInv, MouseByte
<1>2. PICK pushed \in {NoPush, WHEEL_UP, WHEEL_DOWN} :
        /\ pushed = IF has_scroll_wheel /\ cycle = 3 THEN ScancodeOf(Head(stream)) ELSE NoPush
        /\ wrong' = IF pushed = Meant(Head(stream)) \/ wrong = MaxWrong
                    THEN wrong ELSE wrong + 1
  BY DEF MouseByte, Take
<1>3. ScancodeOf(Head(stream)) = IF Head(stream) >= 128 THEN WHEEL_UP
                                 ELSE IF Head(stream) = 0 THEN NoPush ELSE WHEEL_DOWN
  BY <1>1 DEF ScancodeOf, Signed, Byte
<1>4. Meant(Head(stream)) = IF ~has_scroll_wheel \/ Len(stream) # 1 THEN NoPush
                            ELSE IF Head(stream) >= 128 THEN WHEEL_UP
                            ELSE IF Head(stream) = 0 THEN NoPush ELSE WHEEL_DOWN
  BY <1>1 DEF Meant, Byte
<1> QED BY <1>2, <1>3, <1>4

LEMMA ByteInv == ASSUME IInv, MouseByte PROVE IInv'
<1>1. /\ UNCHANGED <<has_scroll_wheel, calm, slips>> /\ PacketSize' = PacketSize
      /\ wrong' \in {wrong, wrong + 1} /\ (wrong = MaxWrong => wrong' = wrong)
  BY ByteSteps DEF MouseByte
<1>2. /\ stream' \in Seq(Byte) /\ Len(stream') = Len(stream) - 1 /\ Len(stream) >= 1
      /\ \A i \in 1 .. Len(stream') : stream'[i] = stream[i + 1]
  BY OneByteLess DEF IInv, MouseByte
<1>3. cycle' \in 0 .. PacketSize - 1
  BY ByteSteps, Types DEF IInv
<1>4. TypeOK'
  <2>1. Len(stream') <= 4 /\ wrong' \in 0 .. MaxWrong
    BY <1>1, <1>2, Types, PacketAssumption DEF IInv, TypeOK
  <2> QED BY <1>1, <1>2, <1>3, <2>1 DEF IInv, TypeOK
<1>5. PacketShape'
  <2>1. Len(stream') < PacketSize
    BY <1>2, Types DEF IInv, PacketShape
  <2>2. ASSUME calm, NEW i \in 1 .. Len(stream') PROVE ~Bit3(stream'[i])
    <3>1. Len(stream) > 1 /\ Len(stream) <= PacketSize /\ i + 1 \in 2 .. Len(stream)
      BY <1>2, <2>2, Types DEF IInv, PacketShape
    <3>2. ~Bit3(stream[i + 1])
      BY <2>2, <3>1 DEF IInv, PacketShape, AnswerLeft
    <3> QED BY <1>2, <3>2
  <2>3. calm => \A i \in 1 .. Len(stream') : ~Bit3(stream'[i])
    BY <2>2
  <2>4. Len(stream') <= PacketSize' /\ Len(stream') # PacketSize'
    BY <1>1, <1>2, <2>1, Types DEF IInv
  <2> QED BY <1>1, <2>3, <2>4 DEF PacketShape
<1>6. slips = 0 => cycle' = Place' /\ wrong' = 0
  <2> SUFFICES ASSUME slips = 0 PROVE cycle' = Place' /\ wrong' = 0
    OBVIOUS
  <2>1. cycle = Place /\ wrong = 0
    BY DEF IInv
  <2>2. wrong' = wrong
    BY <2>1, RightPush, ByteSteps, Types DEF IInv
  <2>3. cycle = 0 => Bit3(stream[1])
    BY <2>1, ByteSteps DEF IInv, PacketShape
  <2> QED BY <2>1, <2>2, <2>3, ByteSteps, Types DEF IInv
<1>7. calm => wrong' + Debt' <= 3 * slips
  <2> SUFFICES ASSUME calm PROVE wrong' + Debt' <= 3 * slips
    OBVIOUS
  <2>1. /\ Place' \in 0 .. PacketSize - 1
        /\ Debt' = IF cycle' = Place' THEN 0
                   ELSE IF cycle' = 0 THEN 1
                   ELSE IF cycle' > Place' THEN 2 ELSE 3
    <3>1. (TypeOK /\ PacketShape => /\ Place \in 0 .. PacketSize - 1
                                    /\ Debt = IF cycle = Place THEN 0
                                              ELSE IF cycle = 0 THEN 1
                                              ELSE IF cycle > Place THEN 2 ELSE 3)'
      BY DebtValue, PTL
    <3> QED BY <1>1, <1>4, <1>5, <3>1
  <2>2. CASE ~AnswerLeft
    <3>1. /\ Place \in 0 .. PacketSize - 1 /\ cycle \in 0 .. PacketSize - 1
          /\ Debt = IF cycle = Place THEN 0
                    ELSE IF cycle = 0 THEN 1
                    ELSE IF cycle > Place THEN 2 ELSE 3
          /\ PacketSize \in {3, 4} /\ (PacketSize = 4 <=> has_scroll_wheel)
      BY DebtValue, Types DEF IInv
    <3>2. Place = 0 <=> Bit3(stream[1])
      BY <2>2, ByteSteps, Types, OneByteLess DEF IInv, PacketShape, MouseByte
    <3>3. wrong' # wrong => PacketSize = 4 /\ (cycle = 3) # (Place = 3)
      BY <1>1, <3>1, RightPush, ByteSteps, Types DEF IInv
    <3>4. /\ Place' = (IF Place = PacketSize - 1 THEN 0 ELSE Place + 1)
          /\ cycle' = IF (cycle = 0 /\ Place # 0) \/ cycle = PacketSize - 1
                      THEN 0 ELSE cycle + 1
      BY <3>2, ByteSteps
    <3>5. Debt' <= Debt /\ (wrong' # wrong => Debt' <= Debt - 1)
      <4>1. CASE PacketSize = 3
        BY <2>1, <3>1, <3>3, <3>4, <4>1
      <4>2. CASE PacketSize = 4
        BY <2>1, <3>1, <3>3, <3>4, <4>2
      <4> QED BY <3>1, <4>1, <4>2
    <3>6. Debt \in Nat /\ Debt' \in Nat /\ wrong \in Nat /\ slips \in Nat
      BY <2>1, <3>1, Types DEF IInv
    <3>7. wrong + Debt <= 3 * slips
      BY DEF IInv
    <3>8. wrong' = wrong \/ wrong' = wrong + 1
      BY <1>1
    <3> HIDE DEF IInv
    <3> QED BY <3>5, <3>6, <3>7, <3>8
  <2>3. CASE AnswerLeft
    <3>1. Place' = 0 /\ cycle' \in {0, 1}
      BY <2>3, ByteSteps, Types DEF IInv, AnswerLeft
    <3>2. Debt' \in {0, 2}
      BY <2>1, <3>1
    <3>3. wrong' = 0 \/ wrong' = 1
      BY <1>1, <2>3 DEF AnswerLeft
    <3>4. slips = 1
      BY <2>3 DEF AnswerLeft
    <3> QED BY <3>2, <3>3, <3>4
  <2> QED BY <2>2, <2>3
<1> QED BY <1>1, <1>4, <1>5, <1>6, <1>7 DEF IInv

LEMMA StutterInv == ASSUME IInv, StrayIrq \/ UNCHANGED vars PROVE IInv'
<1>1. UNCHANGED vars
  BY DEF StrayIrq, FromMouse, vars
<1>2. PacketSize' = PacketSize /\ Place' = Place /\ Debt' = Debt
  BY <1>1 DEF vars, PacketSize, Place, Debt
<1> QED BY <1>1, <1>2 DEF vars, IInv, TypeOK, PacketShape, AnswerLeft

THEOREM Invariant == Spec => []IInv
<1>1. IInv /\ [Next]_vars => IInv'
  BY SendInv, LoseInv, ByteInv, StutterInv DEF Next
<1> QED BY <1>1, InitInv, PTL DEF Spec

-----------------------------------------------------------------------------
(* Results *)

\* The index of packet stays in the array of mouse_interrupt_handler(), and every
\* other variable has its type.
THEOREM TypeCorrect == Spec => []TypeOK
<1>1. IInv => TypeOK
  BY DEF IInv
<1> QED BY <1>1, Invariant, PTL

\* The wheel is a pair of arrow keys: whatever the mouse sends, no scancode is
\* wrong until a byte is lost or left over; and if bit 3 tells the first bytes of
\* packets from the others, a slip never costs more than three (mouse.c 167-188).
THEOREM WheelRight == Spec => []WheelIsArrows
<1>1. IInv => WheelIsArrows
  <2> SUFFICES ASSUME IInv, slips = 0 \/ calm PROVE wrong <= 3 * slips
    BY DEF WheelIsArrows
  <2>1. slips \in Nat /\ wrong \in Nat /\ Debt \in 0 .. 3
    BY Types, DebtValue DEF IInv
  <2> QED BY <2>1 DEF IInv
<1> QED BY <1>1, Invariant, PTL

\* The handler falls out of step with the mouse only when a byte is lost: no
\* sequence of packets, and no IRQ without a byte of the mouse, does it (mouse.c
\* 157-165).
THEOREM OnlyLossDesyncs == Spec => [][InStep /\ slips' = slips => InStep']_vars
<1>1. TypeOK /\ PacketShape => (InStep <=> cycle = Place)
  BY Types DEF PacketShape, Place, InStep
<1>2. IInv /\ IInv' /\ [Next]_vars => (InStep /\ slips' = slips => InStep')
  <2> SUFFICES ASSUME IInv, IInv', [Next]_vars, InStep, slips' = slips PROVE InStep'
    OBVIOUS
  <2>1. cycle = Place
    BY <1>1 DEF IInv
  <2>2. cycle' = Place' => InStep'
    <3>1. (TypeOK /\ PacketShape => (InStep <=> cycle = Place))'
      BY <1>1, PTL
    <3> QED BY <3>1 DEF IInv
  <2>3. CASE SendPacket
    BY <2>1, <2>2, <2>3, NewPacket DEF SendPacket
  <2>4. CASE LoseByte
    BY <2>4, Types DEF LoseByte, IInv
  <2>5. CASE MouseByte
    <3>1. cycle = 0 => Bit3(stream[1])
      BY <2>1, <2>5, ByteSteps DEF IInv, PacketShape
    <3> QED BY <2>1, <2>2, <2>5, <3>1, ByteSteps, Types DEF IInv
  <2>6. CASE StrayIrq \/ UNCHANGED vars
    <3>1. UNCHANGED vars
      BY <2>6 DEF StrayIrq, FromMouse, vars
    <3> QED BY <3>1 DEF vars, InStep, PacketSize
  <2> QED BY <2>3, <2>4, <2>5, <2>6 DEF Next
<1> QED BY <1>2, Invariant, PTL DEF Spec

-----------------------------------------------------------------------------
(* How long the handler is out of step *)

\* How many bytes the handler still has to read to be in step: up to the next
\* first byte if it waits for one or is ahead (it then waits for the same one);
\* if it is behind it is ahead after that byte, and waits for the one that follows.
BytesToStep ==
  IF cycle = Place THEN 0
  ELSE IF 0 < cycle /\ cycle < Place THEN 2 * PacketSize - Place
  ELSE PacketSize - Place

LEMMA Distance ==
  TypeOK /\ PacketShape => /\ BytesToStep \in 0 .. 2 * PacketSize - 2
                           /\ BytesToStep = 0 <=> InStep
<1> SUFFICES ASSUME TypeOK, PacketShape
             PROVE  /\ BytesToStep \in 0 .. 2 * PacketSize - 2
                    /\ BytesToStep = 0 <=> InStep
  OBVIOUS
<1>1. Place \in 0 .. PacketSize - 1 /\ cycle \in 0 .. PacketSize - 1 /\ PacketSize \in {3, 4}
  BY DebtValue, Types
<1>2. InStep <=> cycle = Place
  BY Types DEF PacketShape, Place, InStep
<1>3. BytesToStep \in 0 .. 2 * PacketSize - 2 /\ (BytesToStep = 0 <=> cycle = Place)
  <2>1. CASE PacketSize = 3
    BY <1>1, <2>1 DEF BytesToStep
  <2>2. CASE PacketSize = 4
    BY <1>1, <2>2 DEF BytesToStep
  <2> QED BY <1>1, <2>1, <2>2
<1> QED BY <1>2, <1>3

\* A calm mouse has bit 3 in the first byte of a packet and in no other.
LEMMA FirstByBit3 ==
  ASSUME IInv, MouseByte, calm, ~AnswerLeft
  PROVE  Place = 0 <=> Bit3(stream[1])
BY ByteSteps, Types, OneByteLess DEF IInv, PacketShape, MouseByte

\* A byte read out of step is one byte less to go, one read in step leaves the
\* handler there.
LEMMA ByteNearer ==
  ASSUME IInv, MouseByte, calm, ~AnswerLeft
  PROVE  BytesToStep' = IF InStep THEN BytesToStep ELSE BytesToStep - 1
<1>1. /\ Place \in 0 .. PacketSize - 1 /\ cycle \in 0 .. PacketSize - 1
      /\ PacketSize \in {3, 4} /\ PacketSize' = PacketSize
  BY DebtValue, Types, ByteSteps DEF IInv
<1>2. /\ Place' = (IF Place = PacketSize - 1 THEN 0 ELSE Place + 1)
      /\ cycle' = IF (cycle = 0 /\ Place # 0) \/ cycle = PacketSize - 1 THEN 0 ELSE cycle + 1
  BY ByteSteps, FirstByBit3
<1>3. InStep <=> cycle = Place
  BY Types DEF IInv, PacketShape, Place, InStep
<1>4. BytesToStep' = IF cycle = Place THEN BytesToStep ELSE BytesToStep - 1
  <2>1. CASE PacketSize = 3
    BY <1>1, <1>2, <2>1 DEF BytesToStep
  <2>2. CASE PacketSize = 4
    BY <1>1, <1>2, <2>2 DEF BytesToStep
  <2> QED BY <1>1, <2>1, <2>2
<1> QED BY <1>3, <1>4

\* The handler is never further from being in step than two packets less two bytes
\* (mouse.c 61 and 167-173).
THEOREM NeverFarFromStep ==
  Spec => [](BytesToStep <= 2 * PacketSize - 2 /\ (BytesToStep = 0 <=> InStep))
<1>1. IInv => BytesToStep <= 2 * PacketSize - 2 /\ (BytesToStep = 0 <=> InStep)
  BY Distance, Types DEF IInv
<1> QED BY <1>1, Invariant, PTL

\* While no byte is lost, each byte of a calm mouse that is read out of step brings
\* the handler one byte nearer, and nothing takes it away again: it is back in step
\* at most two packets less two bytes after a slip, which is why BackInStep holds.
\* Only the byte the dialogue has left is read without coming nearer (mouse.c
\* 167-188).
THEOREM StepComesNearer ==
  Spec => [][calm /\ ~AnswerLeft /\ slips' = slips =>
               BytesToStep' = IF MouseByte /\ ~InStep THEN BytesToStep - 1
                                                      ELSE BytesToStep]_vars
<1>1. IInv /\ [Next]_vars =>
        (calm /\ ~AnswerLeft /\ slips' = slips =>
           BytesToStep' = IF MouseByte /\ ~InStep THEN BytesToStep - 1 ELSE BytesToStep)
  <2> SUFFICES ASSUME IInv, [Next]_vars, calm, ~AnswerLeft, slips' = slips
               PROVE  BytesToStep' = IF MouseByte /\ ~InStep THEN BytesToStep - 1
                                                             ELSE BytesToStep
    OBVIOUS
  <2>1. CASE MouseByte
    BY <2>1, ByteNearer
  <2>2. CASE ~MouseByte /\ SendPacket
    <3>1. PacketSize' = PacketSize /\ Place' = Place /\ cycle' = cycle
      BY <2>2, NewPacket DEF SendPacket
    <3> QED BY <2>2, <3>1 DEF BytesToStep
  <2>3. CASE LoseByte
    BY <2>3, Types DEF LoseByte, IInv
  <2>4. CASE ~MouseByte /\ (StrayIrq \/ UNCHANGED vars)
    <3>1. UNCHANGED vars
      BY <2>4 DEF StrayIrq, FromMouse, vars
    <3>2. PacketSize' = PacketSize /\ Place' = Place /\ cycle' = cycle
      BY <3>1 DEF vars, PacketSize, Place
    <3> QED BY <2>4, <3>2 DEF BytesToStep
  <2> QED BY <2>1, <2>2, <2>3, <2>4 DEF Next
<1> QED BY <1>1, Invariant, PTL DEF Spec
=============================================================================
