----------------------------- MODULE Ps2Proofs ------------------------------
(***************************************************************************)
(* Proofs about Ps2, for any machines, any keys and any settings of the    *)
(* firmware, and for waits and tries of any length.                        *)
(***************************************************************************)
EXTENDS Ps2, SequenceTheorems, TLAPS

-----------------------------------------------------------------------------
(* The program *)

\* Where mouse_write() is called for the n-th time, and what it writes.
Calls    == 0 .. 8
Start(n) == IF n < 8 THEN 14 + 6 * n ELSE 64
Written(n) == CASE n = 0 -> SET_DEFAULTS
                  [] n \in {1, 3, 5} -> SET_SAMPLE_RATE
                  [] n = 2 -> 200
                  [] n = 4 -> 100
                  [] n = 6 -> 80
                  [] n = 7 -> GET_ID
                  [] n = 8 -> ENABLE_DATA

AtId == 63

-----------------------------------------------------------------------------
(* The inductive invariant *)

MouseType == [id : {0, ID_WHEEL}, rates : {r \in Seq(Byte) : Len(r) = 3},
              argument : BOOLEAN, reporting : BOOLEAN]

TypeInv == TypeOK /\ mouse \in MouseType /\ pressed \in Nat /\ machine \in Machines

Has(s, byte) == \E k \in 1 .. Len(s) : s[k] = byte
Sent(byte)   == input = [port |-> COMMAND, byte |-> byte]

\* Without a key, only a mouse in wheel mode says 3.  The configuration, which has
\* another bit, is asked for once, and before it is written.
OnlyWheelSaysThree ==
  pressed = 0 =>
    /\ ~Has(reply, ID_WHEEL) /\ ~Has(key_out, ID_WHEEL)
    /\ Has(mouse_out, ID_WHEEL) => mouse.id = ID_WHEEL
    /\ pc > 3 /\ output.full /\ output.byte = ID_WHEEL => mouse.id = ID_WHEEL
    /\ pc = AtId /\ answered => output.full
    /\ has_scroll_wheel => mouse.id = ID_WHEEL

ConfigAskedOnce ==
  /\ pc <= 9 => HasBit(controller_config, TRANSLATION) /\ expecting # "config"
  /\ Sent(READ_CONFIG) => pc <= 9
  /\ Sent(WRITE_CONFIG) => pc > 9
  /\ input.port = DATA => pc > 9

\* The configuration as mouse_init() changes it.
MouseOff  == SetBit(BootConfig, MOUSE_CLOCK)
BothOff   == SetBit(MouseOff, KEYBOARD_CLOCK)
MouseBack == MouseOn(BothOff)
BothBack  == ClearBit(MouseBack, KEYBOARD_CLOCK)

\* A command changes the configuration once the controller has read it.
Changes(byte, old, new) == \/ Sent(byte) /\ controller_config = old
                           \/ input = NoInput /\ controller_config = new

\* The dialogue with a controller that reads at once, up to the first mouse_write().
Opening ==
  /\ pc = 1 => input = NoInput /\ controller_config = BootConfig
  /\ pc = 2 => Changes(DISABLE_MOUSE, BootConfig, MouseOff)
  /\ pc = 3 => Changes(DISABLE_KEYBOARD, MouseOff, BothOff)
  /\ pc \in {4, 5, 7, 8, 9, 11} => input = NoInput
  /\ pc \in 4 .. 11 => controller_config = BothOff
  /\ pc \in 4 .. 11 \ {6, 7} => ~output.full
  /\ pc = 6 => \/ Sent(READ_CONFIG) /\ reply = << >> /\ ~output.full
               \/ input = NoInput /\ reply = <<BothOff>> /\ ~output.full
               \/ input = NoInput /\ reply = << >> /\ output.full /\ output.byte = BothOff
  /\ pc = 7 => output.byte = BothOff
  /\ pc \in 8 .. 11 => config = MouseBack
  /\ pc = 10 => \/ Sent(WRITE_CONFIG)
                \/ input = NoInput /\ expecting = "config"
  /\ pc = 11 => expecting = "config"
  /\ pc = 12 => \/ /\ input = [port |-> DATA, byte |-> MouseBack]
                   /\ expecting = "config" /\ controller_config = BothOff
                \/ /\ input = NoInput
                   /\ expecting = "keyboard" /\ controller_config = MouseBack
  /\ pc = 13 => Changes(ENABLE_KEYBOARD, MouseBack, BothBack)
  /\ pc \in 1 .. 9 \cup {13} => expecting = "keyboard"
  /\ pc # 6 => reply = << >>

\* And from there on.
Writing ==
  pc >= 14 =>
    /\ controller_config = BothBack /\ expecting # "config"
    /\ pc = 14 => input = NoInput \/ Sent(ENABLE_MOUSE)
    /\ pc \in {AtId - 1, AtId, Returned, RebootWait, RebootWrite} => input = NoInput
    /\ pc = Rebooted => input = NoInput \/ Sent(REBOOT)
    /\ \A n \in Calls :
         /\ pc = Start(n) /\ n > 0 => input = NoInput
         /\ pc \in {Start(n) + 1, Start(n) + 3, Start(n) + 5} => input = NoInput
         /\ pc = Start(n) + 2 => \/ Sent(WRITE_TO_MOUSE)
                                 \/ input = NoInput /\ expecting = "mouse"
         /\ pc = Start(n) + 3 => expecting = "mouse"
         /\ pc = Start(n) + 4 => \/ input = [port |-> DATA, byte |-> Written(n)]
                                      /\ expecting = "mouse"
                                 \/ input = NoInput

\* A byte on port 0x60 has its IRQ, and only a pressed key makes the keyboard send.
Latched ==
  /\ pc >= 8 /\ output.full => output.from # "controller" /\ Irq(output.from) \in requested
  /\ pressed = 0 => key_out = << >> /\ 1 \notin requested

AtOnce == machine.controller = "none" => Opening /\ Writing /\ Latched

\* The mouse with a wheel when mouse_write() is called for the n-th time, and what
\* it answers.
MouseBefore(n) ==
  CASE n \in {0, 1} -> [id |-> 0, rates |-> <<0, 0, 100>>, argument |-> FALSE, reporting |-> FALSE]
    [] n = 2 -> [id |-> 0, rates |-> <<0, 0, 100>>, argument |-> TRUE, reporting |-> FALSE]
    [] n = 3 -> [id |-> 0, rates |-> <<0, 100, 200>>, argument |-> FALSE, reporting |-> FALSE]
    [] n = 4 -> [id |-> 0, rates |-> <<0, 100, 200>>, argument |-> TRUE, reporting |-> FALSE]
    [] n = 5 -> [id |-> 0, rates |-> <<100, 200, 100>>, argument |-> FALSE, reporting |-> FALSE]
    [] n = 6 -> [id |-> 0, rates |-> <<100, 200, 100>>, argument |-> TRUE, reporting |-> FALSE]
    [] n \in {7, 8} -> [id |-> ID_WHEEL, rates |-> <<200, 100, 80>>, argument |-> FALSE, reporting |-> FALSE]
    [] n = 9 -> [id |-> ID_WHEEL, rates |-> <<200, 100, 80>>, argument |-> FALSE, reporting |-> TRUE]
AnswerTo(n)       == IF n = 7 THEN <<ACK, ID_WHEEL>> ELSE <<ACK>>
AnswerAfterAck(n) == IF n = 7 THEN <<ID_WHEEL>> ELSE << >>

Idle(n) == mouse = MouseBefore(n) /\ mouse_out = << >> /\ ~output.full

\* Without a key, and with a mouse that answers within a wait, each byte is written
\* once and answered.
Answering ==
  /\ retry = 0
  /\ pc <= 13 => mouse = MouseBefore(0) /\ mouse_out = << >>
  /\ pc \in 8 .. 13 => ~output.full
  /\ \A n \in Calls :
       /\ pc \in Start(n) .. Start(n) + 3 => Idle(n)
       /\ pc = Start(n) + 4 =>
            /\ polls < PS2_TIMEOUT
            /\ \/ input # NoInput /\ Idle(n)
               \/ /\ input = NoInput /\ mouse = MouseBefore(n + 1)
                  /\ \/ ~output.full /\ mouse_out = AnswerTo(n)
                     \/ output.full /\ output.byte = ACK /\ mouse_out = AnswerAfterAck(n)
       /\ pc = Start(n) + 5 => /\ mouse = MouseBefore(n + 1) /\ mouse_out = AnswerAfterAck(n)
                               /\ answered /\ output.full /\ output.byte = ACK
  /\ pc \in {AtId - 1, AtId} => mouse = MouseBefore(8)
  /\ pc = AtId - 1 =>
       /\ polls < PS2_TIMEOUT
       /\ \/ ~output.full /\ mouse_out = <<ID_WHEEL>>
          \/ output.full /\ output.byte = ID_WHEEL /\ mouse_out = << >>
  /\ pc = AtId => /\ answered /\ output.full /\ output.byte = ID_WHEEL
                  /\ mouse_out = << >>
  /\ pc > AtId => has_scroll_wheel

WheelAnswers ==
  pressed = 0 /\ InTimeAll /\ machine.kind = "wheel" => Answering

\* Only a mouse with a wheel has a wheel mode.
WheelMode == mouse.id = ID_WHEEL => machine.kind = "wheel"

Agreement == OnlyWheelSaysThree /\ ConfigAskedOnce /\ WheelMode

IInv == TypeInv /\ Agreement /\ AtOnce /\ WheelAnswers

-----------------------------------------------------------------------------
(* Bits *)

Bits == {KEYBOARD_IRQ, MOUSE_IRQ, KEYBOARD_CLOCK, MOUSE_CLOCK, TRANSLATION}

LEMMA Powers ==
  2^KEYBOARD_IRQ = 1 /\ 2^MOUSE_IRQ = 2 /\ 2^KEYBOARD_CLOCK = 16 /\ 2^MOUSE_CLOCK = 32 /\ 2^TRANSLATION = 64
<1>1. 2^0 = 1 /\ 2^1 = 2 /\ 2^4 = 16 /\ 2^5 = 32 /\ 2^6 = 64
  BY SMT
<1> QED BY <1>1 DEF KEYBOARD_IRQ, MOUSE_IRQ, KEYBOARD_CLOCK, MOUSE_CLOCK, TRANSLATION

\* A byte from its bits: those that matter, and x for bits 2 and 3.
FromBits(h, t, m, c, x, i, q) == 128 * h + 64 * t + 32 * m + 16 * c + 4 * x + 2 * i + q

LEMMA ByteBits ==
  ASSUME NEW b \in Byte
  PROVE  \E h \in 0 .. 1, t \in 0 .. 1, m \in 0 .. 1, c \in 0 .. 1, x \in 0 .. 3,
            i \in 0 .. 1, q \in 0 .. 1 : b = FromBits(h, t, m, c, x, i, q)
<1>1. b \in Nat /\ b < 256
  BY DEF Byte
<1> DEFINE h == b \div 128
           t == (b \div 64) % 2
           m == (b \div 32) % 2
           c == (b \div 16) % 2
           x == (b \div 4) % 4
           i == (b \div 2) % 2
           q == b % 2
<1>2. /\ h \in 0 .. 1 /\ t \in 0 .. 1 /\ m \in 0 .. 1 /\ c \in 0 .. 1 /\ x \in 0 .. 3
      /\ i \in 0 .. 1 /\ q \in 0 .. 1
  BY <1>1
<1>3. b = 128 * h + 64 * t + 32 * m + 16 * c + 4 * x + 2 * i + q
  BY <1>1
<1> HIDE DEF h, t, m, c, x, i, q
<1> QED BY <1>2, <1>3 DEF FromBits

LEMMA HasBits ==
  ASSUME NEW h \in 0 .. 1, NEW t \in 0 .. 1, NEW m \in 0 .. 1, NEW c \in 0 .. 1,
         NEW x \in 0 .. 3, NEW i \in 0 .. 1, NEW q \in 0 .. 1,
         NEW b, b = FromBits(h, t, m, c, x, i, q)
  PROVE  /\ b \in Byte
         /\ HasBit(b, TRANSLATION) <=> t = 1
         /\ HasBit(b, MOUSE_CLOCK) <=> m = 1
         /\ HasBit(b, KEYBOARD_CLOCK) <=> c = 1
         /\ HasBit(b, MOUSE_IRQ) <=> i = 1
         /\ HasBit(b, KEYBOARD_IRQ) <=> q = 1
<1>1. b \in Nat /\ b < 256
  BY DEF FromBits
<1>2. b % 2 = q /\ b \div 1 = b
  BY DEF FromBits
<1>3. (b \div 2) % 2 = i
  BY DEF FromBits
<1>4. (b \div 16) % 2 = c
  BY DEF FromBits
<1>5. (b \div 32) % 2 = m
  BY DEF FromBits
<1>6. (b \div 64) % 2 = t
  BY DEF FromBits
<1>7. b \in Byte
  BY <1>1 DEF Byte
<1>8. /\ HasBit(b, TRANSLATION) <=> t = 1
      /\ HasBit(b, MOUSE_CLOCK) <=> m = 1
      /\ HasBit(b, KEYBOARD_CLOCK) <=> c = 1
      /\ HasBit(b, MOUSE_IRQ) <=> i = 1
      /\ HasBit(b, KEYBOARD_IRQ) <=> q = 1
  BY <1>2, <1>3, <1>4, <1>5, <1>6, Powers DEF HasBit
<1> QED BY <1>7, <1>8

LEMMA OneBit ==
  ASSUME NEW b \in Byte, NEW k \in Bits
  PROVE  /\ SetBit(b, k) \in Byte /\ ClearBit(b, k) \in Byte
         /\ \A j \in Bits : /\ HasBit(SetBit(b, k), j) <=> j = k \/ HasBit(b, j)
                            /\ HasBit(ClearBit(b, k), j) <=> j # k /\ HasBit(b, j)
<1>1. PICK h \in 0 .. 1, t \in 0 .. 1, m \in 0 .. 1, c \in 0 .. 1, x \in 0 .. 3,
           i \in 0 .. 1, q \in 0 .. 1 : b = FromBits(h, t, m, c, x, i, q)
  BY ByteBits
<1>2. PICK z \in 0 .. 1, o \in 0 .. 1 : z = 0 /\ o = 1
  OBVIOUS
<1>3. /\ HasBit(b, TRANSLATION) <=> t = 1
      /\ HasBit(b, MOUSE_CLOCK) <=> m = 1
      /\ HasBit(b, KEYBOARD_CLOCK) <=> c = 1
      /\ HasBit(b, MOUSE_IRQ) <=> i = 1
      /\ HasBit(b, KEYBOARD_IRQ) <=> q = 1
  BY <1>1, HasBits
<1>4. KEYBOARD_IRQ # MOUSE_IRQ /\ KEYBOARD_IRQ # KEYBOARD_CLOCK /\ KEYBOARD_IRQ # MOUSE_CLOCK
      /\ KEYBOARD_IRQ # TRANSLATION /\ MOUSE_IRQ # KEYBOARD_CLOCK /\ MOUSE_IRQ # MOUSE_CLOCK
      /\ MOUSE_IRQ # TRANSLATION /\ KEYBOARD_CLOCK # MOUSE_CLOCK /\ KEYBOARD_CLOCK # TRANSLATION
      /\ MOUSE_CLOCK # TRANSLATION
  BY DEF KEYBOARD_IRQ, MOUSE_IRQ, KEYBOARD_CLOCK, MOUSE_CLOCK, TRANSLATION
<1>5. CASE k = KEYBOARD_IRQ
  <2>1. SetBit(b, k) = FromBits(h, t, m, c, x, i, o)
    BY <1>1, <1>3, <1>5, <1>2, Powers DEF SetBit, FromBits
  <2>2. ClearBit(b, k) = FromBits(h, t, m, c, x, i, z)
    BY <1>1, <1>3, <1>5, <1>2, Powers DEF ClearBit, FromBits
  <2>3. /\ SetBit(b, k) \in Byte
        /\ \A j \in Bits : HasBit(SetBit(b, k), j) <=> j = k \/ HasBit(b, j)
    BY <1>3, <1>4, <1>5, <1>2, <2>1, HasBits DEF Bits
  <2>4. /\ ClearBit(b, k) \in Byte
        /\ \A j \in Bits : HasBit(ClearBit(b, k), j) <=> j # k /\ HasBit(b, j)
    BY <1>3, <1>4, <1>5, <1>2, <2>2, HasBits DEF Bits
  <2> QED BY <2>3, <2>4
<1>6. CASE k = MOUSE_IRQ
  <2>1. SetBit(b, k) = FromBits(h, t, m, c, x, o, q)
    BY <1>1, <1>3, <1>6, <1>2, Powers DEF SetBit, FromBits
  <2>2. ClearBit(b, k) = FromBits(h, t, m, c, x, z, q)
    BY <1>1, <1>3, <1>6, <1>2, Powers DEF ClearBit, FromBits
  <2>3. /\ SetBit(b, k) \in Byte
        /\ \A j \in Bits : HasBit(SetBit(b, k), j) <=> j = k \/ HasBit(b, j)
    BY <1>3, <1>4, <1>6, <1>2, <2>1, HasBits DEF Bits
  <2>4. /\ ClearBit(b, k) \in Byte
        /\ \A j \in Bits : HasBit(ClearBit(b, k), j) <=> j # k /\ HasBit(b, j)
    BY <1>3, <1>4, <1>6, <1>2, <2>2, HasBits DEF Bits
  <2> QED BY <2>3, <2>4
<1>7. CASE k = KEYBOARD_CLOCK
  <2>1. SetBit(b, k) = FromBits(h, t, m, o, x, i, q)
    BY <1>1, <1>3, <1>7, <1>2, Powers DEF SetBit, FromBits
  <2>2. ClearBit(b, k) = FromBits(h, t, m, z, x, i, q)
    BY <1>1, <1>3, <1>7, <1>2, Powers DEF ClearBit, FromBits
  <2>3. /\ SetBit(b, k) \in Byte
        /\ \A j \in Bits : HasBit(SetBit(b, k), j) <=> j = k \/ HasBit(b, j)
    BY <1>3, <1>4, <1>7, <1>2, <2>1, HasBits DEF Bits
  <2>4. /\ ClearBit(b, k) \in Byte
        /\ \A j \in Bits : HasBit(ClearBit(b, k), j) <=> j # k /\ HasBit(b, j)
    BY <1>3, <1>4, <1>7, <1>2, <2>2, HasBits DEF Bits
  <2> QED BY <2>3, <2>4
<1>8. CASE k = MOUSE_CLOCK
  <2>1. SetBit(b, k) = FromBits(h, t, o, c, x, i, q)
    BY <1>1, <1>3, <1>8, <1>2, Powers DEF SetBit, FromBits
  <2>2. ClearBit(b, k) = FromBits(h, t, z, c, x, i, q)
    BY <1>1, <1>3, <1>8, <1>2, Powers DEF ClearBit, FromBits
  <2>3. /\ SetBit(b, k) \in Byte
        /\ \A j \in Bits : HasBit(SetBit(b, k), j) <=> j = k \/ HasBit(b, j)
    BY <1>3, <1>4, <1>8, <1>2, <2>1, HasBits DEF Bits
  <2>4. /\ ClearBit(b, k) \in Byte
        /\ \A j \in Bits : HasBit(ClearBit(b, k), j) <=> j # k /\ HasBit(b, j)
    BY <1>3, <1>4, <1>8, <1>2, <2>2, HasBits DEF Bits
  <2> QED BY <2>3, <2>4
<1>9. CASE k = TRANSLATION
  <2>1. SetBit(b, k) = FromBits(h, o, m, c, x, i, q)
    BY <1>1, <1>3, <1>9, <1>2, Powers DEF SetBit, FromBits
  <2>2. ClearBit(b, k) = FromBits(h, z, m, c, x, i, q)
    BY <1>1, <1>3, <1>9, <1>2, Powers DEF ClearBit, FromBits
  <2>3. /\ SetBit(b, k) \in Byte
        /\ \A j \in Bits : HasBit(SetBit(b, k), j) <=> j = k \/ HasBit(b, j)
    BY <1>3, <1>4, <1>9, <1>2, <2>1, HasBits DEF Bits
  <2>4. /\ ClearBit(b, k) \in Byte
        /\ \A j \in Bits : HasBit(ClearBit(b, k), j) <=> j # k /\ HasBit(b, j)
    BY <1>3, <1>4, <1>9, <1>2, <2>2, HasBits DEF Bits
  <2> QED BY <2>3, <2>4
<1> QED BY <1>5, <1>6, <1>7, <1>8, <1>9 DEF Bits

LEMMA NumbersOfBits == {KEYBOARD_IRQ, MOUSE_IRQ, KEYBOARD_CLOCK, MOUSE_CLOCK, TRANSLATION} \subseteq Bits
BY DEF Bits

\* The configurations of the dialogue.
LEMMA Configs ==
  /\ {BootConfig, MouseOff, BothOff, MouseBack, BothBack} \subseteq Byte
  /\ HasBit(MouseOff, TRANSLATION) /\ HasBit(BothOff, TRANSLATION)
  /\ HasBit(BothOff, MOUSE_CLOCK) /\ HasBit(BothOff, KEYBOARD_CLOCK)
  /\ HasBit(MouseBack, MOUSE_IRQ) /\ ~HasBit(MouseBack, MOUSE_CLOCK)
  /\ HasBit(MouseBack, KEYBOARD_CLOCK)
  /\ HasBit(BothBack, MOUSE_IRQ) /\ HasBit(BothBack, KEYBOARD_IRQ)
  /\ ~HasBit(BothBack, MOUSE_CLOCK) /\ ~HasBit(BothBack, KEYBOARD_CLOCK)
  /\ ClearBit(BothBack, MOUSE_CLOCK) = BothBack
<1>1. /\ KEYBOARD_IRQ # MOUSE_CLOCK /\ KEYBOARD_IRQ # KEYBOARD_CLOCK /\ KEYBOARD_IRQ # MOUSE_IRQ
      /\ MOUSE_IRQ # MOUSE_CLOCK /\ MOUSE_IRQ # KEYBOARD_CLOCK /\ MOUSE_CLOCK # KEYBOARD_CLOCK
      /\ TRANSLATION # MOUSE_CLOCK /\ TRANSLATION # KEYBOARD_CLOCK
  BY DEF KEYBOARD_IRQ, MOUSE_IRQ, KEYBOARD_CLOCK, MOUSE_CLOCK, TRANSLATION
<1>2. /\ BootConfig \in Byte
      /\ HasBit(BootConfig, KEYBOARD_IRQ) /\ HasBit(BootConfig, TRANSLATION)
  BY Ps2Assumption
<1>3. /\ MouseOff \in Byte /\ HasBit(MouseOff, MOUSE_CLOCK)
      /\ HasBit(MouseOff, KEYBOARD_IRQ) /\ HasBit(MouseOff, TRANSLATION)
  BY <1>1, <1>2, OneBit, NumbersOfBits DEF MouseOff
<1>4. /\ BothOff \in Byte /\ HasBit(BothOff, MOUSE_CLOCK) /\ HasBit(BothOff, KEYBOARD_CLOCK)
      /\ HasBit(BothOff, KEYBOARD_IRQ) /\ HasBit(BothOff, TRANSLATION)
  BY <1>1, <1>3, OneBit, NumbersOfBits DEF BothOff
<1> DEFINE raised == SetBit(BothOff, MOUSE_IRQ)
<1>5. /\ raised \in Byte /\ HasBit(raised, MOUSE_IRQ) /\ HasBit(raised, KEYBOARD_CLOCK)
      /\ HasBit(raised, KEYBOARD_IRQ)
  BY <1>1, <1>4, OneBit, NumbersOfBits
<1> HIDE DEF raised
<1>6. MouseBack = ClearBit(raised, MOUSE_CLOCK)
  BY DEF MouseBack, MouseOn, raised
<1>7. /\ MouseBack \in Byte /\ HasBit(MouseBack, MOUSE_IRQ) /\ ~HasBit(MouseBack, MOUSE_CLOCK)
      /\ HasBit(MouseBack, KEYBOARD_CLOCK) /\ HasBit(MouseBack, KEYBOARD_IRQ)
  BY <1>1, <1>5, <1>6, OneBit, NumbersOfBits
<1>8. /\ BothBack \in Byte /\ HasBit(BothBack, MOUSE_IRQ) /\ HasBit(BothBack, KEYBOARD_IRQ)
      /\ ~HasBit(BothBack, MOUSE_CLOCK) /\ ~HasBit(BothBack, KEYBOARD_CLOCK)
  BY <1>1, <1>7, OneBit, NumbersOfBits DEF BothBack
<1>9. ClearBit(BothBack, MOUSE_CLOCK) = BothBack
  BY <1>8 DEF ClearBit
<1> QED BY <1>2, <1>3, <1>4, <1>7, <1>8, <1>9

LEMMA ByteIsNat == \A b \in Byte : b \in Nat /\ b < 256
BY DEF Byte

LEMMA TwoBits ==
  ASSUME NEW b \in Byte, NEW k \in Bits, NEW j \in Bits, j # k
  PROVE  /\ SetBit(SetBit(b, k), j) = SetBit(SetBit(b, j), k)
         /\ ClearBit(SetBit(b, k), j) = SetBit(ClearBit(b, j), k)
         /\ ClearBit(SetBit(b, k), k) = ClearBit(b, k)
<1>1. b \in Nat
  BY DEF Byte
<1>2. 2^k \in Nat /\ 2^j \in Nat
  BY Powers DEF Bits
<1>3. /\ SetBit(b, k) = IF HasBit(b, k) THEN b ELSE b + 2^k
      /\ SetBit(b, j) = IF HasBit(b, j) THEN b ELSE b + 2^j
      /\ ClearBit(b, k) = IF HasBit(b, k) THEN b - 2^k ELSE b
      /\ ClearBit(b, j) = IF HasBit(b, j) THEN b - 2^j ELSE b
  BY DEF SetBit, ClearBit
<1>4. /\ HasBit(SetBit(b, k), j) <=> HasBit(b, j)
      /\ HasBit(SetBit(b, j), k) <=> HasBit(b, k)
      /\ HasBit(ClearBit(b, j), k) <=> HasBit(b, k)
      /\ HasBit(SetBit(b, k), k)
  BY OneBit
<1>5. /\ SetBit(SetBit(b, k), j) = IF HasBit(b, j) THEN SetBit(b, k) ELSE SetBit(b, k) + 2^j
      /\ SetBit(SetBit(b, j), k) = IF HasBit(b, k) THEN SetBit(b, j) ELSE SetBit(b, j) + 2^k
      /\ ClearBit(SetBit(b, k), j) = IF HasBit(b, j) THEN SetBit(b, k) - 2^j ELSE SetBit(b, k)
      /\ SetBit(ClearBit(b, j), k) = IF HasBit(b, k) THEN ClearBit(b, j) ELSE ClearBit(b, j) + 2^k
      /\ ClearBit(SetBit(b, k), k) = SetBit(b, k) - 2^k
  BY <1>4 DEF SetBit, ClearBit
<1>6. SetBit(b, k) \in Nat /\ ClearBit(b, j) \in Nat /\ ClearBit(b, k) \in Nat /\ SetBit(b, j) \in Nat
  BY OneBit, ByteIsNat
<1> QED BY <1>1, <1>2, <1>3, <1>5, <1>6

\* Only the two mouse bits have changed in the end, and the keyboard is on.
LEMMA LastConfig == BothBack = ClearBit(MouseOn(BootConfig), KEYBOARD_CLOCK)
<1>1. /\ KEYBOARD_IRQ # MOUSE_CLOCK /\ MOUSE_IRQ # MOUSE_CLOCK /\ MOUSE_IRQ # KEYBOARD_CLOCK
      /\ MOUSE_CLOCK # KEYBOARD_CLOCK
  BY DEF KEYBOARD_IRQ, MOUSE_IRQ, KEYBOARD_CLOCK, MOUSE_CLOCK
<1>2. BootConfig \in Byte /\ MouseOff \in Byte
  BY Configs
<1> DEFINE raised == SetBit(BootConfig, MOUSE_IRQ)
           off    == SetBit(raised, MOUSE_CLOCK)
<1>3. raised \in Byte
  BY <1>2, OneBit, NumbersOfBits
<1>4. off \in Byte
  BY <1>3, OneBit, NumbersOfBits
<1>5. SetBit(MouseOff, MOUSE_IRQ) = off
  BY <1>1, <1>2, TwoBits, NumbersOfBits DEF MouseOff
<1>6. SetBit(BothOff, MOUSE_IRQ) = SetBit(off, KEYBOARD_CLOCK)
  BY <1>1, <1>2, <1>5, TwoBits, NumbersOfBits DEF BothOff
<1>7. ClearBit(SetBit(off, KEYBOARD_CLOCK), MOUSE_CLOCK) = SetBit(ClearBit(off, MOUSE_CLOCK), KEYBOARD_CLOCK)
  BY <1>1, <1>4, TwoBits, NumbersOfBits
<1>8. ClearBit(off, MOUSE_CLOCK) = MouseOn(BootConfig)
  BY <1>1, <1>3, TwoBits, NumbersOfBits DEF MouseOn
<1>9. MouseOn(BootConfig) \in Byte
  BY <1>3, OneBit, NumbersOfBits DEF MouseOn
<1>10. MouseBack = SetBit(MouseOn(BootConfig), KEYBOARD_CLOCK)
  BY <1>6, <1>7, <1>8 DEF MouseBack, MouseOn
<1> QED BY <1>1, <1>9, <1>10, TwoBits, NumbersOfBits DEF BothBack

-----------------------------------------------------------------------------
(* The list of the port accesses *)

\* One call of mouse_write() is in the list.
IsCall(s, i, data) ==
  /\ s[i] = Do("wait_input") /\ s[i + 1] = Outb(COMMAND, WRITE_TO_MOUSE)
  /\ s[i + 2] = Do("wait_input") /\ s[i + 3] = Outb(DATA, data)
  /\ s[i + 4] = Do("wait_output") /\ s[i + 5] = Do("ack")

LEMMA ProgramLength == Len(Program) = 69 /\ FirstAck = 19 /\ TrySteps = 6
<1>1. Len(Program) = 69
  BY DEF Program, Quiet, Configure, Rates, MouseWrite
<1>2. FirstAck = 19 /\ TrySteps = 6
  BY DEF FirstAck, TrySteps, Quiet, Configure
<1> QED BY <1>1, <1>2

LEMMA ProgramOpening ==
  /\ Program[1] = Outb(COMMAND, DISABLE_MOUSE)
  /\ Program[2] = Outb(COMMAND, DISABLE_KEYBOARD)
  /\ Program[3] = Do("drop")
  /\ Program[4] = Do("wait_input")
  /\ Program[5] = Outb(COMMAND, READ_CONFIG)
  /\ Program[6] = Do("wait_output")
  /\ Program[7] = Do("config_in")
  /\ Program[8] = Do("wait_input")
  /\ Program[9] = Outb(COMMAND, WRITE_CONFIG)
  /\ Program[10] = Do("wait_input")
  /\ Program[11] = Do("config_out")
  /\ Program[12] = Outb(COMMAND, ENABLE_KEYBOARD)
  /\ Program[13] = Outb(COMMAND, ENABLE_MOUSE)
  /\ Program[62] = Do("wait_output")
  /\ Program[63] = Do("id")
BY DEF Program, Quiet, Configure, Rates, MouseWrite

LEMMA ProgramCalls == \A n \in Calls : IsCall(Program, Start(n), Written(n))
<1>1. /\ IsCall(Program, 14, SET_DEFAULTS)
      /\ IsCall(Program, 20, SET_SAMPLE_RATE) /\ IsCall(Program, 26, 200)
      /\ IsCall(Program, 32, SET_SAMPLE_RATE) /\ IsCall(Program, 38, 100)
      /\ IsCall(Program, 44, SET_SAMPLE_RATE) /\ IsCall(Program, 50, 80)
      /\ IsCall(Program, 56, GET_ID) /\ IsCall(Program, 64, ENABLE_DATA)
  BY SMTT(30) DEF Program, Quiet, Configure, Rates, MouseWrite, IsCall
<1>2. Calls = {0, 1, 2, 3, 4, 5, 6, 7, 8}
  BY DEF Calls
<1>3. /\ Start(0) = 14 /\ Start(1) = 20 /\ Start(2) = 26 /\ Start(3) = 32 /\ Start(4) = 38
      /\ Start(5) = 44 /\ Start(6) = 50 /\ Start(7) = 56 /\ Start(8) = 64
  BY DEF Start
<1>4. /\ Written(0) = SET_DEFAULTS /\ Written(2) = 200 /\ Written(4) = 100 /\ Written(6) = 80
      /\ Written(1) = SET_SAMPLE_RATE /\ Written(3) = SET_SAMPLE_RATE /\ Written(5) = SET_SAMPLE_RATE
      /\ Written(7) = GET_ID /\ Written(8) = ENABLE_DATA
  BY DEF Written
<1> QED BY <1>1, <1>2, <1>3, <1>4

\* Where each operation of the list is, and what the writes write.
LEMMA Places ==
  ASSUME NEW i \in Nat, 14 <= i, i <= 69, i # 62, i # 63
  PROVE  \E n \in Calls : i \in {Start(n), Start(n) + 1, Start(n) + 2, Start(n) + 3,
                               Start(n) + 4, Start(n) + 5}
<1>1. CASE i >= 64
  BY <1>1 DEF Calls, Start
<1>2. CASE i < 62
  <2>1. PICK n \in 0 .. 7 : 14 + 6 * n <= i /\ i < 20 + 6 * n
    <3>1. PICK m \in 0 .. 7 : m = (i - 14) \div 6
      BY <1>2
    <3>2. 14 + 6 * m <= i /\ i < 20 + 6 * m
      BY <3>1
    <3> QED BY <3>2
  <2>2. n \in Calls /\ Start(n) = 14 + 6 * n
    BY DEF Calls, Start
  <2> QED BY <2>1, <2>2
<1> QED BY <1>1, <1>2

LEMMA Starts ==
  ASSUME NEW n \in Calls
  PROVE  /\ n \in Nat /\ n <= 8 /\ Start(n) \in Nat /\ 14 <= Start(n) /\ Start(n) <= 64
         /\ Start(n) + 5 < 62 \/ 63 < Start(n)
         /\ n < 7 => n + 1 \in Calls /\ Start(n + 1) = Start(n) + 6
         /\ n = 7 => Start(n) = 56
         /\ n = 8 => Start(n) = 64
BY DEF Calls, Start

LEMMA OnePlace ==
  ASSUME NEW n \in Calls, NEW m \in Calls, NEW i \in 0 .. 5, NEW j \in 0 .. 5,
         Start(n) + i = Start(m) + j
  PROVE  n = m /\ i = j
BY DEF Calls, Start

LEMMA Numbers ==
  /\ Returned = 70 /\ RebootWait = 71 /\ RebootWrite = 72 /\ Rebooted = 73 /\ AtId = 63
BY ProgramLength DEF Returned, RebootWait, RebootWrite, Rebooted, AtId

LEMMA CallOperations ==
  ASSUME NEW n \in Calls
  PROVE  /\ Program[Start(n)].op = "wait_input" /\ Program[Start(n) + 1].op = "out"
         /\ Program[Start(n) + 2].op = "wait_input" /\ Program[Start(n) + 3].op = "out"
         /\ Program[Start(n) + 4].op = "wait_output" /\ Program[Start(n) + 5].op = "ack"
<1>1. \A op : Do(op).op = op
  BY DEF Do
<1>2. \A port, byte : Outb(port, byte).op = "out"
  BY DEF Outb
<1>3. IsCall(Program, Start(n), Written(n))
  BY ProgramCalls
<1>4. Program[Start(n)].op = "wait_input" /\ Program[Start(n) + 1].op = "out"
  BY <1>1, <1>2, <1>3 DEF IsCall
<1>5. Program[Start(n) + 2].op = "wait_input" /\ Program[Start(n) + 3].op = "out"
  BY <1>1, <1>2, <1>3 DEF IsCall
<1>6. Program[Start(n) + 4].op = "wait_output" /\ Program[Start(n) + 5].op = "ack"
  BY <1>1, <1>2, <1>3 DEF IsCall
<1> QED BY <1>4, <1>5, <1>6

LEMMA StepsAt ==
  ASSUME NEW op, At(op), pc \in Nat, 1 <= pc
  PROVE  /\ op = "out" => \/ pc \in {1, 2, 5, 9, 12, 13}
                          \/ \E n \in Calls : pc = Start(n) + 1 \/ pc = Start(n) + 3
         /\ op = "wait_input" => \/ pc \in {4, 8, 10}
                                 \/ \E n \in Calls : pc = Start(n) \/ pc = Start(n) + 2
         /\ op = "wait_output" => \/ pc \in {6, 62}
                                  \/ \E n \in Calls : pc = Start(n) + 4
         /\ op = "drop" => pc = 3
         /\ op = "config_in" => pc = 7
         /\ op = "config_out" => pc = 11
         /\ op = "ack" => \E n \in Calls : pc = Start(n) + 5
         /\ op = "id" => pc = 63
<1>1. Program[pc].op = op /\ pc <= 69
  BY Numbers DEF At
<1>2. CASE pc <= 13 \/ pc \in {62, 63}
  <2>1. pc \in {1, 2, 3, 4, 5, 6, 7, 8, 9, 10, 11, 12, 13, 62, 63}
    BY <1>2
  <2> QED BY <1>1, <2>1, ProgramOpening DEF Do, Outb
<1>3. CASE ~(pc <= 13 \/ pc \in {62, 63})
  <2>1. PICK n \in Calls : pc \in {Start(n), Start(n) + 1, Start(n) + 2, Start(n) + 3,
                               Start(n) + 4, Start(n) + 5}
    BY <1>1, <1>3, Places
  <2>2. CASE pc = Start(n)
    BY <1>1, <2>2, CallOperations
  <2>3. CASE pc = Start(n) + 1
    BY <1>1, <2>3, CallOperations
  <2>4. CASE pc = Start(n) + 2
    BY <1>1, <2>4, CallOperations
  <2>5. CASE pc = Start(n) + 3
    BY <1>1, <2>5, CallOperations
  <2>6. CASE pc = Start(n) + 4
    BY <1>1, <2>6, CallOperations
  <2>7. CASE pc = Start(n) + 5
    BY <1>1, <2>7, CallOperations
  <2> QED BY <2>1, <2>2, <2>3, <2>4, <2>5, <2>6, <2>7
<1> QED BY <1>2, <1>3

\* What outb() writes at each place.
OutWrites(i, new) ==
  \/ i = 1 /\ new = [port |-> COMMAND, byte |-> DISABLE_MOUSE]
  \/ i = 2 /\ new = [port |-> COMMAND, byte |-> DISABLE_KEYBOARD]
  \/ i = 5 /\ new = [port |-> COMMAND, byte |-> READ_CONFIG]
  \/ i = 9 /\ new = [port |-> COMMAND, byte |-> WRITE_CONFIG]
  \/ i = 12 /\ new = [port |-> COMMAND, byte |-> ENABLE_KEYBOARD]
  \/ i = 13 /\ new = [port |-> COMMAND, byte |-> ENABLE_MOUSE]
  \/ \E n \in Calls : \/ i = Start(n) + 1 /\ new = [port |-> COMMAND, byte |-> WRITE_TO_MOUSE]
                      \/ i = Start(n) + 3 /\ new = [port |-> DATA, byte |-> Written(n)]

LEMMA OutFacts ==
  ASSUME Out, pc \in Nat, 1 <= pc
  PROVE  /\ OutWrites(pc, input')
         /\ pc' = pc + 1 /\ polls' = 0 /\ pc <= 69
         /\ UNCHANGED <<localVars, heldVars, worldVars>>
<1>1. /\ input' = [port |-> Program[pc].port, byte |-> Program[pc].byte]
      /\ At("out")
      /\ pc' = pc + 1 /\ polls' = 0 /\ UNCHANGED <<localVars, heldVars, worldVars>>
  BY DEF Out, WritePort, Goto
<1>2. /\ \A port, byte : Outb(port, byte).port = port /\ Outb(port, byte).byte = byte
  BY DEF Outb
<1>3. CASE pc \in {1, 2, 5, 9, 12, 13}
  BY <1>1, <1>2, <1>3, ProgramOpening DEF OutWrites
<1>4. ASSUME NEW n \in Calls, pc = Start(n) + 1
      PROVE  OutWrites(pc, input')
  BY <1>1, <1>2, <1>4, ProgramCalls DEF OutWrites, IsCall
<1>5. ASSUME NEW n \in Calls, pc = Start(n) + 3
      PROVE  OutWrites(pc, input')
  BY <1>1, <1>2, <1>5, ProgramCalls DEF OutWrites, IsCall
<1>6. pc <= 69
  BY <1>1, Numbers DEF At
<1> QED BY <1>1, <1>3, <1>4, <1>5, <1>6, StepsAt

-----------------------------------------------------------------------------
(* The types *)

LEMMA NatIsByte == \A b \in Nat : b < 256 => b \in Byte
BY DEF Byte

LEMMA WrittenBytes ==
  /\ {DISABLE_MOUSE, ENABLE_MOUSE, DISABLE_KEYBOARD, ENABLE_KEYBOARD, READ_CONFIG, WRITE_CONFIG,
      WRITE_TO_MOUSE, REBOOT, ACK, RESEND, ID_WHEEL} \subseteq Byte
  /\ \A n \in Calls : Written(n) \in Byte
<1>1. {DISABLE_MOUSE, ENABLE_MOUSE, DISABLE_KEYBOARD, ENABLE_KEYBOARD, READ_CONFIG, WRITE_CONFIG,
      WRITE_TO_MOUSE, REBOOT, ACK, RESEND, ID_WHEEL} \subseteq Byte
  BY NatIsByte DEF DISABLE_MOUSE, ENABLE_MOUSE, DISABLE_KEYBOARD, ENABLE_KEYBOARD, READ_CONFIG,
                   WRITE_CONFIG, WRITE_TO_MOUSE, REBOOT, ACK, RESEND, ID_WHEEL
<1>2. \A n \in Calls : Written(n) \in Nat /\ Written(n) < 256
  BY DEF Calls, Written, SET_DEFAULTS, SET_SAMPLE_RATE, GET_ID, ENABLE_DATA
<1> QED BY <1>1, <1>2, NatIsByte

LEMMA MouseOnByte == \A b \in Byte : MouseOn(b) \in Byte
BY OneBit, NumbersOfBits DEF MouseOn

LEMMA OutInput ==
  ASSUME NEW i, NEW new, OutWrites(i, new)
  PROVE  new \in [port : {0, DATA, COMMAND}, byte : Byte]
BY WrittenBytes DEF OutWrites

LEMMA InitType == Init => TypeInv
<1> SUFFICES ASSUME Init PROVE TypeInv
  OBVIOUS
<1>1. NoInput \in [port : {0, DATA, COMMAND}, byte : Byte]
  BY NatIsByte DEF NoInput
<1>2. config \in Byte
  BY NatIsByte DEF Init
<1>3. mouse \in MouseType
  <2>1. 0 \in Byte /\ 100 \in Byte
    BY NatIsByte
  <2>2. <<0, 0, 100>> \in Seq(Byte) /\ Len(<<0, 0, 100>>) = 3
    BY <2>1
  <2> QED BY <2>2 DEF Init, MouseType
<1>4. PS2_TIMEOUT \in Nat \ {0} /\ PS2_RETRIES \in Nat \ {0} /\ BootConfig \in Byte /\ KeyBytes \subseteq Byte
  BY Ps2Assumption
<1>5. output \in [byte : Byte, from : Source, full : BOOLEAN]
  BY <1>4 DEF Init, Source
<1>6. pc \in 1 .. Rebooted /\ polls \in 0 .. PS2_TIMEOUT /\ retry \in 0 .. PS2_RETRIES - 1
  BY <1>4, Numbers DEF Init
<1>7. reply \in Seq(Byte) /\ mouse_out \in Seq(Byte) /\ key_out \in Seq(Byte)
  BY DEF Init
<1>8. input \in [port : {0, DATA, COMMAND}, byte : Byte]
  BY <1>1 DEF Init
<1>9. /\ answered \in BOOLEAN /\ has_scroll_wheel \in BOOLEAN /\ reset \in BOOLEAN
      /\ expecting \in {"keyboard", "mouse", "config"} /\ controller_config \in Byte
      /\ requested \subseteq {1, 12} /\ pressed \in Nat /\ machine \in Machines
  BY <1>4 DEF Init
<1> QED BY <1>2, <1>3, <1>5, <1>6, <1>7, <1>8, <1>9 DEF TypeInv, TypeOK

LEMMA TypeFacts ==
  ASSUME TypeInv
  PROVE  /\ pc \in Nat /\ 1 <= pc /\ pc <= 73
         /\ polls \in Nat /\ polls <= PS2_TIMEOUT /\ PS2_TIMEOUT \in Nat /\ PS2_TIMEOUT # 0
         /\ retry \in Nat /\ retry < PS2_RETRIES /\ PS2_RETRIES \in Nat /\ PS2_RETRIES # 0
         /\ machine \in MachineType
BY Numbers, Ps2Assumption DEF TypeInv, TypeOK

LEMMA OutType ==
  ASSUME TypeInv, Out
  PROVE  TypeInv'
<1>1. pc' \in 1 .. Rebooted /\ polls' \in 0 .. PS2_TIMEOUT
  BY OutFacts, TypeFacts, Numbers
<1>2. input' \in [port : {0, DATA, COMMAND}, byte : Byte]
  BY OutFacts, TypeFacts, OutInput
<1>3. UNCHANGED <<localVars, heldVars, worldVars>>
  BY OutFacts, TypeFacts
<1> QED BY <1>1, <1>2, <1>3 DEF TypeInv, TypeOK, localVars, heldVars, worldVars, deviceVars

LEMMA AtPlace == ASSUME NEW op, At(op), TypeInv PROVE pc \in 1 .. 69 /\ Program[pc].op = op
BY TypeFacts, Numbers DEF At

LEMMA PollFacts ==
  ASSUME TypeInv, NEW ready \in BOOLEAN, Poll(ready), pc <= 69
  PROVE  /\ pc' \in 1 .. Rebooted /\ polls' \in 0 .. PS2_TIMEOUT
         /\ \/ ~ready /\ polls < PS2_TIMEOUT /\ polls' = polls + 1 /\ pc' = pc
            \/ (ready \/ polls = PS2_TIMEOUT) /\ pc' = pc + 1 /\ polls' = 0
         /\ DevicesInTime(polls + 1 >= PS2_TIMEOUT)
         /\ UNCHANGED <<retry, config, has_scroll_wheel, controllerVars, output, worldVars>>
BY TypeFacts, Numbers DEF Poll, GivesUp, Goto

LEMMA WaitType ==
  ASSUME TypeInv, WaitInputEmpty \/ WaitOutputFull
  PROVE  TypeInv'
<1>1. pc <= 69
  BY AtPlace DEF WaitInputEmpty, WaitOutputFull
<1>2. output.full \in BOOLEAN
  BY DEF TypeInv, TypeOK
<1>3. PICK ready \in BOOLEAN : Poll(ready)
  BY <1>2 DEF WaitInputEmpty, WaitOutputFull
<1>4. answered' \in BOOLEAN
  BY <1>2 DEF WaitInputEmpty, WaitOutputFull, TypeInv, TypeOK
<1>5. /\ pc' \in 1 .. Rebooted /\ polls' \in 0 .. PS2_TIMEOUT
      /\ UNCHANGED <<retry, config, has_scroll_wheel, controllerVars, output, worldVars>>
  BY <1>1, <1>3, PollFacts
<1> QED BY <1>4, <1>5 DEF TypeInv, TypeOK, controllerVars, worldVars, deviceVars


LEMMA ReadFacts ==
  ASSUME TypeInv, ReadData
  PROVE  /\ output' \in [byte : Byte, from : Source, full : BOOLEAN]
         /\ output'.byte = output.byte /\ output'.from = output.from /\ ~output'.full
BY DEF ReadData, TypeInv, TypeOK

LEMMA DropType == ASSUME TypeInv, Drop PROVE TypeInv'
<1>1. pc <= 69
  BY AtPlace DEF Drop
<1>2. pc' \in 1 .. Rebooted /\ polls' \in 0 .. PS2_TIMEOUT
  BY <1>1, TypeFacts, Numbers DEF Drop, Goto
<1>3. output' \in [byte : Byte, from : Source, full : BOOLEAN]
  BY ReadFacts DEF Drop
<1> QED BY <1>2, <1>3 DEF Drop, TypeInv, TypeOK, localVars, controllerVars, worldVars, deviceVars

LEMMA ConfigType == ASSUME TypeInv, ConfigIn \/ ConfigOut PROVE TypeInv'
<1>1. At("config_in") \/ At("config_out")
  BY DEF ConfigIn, ConfigOut
<1>2. pc' \in 1 .. Rebooted /\ polls' \in 0 .. PS2_TIMEOUT
  <2>1. pc <= 69
    BY <1>1, AtPlace
  <2>2. Goto(pc + 1)
    BY DEF ConfigIn, ConfigOut
  <2> QED BY <2>1, <2>2, TypeFacts, Numbers DEF Goto
<1>3. CASE ConfigIn
  <2>1. output' \in [byte : Byte, from : Source, full : BOOLEAN]
    BY <1>3, ReadFacts DEF ConfigIn
  <2>2. config' \in Byte
    BY <1>3, MouseOnByte DEF ConfigIn, TypeInv, TypeOK
  <2> QED BY <1>2, <1>3, <2>1, <2>2
          DEF ConfigIn, TypeInv, TypeOK, controllerVars, worldVars, deviceVars
<1>4. CASE ConfigOut
  <2>1. input' \in [port : {0, DATA, COMMAND}, byte : Byte]
    BY <1>4 DEF ConfigOut, WritePort, TypeInv, TypeOK
  <2> QED BY <1>2, <1>4, <2>1
          DEF ConfigOut, TypeInv, TypeOK, localVars, heldVars, worldVars, deviceVars
<1> QED BY <1>3, <1>4

\* The check of an answer goes back to the start of the call or on.
LEMMA AckFacts ==
  ASSUME TypeInv, CheckAck
  PROVE  \E n \in Calls :
           /\ pc = Start(n) + 5
           /\ polls' = 0
           /\ \/ ~Answer(ACK) /\ retry + 1 < PS2_RETRIES /\ pc' = Start(n) /\ retry' = retry + 1
              \/ Answer(ACK) /\ pc' = pc + 1 /\ retry' = 0
              \/ ~Answer(ACK) /\ pc' = (IF n = 0 THEN Returned ELSE pc + 1) /\ retry' = 0
<1>1. PICK n \in Calls : pc = Start(n) + 5
  BY StepsAt, TypeFacts DEF CheckAck
<1>2. (pc = FirstAck) <=> (n = 0)
  BY <1>1, ProgramLength DEF Start, Calls
<1>3. pc - TrySteps + 1 = Start(n)
  BY <1>1, Starts, ProgramLength
<1> QED BY <1>1, <1>2, <1>3 DEF CheckAck, Goto, NextTry

LEMMA AnswerType ==
  ASSUME TypeInv, ReadAnswer
  PROVE  output' \in [byte : Byte, from : Source, full : BOOLEAN]
BY ReadFacts DEF ReadAnswer, TypeInv, TypeOK

LEMMA CheckAckType == ASSUME TypeInv, CheckAck PROVE TypeInv'
<1>1. pc' \in 1 .. Rebooted /\ polls' \in 0 .. PS2_TIMEOUT /\ retry' \in 0 .. PS2_RETRIES - 1
  <2>1. PICK n \in Calls :
           /\ pc = Start(n) + 5
           /\ polls' = 0
           /\ \/ ~Answer(ACK) /\ retry + 1 < PS2_RETRIES /\ pc' = Start(n) /\ retry' = retry + 1
              \/ Answer(ACK) /\ pc' = pc + 1 /\ retry' = 0
              \/ ~Answer(ACK) /\ pc' = (IF n = 0 THEN Returned ELSE pc + 1) /\ retry' = 0
    BY AckFacts
  <2> QED BY <2>1, Starts, TypeFacts, Numbers
<1>2. output' \in [byte : Byte, from : Source, full : BOOLEAN]
  BY AnswerType DEF CheckAck
<1> QED BY <1>1, <1>2 DEF CheckAck, TypeInv, TypeOK, controllerVars, worldVars, deviceVars

LEMMA CheckIdType == ASSUME TypeInv, CheckId PROVE TypeInv'
<1>1. pc <= 69
  BY AtPlace DEF CheckId
<1>2. pc' \in 1 .. Rebooted /\ polls' \in 0 .. PS2_TIMEOUT
  BY <1>1, TypeFacts, Numbers DEF CheckId, Goto
<1>3. output' \in [byte : Byte, from : Source, full : BOOLEAN]
  BY AnswerType DEF CheckId
<1>4. has_scroll_wheel' \in BOOLEAN
  BY DEF CheckId, IsWheelId, Answer, TypeInv, TypeOK
<1> QED BY <1>2, <1>3, <1>4 DEF CheckId, TypeInv, TypeOK, controllerVars, worldVars, deviceVars

LEMMA RebootType ==
  ASSUME TypeInv, RebootStart \/ Reboot
  PROVE  TypeInv'
<1>1. pc' \in 1 .. Rebooted /\ polls' \in 0 .. PS2_TIMEOUT
  BY TypeFacts, Numbers DEF RebootStart, Reboot, RebootPoll, RebootCommand, Goto
<1>2. input' \in [port : {0, DATA, COMMAND}, byte : Byte]
  BY WrittenBytes DEF RebootStart, Reboot, RebootPoll, RebootCommand, WritePort, TypeInv, TypeOK, controllerVars
<1> QED BY <1>1, <1>2 DEF RebootStart, Reboot, RebootPoll, RebootCommand, TypeInv, TypeOK,
                          localVars, controllerVars, heldVars, worldVars, deviceVars


\* What the controller does with a byte.
LEMMA PutFacts ==
  ASSUME TypeInv, NEW byte \in Byte, NEW source \in Source, PutOutput(byte, source)
  PROVE  /\ ~output.full /\ output'.byte = byte /\ output'.from = source /\ output'.full
         /\ output' \in [byte : Byte, from : Source, full : BOOLEAN]
         /\ requested \subseteq requested' /\ requested' \subseteq {1, 12}
BY DEF PutOutput, TypeInv, TypeOK, Irq

LEMMA HeadTail ==
  ASSUME NEW S, NEW s \in Seq(S), s # << >>
  PROVE  /\ Head(s) \in S /\ Tail(s) \in Seq(S)
         /\ \E k \in 1 .. Len(s) : s[k] = Head(s)
         /\ \A k \in 1 .. Len(Tail(s)) : k + 1 \in 1 .. Len(s) /\ Tail(s)[k] = s[k + 1]
         /\ Len(s) \in Nat /\ Len(s) # 0 /\ Len(Tail(s)) = Len(s) - 1
OBVIOUS

LEMMA SendsType ==
  ASSUME TypeInv, ControllerReplies \/ MouseSends \/ KeyboardSends
  PROVE  TypeInv'
<1>1. reply \in Seq(Byte) /\ mouse_out \in Seq(Byte) /\ key_out \in Seq(Byte)
  BY DEF TypeInv, TypeOK
<1>2. CASE ControllerReplies
  <2>1. Head(reply) \in Byte /\ reply' \in Seq(Byte) /\ PutOutput(Head(reply), "controller")
    BY <1>1, <1>2, HeadTail DEF ControllerReplies
  <2>2. output' \in [byte : Byte, from : Source, full : BOOLEAN] /\ requested' \subseteq {1, 12}
    BY <2>1, PutFacts DEF Source
  <2> QED BY <1>2, <2>1, <2>2 DEF ControllerReplies, TypeInv, TypeOK, driverVars, localVars, deviceVars
<1>3. CASE MouseSends
  <2>1. Head(mouse_out) \in Byte /\ mouse_out' \in Seq(Byte) /\ PutOutput(Head(mouse_out), "mouse")
    BY <1>1, <1>3, HeadTail DEF MouseSends
  <2>2. output' \in [byte : Byte, from : Source, full : BOOLEAN] /\ requested' \subseteq {1, 12}
    BY <2>1, PutFacts DEF Source
  <2> QED BY <1>3, <2>1, <2>2 DEF MouseSends, TypeInv, TypeOK, driverVars, localVars, controllerVars
<1>4. CASE KeyboardSends
  <2>1. Head(key_out) \in Byte /\ key_out' \in Seq(Byte) /\ PutOutput(Head(key_out), "keyboard")
    BY <1>1, <1>4, HeadTail DEF KeyboardSends
  <2>2. output' \in [byte : Byte, from : Source, full : BOOLEAN] /\ requested' \subseteq {1, 12}
    BY <2>1, PutFacts DEF Source
  <2> QED BY <1>4, <2>1, <2>2 DEF KeyboardSends, TypeInv, TypeOK, driverVars, localVars, controllerVars
<1> QED BY <1>2, <1>3, <1>4

LEMMA PressType == ASSUME TypeInv, PressKey PROVE TypeInv'
<1>1. key_out' \in Seq(Byte) /\ pressed' \in Nat
  <2>1. PICK key \in KeyBytes : key_out' = Append(key_out, key)
    BY DEF PressKey
  <2>2. key \in Byte /\ key_out \in Seq(Byte) /\ pressed \in Nat /\ pressed' = pressed + 1
    BY Ps2Assumption DEF PressKey, TypeInv, TypeOK
  <2> QED BY <2>1, <2>2
<1> QED BY <1>1 DEF PressKey, TypeInv, TypeOK, driverVars, localVars, controllerVars

LEMMA CommandFacts ==
  ASSUME TypeInv, NEW byte \in Byte, Command(byte)
  PROVE  /\ controller_config' \in Byte
         /\ expecting' \in {"keyboard", "mouse", "config"}
         /\ reply' \in Seq(Byte) /\ reset' \in BOOLEAN
         /\ UNCHANGED <<mouse, mouse_out, key_out>>
<1>1. controller_config \in Byte /\ reply \in Seq(Byte)
  BY DEF TypeInv, TypeOK
<1>2. controller_config' \in Byte
  BY <1>1, OneBit, NumbersOfBits DEF Command
<1>3. reply' \in Seq(Byte)
  BY <1>1 DEF Command
<1> QED BY <1>2, <1>3 DEF Command

LEMMA Appended ==
  ASSUME NEW S, NEW s \in Seq(S), NEW e \in S, NEW t, t = Append(s, e)
  PROVE  /\ t \in Seq(S) /\ Len(t) = Len(s) + 1 /\ t[Len(s) + 1] = e
         /\ \A i \in 1 .. Len(s) : t[i] = s[i]
OBVIOUS

LEMMA LastThree ==
  ASSUME NEW S, NEW t \in Seq(S), Len(t) = 4, NEW r, r = SubSeq(t, 2, 4)
  PROVE  r \in Seq(S) /\ Len(r) = 3 /\ r[1] = t[2] /\ r[2] = t[3] /\ r[3] = t[4]
BY SubSeqProperties

LEMMA Rates3 ==
  ASSUME NEW S, NEW s \in Seq(S), Len(s) = 3, NEW e \in S, NEW r,
         r = SubSeq(Append(s, e), Len(s) - 1, Len(s) + 1)
  PROVE  r \in Seq(S) /\ Len(r) = 3 /\ r[1] = s[2] /\ r[2] = s[3] /\ r[3] = e
<1>1. PICK t : t = Append(s, e)
  OBVIOUS
<1>2. t \in Seq(S) /\ Len(t) = 4 /\ t[4] = e /\ t[2] = s[2] /\ t[3] = s[3]
  BY <1>1, Appended
<1>3. r = SubSeq(t, 2, 4)
  BY <1>1
<1> QED BY <1>2, <1>3, LastThree

\* The mouse only speaks of its wheel when it has one.
LEMMA MouseFacts ==
  ASSUME TypeInv, NEW byte \in Byte, MouseTakes(byte)
  PROVE  /\ mouse' \in MouseType /\ mouse_out' \in Seq(Byte)
         /\ mouse'.id = mouse.id \/ (mouse'.id = ID_WHEEL /\ machine.kind = "wheel")
         /\ \A k \in 1 .. Len(mouse_out') :
              mouse_out'[k] = ID_WHEEL => Has(mouse_out, ID_WHEEL) \/ mouse.id = ID_WHEEL
<1>1. mouse \in MouseType /\ mouse_out \in Seq(Byte)
  BY DEF TypeInv, TypeOK
<1>2. mouse.rates \in Seq(Byte) /\ Len(mouse.rates) = 3 /\ mouse.id \in {0, ID_WHEEL}
  BY <1>1 DEF MouseType
<1>3. ACK \in Byte /\ RESEND \in Byte /\ mouse.id \in Byte /\ ACK # ID_WHEEL /\ RESEND # ID_WHEEL
  BY <1>2, NatIsByte DEF ACK, RESEND, ID_WHEEL
<1>4. CASE mouse.argument
  <2>1. PICK r : r = RatesWith(byte)
    OBVIOUS
  <2>2. r \in Seq(Byte) /\ Len(r) = 3
    BY <1>2, <2>1, Rates3 DEF RatesWith
  <2>3. /\ mouse' = [mouse EXCEPT
            !.argument = FALSE, !.rates = r,
            !.id = IF machine.kind = "wheel" /\ r = <<200, 100, 80>> THEN ID_WHEEL ELSE @]
        /\ mouse_out' = Append(mouse_out, ACK)
    BY <1>4, <2>1 DEF MouseTakes
  <2>4. mouse' \in MouseType
    BY <1>1, <2>2, <2>3 DEF MouseType
  <2>5. mouse'.id = mouse.id \/ (mouse'.id = ID_WHEEL /\ machine.kind = "wheel")
    BY <1>1, <2>3 DEF MouseType
  <2>6. mouse_out' \in Seq(Byte)
    BY <1>1, <1>3, <2>3
  <2>7. \A k \in 1 .. Len(mouse_out') :
              mouse_out'[k] = ID_WHEEL => Has(mouse_out, ID_WHEEL)
    BY <1>1, <1>3, <2>3 DEF Has
  <2> QED BY <2>4, <2>5, <2>6, <2>7
<1>5. CASE ~mouse.argument
  <2>1. PICK said \in {<<ACK, mouse.id>>, <<ACK>>, <<RESEND>>} : mouse_out' = mouse_out \o said
    BY <1>5 DEF MouseTakes
  <2>2. said \in Seq(Byte) /\ \A k \in 1 .. Len(said) : said[k] = ID_WHEEL => mouse.id = ID_WHEEL
    BY <1>3, <2>1
  <2>3. mouse' = [mouse EXCEPT
            !.argument = (byte = SET_SAMPLE_RATE),
            !.reporting = CASE byte = ENABLE_DATA  -> TRUE
                            [] byte = SET_DEFAULTS -> FALSE
                            [] OTHER               -> @]
    BY <1>5 DEF MouseTakes
  <2>4. mouse' \in MouseType /\ mouse'.id = mouse.id
    BY <1>1, <2>3 DEF MouseType
  <2>5. mouse_out' \in Seq(Byte)
    BY <1>1, <2>1, <2>2
  <2>6. \A k \in 1 .. Len(mouse_out') :
              mouse_out'[k] = ID_WHEEL => Has(mouse_out, ID_WHEEL) \/ mouse.id = ID_WHEEL
    BY <1>1, <2>1, <2>2 DEF Has
  <2> QED BY <2>4, <2>5, <2>6
<1> QED BY <1>4, <1>5

LEMMA ReadsType == ASSUME TypeInv, ControllerReads PROVE TypeInv'
<1>1. input.byte \in Byte
  BY DEF TypeInv, TypeOK
<1>2. input' \in [port : {0, DATA, COMMAND}, byte : Byte]
  BY NatIsByte DEF ControllerReads, NoInput
<1>3. /\ controller_config' \in Byte /\ expecting' \in {"keyboard", "mouse", "config"}
      /\ reply' \in Seq(Byte) /\ reset' \in BOOLEAN
      /\ mouse' \in MouseType /\ mouse_out' \in Seq(Byte) /\ key_out' \in Seq(Byte)
  <2>1. CASE Command(input.byte)
    BY <1>1, <2>1, CommandFacts DEF TypeInv, TypeOK
  <2>2. CASE Data(input.byte)
    <3>1. mouse' \in MouseType /\ mouse_out' \in Seq(Byte)
      BY <1>1, <2>2, MouseFacts DEF Data, TypeInv, TypeOK
    <3>2. key_out' \in Seq(Byte)
      BY <2>2, WrittenBytes DEF Data, TypeInv, TypeOK
    <3> QED BY <1>1, <2>2, <3>1, <3>2 DEF Data, TypeInv, TypeOK
  <2> QED BY <2>1, <2>2 DEF ControllerReads
<1> QED BY <1>2, <1>3 DEF ControllerReads, TypeInv, TypeOK, driverVars, localVars

LEMMA TypeNext == ASSUME TypeInv, [Next]_vars PROVE TypeInv'
<1>1. CASE UNCHANGED vars
  BY <1>1 DEF vars, driverVars, localVars, controllerVars, worldVars, deviceVars, TypeInv, TypeOK
<1>2. CASE Next
  BY <1>1, <1>2, OutType, WaitType, DropType, ConfigType, CheckAckType, CheckIdType, RebootType,
     SendsType, PressType, ReadsType
     DEF Next, Driver, MouseInit, Hardware, Controller, Rest
<1> QED BY <1>1, <1>2

-----------------------------------------------------------------------------
(* The driver and the mouse agree on the packets *)

LEMMA InitAgreement == Init => Agreement
<1> SUFFICES ASSUME Init PROVE Agreement
  OBVIOUS
<1>1. ~Has(<< >>, ID_WHEEL)
  BY DEF Has
<1>2. OnlyWheelSaysThree
  BY <1>1, Numbers DEF Init, OnlyWheelSaysThree
<1>3. ConfigAskedOnce
  BY Ps2Assumption DEF Init, ConfigAskedOnce, Sent, NoInput, DATA, COMMAND
<1>4. WheelMode
  BY DEF Init, WheelMode, ID_WHEEL
<1> QED BY <1>2, <1>3, <1>4 DEF Agreement

\* A step of the driver leaves the bytes of the devices where they are: it is the
\* ID that it reads and the commands that it writes that count.
LEMMA DriverAgreement ==
  ASSUME TypeInv, Agreement, pc' \in Nat,
         UNCHANGED <<controller_config, expecting, reply, mouse, mouse_out, key_out, pressed, machine>>,
         pc' <= 9 => pc <= 9,
         pc' > 3 => pc > 3 \/ ~output'.full,
         ~output'.full \/ output' = output,
         pc' = AtId /\ answered' => output'.full,
         has_scroll_wheel' => has_scroll_wheel \/ (pc = AtId /\ Answer(ID_WHEEL)),
         Sent(READ_CONFIG)' => pc' <= 9,
         Sent(WRITE_CONFIG)' => pc' > 9,
         input'.port = DATA => pc' > 9
  PROVE  Agreement'
<1>1. OnlyWheelSaysThree'
  <2> SUFFICES ASSUME pressed' = 0
               PROVE  /\ ~Has(reply, ID_WHEEL)' /\ ~Has(key_out, ID_WHEEL)'
                      /\ Has(mouse_out, ID_WHEEL)' => mouse'.id = ID_WHEEL
                      /\ pc' > 3 /\ output'.full /\ output'.byte = ID_WHEEL => mouse'.id = ID_WHEEL
                      /\ pc' = AtId /\ answered' => output'.full
                      /\ has_scroll_wheel' => mouse'.id = ID_WHEEL
    BY DEF OnlyWheelSaysThree, AtId
  <2>1. pressed = 0 /\ OnlyWheelSaysThree
    BY DEF Agreement
  <2>2. /\ ~Has(reply, ID_WHEEL)' /\ ~Has(key_out, ID_WHEEL)'
        /\ Has(mouse_out, ID_WHEEL)' => mouse'.id = ID_WHEEL
    BY <2>1 DEF OnlyWheelSaysThree, Has
  <2>3. pc' > 3 /\ output'.full /\ output'.byte = ID_WHEEL => mouse'.id = ID_WHEEL
    BY <2>1 DEF OnlyWheelSaysThree
  <2>4. pc = AtId /\ Answer(ID_WHEEL) => mouse.id = ID_WHEEL
    BY <2>1 DEF OnlyWheelSaysThree, Answer, AtId
  <2>5. has_scroll_wheel' => mouse'.id = ID_WHEEL
    BY <2>1, <2>4 DEF OnlyWheelSaysThree
  <2> QED BY <2>2, <2>3, <2>5
<1>2. ConfigAskedOnce'
  BY DEF ConfigAskedOnce, Agreement
<1>3. WheelMode'
  BY DEF Agreement, WheelMode
<1> QED BY <1>1, <1>2, <1>3 DEF Agreement

LEMMA OutAgreement == ASSUME TypeInv, Agreement, Out PROVE Agreement'
<1>1. pc \in Nat /\ 1 <= pc
  BY TypeFacts
<1>2. /\ OutWrites(pc, input') /\ pc' = pc + 1
      /\ UNCHANGED <<localVars, heldVars, worldVars>>
  BY <1>1, OutFacts
<1>3. pc # 3 /\ pc # 62
  BY <1>1, <1>2, Starts DEF OutWrites
<1>4. Sent(READ_CONFIG)' => pc' <= 9
  <2> SUFFICES ASSUME input'.port = COMMAND, input'.byte = READ_CONFIG PROVE pc = 5
    BY <1>1, <1>2 DEF Sent
  <2> QED BY <1>2
          DEF OutWrites, DATA, COMMAND, READ_CONFIG, WRITE_CONFIG, DISABLE_MOUSE, ENABLE_MOUSE,
              DISABLE_KEYBOARD, ENABLE_KEYBOARD, WRITE_TO_MOUSE
<1>5. Sent(WRITE_CONFIG)' => pc' > 9
  <2> SUFFICES ASSUME input'.port = COMMAND, input'.byte = WRITE_CONFIG PROVE pc = 9
    BY <1>1, <1>2 DEF Sent
  <2> QED BY <1>2
          DEF OutWrites, DATA, COMMAND, READ_CONFIG, WRITE_CONFIG, DISABLE_MOUSE, ENABLE_MOUSE,
              DISABLE_KEYBOARD, ENABLE_KEYBOARD, WRITE_TO_MOUSE
<1>6. input'.port = DATA => pc' > 9
  BY <1>1, <1>2, Starts DEF OutWrites, DATA, COMMAND
<1> QED BY <1>1, <1>2, <1>3, <1>4, <1>5, <1>6, DriverAgreement, Numbers
        DEF localVars, heldVars, worldVars, deviceVars

LEMMA WaitAgreement ==
  ASSUME TypeInv, Agreement, WaitInputEmpty \/ WaitOutputFull
  PROVE  Agreement'
<1>1. pc <= 69 /\ pc \in Nat /\ 1 <= pc
  BY AtPlace, TypeFacts DEF WaitInputEmpty, WaitOutputFull
<1>2. PICK ready \in BOOLEAN : Poll(ready)
  BY DEF WaitInputEmpty, WaitOutputFull, TypeInv, TypeOK
<1>3. /\ pc' = pc \/ pc' = pc + 1
      /\ UNCHANGED <<has_scroll_wheel, controllerVars, output, worldVars>>
  BY <1>1, <1>2, PollFacts
<1>4. /\ \/ pc \in {4, 8, 10, 6, 62}
         \/ \E n \in Calls : pc = Start(n) \/ pc = Start(n) + 2 \/ pc = Start(n) + 4
      /\ WaitInputEmpty => pc # 62
  BY <1>1, StepsAt, Starts DEF WaitInputEmpty, WaitOutputFull
<1>5. pc # 3 /\ pc # 9 /\ pc # AtId
  BY <1>4, Starts, Numbers
<1>6. pc' = AtId /\ answered' => output'.full
  <2>1. pc' = AtId => WaitOutputFull
    BY <1>1, <1>3, <1>4, <1>5, Numbers
  <2>2. WaitOutputFull /\ answered' => output.full
    BY Zenon DEF WaitOutputFull
  <2> QED BY <1>3, <2>1, <2>2
<1> QED BY <1>1, <1>3, <1>5, <1>6, DriverAgreement
        DEF controllerVars, worldVars, deviceVars, Agreement, ConfigAskedOnce, Sent

LEMMA ReadAgreement ==
  ASSUME TypeInv, Agreement, Drop \/ ConfigIn \/ CheckId
  PROVE  Agreement'
<1>1. pc \in {3, 7, 63} /\ pc' = pc + 1 /\ (CheckId => pc = 63)
  BY StepsAt, TypeFacts DEF Drop, ConfigIn, CheckId, Goto
<1>2. pc = 3 => ~output'.full
  <2>1. ConfigIn => pc = 7
    BY StepsAt, TypeFacts DEF ConfigIn
  <2>2. CheckId => pc = 63
    BY StepsAt, TypeFacts DEF CheckId
  <2>3. Drop => ~output'.full
    BY ReadFacts DEF Drop
  <2> QED BY <2>1, <2>2, <2>3
<1>3. ~output'.full \/ output' = output
  BY ReadFacts DEF Drop, ConfigIn, CheckId, ReadAnswer
<1>4. has_scroll_wheel' => has_scroll_wheel \/ (pc = AtId /\ Answer(ID_WHEEL))
  <2>1. CASE CheckId
    BY <1>1, <2>1, Numbers DEF CheckId, IsWheelId
  <2>2. CASE Drop \/ ConfigIn
    BY <2>2 DEF Drop, ConfigIn, localVars
  <2> QED BY <2>1, <2>2
<1>5. UNCHANGED <<controllerVars, worldVars>>
  BY DEF Drop, ConfigIn, CheckId
<1> QED BY <1>1, <1>2, <1>3, <1>4, <1>5, DriverAgreement, Numbers
        DEF controllerVars, worldVars, deviceVars, Agreement, ConfigAskedOnce, Sent

LEMMA ConfigOutAgreement == ASSUME TypeInv, Agreement, ConfigOut PROVE Agreement'
<1>1. pc = 11 /\ pc' = 12
  BY StepsAt, TypeFacts DEF ConfigOut, Goto
<1>2. input'.port = DATA /\ UNCHANGED <<localVars, heldVars, worldVars>>
  BY DEF ConfigOut, WritePort
<1>3. ~Sent(READ_CONFIG)'
  BY <1>2 DEF Sent, DATA, COMMAND
<1> QED BY <1>1, <1>2, <1>3, DriverAgreement, Numbers DEF localVars, heldVars, worldVars, deviceVars

LEMMA CheckAckAgreement == ASSUME TypeInv, Agreement, CheckAck PROVE Agreement'
<1>1. PICK n \in Calls :
           /\ pc = Start(n) + 5
           /\ pc' = Start(n) \/ pc' = pc + 1 \/ pc' = Returned
  BY AckFacts
<1>2. pc \in Nat /\ pc > 13 /\ pc' \in Nat /\ pc' > 13 /\ pc' # AtId
  BY <1>1, Starts, Numbers
<1>3. ~output'.full \/ output' = output
  BY ReadFacts DEF CheckAck, ReadAnswer
<1>4. UNCHANGED <<has_scroll_wheel, controllerVars, worldVars>>
  BY DEF CheckAck
<1> QED BY <1>2, <1>3, <1>4, DriverAgreement
        DEF controllerVars, worldVars, deviceVars, Agreement, ConfigAskedOnce, Sent

LEMMA RebootAgreement == ASSUME TypeInv, Agreement, RebootStart \/ Reboot PROVE Agreement'
<1>1. pc \in Nat /\ pc > 69 /\ pc' \in Nat /\ pc' > 69
  BY Numbers DEF RebootStart, Reboot, RebootPoll, RebootCommand, Goto
<1>2. UNCHANGED <<localVars, heldVars, worldVars>>
  BY DEF RebootStart, Reboot, RebootPoll, RebootCommand, heldVars, controllerVars
<1>3. input' = input \/ input' = [port |-> COMMAND, byte |-> REBOOT]
  BY DEF RebootStart, Reboot, RebootPoll, RebootCommand, controllerVars, WritePort
<1>4. ~Sent(READ_CONFIG)'
  BY <1>1, <1>3 DEF Agreement, ConfigAskedOnce, Sent, READ_CONFIG, REBOOT
<1> QED BY <1>1, <1>2, <1>4, DriverAgreement, Numbers DEF localVars, heldVars, worldVars, deviceVars

LEMMA PressAgreement == ASSUME TypeInv, Agreement, PressKey PROVE Agreement'
<1>1. pressed' # 0
  BY DEF PressKey, TypeInv
<1>2. ConfigAskedOnce' /\ WheelMode'
  BY DEF PressKey, Agreement, ConfigAskedOnce, WheelMode, Sent, driverVars, controllerVars
<1> QED BY <1>1, <1>2 DEF Agreement, OnlyWheelSaysThree

LEMMA TailHas ==
  ASSUME NEW s \in Seq(Byte), s # << >>, NEW byte
  PROVE  /\ Has(Tail(s), byte) => Has(s, byte)
         /\ Head(s) = byte => Has(s, byte)
BY HeadTail DEF Has

LEMMA SendsAgreement ==
  ASSUME TypeInv, Agreement, ControllerReplies \/ MouseSends \/ KeyboardSends
  PROVE  Agreement'
<1>1. ConfigAskedOnce' /\ WheelMode'
  BY DEF ControllerReplies, MouseSends, KeyboardSends, Agreement, ConfigAskedOnce, WheelMode, Sent,
         driverVars, controllerVars, deviceVars
<1>2. OnlyWheelSaysThree'
  <2> SUFFICES ASSUME pressed' = 0
               PROVE  /\ ~Has(reply, ID_WHEEL)' /\ ~Has(key_out, ID_WHEEL)'
                      /\ Has(mouse_out, ID_WHEEL)' => mouse'.id = ID_WHEEL
                      /\ pc' > 3 /\ output'.full /\ output'.byte = ID_WHEEL => mouse'.id = ID_WHEEL
                      /\ pc' = AtId /\ answered' => output'.full
                      /\ has_scroll_wheel' => mouse'.id = ID_WHEEL
    BY DEF OnlyWheelSaysThree, AtId
  <2>1. reply \in Seq(Byte) /\ mouse_out \in Seq(Byte) /\ key_out \in Seq(Byte)
    BY DEF TypeInv, TypeOK
  <2>2. /\ ~Has(reply, ID_WHEEL) /\ ~Has(key_out, ID_WHEEL)
        /\ Has(mouse_out, ID_WHEEL) => mouse.id = ID_WHEEL
        /\ has_scroll_wheel => mouse.id = ID_WHEEL
    BY DEF ControllerReplies, MouseSends, KeyboardSends, deviceVars, Agreement, OnlyWheelSaysThree
  <2>3. CASE ControllerReplies
    <3>1. Head(reply) \in Byte /\ PutOutput(Head(reply), "controller") /\ reply # << >>
      BY <2>1, <2>3, HeadTail DEF ControllerReplies
    <3>2. output'.full /\ output'.byte = Head(reply)
      BY <3>1, PutFacts DEF Source
    <3>3. Head(reply) # ID_WHEEL /\ ~Has(Tail(reply), ID_WHEEL)
      BY <2>1, <2>2, <3>1, TailHas
    <3> QED BY <2>2, <2>3, <3>2, <3>3 DEF ControllerReplies, driverVars, localVars, deviceVars, Has
  <2>4. CASE MouseSends
    <3>1. Head(mouse_out) \in Byte /\ PutOutput(Head(mouse_out), "mouse") /\ mouse_out # << >>
      BY <2>1, <2>4, HeadTail DEF MouseSends
    <3>2. output'.full /\ output'.byte = Head(mouse_out)
      BY <3>1, PutFacts DEF Source
    <3>3. Head(mouse_out) = ID_WHEEL \/ Has(Tail(mouse_out), ID_WHEEL) => mouse.id = ID_WHEEL
      BY <2>1, <2>2, <3>1, TailHas
    <3> QED BY <2>2, <2>4, <3>2, <3>3 DEF MouseSends, driverVars, localVars, controllerVars, Has
  <2>5. CASE KeyboardSends
    <3>1. Head(key_out) \in Byte /\ PutOutput(Head(key_out), "keyboard") /\ key_out # << >>
      BY <2>1, <2>5, HeadTail DEF KeyboardSends
    <3>2. output'.full /\ output'.byte = Head(key_out)
      BY <3>1, PutFacts DEF Source
    <3>3. Head(key_out) # ID_WHEEL /\ ~Has(Tail(key_out), ID_WHEEL)
      BY <2>1, <2>2, <3>1, TailHas
    <3> QED BY <2>2, <2>5, <3>2, <3>3 DEF KeyboardSends, driverVars, localVars, controllerVars, Has
  <2> QED BY <2>3, <2>4, <2>5
<1> QED BY <1>1, <1>2 DEF Agreement

LEMMA ReadsAgreement == ASSUME TypeInv, Agreement, ControllerReads PROVE Agreement'
<1>1. /\ input.byte \in Byte /\ controller_config \in Byte /\ reply \in Seq(Byte)
      /\ key_out \in Seq(Byte) /\ pc \in Nat
  BY TypeFacts DEF TypeInv, TypeOK
<1>2. UNCHANGED <<driverVars, output, pressed, machine>> /\ input' = NoInput
  BY DEF ControllerReads
<1>3. ID_WHEEL \in Nat /\ ACK \in Byte /\ ACK # ID_WHEEL
  BY WrittenBytes DEF ID_WHEEL, ACK
<1>4. CASE input.port = COMMAND /\ Command(input.byte)
  <2>1. pc <= 9 => HasBit(controller_config', TRANSLATION)
    <3>1. MOUSE_CLOCK # TRANSLATION /\ KEYBOARD_CLOCK # TRANSLATION
      BY DEF MOUSE_CLOCK, KEYBOARD_CLOCK, TRANSLATION
    <3>2. pc <= 9 => HasBit(controller_config, TRANSLATION)
      BY DEF Agreement, ConfigAskedOnce
    <3> QED BY <1>1, <1>4, <3>1, <3>2, OneBit, NumbersOfBits DEF Command
  <2>2. input = [port |-> COMMAND, byte |-> input.byte]
    BY <1>4 DEF TypeInv, TypeOK
  <2>3. pc <= 9 => expecting' # "config"
    <3>1. pc <= 9 => input.byte # WRITE_CONFIG
      BY <1>1, <2>2 DEF Agreement, ConfigAskedOnce, Sent
    <3> QED BY <1>4, <3>1 DEF Command
  <2>4. ~Has(reply, ID_WHEEL) => ~Has(reply', ID_WHEEL)
    <3>1. CASE input.byte # READ_CONFIG
      BY <1>4, <3>1 DEF Command
    <3>2. CASE input.byte = READ_CONFIG
      <4>1. pc <= 9
        BY <2>2, <3>2 DEF Agreement, ConfigAskedOnce, Sent
      <4>2. HasBit(controller_config, TRANSLATION)
        BY <4>1 DEF Agreement, ConfigAskedOnce
      <4>3. controller_config # ID_WHEEL
        BY <1>1, <4>2, Powers, ByteIsNat DEF HasBit, ID_WHEEL
      <4>4. reply' = Append(reply, controller_config)
        BY <1>4, <3>2 DEF Command
      <4> QED BY <1>1, <4>3, <4>4 DEF Has
    <3> QED BY <3>1, <3>2
  <2>5. UNCHANGED <<mouse, mouse_out, key_out>>
    BY <1>4 DEF Command
  <2>6. ConfigAskedOnce'
    BY <1>2, <2>1, <2>3 DEF ConfigAskedOnce, Sent, NoInput, DATA, COMMAND, driverVars
  <2>7. OnlyWheelSaysThree'
    BY <1>2, <2>4, <2>5 DEF Agreement, OnlyWheelSaysThree, Has, driverVars, localVars
  <2>8. WheelMode'
    BY <1>2, <2>5 DEF Agreement, WheelMode
  <2> QED BY <2>6, <2>7, <2>8 DEF Agreement
<1>5. CASE input.port # COMMAND /\ Data(input.byte)
  <2>1. pc <= 9 => expecting # "config" /\ HasBit(controller_config, TRANSLATION)
    BY DEF Agreement, ConfigAskedOnce
  <2>2. ConfigAskedOnce'
    BY <1>2, <1>5, <2>1 DEF Data, ConfigAskedOnce, Sent, NoInput, DATA, COMMAND, driverVars
  <2>3. ~Has(key_out, ID_WHEEL) => ~Has(key_out', ID_WHEEL)
    <3>1. key_out' = key_out \/ key_out' = Append(key_out, ACK)
      BY <1>5 DEF Data
    <3> QED BY <1>1, <1>3, <3>1 DEF Has
  <2>4. /\ mouse'.id = mouse.id \/ (mouse'.id = ID_WHEEL /\ machine.kind = "wheel")
        /\ Has(mouse_out', ID_WHEEL) => Has(mouse_out, ID_WHEEL) \/ mouse.id = ID_WHEEL
    <3>1. CASE MouseTakes(input.byte)
      BY <1>1, <3>1, MouseFacts DEF Has
    <3>2. CASE UNCHANGED <<mouse, mouse_out>>
      BY <3>2
    <3> QED BY <1>5, <3>1, <3>2 DEF Data
  <2>5. WheelMode'
    BY <1>2, <2>4 DEF Agreement, WheelMode
  <2>6. reply' = reply
    BY <1>5 DEF Data
  <2>7. OnlyWheelSaysThree'
    BY <1>2, <2>3, <2>4, <2>6 DEF Agreement, OnlyWheelSaysThree, Has, driverVars, localVars
  <2> QED BY <2>2, <2>5, <2>7 DEF Agreement
<1> QED BY <1>4, <1>5 DEF ControllerReads

LEMMA AgreementNext == ASSUME TypeInv, Agreement, [Next]_vars PROVE Agreement'
<1>1. CASE UNCHANGED vars
  BY <1>1 DEF vars, driverVars, localVars, controllerVars, worldVars, deviceVars, Agreement,
              OnlyWheelSaysThree, ConfigAskedOnce, WheelMode, Has, Sent
<1>2. CASE Next
  BY <1>1, <1>2, OutAgreement, WaitAgreement, ReadAgreement, ConfigOutAgreement, CheckAckAgreement,
     RebootAgreement, SendsAgreement, PressAgreement, ReadsAgreement
     DEF Next, Driver, MouseInit, Hardware, Controller, Rest
<1> QED BY <1>1, <1>2

-----------------------------------------------------------------------------
(* The settings and the port, with a controller that reads at once *)

LEMMA ReadsAtOnce ==
  ASSUME machine.controller = "none", NEW last \in BOOLEAN, DevicesInTime(last)
  PROVE  input = NoInput /\ (reply = << >> \/ output.full)
BY DEF DevicesInTime, InTime, ControllerBusy

LEMMA ActionAt ==
  ASSUME MouseInit
  PROVE  /\ pc < Returned
         /\ Program[pc].op = "out" => Out
         /\ Program[pc].op = "wait_input" => WaitInputEmpty
         /\ Program[pc].op = "wait_output" => WaitOutputFull
         /\ Program[pc].op = "drop" => Drop
         /\ Program[pc].op = "config_in" => ConfigIn
         /\ Program[pc].op = "config_out" => ConfigOut
         /\ Program[pc].op = "ack" => CheckAck
         /\ Program[pc].op = "id" => CheckId
BY DEF MouseInit, Out, WaitInputEmpty, WaitOutputFull, Drop, ConfigIn, ConfigOut, CheckAck, CheckId, At

LEMMA OpeningActions ==
  ASSUME MouseInit
  PROVE  /\ pc \in {1, 2, 5, 9, 12, 13} => Out
         /\ pc \in {4, 8, 10} => WaitInputEmpty
         /\ pc \in {6, 62} => WaitOutputFull
         /\ pc = 3 => Drop
         /\ pc = 7 => ConfigIn
         /\ pc = 11 => ConfigOut
         /\ pc = 63 => CheckId
<1>1. /\ \A op : Do(op).op = op
      /\ \A port, byte : Outb(port, byte).op = "out"
  BY DEF Do, Outb
<1> QED BY <1>1, ActionAt, ProgramOpening

LEMMA CallActions ==
  ASSUME MouseInit, NEW n \in Calls
  PROVE  /\ pc \in {Start(n) + 1, Start(n) + 3} => Out
         /\ pc \in {Start(n), Start(n) + 2} => WaitInputEmpty
         /\ pc = Start(n) + 4 => WaitOutputFull
         /\ pc = Start(n) + 5 => CheckAck
BY ActionAt, CallOperations

LEMMA InitAtOnce == Init => AtOnce
<1> SUFFICES ASSUME Init PROVE AtOnce
  OBVIOUS
<1>1. Opening
  BY DEF Init, Opening
<1>2. Writing /\ Latched
  BY DEF Init, Writing, Latched
<1> QED BY <1>1, <1>2 DEF AtOnce

\* What one step of mouse_init() does.
LEMMA InitStep ==
  ASSUME TypeInv, MouseInit, machine.controller = "none"
  PROVE  /\ input = NoInput /\ (reply = << >> \/ output.full)
         /\ UNCHANGED <<expecting, controller_config, reply, worldVars>>
         /\ ~output'.full \/ output' = output
         /\ output'.byte = output.byte
         /\ output'.full => output.full
<1>1. input = NoInput /\ (reply = << >> \/ output.full)
  <2>1. DevicesInTime(FALSE) \/ DevicesInTime(polls + 1 >= PS2_TIMEOUT)
    BY DEF MouseInit, Out, WaitInputEmpty, WaitOutputFull, Drop, ConfigIn, ConfigOut, CheckAck, CheckId, Poll
  <2>2. (polls + 1 >= PS2_TIMEOUT) \in BOOLEAN
    BY TypeFacts
  <2> QED BY <2>1, <2>2, ReadsAtOnce
<1>2. UNCHANGED <<expecting, controller_config, reply, worldVars>>
  BY DEF MouseInit, Out, WaitInputEmpty, WaitOutputFull, Drop, ConfigIn, ConfigOut, CheckAck, CheckId,
         Poll, heldVars, controllerVars
<1>3. output' = output \/ ReadData
  BY DEF MouseInit, Out, WaitInputEmpty, WaitOutputFull, Drop, ConfigIn, ConfigOut, CheckAck, CheckId,
         Poll, heldVars, controllerVars, ReadAnswer
<1>4. /\ ~output'.full \/ output' = output
      /\ output'.byte = output.byte
      /\ output'.full => output.full
  BY <1>3, ReadFacts
<1> QED BY <1>1, <1>2, <1>4

LEMMA OpeningOut ==
  ASSUME TypeInv, Out, pc <= 13
  PROVE  /\ pc' = pc + 1 /\ UNCHANGED <<config, output>>
         /\ pc = 1 => Sent(DISABLE_MOUSE)'
         /\ pc = 2 => Sent(DISABLE_KEYBOARD)'
         /\ pc = 5 => Sent(READ_CONFIG)'
         /\ pc = 9 => Sent(WRITE_CONFIG)'
         /\ pc = 12 => Sent(ENABLE_KEYBOARD)'
         /\ pc = 13 => Sent(ENABLE_MOUSE)'
<1>1. OutWrites(pc, input') /\ pc' = pc + 1 /\ UNCHANGED <<config, output>>
  BY OutFacts, TypeFacts DEF localVars, heldVars
<1>2. \A n \in Calls : pc # Start(n) + 1 /\ pc # Start(n) + 3
  BY Starts, TypeFacts
<1> QED BY <1>1, <1>2 DEF OutWrites, Sent

\* The next place is reached: the waits go on.
LEMMA WaitStep ==
  ASSUME TypeInv, WaitInputEmpty \/ WaitOutputFull
  PROVE  (pc' = pc \/ pc' = pc + 1) /\ UNCHANGED <<config, input, output>>
<1>1. pc <= 69
  BY AtPlace DEF WaitInputEmpty, WaitOutputFull
<1>2. PICK ready \in BOOLEAN : Poll(ready)
  BY DEF WaitInputEmpty, WaitOutputFull, TypeInv, TypeOK
<1> QED BY <1>1, <1>2, PollFacts DEF controllerVars

LEMMA OpeningStep ==
  ASSUME TypeInv, MouseInit, machine.controller = "none", Opening, pc <= 13
  PROVE  Opening' /\ Writing'
<1>1. /\ input = NoInput /\ (reply = << >> \/ output.full)
      /\ UNCHANGED <<expecting, controller_config, reply>>
      /\ output'.byte = output.byte
      /\ output'.full => output.full
  BY InitStep
<1>2. pc \in 1 .. 13
  BY TypeFacts
<1>3. \A n \in Calls : Start(n) >= 14 /\ (Start(n) = 14 => n = 0) /\ Start(n) \in Nat /\ n \in Nat
  BY Starts DEF Start, Calls
<1>4. \A byte : ~Sent(byte)
  BY <1>1 DEF Sent, NoInput, COMMAND
<1>5. NoInput # [port |-> DATA, byte |-> MouseBack]
  BY DEF NoInput, DATA
<1>11. CASE pc = 1
  <2>1. pc' = 2 /\ Sent(DISABLE_MOUSE)'
    BY <1>11, OpeningActions, OpeningOut
  <2> QED BY <1>1, <1>3, <1>11, <2>1, Numbers DEF Opening, Writing, Changes
<1>12. CASE pc = 2
  <2>1. pc' = 3 /\ Sent(DISABLE_KEYBOARD)'
    BY <1>12, OpeningActions, OpeningOut
  <2> QED BY <1>1, <1>3, <1>4, <1>12, <2>1, Numbers DEF Opening, Writing, Changes
<1>13. CASE pc = 3
  <2>1. pc' = 4 /\ ~output'.full /\ input' = input
    BY <1>13, OpeningActions, ReadFacts DEF Drop, Goto, controllerVars
  <2> QED BY <1>1, <1>3, <1>4, <1>13, <2>1, Numbers DEF Opening, Writing, Changes
<1>14. CASE pc = 4 \/ pc = 8 \/ pc = 10
  <2>1. (pc' = pc \/ pc' = pc + 1) /\ UNCHANGED <<config, input, output>>
    BY <1>14, OpeningActions, WaitStep
  <2> QED BY <1>1, <1>3, <1>4, <1>14, <2>1, Numbers DEF Opening, Writing, Changes
<1>15. CASE pc = 5
  <2>1. pc' = 6 /\ Sent(READ_CONFIG)' /\ UNCHANGED output
    BY <1>15, OpeningActions, OpeningOut
  <2> QED BY <1>1, <1>3, <1>15, <2>1, Numbers DEF Opening, Writing, Changes
<1>16. CASE pc = 6
  <2>1. (pc' = 6 \/ pc' = 7) /\ UNCHANGED <<config, input, output>>
    BY <1>16, OpeningActions, WaitStep
  <2> QED BY <1>1, <1>3, <1>4, <1>16, <2>1, Numbers DEF Opening, Writing, Changes
<1>17. CASE pc = 7
  <2>1. pc' = 8 /\ ~output'.full /\ input' = input /\ config' = MouseBack
    <3>1. output.byte = BothOff
      BY <1>17 DEF Opening
    <3> QED BY <1>17, <3>1, OpeningActions, ReadFacts DEF ConfigIn, Goto, controllerVars, MouseBack
  <2> QED BY <1>1, <1>3, <1>4, <1>17, <2>1, Numbers DEF Opening, Writing, Changes
<1>18. CASE pc = 9
  <2>1. pc' = 10 /\ Sent(WRITE_CONFIG)' /\ UNCHANGED <<config, output>>
    BY <1>18, OpeningActions, OpeningOut
  <2> QED BY <1>1, <1>3, <1>18, <2>1, Numbers DEF Opening, Writing, Changes
<1>19. CASE pc = 11
  <2>1. pc' = 12 /\ input' = [port |-> DATA, byte |-> MouseBack]
    BY <1>19, OpeningActions DEF ConfigOut, Goto, WritePort, Opening
  <2> QED BY <1>1, <1>3, <1>19, <2>1, Numbers DEF Opening, Writing, Changes
<1>20. CASE pc = 12
  <2>1. pc' = 13 /\ Sent(ENABLE_KEYBOARD)'
    BY <1>20, OpeningActions, OpeningOut
  <2> QED BY <1>1, <1>3, <1>5, <1>20, <2>1, Numbers DEF Opening, Writing, Changes
<1>21. CASE pc = 13
  <2>1. pc' = 14 /\ Sent(ENABLE_MOUSE)'
    BY <1>21, OpeningActions, OpeningOut
  <2>2. controller_config = BothBack /\ expecting = "keyboard" /\ reply = << >>
    BY <1>4, <1>21 DEF Opening, Changes
  <2>3. Opening'
    BY <1>1, <2>1, <2>2 DEF Opening
  <2>4. \A n \in Calls : Start(n) = 14 => n = 0
    BY <1>3
  <2>5. Writing'
    BY <1>1, <1>3, <2>1, <2>2, Numbers DEF Writing
  <2> QED BY <2>3, <2>5
<1> QED BY <1>2, <1>11, <1>12, <1>13, <1>14, <1>15, <1>16, <1>17, <1>18, <1>19, <1>20, <1>21

\* After a step that writes nothing, with the place that is reached.
LEMMA WritingQuiet ==
  ASSUME TypeInv, TypeInv', Writing, pc >= 14, pc' \in Nat, pc' >= 14, input' = NoInput,
         UNCHANGED <<controller_config, expecting>>,
         \A n \in Calls : pc' = Start(n) + 2 \/ pc' = Start(n) + 3 => expecting = "mouse"
  PROVE  Writing'
<1>1. controller_config' = BothBack /\ expecting' # "config"
  BY DEF Writing
<1>2. ASSUME NEW n \in Calls
      PROVE  /\ pc' = Start(n) /\ n > 0 => input' = NoInput
             /\ pc' \in {Start(n) + 1, Start(n) + 3, Start(n) + 5} => input' = NoInput
             /\ pc' = Start(n) + 2 => \/ Sent(WRITE_TO_MOUSE)'
                                      \/ input' = NoInput /\ expecting' = "mouse"
             /\ pc' = Start(n) + 3 => expecting' = "mouse"
             /\ pc' = Start(n) + 4 => \/ input' = [port |-> DATA, byte |-> Written(n)]
                                           /\ expecting' = "mouse"
                                      \/ input' = NoInput
  OBVIOUS
<1> QED BY <1>1, <1>2, Numbers DEF Writing, BothBack, MouseBack, BothOff, MouseOff, Returned, RebootWait, RebootWrite,
                                   Rebooted, AtId

LEMMA WritingStep ==
  ASSUME TypeInv, MouseInit, machine.controller = "none", Writing, pc >= 14
  PROVE  Writing' /\ pc' >= 14
<1>1. input = NoInput /\ UNCHANGED <<expecting, controller_config, reply>>
  BY InitStep
<1>2. pc \in Nat /\ pc < 70 /\ TypeInv'
  BY TypeFacts, Numbers, TypeNext, ActionAt DEF Next, Driver
<1>3. NoInput # [port |-> DATA, byte |-> 0] /\ \A byte : ~Sent(byte)
  BY <1>1 DEF NoInput, DATA, Sent, COMMAND
<1>4. CASE pc = 62 \/ pc = 63
  <2>1. (pc' = pc \/ pc' = pc + 1) /\ input' = input
    <3>1. pc = 62 => (pc' = pc \/ pc' = pc + 1) /\ input' = input
      BY OpeningActions, WaitStep
    <3>2. pc = 63 => pc' = pc + 1 /\ input' = input
      BY OpeningActions DEF CheckId, Goto, controllerVars
    <3> QED BY <1>4, <3>1, <3>2
  <2>2. \A n \in Calls : pc' # Start(n) + 2 /\ pc' # Start(n) + 3
    BY <1>4, <2>1 DEF Start, Calls
  <2> QED BY <1>1, <1>2, <1>4, <2>1, <2>2, WritingQuiet
<1>5. CASE ~(pc = 62 \/ pc = 63)
  <2>1. PICK n \in Calls : pc \in {Start(n), Start(n) + 1, Start(n) + 2, Start(n) + 3,
                                   Start(n) + 4, Start(n) + 5}
    BY <1>2, <1>5, Places
  <2>2. pc = Start(n) + 2 \/ pc = Start(n) + 3 => expecting = "mouse"
    BY <1>1, <1>3 DEF Writing
  <2>3. CASE pc \in {Start(n), Start(n) + 2, Start(n) + 4}
    <3>1. (pc' = pc \/ pc' = pc + 1) /\ input' = input
      BY <2>3, CallActions, WaitStep
    <3>2. \A m \in Calls : pc' = Start(m) + 2 \/ pc' = Start(m) + 3 => expecting = "mouse"
      BY <2>2, <2>3, <3>1 DEF Start, Calls
    <3> QED BY <1>1, <1>2, <3>1, <3>2, WritingQuiet
  <2>4. CASE pc = Start(n) + 5
    <3>1. \E m \in Calls : /\ pc = Start(m) + 5
                           /\ pc' = Start(m) \/ pc' = pc + 1 \/ pc' = Returned
      BY <2>4, CallActions, AckFacts
    <3>2. input' = input
      BY <2>4, CallActions DEF CheckAck, controllerVars
    <3>3. pc' \in Nat /\ pc' >= 14 /\ \A m \in Calls : pc' # Start(m) + 2 /\ pc' # Start(m) + 3
      BY <3>1, Numbers DEF Start, Calls
    <3> QED BY <1>1, <1>2, <3>2, <3>3, WritingQuiet
  <2>5. CASE pc \in {Start(n) + 1, Start(n) + 3}
    <3>1. OutWrites(pc, input') /\ pc' = pc + 1
      BY <2>5, CallActions, OutFacts, TypeFacts
    <3>2. /\ pc = Start(n) + 1 => Sent(WRITE_TO_MOUSE)'
          /\ pc = Start(n) + 3 => input' = [port |-> DATA, byte |-> Written(n)]
      <4>1. \A m \in Calls : /\ pc = Start(m) + 1 => pc = Start(n) + 1
                             /\ pc = Start(m) + 3 => pc = Start(n) + 3 /\ m = n
        BY <2>5 DEF Start, Calls
      <4>2. pc >= 14
        OBVIOUS
      <4> QED BY <2>5, <3>1, <4>1, <4>2, <1>2, Starts DEF OutWrites, Sent
    <3>3. controller_config' = BothBack /\ expecting' # "config"
      BY <1>1 DEF Writing
    <3>4. pc' = Start(n) + 2 \/ pc' = Start(n) + 4
      BY <2>5, <3>1, Starts
    <3>5. /\ pc' >= 14 /\ pc' # 14
          /\ pc' \notin {AtId - 1, AtId, Returned, RebootWait, RebootWrite, Rebooted}
      BY <3>4, Numbers DEF Start, Calls
    <3>6. ASSUME NEW m \in Calls
          PROVE  /\ pc' # Start(m) /\ pc' \notin {Start(m) + 1, Start(m) + 3, Start(m) + 5}
                 /\ pc' = Start(m) + 2 => Sent(WRITE_TO_MOUSE)'
                 /\ pc' = Start(m) + 4 => /\ input' = [port |-> DATA, byte |-> Written(m)]
                                          /\ expecting' = "mouse"
      <4>1. pc' # Start(m) /\ pc' \notin {Start(m) + 1, Start(m) + 3, Start(m) + 5}
        BY <3>4 DEF Start, Calls
      <4>2. pc' = Start(m) + 2 => pc = Start(n) + 1
        BY <3>1, <2>5 DEF Start, Calls
      <4>3. pc' = Start(m) + 4 => pc = Start(n) + 3 /\ n = m
        BY <3>1, <2>5 DEF Start, Calls
      <4> QED BY <4>1, <4>2, <4>3, <3>2, <1>1, <2>2
    <3>7. Writing'
      BY <3>3, <3>5, <3>6 DEF Writing, BothBack, MouseBack, BothOff, MouseOff, Returned, RebootWait,
                              RebootWrite, Rebooted, AtId
    <3> QED BY <3>5, <3>7
  <2> QED BY <2>1, <2>3, <2>4, <2>5
<1> QED BY <1>4, <1>5

LEMMA LatchedStep ==
  ASSUME TypeInv, MouseInit, machine.controller = "none", Latched
  PROVE  Latched'
<1>1. /\ UNCHANGED worldVars
      /\ ~output'.full \/ output' = output
      /\ output'.full => output.full
  BY InitStep
<1>2. UNCHANGED <<requested, key_out, pressed>>
  BY <1>1 DEF worldVars, deviceVars
<1>3. pc' >= 8 => pc >= 8 \/ ~output'.full
  <2>1. pc \in Nat /\ 1 <= pc
    BY TypeFacts
  <2>2. pc \in {1, 2, 5} => pc' = pc + 1
    BY OpeningActions, OpeningOut
  <2>3. pc \in {4, 6} => pc' = pc \/ pc' = pc + 1
    BY OpeningActions, WaitStep
  <2>4. pc = 3 => pc' = pc + 1
    BY OpeningActions DEF Drop, Goto
  <2>5. pc = 7 => ~output'.full
    BY OpeningActions, ReadFacts DEF ConfigIn
  <2> QED BY <2>1, <2>2, <2>3, <2>4, <2>5
<1> QED BY <1>1, <1>2, <1>3 DEF Latched

LEMMA InitAtOnceStep ==
  ASSUME TypeInv, AtOnce, MouseInit
  PROVE  AtOnce'
<1> SUFFICES ASSUME machine'.controller = "none" PROVE Opening' /\ Writing' /\ Latched'
  BY DEF AtOnce
<1>1. machine.controller = "none"
  BY DEF MouseInit, Out, WaitInputEmpty, WaitOutputFull, Drop, ConfigIn, ConfigOut, CheckAck, CheckId,
         Poll, worldVars, deviceVars
<1>2. Opening /\ Writing /\ Latched /\ pc \in Nat
  BY <1>1, TypeFacts DEF AtOnce
<1>3. Latched'
  BY <1>1, <1>2, LatchedStep
<1>4. CASE pc <= 13
  BY <1>1, <1>2, <1>3, <1>4, OpeningStep
<1>5. CASE pc >= 14
  <2>1. Writing' /\ pc' >= 14
    BY <1>1, <1>2, <1>5, WritingStep
  <2>2. pc' \in Nat /\ reply' = reply /\ reply = << >>
    <3>1. TypeInv'
      BY TypeNext DEF Next, Driver
    <3>2. pc' \in Nat
      BY <3>1 DEF TypeInv, TypeOK
    <3> QED BY <1>1, <1>2, <1>5, <3>2, InitStep DEF Opening
  <2>3. Opening'
    BY <2>1, <2>2 DEF Opening, BothBack, MouseBack, BothOff, MouseOff
  <2> QED BY <1>3, <2>1, <2>3
<1> QED BY <1>2, <1>4, <1>5

LEMMA RebootAtOnce ==
  ASSUME TypeInv, AtOnce, RebootStart \/ Reboot
  PROVE  AtOnce'
<1> SUFFICES ASSUME machine'.controller = "none" PROVE Opening' /\ Writing' /\ Latched'
  BY DEF AtOnce
<1>1. /\ pc \in {70, 71, 72} /\ pc' \in {71, 72, 73}
      /\ pc' = 73 => Sent(REBOOT)'
      /\ pc' # 73 => input' = input
  BY Numbers DEF RebootStart, Reboot, RebootPoll, RebootCommand, Goto, WritePort, Sent, controllerVars
<1>2. UNCHANGED <<heldVars, worldVars>>
  BY DEF RebootStart, Reboot, RebootPoll, RebootCommand, heldVars, controllerVars
<1>3. UNCHANGED <<expecting, controller_config, reply, output, requested, key_out, pressed, machine>>
  BY <1>2 DEF heldVars, worldVars, deviceVars
<1>4. Opening /\ Writing /\ Latched
  BY <1>3 DEF AtOnce
<1>5. Latched'
  BY <1>1, <1>3, <1>4 DEF Latched
<1>6. Opening'
  BY <1>1, <1>3, <1>4 DEF Opening, BothBack, MouseBack, BothOff, MouseOff
<1>7. \A n \in Calls : Start(n) + 5 < 70 /\ Start(n) \in Nat
  BY DEF Start, Calls
<1>8. controller_config' = BothBack' /\ expecting' # "config"
  BY <1>1, <1>3, <1>4 DEF Writing, BothBack, MouseBack, BothOff, MouseOff
<1>9. pc' # 73 => input' = NoInput
  BY <1>1, <1>4, Numbers DEF Writing
<1>10. Writing'
  BY <1>1, <1>7, <1>8, <1>9, Numbers DEF Writing, Returned, RebootWait, RebootWrite, Rebooted, AtId
<1> QED BY <1>5, <1>6, <1>10

LEMMA PressAtOnce == ASSUME TypeInv, AtOnce, PressKey PROVE AtOnce'
<1>1. pressed' # 0
  BY DEF PressKey, TypeInv
<1>2. UNCHANGED <<pc, config, controllerVars, output, requested, machine>>
  BY DEF PressKey, driverVars, localVars
<1> QED BY <1>1, <1>2
        DEF AtOnce, Opening, Writing, Latched, Changes, Sent, controllerVars, BothBack, MouseBack,
            BothOff, MouseOff, Returned, RebootWait, RebootWrite, Rebooted, AtId

\* The configuration from the time both devices are off.
LEMMA ConfigNow ==
  ASSUME Opening, Writing, pc \in Nat, pc >= 4
  PROVE  /\ controller_config \in {BothOff, MouseBack, BothBack}
         /\ pc <= 11 => controller_config = BothOff
<1>1. CASE pc <= 11
  BY <1>1 DEF Opening
<1>2. CASE pc = 12 \/ pc = 13
  BY <1>2 DEF Opening, Changes
<1>3. CASE pc >= 14
  BY <1>3 DEF Writing
<1> QED BY <1>1, <1>2, <1>3

LEMMA DeviceAtOnce ==
  ASSUME TypeInv, AtOnce, NEW byte, NEW source \in {"mouse", "keyboard"},
         PutOutput(byte, source), Enabled(source),
         UNCHANGED <<driverVars, controllerVars, pressed, machine>>,
         pressed = 0 => source = "mouse" /\ key_out' = << >>
  PROVE  AtOnce'
<1> SUFFICES ASSUME machine'.controller = "none" PROVE Opening' /\ Writing' /\ Latched'
  BY DEF AtOnce
<1>1. Opening /\ Writing /\ Latched /\ pc \in Nat
  BY TypeFacts DEF AtOnce
<1>2. UNCHANGED <<pc, config, input, expecting, controller_config, reply>>
  BY DEF driverVars, localVars, controllerVars
<1>3. Writing'
  BY <1>1, <1>2 DEF Writing, Sent, BothBack, MouseBack, BothOff, MouseOff, Returned, RebootWait,
                    RebootWrite, Rebooted, AtId
<1>4. pc < 4 \/ pc > 11
  BY <1>1, ConfigNow, Configs DEF Enabled
<1>5. Opening'
  BY <1>1, <1>2, <1>4 DEF Opening, Changes, Sent, BothBack, MouseBack, BothOff, MouseOff
<1>6. Latched'
  <2>1. pc >= 8 => Irq(source) \in requested'
    BY <1>1, ConfigNow, Configs DEF Enabled, PutOutput
  <2>2. output'.from = source /\ output'.full
    BY DEF PutOutput
  <2>3. pressed = 0 => 1 \notin requested'
    BY <1>1 DEF Latched, PutOutput, Irq
  <2> QED BY <1>2, <2>1, <2>2, <2>3 DEF Latched
<1> QED BY <1>3, <1>5, <1>6

LEMMA RepliesAtOnce == ASSUME TypeInv, AtOnce, ControllerReplies PROVE AtOnce'
<1> SUFFICES ASSUME machine'.controller = "none" PROVE Opening' /\ Writing' /\ Latched'
  BY DEF AtOnce
<1>1. /\ UNCHANGED <<driverVars, input, expecting, controller_config, deviceVars>>
      /\ reply # << >> /\ PutOutput(Head(reply), "controller") /\ reply' = Tail(reply)
  BY DEF ControllerReplies
<1>2. UNCHANGED <<pc, config, input, expecting, controller_config, key_out, pressed, machine>>
  BY <1>1 DEF driverVars, localVars, deviceVars
<1>3. Opening /\ Writing /\ Latched
  BY <1>2 DEF AtOnce
<1>4. /\ pc = 6 /\ input = NoInput /\ reply = <<BothOff>> /\ controller_config = BothOff
      /\ expecting = "keyboard"
  BY <1>1, <1>3 DEF Opening, Sent, NoInput, COMMAND
<1>5. Head(reply) = BothOff /\ Tail(reply) = << >>
  BY <1>4
<1>6. output'.full /\ output'.byte = BothOff
  BY <1>1, <1>5 DEF PutOutput
<1>7. Opening'
  BY <1>1, <1>2, <1>4, <1>5, <1>6 DEF Opening, Sent, BothBack, MouseBack, BothOff, MouseOff
<1>8. Writing'
  BY <1>2, <1>4 DEF Writing
<1>9. requested' = requested
  BY <1>1, <1>4, Configs DEF PutOutput, Enabled
<1>10. Latched'
  BY <1>2, <1>3, <1>4, <1>9 DEF Latched
<1> QED BY <1>7, <1>8, <1>10

LEMMA SendsAtOnce ==
  ASSUME TypeInv, AtOnce, MouseSends \/ KeyboardSends
  PROVE  AtOnce'
<1>1. CASE machine'.controller # "none"
  BY <1>1 DEF AtOnce
<1>2. CASE machine'.controller = "none"
  <2>1. Latched /\ UNCHANGED <<driverVars, controllerVars, pressed, machine>>
    BY <1>2 DEF MouseSends, KeyboardSends, AtOnce
  <2>2. CASE MouseSends
    BY <2>1, <2>2, DeviceAtOnce DEF MouseSends, Latched
  <2>3. CASE KeyboardSends
    BY <2>1, <2>3, DeviceAtOnce DEF KeyboardSends, Latched
  <2> QED BY <2>2, <2>3
<1> QED BY <1>1, <1>2

LEMMA CommandNumbers ==
  /\ DISABLE_MOUSE \notin {ENABLE_MOUSE, DISABLE_KEYBOARD, ENABLE_KEYBOARD, READ_CONFIG, WRITE_CONFIG, WRITE_TO_MOUSE, REBOOT}
  /\ ENABLE_MOUSE \notin {DISABLE_KEYBOARD, ENABLE_KEYBOARD, READ_CONFIG, WRITE_CONFIG, WRITE_TO_MOUSE, REBOOT}
  /\ DISABLE_KEYBOARD \notin {ENABLE_KEYBOARD, READ_CONFIG, WRITE_CONFIG, WRITE_TO_MOUSE, REBOOT}
  /\ ENABLE_KEYBOARD \notin {READ_CONFIG, WRITE_CONFIG, WRITE_TO_MOUSE, REBOOT}
  /\ READ_CONFIG \notin {WRITE_CONFIG, WRITE_TO_MOUSE, REBOOT}
  /\ WRITE_CONFIG \notin {WRITE_TO_MOUSE, REBOOT}
  /\ WRITE_TO_MOUSE # REBOOT
BY DEF DISABLE_MOUSE, ENABLE_MOUSE, DISABLE_KEYBOARD, ENABLE_KEYBOARD, READ_CONFIG, WRITE_CONFIG,
       WRITE_TO_MOUSE, REBOOT

\* The controller reads a command.
LEMMA ReadsCommand ==
  ASSUME TypeInv, ControllerReads, NEW byte, Sent(byte)
  PROVE  /\ input' = NoInput
         /\ UNCHANGED <<pc, config, output, requested, pressed, key_out>>
         /\ byte = DISABLE_MOUSE => controller_config' = SetBit(controller_config, MOUSE_CLOCK)
         /\ byte = ENABLE_MOUSE => controller_config' = ClearBit(controller_config, MOUSE_CLOCK)
         /\ byte = DISABLE_KEYBOARD => controller_config' = SetBit(controller_config, KEYBOARD_CLOCK)
         /\ byte = ENABLE_KEYBOARD => controller_config' = ClearBit(controller_config, KEYBOARD_CLOCK)
         /\ byte \in {READ_CONFIG, WRITE_CONFIG, WRITE_TO_MOUSE, REBOOT} => UNCHANGED controller_config
         /\ byte = WRITE_CONFIG => expecting' = "config"
         /\ byte = WRITE_TO_MOUSE => expecting' = "mouse"
         /\ byte \notin {WRITE_CONFIG, WRITE_TO_MOUSE} => expecting' = "keyboard"
         /\ byte = READ_CONFIG => reply' = Append(reply, controller_config)
         /\ byte # READ_CONFIG => UNCHANGED reply
<1>1. /\ Command(byte) /\ input' = NoInput
      /\ UNCHANGED <<driverVars, output, pressed, requested, machine>>
  BY DEF ControllerReads, Sent
<1>2. UNCHANGED <<pc, config, output, requested, pressed, key_out>>
  BY <1>1 DEF Command, driverVars, localVars
<1> QED BY <1>1, <1>2, CommandNumbers DEF Command

LEMMA ReadsData ==
  ASSUME TypeInv, ControllerReads, input.port = DATA
  PROVE  /\ input' = NoInput
         /\ UNCHANGED <<pc, config, output, requested, pressed, reply>>
         /\ expecting = "config" => controller_config' = input.byte
         /\ expecting # "config" => UNCHANGED controller_config
         /\ expecting' = "keyboard"
         /\ expecting # "keyboard" => UNCHANGED key_out
BY DEF ControllerReads, Data, DATA, COMMAND, driverVars, localVars

LEMMA ReadsOpening ==
  ASSUME TypeInv, ControllerReads, Opening, pc <= 13
  PROVE  Opening' /\ Writing' /\ UNCHANGED <<output, requested, pressed, key_out>> /\ pc' = pc
<1>1. pc \in 1 .. 13 /\ input # NoInput
  BY TypeFacts DEF ControllerReads
<1>2. pc \in {2, 3, 6, 10, 12, 13}
  BY <1>1 DEF Opening
<1> SUFFICES Opening' /\ UNCHANGED <<output, requested, pressed, key_out>> /\ pc' = pc
  BY <1>1 DEF Writing
<1> USE <1>1 DEF Changes
<1>3. CASE pc = 2
  <2>1. Sent(DISABLE_MOUSE) /\ controller_config = BootConfig /\ expecting = "keyboard" /\ reply = << >>
    BY <1>3 DEF Opening
  <2>2. /\ input' = NoInput /\ controller_config' = MouseOff /\ expecting' = "keyboard" /\ reply' = << >>
        /\ UNCHANGED <<pc, config, output, requested, pressed, key_out>>
    BY <2>1, ReadsCommand, CommandNumbers DEF MouseOff
  <2> QED BY <1>3, <2>2 DEF Opening, MouseOff
<1>4. CASE pc = 3
  <2>1. Sent(DISABLE_KEYBOARD) /\ controller_config = MouseOff /\ expecting = "keyboard" /\ reply = << >>
    BY <1>4 DEF Opening
  <2>2. /\ input' = NoInput /\ controller_config' = BothOff /\ expecting' = "keyboard" /\ reply' = << >>
        /\ UNCHANGED <<pc, config, output, requested, pressed, key_out>>
    BY <2>1, ReadsCommand, CommandNumbers DEF BothOff
  <2> QED BY <1>4, <2>2 DEF Opening, BothOff, MouseOff
<1>5. CASE pc = 6
  <2>1. Sent(READ_CONFIG) /\ controller_config = BothOff /\ expecting = "keyboard" /\ reply = << >> /\ ~output.full
    BY <1>5 DEF Opening
  <2>2. /\ input' = NoInput /\ controller_config' = BothOff /\ expecting' = "keyboard"
        /\ reply' = <<BothOff>>
        /\ UNCHANGED <<pc, config, output, requested, pressed, key_out>>
    BY <2>1, ReadsCommand, CommandNumbers
  <2> QED BY <1>5, <2>1, <2>2 DEF Opening, BothOff, MouseOff
<1>6. CASE pc = 10
  <2>1. Sent(WRITE_CONFIG) /\ controller_config = BothOff /\ reply = << >> /\ ~output.full /\ config = MouseBack
    BY <1>6 DEF Opening
  <2>2. /\ input' = NoInput /\ controller_config' = BothOff /\ expecting' = "config" /\ reply' = << >>
        /\ UNCHANGED <<pc, config, output, requested, pressed, key_out>>
    BY <2>1, ReadsCommand, CommandNumbers
  <2> QED BY <1>6, <2>1, <2>2 DEF Opening, BothOff, MouseOff, MouseBack
<1>7. CASE pc = 12
  <2>1. input = [port |-> DATA, byte |-> MouseBack] /\ expecting = "config" /\ reply = << >>
    BY <1>7 DEF Opening
  <2>2. /\ input' = NoInput /\ controller_config' = MouseBack /\ expecting' = "keyboard" /\ reply' = << >>
        /\ UNCHANGED <<pc, config, output, requested, pressed, key_out>>
    BY <2>1, ReadsData
  <2> QED BY <1>7, <2>1, <2>2 DEF Opening, BothOff, MouseOff, MouseBack
<1>8. CASE pc = 13
  <2>1. Sent(ENABLE_KEYBOARD) /\ controller_config = MouseBack /\ expecting = "keyboard" /\ reply = << >>
    BY <1>8 DEF Opening
  <2>2. /\ input' = NoInput /\ controller_config' = BothBack /\ expecting' = "keyboard" /\ reply' = << >>
        /\ UNCHANGED <<pc, config, output, requested, pressed, key_out>>
    BY <2>1, ReadsCommand, CommandNumbers DEF BothBack
  <2> QED BY <1>8, <2>2 DEF Opening, BothBack, BothOff, MouseOff, MouseBack
<1> QED BY <1>2, <1>3, <1>4, <1>5, <1>6, <1>7, <1>8

LEMMA ReadsWriting ==
  ASSUME TypeInv, ControllerReads, Opening, Writing, pc >= 14
  PROVE  Opening' /\ Writing' /\ UNCHANGED <<output, requested, pressed, key_out>> /\ pc' = pc
<1>1. pc \in Nat /\ input # NoInput /\ input' = NoInput /\ pc <= 73
  BY TypeFacts DEF ControllerReads
<1>2. reply = << >> /\ controller_config = BothBack /\ expecting # "config"
  BY <1>1 DEF Opening, Writing
<1>3. \/ pc = 14 /\ Sent(ENABLE_MOUSE)
      \/ pc = 73 /\ Sent(REBOOT)
      \/ \E n \in Calls : pc = Start(n) + 2 /\ Sent(WRITE_TO_MOUSE)
      \/ \E n \in Calls : /\ pc = Start(n) + 4 /\ input = [port |-> DATA, byte |-> Written(n)]
                          /\ expecting = "mouse"
  <2>1. CASE pc \in {62, 63, 70, 71, 72, 73}
    BY <1>1, <2>1, Numbers DEF Writing
  <2>2. CASE pc \notin {62, 63, 70, 71, 72, 73}
    <3>1. PICK n \in Calls : pc \in {Start(n), Start(n) + 1, Start(n) + 2, Start(n) + 3,
                                     Start(n) + 4, Start(n) + 5}
      BY <1>1, <2>2, Places
    <3>2. Start(n) \in Nat /\ n \in Nat /\ (pc = Start(n) /\ n = 0 => pc = 14)
      BY Starts DEF Start
    <3> QED BY <1>1, <3>1, <3>2 DEF Writing
  <2> QED BY <2>1, <2>2
<1>4. /\ controller_config' = BothBack /\ expecting' \in {"keyboard", "mouse"} /\ reply' = << >>
      /\ UNCHANGED <<pc, output, requested, pressed, key_out>>
      /\ \A n \in Calls : pc = Start(n) + 2 => expecting' = "mouse"
  <2>1. CASE pc = 14 /\ Sent(ENABLE_MOUSE)
    <3>1. \A n \in Calls : pc # Start(n) + 2
      BY <2>1 DEF Start, Calls
    <3> QED BY <1>2, <2>1, <3>1, ReadsCommand, CommandNumbers, Configs
  <2>2. CASE pc = 73 /\ Sent(REBOOT)
    <3>1. \A n \in Calls : pc # Start(n) + 2
      BY <2>2 DEF Start, Calls
    <3> QED BY <1>2, <2>2, <3>1, ReadsCommand, CommandNumbers
  <2>3. ASSUME NEW n \in Calls, pc = Start(n) + 2, Sent(WRITE_TO_MOUSE)
        PROVE  /\ controller_config' = BothBack /\ expecting' = "mouse" /\ reply' = << >>
               /\ UNCHANGED <<pc, output, requested, pressed, key_out>>
    BY <1>2, <2>3, ReadsCommand, CommandNumbers
  <2>4. ASSUME NEW n \in Calls, pc = Start(n) + 4, input = [port |-> DATA, byte |-> Written(n)],
               expecting = "mouse"
        PROVE  /\ controller_config' = BothBack /\ expecting' = "keyboard" /\ reply' = << >>
               /\ UNCHANGED <<pc, output, requested, pressed, key_out>>
               /\ \A m \in Calls : pc # Start(m) + 2
    <3>1. \A m \in Calls : pc # Start(m) + 2
      BY <2>4 DEF Start, Calls
    <3>2. input.port = DATA
      BY <2>4
    <3> QED BY <1>2, <2>4, <3>1, <3>2, ReadsData
  <2> QED BY <1>3, <2>1, <2>2, <2>3, <2>4
<1>5. \A n \in Calls : pc = Start(n) + 3 => expecting' = "mouse"
  <2> SUFFICES ASSUME NEW n \in Calls, pc = Start(n) + 3 PROVE FALSE
    OBVIOUS
  <2>1. input = NoInput
    BY DEF Writing
  <2> QED BY <1>1, <2>1
<1>6. Opening'
  BY <1>1, <1>2, <1>4 DEF Opening
<1>7. TypeInv'
  BY ReadsType
<1>8. Writing'
  <2>1. UNCHANGED <<controller_config, pc>> /\ expecting' # "config" /\ controller_config' = BothBack'
    BY <1>2, <1>4 DEF BothBack, MouseBack, BothOff, MouseOff
  <2>2. ASSUME NEW n \in Calls
        PROVE  /\ pc' = Start(n) + 2 => expecting' = "mouse"
               /\ pc' = Start(n) + 3 => expecting' = "mouse"
    BY <1>4, <1>5
  <2> QED BY <1>1, <2>1, <2>2 DEF Writing
<1> QED BY <1>4, <1>6, <1>8

LEMMA ReadsAtOnceStep == ASSUME TypeInv, AtOnce, ControllerReads PROVE AtOnce'
<1> SUFFICES ASSUME machine'.controller = "none" PROVE Opening' /\ Writing' /\ Latched'
  BY DEF AtOnce
<1>1. Opening /\ Writing /\ Latched /\ pc \in Nat
  BY TypeFacts DEF AtOnce, ControllerReads
<1>2. Opening' /\ Writing' /\ UNCHANGED <<output, requested, pressed, key_out>> /\ pc' = pc
  BY <1>1, ReadsOpening, ReadsWriting
<1>3. Latched'
  BY <1>1, <1>2 DEF Latched
<1> QED BY <1>2, <1>3

LEMMA AtOnceNext == ASSUME TypeInv, AtOnce, [Next]_vars PROVE AtOnce'
<1>1. CASE UNCHANGED vars
  BY <1>1 DEF vars, driverVars, localVars, controllerVars, worldVars, deviceVars, AtOnce, Opening,
              Writing, Latched, Changes, Sent, BothBack, MouseBack, BothOff, MouseOff, Returned,
              RebootWait, RebootWrite, Rebooted, AtId
<1>2. CASE Next
  BY <1>1, <1>2, InitAtOnceStep, RebootAtOnce, RepliesAtOnce, SendsAtOnce, PressAtOnce, ReadsAtOnceStep
     DEF Next, Driver, Hardware, Controller, Rest
<1> QED BY <1>1, <1>2

-----------------------------------------------------------------------------
(* The wheel is found *)

LEMMA ThreeElements ==
  ASSUME NEW S, NEW r \in Seq(S), Len(r) = 3
  PROVE  r = <<r[1], r[2], r[3]>>
OBVIOUS

\* The mouse remembers the last three rates.
LEMMA NextRates ==
  ASSUME NEW a \in Byte, NEW b \in Byte, NEW c \in Byte, NEW e \in Byte, mouse.rates = <<a, b, c>>
  PROVE  RatesWith(e) = <<b, c, e>>
<1>1. /\ mouse.rates \in Seq(Byte) /\ Len(mouse.rates) = 3
      /\ mouse.rates[2] = b /\ mouse.rates[3] = c
  OBVIOUS
<1>2. PICK r : r = RatesWith(e)
  OBVIOUS
<1>3. r \in Seq(Byte) /\ Len(r) = 3 /\ r[1] = mouse.rates[2] /\ r[2] = mouse.rates[3] /\ r[3] = e
  <2>1. PICK s \in Seq(Byte) : s = mouse.rates
    BY <1>1
  <2>2. Len(s) = 3 /\ r = SubSeq(Append(s, e), Len(s) - 1, Len(s) + 1)
    BY <1>1, <1>2, <2>1 DEF RatesWith
  <2> HIDE <1>1
  <2>3. r \in Seq(Byte) /\ Len(r) = 3 /\ r[1] = s[2] /\ r[2] = s[3] /\ r[3] = e
    <3>1. PICK t : t = Append(s, e)
      OBVIOUS
    <3>2. t \in Seq(Byte) /\ Len(t) = 4 /\ t[4] = e /\ t[2] = s[2] /\ t[3] = s[3]
      BY <2>2, <3>1, Appended
    <3>3. r = SubSeq(t, 2, 4)
      BY <2>2, <3>1
    <3> QED BY <3>2, <3>3, LastThree
  <2> QED BY <2>1, <2>3
<1>4. r = <<b, c, e>>
  BY <1>1, <1>3, ThreeElements
<1> QED BY <1>2, <1>4

\* A mouse that waits for a rate.
LEMMA TakesRate ==
  ASSUME NEW byte, MouseTakes(byte), mouse_out = << >>, machine.kind = "wheel",
         NEW old, NEW new, NEW id, new = RatesWith(byte),
         id = IF new = <<200, 100, 80>> THEN ID_WHEEL ELSE 0,
         mouse = [id |-> 0, rates |-> old, argument |-> TRUE, reporting |-> FALSE]
  PROVE  /\ mouse' = [id |-> id, rates |-> new, argument |-> FALSE, reporting |-> FALSE]
         /\ mouse_out' = <<ACK>>
<1>1. mouse.argument /\ mouse.id = 0
  OBVIOUS
<1>2. /\ mouse' = [mouse EXCEPT !.argument = FALSE, !.rates = new, !.id = id]
      /\ mouse_out' = Append(mouse_out, ACK)
  BY <1>1 DEF MouseTakes
<1>3. mouse' = [id |-> id, rates |-> new, argument |-> FALSE, reporting |-> FALSE]
  BY <1>2
<1>4. mouse_out' = <<ACK>>
  BY <1>2
<1> QED BY <1>3, <1>4

\* A mouse that waits for a command.
LEMMA TakesCommand ==
  ASSUME NEW byte, MouseTakes(byte), mouse_out = << >>, NEW id, NEW rates,
         mouse = [id |-> id, rates |-> rates, argument |-> FALSE, reporting |-> FALSE],
         byte \in {SET_DEFAULTS, SET_SAMPLE_RATE, GET_ID, ENABLE_DATA}
  PROVE  /\ byte \in {SET_DEFAULTS, GET_ID} =>
              mouse' = [id |-> id, rates |-> rates, argument |-> FALSE, reporting |-> FALSE]
         /\ byte = SET_SAMPLE_RATE =>
              mouse' = [id |-> id, rates |-> rates, argument |-> TRUE, reporting |-> FALSE]
         /\ byte = ENABLE_DATA =>
              mouse' = [id |-> id, rates |-> rates, argument |-> FALSE, reporting |-> TRUE]
         /\ mouse_out' = IF byte = GET_ID THEN <<ACK, id>> ELSE <<ACK>>
<1>1. ~mouse.argument /\ ~mouse.reporting /\ mouse.id = id
  OBVIOUS
<1>2. /\ SET_DEFAULTS \notin {SET_SAMPLE_RATE, ENABLE_DATA} /\ SET_SAMPLE_RATE # ENABLE_DATA
      /\ GET_ID \notin {SET_DEFAULTS, SET_SAMPLE_RATE, ENABLE_DATA}
  BY DEF SET_DEFAULTS, SET_SAMPLE_RATE, GET_ID, ENABLE_DATA
<1>3. /\ mouse' = [mouse EXCEPT
            !.argument = (byte = SET_SAMPLE_RATE),
            !.reporting = CASE byte = ENABLE_DATA  -> TRUE
                            [] byte = SET_DEFAULTS -> FALSE
                            [] OTHER               -> @]
      /\ mouse_out' = mouse_out \o
            CASE byte = GET_ID -> <<ACK, mouse.id>>
              [] byte \in {SET_SAMPLE_RATE, ENABLE_DATA, SET_DEFAULTS} -> <<ACK>>
              [] OTHER -> <<RESEND>>
  BY <1>1 DEF MouseTakes
<1>4. PICK argument \in BOOLEAN, reporting \in BOOLEAN :
        (argument <=> byte = SET_SAMPLE_RATE) /\ (reporting <=> byte = ENABLE_DATA)
  OBVIOUS
<1>5. mouse' = [mouse EXCEPT !.argument = argument, !.reporting = reporting]
  BY <1>1, <1>2, <1>3, <1>4
<1>6. mouse' = [id |-> id, rates |-> rates, argument |-> argument, reporting |-> reporting]
  BY <1>5
<1>7. (argument = TRUE \/ argument = FALSE) /\ (reporting = TRUE \/ reporting = FALSE)
  BY <1>4
<1>8. ASSUME byte \in {SET_DEFAULTS, GET_ID}
      PROVE  mouse' = [id |-> id, rates |-> rates, argument |-> FALSE, reporting |-> FALSE]
  <2>1. argument = FALSE /\ reporting = FALSE
    BY <1>2, <1>4, <1>7, <1>8
  <2> QED BY <1>6, <2>1, Zenon
<1>9. ASSUME byte = SET_SAMPLE_RATE
      PROVE  mouse' = [id |-> id, rates |-> rates, argument |-> TRUE, reporting |-> FALSE]
  <2>1. argument = TRUE /\ reporting = FALSE
    BY <1>2, <1>4, <1>7, <1>9
  <2> QED BY <1>6, <2>1, Zenon
<1>10. ASSUME byte = ENABLE_DATA
       PROVE  mouse' = [id |-> id, rates |-> rates, argument |-> FALSE, reporting |-> TRUE]
  <2>1. argument = FALSE /\ reporting = TRUE
    BY <1>2, <1>4, <1>7, <1>10
  <2> QED BY <1>6, <2>1, Zenon
<1>11. mouse_out' = IF byte = GET_ID THEN <<ACK, id>> ELSE <<ACK>>
  BY <1>1, <1>2, <1>3
<1> QED BY <1>8, <1>9, <1>10, <1>11

LEMMA MouseAnswers ==
  ASSUME NEW n \in Calls, mouse = MouseBefore(n), mouse_out = << >>, machine.kind = "wheel",
         MouseTakes(Written(n))
  PROVE  mouse' = MouseBefore(n + 1) /\ mouse_out' = AnswerTo(n)
<1>1. 0 \in Byte /\ 80 \in Byte /\ 100 \in Byte /\ 200 \in Byte
  BY NatIsByte
<1>2. /\ SET_DEFAULTS \notin {SET_SAMPLE_RATE, GET_ID, ENABLE_DATA}
      /\ SET_SAMPLE_RATE \notin {GET_ID, ENABLE_DATA} /\ GET_ID # ENABLE_DATA
  BY DEF SET_DEFAULTS, SET_SAMPLE_RATE, GET_ID, ENABLE_DATA
<1>4. CASE n = 2
  <2>1. mouse.rates = <<0, 0, 100>> /\ Written(n) = 200
    BY <1>4 DEF MouseBefore, Written
  <2>2. <<0, 100, 200>> = RatesWith(200)
    BY <1>1, <2>1, NextRates
  <2>3. /\ mouse' = [id |-> 0, rates |-> <<0, 100, 200>>, argument |-> FALSE, reporting |-> FALSE]
        /\ mouse_out' = <<ACK>>
    BY <1>4, <2>1, <2>2, TakesRate DEF MouseBefore
  <2> QED BY <1>4, <2>3 DEF AnswerTo, MouseBefore
<1>5. CASE n = 4
  <2>1. mouse.rates = <<0, 100, 200>> /\ Written(n) = 100
    BY <1>5 DEF MouseBefore, Written
  <2>2. <<100, 200, 100>> = RatesWith(100)
    BY <1>1, <2>1, NextRates
  <2>3. /\ mouse' = [id |-> 0, rates |-> <<100, 200, 100>>, argument |-> FALSE, reporting |-> FALSE]
        /\ mouse_out' = <<ACK>>
    BY <1>5, <2>1, <2>2, TakesRate DEF MouseBefore
  <2> QED BY <1>5, <2>3 DEF AnswerTo, MouseBefore
<1>6. CASE n = 6
  <2>1. mouse.rates = <<100, 200, 100>> /\ Written(n) = 80
    BY <1>6 DEF MouseBefore, Written
  <2>2. <<200, 100, 80>> = RatesWith(80)
    BY <1>1, <2>1, NextRates
  <2>3. /\ mouse' = [id |-> ID_WHEEL, rates |-> <<200, 100, 80>>, argument |-> FALSE, reporting |-> FALSE]
        /\ mouse_out' = <<ACK>>
    BY <1>6, <2>1, <2>2, TakesRate DEF MouseBefore
  <2> QED BY <1>6, <2>3 DEF AnswerTo, MouseBefore
<1>7. CASE n = 0
  <2>1. Written(n) = SET_DEFAULTS
    BY <1>7 DEF Written
  <2>2. /\ mouse' = [id |-> 0, rates |-> <<0, 0, 100>>, argument |-> FALSE, reporting |-> FALSE]
        /\ mouse_out' = <<ACK>>
    BY <1>2, <1>7, <2>1, TakesCommand DEF MouseBefore
  <2> QED BY <1>7, <2>2 DEF AnswerTo, MouseBefore
<1>8. CASE n = 1
  <2>1. Written(n) = SET_SAMPLE_RATE
    BY <1>8 DEF Written
  <2>2. /\ mouse' = [id |-> 0, rates |-> <<0, 0, 100>>, argument |-> TRUE, reporting |-> FALSE]
        /\ mouse_out' = <<ACK>>
    BY <1>2, <1>8, <2>1, TakesCommand DEF MouseBefore
  <2> QED BY <1>8, <2>2 DEF AnswerTo, MouseBefore
<1>9. CASE n = 3
  <2>1. Written(n) = SET_SAMPLE_RATE
    BY <1>9 DEF Written
  <2>2. /\ mouse' = [id |-> 0, rates |-> <<0, 100, 200>>, argument |-> TRUE, reporting |-> FALSE]
        /\ mouse_out' = <<ACK>>
    BY <1>2, <1>9, <2>1, TakesCommand DEF MouseBefore
  <2> QED BY <1>9, <2>2 DEF AnswerTo, MouseBefore
<1>10. CASE n = 5
  <2>1. Written(n) = SET_SAMPLE_RATE
    BY <1>10 DEF Written
  <2>2. /\ mouse' = [id |-> 0, rates |-> <<100, 200, 100>>, argument |-> TRUE, reporting |-> FALSE]
        /\ mouse_out' = <<ACK>>
    BY <1>2, <1>10, <2>1, TakesCommand DEF MouseBefore
  <2> QED BY <1>10, <2>2 DEF AnswerTo, MouseBefore
<1>11. CASE n = 7
  <2>1. Written(n) = GET_ID
    BY <1>11 DEF Written
  <2>2. /\ mouse' = [id |-> ID_WHEEL, rates |-> <<200, 100, 80>>, argument |-> FALSE, reporting |-> FALSE]
        /\ mouse_out' = <<ACK, ID_WHEEL>>
    BY <1>2, <1>11, <2>1, TakesCommand DEF MouseBefore
  <2> QED BY <1>11, <2>2 DEF AnswerTo, MouseBefore
<1>12. CASE n = 8
  <2>1. Written(n) = ENABLE_DATA
    BY <1>12 DEF Written
  <2>2. /\ mouse' = [id |-> ID_WHEEL, rates |-> <<200, 100, 80>>, argument |-> FALSE, reporting |-> TRUE]
        /\ mouse_out' = <<ACK>>
    BY <1>2, <1>12, <2>1, TakesCommand DEF MouseBefore
  <2> QED BY <1>12, <2>2 DEF AnswerTo, MouseBefore
<1> QED BY <1>4, <1>5, <1>6, <1>7, <1>8, <1>9, <1>10, <1>11, <1>12 DEF Calls

\* Each place of the program is in one call.
LEMMA AnsweringIdle ==
  ASSUME NEW n \in Calls, pc' \in {Start(n), Start(n) + 1, Start(n) + 2, Start(n) + 3}, retry' = 0,
         mouse' = MouseBefore(n), mouse_out' = << >>, ~output'.full,
         n = 8 => has_scroll_wheel'
  PROVE  Answering'
<1>1. /\ pc' \in Nat /\ pc' > 13 /\ pc' \notin {AtId - 1, AtId}
      /\ pc' > AtId => n = 8
  BY Numbers DEF Start, Calls
<1>2. ASSUME NEW m \in Calls
      PROVE  /\ pc' \in Start(m) .. Start(m) + 3 => m = n
             /\ pc' # Start(m) + 4 /\ pc' # Start(m) + 5
  BY DEF Start, Calls
<1>3. Idle(n)'
  BY DEF Idle, MouseBefore
<1> QED BY <1>1, <1>2, <1>3 DEF Answering, AtId

LEMMA AnsweringWait ==
  ASSUME NEW n \in Calls, pc' = Start(n) + 4, retry' = 0, polls' < PS2_TIMEOUT,
         \/ input' # NoInput /\ mouse' = MouseBefore(n) /\ mouse_out' = << >> /\ ~output'.full
         \/ /\ input' = NoInput /\ mouse' = MouseBefore(n + 1)
            /\ \/ ~output'.full /\ mouse_out' = AnswerTo(n)
               \/ output'.full /\ output'.byte = ACK /\ mouse_out' = AnswerAfterAck(n),
         n = 8 => has_scroll_wheel'
  PROVE  Answering'
<1>1. /\ pc' \in Nat /\ pc' > 13 /\ pc' \notin {AtId - 1, AtId}
      /\ pc' > AtId => n = 8
  BY Numbers DEF Start, Calls
<1>2. ASSUME NEW m \in Calls
      PROVE  /\ ~(pc' \in Start(m) .. Start(m) + 3)
             /\ pc' = Start(m) + 4 => m = n
             /\ pc' # Start(m) + 5
  BY DEF Start, Calls
<1>3. \/ input' # NoInput /\ Idle(n)'
      \/ /\ input' = NoInput /\ mouse' = MouseBefore(n + 1)
         /\ \/ ~output'.full /\ mouse_out' = AnswerTo(n)
            \/ output'.full /\ output'.byte = ACK /\ mouse_out' = AnswerAfterAck(n)
  BY DEF Idle, MouseBefore
<1> QED BY <1>1, <1>2, <1>3 DEF Answering, AtId

LEMMA AnsweringAck ==
  ASSUME NEW n \in Calls, pc' = Start(n) + 5, retry' = 0,
         mouse' = MouseBefore(n + 1), mouse_out' = AnswerAfterAck(n),
         answered', output'.full, output'.byte = ACK,
         n = 8 => has_scroll_wheel'
  PROVE  Answering'
<1>1. /\ pc' \in Nat /\ pc' > 13 /\ pc' \notin {AtId - 1, AtId}
      /\ pc' > AtId => n = 8
  BY Numbers DEF Start, Calls
<1>2. ASSUME NEW m \in Calls
      PROVE  /\ ~(pc' \in Start(m) .. Start(m) + 3)
             /\ pc' # Start(m) + 4
             /\ pc' = Start(m) + 5 => m = n
  BY DEF Start, Calls
<1> QED BY <1>1, <1>2 DEF Answering, AtId

LEMMA AnsweringId ==
  ASSUME pc' \in {62, 63}, retry' = 0, mouse' = MouseBefore(8),
         pc' = 62 =>
           /\ polls' < PS2_TIMEOUT
           /\ \/ ~output'.full /\ mouse_out' = <<ID_WHEEL>>
              \/ output'.full /\ output'.byte = ID_WHEEL /\ mouse_out' = << >>,
         pc' = 63 => answered' /\ output'.full /\ output'.byte = ID_WHEEL /\ mouse_out' = << >>
  PROVE  Answering'
<1>1. ASSUME NEW m \in Calls
      PROVE  ~(pc' \in Start(m) .. Start(m) + 3) /\ pc' # Start(m) + 4 /\ pc' # Start(m) + 5
  BY DEF Start, Calls
<1> QED BY <1>1, Numbers DEF Answering, AtId

LEMMA AnsweringAfter ==
  ASSUME pc' \in {70, 71, 72, 73}, retry' = 0, has_scroll_wheel'
  PROVE  Answering'
<1>1. ASSUME NEW m \in Calls
      PROVE  ~(pc' \in Start(m) .. Start(m) + 3) /\ pc' # Start(m) + 4 /\ pc' # Start(m) + 5
  BY DEF Start, Calls
<1> QED BY <1>1, Numbers DEF Answering, AtId

LEMMA AnsweringBefore ==
  ASSUME pc' \in 1 .. 13, retry' = 0, mouse' = MouseBefore(0), mouse_out' = << >>,
         pc' >= 8 => ~output'.full
  PROVE  Answering'
<1>1. ASSUME NEW m \in Calls
      PROVE  ~(pc' \in Start(m) .. Start(m) + 3) /\ pc' # Start(m) + 4 /\ pc' # Start(m) + 5
  BY DEF Start, Calls
<1> QED BY <1>1, Numbers DEF Answering, AtId

LEMMA InitAnswering == Init => WheelAnswers
<1> SUFFICES ASSUME Init PROVE Answering
  BY DEF WheelAnswers
<1>1. mouse = MouseBefore(0)
  BY DEF Init, MouseBefore
<1>2. ASSUME NEW m \in Calls
      PROVE  ~(pc \in Start(m) .. Start(m) + 3) /\ pc # Start(m) + 4 /\ pc # Start(m) + 5
  BY DEF Start, Calls, Init
<1> QED BY <1>1, <1>2, Numbers DEF Init, Answering

\* A mouse with a wheel that answers within a wait, and no key.
Listening == pressed = 0 /\ InTimeAll /\ machine.kind = "wheel"

\* When the driver waits, a mouse that has something to say says it before the end.
LEMMA MouseInTime ==
  ASSUME TypeInv, DevicesInTime(polls + 1 >= PS2_TIMEOUT), machine.mouse # "long",
         mouse_out # << >>, ~output.full, controller_config = BothBack
  PROVE  polls + 1 < PS2_TIMEOUT
<1>1. MouseBusy
  BY Configs DEF MouseBusy, Enabled
<1>2. ~(polls + 1 >= PS2_TIMEOUT)
  BY <1>1 DEF DevicesInTime, InTime
<1> QED BY <1>2, TypeFacts

\* A wait for an answer: it is there, or the wait goes on.
LEMMA WaitForAnswer ==
  ASSUME TypeInv, WaitOutputFull, machine.mouse # "long", controller_config = BothBack,
         polls < PS2_TIMEOUT, mouse_out # << >> \/ output.full
  PROVE  /\ UNCHANGED <<retry, has_scroll_wheel, input, output, mouse, mouse_out>>
         /\ \/ output.full /\ pc' = pc + 1 /\ polls' = 0 /\ answered'
            \/ ~output.full /\ pc' = pc /\ polls' < PS2_TIMEOUT
<1>1. pc <= 69
  <2>1. At("wait_output")
    BY DEF WaitOutputFull
  <2> QED BY <2>1, TypeFacts, Numbers DEF At
<1>2. PICK ready \in BOOLEAN : ready = (output.full /\ polls < PS2_TIMEOUT)
  OBVIOUS
<1>3. Poll(ready) /\ answered' = ready
  BY <1>2, Zenon DEF WaitOutputFull
<1>4. ready <=> output.full
  BY <1>2
<1>5. /\ \/ ~ready /\ polls < PS2_TIMEOUT /\ polls' = polls + 1 /\ pc' = pc
         \/ (ready \/ polls = PS2_TIMEOUT) /\ pc' = pc + 1 /\ polls' = 0
      /\ DevicesInTime(polls + 1 >= PS2_TIMEOUT)
      /\ UNCHANGED <<retry, config, has_scroll_wheel, controllerVars, output, worldVars>>
  BY <1>1, <1>3, PollFacts
<1>6. ~output.full => polls + 1 < PS2_TIMEOUT
  BY <1>5, MouseInTime
<1>7. UNCHANGED <<retry, has_scroll_wheel, input, output, mouse, mouse_out>>
  BY <1>5 DEF controllerVars, worldVars, deviceVars
<1>8. CASE output.full
  <2>1. ready /\ pc' = pc + 1 /\ polls' = 0
    BY <1>4, <1>5, <1>8
  <2> QED BY <1>3, <1>7, <1>8, <2>1
<1>9. CASE ~output.full
  <2>1. pc' = pc /\ polls' = polls + 1
    BY <1>4, <1>5, <1>9, TypeFacts
  <2> QED BY <1>6, <1>7, <1>9, <2>1
<1> QED BY <1>8, <1>9

LEMMA AnsweringOpening ==
  ASSUME TypeInv, MouseInit, machine.controller = "none", Answering, pc <= 13
  PROVE  Answering'
<1>1. /\ UNCHANGED <<mouse, mouse_out>>
      /\ output'.full => output.full
  BY InitStep DEF worldVars, deviceVars
<1>2. pc \in 1 .. 13 /\ mouse = MouseBefore(0) /\ mouse_out = << >> /\ retry = 0
      /\ (pc >= 8 => ~output.full)
  <2>1. pc \in 1 .. 13
    BY TypeFacts
  <2>2. /\ retry = 0
        /\ pc <= 13 => mouse = MouseBefore(0) /\ mouse_out = << >>
        /\ pc \in 8 .. 13 => ~output.full
    BY DEF Answering
  <2> QED BY <2>1, <2>2
<1>3. pc' \in {pc, pc + 1} /\ retry' = 0
  <2>1. pc \in {1, 2, 5, 9, 12, 13} => pc' = pc + 1 /\ retry' = retry
    BY OpeningActions, OutFacts, <1>2 DEF localVars
  <2>2. pc \in {4, 6, 8, 10} => pc' \in {pc, pc + 1} /\ retry' = retry
    <3>1. ASSUME WaitInputEmpty \/ WaitOutputFull PROVE retry' = retry
      BY <3>1 DEF WaitInputEmpty, WaitOutputFull, Poll
    <3>2. ASSUME WaitInputEmpty \/ WaitOutputFull PROVE pc' \in {pc, pc + 1}
      BY <3>2, WaitStep
    <3> QED BY OpeningActions, <3>1, <3>2
  <2>3. pc = 3 => pc' = pc + 1 /\ retry' = retry
    BY OpeningActions DEF Drop, Goto, localVars
  <2>4. pc = 7 => pc' = pc + 1 /\ retry' = retry
    BY OpeningActions DEF ConfigIn, Goto
  <2>5. pc = 11 => pc' = pc + 1 /\ retry' = retry
    BY OpeningActions DEF ConfigOut, Goto, localVars
  <2>6. pc \in {1, 2, 5, 9, 12, 13} \/ pc \in {4, 6, 8, 10} \/ pc = 3 \/ pc = 7 \/ pc = 11
    BY <1>2
  <2> QED BY <1>2, <2>1, <2>2, <2>3, <2>4, <2>5, <2>6
<1>4. pc = 7 => ~output'.full
  BY OpeningActions, ReadFacts DEF ConfigIn
<1>5. pc' >= 8 => ~output'.full
  BY <1>1, <1>2, <1>3, <1>4
<1>6. CASE pc' <= 13
  <2>1. pc' \in 1 .. 13
    BY <1>2, <1>3, <1>6
  <2> QED BY <1>1, <1>2, <1>3, <1>5, <2>1, AnsweringBefore
<1>7. CASE pc' = 14
  <2>1. 0 \in Calls /\ Start(0) = 14
    BY DEF Calls, Start
  <2>2. ~output'.full
    BY <1>5, <1>7
  <2>3. mouse' = MouseBefore(0) /\ mouse_out' = << >>
    BY <1>1, <1>2
  <2> QED BY <1>3, <1>7, <2>1, <2>2, <2>3, AnsweringIdle
<1> QED BY <1>2, <1>3, <1>6, <1>7

LEMMA AnsweringCall ==
  ASSUME TypeInv, MouseInit, machine.controller = "none", machine.mouse # "long", Answering,
         controller_config = BothBack, NEW n \in Calls,
         pc \in {Start(n), Start(n) + 1, Start(n) + 2, Start(n) + 3, Start(n) + 4, Start(n) + 5}
  PROVE  Answering'
<1>1. input = NoInput /\ UNCHANGED <<mouse, mouse_out>>
  BY InitStep DEF worldVars, deviceVars
<1>2. retry = 0 /\ Start(n) \in Nat /\ n \in Nat
  BY Starts DEF Answering
<1>3. n = 8 => has_scroll_wheel
  BY <1>2, Numbers DEF Answering, Start
<1>4. CASE pc \in {Start(n), Start(n) + 1, Start(n) + 2, Start(n) + 3}
  <2>1. Idle(n)
    BY <1>2, <1>4 DEF Answering
  <2>2. CASE pc \in {Start(n), Start(n) + 2}
    <3>1. WaitInputEmpty
      BY <2>2, CallActions
    <3>2. (pc' = pc \/ pc' = pc + 1) /\ UNCHANGED output
      BY <3>1, WaitStep
    <3>3. UNCHANGED <<retry, has_scroll_wheel>>
      BY <3>1 DEF WaitInputEmpty, Poll
    <3>4. pc' \in {Start(n), Start(n) + 1, Start(n) + 2, Start(n) + 3}
      BY <1>2, <2>2, <3>2
    <3> QED BY <1>1, <1>2, <1>3, <2>1, <3>2, <3>3, <3>4, AnsweringIdle DEF Idle
  <2>3. CASE pc \in {Start(n) + 1, Start(n) + 3}
    <3>1. Out
      BY <2>3, CallActions
    <3>2. /\ OutWrites(pc, input') /\ pc' = pc + 1 /\ polls' = 0
          /\ UNCHANGED <<retry, has_scroll_wheel, output>>
      BY <3>1, OutFacts, TypeFacts DEF localVars, heldVars
    <3>3. CASE pc = Start(n) + 1
      BY <1>1, <1>2, <1>3, <2>1, <3>2, <3>3, AnsweringIdle DEF Idle
    <3>4. CASE pc = Start(n) + 3
      <4>1. input' # NoInput
        BY <3>2 DEF OutWrites, NoInput, COMMAND, DATA
      <4>2. pc' = Start(n) + 4 /\ 0 < PS2_TIMEOUT
        BY <1>2, <3>2, <3>4, TypeFacts
      <4> QED BY <1>1, <1>2, <1>3, <2>1, <3>2, <4>1, <4>2, AnsweringWait DEF Idle
    <3> QED BY <2>3, <3>3, <3>4
  <2> QED BY <1>4, <2>2, <2>3
<1>5. CASE pc = Start(n) + 4
  <2>1. WaitOutputFull
    BY <1>5, CallActions
  <2>2. /\ polls < PS2_TIMEOUT /\ mouse = MouseBefore(n + 1)
        /\ \/ ~output.full /\ mouse_out = AnswerTo(n)
           \/ output.full /\ output.byte = ACK /\ mouse_out = AnswerAfterAck(n)
    BY <1>1, <1>5 DEF Answering
  <2>3. AnswerTo(n) # << >>
    BY DEF AnswerTo
  <2>4. mouse_out # << >> \/ output.full
    BY <2>2, <2>3
  <2>5. /\ UNCHANGED <<retry, has_scroll_wheel, input, output, mouse, mouse_out>>
        /\ \/ output.full /\ pc' = pc + 1 /\ polls' = 0 /\ answered'
           \/ ~output.full /\ pc' = pc /\ polls' < PS2_TIMEOUT
    BY <2>1, <2>2, <2>4, WaitForAnswer
  <2>6. CASE output.full
    <3>1. pc' = Start(n) + 5 /\ answered'
      BY <1>2, <1>5, <2>5, <2>6
    <3> QED BY <1>2, <1>3, <2>2, <2>5, <2>6, <3>1, AnsweringAck
  <2>7. CASE ~output.full
    <3>1. pc' = Start(n) + 4 /\ polls' < PS2_TIMEOUT
      BY <1>5, <2>5, <2>7
    <3> QED BY <1>1, <1>2, <1>3, <2>2, <2>5, <2>7, <3>1, AnsweringWait
  <2> QED BY <2>6, <2>7
<1>6. CASE pc = Start(n) + 5
  <2>1. /\ mouse = MouseBefore(n + 1) /\ mouse_out = AnswerAfterAck(n)
        /\ answered /\ output.full /\ output.byte = ACK
    BY <1>6 DEF Answering
  <2>2. CheckAck
    BY <1>6, CallActions
  <2>3. pc' = pc + 1 /\ retry' = 0 /\ polls' = 0
    BY <2>1, <2>2, AckFacts DEF Answer
  <2>4. ~output'.full /\ has_scroll_wheel' = has_scroll_wheel
    BY <2>1, <2>2, ReadFacts DEF CheckAck, ReadAnswer
  <2>5. CASE n = 7
    <3>1. pc' = 62
      BY <1>6, <2>3, <2>5 DEF Start
    <3>2. mouse' = MouseBefore(8) /\ mouse_out' = <<ID_WHEEL>>
      BY <1>1, <2>1, <2>5 DEF AnswerAfterAck
    <3>3. polls' < PS2_TIMEOUT
      BY <2>3, TypeFacts
    <3> QED BY <2>3, <2>4, <3>1, <3>2, <3>3, AnsweringId
  <2>6. CASE n = 8
    <3>1. pc' = 70
      BY <1>6, <2>3, <2>6 DEF Start
    <3> QED BY <1>3, <2>3, <2>4, <2>6, <3>1, AnsweringAfter
  <2>7. CASE n < 7
    <3>1. n + 1 \in Calls /\ pc' = Start(n + 1)
      BY <1>2, <1>6, <2>3, <2>7, Starts
    <3>2. mouse' = MouseBefore(n + 1) /\ mouse_out' = << >>
      BY <1>1, <2>1, <2>7 DEF AnswerAfterAck
    <3>3. n + 1 # 8
      BY <1>2, <2>7
    <3> QED BY <2>3, <2>4, <3>1, <3>2, <3>3, AnsweringIdle
  <2> QED BY <1>2, <2>5, <2>6, <2>7, Starts
<1> QED BY <1>4, <1>5, <1>6

LEMMA AnsweringWheel ==
  ASSUME TypeInv, MouseInit, machine.controller = "none", machine.mouse # "long", Answering,
         controller_config = BothBack, pc = 62 \/ pc = 63
  PROVE  Answering'
<1>1. input = NoInput /\ UNCHANGED <<mouse, mouse_out>>
  BY InitStep DEF worldVars, deviceVars
<1>2. retry = 0 /\ mouse = MouseBefore(8)
  BY Numbers DEF Answering
<1>3. CASE pc = 62
  <2>1. WaitOutputFull
    BY <1>3, OpeningActions
  <2>2. /\ polls < PS2_TIMEOUT
        /\ \/ ~output.full /\ mouse_out = <<ID_WHEEL>>
           \/ output.full /\ output.byte = ID_WHEEL /\ mouse_out = << >>
    BY <1>3, Numbers DEF Answering
  <2>3. mouse_out # << >> \/ output.full
    BY <2>2
  <2>4. /\ UNCHANGED <<retry, has_scroll_wheel, input, output, mouse, mouse_out>>
        /\ \/ output.full /\ pc' = pc + 1 /\ polls' = 0 /\ answered'
           \/ ~output.full /\ pc' = pc /\ polls' < PS2_TIMEOUT
    BY <2>1, <2>2, <2>3, WaitForAnswer
  <2>5. CASE output.full
    <3>1. pc' = 63 /\ answered'
      BY <1>3, <2>4, <2>5
    <3> QED BY <1>2, <2>2, <2>4, <2>5, <3>1, AnsweringId
  <2>6. CASE ~output.full
    <3>1. pc' = 62 /\ polls' < PS2_TIMEOUT
      BY <1>3, <2>4, <2>6
    <3> QED BY <1>2, <2>2, <2>4, <2>6, <3>1, AnsweringId
  <2> QED BY <2>5, <2>6
<1>4. CASE pc = 63
  <2>1. answered /\ output.full /\ output.byte = ID_WHEEL /\ mouse_out = << >>
    BY <1>4, Numbers DEF Answering
  <2>2. CheckId
    BY <1>4, OpeningActions
  <2>3. pc' = 64 /\ retry' = 0 /\ ~output'.full /\ has_scroll_wheel'
    <3>1. pc' = 64 /\ retry' = 0
      BY <1>2, <1>4, <2>2 DEF CheckId, Goto
    <3>2. ~output'.full
      BY <2>1, <2>2, ReadFacts DEF CheckId, ReadAnswer
    <3>3. has_scroll_wheel'
      BY <2>1, <2>2 DEF CheckId, IsWheelId, Answer
    <3> QED BY <3>1, <3>2, <3>3
  <2>4. 8 \in Calls /\ Start(8) = 64
    BY DEF Calls, Start
  <2> QED BY <1>1, <1>2, <2>1, <2>3, <2>4, AnsweringIdle
<1> QED BY <1>3, <1>4

LEMMA AnsweringReboot ==
  ASSUME TypeInv, Answering, RebootStart \/ Reboot
  PROVE  Answering'
<1>1. pc \in {70, 71, 72} /\ pc' \in {70, 71, 72, 73} /\ UNCHANGED <<retry, has_scroll_wheel>>
  BY Numbers DEF RebootStart, Reboot, RebootPoll, RebootCommand, Goto, localVars
<1>2. retry = 0 /\ has_scroll_wheel
  BY <1>1, Numbers DEF Answering
<1> QED BY <1>1, <1>2, AnsweringAfter

\* Where the driver is, and what Answering says of the mouse there.
LEMMA AnsweringCases ==
  ASSUME TypeInv, Answering
  PROVE  /\ retry = 0
         /\ \/ pc \in 1 .. 13 /\ mouse = MouseBefore(0) /\ mouse_out = << >>
               /\ (pc >= 8 => ~output.full)
            \/ \E n \in Calls :
                 /\ n = 8 => has_scroll_wheel
                 /\ \/ pc \in {Start(n), Start(n) + 1, Start(n) + 2, Start(n) + 3} /\ Idle(n)
                    \/ /\ pc = Start(n) + 4 /\ polls < PS2_TIMEOUT
                       /\ \/ input # NoInput /\ Idle(n)
                          \/ /\ input = NoInput /\ mouse = MouseBefore(n + 1)
                             /\ \/ ~output.full /\ mouse_out = AnswerTo(n)
                                \/ output.full /\ output.byte = ACK /\ mouse_out = AnswerAfterAck(n)
                    \/ /\ pc = Start(n) + 5 /\ mouse = MouseBefore(n + 1)
                       /\ mouse_out = AnswerAfterAck(n)
                       /\ answered /\ output.full /\ output.byte = ACK
            \/ /\ pc = 62 /\ mouse = MouseBefore(8) /\ polls < PS2_TIMEOUT
               /\ \/ ~output.full /\ mouse_out = <<ID_WHEEL>>
                  \/ output.full /\ output.byte = ID_WHEEL /\ mouse_out = << >>
            \/ /\ pc = 63 /\ mouse = MouseBefore(8) /\ answered /\ output.full
               /\ output.byte = ID_WHEEL /\ mouse_out = << >>
            \/ pc \in {70, 71, 72, 73} /\ has_scroll_wheel
<1>1. retry = 0 /\ pc \in Nat /\ 1 <= pc /\ pc <= 73
  BY TypeFacts DEF Answering
<1>2. CASE pc <= 13
  BY <1>1, <1>2 DEF Answering
<1>3. CASE pc \in {62, 63, 70, 71, 72, 73}
  BY <1>1, <1>3, Numbers DEF Answering
<1>4. CASE pc > 13 /\ pc \notin {62, 63, 70, 71, 72, 73}
  <2>1. PICK n \in Calls : pc \in {Start(n), Start(n) + 1, Start(n) + 2, Start(n) + 3,
                                   Start(n) + 4, Start(n) + 5}
    BY <1>1, <1>4, Places
  <2>2. Start(n) \in Nat /\ (n = 8 => pc > AtId)
    BY <2>1, Starts, Numbers DEF Start
  <2>3. n = 8 => has_scroll_wheel
    BY <2>2 DEF Answering
  <2>4. CASE pc \in {Start(n), Start(n) + 1, Start(n) + 2, Start(n) + 3}
    <3>1. Idle(n)
      BY <2>2, <2>4 DEF Answering
    <3> QED BY <1>1, <2>3, <2>4, <3>1
  <2>5. CASE pc = Start(n) + 4
    BY <1>1, <2>3, <2>5 DEF Answering
  <2>6. CASE pc = Start(n) + 5
    BY <1>1, <2>3, <2>6 DEF Answering
  <2> QED BY <2>1, <2>4, <2>5, <2>6
<1> QED BY <1>1, <1>2, <1>3, <1>4

LEMMA AnsweringSends ==
  ASSUME TypeInv, Answering, MouseSends
  PROVE  Answering'
<1>1. /\ UNCHANGED <<pc, polls, answered, retry, has_scroll_wheel, input, mouse>>
      /\ mouse_out # << >> /\ mouse_out' = Tail(mouse_out)
      /\ ~output.full /\ output'.full /\ output'.byte = Head(mouse_out)
  BY DEF MouseSends, PutOutput, driverVars, localVars, controllerVars
<1>2. retry = 0
  BY DEF Answering
<1>3. CASE pc \in 1 .. 13 /\ mouse_out = << >>
  BY <1>1, <1>3
<1>4. CASE pc = 63 /\ output.full
  BY <1>1, <1>4
<1>5. CASE pc \in {70, 71, 72, 73} /\ has_scroll_wheel
  BY <1>1, <1>2, <1>5, AnsweringAfter
<1>6. CASE /\ pc = 62 /\ mouse = MouseBefore(8) /\ polls < PS2_TIMEOUT
           /\ mouse_out = <<ID_WHEEL>>
  <2>1. Head(mouse_out) = ID_WHEEL /\ Tail(mouse_out) = << >>
    BY <1>6
  <2> QED BY <1>1, <1>2, <1>6, <2>1, AnsweringId
<1>7. ASSUME NEW n \in Calls, n = 8 => has_scroll_wheel,
             pc = Start(n) + 4 /\ polls < PS2_TIMEOUT /\ input = NoInput
             /\ mouse = MouseBefore(n + 1) /\ mouse_out = AnswerTo(n)
      PROVE  Answering'
  <2>1. Head(mouse_out) = ACK /\ Tail(mouse_out) = AnswerAfterAck(n)
    BY <1>7 DEF AnswerTo, AnswerAfterAck
  <2> QED BY <1>1, <1>2, <1>7, <2>1, AnsweringWait
<1> QED BY <1>1, <1>3, <1>4, <1>5, <1>6, <1>7, AnsweringCases DEF Idle

LEMMA AnsweringReplies ==
  ASSUME TypeInv, Answering, ControllerReplies, Opening
  PROVE  Answering'
<1>1. /\ UNCHANGED <<pc, retry, mouse, mouse_out>> /\ reply # << >>
  BY DEF ControllerReplies, driverVars, localVars, deviceVars
<1>2. pc = 6
  BY <1>1 DEF Opening
<1>3. retry = 0 /\ mouse = MouseBefore(0) /\ mouse_out = << >>
  BY <1>2 DEF Answering
<1> QED BY <1>1, <1>2, <1>3, AnsweringBefore

LEMMA AnsweringReads ==
  ASSUME TypeInv, Answering, ControllerReads, Opening, Writing, machine.kind = "wheel"
  PROVE  Answering'
<1>1. /\ UNCHANGED <<pc, polls, answered, retry, has_scroll_wheel, output>>
      /\ input # NoInput /\ input' = NoInput /\ retry = 0
  BY DEF ControllerReads, driverVars, localVars, Answering
<1>2. CASE pc \in {70, 71, 72, 73} /\ has_scroll_wheel
  BY <1>1, <1>2, AnsweringAfter
<1>3. CASE pc = 62 \/ pc = 63
  BY <1>1, <1>3, Numbers DEF Writing
<1>4. CASE pc \in 1 .. 13 /\ mouse = MouseBefore(0) /\ mouse_out = << >> /\ (pc >= 8 => ~output.full)
  <2>1. UNCHANGED <<mouse, mouse_out>>
    <3>1. CASE pc = 12
      <4>1. input.port = DATA /\ expecting = "config"
        BY <1>1, <3>1 DEF Opening
      <4> QED BY <4>1 DEF ControllerReads, Data, DATA, COMMAND
    <3>2. CASE pc # 12
      <4>1. pc \in {2, 3, 6, 10, 13}
        BY <1>1, <1>4, <3>2 DEF Opening
      <4>2. input.port = COMMAND
        BY <1>1, <4>1 DEF Opening, Changes, Sent
      <4> QED BY <4>2 DEF ControllerReads, Command
    <3> QED BY <3>1, <3>2
  <2> QED BY <1>1, <1>4, <2>1, AnsweringBefore
<1>5. ASSUME NEW n \in Calls, n = 8 => has_scroll_wheel,
             pc \in {Start(n), Start(n) + 1, Start(n) + 2, Start(n) + 3}, Idle(n)
      PROVE  Answering'
  <2>1. input.port = COMMAND
    <3>1. Start(n) \in Nat /\ (pc = Start(n) /\ n = 0 => pc = 14) /\ n \in Nat
          /\ pc >= 14 /\ pc \in Nat
      BY <1>5, Starts DEF Start
    <3> QED BY <1>1, <1>5, <3>1 DEF Writing, Sent
  <2>2. UNCHANGED <<mouse, mouse_out>>
    BY <2>1 DEF ControllerReads, Command
  <2> QED BY <1>1, <1>5, <2>2, AnsweringIdle DEF Idle
<1>6. ASSUME NEW n \in Calls, n = 8 => has_scroll_wheel,
             pc = Start(n) + 4, polls < PS2_TIMEOUT, Idle(n)
      PROVE  Answering'
  <2>1. input = [port |-> DATA, byte |-> Written(n)] /\ expecting = "mouse"
    <3>1. pc >= 14
      BY <1>6, Starts
    <3> QED BY <1>1, <1>6, <3>1 DEF Writing
  <2>2. input.port # COMMAND /\ input.byte = Written(n)
    BY <2>1 DEF DATA, COMMAND
  <2>3. MouseTakes(Written(n))
    BY <2>1, <2>2 DEF ControllerReads, Data
  <2>4. mouse' = MouseBefore(n + 1) /\ mouse_out' = AnswerTo(n)
    BY <1>6, <2>3, MouseAnswers DEF Idle
  <2> QED BY <1>1, <1>6, <2>4, AnsweringWait DEF Idle
<1>7. ASSUME NEW n \in Calls, pc = Start(n) + 5 PROVE FALSE
  <2>1. pc >= 14
    BY <1>7, Starts
  <2> QED BY <1>1, <1>7, <2>1 DEF Writing
<1> QED BY <1>1, <1>2, <1>3, <1>4, <1>5, <1>6, <1>7, AnsweringCases

LEMMA WheelAnswersNext ==
  ASSUME TypeInv, AtOnce, WheelAnswers, [Next]_vars
  PROVE  WheelAnswers'
<1> SUFFICES ASSUME Listening' PROVE Answering'
  BY DEF WheelAnswers, Listening, InTimeAll
<1>1. machine' = machine
  BY DEF Next, Driver, MouseInit, Reboot, Hardware, Controller, Rest, vars, worldVars, deviceVars,
         Out, WaitInputEmpty, WaitOutputFull, Drop, ConfigIn, ConfigOut, CheckAck, CheckId, Poll,
         RebootStart, RebootPoll, RebootCommand, ControllerReads, ControllerReplies, MouseSends,
         PressKey, KeyboardSends
<1>2. /\ machine.controller = "none" /\ machine.mouse # "long" /\ machine.kind = "wheel"
      /\ Opening /\ Writing /\ Latched
  BY <1>1 DEF Listening, InTimeAll, AtOnce
<1>3. pressed = 0 /\ ~PressKey
  <2>1. pressed' = pressed \/ PressKey
    BY DEF Next, Driver, MouseInit, Reboot, Hardware, Controller, Rest, vars, worldVars, deviceVars,
         Out, WaitInputEmpty, WaitOutputFull, Drop, ConfigIn, ConfigOut, CheckAck, CheckId, Poll,
         RebootStart, RebootPoll, RebootCommand, ControllerReads, ControllerReplies, MouseSends,
         KeyboardSends
  <2>2. PressKey => pressed' # 0
    BY DEF PressKey, TypeInv
  <2> QED BY <2>1, <2>2 DEF Listening
<1>4. Answering
  BY <1>2, <1>3 DEF WheelAnswers, InTimeAll
<1>5. CASE UNCHANGED vars
  <2>1. UNCHANGED <<pc, polls, answered, retry, has_scroll_wheel, input, output, mouse, mouse_out>>
    BY <1>5 DEF vars, driverVars, localVars, controllerVars, worldVars, deviceVars
  <2> QED BY <1>4, <2>1, AnsweringCases, AnsweringBefore, AnsweringIdle, AnsweringWait, AnsweringAck,
             AnsweringId, AnsweringAfter DEF Idle
<1>6. CASE MouseInit
  <2>1. pc \in Nat /\ 1 <= pc /\ pc <= 69
    BY <1>6, TypeFacts, ActionAt, Numbers
  <2>2. CASE pc <= 13
    BY <1>2, <1>4, <1>6, <2>2, AnsweringOpening
  <2>3. CASE pc >= 14
    <3>1. controller_config = BothBack
      BY <1>2, <2>3 DEF Writing
    <3>2. CASE pc = 62 \/ pc = 63
      BY <1>2, <1>4, <1>6, <3>1, <3>2, AnsweringWheel
    <3>3. CASE pc # 62 /\ pc # 63
      <4>1. PICK n \in Calls : pc \in {Start(n), Start(n) + 1, Start(n) + 2, Start(n) + 3,
                                       Start(n) + 4, Start(n) + 5}
        BY <2>1, <2>3, <3>3, Places
      <4> QED BY <1>2, <1>4, <1>6, <3>1, <4>1, AnsweringCall
    <3> QED BY <3>2, <3>3
  <2> QED BY <2>1, <2>2, <2>3
<1>7. CASE RebootStart \/ Reboot
  BY <1>4, <1>7, AnsweringReboot
<1>8. CASE ControllerReads
  BY <1>2, <1>4, <1>8, AnsweringReads
<1>9. CASE ControllerReplies
  BY <1>2, <1>4, <1>9, AnsweringReplies
<1>10. CASE MouseSends
  BY <1>4, <1>10, AnsweringSends
<1>11. ~KeyboardSends
  BY <1>2, <1>3 DEF KeyboardSends, Latched
<1> QED BY <1>3, <1>5, <1>6, <1>7, <1>8, <1>9, <1>10, <1>11
        DEF Next, Driver, Hardware, Controller, Rest

-----------------------------------------------------------------------------
(* The boot is bounded *)

\* The calls of mouse_write() that have still to check an answer at place i.
CallsFrom(i) == IF i < 14 THEN 9 ELSE IF i > 61 THEN 1 ELSE 9 - (i - 14) \div TrySteps

\* The port accesses that mouse_init() may still make, a wait counted as one, and
\* its steps, when every wait lasts and every try fails.
AccessesFrom(i, tries) == Returned - i + TrySteps * ((PS2_RETRIES - 1) * CallsFrom(i) - tries)
StepsFrom(i, tries, n) ==
  IF i < Returned THEN AccessesFrom(i, tries) * (PS2_TIMEOUT + 1) - n ELSE 0

StepsLeft == StepsFrom(pc, retry, polls)
MostSteps == (Len(Program) + TrySteps * (9 * (PS2_RETRIES - 1))) * (PS2_TIMEOUT + 1)

\* A shorter list of accesses takes fewer steps, in the middle of a wait too.
LEMMA FewerTurns ==
  ASSUME NEW a \in Nat, NEW b \in Nat, NEW t \in Nat, NEW n \in 0 .. t, b < a
  PROVE  /\ a * (t + 1) - n \in Nat /\ b * (t + 1) \in Nat
         /\ b * (t + 1) < a * (t + 1) - n
<1>1. PICK d \in Nat : a = b + 1 + d
  <2>1. a - b - 1 \in Nat /\ a = b + 1 + (a - b - 1)
    OBVIOUS
  <2> QED BY <2>1
<1>2. a * (t + 1) = b * (t + 1) + (t + 1) + d * (t + 1)
  BY <1>1
<1>3. d * (t + 1) \in Nat /\ b * (t + 1) \in Nat
  OBVIOUS
<1> QED BY <1>2, <1>3

LEMMA MoreCalls ==
  ASSUME NEW r \in Nat, NEW c \in Nat
  PROVE  /\ r * c \in Nat /\ r * (c + 1) = r * c + r
         /\ c >= 1 => r <= r * c
         /\ c <= 9 => r * c <= 9 * r
<1>1. r * c \in Nat
  OBVIOUS
<1>2. r * (c + 1) = r * c + r
  OBVIOUS
<1>3. c >= 1 => r <= r * c
  <2> SUFFICES ASSUME c >= 1 PROVE r <= r * c
    OBVIOUS
  <2>1. c - 1 \in Nat
    OBVIOUS
  <2>2. r * (c - 1) \in Nat
    BY <2>1
  <2>3. r * c = r * (c - 1) + r
    OBVIOUS
  <2> QED BY <2>2, <2>3
<1>4. c <= 9 => r * c <= 9 * r
  <2> SUFFICES ASSUME c <= 9 PROVE r * c <= 9 * r
    OBVIOUS
  <2>1. 9 - c \in Nat
    OBVIOUS
  <2>2. r * (9 - c) \in Nat
    BY <2>1
  <2>3. 9 * r = r * c + r * (9 - c)
    OBVIOUS
  <2> QED BY <2>2, <2>3
<1> QED BY <1>1, <1>2, <1>3, <1>4

\* Only the check of an answer ends a call.
LEMMA CallsBound == ASSUME NEW i \in 1 .. 69 PROVE CallsFrom(i) \in Nat /\ 1 <= CallsFrom(i) /\ CallsFrom(i) <= 9
<1>1. CASE i < 14 \/ i > 61
  BY <1>1 DEF CallsFrom
<1>2. CASE 14 <= i /\ i <= 61
  <2>1. CallsFrom(i) = 9 - (i - 14) \div 6
    BY <1>2, ProgramLength DEF CallsFrom
  <2>2. (i - 14) \div 6 \in 0 .. 7
    BY <1>2
  <2> QED BY <2>1, <2>2
<1> QED BY <1>1, <1>2

LEMMA CallsAt ==
  ASSUME NEW n \in Calls
  PROVE  /\ CallsFrom(Start(n) + 5) = 9 - n /\ CallsFrom(Start(n)) = 9 - n
         /\ n # 8 => CallsFrom(Start(n) + 6) = 8 - n
<1>1. n \in {0, 1, 2, 3, 4, 5, 6, 7, 8}
  BY DEF Calls
<1>2. CASE n = 8
  BY <1>2 DEF CallsFrom, Start
<1>3. CASE n # 8
  <2>1. n \in 0 .. 7 /\ Start(n) = 14 + 6 * n
    BY <1>1, <1>3 DEF Start
  <2>2. (Start(n) - 14) \div 6 = n /\ (Start(n) + 5 - 14) \div 6 = n
    BY <2>1
  <2>3. n # 7 => (Start(n) + 6 - 14) \div 6 = n + 1
    BY <2>1
  <2>4. n = 7 => Start(n) + 6 = 62
    BY <2>1
  <2>5. CallsFrom(Start(n)) = 9 - n /\ CallsFrom(Start(n) + 5) = 9 - n
    BY <2>1, <2>2, ProgramLength DEF CallsFrom
  <2>6. n # 8 => CallsFrom(Start(n) + 6) = 8 - n
    BY <2>1, <2>3, <2>4, ProgramLength DEF CallsFrom
  <2> QED BY <2>5, <2>6
<1> QED BY <1>2, <1>3

LEMMA SameCall ==
  ASSUME NEW i \in 1 .. 68, \A n \in Calls : i # Start(n) + 5
  PROVE  CallsFrom(i + 1) = CallsFrom(i)
<1>1. CASE i < 13 \/ i > 61
  BY <1>1 DEF CallsFrom
<1>2. CASE i = 13
  <2>1. CallsFrom(14) = 9
    BY ProgramLength DEF CallsFrom
  <2> QED BY <1>2, <2>1 DEF CallsFrom
<1>3. CASE 14 <= i /\ i <= 61
  <2>1. (i - 14) % 6 # 5
    <3> SUFFICES ASSUME (i - 14) % 6 = 5 PROVE FALSE
      OBVIOUS
    <3>1. PICK m \in 0 .. 7 : m = (i - 14) \div 6
      BY <1>3
    <3>2. i = 14 + 6 * m + 5
      BY <1>3, <3>1
    <3>3. m \in Calls /\ Start(m) = 14 + 6 * m
      BY DEF Calls, Start
    <3> QED BY <3>2, <3>3
  <2>2. i + 1 <= 61 /\ (i + 1 - 14) \div 6 = (i - 14) \div 6
    BY <1>3, <2>1
  <2> QED BY <1>3, <2>2, ProgramLength DEF CallsFrom
<1> QED BY <1>1, <1>2, <1>3

\* How many accesses are left, and that a call has one for each of its tries.
LEMMA Accesses ==
  ASSUME NEW i \in 1 .. 69, NEW tries \in Nat, tries < PS2_RETRIES
  PROVE  /\ AccessesFrom(i, tries) \in Nat \ {0}
         /\ AccessesFrom(i, tries) = 70 - i + 6 * ((PS2_RETRIES - 1) * CallsFrom(i) - tries)
         /\ AccessesFrom(i, tries) <= 69 + 6 * (9 * (PS2_RETRIES - 1))
<1> DEFINE r == PS2_RETRIES - 1
           c == CallsFrom(i)
<1>1. r \in Nat /\ tries <= r
  BY Ps2Assumption
<1>2. c \in Nat /\ 1 <= c /\ c <= 9
  BY CallsBound
<1>3. AccessesFrom(i, tries) = 70 - i + 6 * (r * c - tries)
  BY Numbers, ProgramLength DEF AccessesFrom
<1> HIDE DEF r, c
<1>4. r * c \in Nat /\ r <= r * c /\ r * c <= 9 * r
  BY <1>1, <1>2, MoreCalls
<1> QED BY <1>1, <1>3, <1>4 DEF r, c

\* A step to another place of the list, with fewer accesses left.
LEMMA FewerSteps ==
  ASSUME TypeInv, pc <= 69, pc' \in 1 .. 69, retry' \in Nat, retry' < PS2_RETRIES, polls' = 0,
         AccessesFrom(pc', retry') < AccessesFrom(pc, retry)
  PROVE  StepsLeft' < StepsLeft
<1> pc \in 1 .. 69
  BY TypeFacts
<1>1. AccessesFrom(pc, retry) \in Nat /\ AccessesFrom(pc', retry') \in Nat
  <2>1. AccessesFrom(pc, retry) \in Nat
    BY Accesses, TypeFacts
  <2>2. AccessesFrom(pc', retry') \in Nat
    BY Accesses
  <2> QED BY <2>1, <2>2
<1>2. AccessesFrom(pc', retry') * (PS2_TIMEOUT + 1) < AccessesFrom(pc, retry) * (PS2_TIMEOUT + 1) - polls
  BY <1>1, FewerTurns, TypeFacts
<1>3. StepsLeft = AccessesFrom(pc, retry) * (PS2_TIMEOUT + 1) - polls
  BY Numbers, TypeFacts DEF StepsLeft, StepsFrom
<1>4. StepsLeft' = AccessesFrom(pc', retry') * (PS2_TIMEOUT + 1) - polls'
  BY Numbers DEF StepsLeft, StepsFrom
<1>5. AccessesFrom(pc', retry') * (PS2_TIMEOUT + 1) \in Nat
  BY <1>1, TypeFacts
<1> QED BY <1>2, <1>3, <1>4, <1>5

LEMMA StepsBounded ==
  ASSUME TypeInv
  PROVE  StepsLeft \in 0 .. MostSteps /\ (StepsLeft = 0 <=> pc >= Returned)
<1> DEFINE m == 69 + 6 * (9 * (PS2_RETRIES - 1))
<1>1. MostSteps = m * (PS2_TIMEOUT + 1)
  BY ProgramLength DEF MostSteps
<1>2. m \in Nat
  BY Ps2Assumption
<1> HIDE DEF m
<1>3. m * (PS2_TIMEOUT + 1) \in Nat
  BY <1>2, Ps2Assumption
<1>4. CASE pc >= 70
  BY <1>1, <1>3, <1>4, Numbers, TypeFacts DEF StepsLeft, StepsFrom
<1>5. CASE pc <= 69
  <2> DEFINE a == AccessesFrom(pc, retry)
  <2> pc \in 1 .. 69
    BY <1>5, TypeFacts
  <2>1. a \in Nat \ {0} /\ a <= m
    BY <1>5, Accesses, TypeFacts DEF m
  <2>2. StepsLeft = a * (PS2_TIMEOUT + 1) - polls
    BY <1>5, Numbers, TypeFacts DEF StepsLeft, StepsFrom
  <2> HIDE DEF a
  <2>3. 0 < a * (PS2_TIMEOUT + 1) - polls
    <3>1. 0 * (PS2_TIMEOUT + 1) < a * (PS2_TIMEOUT + 1) - polls
      BY <2>1, FewerTurns, TypeFacts
    <3> QED BY <3>1, TypeFacts
  <2>4. a * (PS2_TIMEOUT + 1) <= m * (PS2_TIMEOUT + 1)
    <3>1. CASE a = m
      BY <1>3, <3>1
    <3>2. CASE a # m
      <4>1. a < m
        BY <1>2, <2>1, <3>2
      <4>2. a * (PS2_TIMEOUT + 1) < m * (PS2_TIMEOUT + 1) - 0
        BY <1>2, <2>1, <4>1, FewerTurns, TypeFacts
      <4>3. a * (PS2_TIMEOUT + 1) \in Nat
        BY <2>1, TypeFacts
      <4> QED BY <1>3, <4>2, <4>3
    <3> QED BY <3>1, <3>2
  <2>5. a * (PS2_TIMEOUT + 1) \in Nat
    BY <2>1, TypeFacts
  <2> QED BY <1>1, <1>3, <1>5, <2>2, <2>3, <2>4, <2>5, Numbers, TypeFacts
<1> QED BY <1>4, <1>5, TypeFacts

\* An access that is not the check of an answer, and the last turn of a wait.
LEMMA NextPlaceFewer ==
  ASSUME TypeInv, pc <= 68, pc' = pc + 1, polls' = 0, retry' = retry,
         \A n \in Calls : pc # Start(n) + 5
  PROVE  StepsLeft' < StepsLeft
<1>1. pc \in 1 .. 68 /\ pc' \in 1 .. 69 /\ retry \in Nat /\ retry < PS2_RETRIES
  BY TypeFacts
<1>2. CallsFrom(pc') = CallsFrom(pc)
  BY <1>1, SameCall
<1> DEFINE x == (PS2_RETRIES - 1) * CallsFrom(pc)
<1>3. AccessesFrom(pc, retry) = 70 - pc + 6 * (x - retry)
  BY <1>1, Accesses
<1>4. AccessesFrom(pc', retry') = 70 - pc' + 6 * (x - retry)
  BY <1>1, <1>2, Accesses
<1>5. x \in Nat
  <2>1. CallsFrom(pc) \in Nat
    BY <1>1, CallsBound
  <2>2. PS2_RETRIES - 1 \in Nat
    BY Ps2Assumption
  <2> QED BY <2>1, <2>2, MoreCalls
<1> HIDE DEF x
<1>6. AccessesFrom(pc', retry') < AccessesFrom(pc, retry)
  BY <1>1, <1>3, <1>4, <1>5
<1> QED BY <1>1, <1>6, FewerSteps

LEMMA CheckAckFewer ==
  ASSUME TypeInv, CheckAck
  PROVE  StepsLeft' < StepsLeft
<1>1. PICK n \in Calls :
        /\ pc = Start(n) + 5
        /\ polls' = 0
        /\ \/ ~Answer(ACK) /\ retry + 1 < PS2_RETRIES /\ pc' = Start(n) /\ retry' = retry + 1
           \/ Answer(ACK) /\ pc' = pc + 1 /\ retry' = 0
           \/ ~Answer(ACK) /\ pc' = (IF n = 0 THEN Returned ELSE pc + 1) /\ retry' = 0
  BY AckFacts
<1>2. /\ pc \in 1 .. 69 /\ retry \in Nat /\ retry < PS2_RETRIES
      /\ PS2_RETRIES \in Nat /\ 0 < PS2_RETRIES /\ PS2_RETRIES - 1 \in Nat
  BY <1>1, Starts, TypeFacts
<1> DEFINE r == PS2_RETRIES - 1
           x == r * (9 - n)
<1>3. AccessesFrom(pc, retry) = 70 - pc + 6 * (x - retry)
  <2>1. CallsFrom(pc) = 9 - n
    BY <1>1, CallsAt
  <2> QED BY <1>2, <2>1, Accesses
<1>4. n \in Nat /\ n <= 8 /\ Start(n) \in 1 .. 69 /\ (n # 8 => Start(n) + 6 \in 1 .. 69) /\ (n = 8 => Start(n) = 64)
  BY Starts
<1>5. x \in Nat
  <2>1. 9 - n \in Nat
    BY <1>4
  <2> QED BY <1>2, <2>1, MoreCalls
<1>6. CASE retry + 1 < PS2_RETRIES /\ pc' = Start(n) /\ retry' = retry + 1
  <2>1. AccessesFrom(pc', retry') = 70 - pc' + 6 * (x - retry')
    <3>1. CallsFrom(pc') = 9 - n
      BY <1>6, CallsAt
    <3>2. pc' \in 1 .. 69 /\ retry' \in Nat /\ retry' < PS2_RETRIES
      BY <1>2, <1>4, <1>6
    <3>3. AccessesFrom(pc', retry') = 70 - pc' + 6 * ((PS2_RETRIES - 1) * CallsFrom(pc') - retry')
      BY <3>2, Accesses
    <3> QED BY <3>1, <3>3
  <2> HIDE DEF x
  <2>2. AccessesFrom(pc', retry') < AccessesFrom(pc, retry)
    BY <1>1, <1>2, <1>3, <1>4, <1>5, <1>6, <2>1
  <2> QED BY <1>1, <1>2, <1>4, <1>6, <2>2, FewerSteps
<1>7. CASE n # 8 /\ pc' = pc + 1 /\ retry' = 0
  <2> DEFINE y == r * (8 - n)
  <2>1. pc' \in 1 .. 69 /\ pc' = Start(n) + 6
    BY <1>1, <1>4, <1>7
  <2>2. AccessesFrom(pc', retry') = 70 - pc' + 6 * (y - 0)
    <3>1. CallsFrom(pc') = 8 - n
      BY <1>7, <2>1, CallsAt
    <3>2. 0 \in Nat /\ 0 < PS2_RETRIES
      BY <1>2
    <3>3. AccessesFrom(pc', 0) = 70 - pc' + 6 * ((PS2_RETRIES - 1) * CallsFrom(pc') - 0)
      BY <2>1, <3>2, Accesses
    <3> QED BY <1>7, <3>1, <3>3
  <2>3. y \in Nat /\ x = y + r
    <3>1. 8 - n \in Nat /\ 9 - n = 8 - n + 1
      BY <1>4, <1>7
    <3> HIDE DEF r
    <3>2. r \in Nat
      BY <1>2 DEF r
    <3> QED BY <3>1, <3>2, MoreCalls
  <2> HIDE DEF x, y
  <2>4. AccessesFrom(pc', retry') < AccessesFrom(pc, retry)
    BY <1>1, <1>2, <1>3, <1>5, <1>7, <2>1, <2>2, <2>3
  <2>5. retry' \in Nat /\ retry' < PS2_RETRIES /\ polls' = 0
    BY <1>1, <1>2, <1>7
  <2> QED BY <1>2, <2>1, <2>4, <2>5, FewerSteps
<1>8. CASE pc' >= Returned
  <2>1. pc' >= 70 /\ StepsLeft' = 0
    BY <1>1, <1>4, <1>8, Numbers DEF StepsLeft, StepsFrom
  <2>2. StepsLeft # 0 /\ StepsLeft \in Nat
    BY <1>2, StepsBounded, Numbers
  <2> QED BY <2>1, <2>2
<1>9. n = 8 /\ pc' = pc + 1 => pc' >= Returned
  BY <1>1, <1>4, Numbers
<1>10. n = 0 /\ pc' = Returned => pc' >= Returned
  BY Numbers
<1> QED BY <1>1, <1>6, <1>7, <1>8, <1>9, <1>10

LEMMA PollFewer ==
  ASSUME TypeInv, WaitInputEmpty \/ WaitOutputFull
  PROVE  StepsLeft' < StepsLeft
<1>1. pc <= 69
  BY AtPlace DEF WaitInputEmpty, WaitOutputFull
<1>2. output.full \in BOOLEAN
  BY DEF TypeInv, TypeOK
<1>3. PICK ready \in BOOLEAN : Poll(ready)
  BY <1>2 DEF WaitInputEmpty, WaitOutputFull
<1>4. pc <= 68 /\ \A n \in Calls : pc # Start(n) + 5
  <2>1. Program[pc].op \in {"wait_input", "wait_output"}
    BY DEF WaitInputEmpty, WaitOutputFull, At
  <2>2. Program[69].op = "ack" /\ \A n \in Calls : Program[Start(n) + 5].op = "ack"
    <3>1. 8 \in Calls /\ Start(8) + 5 = 69
      BY DEF Calls, Start
    <3> QED BY <3>1, CallOperations
  <2> QED BY <1>1, <2>1, <2>2, TypeFacts
<1>5. CASE polls < PS2_TIMEOUT /\ polls' = polls + 1 /\ pc' = pc /\ retry' = retry
  <2>1. AccessesFrom(pc, retry) \in Nat
    <3>1. pc \in 1 .. 69
      BY <1>1, TypeFacts
    <3> QED BY <3>1, Accesses, TypeFacts
  <2>2. AccessesFrom(pc, retry) * (PS2_TIMEOUT + 1) \in Nat
    BY <2>1, TypeFacts
  <2>3. /\ StepsLeft = AccessesFrom(pc, retry) * (PS2_TIMEOUT + 1) - polls
        /\ StepsLeft' = AccessesFrom(pc, retry) * (PS2_TIMEOUT + 1) - (polls + 1)
    BY <1>1, <1>5, Numbers, TypeFacts DEF StepsLeft, StepsFrom
  <2> QED BY <2>2, <2>3, TypeFacts
<1>6. CASE pc' = pc + 1 /\ polls' = 0 /\ retry' = retry
  BY <1>4, <1>6, NextPlaceFewer
<1>7. retry' = retry
  BY <1>1, <1>3, PollFacts
<1> QED BY <1>1, <1>3, <1>5, <1>6, <1>7, PollFacts

LEMMA MouseInitFewer ==
  ASSUME TypeInv, MouseInit
  PROVE  StepsLeft' < StepsLeft
<1>1. CASE WaitInputEmpty \/ WaitOutputFull
  BY <1>1, PollFewer
<1>2. CASE CheckAck
  BY <1>2, CheckAckFewer
<1>3. CASE Out \/ Drop \/ ConfigIn \/ ConfigOut \/ CheckId
  <2>1. pc' = pc + 1 /\ polls' = 0 /\ retry' = retry
    BY <1>3 DEF Out, Drop, ConfigIn, ConfigOut, CheckId, Goto, localVars
  <2>2. pc \in 1 .. 69 /\ Program[pc].op \in {"out", "drop", "config_in", "config_out", "id"}
    BY <1>3, AtPlace DEF Out, Drop, ConfigIn, ConfigOut, CheckId
  <2>3. Program[69].op = "ack" /\ \A n \in Calls : Program[Start(n) + 5].op = "ack"
    <3>1. 8 \in Calls /\ Start(8) + 5 = 69
      BY DEF Calls, Start
    <3> QED BY <3>1, CallOperations
  <2>4. pc <= 68 /\ \A n \in Calls : pc # Start(n) + 5
    BY <2>2, <2>3
  <2> QED BY <2>1, <2>4, NextPlaceFewer
<1> QED BY <1>1, <1>2, <1>3 DEF MouseInit

-----------------------------------------------------------------------------
(* The theorems *)

LEMMA Inductive == Spec => []IInv
<1>1. Init => IInv
  BY InitType, InitAgreement, InitAtOnce, InitAnswering DEF IInv
<1>2. IInv /\ [Next]_vars => IInv'
  BY TypeNext, AgreementNext, AtOnceNext, WheelAnswersNext DEF IInv
<1> QED BY <1>1, <1>2, PTL DEF Spec

\* Every variable has its type, whatever the bytes that are on the port.
THEOREM TypeCorrect == Spec => []TypeOK
<1>1. IInv => TypeOK
  BY DEF IInv, TypeInv
<1> QED BY <1>1, Inductive, PTL

\* A driver that expects the fourth byte of the packets has a mouse that sends it,
\* however late the answers are, while no key is pressed.
THEOREM WheelIsRealAlways == Spec => []WheelIsReal
<1>1. IInv => WheelIsReal
  BY DEF IInv, Agreement, OnlyWheelSaysThree, WheelIsReal
<1> QED BY <1>1, Inductive, PTL

\* mouse_init() changes the two bits of the mouse and no other setting, and both
\* devices are on again, whatever the mouse answers and the user types.
THEOREM SettingsKeptAlways == Spec => []SettingsKept
<1>1. IInv => SettingsKept
  BY LastConfig, Numbers DEF IInv, AtOnce, Writing, SettingsKept, Initialised
<1> QED BY <1>1, Inductive, PTL

\* The interrupt handlers take over a port whose byte has its IRQ latched, and no
\* IRQ1 that no key has raised.
THEOREM PortHandedOverAlways == Spec => []PortHandedOver
<1>1. IInv => PortHandedOver
  BY Numbers DEF IInv, AtOnce, Latched, PortHandedOver, Initialised
<1> QED BY <1>1, Inductive, PTL

\* mouse_init() enables the wheel exactly when the mouse has one, when no key is
\* pressed and each answer comes within a wait.
THEOREM WheelFoundAlways == Spec => []WheelFound
<1>1. IInv => WheelFound
  <2> SUFFICES ASSUME IInv, Initialised, pressed = 0, InTimeAll
               PROVE  has_scroll_wheel <=> machine.kind = "wheel"
    BY DEF WheelFound
  <2>1. has_scroll_wheel => machine.kind = "wheel"
    BY DEF IInv, Agreement, OnlyWheelSaysThree, WheelMode
  <2>2. machine.kind = "wheel" => has_scroll_wheel
    BY Numbers DEF IInv, WheelAnswers, Answering, Initialised
  <2> QED BY <2>1, <2>2
<1> QED BY <1>1, Inductive, PTL

\* mouse_init() takes a bounded number of steps, whatever the controller, the mouse
\* and the user do: each port access and each turn of a wait leaves fewer of them,
\* no step of a device adds one, and there is none left exactly when it has
\* returned (mouse.c 8-12).  It is the ranking behind BootGoesOn, which adds that
\* the processor runs.
THEOREM BootIsBounded ==
  Spec => /\ [](StepsLeft \in 0 .. MostSteps /\ (StepsLeft = 0 <=> pc >= Returned))
          /\ [][pc < Returned => IF MouseInit THEN StepsLeft' < StepsLeft
                                ELSE StepsLeft' = StepsLeft]_vars
<1>1. IInv => TypeInv
  BY DEF IInv
<1>2. IInv => StepsLeft \in 0 .. MostSteps /\ (StepsLeft = 0 <=> pc >= Returned)
  BY <1>1, StepsBounded
<1>3. IInv /\ [Next]_vars
        => [pc < Returned => IF MouseInit THEN StepsLeft' < StepsLeft
                             ELSE StepsLeft' = StepsLeft]_vars
  <2> SUFFICES ASSUME IInv, Next, pc < Returned
               PROVE  IF MouseInit THEN StepsLeft' < StepsLeft ELSE StepsLeft' = StepsLeft
    OBVIOUS
  <2>1. CASE MouseInit
    BY <1>1, <2>1, MouseInitFewer
  <2>2. CASE ~MouseInit
    <3>1. Hardware
      BY <2>2, Numbers, <1>1, TypeFacts
         DEF Next, Driver, Reboot, RebootStart, RebootPoll, RebootCommand, Rest
    <3>2. UNCHANGED driverVars
      BY <3>1 DEF Hardware, Controller, ControllerReads, ControllerReplies, MouseSends,
                  PressKey, KeyboardSends
    <3>3. UNCHANGED <<pc, polls, retry>>
      BY <3>2 DEF driverVars, localVars
    <3> QED BY <2>2, <3>3 DEF StepsLeft, StepsFrom, AccessesFrom
  <2> QED BY <2>1, <2>2
<1> QED BY <1>2, <1>3, Inductive, PTL DEF Spec

=============================================================================
