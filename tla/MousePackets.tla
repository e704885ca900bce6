---------------------------- MODULE MousePackets ----------------------------
(***************************************************************************)
(* The packets of the PS/2 mouse as mouse_interrupt_handler() puts them    *)
(* together, one byte for each IRQ12 (mouse.c 60-71 and 151-189), and the  *)
(* scancodes it pushes for the wheel.  Bytes can be lost on the way, and   *)
(* the dialogue of mouse_init() can leave an answer and stray IRQs behind. *)
(***************************************************************************)
EXTENDS Integers, Sequences

CONSTANTS
  Headers,    \* first bytes of packets, with bit 3 set
  Movements,  \* second and third bytes
  Wheels,     \* fourth bytes: the wheel, a signed byte
  Leftovers,  \* bytes the dialogue may have left before the first packet
  KeyByte,    \* a scancode that can be on port 0x60 when IRQ12 comes
  MaxSlips,   \* how many bytes are lost or left over
  MaxWrong    \* where the count of misread bytes stops

Byte == 0 .. 255
Bit3(byte) == (byte \div 8) % 2 = 1

ASSUME PacketAssumption ==
  /\ Headers \subseteq {b \in Byte : Bit3(b)}
  /\ Movements \subseteq Byte /\ Wheels \subseteq Byte
  /\ Leftovers \subseteq Byte /\ KeyByte \in Byte
  /\ MaxSlips \in Nat /\ MaxWrong \in Nat

VARIABLES
  has_scroll_wheel, cycle,   \* the statics of mouse.c
  stream,   \* the bytes of the packet being sent that are still to come
  calm,     \* no movement and no wheel of this mouse has bit 3
  slips,    \* how many bytes were lost, or left over by the dialogue
  wrong     \* how often the handler pushed what the mouse did not say

vars == <<has_scroll_wheel, cycle, stream, calm, slips, wrong>>

WHEEL_UP   == 72
WHEEL_DOWN == 80
NoPush     == 0

\* The mouse has the wheel mode that mouse_init() found (Ps2!WheelFound).
PacketSize == IF has_scroll_wheel THEN 4 ELSE 3

Signed(byte) == IF byte < 128 THEN byte ELSE byte - 256

ScancodeOf(byte) == CASE Signed(byte) < 0 -> WHEEL_UP
                      [] Signed(byte) > 0 -> WHEEL_DOWN
                      [] OTHER            -> NoPush

-----------------------------------------------------------------------------
(* The mouse *)

Sent(bytes) == {b \in bytes : ~calm \/ ~Bit3(b)}

Packets ==
  LET moves == {<<h, x, y>> : h \in Headers, x \in Sent(Movements), y \in Sent(Movements)}
  IN  IF has_scroll_wheel THEN {Append(m, w) : m \in moves, w \in Sent(Wheels)} ELSE moves

SendPacket ==
  /\ stream = << >>
  /\ stream' \in Packets
  /\ UNCHANGED <<has_scroll_wheel, cycle, calm, slips, wrong>>

LoseByte ==
  /\ stream # << >> /\ slips < MaxSlips
  /\ stream' = Tail(stream)
  /\ slips' = slips + 1
  /\ UNCHANGED <<has_scroll_wheel, cycle, calm, wrong>>

\* What the user did with the wheel, when this byte is the one that says it: the
\* upper half of the bytes are movements up, the rest but 0 movements down.  (An
\* answer of the dialogue is taken for a last byte: one misreading at most.)
Meant(byte) ==
  LET last == has_scroll_wheel /\ Len(stream) = 1
  IN  CASE last /\ byte \in 128 .. 255 -> WHEEL_UP
        [] last /\ byte \in 1 .. 127   -> WHEEL_DOWN
        [] OTHER                       -> NoPush

-----------------------------------------------------------------------------
(* mouse_interrupt_handler() *)

\* Bug variant: any byte can start a packet.
AnyByte(byte)  == TRUE
MayStart(byte) == Bit3(byte)

\* Bug variant: every packet has the byte of the wheel.
AlwaysFour(place) == (place + 1) % 4
NextPlace(place)  == (place + 1) % PacketSize

\* The handler stores a byte in packet[cycle], of which it only reads the byte of
\* the wheel it has just stored; pushed goes to keyboard_push_scancode().
Take(byte, pushed) ==
  /\ cycle' = IF cycle = 0 /\ ~MayStart(byte) THEN 0 ELSE NextPlace(cycle)
  /\ pushed = IF has_scroll_wheel /\ cycle = 3 THEN ScancodeOf(byte) ELSE NoPush

\* IRQ12 with a byte of the mouse on port 0x60.
MouseByte ==
  /\ stream # << >>
  /\ \E pushed \in {NoPush, WHEEL_UP, WHEEL_DOWN} :
       /\ Take(Head(stream), pushed)
       /\ wrong' = IF pushed = Meant(Head(stream)) \/ wrong = MaxWrong
                   THEN wrong ELSE wrong + 1
  /\ stream' = Tail(stream)
  /\ UNCHANGED <<has_scroll_wheel, calm, slips>>

\* Bug variant: the source of the byte is not looked at.
FromAnyDevice(source) == source # "nothing"
FromMouse(source)     == source = "mouse"

\* IRQ12 with nothing to read, or with a byte of the keyboard.
StrayIrq ==
  \E source \in {"nothing", "keyboard"} :
    /\ IF FromMouse(source)
       THEN \E pushed \in {NoPush, WHEEL_UP, WHEEL_DOWN} : Take(KeyByte, pushed)
       ELSE UNCHANGED cycle
    /\ UNCHANGED <<has_scroll_wheel, stream, calm, slips, wrong>>

-----------------------------------------------------------------------------
(* The specification *)

Init ==
  /\ has_scroll_wheel \in BOOLEAN /\ calm \in BOOLEAN
  /\ cycle = 0
  /\ stream \in {<< >>} \cup {<<b>> : b \in Leftovers}
  /\ slips = Len(stream) /\ slips <= MaxSlips
  /\ wrong = 0

Next == SendPacket \/ LoseByte \/ MouseByte \/ StrayIrq

Spec == Init /\ [][Next]_vars

\* The user keeps moving the mouse, and its bytes are read.
FairSpec == Spec /\ WF_vars(SendPacket) /\ WF_vars(MouseByte)

-----------------------------------------------------------------------------
(* Properties *)

\* Every variable has its type: in particular the index of packet.
TypeOK ==
  /\ has_scroll_wheel \in BOOLEAN /\ calm \in BOOLEAN
  /\ cycle \in 0 .. PacketSize - 1
  /\ stream \in Seq(Byte) /\ Len(stream) <= 4
  /\ slips \in 0 .. MaxSlips /\ wrong \in 0 .. MaxWrong

\* The handler is in step with the mouse: it has as many bytes of the packet
\* as the mouse has sent.
InStep == cycle = (PacketSize - Len(stream)) % PacketSize

\* After a lost byte or an answer left by the dialogue, bit 3 of the first byte
\* brings the handler back in step (mouse.c 61 and 167-173), if the bytes of the
\* movements do not have it too.
BackInStep == calm => <>[]InStep

\* The wheel is a pair of arrow keys (inc/mouse.h 10-13): a step of the wheel
\* pushes one scancode, in its direction, and nothing else pushes one, until a
\* byte is lost or left over.  If the mouse is calm each such slip costs three
\* misreadings of the wheel at most: a scancode for a byte that is not the
\* wheel's, or a step of the wheel missed (mouse.c 167-188).
WheelIsArrows == slips = 0 \/ calm => wrong <= 3 * slips
=============================================================================
