-------------------------------- MODULE Ps2 ---------------------------------
(***************************************************************************)
(* The dialogue of mouse_init() with the PS/2 controller, the mouse and    *)
(* the keyboard (mouse.c 73-149), and the one command reboot sends to the  *)
(* same controller (shell.c 112-122).  The driver polls, the devices are   *)
(* asynchronous: the controller reads its input buffer later, the mouse    *)
(* answers later, the user may press a key.  Bytes are numbers, as in the  *)
(* code, because one byte is taken for another one: a scancode for an      *)
(* answer or for the configuration.                                        *)
(***************************************************************************)
EXTENDS Naturals, Sequences

CONSTANTS
  PS2_TIMEOUT,     \* how many times a wait reads the status port
  PS2_RETRIES,     \* how many times mouse_write() sends its byte
  Machines,        \* the machines the kernel may run on, see MachineType
  KeyBytes,        \* the scancodes of the keys the user presses
  BootConfig       \* the configuration byte as the firmware left it

Lags == {"none", "short", "long"}
Byte == 0 .. 255

\* How late the controller and the mouse may be, which mouse there is, and how
\* many keys the user presses during the dialogue.
MachineType == [controller : Lags, mouse : Lags, kind : {"none", "plain", "wheel"},
                keys : Nat]

VARIABLES
  pc, polls, answered, retry, config,   \* mouse_init() and the functions it calls
  has_scroll_wheel,
  input,             \* the byte the controller has not read yet
  expecting,         \* where the next byte on the data port goes
  controller_config, \* the configuration byte of the controller
  reply,             \* the controller's own answers not on port 0x60 yet
  output,            \* port 0x60: the last byte, its source, is it still unread
  mouse, mouse_out,  \* the mouse, and its bytes not on port 0x60 yet
  key_out, pressed,  \* the same of the keyboard, how many keys were pressed
  requested,         \* the IRQs latched by the PIC
  reset,             \* the controller has reset the machine
  machine            \* the machine, which does not change

localVars      == <<answered, retry, config, has_scroll_wheel>>
driverVars     == <<pc, polls, localVars>>
controllerVars == <<input, expecting, controller_config, reply>>
heldVars       == <<expecting, controller_config, reply, output>>
deviceVars     == <<mouse, mouse_out, key_out, pressed, machine>>
worldVars      == <<deviceVars, requested, reset>>
vars           == <<driverVars, controllerVars, output, worldVars>>

DATA    == 96    \* PS2_DATA_PORT, 0x60
COMMAND == 100   \* PS2_COMMAND_PORT, 0x64

READ_CONFIG      == 32
WRITE_CONFIG     == 96
DISABLE_MOUSE    == 167
ENABLE_MOUSE     == 168
DISABLE_KEYBOARD == 173
ENABLE_KEYBOARD  == 174
WRITE_TO_MOUSE   == 212
REBOOT           == 254

GET_ID          == 242
SET_SAMPLE_RATE == 243
ENABLE_DATA     == 244
SET_DEFAULTS    == 246
ACK             == 250
RESEND          == 254
ID_WHEEL        == 3

\* Bits of the configuration byte.
KEYBOARD_IRQ   == 0
MOUSE_IRQ      == 1
KEYBOARD_CLOCK == 4   \* set when the keyboard is disabled
MOUSE_CLOCK    == 5   \* set when the mouse is disabled
TRANSLATION    == 6   \* to the scancodes that keyboard.c knows

HasBit(byte, bit)   == (byte \div 2^bit) % 2 = 1
SetBit(byte, bit)   == IF HasBit(byte, bit) THEN byte ELSE byte + 2^bit
ClearBit(byte, bit) == IF HasBit(byte, bit) THEN byte - 2^bit ELSE byte

\* The firmware leaves a keyboard that works: the kernel never sets these bits.
ASSUME Ps2Assumption ==
  /\ PS2_TIMEOUT \in Nat \ {0} /\ PS2_RETRIES \in Nat \ {0}
  /\ Machines \subseteq MachineType
  /\ KeyBytes \subseteq Byte /\ BootConfig \in Byte
  /\ HasBit(BootConfig, KEYBOARD_IRQ) /\ HasBit(BootConfig, TRANSLATION)

NoInput == [port |-> 0, byte |-> 0]
Irq(source) == IF source = "mouse" THEN 12 ELSE 1

-----------------------------------------------------------------------------
(* The hardware *)

Enabled(source) ==
  ~HasBit(controller_config, IF source = "mouse" THEN MOUSE_CLOCK ELSE KEYBOARD_CLOCK)

\* A byte comes on port 0x60 when the last one has been read, and raises the
\* IRQ of its device unless the configuration says otherwise.
PutOutput(byte, source) ==
  /\ ~output.full
  /\ output' = [byte |-> byte, from |-> source, full |-> TRUE]
  /\ requested' =
       IF /\ HasBit(controller_config, IF source = "mouse" THEN MOUSE_IRQ ELSE KEYBOARD_IRQ)
          /\ Enabled(source)
       THEN requested \cup {Irq(source)}
       ELSE requested

\* A command of the command port: the bits it changes, what it announces.
Command(byte) ==
  /\ controller_config' =
       CASE byte = DISABLE_MOUSE    -> SetBit(controller_config, MOUSE_CLOCK)
         [] byte = ENABLE_MOUSE     -> ClearBit(controller_config, MOUSE_CLOCK)
         [] byte = DISABLE_KEYBOARD -> SetBit(controller_config, KEYBOARD_CLOCK)
         [] byte = ENABLE_KEYBOARD  -> ClearBit(controller_config, KEYBOARD_CLOCK)
         [] OTHER                   -> controller_config
  /\ expecting' = CASE byte = WRITE_CONFIG   -> "config"
                    [] byte = WRITE_TO_MOUSE -> "mouse"
                    [] OTHER                 -> "keyboard"
  /\ reply' = IF byte = READ_CONFIG THEN Append(reply, controller_config) ELSE reply
  /\ reset' = (byte = REBOOT)
  /\ UNCHANGED <<mouse, mouse_out, key_out>>

\* The mouse with one more byte: the state it is in, and what it answers.  It
\* has a wheel mode, entered by the sample rates 200, 100 and 80 in a row.
RatesWith(rate) == SubSeq(Append(mouse.rates, rate), Len(mouse.rates) - 1, Len(mouse.rates) + 1)

MouseTakes(byte) ==
  IF mouse.argument
  THEN /\ mouse' = [mouse EXCEPT
            !.argument = FALSE,
            !.rates = RatesWith(byte),
            !.id = IF machine.kind = "wheel" /\ RatesWith(byte) = <<200, 100, 80>>
                   THEN ID_WHEEL ELSE @]
       /\ mouse_out' = Append(mouse_out, ACK)
  ELSE /\ mouse' = [mouse EXCEPT
            !.argument = (byte = SET_SAMPLE_RATE),
            !.reporting = CASE byte = ENABLE_DATA  -> TRUE
                            [] byte = SET_DEFAULTS -> FALSE
                            [] OTHER               -> @]
       /\ mouse_out' = mouse_out \o
            CASE byte = GET_ID -> <<ACK, mouse.id>>
              [] byte \in {SET_SAMPLE_RATE, ENABLE_DATA, SET_DEFAULTS} -> <<ACK>>
              [] OTHER -> <<RESEND>>

\* A byte of the data port goes where the last command said.
Data(byte) ==
  /\ controller_config' = IF expecting = "config" THEN byte ELSE controller_config
  /\ IF expecting = "mouse" /\ machine.kind # "none"
     THEN MouseTakes(byte)
     ELSE UNCHANGED <<mouse, mouse_out>>
  /\ key_out' = IF expecting = "keyboard" THEN Append(key_out, ACK) ELSE key_out
  /\ expecting' = "keyboard"
  /\ UNCHANGED <<reply, reset>>

ControllerReads ==
  /\ input # NoInput
  /\ IF input.port = COMMAND THEN Command(input.byte) ELSE Data(input.byte)
  /\ input' = NoInput
  /\ UNCHANGED <<driverVars, output, pressed, requested, machine>>

ControllerReplies ==
  /\ reply # << >>
  /\ PutOutput(Head(reply), "controller")
  /\ reply' = Tail(reply)
  /\ UNCHANGED <<driverVars, input, expecting, controller_config, deviceVars, reset>>

MouseSends ==
  /\ mouse_out # << >> /\ Enabled("mouse")
  /\ PutOutput(Head(mouse_out), "mouse")
  /\ mouse_out' = Tail(mouse_out)
  /\ UNCHANGED <<driverVars, controllerVars, mouse, key_out, pressed, reset, machine>>

PressKey ==
  /\ pressed < machine.keys
  /\ \E key \in KeyBytes : key_out' = Append(key_out, key)
  /\ pressed' = pressed + 1
  /\ UNCHANGED <<driverVars, controllerVars, output, mouse, mouse_out, requested, reset, machine>>

KeyboardSends ==
  /\ key_out # << >> /\ Enabled("keyboard")
  /\ PutOutput(Head(key_out), "keyboard")
  /\ key_out' = Tail(key_out)
  /\ UNCHANGED <<driverVars, controllerVars, mouse, mouse_out, pressed, reset, machine>>

Controller == ControllerReads \/ ControllerReplies
Hardware   == Controller \/ MouseSends \/ PressKey \/ KeyboardSends

\* Has a device something to do at once?
ControllerBusy == input # NoInput \/ (reply # << >> /\ ~output.full)
MouseBusy      == mouse_out # << >> /\ ~output.full /\ Enabled("mouse")

\* How late a device may be when the driver reads or writes a port: never; late,
\* but not for a whole wait (last: the wait gives up next); any delay at all.
InTime(busy, lag, last) == ~busy \/ lag = "long" \/ (lag = "short" /\ ~last)

DevicesInTime(last) == /\ InTime(ControllerBusy, machine.controller, last)
                       /\ InTime(MouseBusy, machine.mouse, last)

-----------------------------------------------------------------------------
(* mouse_init(), as the list of its port accesses *)

Outb(port, byte) == [op |-> "out", port |-> port, byte |-> byte]
Do(op)           == [op |-> op, port |-> DATA, byte |-> 0]

\* One try of mouse_write(): the check of the answer starts it again.
TrySteps == 6
MouseWrite(data) ==
  <<Do("wait_input"), Outb(COMMAND, WRITE_TO_MOUSE), Do("wait_input"), Outb(DATA, data),
    Do("wait_output"), Do("ack")>>

\* Bug variant: the pending byte stays.
NoDrop == <<Outb(COMMAND, DISABLE_MOUSE), Outb(COMMAND, DISABLE_KEYBOARD)>>
Quiet  == <<Outb(COMMAND, DISABLE_MOUSE), Outb(COMMAND, DISABLE_KEYBOARD), Do("drop")>>

Configure ==
  <<Do("wait_input"), Outb(COMMAND, READ_CONFIG), Do("wait_output"), Do("config_in"),
    Do("wait_input"), Outb(COMMAND, WRITE_CONFIG), Do("wait_input"), Do("config_out"),
    Outb(COMMAND, ENABLE_KEYBOARD), Outb(COMMAND, ENABLE_MOUSE)>>

FirstAck == Len(Quiet) + Len(Configure) + TrySteps

\* Bug variant: the rates in another order.
RatesSwapped == MouseWrite(SET_SAMPLE_RATE) \o MouseWrite(100)
                  \o MouseWrite(SET_SAMPLE_RATE) \o MouseWrite(200)
                  \o MouseWrite(SET_SAMPLE_RATE) \o MouseWrite(80)
Rates == MouseWrite(SET_SAMPLE_RATE) \o MouseWrite(200)
           \o MouseWrite(SET_SAMPLE_RATE) \o MouseWrite(100)
           \o MouseWrite(SET_SAMPLE_RATE) \o MouseWrite(80)

Program == Quiet \o Configure \o MouseWrite(SET_DEFAULTS) \o Rates
             \o MouseWrite(GET_ID) \o <<Do("wait_output"), Do("id")>>
             \o MouseWrite(ENABLE_DATA)

\* After the program: back in kernel_main(), then in the command reboot.
Returned    == Len(Program) + 1
RebootWait  == Len(Program) + 2
RebootWrite == Len(Program) + 3
Rebooted    == Len(Program) + 4

At(op)  == pc < Returned /\ Program[pc].op = op
Goto(i) == pc' = i /\ polls' = 0

\* inb(PS2_DATA_PORT): the byte is read, an old one if no new one has come.
ReadData == output' = [output EXCEPT !.full = FALSE]

\* outb(): a byte the controller has not read yet is overwritten.
WritePort(port, byte) == input' = [port |-> port, byte |-> byte]

Out ==
  /\ At("out") /\ DevicesInTime(FALSE)
  /\ WritePort(Program[pc].port, Program[pc].byte)
  /\ Goto(pc + 1)
  /\ UNCHANGED <<localVars, heldVars, worldVars>>

\* One turn of a wait: done when Ready or after PS2_TIMEOUT reads of the status.
\* Bug variant: it reads it once too many.
GivesUpLate(n) == n > PS2_TIMEOUT
GivesUp(n)     == n = PS2_TIMEOUT

Poll(ready) ==
  /\ DevicesInTime(polls + 1 >= PS2_TIMEOUT)
  /\ IF ~ready /\ ~GivesUp(polls)
     THEN polls' = polls + 1 /\ UNCHANGED pc
     ELSE Goto(pc + 1)
  /\ UNCHANGED <<retry, config, has_scroll_wheel, controllerVars, output, worldVars>>

WaitInputEmpty ==
  /\ At("wait_input")
  /\ Poll(input = NoInput)
  /\ UNCHANGED answered

WaitOutputFull ==
  /\ At("wait_output")
  /\ Poll(output.full /\ polls < PS2_TIMEOUT)
  /\ answered' = (output.full /\ polls < PS2_TIMEOUT)

Drop ==
  /\ At("drop") /\ DevicesInTime(FALSE)
  /\ ReadData
  /\ Goto(pc + 1)
  /\ UNCHANGED <<localVars, controllerVars, worldVars>>

\* Bug variant: no interrupt for the mouse.
OnlyClock(byte) == ClearBit(byte, MOUSE_CLOCK)
MouseOn(byte)   == ClearBit(SetBit(byte, MOUSE_IRQ), MOUSE_CLOCK)

ConfigIn ==
  /\ At("config_in") /\ DevicesInTime(FALSE)
  /\ ReadData
  /\ config' = MouseOn(output.byte)
  /\ Goto(pc + 1)
  /\ UNCHANGED <<answered, retry, has_scroll_wheel, controllerVars, worldVars>>

ConfigOut ==
  /\ At("config_out") /\ DevicesInTime(FALSE)
  /\ WritePort(DATA, config)
  /\ Goto(pc + 1)
  /\ UNCHANGED <<localVars, heldVars, worldVars>>

\* wait_output_full() && inb(PS2_DATA_PORT) == expected: no answer, no read.
ReadAnswer == IF answered THEN ReadData ELSE UNCHANGED output
Answer(byte) == answered /\ output.byte = byte

\* Bug variant: the tries are not counted.
SameTry(n) == n
NextTry(n) == n + 1

CheckAck ==
  /\ At("ack") /\ DevicesInTime(FALSE)
  /\ ReadAnswer
  /\ IF ~Answer(ACK) /\ NextTry(retry) < PS2_RETRIES
     THEN /\ Goto(pc - TrySteps + 1)
          /\ retry' = NextTry(retry)
     ELSE /\ Goto(IF ~Answer(ACK) /\ pc = FirstAck THEN Returned ELSE pc + 1)
          /\ retry' = 0
  /\ UNCHANGED <<answered, config, has_scroll_wheel, controllerVars, worldVars>>

\* Bug variant: any answer will do.
AnyId      == answered
IsWheelId  == Answer(ID_WHEEL)

CheckId ==
  /\ At("id") /\ DevicesInTime(FALSE)
  /\ ReadAnswer
  /\ has_scroll_wheel' = IsWheelId
  /\ Goto(pc + 1)
  /\ UNCHANGED <<answered, retry, config, controllerVars, worldVars>>

MouseInit == Out \/ WaitInputEmpty \/ WaitOutputFull \/ Drop \/ ConfigIn \/ ConfigOut
             \/ CheckAck \/ CheckId

-----------------------------------------------------------------------------
(* reboot *)

RebootStart ==
  /\ pc = Returned
  /\ Goto(RebootWait)
  /\ UNCHANGED <<localVars, controllerVars, output, worldVars>>

\* Bug variant: the wait tests the other buffer, which keys may keep full.
OutputFull == output.full
InputFull  == input # NoInput

RebootPoll ==
  /\ pc = RebootWait
  /\ Goto(IF InputFull THEN pc ELSE RebootWrite)
  /\ UNCHANGED <<localVars, controllerVars, output, worldVars>>

RebootCommand ==
  /\ pc = RebootWrite
  /\ WritePort(COMMAND, REBOOT)
  /\ Goto(Rebooted)
  /\ UNCHANGED <<localVars, heldVars, worldVars>>

Reboot == RebootPoll \/ RebootCommand

\* The rest of the kernel does not touch the command port.
Rest == pc \in {Returned, Rebooted} /\ UNCHANGED vars

-----------------------------------------------------------------------------
(* The specification *)

\* After remap_pic(), which clears the latched IRQs, with the controller as the
\* firmware left it, and maybe the byte of a key pressed in the boot menu.
Init ==
  /\ pc = 1 /\ polls = 0 /\ answered = FALSE /\ retry = 0 /\ config = 0
  /\ has_scroll_wheel = FALSE
  /\ input = NoInput /\ expecting = "keyboard" /\ reply = << >>
  /\ controller_config = BootConfig
  /\ \E full \in BOOLEAN, key \in KeyBytes :
       output = [byte |-> key, from |-> "keyboard", full |-> full]
  /\ machine \in Machines
  /\ mouse = [id |-> 0, rates |-> <<0, 0, 100>>, argument |-> FALSE, reporting |-> FALSE]
  /\ mouse_out = << >> /\ key_out = << >> /\ pressed = 0
  /\ requested = {}
  /\ reset = FALSE

Driver == MouseInit \/ Reboot

Next == Driver \/ RebootStart \/ Hardware \/ Rest

Spec == Init /\ [][Next]_vars

\* The processor runs, and a device whose delay has a bound does its work;
\* nothing is asked of the others.
FairSpec == /\ Spec
            /\ WF_vars(Driver)
            /\ WF_vars(machine.controller # "long" /\ Controller)
            /\ WF_vars(machine.mouse # "long" /\ MouseSends)

-----------------------------------------------------------------------------
(* Properties *)

Source == {"keyboard", "mouse", "controller"}

\* Every variable has its type.
TypeOK ==
  /\ pc \in 1 .. Rebooted
  /\ polls \in 0 .. PS2_TIMEOUT
  /\ answered \in BOOLEAN
  /\ retry \in 0 .. PS2_RETRIES - 1
  /\ config \in Byte
  /\ has_scroll_wheel \in BOOLEAN
  /\ input \in [port : {0, DATA, COMMAND}, byte : Byte]
  /\ expecting \in {"keyboard", "mouse", "config"}
  /\ controller_config \in Byte
  /\ output \in [byte : Byte, from : Source, full : BOOLEAN]
  /\ reply \in Seq(Byte) /\ mouse_out \in Seq(Byte) /\ key_out \in Seq(Byte)
  /\ requested \subseteq {1, 12}
  /\ reset \in BOOLEAN

Initialised == pc = Returned /\ input = NoInput

Silent   == machine.controller = "long"
InTimeAll == machine.controller = "none" /\ machine.mouse # "long"

\* mouse_init() enables the wheel exactly when the mouse has one, if no key is
\* pressed and the devices answer within a wait (inc/mouse.h 5-8, mouse.c 139-146).
WheelFound ==
  Initialised /\ pressed = 0 /\ InTimeAll
    => (has_scroll_wheel <=> machine.kind = "wheel")

\* The driver and the mouse agree on the size of the packets: a driver that
\* expects the fourth byte talks to a mouse that sends it, even if answers are
\* late or lost, while no key is pressed (mouse.c 53-58).
WheelIsReal ==
  Initialised /\ pressed = 0 => (has_scroll_wheel => mouse.id = ID_WHEEL)

\* Only the two mouse bits of the configuration change, the keyboard settings
\* are kept, whatever the mouse and the user do (mouse.c 115-129); both devices
\* are on again.
SettingsKept ==
  Initialised /\ machine.controller = "none"
    => controller_config = ClearBit(MouseOn(BootConfig), KEYBOARD_CLOCK)

\* The interrupt handlers take over port 0x60 as the dialogue leaves it: a byte
\* left there has its IRQ latched, without which no handler would ever read it
\* and no other byte could come; and, when no key was pressed, no IRQ1 is left
\* for keyboard_interrupt_handler(), which would make up a scancode from an old
\* byte (keyboard.c 283-287, mouse.c 112).  A late controller may lose the
\* configuration, and the interrupt of the mouse with it.
PortHandedOver ==
  Initialised /\ machine.controller = "none" =>
    /\ output.full => Irq(output.from) \in requested
    /\ pressed = 0 => 1 \notin requested

\* The boot does not hang, whatever the controller and the mouse do and when
\* there is no mouse: every wait is bounded (mouse.c 8-12).
BootGoesOn == <>(pc >= Returned)

\* reboot resets the machine, even with bytes nobody reads on the data port,
\* if the controller still reads its input.
RebootResets == pc = RebootWait ~> reset \/ Silent
=============================================================================
