\* The smallest ring, with fairness.
CONSTANTS
  left = left
  right = right
  None = None
  KEY_BUFFER_SIZE = 2
  Scancodes <- MCScancodes
  WHEEL_UP = "wheel"
  WHEEL_DOWN = "wheel"
  CtrlKeys <- MCCtrlKeys
  KEY_CTRL_PRESSED = "pressed"
  KEY_CTRL_RELEASED = "released"
SPECIFICATION PathFairSpec
PROPERTIES ScancodesTaken IrqsDelivered
