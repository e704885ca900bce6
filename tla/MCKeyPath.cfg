\* A ring of three slots (two usable), both Ctrl keys and a wheel.
CONSTANTS
  left = left
  right = right
  None = None
  KEY_BUFFER_SIZE = 3
  Scancodes <- MCScancodes
  WHEEL_UP = "wheel"
  WHEEL_DOWN = "wheel"
  CtrlKeys <- MCCtrlKeys
  KEY_CTRL_PRESSED = "pressed"
  KEY_CTRL_RELEASED = "released"
SPECIFICATION PathSpec
INVARIANTS TypeOK NoNesting NoLostWakeup CtrlFollowsKeys
PROPERTY IsAQueue
