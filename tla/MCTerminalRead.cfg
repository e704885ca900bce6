\* A read at the bottom of the buffer.
CONSTANTS
  a = a
  b = b
  out = out
  dollar = dollar
  Space = Space
  Newline = Newline
  TERMINAL_WIDTH = 3
  VGA_HEIGHT = 2
  TERMINAL_EXTRA_LINES = 1
  SCREEN_COUNT = 1
  INPUT_MAX = 2
  PROMPT <- MCPrompt
  Chars <- MCOneChar
  OutputChars <- MCOutputChars
SPECIFICATION Spec
INVARIANT ScreenAlwaysShown
