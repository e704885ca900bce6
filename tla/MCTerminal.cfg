\* Two screens of three rows, two of them visible; inputs of up to two rows, on one
\* screen at a time.
CONSTANTS
  a = a
  b = b
  out = out
  dollar = dollar
  Space = Space
  Newline = Newline
  TERMINAL_WIDTH = 3
  VGA_HEIGHT = 2
  TERMINAL_EXTRA_LINES = 1
  SCREEN_COUNT = 2
  INPUT_MAX = 4
  PROMPT <- MCPrompt
  Chars <- MCChars
  OutputChars <- MCOutputChars
SPECIFICATION Spec
CONSTRAINT OneScreenUsed
INVARIANTS TypeOK BlankAfterEnd PromptBeforeInput InputInView ScreenShown
PROPERTIES IsALineEditor HistoryKept
