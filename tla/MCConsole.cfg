\* Two screens and lines of one character.
CONSTANTS
  SCREEN_COUNT = 2
  INPUT_MAX = 1
  Chars <- MCChars
  Keys <- MCFewKeys
  Names <- MCNames
  NoCommand = NoCommand
SPECIFICATION Spec
INVARIANTS TypeOK PromptUnlessReading LastReturns
PROPERTY ScreenByDigit
