\* Small memories; words of two bytes, rows of four.
CONSTANTS
  Starts <- MCStarts
  MEMORY_SIZE = 13
  STACK_BASE = 10
  STACK_DUMP_BYTES = 8
  STACK_DUMP_WORDS = 2
  STACK_RETURN_SEARCH = 4
  STACK_STRING_MIN_LEN = 2
  ROW = 4
  WORD = 2
  ENTRY_SIZE = 5
  UINT_RANGE = 512
SPECIFICATION Spec
INVARIANTS HelpersRight WalksInBounds
