\* Words of five bits.
CONSTANTS
  WordBits = 5
  Strings <- MCStrings
  Calls <- MCCalls
SPECIFICATION Spec
INVARIANTS PrintedRight ArgumentsInStep
