\* Two bytes lost, or one and an answer left by the dialogue.
CONSTANTS
  Headers <- MCHeaders
  Movements <- MCMovements
  Wheels <- MCWheels
  Leftovers <- MCAck
  KeyByte = 30
  MaxSlips = 2
  MaxWrong = 7
SPECIFICATION FairSpec
INVARIANTS TypeOK WheelIsArrows
PROPERTY BackInStep
