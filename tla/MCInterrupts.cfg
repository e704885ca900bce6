\* Three interrupts on top of one another.
CONSTANTS
  Exceptions <- MCExceptions
  Irqs <- MCIrqs
  Spurious <- MCSpurious
  MainSize = 2
  Registers = {0, 1}
  MaxDepth = 3
SPECIFICATION Spec
INVARIANTS TypeOK FrameIsRight Transparent OnlyServed
