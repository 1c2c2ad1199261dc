SPECIFICATION Spec
CONSTANTS
  Classes <- AllClasses
  MaxInput = 4
INVARIANTS EachByteOnce
CHECK_DEADLOCK FALSE
