SPECIFICATION Spec
CONSTANTS
  Classes <- AllClasses
  MaxInput = 5
INVARIANTS TokensFitTheStream OnlyNewlinesRepeat HoldsBackOneSequence
CHECK_DEADLOCK FALSE
