SPECIFICATION Spec
CONSTANTS
  Base = 2
  NumLen = 2
  OffsetLimit = 4
  Versions = {1, 2}
  Sendable <- UpToThree
  FirstWhole = FALSE
INVARIANTS RecordsAreRead
CHECK_DEADLOCK FALSE
