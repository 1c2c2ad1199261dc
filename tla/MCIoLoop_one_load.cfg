SPECIFICATION Spec
CONSTANTS
  MaxPagers = 1
  MaxBios = 1
  MaxAios = 2
  Addr = {x1}
  NULL = NULL
  PipeCap = 1
  MaxContent = 2
  MaxOutput = 2
  MaxOps = 5
  Polite = TRUE
INVARIANTS LostOnlyWhenLate StaysUp
CHECK_DEADLOCK FALSE
