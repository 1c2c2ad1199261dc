SPECIFICATION Spec
CONSTANTS
  MaxPagers = 2
  MaxBios = 2
  MaxAios = 2
  Addr = {x1,x2}
  NULL = NULL
  PipeCap = 1
  MaxContent = 1
  MaxOutput = 1
  MaxOps = 5
  Polite = FALSE
SYMMETRY Addresses
CONSTRAINT OneOrOther
INVARIANTS ItemsAreOpen EofMeansAll WaitsOnlyForEnded ReadersHaveBuffers OrphansHaveNewerSibling LostBehindOlder UndefinedOnlyInPrune
CHECK_DEADLOCK FALSE
