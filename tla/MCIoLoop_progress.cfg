SPECIFICATION FairSpec
CONSTANTS
  MaxPagers = 1
  MaxBios = 1
  MaxAios = 2
  Addr = {x1}
  NULL = NULL
  PipeCap = 1
  MaxContent = 2
  MaxOutput = 1
  MaxOps = 4
  Polite = TRUE
PROPERTIES CommandReaped AnnotatorReaped
CHECK_DEADLOCK FALSE
