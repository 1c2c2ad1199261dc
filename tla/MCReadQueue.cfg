SPECIFICATION FairSpec
CONSTANTS
  MaxChunks <- MCMaxChunks
  MaxLen <- MCMaxLen
INVARIANTS
  IInv
  NoUseAfterFree
  NoLeak
PROPERTIES
  Implements
  CallsReturn
CHECK_DEADLOCK FALSE
