SPECIFICATION MCSpec
CONSTANTS
  Pagers = {p1, p2}
  Annotators = {a1}
  Null = Null
  MaxStack = 3
  MaxList = 2
  a = a
  b = b
  Quit = Quit
  Resize = Resize
  Keys <- SomeKeys
  Triggers <- SomeTriggers
  Global = Global
  Sizes = {1, 2}
  MaxShown = 2
  MaxListeners = 1
  MaxInput = 2
INVARIANTS CountsAreReferences NothingFreedIsUsed InputIsUnmatched ScreenIsCurrent
PROPERTY PoppedAreFreed
CHECK_DEADLOCK FALSE
