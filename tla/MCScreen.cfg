SPECIFICATION MCSpec
CONSTANTS
  MaxLines = 6
  Heights = {1, 3, 4}
  Deltas <- SomeDeltas
  HalfRange = 32
  MaxInterrupts = 2
  MaxCalls = 8
  Pagers = {p1, p2}
  Items = {i1, i2, i3, i4}
  Null = Null
  Widths = {7, 12}
  MaxVisible = 2
SYMMETRY SamePagers
INVARIANTS OnScreen CursorInBuffer FewCalls LinksFollowOrder PanesTile
PROPERTY Implements
CHECK_DEADLOCK FALSE
