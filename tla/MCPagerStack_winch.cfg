SPECIFICATION Spec
CONSTANTS
  Pagers = {p1}
  Items = {i1}
  Null = Null
  Widths = {12}
  MaxVisible = 3
INVARIANT AlwaysHaveABuffer
CHECK_DEADLOCK FALSE
