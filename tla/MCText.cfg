SPECIFICATION MCSpec
CONSTANTS
  Styles = {Normal, Red, Bold}
  Default = Normal
  Texts = {0, 1, 2}
  SizeMax = 9
  Annotations <- SomeAnnotations
  OffsetRange = 4
  MaxLen = 5
  MaxRows = 2
  MaxHighlights = 3
  MaxAnnotations = 2
  Params <- SomeParams
  CodeRange = 65536
  MaxCodes = 4
  Colors <- SomeColors
  Chars <- SomeChars
  BoxWidths <- SomeWidths
  MaxChars = 5
  Units <- SomeUnits
  MaxUnits = 5
SYMMETRY OtherStyles
CONSTRAINT Bounded
INVARIANTS HighlightsAreStyles SliceShowsLines AnnotationsFoundByByte LastCommandDecides
  BasicColorsAreShown StaysInBox WellFormedIsConverted FitsAllocation
CHECK_DEADLOCK FALSE
