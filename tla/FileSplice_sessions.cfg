SPECIFICATION Spec
CONSTANTS
  OffsetId = {1, 2, 3}
  Ranges <- TwoRanges
  Starts <- Layouts
  Length = 5
  MaxLength = 6
  Texts <- Typed
  ShortAt = {2}
INVARIANTS TypeOK MarksNeeded
PROPERTIES SpliceIsExact RowsFollowBytes
CHECK_DEADLOCK FALSE
