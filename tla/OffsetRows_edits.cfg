SPECIFICATION Spec
CONSTANTS
  OffsetId = {1, 2, 3}
  MaxPos = 5
  MaxSize = 3
INVARIANT TypeOK
PROPERTIES OrderKept SizeKept ConflictNoticed
CHECK_DEADLOCK FALSE
