SPECIFICATION FairSpec
CONSTANTS
  c1 = c1
  c2 = c2
  c3 = c3
  NoClient = NoClient
  Client = {c1, c2, c3}
  OffsetId = {1, 2, 3, 4}
  Wants <- MixedWants
  Starts <- MixedStarts
  NewSizes = {0}
  CrashAt = {"edit", "commit"}
INVARIANTS TypeOK LocksExclude RowsMatchFile
PROPERTIES LockedKeepsSize RequestEnds ResizeEnds
CHECK_DEADLOCK FALSE
