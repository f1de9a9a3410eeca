SPECIFICATION Spec
CONSTANTS
  c1 = c1
  c2 = c2
  c3 = c3
  NoClient = NoClient
  Client = {c1, c2}
  OffsetId = {1, 2, 3}
  Wants <- ApartWants
  Starts <- ApartStarts
  NewSizes = {0, 2}
  CrashAt = {}
PROPERTY PullsItsIntervals
CHECK_DEADLOCK FALSE
