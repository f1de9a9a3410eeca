SPECIFICATION FairSpec
CONSTANTS
  c1 = c1
  c2 = c2
  c3 = c3
  Client = {c1, c2}
  FullPaths = TRUE
  MaxLoss = 1
INVARIANT FlagSound
PROPERTY AttemptEnds
CHECK_DEADLOCK FALSE
