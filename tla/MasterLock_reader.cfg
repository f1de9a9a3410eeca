SPECIFICATION Spec
CONSTANTS
  c1 = c1
  c2 = c2
  c3 = c3
  Client = {c1, c2}
  FullPaths = FALSE
  MaxLoss = 0
INVARIANT ReaderWaitsForWriter
CHECK_DEADLOCK FALSE
