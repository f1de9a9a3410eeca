SPECIFICATION Spec
CONSTANTS
  c1 = c1
  c2 = c2
  c3 = c3
  Client = {c1, c2}
  FullPaths = FALSE
  MaxLoss = 3
SYMMETRY ClientSymmetry
INVARIANTS TypeOK WriterExclusion PrecedingReadersDrained PullLeavesNothing
PROPERTY QueueSpec
CHECK_DEADLOCK FALSE
