SPECIFICATION FairSpec
CONSTANTS
  NoFile = NoFile
  File = {f1, f2, f3}
  MaxBad = 2
INVARIANTS TypeOK JoinedBeforeFree EditorHasThreads
PROPERTY ProcessEnds
CHECK_DEADLOCK FALSE
