SPECIFICATION Spec
CONSTANTS
  NoFile = NoFile
  File = {f1, f2}
  MaxBad = 2
INVARIANT AllPushed
CHECK_DEADLOCK FALSE
