SPECIFICATION FairSpec
CONSTANTS
  Client = {c1, c2}
  Path = {"a", "b"}
  Plans <- SomePlans
  Stored <- SomeStored
INVARIANTS TypeOK CreationIsAtomic RightFiles
PROPERTY CreationEnds
CHECK_DEADLOCK FALSE
