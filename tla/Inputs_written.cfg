SPECIFICATION MCSpec
CONSTANTS
  MaxPos = 6
  MaxInserts = 3
  A_LIST_INIT_LEN = 2
  NameLen <- Lengths
  Mark = {"x01", "x02"}
  CR = "cr"
  MaxLines = 3
  MaxNew = 8
  MaxArgs = 5
  MaxChars = 8
INVARIANTS
  TypeOK ListIsUnion IdOfFirstRow OrderedRowsAreSafe
  OraclePrecedence NewRangeAsDocumented ModesAsDocumented ImportIsExact
CHECK_DEADLOCK FALSE
