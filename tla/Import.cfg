\* Tables of two rows, killed and started anew up to four times.
CONSTANTS
  Tables <- MCTables
  Absent = Absent
  MaxRuns = 4
  IntegerBits = 8
  IntegerDigits = 3
  NumericBits = 18
  NumericDigits = 4
  UnsignedBits = 30
  precision = 2
  block = 3
  foldCapacity = 4
  prefixSize = 2
SPECIFICATION ImportSpec
INVARIANT LoadedExact
INVARIANT RerunSucceeds
INVARIANT PrintedExact
INVARIANT StringsExact
CHECK_DEADLOCK FALSE
