\* Two threads; half of the rows, or all, or none are left to the compiled code.
CONSTANTS
  Threads = {t1, t2}
  nrTuples = 4
  NGroups = 4
  Inputs <- KeyInputs
  nrPartitions = 1
  maxFill = 2
  initialSize = 1
  chunkSize = 1
  HashBits = 3
  twTables = {x1, x2}
  Firsts = {0, 3, 4}
SPECIFICATION Spec
INVARIANT GroupsExact
INVARIANT TableHoldsEntries
INVARIANT SomeDeque
PROPERTY GroupByEnds
