\* Two workers over four full vectors and a partial one, in chunks of two
\* vectors; the minimum block is smaller than a vector.
CONSTANTS
  Workers = {w1, w2}
  nrTuples = 13
  vecSize = 3
  MorselSize = 4
  startCapacity = 2
  Lanes = 2
  Plans <- MCPlans
  Tables <- MCTables
  Forms = {"branching", "bf", "avx512"}
  minBlockSize = 2
  MaxValues = 2
SPECIFICATION QuerySpec
INVARIANT NoRowTwice
INVARIANT NoRowLost
INVARIANT PointersInStep
INVARIANT ResultExact
INVARIANT BlocksWhole
PROPERTY QueryEnds
