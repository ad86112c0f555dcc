\* Chains of up to four entries, vectors of up to three tuples: a chain is longer
\* than a vector, and a vector has more than one chain.  Keys have two columns;
\* keys 0 and 4 have the same hash, and 3 has another tag.
CONSTANTS
  NBuild = 4
  NProbe = 3
  Keys = {0, 3, 4}
  Columns <- HighAndLow
  nrColumns = 2
  startCapacity = 2
  Lanes = 2
  NHashes = 4
  NSlots = 1
  NTags = 2
  batchSize = 3
  ProbeSels <- Gaps
  followupBufferSize = 4
SPECIFICATION JoinSpec
INVARIANT JoinExact
INVARIANT BuffersHold
PROPERTY JoinEnds
