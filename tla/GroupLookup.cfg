\* Two vectors of up to three tuples with three keys of one or two columns; the
\* table is made for one entry, so that it is resized by the second group where
\* that is allowed, and the map for partitioning grows with the second key.
CONSTANTS
  KeySets <- SingleAndPair
  HashFunctions <- SomeFunctions
  Selections <- Gaps
  vecSize = 3
  initialMapSize = 1
  MaxVectors = 2
  startCapacity = 2
  Lanes = 2
SPECIFICATION Spec
INVARIANT GroupsSeparateByHash
INVARIANT ResultComplete
INVARIANT PartitionsExact
PROPERTY LookupsEnd
