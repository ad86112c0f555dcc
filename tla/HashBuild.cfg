\* Three workers, and three tuples or none; hashes 0 and 16 fall into the same slot
\* with different tags, 0 and 1 into different slots with the same tag.
CONSTANTS
  Workers = {w1, w2, w3}
  Rows = {1, 2, 3}
  BuildSides = {{}, {1, 2, 3}}
  Hashes = {0, 1, 16}
  HashFunctions <- AscendingHashes
  TagUnit = 16
  End = End
SPECIFICATION Spec
INVARIANT LookupComplete
INVARIANT SizedInTime
PROPERTY NothingDisplaced
PROPERTY FrozenWhileProbed
PROPERTY BuildCompletes
