\* Two workers; groups 0 and 2 share a partition, group 1 has its own; a
\* worker flushes from its second group on, so that a group may be spilled
\* twice by one worker and once more by the other.
CONSTANTS
  Workers = {w1, w2}
  Tuples = {1, 2, 3, 4}
  NGroups = 3
  nrPartitions = 2
  vecSize = 2
  maxFill = 2
  Inputs <- AscendingInputs
SPECIFICATION Spec
INVARIANT GroupsExact
INVARIANT PartitionsApart
PROPERTY SpillFrozen
PROPERTY GroupingEnds
