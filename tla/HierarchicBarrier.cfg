\* Five threads in groups of two: a tree of three levels (leaves of 2, 2 and 1
\* threads under barriers of 2 and 1 under the root).
CONSTANTS
  NThreads = 5
  Fan = 2
  RoundMod = 2
  MaxWaits = 3
SPECIFICATION Spec
INVARIANT OneLeaderPerPhase
PROPERTY ImplementsRendezvous
PROPERTY AllReturn
