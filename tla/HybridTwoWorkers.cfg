\* Two workers, all rows qualify.
CONSTANTS
  Workers = {w1, w2}
  nrTuples = 5
  vecSize = 2
  MorselSize = 3
  Qualifying <- AllSelected
  LinkResults = {"loaded"}
SPECIFICATION HybridSpec
INVARIANT EachTupleOnce
