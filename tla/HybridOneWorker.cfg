\* One worker, and a qualifying row in every vector.
CONSTANTS
  Workers = {w1}
  nrTuples = 5
  vecSize = 2
  MorselSize = 3
  Qualifying <- DenseSelections
  LinkResults = {"loaded", "failed"}
SPECIFICATION HybridSpec
INVARIANT EachTupleOnce
