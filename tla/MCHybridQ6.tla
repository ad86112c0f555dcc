---------------------------- MODULE MCHybridQ6 ----------------------------
(* Instances of HybridQ6: five rows in vectors of two, the last one partial,
   and chunks of two vectors. *)
EXTENDS HybridQ6

\* Selections that leave a row in every vector: no vector is skipped.
DenseSelections ==
  {sel \in SUBSET (0 .. 4) : \A v \in 0 .. 2 : sel \cap {2 * v, 2 * v + 1} # {}}

\* All rows qualify.
AllSelected == {0 .. 4}

\* The run with one worker is of the case that the theorem is about.
ASSUME MCWorkersCountRows == Cardinality(Workers) = 1 => WorkersCountRows
=============================================================================
