---------------------------- MODULE MCHashGroup ----------------------------
(* Instances of HashGroup. *)
EXTENDS HashGroup

\* The tuples are numbers and interchangeable: their groups may be taken to be
\* in ascending order.
AscendingInputs ==
  {f \in [Tuples -> 0 .. NGroups - 1] : \A a, b \in Tuples : a < b => f[a] <= f[b]}
=============================================================================
