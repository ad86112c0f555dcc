---------------------------- MODULE MCHashBuild ----------------------------
(* Instances of HashBuild. *)
EXTENDS HashBuild

\* The tuples are numbers and interchangeable: their hashes may be taken to
\* be in ascending order.
AscendingHashes == {f \in [Rows -> Hashes] : \A a, b \in Rows : a < b => f[a] <= f[b]}
=============================================================================
