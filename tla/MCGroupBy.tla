---- MODULE MCGroupBy ----
(* Instances of GroupBy: four rows, one of which may not qualify. *)
EXTENDS GroupBy

\* Three groups in one partition, or one group in each of two.
Keys == {<<1, 2, 3, 1>>, <<1, 4, 1, 0>>}
KeyInputs == {[r \in Rows |-> k[r + 1]] : k \in Keys}
====
