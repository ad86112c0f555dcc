---------------------------- MODULE MCJoinProbe ----------------------------
(***************************************************************************)
(* Keys of two columns, and selection vectors, for module JoinProbe.       *)
(***************************************************************************)
EXTENDS JoinProbe

HighAndLow(key) == <<key \div 2, key % 2>>

\* A selection vector that skips rows, in front and between.
Gaps == {[p \in 0 .. batchSize - 1 |-> 2 * p + 1]}
=============================================================================
