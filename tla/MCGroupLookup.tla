--------------------------- MODULE MCGroupLookup ---------------------------
(* Instances of GroupLookup. *)
EXTENDS GroupLookup

\* Keys of one column, and of two.
SingleAndPair == {{<<0>>, <<1>>, <<2>>}, {<<0, 0>>, <<0, 1>>, <<1, 0>>}}

Hashes == 0 .. 7
\* No two keys have the same hash: the first leaves keys that share the value
\* of a column in different chains, the second lets all keys share one.
Spread == [x \in (0 .. 2) \X Hashes |-> (2 * x[2] + x[1]) % 8]
OneChain == [x \in (0 .. 2) \X Hashes |-> (4 * x[2] + 2 * x[1]) % 8]
\* Keys <<0>> and <<2>> have the same hash, and all keys of two columns.
Collide == [x \in (0 .. 2) \X Hashes |-> 2 * (x[1] % 2) * (x[2] % 2)]
SomeFunctions == {Spread, OneChain, Collide}

Gaps == {<<1, 3>>}
=============================================================================
