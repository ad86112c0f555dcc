----------------------------- MODULE Primitives -----------------------------
(***************************************************************************)
(* vectorwise::primitives: the functions that do the work of the operators *)
(* on one vector.  They are written here as functions of their inputs and  *)
(* of the buffer they write to; positions are numbered from 1.  A          *)
(* selection vector is a buffer of which the first n places count; the     *)
(* places behind them keep what was there, or what a branch-free loop has  *)
(* left there.  C++ templates over an operation take it as an argument.    *)
(***************************************************************************)
EXTENDS HashmapSmall, FiniteSets

CONSTANT Lanes   \* elements of a SIMD register: 8 or 16 in the code

ASSUME PrimitivesAssumption == Lanes \in Nat \ {0}

\* What Use makes of a value that was computed once; a loop, which changes st by
\* Body once for each k in 1 .. n.
Then(value, Use(_)) == CHOOSE r \in {Use(v) : v \in {value}} : TRUE
Iterate(Body(_, _), st, n) ==
  LET run[k \in 0 .. n] == IF k = 0 THEN st ELSE Then(run[k - 1], LAMBDA v : Body(v, k))
  IN  run[n]

\* The comparisons and the arithmetic that the primitives exist for.
Compare(op, x, y) ==
  CASE op = "equal_to" -> x = y
    [] op = "greater_equal" -> x >= y
    [] op = "greater" -> x > y
    [] op = "less_equal" -> x <= y
    [] op = "less" -> x < y

Arith(op, x, y) ==
  CASE op = "plus" -> x + y
    [] op = "multiplies" -> x * y
    [] op = "minus" -> x - y
    [] op = "divides" -> x \div y
    [] op = "modulus" -> x % y

\* A buffer with s written to it, behind its first `at` elements.
Store(buffer, at, s) == SubSeq(buffer, 1, at) \o s \o SubSeq(buffer, at + Len(s) + 1, Len(buffer))
Identity(n) == [i \in 1 .. n |-> i]

\* Those of the numbers 1 .. n that are in S, as a loop over them finds them.
ChosenOf(n, S) ==
  LET run[k \in 0 .. n] ==
        IF k = 0 THEN <<>> ELSE IF k \in S THEN Append(run[k - 1], k) ELSE run[k - 1]
  IN  run[n]
Chosen(n, S) == Then(S, LAMBDA set : ChosenOf(n, set))

-----------------------------------------------------------------------------
(* Selection: those of `ids` that are accepted, into `result`.  Three loops do
   this. *)

Branching(ids, accepted, result) ==
  LET Body(st, k) == IF ids[k] \in accepted
                     THEN [n |-> st.n + 1, out |-> [st.out EXCEPT ![st.n + 1] = ids[k]]]
                     ELSE st
  IN  Iterate(Body, [n |-> 0, out |-> result], Len(ids))

\* Each id is written; the cursor stays where it is if it is not accepted.
BranchFree(ids, accepted, result) ==
  LET Body(st, k) == [n |-> st.n + (IF ids[k] \in accepted THEN 1 ELSE 0),
                      out |-> [st.out EXCEPT ![st.n + 1] = ids[k]]]
  IN  Iterate(Body, [n |-> 0, out |-> result], Len(ids))

\* Block by block with a compressing store: it takes the lanes of the mask
\* together to the places behind those in use.  The last block may be short.
Avx512(ids, accepted, result) ==
  LET Body(st, k) ==
        LET first == (k - 1) * Lanes + 1
            last == Min({k * Lanes, Len(ids)})
            mask == {i \in first .. last : ids[i] \in accepted}
            found == SelectSeq(SubSeq(ids, first, last), LAMBDA i : i \in accepted)
        IN  [n |-> st.n + Cardinality(mask), out |-> Store(st.out, st.n, found)]
  IN  Iterate(Body, [n |-> 0, out |-> result], (Len(ids) + Lanes - 1) \div Lanes)

Select(form, ids, accepted, result) ==
  CASE form = "branching" -> Branching(ids, accepted, result)
    [] form = "bf" -> BranchFree(ids, accepted, result)
    [] form = "avx512" -> Avx512(ids, accepted, result)

sel_col_val(form, op, n, result, col, val) ==
  Select(form, Identity(n), {i \in 1 .. n : Compare(op, col[i], val)}, result)
sel_col_val_or_val(op, n, result, col, val1, val2) ==
  BranchFree(Identity(n), {i \in 1 .. n : Compare(op, col[i], val1) \/ Compare(op, col[i], val2)},
             result)
sel_col_col(form, op, n, result, col1, col2) ==
  Select(form, Identity(n), {i \in 1 .. n : Compare(op, col1[i], col2[i])}, result)
selsel_col_val(form, op, n, inSel, result, col, val) ==
  LET ids == [i \in 1 .. n |-> inSel[i]]
  IN  Select(form, ids, {i \in Range(ids) : Compare(op, col[i], val)}, result)
selsel_col_col(form, op, n, inSel, result, col1, col2) ==
  LET ids == [i \in 1 .. n |-> inSel[i]]
  IN  Select(form, ids, {i \in Range(ids) : Compare(op, col1[i], col2[i])}, result)

-----------------------------------------------------------------------------
(* Projection: n results.  With a selection vector the input is compacted. *)

proj_col_val(op, n, result, col, val) ==
  Store(result, 0, [i \in 1 .. n |-> Arith(op, col[i], val)])
proj_val_col(op, n, result, val, col) ==
  Store(result, 0, [i \in 1 .. n |-> Arith(op, val, col[i])])
proj_col_col(op, n, result, col1, col2) ==
  Store(result, 0, [i \in 1 .. n |-> Arith(op, col1[i], col2[i])])
proj_sel_col_val(op, n, inSel, result, col, val) ==
  Store(result, 0, [i \in 1 .. n |-> Arith(op, col[inSel[i]], val)])
proj_sel_val_col(op, n, inSel, result, val, col) ==
  Store(result, 0, [i \in 1 .. n |-> Arith(op, val, col[inSel[i]])])
proj_sel_both_col_col(op, n, inSel, result, col1, col2) ==
  Store(result, 0, [i \in 1 .. n |-> Arith(op, col1[inSel[i]], col2[inSel[i]])])
\* Faulty variant: the second column is selected from as well.
proj_sel_both(op, n, inSel, result, col1, col2) ==
  Store(result, 0, [i \in 1 .. n |-> Arith(op, col1[inSel[i]], col2[inSel[i]])])
proj_sel_col_col(op, n, inSel, result, col1, col2) ==
  Store(result, 0, [i \in 1 .. n |-> Arith(op, col1[inSel[i]], col2[i])])
proj_col_sel_col(op, n, inSel, result, col1, col2) ==
  Store(result, 0, [i \in 1 .. n |-> Arith(op, col1[i], col2[inSel[i]])])
lookup_sel(n, target, sel, source) == Store(target, 0, [i \in 1 .. n |-> source[sel[i]]])

\* AVX-512: as many registers as are full, then what is left one by one.
Lanewise(result, values) ==
  LET full == Len(values) - (Len(values) % Lanes)
      Register(r, k) == Store(r, (k - 1) * Lanes, SubSeq(values, (k - 1) * Lanes + 1, k * Lanes))
      One(r, k) == [r EXCEPT ![full + k] = values[full + k]]
  IN  Iterate(One, Iterate(Register, result, full \div Lanes), Len(values) % Lanes)

proj_sel8_minus_val_col(n, inSel, result, val, col) ==
  Lanewise(result, [i \in 1 .. n |-> val - col[inSel[i]]])
proj_sel8_plus_col_val(n, inSel, result, col, val) ==
  Lanewise(result, [i \in 1 .. n |-> val + col[inSel[i]]])
proj8_multiplies_col_col(n, result, col1, col2) ==
  Lanewise(result, [i \in 1 .. n |-> col1[i] * col2[i]])
proj8_multiplies_sel_col_col(n, inSel, result, col1, col2) ==
  Lanewise(result, [i \in 1 .. n |-> col1[inSel[i]] * col2[i]])

-----------------------------------------------------------------------------
(* Aggregation into one value: what is returned, and the aggregator after. *)

aggr_static_col(op, n, aggregator, col) ==
  [n |-> IF n > 0 THEN 1 ELSE 0,
   out |-> Iterate(LAMBDA a, i : Arith(op, col[i], a), aggregator, n)]
aggr_static_sel_col(op, n, inSel, aggregator, col) ==
  [n |-> n, out |-> Iterate(LAMBDA a, i : Arith(op, col[inSel[i]], a), aggregator, n)]
aggr_static_count_star(n, aggregator) ==
  [n |-> IF n > 0 THEN 1 ELSE 0, out |-> aggregator + n]
neutral(op) == IF op \in {"plus", "minus"} THEN 0 ELSE 1

-----------------------------------------------------------------------------
(* Rows in memory: `mem` is a sequence of entries, an entry the sequence of its
   fields.  A field number stands for an offset, an entry number for an
   address; a block of entries starts at entry `start`. *)

\* The fields `offset` of the entries from start on are set to the values.
Scatter(mem, start, offset, values) ==
  Store(mem, start - 1,
        [i \in DOMAIN values |-> [mem[start + i - 1] EXCEPT ![offset] = values[i]]])

scatter(n, input, mem, start, offset) ==
  Scatter(mem, start, offset, [i \in 1 .. n |-> input[i]])
scatter_sel(n, inSel, input, mem, start, offset) ==
  Scatter(mem, start, offset, [i \in 1 .. n |-> input[inSel[i]]])
scatter_sel_row(n, inSel, rows, inOffset, mem, start, offset) ==
  Scatter(mem, start, offset, [i \in 1 .. n |-> rows[inSel[i]][inOffset]])
aggr_init(n, zero, mem, start, offset) ==
  Scatter(mem, start, offset, [i \in 1 .. n |-> zero])

gather_col(n, input, mem, offset, out) ==
  Store(out, 0, [i \in 1 .. n |-> mem[input[i]][offset]])
gather_val(n, mem, start, offset, out) ==
  Store(out, 0, [i \in 1 .. n |-> mem[start + i - 1][offset]])

\* Aggregation into the entries, in the order of the vector: an entry may be
\* the match of several tuples.  An aggregator here is a function of numbers,
\* each of which the operation is applied to.
AggregateInto(op, entries, mem, offset, values) ==
  LET Applied(a, v) == [k \in DOMAIN a |-> Arith(op, v[k], a[k])]
  IN  Iterate(LAMBDA m, i : [m EXCEPT ![entries[i]][offset] = Applied(@, values[i])], mem,
              Len(values))

aggr_col(op, n, entries, col, mem, offset) ==
  AggregateInto(op, entries, mem, offset, [i \in 1 .. n |-> col[i]])
aggr_sel_col(op, n, entries, sel, col, mem, offset) ==
  AggregateInto(op, entries, mem, offset, [i \in 1 .. n |-> col[sel[i]]])
aggr_row(op, n, entries, mem, offset, rows, inOffset) ==
  AggregateInto(op, entries, mem, offset, [i \in 1 .. n |-> rows[i][inOffset]])

-----------------------------------------------------------------------------
(* Hashing, by the function op of a value and a seed; a further column takes
   the hash so far for its seed. *)

hash(n, result, input, op, seed) ==
  Store(result, 0, [i \in 1 .. n |-> op[input[i], seed]])
hash_sel(n, inSel, result, input, op, seed) ==
  Store(result, 0, [i \in 1 .. n |-> op[input[inSel[i]], seed]])
rehash(n, result, input, op) ==
  Store(result, 0, [i \in 1 .. n |-> op[input[i], result[i]]])
rehash_sel(n, inSel, result, input, op) ==
  Store(result, 0, [i \in 1 .. n |-> op[input[inSel[i]], result[i]]])

-----------------------------------------------------------------------------
(* Comparison of the keys in entries with those of the tuples *)

\* For a join: the first n pairs (buildEntry, probeIdx) with equal keys, to the
\* front of both buffers.
keys_equal(n, buildEntry, mem, offset, probeIdx, probeKey) ==
  LET equal == Chosen(n, {i \in 1 .. n : mem[buildEntry[i]][offset] = probeKey[probeIdx[i]]})
  IN  [n |-> Len(equal),
       buildEntry |-> Store(buildEntry, 0, [i \in DOMAIN equal |-> buildEntry[equal[i]]]),
       probeIdx |-> Store(probeIdx, 0, [i \in DOMAIN equal |-> probeIdx[equal[i]]])]

\* For a grouping: the positions in `found` whose entry has the same key stay,
\* the others are added to notEq.
KeysNotEqual(found, notEq, same) ==
  [found |-> SelectSeq(found, LAMBDA i : i \in same),
   notEq |-> notEq \o SelectSeq(found, LAMBDA i : i \notin same)]

keys_not_equal(found, entry, mem, probeKey, offset, notEq) ==
  KeysNotEqual(found, notEq, {i \in Range(found) : mem[entry[i]][offset] = probeKey[i]})
keys_not_equal_sel(found, entry, mem, probeSel, probeKey, offset, notEq) ==
  KeysNotEqual(found, notEq, {i \in Range(found) : mem[entry[i]][offset] = probeKey[probeSel[i]]})
keys_not_equal_row(found, entry, mem, rows, rowOffset, offset, notEq) ==
  KeysNotEqual(found, notEq, {i \in Range(found) : mem[entry[i]][offset] = rows[i][rowOffset]})

-----------------------------------------------------------------------------
(* partition_by_key: `sel` lists positions, in n parts that end at `ends`; each
   part is split into parts of equal key, with the help of the map ht.  The
   three forms differ in where the key and the hash of a position are. *)

\* Pass 1, for the position s: one more tuple with its key.
Counted(map, s, Key, hashes) ==
  LET place == FindFirst(map, hashes[s], {other \in DOMAIN Key : Key[other] = Key[s]})
  IN  IF place = 0 THEN Insert(map, s, hashes[s], 1)
      ELSE [map EXCEPT !.storage[place].value = @ + 1]

\* Where the parts end whose sizes were counted, the first of which comes
\* after `start` places.
Bounds(storage, start) ==
  Tail(Iterate(LAMBDA bounds, k : Append(bounds, bounds[k] + storage[k].value),
               <<start>>, Len(storage)))

\* The counts are turned into the places where the parts begin.
Offsets(map, start, bounds) ==
  [map EXCEPT !.storage = [k \in DOMAIN @ |->
     [@[k] EXCEPT !.value = IF k = 1 THEN start ELSE bounds[k - 1]]]]

\* Pass 2, for the position s: to the next place of its part.  A lookup that
\* fails returns a null pointer, which is not looked at before it is used.
Placed(st, s, Key, hashes) ==
  LET place == FindFirst(st.ht, hashes[s], {other \in DOMAIN Key : Key[other] = Key[s]})
  IN  IF ~st.ok \/ place = 0 THEN [st EXCEPT !.ok = FALSE]
      ELSE [st EXCEPT !.ht.storage[place].value = @ + 1,
                      !.out[st.ht.storage[place].value + 1] = s]

\* One part of sel, which lies behind `from` places: both passes, and the map is
\* cleared.
SplitPart(st, sel, from, size, Key, hashes) ==
  LET Count(map, k) == Counted(map, sel[from + k], Key, hashes)
      Place(r, k) == Placed(r, sel[from + k], Key, hashes)
      WithBounds(map) ==
        Then(Bounds(map.storage, from),
             LAMBDA bounds : [st EXCEPT !.ht = Offsets(map, from, bounds), !.bounds = @ \o bounds])
      Cleared(r) == [r EXCEPT !.ht = ClearMap(@, {hashes[sel[from + k]] : k \in 1 .. size})]
  IN  Then(Iterate(Place, Then(Iterate(Count, st.ht, size), WithBounds), size), Cleared)

\* `ok` is false if a pointer was null, or if a part got more than was counted
\* for it, so that places of another part are left as they were.
Partition(n, sel, Key, hashes, ends, ht) ==
  LET Part(st, p) ==
        LET from == IF p = 1 THEN 0 ELSE ends[p - 1]
        IN  SplitPart(st, sel, from, ends[p] - from, Key, hashes)
      Returned(st) ==
        [n |-> Len(st.bounds), sel |-> st.out, ends |-> st.bounds, ht |-> st.ht,
         ok |-> st.ok /\ \A k \in DOMAIN st.out : st.out[k] # 0]
  IN  Then(Iterate(Part, [ht |-> ht, bounds |-> <<>>, ok |-> TRUE,
                          out |-> [k \in 1 .. Len(sel) |-> 0]], n), Returned)

partition_by_key(n, sel, keys, hashes, ends, ht) ==
  Partition(n, sel, keys, hashes, ends, ht)
partition_by_key_sel(n, sel, selK, keys, hashes, ends, ht) ==
  Partition(n, sel, [i \in DOMAIN selK |-> keys[selK[i]]], hashes, ends, ht)
partition_by_key_row(n, sel, rows, hashOffset, dataOffset, ends, ht) ==
  Partition(n, sel, [i \in DOMAIN rows |-> rows[i][dataOffset]],
            [i \in DOMAIN rows |-> rows[i][hashOffset]], ends, ht)
=============================================================================
