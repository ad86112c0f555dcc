---------------------------- MODULE GroupLookup ----------------------------
(***************************************************************************)
(* HashGroup::GroupLookup: how a vector of tuples finds its groups in the  *)
(* hash table of a worker, creates those that are missing, and is added to *)
(* their aggregates.  The expressions that QueryBuilder::HashGroupBuilder  *)
(* puts together for keys of several columns are part of it.  The same     *)
(* code serves both phases of HashGroup: phase 1 reads columns, maybe      *)
(* through a selection vector; phase 2 reads rows and may resize the table.*)
(*                                                                         *)
(* A row, and an entry of the table, is the sequence of its fields: hash,  *)
(* keys, aggregate; a field number stands for the offset that the builder  *)
(* gave out for it.  An aggregate tells what went into it: how many tuples *)
(* of each key.  Positions in a vector and in buffers start from 1.        *)
(***************************************************************************)
EXTENDS Primitives, FiniteSets, Hashmap

CONSTANTS
  KeySets,         \* the sets of group keys to look at: tuples of columns
  HashFunctions,   \* the hash functions to look at: of a value and a seed
  Selections,      \* the selection vectors to look at
  vecSize,         \* rows of a vector
  initialMapSize,  \* what the table is sized for at first: 1024 in the code
  MaxVectors       \* bound: number of vectors

ASSUME GroupLookupAssumption ==
  /\ KeySets # {} /\ HashFunctions # {}
  /\ vecSize \in Nat \ {0} /\ initialMapSize \in Nat \ {0} /\ MaxVectors \in Nat

VARIABLES
  keys,         \* the group keys that may occur
  op,           \* the hash function
  allowResize,  \* the argument of createMissingGroups: TRUE in phase 2
  pc,           \* where the worker is
  vectors,      \* history: number of vectors begun
  rows, sel,    \* the vector: its rows, and which of them are its tuples
  fed,          \* history: how many tuples of each key the vectors had
  entries,      \* the entries ever created: the memory of allocations
  linked,       \* the entries that are in the table
  capacity, maxFill,  \* of the table
  groupHt,      \* the map for partitioning
  htMatches,    \* per position: the entry found for it; left as it was, if none
  groupsFound, keysNEq, groupsNotFound,  \* buffers of positions
  follow,       \* loop variable of htFollow
  allocations,  \* the blocks of entries, in the order of their creation
  result        \* history: the rows that phase 2 has returned

input == <<keys, op, allowResize>>
vector == <<vectors, rows, sel, fed>>
table == <<entries, linked, capacity, maxFill, groupHt, allocations>>
buffers == <<htMatches, groupsFound, keysNEq, groupsNotFound, follow>>
vars == <<input, pc, vector, table, buffers, result>>

End == 0
nrKeys == Len(CHOOSE k \in keys : TRUE)
\* The offsets: addKey and addValue give out one after the other.
HashAt == 1
KeyAt(column) == 1 + column
ValueAt == nrKeys + 2
KeyOf(row) == SubSeq(row, KeyAt(1), KeyAt(nrKeys))

\* Values are added up; the value of a tuple counts the tuple itself.
One(k) == [l \in keys |-> IF l = k THEN 1 ELSE 0]
Zero == [l \in keys |-> neutral("plus")]
Plus(a, b) == [l \in keys |-> a[l] + b[l]]

Column(field) == [r \in DOMAIN rows |-> rows[r][field]]
\* Whether the builder was given a selection vector.
selected == Len(sel) # Len(rows)

\* insert() puts an entry in front of its chain, and all entries are inserted
\* in the order in which they were created: chains run from new to old.
Chain(h) == {e \in linked : entries[e][HashAt] % capacity = h % capacity}
FirstOf(S) == IF S = {} THEN End ELSE CHOOSE e \in S : \A f \in S : f <= e
\* The first entry with hash h in a part of a chain.
Match(S, h) == FirstOf({e \in S : entries[e][HashAt] = h})

\* groupHash: the hashes of n tuples, column by column, in phase 1; phase 2
\* finds them in the rows that phase 1 has written.
GroupHashes(row, s) ==
  LET n == Len(s)
      column(c) == [r \in DOMAIN row |-> row[r][c]]
      start == IF n = Len(row) THEN hash(n, s, column(1), op, 0)
               ELSE hash_sel(n, s, s, column(1), op, 0)
      Rehashed(hashes, c) == IF n = Len(row) THEN rehash(n, hashes, column(c + 1), op)
                             ELSE rehash_sel(n, s, hashes, column(c + 1), op)
  IN  Iterate(Rehashed, start, nrKeys - 1)

Init ==
  /\ keys \in KeySets
  /\ op \in HashFunctions
  /\ allowResize \in BOOLEAN
  /\ pc = "vector" /\ vectors = 0 /\ rows = <<>> /\ sel = <<>> /\ fed = Zero
  /\ entries = <<>> /\ linked = {} /\ allocations = <<>>
  /\ capacity = CapacityFor(initialMapSize)
  /\ maxFill = MaxFillFor(capacity)
  /\ groupHt = NewMap(vecSize)
  /\ htMatches = [p \in 1 .. vecSize |-> End]
  /\ groupsFound = <<>> /\ keysNEq = <<>> /\ groupsNotFound = <<>>
  /\ follow = 1
  /\ result = <<>>

-----------------------------------------------------------------------------
\* The hash of the tuple at a position.
HashOfTuple(p) == rows[sel[p]][HashAt]
KeyOfTuple(p) == KeyOf(rows[sel[p]])

\* The next vector: columns in phase 1, with or without a selection vector;
\* rows of the spill storage in phase 2.  The hash is part of a row here also
\* in phase 1, where it is in the buffer groupHashes.
NextVector ==
  /\ pc = "vector" /\ vectors < MaxVectors
  /\ vectors' = vectors + 1
  /\ \E n \in 1 .. vecSize : \E s \in Selections \cup {Identity(n)} :
       \E values \in [1 .. IF s = Identity(n) THEN n ELSE vecSize -> keys] :
         \E hashes \in {GroupHashes(values, s)} :
         LET at(r) == CHOOSE p \in DOMAIN s : s[p] = r
         IN  /\ allowResize => s = Identity(n)
             /\ sel' = s
             /\ rows' = [r \in DOMAIN values |->
                  <<IF \E p \in DOMAIN s : s[p] = r THEN hashes[at(r)] ELSE 0>>
                  \o values[r] \o <<One(values[r])>>]
             /\ fed' = Iterate(LAMBDA f, p : Plus(f, One(values[s[p]])), fed, Len(s))
  /\ keysNEq' = <<>> /\ groupsNotFound' = <<>>
  /\ pc' = "lookup"
  /\ UNCHANGED <<input, table, htMatches, groupsFound, follow, result>>

\* Faulty variant: only the first entry of each chain is looked at.
HtLookupFirst ==
  LET matchOf(p) == IF Chain(HashOfTuple(p)) = {} THEN End
                    ELSE Match({FirstOf(Chain(HashOfTuple(p)))}, HashOfTuple(p))
  IN  /\ pc = "lookup"
      /\ htMatches' = [p \in 1 .. vecSize |->
           IF p <= Len(sel) /\ matchOf(p) # End THEN matchOf(p) ELSE htMatches[p]]
      /\ groupsFound' = SelectSeq(Identity(Len(sel)), LAMBDA p : matchOf(p) # End)
      /\ groupsNotFound' = SelectSeq(Identity(Len(sel)), LAMBDA p : matchOf(p) = End)
      /\ pc' = "compare"
      /\ UNCHANGED <<input, vector, table, keysNEq, follow, result>>

\* htLookup: for each tuple the first entry of its chain with its hash.
HtLookup ==
  LET matchOf(p) == Match(Chain(HashOfTuple(p)), HashOfTuple(p))
  IN  /\ pc = "lookup"
      /\ htMatches' = [p \in 1 .. vecSize |->
           IF p <= Len(sel) /\ matchOf(p) # End THEN matchOf(p) ELSE htMatches[p]]
      /\ groupsFound' = SelectSeq(Identity(Len(sel)), LAMBDA p : matchOf(p) # End)
      /\ groupsNotFound' = SelectSeq(Identity(Len(sel)), LAMBDA p : matchOf(p) = End)
      /\ pc' = "compare"
      /\ UNCHANGED <<input, vector, table, keysNEq, follow, result>>

\* keyEquality, for the key of one column.
CompareColumn(st, column) ==
  LET at == KeyAt(column)
  IN  IF allowResize THEN keys_not_equal_row(st.found, htMatches, entries, rows, at, at, st.notEq)
      ELSE IF selected
      THEN keys_not_equal_sel(st.found, htMatches, entries, sel, Column(at), at, st.notEq)
      ELSE keys_not_equal(st.found, htMatches, entries, Column(at), at, st.notEq)

\* keyEquality: tuples whose entry differs in some column go to keysNEq.
KeyEquality ==
  /\ pc = "compare"
  /\ keysNEq' = Iterate(CompareColumn, [found |-> groupsFound, notEq |-> keysNEq], nrKeys).notEq
  /\ groupsFound' = <<>>
  /\ follow' = 1
  /\ pc' = IF keysNEq' = <<>> THEN "create" ELSE "follow"
  /\ UNCHANGED <<input, vector, table, htMatches, groupsNotFound, result>>

\* Faulty variant: the entry found is not written to htMatches.
HtFollowStays ==
  LET p == keysNEq[follow]
      rest == {e \in Chain(HashOfTuple(p)) : e < htMatches[p]}
      match == Match(rest, HashOfTuple(p))
      passed == Cardinality({e \in rest : e > match})
  IN  /\ pc = "follow" /\ follow <= Len(keysNEq)
      /\ groupsNotFound' = groupsNotFound \o [n \in 1 .. passed |-> follow]
      /\ groupsFound' = IF match = End THEN groupsFound ELSE Append(groupsFound, p)
      /\ follow' = follow + 1
      /\ UNCHANGED <<input, pc, vector, table, htMatches, keysNEq, result>>

\* htFollow, for one tuple: on along its chain to the next entry with its
\* hash.  For each entry passed on the way, the loop variable is added to
\* groupsNotFound: it is a position in keysNEq, not in the vector.
HtFollow ==
  LET p == keysNEq[follow]
      rest == {e \in Chain(HashOfTuple(p)) : e < htMatches[p]}
      match == Match(rest, HashOfTuple(p))
      passed == Cardinality({e \in rest : e > match})
  IN  /\ pc = "follow" /\ follow <= Len(keysNEq)
      /\ groupsNotFound' = groupsNotFound \o [n \in 1 .. passed |-> follow]
      /\ IF match # End
         THEN /\ htMatches' = [htMatches EXCEPT ![p] = match]
              /\ groupsFound' = Append(groupsFound, p)
         ELSE UNCHANGED <<htMatches, groupsFound>>
      /\ follow' = follow + 1
      /\ UNCHANGED <<input, pc, vector, table, keysNEq, result>>

\* The round of htFollow is over: compare again what it has found, if anything.
Followed ==
  /\ pc = "follow" /\ follow > Len(keysNEq)
  /\ IF groupsFound = <<>>
     THEN pc' = "create" /\ UNCHANGED keysNEq
     ELSE pc' = "compare" /\ keysNEq' = <<>>
  /\ UNCHANGED <<input, vector, table, htMatches, groupsFound, groupsNotFound,
                 follow, result>>

\* The new entries are inserted; if allowed and needed the directory is made
\* larger first, and all entries are inserted again.
Link(created) ==
  IF allowResize /\ Len(entries) + Cardinality(created) > maxFill
  THEN /\ capacity' = CapacityFor(2 * (Len(entries) + Cardinality(created)))
       /\ maxFill' = MaxFillFor(capacity')
       /\ linked' = linked \cup created
  ELSE linked' = linked \cup created /\ UNCHANGED <<capacity, maxFill>>

-----------------------------------------------------------------------------
(* createMissingGroups *)

\* partitionKeys, for the key of one column: reads one pair of buffers and
\* writes the other, as addKey has swapped them.
PartitionColumn(st, column) ==
  LET hashes == [p \in DOMAIN sel |-> HashOfTuple(p)]
      at == KeyAt(column)
      from == st.from
      made == IF allowResize
              THEN partition_by_key_row(st.n, st.rows[from], rows, HashAt, at, st.ends[from],
                                        st.ht)
              ELSE IF selected
              THEN partition_by_key_sel(st.n, st.rows[from], sel, Column(at), hashes,
                                        st.ends[from], st.ht)
              ELSE partition_by_key(st.n, st.rows[from], Column(at), hashes, st.ends[from],
                                    st.ht)
      Swapped(m) == [st EXCEPT !.n = m.n, !.rows[3 - from] = m.sel, !.ends[3 - from] = m.ends,
                               !.ht = m.ht, !.ok = m.ok, !.from = 3 - from]
  IN  IF st.ok THEN Then(made, Swapped) ELSE st

Unpartitioned ==
  [n |-> 1, rows |-> <<groupsNotFound, <<>>>>, ends |-> <<<<Len(groupsNotFound)>>, <<>>>>,
   ht |-> groupHt, ok |-> TRUE, from |-> 1]

\* Faulty variant: each column is partitioned for itself.
PartitionKeysLast == PartitionColumn(Unpartitioned, nrKeys)

\* partitionKeys: the tuples of groupsNotFound, gathered by key.
PartitionKeys == Iterate(PartitionColumn, Unpartitioned, nrKeys)

\* getGroupRepresentatives: the first row of each group.
Representatives(nrGroups, rowsOut, groupEnds) ==
  [g \in 1 .. nrGroups |-> rowsOut[IF g = 1 THEN 1 ELSE groupEnds[g - 1] + 1]]

\* buildScatter: hash, keys and empty aggregate of each group, from its
\* representative; with a selection vector, from the row that this selects.
BuildScatter(memory, start, representatives) ==
  LET n == Len(representatives)
      tuples == IF selected THEN lookup_sel(n, representatives, representatives, sel)
                ELSE representatives
      Copy(mem, field) == IF allowResize
                          THEN scatter_sel_row(n, representatives, rows, field, mem, start, field)
                          ELSE scatter_sel(n, tuples, Column(field), mem, start, field)
  IN  aggr_init(n, Zero, Iterate(Copy, memory, KeyAt(nrKeys)), start, ValueAt)

\* Nothing is missing.
NothingMissing ==
  /\ pc = "create" /\ groupsNotFound = <<>>
  /\ pc' = "update"
  /\ UNCHANGED <<input, vector, table, buffers, result>>

\* createMissingGroups: each missing key gets an entry, which is linked and
\* becomes the match of its tuples.
CreateMissingGroups ==
  /\ pc = "create" /\ groupsNotFound # <<>>
  /\ \E parts \in {PartitionKeys} :
       IF ~parts.ok
       THEN pc' = "failed" /\ UNCHANGED <<table, htMatches>>
       ELSE LET start == Len(entries) + 1
                made == parts.rows[parts.from]
                ends == parts.ends[parts.from]
                groupOf(i) == CHOOSE g \in 1 .. parts.n :
                                /\ i <= ends[g] /\ (g = 1 \/ i > ends[g - 1])
                blank == [g \in 1 .. parts.n |-> [field \in 1 .. ValueAt |-> 0]]
            IN  /\ entries' = BuildScatter(entries \o blank, start,
                                           Representatives(parts.n, made, ends))
                /\ allocations' = Append(allocations, [start |-> start, n |-> parts.n])
                /\ Link(start .. start + parts.n - 1)
                /\ htMatches' = Iterate(LAMBDA m, i : [m EXCEPT ![made[i]] = start + groupOf(i) - 1],
                                        htMatches, Len(made))
                /\ groupHt' = parts.ht
                /\ pc' = "update"
  /\ UNCHANGED <<input, vector, groupsFound, keysNEq, groupsNotFound, follow, result>>

\* updateGroups and updateGroupsFromPartition: each tuple is added to the
\* aggregate of its match.
UpdateGroups ==
  /\ pc = "update"
  /\ entries' = IF allowResize
                THEN aggr_row("plus", Len(sel), htMatches, entries, ValueAt, rows, ValueAt)
                ELSE IF selected
                THEN aggr_sel_col("plus", Len(sel), htMatches, sel, Column(ValueAt), entries, ValueAt)
                ELSE aggr_col("plus", Len(sel), htMatches, Column(ValueAt), entries, ValueAt)
  /\ pc' = "vector"
  /\ UNCHANGED <<input, vector, linked, capacity, maxFill, groupHt, allocations, buffers, result>>

\* Faulty variant: the groups of later vectors, in other blocks, are dropped.
ReturnGroupsOnce ==
  /\ pc = "vector" /\ vectors = MaxVectors /\ allowResize /\ allocations # <<>>
  /\ LET block == Head(allocations)
         column(field) == gather_val(block.n, entries, block.start, field, Identity(vecSize))
     IN  result' = result \o [g \in 1 .. block.n |->
           [field \in 1 .. ValueAt |-> column(field)[g]]]
  /\ allocations' = <<>>
  /\ UNCHANGED <<input, pc, vector, entries, linked, capacity, maxFill, groupHt, buffers>>

\* Phase 2 returns its groups, one block of allocations per call of next():
\* gatherGroups makes columns of the fields.
ReturnGroups ==
  /\ pc = "vector" /\ vectors = MaxVectors /\ allowResize /\ allocations # <<>>
  /\ LET block == Head(allocations)
         column(field) == gather_val(block.n, entries, block.start, field, Identity(vecSize))
     IN  result' = result \o [g \in 1 .. block.n |->
           [field \in 1 .. ValueAt |-> column(field)[g]]]
  /\ allocations' = Tail(allocations)
  /\ UNCHANGED <<input, pc, vector, entries, linked, capacity, maxFill, groupHt, buffers>>

Step ==
  \/ NextVector \/ HtLookup \/ KeyEquality \/ HtFollow \/ Followed
  \/ NothingMissing \/ CreateMissingGroups \/ UpdateGroups \/ ReturnGroups

Ended ==
  \/ pc = "vector" /\ vectors = MaxVectors /\ (allowResize => allocations = <<>>)
  \/ pc = "failed"

\* The input has ended, or the process has: a phase 1 goes on in HashGroup.
Stop == Ended /\ UNCHANGED vars

Next == Step \/ Stop

\* The worker keeps running.
Spec == Init /\ [][Next]_vars /\ WF_vars(Step)

-----------------------------------------------------------------------------
NoCollisions ==
  \A k, l \in keys : k # l =>
    GroupHashes(<<k>>, <<1>>) # GroupHashes(<<l>>, <<1>>)

\* Whatever the order of the keys, a group has the tuples of one key, and a
\* key has one group, as long as no two keys have the same hash: with keys of
\* several columns, chains that several hashes share, and through every resize
\* (HashGroup::GroupLookup).
GroupsSeparateByHash ==
  NoCollisions =>
    /\ \A e \in linked : \A k \in keys :
         entries[e][ValueAt][k] > 0 => k = KeyOf(entries[e])
    /\ \A e, f \in linked : e # f => KeyOf(entries[e]) # KeyOf(entries[f])

\* What phase 2 returns is the answer: each key that occurred, once, with all
\* of its tuples (gatherGroups and the loop over allocations, HashGroup::next).
ResultComplete ==
  NoCollisions /\ Ended /\ pc # "failed" /\ allowResize =>
    \A k \in keys :
      LET mine == {g \in DOMAIN result : KeyOf(result[g]) = k}
      IN  /\ Cardinality(mine) = IF fed[k] = 0 THEN 0 ELSE 1
          /\ \A g \in mine : result[g][ValueAt] = [l \in keys |-> IF l = k THEN fed[k] ELSE 0]

\* Some tuples without a group agree in a column but not in their hash, and
\* there are enough of them for the map to grow while it is in use.
MayMissWhenGrown ==
  LET missing == ToSet(groupsNotFound)
  IN  /\ Cardinality(missing) > (7 * groupHt.capacity) \div 10
      /\ \E p, q \in missing : \E c \in 1 .. nrKeys :
           KeyOfTuple(p)[c] = KeyOfTuple(q)[c] /\ HashOfTuple(p) # HashOfTuple(q)

\* partition_by_key ("selOut: permutation of 'sel' with consecutive
\* partitions", Primitives.hpp:822), column after column: the tuples without a
\* group are told apart exactly, also where hashes collide; it fails only when
\* its map grows, and only for keys of several columns; and the map never grows
\* beyond the directory that its constructor has allocated.
PartitionsExact ==
  /\ pc = "failed" => nrKeys > 1 /\ MayMissWhenGrown
  /\ pc = "update" /\ groupsNotFound # <<>> =>
       LET block == allocations[Len(allocations)]
           created == block.start .. block.start + block.n - 1
       IN  /\ \A p \in ToSet(groupsNotFound) :
                htMatches[p] \in created /\ KeyOf(entries[htMatches[p]]) = KeyOfTuple(p)
           /\ \A e, f \in created : KeyOf(entries[e]) = KeyOf(entries[f]) => e = f
  /\ groupHt.capacity <= DirectorySize(vecSize)

\* The loop that follows the chains comes to an end, also with collisions.
LookupsEnd == <>Ended
=============================================================================
