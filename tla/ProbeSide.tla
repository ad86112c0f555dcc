----------------------------- MODULE ProbeSide -----------------------------
(***************************************************************************)
(* The probe side of vectorwise::Hashjoin: next() pulls a vector of probe  *)
(* tuples and calls a join function, which walks the chains of the hash    *)
(* table and returns at most batchSize pairs (build entry, position of     *)
(* the probe tuple); what does not fit is left for the next call in a      *)
(* continuation.  The join functions are in JoinProbe.                     *)
(*                                                                         *)
(* The table is complete and no longer changes (module HashBuild), and the *)
(* operator is private to its worker, so one worker is modelled.           *)
(*                                                                         *)
(* A key has several columns.  QueryBuilder::HashJoinBuilder gives each of *)
(* them, and each value of the build side, an offset in the entries, here  *)
(* the number of a field; what it scatters there on the build side is what *)
(* keyEquality and buildGather look at on the probe side.                  *)
(***************************************************************************)
EXTENDS Primitives, FiniteSets

CONSTANTS
  NBuild, NProbe,   \* number of build entries and of probe tuples
  Keys,             \* join keys: numbers
  Columns(_),       \* the columns of a key
  nrColumns,        \* how many these are
  NHashes,          \* number of hash values
  NSlots, NTags,    \* slots of the table (low bits of a hash), tags (high bits)
  batchSize,        \* tuples of a vector
  ProbeSels         \* selection vectors of the probe side to look at

ASSUME ProbeSideAssumption ==
  /\ NBuild \in Nat /\ NProbe \in Nat /\ Keys \subseteq Nat /\ nrColumns \in Nat \ {0}
  /\ \A k, l \in Keys : k # l => \E c \in 1 .. nrColumns : Columns(k)[c] # Columns(l)[c]
  /\ NHashes \in Nat \ {0} /\ NSlots \in Nat \ {0} /\ NTags \in Nat \ {0}
  /\ batchSize \in Nat \ {0}
  /\ \A s \in ProbeSels : s \in [0 .. batchSize - 1 -> Nat] /\ \A p, q \in DOMAIN s : p < q => s[p] < s[q]

Entries == 1 .. NBuild
Probes == 1 .. NProbe
End == 0      \* Hashmap::end(), the null pointer

VARIABLES
  buildKey,    \* the key of each entry of the table
  memory,      \* the entries: their fields
  next, chain, \* EntryHeader::next, and find_chain_tagged of each hash
  probeKey,    \* the key of each probe tuple
  probeSel,    \* the row of the vector that each of its tuples is in
  stage,          \* where next() is
  base,        \* probe tuples pulled before the current vector
  nextProbe, numProbes,  \* cont: position in the vector, and its size
  matches,       \* the pairs in buildMatches and probeMatches
  pairs        \* history: how often each pair was returned, up to twice

joinInput == <<buildKey, memory, next, chain, probeKey, probeSel>>
probeVars == <<joinInput, stage, base, nextProbe, numProbes, matches, pairs>>

HashOf(k) == k % NHashes
SlotOf(h) == h % NSlots
TagOf(h) == (h * NTags) \div NHashes
\* Of an entry, and of the tuple at a position of the vector.
EntryHash(e) == HashOf(buildKey[e])
Hash(p) == HashOf(probeKey[base + p + 1])

\* A chain links the entries of a slot, here in the order of their numbers.
First(S) == IF S = {} THEN End ELSE CHOOSE e \in S : \A f \in S : e <= f
SlotEntries(h) == {e \in Entries : SlotOf(EntryHash(e)) = SlotOf(h)}

\* The head of the chain of a hash, if an entry of the chain has its tag.
find_chain_tagged(h) ==
  IF \E e \in SlotEntries(h) : TagOf(EntryHash(e)) = TagOf(h)
  THEN First(SlotEntries(h)) ELSE End

\* The chain to search for the tuple at a position of the vector.
ChainOf(p) == chain[Hash(p)]

\* addBuildKey: the fields of the key columns follow the header, in which the
\* hash is, and their offsets are queued; addBuildValue: the value comes next.
HashField == 1
keyOffsets == [c \in 1 .. nrColumns |-> HashField + c]
ValueField == HashField + nrColumns + 1

\* addProbeKey: the offset that was queued first, for the c-th probe column.
ProbeOffset(c) == keyOffsets[c]

\* buildScatter, for all build tuples at once: the hash, which the builder
\* scatters first, the key columns, and a value that tells the tuple.
Scattered(keys) ==
  LET blank == [e \in Entries |-> [f \in 1 .. ValueField |-> 0]]
      hashes == scatter(NBuild, [e \in Entries |-> HashOf(keys[e])], blank, 1, HashField)
      Key(mem, c) == scatter(NBuild, [e \in Entries |-> Columns(keys[e])[c]], mem, 1, keyOffsets[c])
  IN  scatter(NBuild, Identity(NBuild), Iterate(Key, hashes, nrColumns), 1, ValueField)

\* Without a selection vector a tuple is in the row of its number.
Dense == [p \in 0 .. batchSize - 1 |-> p]

ProbeInit ==
  /\ buildKey \in [Entries -> Keys]
  /\ \E mem \in {Scattered(buildKey)} : memory = mem
  /\ next = [e \in Entries |-> First({f \in SlotEntries(EntryHash(e)) : f > e})]
  /\ chain = [h \in 0 .. NHashes - 1 |-> find_chain_tagged(h)]
  /\ probeKey \in [Probes -> Keys]
  /\ probeSel \in ProbeSels \cup {Dense}
  /\ stage = "next" /\ base = 0
  /\ nextProbe = 0 /\ numProbes = 0
  /\ matches = <<>>
  /\ pairs = [p \in Entries \X Probes |-> 0]

-----------------------------------------------------------------------------
\* The vector is used up: right->next() gives another, or EndOfStream.
PullVector ==
  /\ stage = "next" /\ nextProbe >= numProbes
  /\ base' = base + numProbes
  /\ nextProbe' = 0
  /\ IF base' = NProbe
     THEN stage' = "eos" /\ numProbes' = 0
     ELSE /\ stage' = "join"
          /\ \E n \in 1 .. batchSize : base' + n <= NProbe /\ numProbes' = n
  /\ UNCHANGED <<joinInput, matches, pairs>>

\* The vector is not used up: the join function goes on with it.
Continue ==
  /\ stage = "next" /\ nextProbe < numProbes
  /\ stage' = "join"
  /\ UNCHANGED <<joinInput, base, nextProbe, numProbes, matches, pairs>>

\* A column of the vector; rows that are not selected are like the first tuple.
Column(c) ==
  [r \in 1 .. probeSel[batchSize - 1] + 1 |->
     LET tuples == {p \in 0 .. numProbes - 1 : probeSel[p] + 1 = r}
         p == IF tuples = {} THEN 0 ELSE CHOOSE q \in tuples : TRUE
     IN  Columns(probeKey[base + p + 1])[c]]

\* keyEquality: for each column, the pairs that agree in it are kept.
keyEquality ==
  LET Check(st, c) == keys_equal(st.n, st.buildEntry, memory, ProbeOffset(c),
                                 st.probeIdx, Column(c))
  IN  Iterate(Check, [n |-> Len(matches),
                      buildEntry |-> [j \in DOMAIN matches |-> matches[j][1]],
                      probeIdx |-> [j \in DOMAIN matches |-> matches[j][2] + 1]], nrColumns)

\* The rows, of one at most, that hold a probe tuple.
RowsOf(t) == {probeSel[p] + 1 : p \in {q \in 0 .. numProbes - 1 : base + q + 1 = t}}

\* The join function has returned: keyEquality drops the pairs whose keys
\* differ, and buildGather fetches the values of the others; if nothing is left
\* next() goes on.
Return ==
  /\ stage = "return"
  /\ stage' = "next"
  /\ matches' = <<>>
  /\ \E r \in {keyEquality} :
       LET values == gather_col(r.n, r.buildEntry, memory, ValueField, r.buildEntry)
       IN  pairs' = [p \in Entries \X Probes |->
             LET hits == {j \in 1 .. r.n : values[j] = p[1] /\ r.probeIdx[j] \in RowsOf(p[2])}
             IN  IF hits = {} THEN pairs[p]
                 ELSE IF pairs[p] = 0 /\ Cardinality(hits) = 1 THEN 1 ELSE 2]
  /\ UNCHANGED <<joinInput, base, nextProbe, numProbes>>

\* What next() does but for the join function.
Operator == PullVector \/ Continue \/ Return

\* The probe side has ended: the system may stop.
Ended == stage = "eos"
=============================================================================
