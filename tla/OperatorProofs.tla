--------------------------- MODULE OperatorProofs ---------------------------
(***************************************************************************)
(* The parallel scan gives out every row exactly once, for any number of   *)
(* workers and any sizes of relation, vector and morsel, also when it is   *)
(* the leaf of a query; the result of a query is written within its        *)
(* blocks, for any plans and tables; a join returns what its keys say,     *)
(* within its buffers, for any tables and sizes and each join function;    *)
(* and the hybrid Q6 adds each row once, where it does.                    *)
(*                                                                         *)
(* The argument for the scan: a worker's private offsets, although only    *)
(* ever moved by differences, always say where it is: in its chunk, after  *)
(* vecInChunk vectors (OffsetInv).  No two workers are in one chunk        *)
(* (ChunkInv).  So the rows given out are those of the chunks handed out,  *)
(* less what the owners have still in front of them (TakenInv).            *)
(*                                                                         *)
(* The argument for the blocks: a worker writes when it has passed the     *)
(* barrier of every value (PlaceInv), so that each finalizer has run       *)
(* (BarrierInv) and no attribute is added any more (AttributeInv); and it  *)
(* writes as many tuples as the selections have counted, into a block that *)
(* has room for them (BlockInv).                                           *)
(*                                                                         *)
(* The argument for the join: whatever function joins, and wherever it was *)
(* interrupted, its state says which entries of the chains it has passed   *)
(* (Passed): in the ring, those before the entry that waits for the tuple, *)
(* which is one at most (LiveInv); else those before where the loops are.  *)
(* A passed entry with the key of the tuple is returned, or among the      *)
(* matches (AllDelivered), and those are of passed entries only            *)
(* (MatchesInv).  The buffers hold what a round takes (Space).             *)
(*                                                                         *)
(* The argument for the hybrid query: a worker that is alone goes through  *)
(* the relation from its begin (ChunkOf), and if no vector is skipped, the *)
(* number of tuples counted is where it is (CountedInv).                   *)
(***************************************************************************)
EXTENDS Query, JoinProbe, HybridQ6, NaturalFacts, SequenceTheorems, FiniteSetTheorems

\* First row of vector v of chunk k; the end of the chunk for v = scanChunkSize.
Begin(k, v) == (k * scanChunkSize + v) * vecSize

InChunk(r, k) == Begin(k, 0) <= r /\ r < Begin(k + 1, 0)

\* Row r lies in a chunk handed out, and its owner, if still there, is past it.
Given(r) ==
  /\ r < Begin(pos, 0)
  /\ \A w \in Workers :
       ~needsInit[w] /\ InChunk(r, currentChunk[w]) =>
         r < Begin(currentChunk[w], vecInChunk[w])

\* The workers that have a chunk have different ones, out of those handed out.
ChunkInv ==
  /\ \A w \in Workers : ~needsInit[w] => currentChunk[w] < pos
  /\ \A w, u \in Workers :
       w # u /\ ~needsInit[w] /\ ~needsInit[u] => currentChunk[w] # currentChunk[u]

\* A worker's offset is that of the last vector it got of its chunk.
OffsetInv ==
  \A w \in Workers :
    /\ needsInit[w] => /\ ~exhausted[w] /\ vecInChunk[w] = scanChunkSize
                       /\ currentChunk[w] = 0 /\ lastOffset[w] = 0
    /\ ~needsInit[w] /\ ~exhausted[w] =>
         lastOffset[w] + vecSize = Begin(currentChunk[w], vecInChunk[w])
    /\ exhausted[w] => nrTuples <= Begin(currentChunk[w], vecInChunk[w])

TakenInv == \A r \in Rows : taken[r] = IF Given(r) THEN 1 ELSE 0

PointerInv ==
  \A w \in Workers :
    /\ colPtr[w] = lastOffset[w]
    /\ batch[w] # {} => /\ lastOffset[w] \in batch[w]
                        /\ \A r \in batch[w] : lastOffset[w] <= r

IInv == TypeOK /\ ChunkInv /\ OffsetInv /\ TakenInv /\ PointerInv

-----------------------------------------------------------------------------
\* A chunk has at least one vector.
LEMMA ChunkSize == scanChunkSize \in Nat /\ scanChunkSize >= 1
<1>1. MorselSize \div vecSize \in Nat
  BY ScanAssumption
<1> QED
  BY <1>1, ScanAssumption DEF scanChunkSize

\* The vectors of a chunk follow each other, and chunks follow each other.
LEMMA BeginFacts ==
  ASSUME NEW k \in Nat, NEW v \in Nat
  PROVE  /\ Begin(k, v) \in Nat
         /\ Begin(k, v + 1) = Begin(k, v) + vecSize
         /\ Begin(k, scanChunkSize) = Begin(k + 1, 0)
         /\ Begin(k, 0) <= Begin(k, v)
<1>1. vecSize \in Nat /\ scanChunkSize \in Nat
  BY ChunkSize, ScanAssumption
<1>2. \A a, b, c, d \in Nat :
        /\ (a * b + c) * d \in Nat
        /\ (a * b + (c + 1)) * d = (a * b + c) * d + d
        /\ (a * b + b) * d = ((a + 1) * b + 0) * d
        /\ (a * b + 0) * d <= (a * b + c) * d
  OBVIOUS
<1> QED
  BY <1>1, <1>2 DEF Begin

\* A vector of a chunk ends before the end of the chunk.
LEMMA BeginInside ==
  ASSUME NEW k \in Nat, NEW v \in Nat, v <= scanChunkSize
  PROVE  Begin(k, v) <= Begin(k + 1, 0)
<1>1. PICK d \in Nat : v + d = scanChunkSize
  BY ChunkSize
<1>2. \A a, b, c, e \in Nat : (a + b) * c <= (a + (b + e)) * c
  OBVIOUS
<1>3. vecSize \in Nat /\ k * scanChunkSize \in Nat
  BY ChunkSize, ScanAssumption
<1>4. Begin(k, v) <= Begin(k, v + d)
  BY <1>2, <1>3 DEF Begin
<1> QED
  BY <1>1, <1>4, BeginFacts, ChunkSize

\* Chunks are disjoint and in order.
LEMMA BeginOrder ==
  ASSUME NEW k \in Nat, NEW j \in Nat, k <= j
  PROVE  Begin(k, 0) <= Begin(j, 0)
<1>1. PICK d \in Nat : k + d = j
  OBVIOUS
<1>2. \A a, b, c, e \in Nat : (a * b + 0) * c <= ((a + e) * b + 0) * c
  OBVIOUS
<1> QED
  BY <1>1, <1>2, ChunkSize, ScanAssumption DEF Begin

\* The step of NextChunk, from the end of chunk k to the start of chunk p.
LEMMA SkipStep ==
  ASSUME NEW k \in Nat, NEW p \in Nat, k < p, NEW off \in Nat,
         off + vecSize = Begin(k, scanChunkSize)
  PROVE  off + ((p - k - 1) * scanChunkSize + 1) * vecSize = Begin(p, 0)
<1>1. PICK d \in Nat : p = k + 1 + d
  OBVIOUS
<1>2. \A a, b, c \in Nat :
        (a * b + b) * c + (d * b + 1) * c = ((a + 1 + d) * b + 0) * c + c
  OBVIOUS
<1>3. p - k - 1 = d
  BY <1>1
<1>4. vecSize \in Nat /\ scanChunkSize \in Nat /\ Begin(p, 0) \in Nat
      /\ (d * scanChunkSize + 1) * vecSize \in Nat
  <2>1. vecSize \in Nat /\ scanChunkSize \in Nat
    BY ChunkSize, ScanAssumption
  <2>2. d * scanChunkSize + 1 \in Nat
    BY <2>1
  <2>3. (d * scanChunkSize + 1) * vecSize \in Nat
    BY <2>1, <2>2
  <2> QED
    BY <2>1, <2>3, BeginFacts
<1>5. (k * scanChunkSize + scanChunkSize) * vecSize + (d * scanChunkSize + 1) * vecSize
        = Begin(p, 0) + vecSize
  BY <1>1, <1>2, <1>4 DEF Begin
<1> QED
  BY <1>3, <1>4, <1>5 DEF Begin
-----------------------------------------------------------------------------
LEMMA InitIInv == Init => IInv
<1> SUFFICES ASSUME Init PROVE IInv
  OBVIOUS
<1> USE DEF Init
<1>1. TypeOK
  BY ChunkSize DEF TypeOK
<1>2. ChunkInv /\ OffsetInv /\ PointerInv
  BY DEF ChunkInv, OffsetInv, PointerInv
<1>3. Begin(0, 0) = 0
  BY ChunkSize, ScanAssumption DEF Begin
<1>4. TakenInv
  BY <1>3 DEF TakenInv, Given, Rows
<1> QED
  BY <1>1, <1>2, <1>4 DEF IInv

\* What the two ways through next() have in common: the worker goes on in a
\* chunk k, of which it has got `used` vectors, at the row behind those.
Places(w, k, used, step) ==
  /\ k \in Nat /\ used \in 0 .. scanChunkSize - 1 /\ step \in Int
  /\ ~exhausted[w]
  /\ \/ /\ ~needsInit[w] /\ k = currentChunk[w] /\ used = vecInChunk[w]
        /\ UNCHANGED <<pos, needsInit, currentChunk>>
     \/ /\ vecInChunk[w] = scanChunkSize /\ k = pos /\ used = 0
        /\ pos' = pos + 1
        /\ needsInit' = [needsInit EXCEPT ![w] = FALSE]
        /\ currentChunk' = [currentChunk EXCEPT ![w] = k]
  /\ lastOffset[w] + step * vecSize = Begin(k, used)
  /\ Advance(w, step, used)

LEMMA NextPlaces ==
  ASSUME IInv, NEW w \in Workers, ScanNext(w)
  PROVE  \E k, used, step : Places(w, k, used, step)
<1> USE DEF IInv
<1>1. /\ currentChunk[w] \in Nat /\ vecInChunk[w] \in 0 .. scanChunkSize
      /\ lastOffset[w] \in Nat /\ pos \in Nat /\ ~exhausted[w]
      /\ vecSize \in Nat /\ scanChunkSize \in Nat /\ scanChunkSize >= 1
  BY ChunkSize, ScanAssumption DEF TypeOK, ScanNext
<1>2. CASE NextInChunk(w)
  <2>1. ~needsInit[w] /\ vecInChunk[w] \in 0 .. scanChunkSize - 1
    BY <1>1, <1>2 DEF NextInChunk, OffsetInv
  <2>2. lastOffset[w] + 1 * vecSize = Begin(currentChunk[w], vecInChunk[w])
    BY <1>1, <2>1 DEF OffsetInv
  <2>3. Places(w, currentChunk[w], vecInChunk[w], 1)
    BY <1>1, <1>2, <2>1, <2>2 DEF NextInChunk, Places
  <2> QED
    BY <2>3
<1>3. CASE NextChunk(w)
  <2>1. CASE needsInit[w]
    <3> DEFINE step == (pos - currentChunk[w]) * scanChunkSize
    <3>1. lastOffset[w] = 0 /\ currentChunk[w] = 0
      BY <2>1 DEF OffsetInv
    <3>2. step = pos * scanChunkSize /\ step \in Int
      BY <1>1, <3>1
    <3>3. lastOffset[w] + step * vecSize = Begin(pos, 0)
      BY <1>1, <3>1, <3>2 DEF Begin
    <3>4. Places(w, pos, 0, step)
      <4>1. Advance(w, step, 0)
        BY <1>3, <2>1 DEF NextChunk
      <4> HIDE DEF step
      <4> QED
        BY <4>1, <1>1, <1>3, <3>2, <3>3 DEF NextChunk, Places
    <3> QED
      BY <3>4
  <2>2. CASE ~needsInit[w]
    <3> DEFINE step == (pos - currentChunk[w] - 1) * scanChunkSize + 1
    <3>1. currentChunk[w] < pos /\ vecInChunk[w] = scanChunkSize
      BY <1>3, <2>2 DEF ChunkInv, NextChunk
    <3>2. lastOffset[w] + vecSize = Begin(currentChunk[w], scanChunkSize)
      BY <1>1, <2>2, <3>1 DEF OffsetInv
    <3>3. lastOffset[w] + step * vecSize = Begin(pos, 0)
      <4> DEFINE k == currentChunk[w]
                 off == lastOffset[w]
      <4>1. /\ k \in Nat /\ pos \in Nat /\ k < pos
            /\ off \in Nat /\ off + vecSize = Begin(k, scanChunkSize)
        BY <1>1, <3>1, <3>2
      <4> HIDE DEF k, off, step
      <4>2. off + ((pos - k - 1) * scanChunkSize + 1) * vecSize = Begin(pos, 0)
        BY <4>1, SkipStep
      <4> QED
        BY <4>2 DEF k, off, step
    <3>4. step \in Int
      BY <1>1
    <3>5. Places(w, pos, 0, step)
      <4>1. Advance(w, step, 0)
        BY <1>3, <2>2 DEF NextChunk
      <4> HIDE DEF step
      <4> QED
        BY <4>1, <1>1, <1>3, <3>3, <3>4 DEF NextChunk, Places
    <3> QED
      BY <3>5
  <2> QED
    BY <2>1, <2>2
<1> QED
  BY <1>2, <1>3 DEF ScanNext


-----------------------------------------------------------------------------
\* A row lies in one chunk only.
LEMMA OneChunk ==
  ASSUME NEW r \in Int, NEW k \in Nat, NEW j \in Nat, InChunk(r, k), InChunk(r, j)
  PROVE  k = j
<1>1. k < j => Begin(k + 1, 0) <= Begin(j, 0)
  BY BeginOrder
<1>2. j < k => Begin(j + 1, 0) <= Begin(k, 0)
  BY BeginOrder
<1>3. \A i \in Nat : Begin(i, 0) \in Nat
  BY BeginFacts
<1> QED
  BY <1>1, <1>2, <1>3 DEF InChunk

\* What Places says of the place itself.
LEMMA PlaceFacts ==
  ASSUME IInv, NEW w \in Workers, NEW k, NEW used, NEW step,
         Places(w, k, used, step)
  PROVE  /\ k \in Nat /\ used \in Nat /\ used + 1 \in 0 .. scanChunkSize
         /\ Begin(k, used) \in Nat /\ Begin(k, 0) <= Begin(k, used)
         /\ Begin(k, used + 1) = Begin(k, used) + vecSize
         /\ Begin(k, used + 1) <= Begin(k + 1, 0)
         /\ vecSize \in Nat /\ vecSize >= 1 /\ nrTuples \in Nat
         /\ pos' \in Nat /\ Begin(k + 1, 0) <= Begin(pos', 0)
         /\ needsInit' = [needsInit EXCEPT ![w] = FALSE]
         /\ currentChunk' = [currentChunk EXCEPT ![w] = k]
<1>1. k \in Nat /\ used \in Nat /\ used + 1 \in 0 .. scanChunkSize
  BY ChunkSize DEF Places
<1>2. used + 1 \in Nat /\ used + 1 <= scanChunkSize
  BY <1>1, ChunkSize
<1>3. /\ Begin(k, used) \in Nat /\ Begin(k, 0) <= Begin(k, used)
      /\ Begin(k, used + 1) = Begin(k, used) + vecSize
      /\ Begin(k, used + 1) <= Begin(k + 1, 0)
  BY <1>1, <1>2, BeginFacts, BeginInside
<1>4. /\ pos' \in Nat /\ k + 1 \in Nat /\ k + 1 <= pos'
      /\ needsInit' = [needsInit EXCEPT ![w] = FALSE]
      /\ currentChunk' = [currentChunk EXCEPT ![w] = k]
  BY <1>1 DEF Places, IInv, ChunkInv, TypeOK
<1>5. Begin(k + 1, 0) <= Begin(pos', 0)
  BY <1>4, BeginOrder
<1> QED
  BY <1>1, <1>3, <1>4, <1>5, ScanAssumption

\* The chunks of the workers stay different: only a fresh one is taken.
LEMMA StepChunkInv ==
  ASSUME IInv, NEW w \in Workers, NEW k, NEW used, NEW step,
         Places(w, k, used, step)
  PROVE  ChunkInv'
BY PlaceFacts DEF Places, IInv, ChunkInv, TypeOK

\* The rows at the place have not been given out, and then they have.
LEMMA StepGiven ==
  ASSUME IInv, NEW w \in Workers, NEW k, NEW used, NEW step,
         Places(w, k, used, step), NEW r \in Rows,
         NEW m \in {used, used + 1}, vecInChunk' = [vecInChunk EXCEPT ![w] = m]
  PROVE  /\ Given(r)' <=> Given(r) \/ (Begin(k, used) <= r /\ r < Begin(k, m))
         /\ Given(r) => ~(Begin(k, used) <= r /\ r < Begin(k, m))
<1> DEFINE fresh == Begin(k, used) <= r /\ r < Begin(k, m)
           Others == \A u \in Workers \ {w} :
                       ~needsInit[u] /\ InChunk(r, currentChunk[u]) =>
                         r < Begin(currentChunk[u], vecInChunk[u])
<1>1. r \in Int /\ Begin(k, m) \in Nat /\ Begin(k, m) <= Begin(k + 1, 0)
      /\ Begin(pos, 0) \in Nat /\ Begin(k + 1, 0) \in Nat /\ Begin(k, 0) \in Nat
      /\ Begin(pos + 1, 0) \in Nat
  <2>1. /\ k \in Nat /\ m \in Nat /\ m <= scanChunkSize /\ pos \in Nat
        /\ k + 1 \in Nat /\ pos + 1 \in Nat
    BY PlaceFacts, ChunkSize DEF IInv, TypeOK
  <2>2. r \in Int
    BY ScanAssumption DEF Rows
  <2>3. Begin(k, m) <= Begin(k + 1, 0)
    BY <2>1, BeginInside
  <2> QED
    BY <2>1, <2>2, <2>3, BeginFacts
<1>2. fresh => InChunk(r, k)
  BY <1>1, PlaceFacts DEF InChunk
<1>3. fresh => Others
  <2> SUFFICES ASSUME fresh, NEW u \in Workers \ {w}, ~needsInit[u],
                      InChunk(r, currentChunk[u])
               PROVE  FALSE
    OBVIOUS
  <2>1. currentChunk[u] \in Nat /\ k \in Nat
    BY PlaceFacts DEF IInv, TypeOK
  <2>2. currentChunk[u] = k
    BY <1>1, <1>2, <2>1, OneChunk
  <2> QED
    BY <2>2 DEF Places, IInv, ChunkInv, TypeOK
<1>4. Given(r)' <=> /\ r < Begin(pos', 0) /\ Others
                    /\ InChunk(r, k) => r < Begin(k, m)
  BY PlaceFacts DEF Given, Begin, InChunk, IInv, TypeOK
<1>5. Given(r) <=> /\ r < Begin(pos, 0) /\ Others
                   /\ ~needsInit[w] /\ InChunk(r, currentChunk[w]) =>
                        r < Begin(currentChunk[w], vecInChunk[w])
  BY DEF Given
<1> HIDE DEF Others
<1>6. CASE ~needsInit[w] /\ k = currentChunk[w] /\ used = vecInChunk[w] /\ pos' = pos
  BY <1>1, <1>2, <1>3, <1>4, <1>5, <1>6, PlaceFacts DEF InChunk
<1>7. CASE vecInChunk[w] = scanChunkSize /\ k = pos /\ used = 0 /\ pos' = pos + 1
  <2>1. ~needsInit[w] => Begin(currentChunk[w], vecInChunk[w])
                           = Begin(currentChunk[w] + 1, 0)
    BY <1>7, BeginFacts DEF IInv, TypeOK
  <2>2. Given(r) <=> r < Begin(pos, 0) /\ Others
    BY <1>5, <2>1 DEF InChunk
  <2>3. Given(r)' <=> r < Begin(pos + 1, 0) /\ Others /\ (InChunk(r, pos) => r < Begin(pos, m))
    BY <1>4, <1>7
  <2>4. InChunk(r, pos) <=> Begin(pos, 0) <= r /\ r < Begin(pos + 1, 0)
    BY DEF InChunk
  <2>5. fresh <=> Begin(pos, 0) <= r /\ r < Begin(pos, m)
    BY <1>7
  <2>6. Begin(pos, 0) <= Begin(pos + 1, 0) /\ Begin(pos, m) <= Begin(pos + 1, 0)
    BY <1>1, <1>7, PlaceFacts
  <2> QED
    BY <1>1, <1>3, <2>2, <2>3, <2>4, <2>5, <2>6, <1>7
<1> QED
  BY <1>6, <1>7 DEF Places

\* A step moves one worker to its place; what concerns the others stays.
LEMMA StepIInv ==
  ASSUME IInv, NEW w \in Workers, NEW k, NEW used, NEW step,
         Places(w, k, used, step)
  PROVE  IInv'
<1> DEFINE b == Begin(k, used)
           rows == {r \in Rows : b <= r /\ r < b + vecSize}
<1>1. /\ lastOffset[w] + step * vecSize = b /\ step * vecSize \in Int
      /\ scanChunkSize \in Nat
  BY ScanAssumption, ChunkSize DEF Places
<1>2. ChunkInv'
  BY StepChunkInv
<1>3. TypeOK /\ ~needsInit'[w] /\ currentChunk'[w] = k
  BY PlaceFacts DEF IInv, TypeOK
<1>6. /\ k \in Nat /\ used \in 0 .. scanChunkSize /\ used + 1 \in 0 .. scanChunkSize
      /\ b \in Nat /\ Begin(k, used + 1) = b + vecSize
      /\ vecSize \in Nat /\ vecSize >= 1 /\ nrTuples \in Nat
      /\ pos' \in Nat
      /\ needsInit' = [needsInit EXCEPT ![w] = FALSE]
      /\ currentChunk' = [currentChunk EXCEPT ![w] = k]
  BY PlaceFacts, ChunkSize
\* Past the end of the relation: the worker is done, nothing is given out.
<1>4. CASE b >= nrTuples
  <2>1. /\ vecInChunk' = [vecInChunk EXCEPT ![w] = used]
        /\ batch' = [batch EXCEPT ![w] = {}]
        /\ exhausted' = [exhausted EXCEPT ![w] = TRUE]
        /\ UNCHANGED <<lastOffset, colPtr, taken>>
    BY <1>1, <1>4 DEF Places, Advance
  <2>2. TypeOK'
    BY <1>3, <1>6, <2>1 DEF TypeOK
  <2>3. OffsetInv'
    BY <1>3, <1>4, <2>1, PlaceFacts DEF OffsetInv, IInv, TypeOK, Begin
  <2>4. PointerInv'
    BY <2>1 DEF PointerInv, IInv, TypeOK
  <2>5. ASSUME NEW r \in Rows PROVE Given(r)' <=> Given(r)
    <3>1. Given(r)' <=> Given(r) \/ (b <= r /\ r < b)
      BY <2>1, StepGiven
    <3>2. r \in Int
      BY <1>6 DEF Rows
    <3> QED
      BY <1>6, <3>1, <3>2
  <2>6. TakenInv'
    BY <2>1, <2>5 DEF TakenInv, IInv
  <2> QED
    BY <1>2, <2>2, <2>3, <2>4, <2>6 DEF IInv
\* Inside the relation: the rows of the vector are given out.
<1>5. CASE b < nrTuples
  <2>1. /\ vecInChunk' = [vecInChunk EXCEPT ![w] = used + 1]
        /\ lastOffset' = [lastOffset EXCEPT ![w] = b]
        /\ colPtr' = [colPtr EXCEPT ![w] = @ + step * vecSize]
        /\ batch' = [batch EXCEPT ![w] = rows]
        /\ taken' = [r \in Rows |-> IF r \in rows THEN taken[r] + 1 ELSE taken[r]]
        /\ UNCHANGED exhausted
    <3>1. ~(b >= nrTuples)
      BY <1>5, PlaceFacts
    <3> QED
      BY <1>1, <3>1 DEF Places, Advance
  <2>2. colPtr'[w] = b
    BY <1>1, <1>3, <2>1 DEF IInv, PointerInv, TypeOK
  <2>3. TypeOK'
    <3>1. colPtr' = [colPtr EXCEPT ![w] = b] /\ b \in Nat
      BY <2>1, <2>2, <1>3, PlaceFacts DEF TypeOK
    <3>2. taken' \in [Rows -> Nat]
      BY <2>1, <1>3 DEF TypeOK
    <3>3. rows \in SUBSET Rows
      OBVIOUS
    <3> HIDE DEF rows
    <3> QED
      BY <1>3, <1>6, <2>1, <3>1, <3>2, <3>3 DEF TypeOK
  <2>4. OffsetInv'
    <3>1. lastOffset'[w] + vecSize = Begin(k, vecInChunk'[w])
      BY <1>3, <2>1, PlaceFacts DEF TypeOK
    <3>2. ~exhausted'[w]
      BY <2>1 DEF Places
    <3> QED
      BY <1>3, <2>1, <3>1, <3>2, <1>5, PlaceFacts DEF OffsetInv, IInv, TypeOK, Begin
  <2>5. PointerInv'
    <3>1. b \in rows /\ \A r \in rows : b <= r
      BY <1>5, <1>6 DEF Rows
    <3>2. batch'[w] = rows /\ lastOffset'[w] = b
      BY <1>3, <2>1 DEF TypeOK
    <3> HIDE DEF rows, b
    <3>3. \A u \in Workers \ {w} : /\ batch'[u] = batch[u] /\ colPtr'[u] = colPtr[u]
                                   /\ lastOffset'[u] = lastOffset[u]
      BY <1>3, <2>1 DEF TypeOK
    <3> QED
      BY <2>2, <3>1, <3>2, <3>3 DEF PointerInv, IInv
  <2>6. ASSUME NEW r \in Rows
        PROVE  /\ Given(r)' <=> Given(r) \/ r \in rows
               /\ Given(r) => r \notin rows
    <3>1. /\ Given(r)' <=> Given(r) \/ (b <= r /\ r < Begin(k, used + 1))
          /\ Given(r) => ~(b <= r /\ r < Begin(k, used + 1))
      BY <2>1, StepGiven
    <3> QED
      BY <3>1, <1>6
  <2>7. TakenInv'
    <3>1. \A r \in Rows : taken'[r] = IF r \in rows THEN taken[r] + 1 ELSE taken[r]
      BY <2>1
    <3> HIDE DEF rows
    <3> QED
      BY <3>1, <2>6 DEF TakenInv, IInv
  <2> QED
    BY <1>2, <2>3, <2>4, <2>5, <2>7 DEF IInv
<1> QED
  BY <1>4, <1>5, PlaceFacts

LEMMA NextIInv == IInv /\ [Next]_scanVars => IInv'
<1> SUFFICES ASSUME IInv, [Next]_scanVars PROVE IInv'
  OBVIOUS
<1>1. ASSUME NEW w \in Workers, ScanNext(w) PROVE IInv'
  BY <1>1, NextPlaces, StepIInv
<1>2. CASE UNCHANGED scanVars
  BY <1>2 DEF scanVars, IInv, TypeOK, ChunkInv, OffsetInv, TakenInv, PointerInv,
              Given, InChunk, Begin
<1> QED
  BY <1>1, <1>2 DEF Next, Stop

\* The inductive invariant holds in every reachable state.
THEOREM Inductive == Spec => []IInv
BY InitIInv, NextIInv, PTL DEF Spec

\* Every variable of the scan keeps its type.
THEOREM TypeCorrect == Spec => []TypeOK
<1>1. IInv => TypeOK
  BY DEF IInv
<1> QED
  BY <1>1, Inductive, PTL

\* No row is given out twice (Operators.cpp:57-82).
THEOREM RowsAtMostOnce == Spec => []NoRowTwice
<1>1. IInv => NoRowTwice
  BY DEF IInv, TakenInv, NoRowTwice
<1> QED
  BY <1>1, Inductive, PTL

\* When every worker has got EndOfStream no row is left.
THEOREM RowsAtLeastOnce == Spec => []NoRowLost
<1>1. IInv => NoRowLost
  <2> SUFFICES ASSUME IInv, Finished, NEW r \in Rows
               PROVE  Given(r)
    BY DEF IInv, TakenInv, NoRowLost
  <2>1. \A w \in Workers : /\ currentChunk[w] \in Nat /\ vecInChunk[w] \in Nat
                           /\ ~needsInit[w] /\ currentChunk[w] + 1 <= pos
                           /\ vecInChunk[w] <= scanChunkSize
                           /\ nrTuples <= Begin(currentChunk[w], vecInChunk[w])
    BY ChunkSize DEF Finished, IInv, OffsetInv, ChunkInv, TypeOK
  <2>2. r \in Int /\ r < nrTuples /\ nrTuples \in Nat /\ pos \in Nat
    BY ScanAssumption DEF Rows, IInv, TypeOK
  <2>3. PICK w \in Workers : TRUE
    BY ScanAssumption
  <2>4. /\ Begin(currentChunk[w], vecInChunk[w]) <= Begin(currentChunk[w] + 1, 0)
        /\ Begin(currentChunk[w] + 1, 0) <= Begin(pos, 0)
        /\ Begin(currentChunk[w], vecInChunk[w]) \in Nat
        /\ Begin(currentChunk[w] + 1, 0) \in Nat /\ Begin(pos, 0) \in Nat
    <3> DEFINE k == currentChunk[w]
               v == vecInChunk[w]
    <3>1. k \in Nat /\ v \in Nat /\ k + 1 \in Nat /\ k + 1 <= pos /\ v <= scanChunkSize
      BY <2>1
    <3> HIDE DEF k, v
    <3>2. Begin(k, v) <= Begin(k + 1, 0) /\ Begin(k + 1, 0) <= Begin(pos, 0)
      BY <2>2, <3>1, BeginInside, BeginOrder
    <3>3. Begin(k, v) \in Nat /\ Begin(k + 1, 0) \in Nat /\ Begin(pos, 0) \in Nat
      BY <2>2, <3>1, BeginFacts
    <3> QED
      BY <3>2, <3>3 DEF k, v
  <2>5. r < Begin(pos, 0)
    BY <2>1, <2>2, <2>4
  <2>6. ASSUME NEW u \in Workers PROVE r < Begin(currentChunk[u], vecInChunk[u])
    <3>1. Begin(currentChunk[u], vecInChunk[u]) \in Nat
      BY <2>1, BeginFacts
    <3> QED
      BY <2>1, <2>2, <3>1
  <2> QED
    BY <2>5, <2>6 DEF Given
<1> QED
  BY <1>1, Inductive, PTL

\* The columns above the scan point at the vector that was announced.
THEOREM PointersFollow == Spec => []PointersInStep
<1>1. IInv => PointersInStep
  BY DEF IInv, PointerInv, PointersInStep
<1> QED
  BY <1>1, Inductive, PTL

-----------------------------------------------------------------------------
(* The scan below a query *)

LEMMA StepScans ==
  ASSUME [QueryNext]_vars
  PROVE  [Next]_scanVars
<1>1. ASSUME NEW w \in Workers, Worker(w) PROVE ScanNext(w) \/ UNCHANGED scanVars
  BY <1>1 DEF Worker, Enter, AddInput, Start, Pull, Process, AddAggregate, AddFound, Leave
<1>2. Finalize \/ Trip => UNCHANGED scanVars
  BY DEF Finalize, Trip
<1>3. UNCHANGED vars => UNCHANGED scanVars
  BY DEF vars
<1> QED
  BY <1>1, <1>2, <1>3 DEF QueryNext, QueryStop, Step, Next

\* Every run of a query is one of the scan: whatever the operators above it do,
\* they use it only by next().
THEOREM QueryScans == QuerySpec => Spec
<1>1. QueryInit => Init
  BY DEF QueryInit
<1> QED
  BY <1>1, StepScans, PTL DEF QuerySpec, Spec

\* No query counts a row twice, leaves one out, or reads it in a wrong place.
THEOREM QueryScansOnce == QuerySpec => []NoRowTwice
BY QueryScans, RowsAtMostOnce, PTL

THEOREM QueryScansAll == QuerySpec => []NoRowLost
BY QueryScans, RowsAtLeastOnce, PTL

THEOREM QueryPointersFollow == QuerySpec => []PointersInStep
BY QueryScans, PointersFollow, PTL


-----------------------------------------------------------------------------
(* Sequences *)

\* What is known of a sequence whose elements have no type.
Sequence(s) == Len(s) \in Nat /\ s = [i \in 1 .. Len(s) |-> s[i]]

\* A sequence is one over the set of its elements, and only such are.
LEMMA SequenceOver ==
  ASSUME NEW s, Sequence(s)
  PROVE  s \in Seq({s[i] : i \in 1 .. Len(s)})
<1> DEFINE U == {s[i] : i \in 1 .. Len(s)}
<1>1. Len(s) \in Nat /\ s \in [1 .. Len(s) -> U]
  BY DEF Sequence
<1> HIDE DEF U
<1> QED
  BY <1>1, SeqDef

LEMMA SequenceTyped ==
  ASSUME NEW U, NEW s \in Seq(U)
  PROVE  Sequence(s)
BY LenProperties DEF Sequence

LEMMA SequenceMade ==
  ASSUME NEW m \in Nat, NEW s, s = [i \in 1 .. m |-> s[i]]
  PROVE  Sequence(s) /\ Len(s) = m
<1> DEFINE U == {s[i] : i \in 1 .. m}
<1>1. s \in [1 .. m -> U]
  OBVIOUS
<1>2. s \in Seq(U)
  <2> HIDE DEF U
  <2> QED
    BY <1>1, SeqDef
<1>3. Sequence(s) /\ DOMAIN s = 1 .. Len(s)
  BY <1>2, SequenceTyped, LenProperties
<1>4. DOMAIN s = 1 .. m
  BY <1>1
<1> QED
  BY <1>3, <1>4 DEF Sequence

\* One element more, or another one.
LEMMA SequenceAppend ==
  ASSUME NEW s, Sequence(s), NEW e
  PROVE  /\ Sequence(Append(s, e)) /\ Len(Append(s, e)) = Len(s) + 1
         /\ \A i \in 1 .. Len(s) : Append(s, e)[i] = s[i]
         /\ Append(s, e)[Len(s) + 1] = e
<1> DEFINE U == {s[i] : i \in 1 .. Len(s)} \cup {e}
<1>1. s \in Seq(U)
  <2>1. s \in Seq({s[i] : i \in 1 .. Len(s)})
    BY SequenceOver
  <2> QED
    BY <2>1
<1>2. e \in U
  OBVIOUS
<1> HIDE DEF U
<1> QED
  <2>1. /\ Append(s, e) \in Seq(U) /\ Len(Append(s, e)) = Len(s) + 1
        /\ \A i \in 1 .. Len(s) : Append(s, e)[i] = s[i]
        /\ Append(s, e)[Len(s) + 1] = e
    BY <1>1, <1>2, AppendProperties
  <2> QED
    BY <2>1, SequenceTyped

LEMMA SequenceExcept ==
  ASSUME NEW s, Sequence(s), NEW i \in 1 .. Len(s), NEW e
  PROVE  Sequence([s EXCEPT ![i] = e]) /\ Len([s EXCEPT ![i] = e]) = Len(s)
<1> DEFINE t == [s EXCEPT ![i] = e]
<1>1. t = [k \in 1 .. Len(s) |-> t[k]]
  BY DEF Sequence
<1> HIDE DEF t
<1> QED
  BY <1>1, SequenceMade DEF t, Sequence

\* What is written within a buffer leaves it as long as it is.
LEMMA StoreLength ==
  ASSUME NEW b, Sequence(b), NEW s, Sequence(s), NEW at \in Nat, at + Len(s) <= Len(b)
  PROVE  Sequence(Store(b, at, s)) /\ Len(Store(b, at, s)) = Len(b)
<1> DEFINE U == {b[i] : i \in 1 .. Len(b)} \cup {s[i] : i \in 1 .. Len(s)}
<1>1. Len(b) \in Nat /\ Len(s) \in Nat
  BY DEF Sequence
<1>2. b \in Seq(U) /\ s \in Seq(U)
  <2>1. b \in Seq({b[i] : i \in 1 .. Len(b)}) /\ s \in Seq({s[i] : i \in 1 .. Len(s)})
    BY SequenceOver
  <2> QED
    BY <2>1
<1> HIDE DEF U
<1> DEFINE x == SubSeq(b, 1, at)
           y == SubSeq(b, at + Len(s) + 1, Len(b))
<1>3. x \in Seq(U) /\ Len(x) = at
  BY <1>1, <1>2, SubSeqProperties
<1>4. y \in Seq(U) /\ Len(y) = Len(b) - at - Len(s)
  BY <1>1, <1>2, SubSeqProperties
<1> HIDE DEF x, y
<1>5. (x \o s) \o y \in Seq(U) /\ Len((x \o s) \o y) = Len(b)
  BY <1>1, <1>2, <1>3, <1>4, ConcatProperties
<1> QED
  BY <1>5, SequenceTyped DEF Store, x, y

-----------------------------------------------------------------------------
(* Loops.  A loop has a value after each of its turns, and what holds at first *)
(* and is kept by a turn holds at the end.  Iterate takes the body of a loop   *)
(* as an operator; the lemmas take it as a record, with its kind and what it   *)
(* refers to.                                                                 *)

\* The bodies of the loops of Branching, BranchFree, Avx512, Filtered and Filled.
Turn(loop, v, k) ==
  CASE loop.kind = "branching" ->
         IF loop.ids[k] \in loop.accepted
         THEN [n |-> v.n + 1, out |-> [v.out EXCEPT ![v.n + 1] = loop.ids[k]]]
         ELSE v
    [] loop.kind = "bf" ->
         [n |-> v.n + (IF loop.ids[k] \in loop.accepted THEN 1 ELSE 0),
          out |-> [v.out EXCEPT ![v.n + 1] = loop.ids[k]]]
    [] loop.kind = "avx512" ->
         LET first == (k - 1) * Lanes + 1
             last == Min({k * Lanes, Len(loop.ids)})
             mask == {i \in first .. last : loop.ids[i] \in loop.accepted}
             those == SelectSeq(SubSeq(loop.ids, first, last), LAMBDA i : i \in loop.accepted)
         IN  [n |-> v.n + Cardinality(mask), out |-> Store(v.out, v.n, those)]
    [] loop.kind = "filter" -> Run(loop.w, "select", v, plan.select[k])
    [] loop.kind = "copy" ->
         Store(v, DataOf(loop.block, k) + attributes[k].size * loop.block.size,
               BytesOf(loop.mem[plan.values[k].buffer], loop.m, attributes[k].size))

\* What a turn keeps: a number is counted; a block stays as long as it is.
Kept(loop, v) ==
  IF loop.kind = "copy" THEN Sequence(v) /\ Len(v) = Len(loop.block.bytes) ELSE v.n \in Nat

Turns(loop, st, m, g) == g = [k \in 0 .. m |-> IF k = 0 THEN st ELSE Turn(loop, g[k - 1], k)]

LEMMA LoopRuns ==
  ASSUME NEW loop, NEW st, NEW m \in Nat
  PROVE  \E g : Turns(loop, st, m, g)
<1> DEFINE Runs == {i \in Nat : \E g : Turns(loop, st, i, g)}
<1>1. 0 \in Runs
  <2> DEFINE g == [k \in 0 .. 0 |-> st]
  <2>1. Turns(loop, st, 0, g)
    BY DEF Turns
  <2> QED
    BY <2>1
<1>2. ASSUME NEW i \in Nat, i \in Runs
      PROVE  i + 1 \in Runs
  <2>1. PICK g : Turns(loop, st, i, g)
    BY <1>2
  <2> DEFINE e == [k \in 0 .. i + 1 |-> IF k <= i THEN g[k] ELSE Turn(loop, g[i], i + 1)]
  <2>2. /\ \A k \in 0 .. i : e[k] = g[k]
        /\ e[i + 1] = Turn(loop, g[i], i + 1)
    OBVIOUS
  <2>3. ASSUME NEW k \in 0 .. i + 1
        PROVE  e[k] = IF k = 0 THEN st ELSE Turn(loop, e[k - 1], k)
    <3> HIDE DEF e
    <3>1. CASE k <= i
      <4>1. k \in 0 .. i /\ (k # 0 => k - 1 \in 0 .. i)
        BY <3>1
      <4>2. g[k] = IF k = 0 THEN st ELSE Turn(loop, g[k - 1], k)
        BY <2>1, <4>1 DEF Turns
      <4> QED
        BY <2>2, <4>1, <4>2
    <3>2. CASE k = i + 1
      <4>1. k # 0 /\ k - 1 = i /\ i \in 0 .. i
        BY <3>2
      <4> QED
        BY <2>2, <3>2, <4>1
    <3> QED
      BY <3>1, <3>2
  <2>4. Turns(loop, st, i + 1, e)
    BY <2>3 DEF Turns
  <2> HIDE DEF e
  <2> QED
    BY <2>4
<1>3. Nat \subseteq Runs
  <2> HIDE DEF Runs
  <2> QED
    BY <1>1, <1>2, SetInduction
<1> QED
  BY <1>3

LEMMA LoopKeeps ==
  ASSUME NEW loop, NEW st, NEW m \in Nat, NEW g, Turns(loop, st, m, g), Kept(loop, st),
         \A v : \A k \in 1 .. m : Kept(loop, v) => Kept(loop, Turn(loop, v, k))
  PROVE  Kept(loop, g[m])
<1> DEFINE S == {k \in Nat : k <= m => Kept(loop, g[k])}
<1>1. 0 \in S
  BY DEF Turns
<1>2. ASSUME NEW k \in Nat, k \in S
      PROVE  k + 1 \in S
  <2> SUFFICES ASSUME k + 1 <= m
               PROVE  Kept(loop, g[k + 1])
    OBVIOUS
  <2>1. k + 1 \in 1 .. m /\ k + 1 \in 0 .. m /\ (k + 1) - 1 = k /\ k + 1 # 0 /\ k <= m
    OBVIOUS
  <2>2. g[k + 1] = Turn(loop, g[k], k + 1)
    BY <2>1 DEF Turns
  <2>3. Kept(loop, g[k])
    BY <1>2, <2>1
  <2> QED
    BY <2>1, <2>2, <2>3
<1>3. Nat \subseteq S
  <2> HIDE DEF S
  <2> QED
    BY <1>1, <1>2, SetInduction
<1> QED
  BY <1>3

\* The selections count what they accept.
LEMMA BranchingCounts ==
  ASSUME NEW ids, Len(ids) \in Nat, NEW accepted, NEW buffer
  PROVE  Branching(ids, accepted, buffer).n \in Nat
<1> DEFINE st == [n |-> 0, out |-> buffer]
           loop == [kind |-> "branching", ids |-> ids, accepted |-> accepted]
           Body(s, k) == IF ids[k] \in accepted
                         THEN [n |-> s.n + 1, out |-> [s.out EXCEPT ![s.n + 1] = ids[k]]]
                         ELSE s
           run == CHOOSE g : g = [k \in 0 .. Len(ids) |->
                    IF k = 0 THEN st ELSE Then(g[k - 1], LAMBDA v : Body(v, k))]
<1>1. Branching(ids, accepted, buffer) = run[Len(ids)]
  BY DEF Branching, Iterate
<1>2. \A v, k : Body(v, k) = Turn(loop, v, k)
  BY DEF Turn
<1>3. Kept(loop, st) /\ \A v, k : Kept(loop, v) => Kept(loop, Body(v, k))
  BY DEF Kept
<1>4. loop.kind # "copy"
  OBVIOUS
<1> HIDE DEF st, loop, Body
<1>5. Turns(loop, st, Len(ids), run)
  <2>1. \A v, k : Then(v, LAMBDA x : Body(x, k)) = Turn(loop, v, k)
    BY <1>2 DEF Then
  <2>2. \A g : Turns(loop, st, Len(ids), g) <=>
          g = [k \in 0 .. Len(ids) |->
                    IF k = 0 THEN st ELSE Then(g[k - 1], LAMBDA v : Body(v, k))]
    BY <2>1 DEF Turns
  <2> QED
    BY <2>2, LoopRuns
<1> HIDE DEF run
<1>6. Kept(loop, run[Len(ids)])
  BY <1>2, <1>3, <1>5, LoopKeeps
<1> QED
  BY <1>1, <1>4, <1>6 DEF Kept

LEMMA BranchFreeCounts ==
  ASSUME NEW ids, Len(ids) \in Nat, NEW accepted, NEW buffer
  PROVE  BranchFree(ids, accepted, buffer).n \in Nat
<1> DEFINE st == [n |-> 0, out |-> buffer]
           loop == [kind |-> "bf", ids |-> ids, accepted |-> accepted]
           Body(s, k) == [n |-> s.n + (IF ids[k] \in accepted THEN 1 ELSE 0),
                          out |-> [s.out EXCEPT ![s.n + 1] = ids[k]]]
           run == CHOOSE g : g = [k \in 0 .. Len(ids) |->
                    IF k = 0 THEN st ELSE Then(g[k - 1], LAMBDA v : Body(v, k))]
<1>1. BranchFree(ids, accepted, buffer) = run[Len(ids)]
  BY DEF BranchFree, Iterate
<1>2. \A v, k : Body(v, k) = Turn(loop, v, k)
  BY DEF Turn
<1>3. Kept(loop, st) /\ \A v, k : Kept(loop, v) => Kept(loop, Body(v, k))
  BY DEF Kept
<1>4. loop.kind # "copy"
  OBVIOUS
<1> HIDE DEF st, loop, Body
<1>5. Turns(loop, st, Len(ids), run)
  <2>1. \A v, k : Then(v, LAMBDA x : Body(x, k)) = Turn(loop, v, k)
    BY <1>2 DEF Then
  <2>2. \A g : Turns(loop, st, Len(ids), g) <=>
          g = [k \in 0 .. Len(ids) |->
                    IF k = 0 THEN st ELSE Then(g[k - 1], LAMBDA v : Body(v, k))]
    BY <2>1 DEF Turns
  <2> QED
    BY <2>2, LoopRuns
<1> HIDE DEF run
<1>6. Kept(loop, run[Len(ids)])
  BY <1>2, <1>3, <1>5, LoopKeeps
<1> QED
  BY <1>1, <1>4, <1>6 DEF Kept

LEMMA Avx512Counts ==
  ASSUME NEW ids, Len(ids) \in Nat, NEW accepted, NEW buffer
  PROVE  Avx512(ids, accepted, buffer).n \in Nat
<1> DEFINE st == [n |-> 0, out |-> buffer]
           m == (Len(ids) + Lanes - 1) \div Lanes
           loop == [kind |-> "avx512", ids |-> ids, accepted |-> accepted]
           first(k) == (k - 1) * Lanes + 1
           last(k) == Min({k * Lanes, Len(ids)})
           mask(k) == {i \in first(k) .. last(k) : ids[i] \in accepted}
           Body(s, k) ==
             [n |-> s.n + Cardinality(mask(k)),
              out |-> Store(s.out, s.n, SelectSeq(SubSeq(ids, first(k), last(k)),
                                                  LAMBDA i : i \in accepted))]
           run == CHOOSE g : g = [k \in 0 .. m |->
                    IF k = 0 THEN st ELSE Then(g[k - 1], LAMBDA v : Body(v, k))]
<1>1. Avx512(ids, accepted, buffer) = run[m]
  BY DEF Avx512, Iterate
<1>2. \A v, k : Body(v, k) = Turn(loop, v, k)
  BY DEF Turn
<1>3. ASSUME NEW k \in 1 .. m
      PROVE  Cardinality(mask(k)) \in Nat
  <2>1. k * Lanes \in Int /\ first(k) \in Int
    BY PrimitivesAssumption
  <2>2. last(k) \in Int
    <3> DEFINE a == k * Lanes
               b == Len(ids)
    <3>1. a \in Int /\ b \in Int
      BY <2>1
    <3> HIDE DEF a, b
    <3>2. \E x \in {a, b} : \A y \in {a, b} : x <= y
      BY <3>1
    <3>3. Min({a, b}) \in {a, b}
      BY <3>2 DEF Min
    <3> QED
      BY <3>1, <3>3 DEF a, b
  <2> HIDE DEF first, last
  <2>3. IsFiniteSet(first(k) .. last(k))
    BY <2>1, <2>2, FS_Interval
  <2>4. IsFiniteSet(mask(k))
    BY <2>3, FS_Subset
  <2> QED
    BY <2>4, FS_CardinalityType
<1> HIDE DEF mask
<1>4. Kept(loop, st) /\ \A v : \A k \in 1 .. m : Kept(loop, v) => Kept(loop, Body(v, k))
  BY <1>3 DEF Kept
<1>5. loop.kind # "copy" /\ m \in Nat
  BY PrimitivesAssumption
<1> HIDE DEF st, loop, Body, m
<1>6. Turns(loop, st, m, run)
  <2>1. \A v, k : Then(v, LAMBDA x : Body(x, k)) = Turn(loop, v, k)
    BY <1>2 DEF Then
  <2>2. \A g : Turns(loop, st, m, g) <=>
          g = [k \in 0 .. m |-> IF k = 0 THEN st ELSE Then(g[k - 1], LAMBDA v : Body(v, k))]
    BY <2>1 DEF Turns
  <2> QED
    BY <1>5, <2>2, LoopRuns
<1> HIDE DEF run
<1>7. Kept(loop, run[m])
  BY <1>2, <1>4, <1>5, <1>6, LoopKeeps
<1> QED
  BY <1>1, <1>5, <1>7 DEF Kept

LEMMA SelectCounts ==
  ASSUME NEW ids, Len(ids) \in Nat, NEW accepted, NEW buffer,
         NEW f \in {"branching", "bf", "avx512"}
  PROVE  Select(f, ids, accepted, buffer).n \in Nat
BY BranchingCounts, BranchFreeCounts, Avx512Counts DEF Select

\* An operation of a Select finds a number of tuples.
LEMMA OperationCounts ==
  ASSUME NEW w, NEW st, st.n \in Nat, NEW op, op.prim \in Selections, form \in Forms
  PROVE  Run(w, "select", st, op).n \in Nat
<1> DEFINE a == [k \in DOMAIN op.args |-> Argument(w, st.mem, op, k)]
           Written(r) == [n |-> r.n, mem |-> [st.mem EXCEPT ![op.out] = r.out]]
           r == RunSelect(op, st.n, a, st.mem[op.out])
<1>1. form \in {"branching", "bf", "avx512"}
  BY QueryAssumption
<1>2. Len(Identity(st.n)) \in Nat
  BY SequenceMade DEF Identity
<1>3. \A s : Len([i \in 1 .. st.n |-> s[i]]) \in Nat
  <2> SUFFICES ASSUME NEW s
               PROVE  Len([i \in 1 .. st.n |-> s[i]]) \in Nat
    OBVIOUS
  <2> DEFINE t == [i \in 1 .. st.n |-> s[i]]
  <2>1. t = [i \in 1 .. st.n |-> t[i]]
    OBVIOUS
  <2> HIDE DEF t
  <2>2. Len(t) \in Nat
    BY <2>1, SequenceMade
  <2> QED
    BY <2>2 DEF t
<1> HIDE DEF a
<1>4. r.n \in Nat
  <2>1. \A accepted, buffer : Select(form, Identity(st.n), accepted, buffer).n \in Nat
    BY <1>1, <1>2, SelectCounts
  <2>2. \A accepted, buffer : BranchFree(Identity(st.n), accepted, buffer).n \in Nat
    BY <1>2, BranchFreeCounts
  <2>3. \A s, accepted, buffer :
          Select(form, [i \in 1 .. st.n |-> s[i]], accepted, buffer).n \in Nat
    BY <1>1, <1>3, SelectCounts
  <2>4. CASE op.prim = "sel_col_val"
    BY <2>1, <2>4 DEF RunSelect, sel_col_val
  <2>5. CASE op.prim = "sel_col_val_or_val"
    BY <2>2, <2>5 DEF RunSelect, sel_col_val_or_val
  <2>6. CASE op.prim = "sel_col_col"
    BY <2>1, <2>6 DEF RunSelect, sel_col_col
  <2>7. CASE op.prim = "selsel_col_val"
    BY <2>3, <2>7 DEF RunSelect, selsel_col_val
  <2>8. CASE op.prim = "selsel_col_col"
    BY <2>3, <2>8 DEF RunSelect, selsel_col_col
  <2> QED
    BY <2>4, <2>5, <2>6, <2>7, <2>8 DEF Selections
<1> HIDE DEF r
<1>5. Run(w, "select", st, op) = Written(r)
  <2>1. RunPrimitive("select", op, st.n, a, st.mem[op.out]) = r
    BY DEF RunPrimitive, r
  <2>2. Run(w, "select", st, op)
          = Then(RunPrimitive("select", op, st.n, a, st.mem[op.out]), Written)
    BY DEF Run, a
  <2> HIDE DEF Written
  <2>3. Then(RunPrimitive("select", op, st.n, a, st.mem[op.out]), Written) = Written(r)
    BY <2>1 DEF Then
  <2> QED
    BY <2>2, <2>3
<1> QED
  BY <1>4, <1>5

LEMMA FilteredCounts ==
  ASSUME NEW w, NEW mem, NEW m \in Nat, plan \in Plans, form \in Forms
  PROVE  Filtered(w, mem, m).n \in Nat
<1> DEFINE st == [n |-> m, mem |-> mem]
           loop == [kind |-> "filter", w |-> w]
           Body(s, k) == Run(w, "select", s, plan.select[k])
           l == Len(plan.select)
           run == CHOOSE g : g = [k \in 0 .. l |->
                    IF k = 0 THEN st ELSE Then(g[k - 1], LAMBDA v : Body(v, k))]
<1>1. Filtered(w, mem, m) = run[l]
  BY DEF Filtered, Iterate
<1>2. \A v, k : Body(v, k) = Turn(loop, v, k)
  BY DEF Turn
<1>3. l \in Nat /\ \A k \in 1 .. l : plan.select[k].prim \in Selections
  BY QueryAssumption
<1>4. Kept(loop, st) /\ \A v : \A k \in 1 .. l : Kept(loop, v) => Kept(loop, Body(v, k))
  BY <1>3, OperationCounts DEF Kept
<1>5. loop.kind # "copy"
  OBVIOUS
<1> HIDE DEF st, loop, Body, l
<1>6. Turns(loop, st, l, run)
  <2>1. \A v, k : Then(v, LAMBDA x : Body(x, k)) = Turn(loop, v, k)
    BY <1>2 DEF Then
  <2>2. \A g : Turns(loop, st, l, g) <=>
          g = [k \in 0 .. l |-> IF k = 0 THEN st ELSE Then(g[k - 1], LAMBDA v : Body(v, k))]
    BY <2>1 DEF Turns
  <2> QED
    BY <1>3, <2>2, LoopRuns
<1> HIDE DEF run
<1>7. Kept(loop, run[l])
  BY <1>2, <1>3, <1>4, <1>6, LoopKeeps
<1> QED
  BY <1>1, <1>5, <1>7 DEF Kept

-----------------------------------------------------------------------------
(* The blocks of the result.  A block is made for the attributes there are,   *)
(* and its areas move if one is added.  That no block is made too early       *)
(* follows from the barriers: who pulls has passed the barrier of every value *)
(* (PlaceInv), and so each finalizer has run (BarrierInv, AttributeInv).      *)

\* Which phases of the barrier the workers are in; one that has its finalizer
\* behind it has all workers inside.
BarrierInv ==
  /\ tripped \in Nat /\ finalized \in {tripped, tripped + 1}
  /\ entered \in [Workers -> Nat]
  /\ \A w \in Workers : entered[w] \in {tripped, tripped + 1}
  /\ finalized = tripped + 1 => \A w \in Workers : entered[w] = tripped + 1

\* How many barriers a worker has come to, by where it is.
PlaceInv ==
  /\ built \in [Workers -> Nat] /\ pc = [w \in Workers |-> pc[w]]
  /\ \A w \in Workers :
       \/ /\ pc[w] = "build" /\ built[w] <= nrValues
          /\ entered[w] = built[w] /\ tripped = built[w]
       \/ pc[w] = "adding" /\ built[w] < nrValues /\ entered[w] = built[w] + 1
       \/ /\ pc[w] \in {"pull", "vector", "add", "count", "report"}
          /\ entered[w] = nrValues /\ tripped = nrValues
       \/ pc[w] \in {"leaving", "done"} /\ entered[w] = nrValues + 1

\* There is an attribute for each value whose finalizer has run, and they lie
\* within a tuple.
AttributeInv ==
  /\ attributes \in Seq([size : Nat, offset : Nat])
  /\ Len(attributes) = IF finalized < nrValues THEN finalized ELSE nrValues
  /\ \A k \in 1 .. Len(attributes) : attributes[k].offset + attributes[k].size <= TupleSize

Block(size, maxNrElements, bytes) ==
  [size |-> size, maxNrElements |-> maxNrElements, bytes |-> bytes]

BlockWhole(b, tuple) ==
  /\ b = Block(b.size, b.maxNrElements, b.bytes)
  /\ b.size \in Nat /\ b.maxNrElements \in Nat /\ b.size <= b.maxNrElements
  /\ Sequence(b.bytes) /\ Len(b.bytes) = b.maxNrElements * tuple

BlockInv ==
  /\ Sequence(blocks)
  /\ \A b \in 1 .. Len(blocks) : BlockWhole(blocks[b], TupleSize)
  /\ Len(blocks) # 0 => finalized >= nrValues
  /\ currentBlock \in [Workers -> Nat]
  /\ \A w \in Workers : currentBlock[w] <= Len(blocks)

QueryInv ==
  /\ plan \in Plans /\ form \in Forms
  /\ IInv /\ BarrierInv /\ PlaceInv /\ AttributeInv /\ BlockInv

-----------------------------------------------------------------------------
\* What is behind the elements of an area has room within the block.
LEMMA WithinBlock ==
  ASSUME NEW offset \in Nat, NEW size \in Nat, NEW elements \in Nat, NEW used \in Nat,
         NEW m \in Nat, NEW tuple \in Nat, offset + size <= tuple, used + m <= elements
  PROVE  offset * elements + size * used + m * size <= elements * tuple
<1>1. \A x, y, z \in Nat : x <= y => x * z <= y * z
  <2> SUFFICES ASSUME NEW x \in Nat, NEW y \in Nat, NEW z \in Nat, x <= y
               PROVE  x * z <= y * z
    OBVIOUS
  <2>1. y - x \in Nat /\ y * z = x * z + (y - x) * z
    OBVIOUS
  <2>2. \A d \in Nat : d * z \in Nat
    OBVIOUS
  <2> QED
    BY <2>1, <2>2
<1>2. (used + m) * size <= elements * size
  BY <1>1
<1>3. (offset + size) * elements <= tuple * elements
  BY <1>1
<1>4. (used + m) * size = size * used + m * size
  OBVIOUS
<1>5. (offset + size) * elements = offset * elements + elements * size
  OBVIOUS
<1>6. tuple * elements = elements * tuple
  OBVIOUS
<1>7. /\ offset * elements \in Nat /\ size * used \in Nat /\ m * size \in Nat
      /\ elements * size \in Nat /\ elements * tuple \in Nat
  OBVIOUS
<1> QED
  BY <1>2, <1>3, <1>4, <1>5, <1>6, <1>7

LEMMA TupleSizeType ==
  ASSUME AttributeInv
  PROVE  TupleSize \in Nat
<1>1. attributes # <<>> => attributes[Len(attributes)] \in [size : Nat, offset : Nat]
  <2>1. attributes \in Seq([size : Nat, offset : Nat])
    BY DEF AttributeInv
  <2>2. Len(attributes) \in Nat /\ (attributes # <<>> => Len(attributes) # 0)
    BY <2>1, LenProperties, EmptySeq
  <2>3. \A k \in 1 .. Len(attributes) : attributes[k] \in [size : Nat, offset : Nat]
    BY <2>1, ElementOfSeq
  <2> QED
    BY <2>2, <2>3
<1> QED
  BY <1>1 DEF TupleSize

\* Filling a block copies each input behind the elements of its area, and keeps
\* within the block.
LEMMA FilledWhole ==
  ASSUME AttributeInv, Len(attributes) = nrValues,
         NEW block, BlockWhole(block, TupleSize), NEW mem, NEW m \in Nat,
         block.size + m <= block.maxNrElements
  PROVE  BlockWhole(Filled(block, mem, m), TupleSize)
<1> DEFINE st == block.bytes
           loop == [kind |-> "copy", block |-> block, mem |-> mem, m |-> m]
           Copy(bytes, k) ==
             LET size == attributes[k].size
             IN  Store(bytes, DataOf(block, k) + size * block.size,
                       BytesOf(mem[plan.values[k].buffer], m, size))
           l == nrValues
           run == CHOOSE g : g = [k \in 0 .. l |->
                    IF k = 0 THEN st ELSE Then(g[k - 1], LAMBDA v : Copy(v, k))]
<1>1. Filled(block, mem, m) = [block EXCEPT !.bytes = run[l], !.size = @ + m]
  BY DEF Filled, Iterate
<1>2. \A v, k : Copy(v, k) = Turn(loop, v, k)
  BY DEF Turn
<1>3. l \in Nat
  BY LenProperties DEF AttributeInv
<1>4. /\ block = Block(block.size, block.maxNrElements, block.bytes)
      /\ block.size \in Nat /\ block.maxNrElements \in Nat
      /\ Sequence(st) /\ Len(st) = block.maxNrElements * TupleSize
  BY DEF BlockWhole
<1>5. ASSUME NEW v, NEW k \in 1 .. l, Kept(loop, v)
      PROVE  Kept(loop, Copy(v, k))
  <2> DEFINE size == attributes[k].size
             offset == attributes[k].offset
             at == DataOf(block, k) + size * block.size
             s == BytesOf(mem[plan.values[k].buffer], m, size)
  <2>1. size \in Nat /\ offset \in Nat /\ offset + size <= TupleSize /\ TupleSize \in Nat
    <3>1. attributes[k] \in [size : Nat, offset : Nat]
      BY ElementOfSeq DEF AttributeInv
    <3> QED
      BY <3>1, TupleSizeType DEF AttributeInv
  <2>2. Sequence(v) /\ Len(v) = block.maxNrElements * TupleSize
    BY <1>4, <1>5 DEF Kept
  <2>3. at = offset * block.maxNrElements + size * block.size
    BY DEF DataOf
  <2> HIDE DEF size, offset, at
  <2>4. m * size \in Nat
    BY <2>1
  <2>5. Sequence(s) /\ Len(s) = m * size
    <3>1. s = [i \in 1 .. m * size |-> s[i]]
      BY DEF BytesOf
    <3> HIDE DEF s
    <3> QED
      BY <2>4, <3>1, SequenceMade
  <2>6. at + Len(s) <= Len(v)
    <3>1. offset * block.maxNrElements + size * block.size + m * size
            <= block.maxNrElements * TupleSize
      BY <1>4, <2>1, WithinBlock
    <3> QED
      BY <2>2, <2>3, <2>5, <3>1
  <2>7. at \in Nat
    <3>1. \A x, y \in Nat : x * y \in Nat
      OBVIOUS
    <3>2. offset * block.maxNrElements \in Nat /\ size * block.size \in Nat
      BY <1>4, <2>1, <3>1
    <3> QED
      BY <2>3, <3>2
  <2>8. Copy(v, k) = Store(v, at, s)
    BY DEF size, at
  <2> HIDE DEF s, Copy
  <2>9. Sequence(Store(v, at, s)) /\ Len(Store(v, at, s)) = Len(v)
    BY <2>2, <2>5, <2>6, <2>7, StoreLength
  <2> QED
    BY <1>5, <2>8, <2>9 DEF Kept
<1>6. Kept(loop, st)
  BY <1>4 DEF Kept
<1>7. loop.kind = "copy" /\ loop.block = block
  OBVIOUS
<1> HIDE DEF st, loop, Copy, l
<1>8. Turns(loop, st, l, run)
  <2>1. \A v, k : Then(v, LAMBDA x : Copy(x, k)) = Turn(loop, v, k)
    BY <1>2 DEF Then
  <2>2. \A g : Turns(loop, st, l, g) <=>
          g = [k \in 0 .. l |-> IF k = 0 THEN st ELSE Then(g[k - 1], LAMBDA v : Copy(v, k))]
    BY <2>1 DEF Turns
  <2> QED
    BY <1>3, <2>2, LoopRuns
<1> HIDE DEF run
<1>9. Kept(loop, run[l])
  BY <1>2, <1>3, <1>5, <1>6, <1>8, LoopKeeps
<1>10. Sequence(run[l]) /\ Len(run[l]) = block.maxNrElements * TupleSize
  BY <1>4, <1>7, <1>9 DEF Kept, st
<1>11. Filled(block, mem, m) = Block(block.size + m, block.maxNrElements, run[l])
  BY <1>1, <1>4 DEF Block
<1> QED
  BY <1>4, <1>10, <1>11 DEF BlockWhole, Block

LEMMA CreatedWhole ==
  ASSUME AttributeInv, NEW m \in Nat
  PROVE  /\ BlockWhole(createBlock(m), TupleSize)
         /\ createBlock(m).size = 0 /\ m <= createBlock(m).maxNrElements
<1> DEFINE elements == Max({minBlockSize, m})
           bytes == [i \in 1 .. elements * TupleSize |-> <<0, 0>>]
<1>1. elements \in Nat /\ m <= elements
  <2>1. minBlockSize \in Nat
    BY QueryAssumption
  <2>2. \E x \in {minBlockSize, m} : \A y \in {minBlockSize, m} : x >= y
    BY <2>1
  <2>3. elements \in {minBlockSize, m} /\ \A y \in {minBlockSize, m} : elements >= y
    BY <2>2 DEF Max
  <2> HIDE DEF elements
  <2> QED
    BY <2>1, <2>3
<1>2. createBlock(m) = Block(0, elements, bytes)
  BY DEF createBlock, Block
<1> HIDE DEF elements
<1>3. elements * TupleSize \in Nat
  BY <1>1, TupleSizeType
<1>4. Sequence(bytes) /\ Len(bytes) = elements * TupleSize
  <2>1. bytes = [i \in 1 .. elements * TupleSize |-> bytes[i]]
    OBVIOUS
  <2> HIDE DEF bytes
  <2> QED
    BY <1>3, <2>1, SequenceMade
<1> HIDE DEF bytes
<1> QED
  BY <1>1, <1>2, <1>4 DEF BlockWhole, Block

-----------------------------------------------------------------------------
(* The invariant is inductive *)

LEMMA QueryInitInv == QueryInit => QueryInv
<1> SUFFICES ASSUME QueryInit PROVE QueryInv
  OBVIOUS
<1>1. IInv
  BY InitIInv DEF QueryInit
<1>2. plan \in Plans /\ form \in Forms
  BY DEF QueryInit
<1>3. nrValues \in Nat
  BY <1>2, QueryAssumption DEF nrValues
<1>4. BarrierInv
  BY DEF QueryInit, barrier!Init, BarrierInv
<1>5. PlaceInv
  BY <1>3 DEF QueryInit, barrier!Init, PlaceInv
<1>6. AttributeInv
  <2>1. attributes = <<>> /\ finalized = 0
    BY DEF QueryInit, barrier!Init
  <2>2. attributes \in Seq([size : Nat, offset : Nat]) /\ Len(attributes) = 0
    BY <2>1, EmptySeq
  <2> QED
    BY <1>3, <2>1, <2>2 DEF AttributeInv
<1>7. BlockInv
  <2>1. blocks = <<>> /\ currentBlock = [w \in Workers |-> 0]
    BY DEF QueryInit
  <2>2. blocks \in Seq({}) /\ Len(blocks) = 0
    BY <2>1, EmptySeq
  <2>3. Sequence(blocks)
    BY <2>2, SequenceTyped
  <2> QED
    BY <2>1, <2>2, <2>3 DEF BlockInv
<1> QED
  BY <1>1, <1>2, <1>4, <1>5, <1>6, <1>7 DEF QueryInv

\* A phase ends when all workers have entered it, and none is then in between.
LEMMA StepBarrier ==
  ASSUME QueryInv, QueryNext
  PROVE  BarrierInv' /\ PlaceInv'
<1> USE DEF QueryInv
<1>1. nrValues \in Nat
  BY QueryAssumption DEF nrValues
<1>2. /\ tripped \in Nat /\ finalized \in {tripped, tripped + 1}
      /\ \A w \in Workers : entered[w] \in Nat /\ built[w] \in Nat
  BY DEF BarrierInv, PlaceInv
<1>3. ASSUME NEW w \in Workers, Enter(w)
      PROVE  BarrierInv' /\ PlaceInv'
  <2>1. /\ entered[w] = tripped /\ entered' = [entered EXCEPT ![w] = @ + 1]
        /\ finalized' = finalized /\ tripped' = tripped /\ built' = built
        /\ pc' = [pc EXCEPT ![w] = IF @ = "build" THEN "adding" ELSE "leaving"]
        /\ nrValues' = nrValues
    BY <1>3 DEF Enter, barrier!Enter, input, nrValues
  <2>2. BarrierInv'
    BY <1>2, <2>1 DEF BarrierInv
  <2>3. \/ pc[w] = "build" /\ built[w] < nrValues
        \/ pc[w] = "report" /\ entered[w] = nrValues
    BY <1>3 DEF Enter, PlaceInv
  <2>4. PlaceInv'
    BY <1>2, <2>1, <2>3 DEF PlaceInv, BarrierInv
  <2> QED
    BY <2>2, <2>4
<1>4. ASSUME Finalize
      PROVE  BarrierInv' /\ PlaceInv'
  <2>1. /\ \A w \in Workers : entered[w] = tripped + 1
        /\ finalized = tripped /\ finalized' = finalized + 1
        /\ UNCHANGED <<entered, tripped, pc, built, nrValues>>
    BY <1>4 DEF Finalize, barrier!Finalize, input, nrValues
  <2> QED
    BY <1>2, <2>1 DEF BarrierInv, PlaceInv
<1>5. ASSUME Trip
      PROVE  BarrierInv' /\ PlaceInv'
  <2>1. /\ finalized = tripped + 1 /\ tripped' = tripped + 1
        /\ UNCHANGED <<entered, finalized, pc, built, nrValues>>
    BY <1>5 DEF Trip, barrier!Trip, input, nrValues
  <2>2. \A w \in Workers : entered[w] = tripped + 1
    BY <2>1 DEF BarrierInv
  <2> QED
    BY <1>1, <1>2, <2>1, <2>2 DEF BarrierInv, PlaceInv
<1>6. ASSUME NEW w \in Workers, AddInput(w)
      PROVE  BarrierInv' /\ PlaceInv'
  <2>1. /\ pc[w] = "adding" /\ tripped = entered[w]
        /\ built' = [built EXCEPT ![w] = @ + 1] /\ pc' = [pc EXCEPT ![w] = "build"]
        /\ UNCHANGED <<entered, finalized, tripped, nrValues>>
    BY <1>6 DEF AddInput, barrierVars, input, nrValues
  <2> QED
    BY <1>1, <1>2, <2>1 DEF BarrierInv, PlaceInv
<1>7. ASSUME NEW w \in Workers, Start(w) \/ Pull(w) \/ Process(w) \/ AddAggregate(w) \/ AddFound(w)
      PROVE  BarrierInv' /\ PlaceInv'
  <2>1. /\ \/ pc[w] = "build" /\ built[w] = nrValues
           \/ pc[w] \in {"pull", "vector", "add", "count"}
        /\ \E p \in {"pull", "vector", "add", "count", "report"} : pc' = [pc EXCEPT ![w] = p]
        /\ UNCHANGED <<built, entered, finalized, tripped, nrValues>>
    BY <1>7 DEF Start, Pull, Process, AddAggregate, AddFound, barrierVars, input, nrValues
  <2> QED
    BY <1>1, <1>2, <2>1 DEF BarrierInv, PlaceInv
<1>8. ASSUME NEW w \in Workers, Leave(w)
      PROVE  BarrierInv' /\ PlaceInv'
  <2>1. /\ pc[w] = "leaving" /\ pc' = [pc EXCEPT ![w] = "done"]
        /\ UNCHANGED <<built, entered, finalized, tripped, nrValues>>
    BY <1>8 DEF Leave, barrierVars, input, nrValues
  <2> QED
    BY <1>1, <1>2, <2>1 DEF BarrierInv, PlaceInv
<1>9. ASSUME QueryStop
      PROVE  BarrierInv' /\ PlaceInv'
  BY <1>9 DEF QueryStop, vars, barrierVars, input, BarrierInv, PlaceInv, nrValues
<1> QED
  BY <1>3, <1>4, <1>5, <1>6, <1>7, <1>8, <1>9 DEF QueryNext, Step, Worker

\* Only a finalizer adds an attribute, behind those there are.
LEMMA StepAttributes ==
  ASSUME QueryInv, QueryNext
  PROVE  AttributeInv'
<1> USE DEF QueryInv
<1>1. /\ tripped \in Nat /\ finalized \in {tripped, tripped + 1}
      /\ nrValues \in Nat /\ nrValues \in 0 .. MaxValues /\ TupleSize \in Nat
  BY QueryAssumption, TupleSizeType DEF BarrierInv, nrValues
<1>2. ASSUME Finalize, finalized < nrValues
      PROVE  AttributeInv'
  <2> DEFINE size == plan.values[finalized + 1].size
             a == [size |-> size, offset |-> TupleSize]
  <2>1. /\ finalized' = finalized + 1 /\ plan' = plan
        /\ attributes' = Append(attributes, a)
    BY <1>2 DEF Finalize, barrier!Finalize, input
  <2>2. size \in Nat
    BY <1>1, <1>2, QueryAssumption DEF nrValues
  <2>3. a \in [size : Nat, offset : Nat] /\ a.size = size /\ a.offset = TupleSize
    BY <1>1, <2>2
  <2> HIDE DEF a, size
  <2>4. /\ attributes' \in Seq([size : Nat, offset : Nat])
        /\ attributes' # <<>> /\ Len(attributes') = Len(attributes) + 1
        /\ \A k \in 1 .. Len(attributes) : attributes'[k] = attributes[k]
        /\ attributes'[Len(attributes) + 1] = a
    BY <2>1, <2>3, AppendProperties DEF AttributeInv
  <2>5. Len(attributes) = finalized
    BY <1>2 DEF AttributeInv
  <2>6. TupleSize' = TupleSize + size
    BY <2>3, <2>4 DEF TupleSize
  <2>7. ASSUME NEW k \in 1 .. Len(attributes')
        PROVE  attributes'[k].offset + attributes'[k].size <= TupleSize'
    <3>1. CASE k = Len(attributes) + 1
      BY <1>1, <2>2, <2>3, <2>4, <2>6, <3>1
    <3>2. CASE k # Len(attributes) + 1
      <4>1. k \in 1 .. Len(attributes)
        BY <1>1, <2>4, <2>5, <3>2
      <4>2. attributes[k] \in [size : Nat, offset : Nat]
        BY <4>1, ElementOfSeq DEF AttributeInv
      <4>3. attributes[k].offset + attributes[k].size <= TupleSize
        BY <4>1 DEF AttributeInv
      <4>4. attributes'[k] = attributes[k]
        BY <2>4, <4>1
      <4> QED
        BY <1>1, <2>2, <2>6, <4>2, <4>3, <4>4
    <3> QED
      BY <3>1, <3>2
  <2>8. Len(attributes') = IF finalized' < nrValues' THEN finalized' ELSE nrValues'
    BY <1>1, <1>2, <2>1, <2>4, <2>5 DEF nrValues
  <2> QED
    BY <2>4, <2>7, <2>8 DEF AttributeInv
<1>3. ASSUME UNCHANGED <<attributes, plan>>,
             finalized' = finalized \/ (finalized >= nrValues /\ finalized' = finalized + 1)
      PROVE  AttributeInv'
  BY <1>1, <1>3 DEF AttributeInv, TupleSize, nrValues
<1>4. ASSUME Finalize, ~(finalized < nrValues)
      PROVE  UNCHANGED <<attributes, plan>> /\ finalized >= nrValues /\ finalized' = finalized + 1
  BY <1>1, <1>4 DEF Finalize, barrier!Finalize, input
<1>5. ASSUME Trip
      PROVE  UNCHANGED <<attributes, plan, finalized>>
  BY <1>5 DEF Trip, barrier!Trip, input, shared
<1>6. ASSUME NEW w \in Workers, Worker(w)
      PROVE  UNCHANGED <<attributes, plan, finalized>>
  BY <1>6 DEF Worker, Enter, barrier!Enter, AddInput, Start, Pull, Process, AddAggregate,
              AddFound, Leave, barrierVars, input, shared
<1>7. ASSUME QueryStop
      PROVE  UNCHANGED <<attributes, plan, finalized>>
  BY <1>7 DEF QueryStop, vars, barrierVars, input, shared
<1> QED
  BY <1>2, <1>3, <1>4, <1>5, <1>6, <1>7 DEF QueryNext, Step

\* A worker writes when all attributes are there, into a block with room for what
\* it has found.
LEMMA WriteBlocks ==
  ASSUME QueryInv, NEW w \in Workers, pc[w] = "vector", NEW mem, NEW m \in Nat \ {0},
         Write(w, mem, m), UNCHANGED <<attributes, finalized, plan>>
  PROVE  BlockInv'
<1> USE DEF QueryInv
<1>1. /\ tripped \in Nat /\ finalized \in {tripped, tripped + 1}
      /\ nrValues \in Nat /\ currentBlock[w] \in Nat /\ currentBlock[w] <= Len(blocks)
  BY QueryAssumption DEF BarrierInv, nrValues, BlockInv
<1>2. finalized >= nrValues /\ Len(attributes) = nrValues
  <2>1. tripped = nrValues
    BY DEF PlaceInv
  <2>2. finalized >= nrValues
    BY <1>1, <2>1
  <2> QED
    BY <1>1, <2>2 DEF AttributeInv
<1>3. TupleSize' = TupleSize
  BY DEF TupleSize
<1>4. finalized' >= nrValues'
  BY <1>2 DEF nrValues
<1>5. Sequence(blocks) /\ Len(blocks) \in Nat
  BY DEF BlockInv, Sequence
<1>6. CASE spaceRemaining(currentBlock[w]) < m
  <2> DEFINE b == Filled(createBlock(m), mem, m)
  <2>1. blocks' = Append(blocks, b) /\ currentBlock' = [currentBlock EXCEPT ![w] = Len(blocks')]
    BY <1>6 DEF Write
  <2>2. BlockWhole(b, TupleSize)
    <3>1. /\ BlockWhole(createBlock(m), TupleSize) /\ createBlock(m).size = 0
          /\ m <= createBlock(m).maxNrElements
      BY CreatedWhole
    <3>2. createBlock(m).size + m <= createBlock(m).maxNrElements
      BY <3>1
    <3> QED
      BY <1>2, <3>1, <3>2, FilledWhole
  <2> HIDE DEF b
  <2>3. /\ Sequence(blocks') /\ Len(blocks') = Len(blocks) + 1
        /\ \A i \in 1 .. Len(blocks) : blocks'[i] = blocks[i]
        /\ blocks'[Len(blocks) + 1] = b
    BY <1>5, <2>1, SequenceAppend
  <2>4. ASSUME NEW i \in 1 .. Len(blocks')
        PROVE  BlockWhole(blocks'[i], TupleSize)
    <3>1. i \in 1 .. Len(blocks) \/ i = Len(blocks) + 1
      BY <1>5, <2>3
    <3> QED
      BY <2>2, <2>3, <3>1 DEF BlockInv
  <2>5. \A i \in 1 .. Len(blocks') : BlockWhole(blocks'[i], TupleSize')
    BY <1>3, <2>4
  <2>6. /\ currentBlock' \in [Workers -> Nat]
        /\ \A u \in Workers : currentBlock'[u] <= Len(blocks')
    BY <1>5, <2>1, <2>3 DEF BlockInv
  <2> QED
    BY <1>4, <2>3, <2>5, <2>6 DEF BlockInv
<1>7. CASE ~(spaceRemaining(currentBlock[w]) < m)
  <2> DEFINE c == currentBlock[w]
             b == Filled(blocks[c], mem, m)
  <2>1. blocks' = [blocks EXCEPT ![c] = b] /\ currentBlock' = currentBlock
    BY <1>7 DEF Write
  <2>2. c \in 1 .. Len(blocks) /\ m <= blocks[c].maxNrElements - blocks[c].size
        /\ BlockWhole(blocks[c], TupleSize)
    <3>1. c # 0
      BY <1>7 DEF spaceRemaining
    <3>2. c \in 1 .. Len(blocks)
      BY <1>1, <1>5, <3>1
    <3>3. BlockWhole(blocks[c], TupleSize)
      BY <3>2 DEF BlockInv
    <3>4. blocks[c].maxNrElements \in Nat /\ blocks[c].size \in Nat
      BY <3>3 DEF BlockWhole
    <3>5. ~(blocks[c].maxNrElements - blocks[c].size < m)
      BY <1>7, <3>1 DEF spaceRemaining
    <3> QED
      BY <3>2, <3>3, <3>4, <3>5
  <2>3. BlockWhole(b, TupleSize)
    <3>1. blocks[c].size + m <= blocks[c].maxNrElements
      BY <2>2 DEF BlockWhole
    <3> QED
      BY <1>2, <2>2, <3>1, FilledWhole
  <2> HIDE DEF b, c
  <2>4. Sequence(blocks') /\ Len(blocks') = Len(blocks)
    BY <1>5, <2>1, <2>2, SequenceExcept
  <2>5. ASSUME NEW i \in 1 .. Len(blocks')
        PROVE  BlockWhole(blocks'[i], TupleSize)
    <3>1. i \in 1 .. Len(blocks)
      BY <2>4
    <3>2. blocks = [k \in 1 .. Len(blocks) |-> blocks[k]]
      BY <1>5 DEF Sequence
    <3>3. blocks'[i] = IF i = c THEN b ELSE blocks[i]
      BY <2>1, <3>1, <3>2
    <3> QED
      BY <2>3, <3>1, <3>3 DEF BlockInv
  <2>6. \A i \in 1 .. Len(blocks') : BlockWhole(blocks'[i], TupleSize')
    BY <1>3, <2>5
  <2>7. /\ currentBlock' \in [Workers -> Nat]
        /\ \A u \in Workers : currentBlock'[u] <= Len(blocks')
    BY <2>1, <2>4 DEF BlockInv
  <2> QED
    BY <1>4, <2>4, <2>6, <2>7 DEF BlockInv
<1> QED
  BY <1>6, <1>7

LEMMA StepBlocks ==
  ASSUME QueryInv, QueryNext
  PROVE  BlockInv'
<1> USE DEF QueryInv
<1>1. /\ tripped \in Nat /\ finalized \in {tripped, tripped + 1} /\ nrValues \in Nat
  BY QueryAssumption DEF BarrierInv, nrValues
<1>2. ASSUME UNCHANGED <<blocks, currentBlock, attributes, plan>>,
             finalized' = finalized \/ finalized' = finalized + 1
      PROVE  BlockInv'
  <2>1. TupleSize' = TupleSize /\ nrValues' = nrValues
    BY <1>2 DEF TupleSize, nrValues
  <2>3. /\ Sequence(blocks') /\ Len(blocks') = Len(blocks)
        /\ \A i \in 1 .. Len(blocks') : BlockWhole(blocks'[i], TupleSize)
        /\ currentBlock' \in [Workers -> Nat]
        /\ \A u \in Workers : currentBlock'[u] <= Len(blocks')
    BY <1>2 DEF BlockInv
  <2>4. Len(blocks') # 0 => finalized' >= nrValues'
    BY <1>1, <1>2, <2>1 DEF BlockInv
  <2>5. \A i \in 1 .. Len(blocks') : BlockWhole(blocks'[i], TupleSize')
    BY <2>1, <2>3
  <2> QED
    BY <2>3, <2>4, <2>5 DEF BlockInv
\* While attributes are added there is no block.
<1>3. ASSUME Finalize
      PROVE  BlockInv'
  <2>1. /\ UNCHANGED <<blocks, currentBlock, plan>> /\ finalized' = finalized + 1
        /\ ~(finalized < nrValues) => attributes' = attributes
    BY <1>3 DEF Finalize, barrier!Finalize, input
  <2>2. CASE finalized < nrValues
    <3>1. Len(blocks) = 0
      BY <1>1, <2>2 DEF BlockInv
    <3>2. /\ Sequence(blocks') /\ Len(blocks') = 0 /\ currentBlock' \in [Workers -> Nat]
          /\ \A u \in Workers : currentBlock'[u] <= Len(blocks')
      BY <2>1, <3>1 DEF BlockInv
    <3> QED
      BY <3>2 DEF BlockInv
  <2> QED
    BY <1>2, <2>1, <2>2
<1>4. ASSUME NEW w \in Workers, Process(w)
      PROVE  BlockInv'
  <2>1. UNCHANGED <<attributes, finalized, plan>> /\ pc[w] = "vector"
    BY <1>4 DEF Process, barrierVars, input
  <2>2. CASE UNCHANGED <<blocks, currentBlock>>
    BY <1>2, <2>1, <2>2
  <2>3. CASE ~UNCHANGED <<blocks, currentBlock>>
    <3> DEFINE s == Filtered(w, buffers[w], Cardinality(batch[w]))
    <3>1. \E mem : Write(w, mem, s.n) /\ s.n # 0
      BY <1>4, <2>3 DEF Process
    <3>2. Cardinality(batch[w]) \in Nat
      <4>1. IsFiniteSet(Rows) /\ batch[w] \subseteq Rows
        BY ScanAssumption, FS_Interval DEF Rows, IInv, TypeOK
      <4> QED
        BY <4>1, FS_Subset, FS_CardinalityType
    <3>3. s.n \in Nat
      BY <3>2, FilteredCounts
    <3> HIDE DEF s
    <3> QED
      BY <2>1, <3>1, <3>3, WriteBlocks
  <2> QED
    BY <2>2, <2>3
<1>5. ASSUME Trip
      PROVE  UNCHANGED <<blocks, currentBlock, attributes, plan, finalized>>
  BY <1>5 DEF Trip, barrier!Trip, input, shared
<1>6. ASSUME NEW w \in Workers, Worker(w), ~Process(w)
      PROVE  UNCHANGED <<blocks, currentBlock, attributes, plan, finalized>>
  BY <1>6 DEF Worker, Enter, barrier!Enter, AddInput, Start, Pull, AddAggregate,
              AddFound, Leave, barrierVars, input, shared
<1>7. ASSUME QueryStop
      PROVE  UNCHANGED <<blocks, currentBlock, attributes, plan, finalized>>
  BY <1>7 DEF QueryStop, vars, barrierVars, input, shared
<1> QED
  BY <1>2, <1>3, <1>4, <1>5, <1>6, <1>7 DEF QueryNext, Step

LEMMA QueryNextInv == QueryInv /\ [QueryNext]_vars => QueryInv'
<1> SUFFICES ASSUME QueryInv, [QueryNext]_vars PROVE QueryInv'
  OBVIOUS
<1>1. IInv'
  BY StepScans, NextIInv DEF QueryInv
<1>2. CASE QueryNext
  <2>1. plan' = plan /\ form' = form
    BY <1>2 DEF QueryNext, QueryStop, vars, Step, Finalize, Trip, Worker, Enter, AddInput, Start,
                Pull, Process, AddAggregate, AddFound, Leave, input
  <2> QED
    BY <1>1, <1>2, <2>1, StepBarrier, StepAttributes, StepBlocks DEF QueryInv
<1>3. CASE UNCHANGED vars
  <2>1. UNCHANGED <<plan, form, entered, finalized, tripped, built, pc, attributes, blocks,
                    currentBlock>>
    BY <1>3 DEF vars, input, barrierVars, shared
  <2> QED
    BY <1>1, <2>1 DEF QueryInv, BarrierInv, PlaceInv, AttributeInv, BlockInv, BlockWhole,
                      TupleSize, nrValues
<1> QED
  BY <1>2, <1>3

\* The inductive invariant of a query holds in every reachable state.
THEOREM QueryInductive == QuerySpec => []QueryInv
BY QueryInitInv, QueryNextInv, PTL DEF QuerySpec

\* No block is written that was created before all attributes were there, and none
\* beyond its end (Database.hpp:157), for all plans, tables, workers and sizes.
THEOREM BlocksStayWhole == QuerySpec => []BlocksWhole
<1>1. QueryInv => BlocksWhole
  <2> SUFFICES ASSUME QueryInv PROVE BlocksWhole
    OBVIOUS
  <2>1. DOMAIN blocks = 1 .. Len(blocks)
    BY DEF QueryInv, BlockInv, Sequence
  <2> QED
    BY <2>1 DEF QueryInv, BlockInv, BlockWhole, BlocksWhole
<1> QED
  BY <1>1, QueryInductive, PTL

-----------------------------------------------------------------------------
(* The probe side of the join *)

\* Positions p and tuples of the vector; what is a match.
TupleAt(p) == base + p + 1
Match(e, t) == buildKey[e] = probeKey[t]
Slot(p) == SlotEntries(Hash(p))

RingJoin == join \in {"joinAllParallel", "joinSelParallel", "joinBoncz"}

\* The bounds of the ring, while a call runs and between two calls.
ringFrom == IF stage \in {"round", "followup"} THEN followup ELSE contCon.followup
ringTo == IF stage \in {"round", "followup"} THEN followupWrite ELSE contCon.followupWrite
InRing(j, a, b) == IF a <= b THEN a <= j /\ j < b ELSE a <= j \/ j < b
Live == {j \in DOMAIN ring : InRing(j, ringFrom, ringTo)}
Waiting(a, b) == IF a <= b THEN b - a ELSE followupBufferSize - (a - b)

\* The vector has been begun, by a join function with a ring.
Begun == stage \in {"round", "followup"} \/ ringFrom # ringTo \/ nextProbe >= numProbes

\* Entry e of the chain of position p has been looked at.
Passed(p, e) ==
  IF RingJoin THEN Begun /\ \A j \in Live : ring[j][1] = p => e < ring[j][2]
  ELSE IF stage = "probe" THEN p < probing \/ (p = probing /\ (entry # End => e < entry))
  ELSE IF stage = "resume"
       THEN p < nextProbe \/ (p = nextProbe /\ IF entry # End THEN e < entry ELSE buildMatch # End)
  ELSE p < nextProbe \/ (p = nextProbe /\ buildMatch # End /\ e < buildMatch)

InputTypes ==
  /\ buildKey \in [Entries -> Keys] /\ memory = Scattered(buildKey)
  /\ next = [e \in Entries |-> First({f \in SlotEntries(EntryHash(e)) : f > e})]
  /\ chain = [h \in 0 .. NHashes - 1 |-> find_chain_tagged(h)]
  /\ probeKey \in [Probes -> Keys]
  /\ probeSel \in ProbeSels \cup {Dense}
  /\ join \in {"joinAllParallel", "joinSelParallel", "joinBoncz", "joinAll", "joinSel"}
  /\ join = "joinBoncz" => probeSel = Dense

VectorTypes ==
  /\ stage \in {"next", "join", "round", "followup", "resume", "probe", "return", "eos"}
  /\ base \in Nat /\ nextProbe \in Nat /\ numProbes \in 0 .. batchSize
  /\ base + numProbes <= NProbe
  /\ stage \notin {"next", "probe", "return", "eos"} => nextProbe < numProbes
  /\ stage \in {"join", "round", "followup"} /\ RingJoin => nextProbe = 0
  /\ RingJoin => nextProbe \in {0, numProbes}
  /\ stage \in {"round", "followup"} => RingJoin
  /\ stage \in {"resume", "probe"} => ~RingJoin
  /\ stage = "followup" => join # "joinBoncz"
  /\ stage \in {"next", "join", "eos"} => matches = <<>>
  /\ stage = "eos" => base = NProbe

RingTypes ==
  /\ ring \in [0 .. followupBufferSize - 1 -> Nat \X (Entries \cup {End})]
  /\ contCon \in [followup : 0 .. batchSize, followupWrite : 0 .. batchSize]
  /\ followup \in 0 .. batchSize /\ followupWrite \in 0 .. batchSize
  /\ todo \in Nat /\ more \in BOOLEAN

LiveInv ==
  /\ \A j \in Live : ring[j][1] \in Positions /\ ring[j][2] \in Slot(ring[j][1])
  /\ \A j, k \in Live : ring[j][1] = ring[k][1] => j = k

RingInv ==
  RingJoin =>
    /\ join = "joinBoncz" => followup = 0 /\ contCon.followup = 0
    /\ ringFrom = ringTo /\ stage \notin {"round", "followup"} => ringFrom = 0
    /\ nextProbe >= numProbes => ringFrom = ringTo
    /\ LiveInv
    /\ stage = "followup" => /\ todo <= Waiting(ringFrom, ringTo)
                             /\ more => todo < Waiting(ringFrom, ringTo)

AllTypes ==
  /\ entry \in Entries \cup {End} /\ buildMatch \in Entries \cup {End}
  /\ probing \in Nat /\ probeHash \in Nat
  /\ ~RingJoin =>
    /\ stage # "probe" /\ nextProbe >= numProbes => buildMatch = End
    /\ stage # "probe" /\ nextProbe < numProbes /\ buildMatch # End =>
         probeHash = Hash(nextProbe) /\ buildMatch \in Slot(nextProbe)
    /\ stage = "resume" /\ entry # End => buildMatch # End /\ entry \in Slot(nextProbe)
    /\ stage = "probe" =>
         /\ probing <= numProbes
         /\ probing < numProbes /\ entry # End => entry \in Slot(probing)
         /\ probing >= numProbes => entry = End
    /\ nextProbe <= numProbes

Space ==
  /\ Len(matches) <= batchSize
  /\ stage = "followup" => Len(matches) + todo <= batchSize
  /\ stage = "round" /\ join = "joinBoncz" => Len(matches) + followupWrite <= batchSize
  /\ stage = "resume" => Len(matches) < batchSize
  /\ stage = "probe" => Len(matches) < batchSize \/ (entry = End /\ probing + 1 >= numProbes)

InMatches(p, e) == \E j \in DOMAIN matches : matches[j] = <<e, probeSel[p]>>

MatchesInv ==
  /\ matches \in Seq(Entries \X Nat)
  /\ \A j \in DOMAIN matches : \E p \in Positions, e \in Entries :
       /\ matches[j] = <<e, probeSel[p]>>
       /\ RingJoin => Passed(p, e) /\ pairs[<<e, TupleAt(p)>>] = 0
  /\ RingJoin => \A j, k \in DOMAIN matches : matches[j] = matches[k] => j = k

AllDelivered ==
  \A p \in Positions, e \in Entries :
    Match(e, TupleAt(p)) /\ Passed(p, e) => pairs[<<e, TupleAt(p)>>] > 0 \/ InMatches(p, e)

PairsInv ==
  /\ pairs \in [Entries \X Probes -> 0 .. 2]
  /\ \A e \in Entries, t \in Probes :
       /\ pairs[<<e, t>>] > 0 => Match(e, t)
       /\ RingJoin => pairs[<<e, t>>] <= 1
       /\ t <= base /\ Match(e, t) => pairs[<<e, t>>] > 0
       /\ t > base + numProbes => pairs[<<e, t>>] = 0
  /\ RingJoin => \A p \in Positions, e \in Entries : pairs[<<e, TupleAt(p)>>] > 0 => Passed(p, e)

JoinInv ==
  /\ InputTypes /\ VectorTypes /\ RingTypes /\ RingInv /\ AllTypes
  /\ Space /\ MatchesInv /\ AllDelivered /\ PairsInv


-----------------------------------------------------------------------------
(* Loops over numbers *)

\* The values g of a loop after each turn: f is its body, and V is where they are.
Looped(V, st, m, f, g) ==
  g \in [0 .. m -> V] /\ g = [k \in 0 .. m |-> IF k = 0 THEN st ELSE f[<<g[k - 1], k>>]]

\* A loop whose body stays in a set runs, and its values are in that set.
LEMMA LoopTyped ==
  ASSUME NEW V, NEW st \in V, NEW m \in Nat, NEW f,
         \A v \in V : \A k \in 1 .. m : f[<<v, k>>] \in V
  PROVE  \E g : Looped(V, st, m, f, g)
<1> DEFINE Good(g, x) == /\ g \in [0 .. x -> V]
                         /\ g = [k \in 0 .. x |-> IF k = 0 THEN st ELSE f[<<g[k - 1], k>>]]
           Runs == {x \in Nat : x <= m => \E g : Good(g, x)}
<1>1. 0 \in Runs
  <2> DEFINE g == [k \in 0 .. 0 |-> st]
  <2>1. Good(g, 0)
    OBVIOUS
  <2> QED
    BY <2>1
<1>2. ASSUME NEW x \in Nat, x \in Runs
      PROVE  x + 1 \in Runs
  <2> SUFFICES ASSUME x + 1 <= m PROVE \E g : Good(g, x + 1)
    OBVIOUS
  <2>1. PICK g : Good(g, x)
    BY <1>2
  <2>2. x \in 0 .. x /\ x + 1 \in 1 .. m
    OBVIOUS
  <2>3. f[<<g[x], x + 1>>] \in V
    BY <2>1, <2>2
  <2> DEFINE e == [k \in 0 .. x + 1 |-> IF k <= x THEN g[k] ELSE f[<<g[x], x + 1>>]]
  <2>4. /\ \A k \in 0 .. x : e[k] = g[k]
        /\ e[x + 1] = f[<<g[x], x + 1>>]
        /\ e \in [0 .. x + 1 -> V]
    BY <2>1, <2>3
  <2>5. ASSUME NEW k \in 0 .. x + 1
        PROVE  e[k] = IF k = 0 THEN st ELSE f[<<e[k - 1], k>>]
    <3> HIDE DEF e
    <3>1. CASE k <= x
      <4>1. k \in 0 .. x /\ (k # 0 => k - 1 \in 0 .. x)
        BY <3>1
      <4>2. g[k] = IF k = 0 THEN st ELSE f[<<g[k - 1], k>>]
        BY <2>1, <4>1
      <4> QED
        BY <2>4, <4>1, <4>2
    <3>2. CASE k = x + 1
      <4>1. k # 0 /\ k - 1 = x /\ x \in 0 .. x
        BY <3>2
      <4> QED
        BY <2>4, <3>2, <4>1
    <3> QED
      BY <3>1, <3>2
  <2>6. Good(e, x + 1)
    BY <2>4, <2>5
  <2> HIDE DEF e, Good
  <2> QED
    BY <2>6
<1>3. Nat \subseteq Runs
  <2> HIDE DEF Runs
  <2> QED
    BY <1>1, <1>2, SetInduction
<1>4. \E g : Good(g, m)
  <2> HIDE DEF Good
  <2>1. m \in Runs /\ m <= m
    BY <1>3
  <2> QED
    BY <2>1
<1> QED
  BY <1>4 DEF Looped

\* Chosen lists the numbers of a set in their order, each once.
LEMMA ChosenFacts ==
  ASSUME NEW m \in Nat, NEW S
  PROVE  /\ Chosen(m, S) \in Seq(1 .. m) /\ Len(Chosen(m, S)) \in 0 .. m
         /\ \A j \in 1 .. Len(Chosen(m, S)) : Chosen(m, S)[j] \in 1 .. m /\ Chosen(m, S)[j] \in S
         /\ \A j, k \in 1 .. Len(Chosen(m, S)) : j < k => Chosen(m, S)[j] < Chosen(m, S)[k]
         /\ \A x \in 1 .. m : x \in S => \E j \in 1 .. Len(Chosen(m, S)) : Chosen(m, S)[j] = x
<1> DEFINE V == Seq(1 .. m)
           f == [vk \in V \X (1 .. m) |-> IF vk[2] \in S THEN Append(vk[1], vk[2]) ELSE vk[1]]
           run == CHOOSE g : g = [k \in 0 .. m |->
                    IF k = 0 THEN <<>> ELSE IF k \in S THEN Append(g[k - 1], k) ELSE g[k - 1]]
<1>1. Chosen(m, S) = run[m]
  BY DEF Chosen, ChosenOf, Then
<1>2. <<>> \in V /\ \A v \in V : \A k \in 1 .. m :
        f[<<v, k>>] \in V /\ f[<<v, k>>] = IF k \in S THEN Append(v, k) ELSE v
  <2>1. <<>> \in V /\ \A v \in V : \A k \in 1 .. m : Append(v, k) \in V
    OBVIOUS
  <2> HIDE DEF V
  <2>2. \A v \in V : \A k \in 1 .. m : f[<<v, k>>] = IF k \in S THEN Append(v, k) ELSE v
    OBVIOUS
  <2> HIDE DEF f
  <2> QED
    BY <2>1, <2>2
<1> HIDE DEF f
<1> HIDE DEF V
<1>3. PICK h \in [0 .. m -> V] : h = [k \in 0 .. m |-> IF k = 0 THEN <<>> ELSE f[<<h[k - 1], k>>]]
  <2> DEFINE st == <<>>
  <2>1. st \in V /\ \A v \in V : \A k \in 1 .. m : f[<<v, k>>] \in V
    BY <1>2
  <2> HIDE DEF st
  <2>2. \E h : Looped(V, st, m, f, h)
    BY <2>1, LoopTyped
  <2> QED
    BY <2>2 DEF st, Looped
<1>4. h = [k \in 0 .. m |->
             IF k = 0 THEN <<>> ELSE IF k \in S THEN Append(h[k - 1], k) ELSE h[k - 1]]
  <2>1. ASSUME NEW k \in 0 .. m
        PROVE  h[k] = IF k = 0 THEN <<>> ELSE IF k \in S THEN Append(h[k - 1], k) ELSE h[k - 1]
    <3>1. CASE k = 0
      BY <1>3, <3>1
    <3>2. CASE k # 0
      <4>1. k \in 1 .. m /\ k - 1 \in 0 .. m
        BY <3>2
      <4>2. h[k - 1] \in V
        BY <1>3, <4>1
      <4>3. h[k] = f[<<h[k - 1], k>>]
        BY <1>3, <3>2
      <4> QED
        BY <1>2, <3>2, <4>1, <4>2, <4>3
    <3> QED
      BY <3>1, <3>2
  <2> QED
    BY <1>3, <2>1
<1>5. run = [k \in 0 .. m |->
             IF k = 0 THEN <<>> ELSE IF k \in S THEN Append(run[k - 1], k) ELSE run[k - 1]]
  BY <1>4
<1> HIDE DEF run
<1> DEFINE Lists(s, x) ==
             /\ s \in Seq(1 .. m) /\ Len(s) \in 0 .. x
             /\ \A j \in 1 .. Len(s) : s[j] \in 1 .. x /\ s[j] \in S
             /\ \A j, k \in 1 .. Len(s) : j < k => s[j] < s[k]
             /\ \A y \in 1 .. x : y \in S => \E j \in 1 .. Len(s) : s[j] = y
           L == {x \in Nat : x <= m => Lists(run[x], x)}
<1>6. 0 \in L
  <2>1. run[0] = <<>>
    BY <1>5
  <2>2. Lists(<<>>, 0)
    OBVIOUS
  <2> QED
    BY <2>1, <2>2
<1>7. ASSUME NEW x \in Nat, x \in L
      PROVE  x + 1 \in L
  <2> SUFFICES ASSUME x + 1 <= m PROVE Lists(run[x + 1], x + 1)
    <3> HIDE DEF Lists
    <3> QED
      OBVIOUS
  <2> DEFINE s == run[x]
  <2>1. Lists(s, x)
    BY <1>7
  <2>2. x + 1 \in 0 .. m /\ x + 1 # 0 /\ (x + 1) - 1 = x /\ x + 1 \in 1 .. m
    OBVIOUS
  <2>3. run[x + 1] = IF x + 1 \in S THEN Append(s, x + 1) ELSE s
    BY <1>5, <2>2
  <2> HIDE DEF s
  <2>4. CASE x + 1 \notin S
    <3>1. \A j \in 1 .. Len(s) : s[j] \in 1 .. x + 1 /\ s[j] \in S
      BY <2>1
    <3>2. \A y \in 1 .. x + 1 : y \in S => \E j \in 1 .. Len(s) : s[j] = y
      <4>1. \A y \in 1 .. x + 1 : y \in S => y \in 1 .. x
        BY <2>4
      <4> QED
        BY <2>1, <4>1
    <3>3. Len(s) \in 0 .. x + 1
      BY <2>1
    <3> QED
      BY <2>1, <2>3, <2>4, <3>1, <3>2, <3>3
  <2>5. CASE x + 1 \in S
    <3> DEFINE t == Append(s, x + 1)
    <3>1. /\ t \in Seq(1 .. m) /\ Len(t) = Len(s) + 1
          /\ \A j \in 1 .. Len(s) : t[j] = s[j]
          /\ t[Len(s) + 1] = x + 1
      BY <2>1, <2>2, AppendProperties
    <3> HIDE DEF t
    <3>2. \A j \in 1 .. Len(t) : j \in 1 .. Len(s) \/ j = Len(s) + 1
      BY <2>1, <3>1
    <3>3. \A j \in 1 .. Len(t) : t[j] \in 1 .. x + 1 /\ t[j] \in S
      <4>1. \A j \in 1 .. Len(s) : t[j] \in 1 .. x + 1 /\ t[j] \in S
        <5>1. \A j \in 1 .. Len(s) : s[j] \in 1 .. x /\ s[j] \in S /\ t[j] = s[j]
          BY <2>1, <3>1
        <5> HIDE DEF Lists
        <5> QED
          BY <5>1
      <4>2. x + 1 \in 1 .. x + 1
        OBVIOUS
      <4> QED
        BY <2>5, <3>1, <3>2, <4>1, <4>2
    <3>4. \A j, k \in 1 .. Len(t) : j < k => t[j] < t[k]
      <4> SUFFICES ASSUME NEW j \in 1 .. Len(t), NEW k \in 1 .. Len(t), j < k PROVE t[j] < t[k]
        OBVIOUS
      <4>1. j \in 1 .. Len(s)
        BY <2>1, <3>1
      <4>2. CASE k \in 1 .. Len(s)
        BY <2>1, <3>1, <4>1, <4>2
      <4>3. CASE k = Len(s) + 1
        <5>1. t[k] = x + 1 /\ t[j] = s[j] /\ s[j] \in 1 .. x
          BY <2>1, <3>1, <4>1, <4>3
        <5> QED
          BY <5>1
      <4> QED
        BY <3>2, <4>2, <4>3
    <3>5. \A y \in 1 .. x + 1 : y \in S => \E j \in 1 .. Len(t) : t[j] = y
      <4> SUFFICES ASSUME NEW y \in 1 .. x + 1, y \in S PROVE \E j \in 1 .. Len(t) : t[j] = y
        OBVIOUS
      <4>1. CASE y = x + 1
        <5>1. Len(s) + 1 \in 1 .. Len(t)
          BY <2>1, <3>1
        <5> QED
          BY <3>1, <4>1, <5>1
      <4>2. CASE y # x + 1
        <5>1. PICK j \in 1 .. Len(s) : s[j] = y
          BY <2>1, <4>2
        <5>2. j \in 1 .. Len(t)
          BY <2>1, <3>1
        <5> QED
          BY <3>1, <5>1, <5>2
      <4> QED
        BY <4>1, <4>2
    <3>6. Len(t) \in 0 .. x + 1
      BY <2>1, <3>1
    <3>7. run[x + 1] = t
      BY <2>3, <2>5 DEF t
    <3> QED
      BY <3>1, <3>3, <3>4, <3>5, <3>6, <3>7
  <2> QED
    BY <2>4, <2>5
<1>8. m \in L
  <2> HIDE DEF L, Lists
  <2> QED
    BY <1>6, <1>7, SetInduction
<1>9. Lists(run[m], m)
  <2> HIDE DEF Lists
  <2> QED
    BY <1>8
<1> QED
  BY <1>1, <1>9


\* Ordered lists a set of positions, each once.
LEMMA OrderedFacts ==
  ASSUME numProbes \in Nat, NEW S \in SUBSET Positions
  PROVE  /\ Len(Ordered(S)) \in 0 .. numProbes /\ DOMAIN Ordered(S) = 1 .. Len(Ordered(S))
         /\ \A j \in 1 .. Len(Ordered(S)) : Ordered(S)[j] \in S /\ Ordered(S)[j] \in Nat
         /\ \A j, k \in 1 .. Len(Ordered(S)) : Ordered(S)[j] = Ordered(S)[k] => j = k
         /\ \A p \in S : \E j \in 1 .. Len(Ordered(S)) : Ordered(S)[j] = p
<1> DEFINE T == {p + 1 : p \in S}
           c == Chosen(numProbes, T)
<1>1. /\ c \in Seq(1 .. numProbes) /\ Len(c) \in 0 .. numProbes
      /\ \A j \in 1 .. Len(c) : c[j] \in 1 .. numProbes /\ c[j] \in T
      /\ \A j, k \in 1 .. Len(c) : j < k => c[j] < c[k]
      /\ \A x \in 1 .. numProbes : x \in T => \E j \in 1 .. Len(c) : c[j] = x
  <2> HIDE DEF T
  <2> QED
    BY ChosenFacts
<1>2. Ordered(S) = [j \in 1 .. Len(c) |-> c[j] - 1]
  BY DEF Ordered
<1>3. Len(Ordered(S)) = Len(c)
  <2> DEFINE o == [j \in 1 .. Len(c) |-> c[j] - 1]
  <2>1. o = [j \in 1 .. Len(c) |-> o[j]] /\ Len(c) \in Nat
    BY <1>1
  <2> HIDE DEF o, c
  <2>2. Len(o) = Len(c)
    BY <2>1, SequenceMade
  <2> QED
    BY <1>2, <2>2 DEF o
<1> HIDE DEF c
<1>4. \A j \in 1 .. Len(c) : c[j] \in Nat /\ c[j] - 1 \in S /\ c[j] - 1 \in Nat
  <2> SUFFICES ASSUME NEW j \in 1 .. Len(c) PROVE c[j] \in Nat /\ c[j] - 1 \in S /\ c[j] - 1 \in Nat
    OBVIOUS
  <2>1. PICK p \in S : c[j] = p + 1
    BY <1>1
  <2>2. p \in Nat
    BY DEF Positions
  <2> QED
    BY <2>1, <2>2
<1>5. \A j, k \in 1 .. Len(c) : c[j] = c[k] => j = k
  <2> SUFFICES ASSUME NEW j \in 1 .. Len(c), NEW k \in 1 .. Len(c), j # k PROVE c[j] # c[k]
    OBVIOUS
  <2>1. j < k \/ k < j
    OBVIOUS
  <2>2. c[j] \in Nat /\ c[k] \in Nat
    BY <1>4
  <2> QED
    BY <1>1, <2>1, <2>2
<1>6. \A p \in S : \E j \in 1 .. Len(c) : c[j] - 1 = p
  <2> SUFFICES ASSUME NEW p \in S PROVE \E j \in 1 .. Len(c) : c[j] - 1 = p
    OBVIOUS
  <2>1. p \in Nat /\ p + 1 \in 1 .. numProbes /\ p + 1 \in T
    BY DEF Positions
  <2>2. PICK j \in 1 .. Len(c) : c[j] = p + 1
    BY <1>1, <2>1
  <2> QED
    BY <2>1, <2>2
<1>7. \A j \in 1 .. Len(c) : Ordered(S)[j] = c[j] - 1
  BY <1>2
<1>8. \A j, k \in 1 .. Len(c) : Ordered(S)[j] = Ordered(S)[k] => j = k
  BY <1>4, <1>5, <1>7
<1> QED
  BY <1>1, <1>2, <1>3, <1>4, <1>6, <1>7, <1>8

-----------------------------------------------------------------------------
(* The chains of the table *)

\* The assumptions on the constants, in one place.
LEMMA ProbeConstants ==
  /\ NBuild \in Nat /\ NProbe \in Nat /\ nrColumns \in Nat \ {0}
  /\ NHashes \in Nat \ {0} /\ NSlots \in Nat \ {0} /\ NTags \in Nat \ {0}
  /\ batchSize \in Nat \ {0} /\ followupBufferSize = batchSize + 1
  /\ Keys \subseteq Nat /\ Entries \subseteq Nat \ {0} /\ End \notin Entries /\ End = 0
BY ProbeSideAssumption, JoinProbeAssumption DEF Entries, End

\* The first entry of a set of them.
LEMMA FirstFacts ==
  ASSUME NEW S \in SUBSET Entries
  PROVE  /\ S = {} => First(S) = End
         /\ S # {} => First(S) \in S /\ \A f \in S : First(S) <= f
<1>1. Entries \subseteq Nat
  BY ProbeConstants
<1>2. S # {} => \E e \in S : \A f \in S : e <= f
  BY <1>1, LeastElement
<1> QED
  BY <1>2 DEF First

\* The hash of a key, and of a tuple of the vector.
LEMMA HashTypes ==
  ASSUME InputTypes
  PROVE  /\ \A e \in Entries : EntryHash(e) \in 0 .. NHashes - 1
         /\ \A p \in Nat : base \in Nat /\ base + p + 1 <= NProbe => Hash(p) \in 0 .. NHashes - 1
<1>1. \A k \in Keys : HashOf(k) \in 0 .. NHashes - 1
  BY ProbeConstants DEF HashOf
<1>2. \A e \in Entries : buildKey[e] \in Keys
  BY DEF InputTypes
<1>3. \A p \in Nat : base \in Nat /\ base + p + 1 <= NProbe => probeKey[base + p + 1] \in Keys
  <2> SUFFICES ASSUME NEW p \in Nat, base \in Nat, base + p + 1 <= NProbe
               PROVE  probeKey[base + p + 1] \in Keys
    OBVIOUS
  <2>1. base + p + 1 \in Probes
    BY ProbeConstants DEF Probes
  <2> QED
    BY <2>1 DEF InputTypes
<1> QED
  BY <1>1, <1>2, <1>3 DEF EntryHash, Hash

\* next leads to the next entry of the slot, if there is one.
LEMMA NextFacts ==
  ASSUME InputTypes, NEW e \in Entries
  PROVE  /\ next[e] \in Entries \cup {End}
         /\ next[e] = End => \A f \in SlotEntries(EntryHash(e)) : f <= e
         /\ next[e] # End => /\ next[e] \in SlotEntries(EntryHash(e)) /\ next[e] > e
                             /\ \A f \in SlotEntries(EntryHash(e)) : f > e => f >= next[e]
<1> DEFINE S == {f \in SlotEntries(EntryHash(e)) : f > e}
<1>1. next[e] = First(S)
  BY DEF InputTypes
<1>2. SlotEntries(EntryHash(e)) \subseteq Entries /\ S \in SUBSET Entries
  BY DEF SlotEntries
<1>3. End \notin Entries /\ Entries \subseteq Nat
  BY ProbeConstants
<1>4. CASE S = {}
  <2>1. next[e] = End
    BY <1>1, <1>2, <1>4, FirstFacts
  <2>2. ASSUME NEW f \in SlotEntries(EntryHash(e)) PROVE f <= e
    <3>1. ~(f > e)
      BY <1>4
    <3>2. f \in Nat /\ e \in Nat
      BY <1>2, <1>3
    <3> QED
      BY <3>1, <3>2
  <2> QED
    BY <2>1, <2>2
<1>5. CASE S # {}
  <2>1. next[e] \in S /\ \A f \in S : next[e] <= f
    BY <1>1, <1>2, <1>5, FirstFacts
  <2>2. \A f \in SlotEntries(EntryHash(e)) : f > e => f >= next[e]
    BY <1>2, <1>3, <2>1
  <2> QED
    BY <1>2, <1>3, <2>1, <2>2
<1> QED
  BY <1>4, <1>5

\* Entries that follow each other in a chain are of one slot.
LEMMA SlotSame ==
  ASSUME NEW h, NEW e \in SlotEntries(h)
  PROVE  SlotEntries(EntryHash(e)) = SlotEntries(h) /\ e \in Entries
BY DEF SlotEntries

\* The chain to search is that of the slot; if it is not searched, the slot has no
\* entry with the hash.
LEMMA ChainFacts ==
  ASSUME InputTypes, NEW p \in Nat, base \in Nat, base + p + 1 <= NProbe
  PROVE  /\ ChainOf(p) \in Entries \cup {End}
         /\ ChainOf(p) = End => \A e \in Entries : EntryHash(e) # Hash(p)
         /\ ChainOf(p) # End => ChainOf(p) \in Slot(p) /\ \A e \in Slot(p) : ChainOf(p) <= e
         /\ \A e \in Entries : EntryHash(e) = Hash(p) => e \in Slot(p)
<1>1. Hash(p) \in 0 .. NHashes - 1
  BY HashTypes
<1>2. ChainOf(p) = find_chain_tagged(Hash(p))
  BY <1>1 DEF ChainOf, InputTypes
<1>3. Slot(p) \in SUBSET Entries
  BY DEF Slot, SlotEntries
<1>4. \A e \in Entries : EntryHash(e) = Hash(p) => e \in Slot(p) /\ TagOf(EntryHash(e)) = TagOf(Hash(p))
  BY DEF Slot, SlotEntries
<1>5. CASE \E e \in Slot(p) : TagOf(EntryHash(e)) = TagOf(Hash(p))
  <2>1. ChainOf(p) = First(Slot(p)) /\ Slot(p) # {}
    BY <1>2, <1>5 DEF find_chain_tagged, Slot
  <2>2. ChainOf(p) \in Slot(p) /\ \A e \in Slot(p) : ChainOf(p) <= e
    BY <1>3, <2>1, FirstFacts
  <2> QED
    BY <1>3, <1>4, <2>2, ProbeConstants
<1>6. CASE ~ \E e \in Slot(p) : TagOf(EntryHash(e)) = TagOf(Hash(p))
  <2>1. ChainOf(p) = End
    BY <1>2, <1>6 DEF find_chain_tagged, Slot
  <2> QED
    BY <1>4, <1>6, <2>1
<1> QED
  BY <1>5, <1>6


-----------------------------------------------------------------------------
(* The entries in memory *)

\* The front of what is put together.
LEMMA ConcatFront ==
  ASSUME NEW U, NEW x \in Seq(U), NEW y \in Seq(U)
  PROVE  /\ x \o y \in Seq(U) /\ Len(x \o y) = Len(x) + Len(y)
         /\ \A z \in 1 .. Len(x) : (x \o y)[z] = x[z]
<1>1. Len(x) \in Nat /\ Len(y) \in Nat
  BY LenProperties
<1> QED
  BY <1>1, ConcatProperties

\* A list of m places with members of U in them, or with anything in them.
Fills(s, m, U) == s \in [1 .. m -> U]
Listed(s, m) == s = [x \in 1 .. m |-> s[x]]
Begins(t, s, m) == \A x \in 1 .. m : t[x] = s[x]

\* What is written to the front of a buffer.
LEMMA StoreTyped ==
  ASSUME NEW U, NEW m \in Nat, NEW b, Fills(b, m, U), NEW x \in 0 .. m, NEW s, Fills(s, x, U)
  PROVE  Fills(Store(b, 0, s), m, U) /\ Begins(Store(b, 0, s), s, x)
<1>1. x \in Nat /\ x <= m
  OBVIOUS
<1>2. b \in Seq(U) /\ s \in Seq(U)
  BY <1>1, SeqDef DEF Fills
<1>3. Len(b) = m /\ Len(s) = x
  <2>1. DOMAIN b = 1 .. m /\ DOMAIN s = 1 .. x
    BY DEF Fills
  <2>2. Len(b) \in Nat /\ DOMAIN b = 1 .. Len(b) /\ Len(s) \in Nat /\ DOMAIN s = 1 .. Len(s)
    BY <1>2, LenProperties
  <2> QED
    BY <1>1, <2>1, <2>2
<1> DEFINE front == SubSeq(b, 1, 0)
           rest == SubSeq(b, x + 1, m)
           g == front \o s
<1>4. front \in Seq(U) /\ Len(front) = 0
  BY <1>1, <1>2, <1>3, SubSeqProperties
<1>5. rest \in Seq(U) /\ Len(rest) = m - x
  BY <1>1, <1>2, <1>3, SubSeqProperties
<1>6. Store(b, 0, s) = g \o rest
  <2>1. 0 + x + 1 = x + 1
    BY <1>1
  <2> QED
    BY <1>3, <2>1 DEF Store
<1> HIDE DEF front, rest
<1>7. g \in Seq(U) /\ Len(g) = x /\ \A z \in 1 .. x : g[z] = s[z]
  <2>1. /\ g \in Seq(U) /\ Len(g) = Len(front) + Len(s)
        /\ \A z \in 1 .. Len(front) + Len(s) :
             g[z] = IF z <= Len(front) THEN front[z] ELSE s[z - Len(front)]
    BY <1>2, <1>4, ConcatProperties
  <2> HIDE DEF g
  <2> QED
    BY <1>1, <1>3, <1>4, <2>1
<1> HIDE DEF g
<1>8. /\ g \o rest \in Seq(U) /\ Len(g \o rest) = m
      /\ \A z \in 1 .. x : (g \o rest)[z] = g[z]
  <2>1. /\ g \o rest \in Seq(U) /\ Len(g \o rest) = Len(g) + Len(rest)
        /\ \A z \in 1 .. Len(g) : (g \o rest)[z] = g[z]
    BY <1>5, <1>7, ConcatFront
  <2> QED
    BY <1>1, <1>5, <1>7, <2>1
<1>9. g \o rest \in [1 .. m -> U]
  BY <1>8, LenProperties
<1> QED
  BY <1>6, <1>7, <1>8, <1>9 DEF Fills, Begins

LEMMA StoreFront ==
  ASSUME NEW b, Sequence(b), NEW s, Sequence(s), Len(s) <= Len(b)
  PROVE  /\ Sequence(Store(b, 0, s)) /\ Len(Store(b, 0, s)) = Len(b)
         /\ \A x \in 1 .. Len(s) : Store(b, 0, s)[x] = s[x]
<1> DEFINE U == {b[x] : x \in 1 .. Len(b)} \cup {s[x] : x \in 1 .. Len(s)}
           m == Len(b)
           y == Len(s)
<1>1. m \in Nat /\ y \in 0 .. m
  BY DEF Sequence
<1>2. Fills(b, m, U) /\ Fills(s, y, U)
  BY DEF Sequence, Fills
<1> HIDE DEF U, m, y
<1>3. Fills(Store(b, 0, s), m, U) /\ Begins(Store(b, 0, s), s, y)
  BY <1>1, <1>2, StoreTyped
<1> DEFINE t == Store(b, 0, s)
<1>4. t = [z \in 1 .. m |-> t[z]]
  BY <1>3 DEF Fills
<1> HIDE DEF t
<1>5. Sequence(t) /\ Len(t) = m
  <2> HIDE DEF m
  <2> QED
    BY <1>1, <1>4, SequenceMade
<1> QED
  BY <1>3, <1>5 DEF t, m, y, Begins

\* A field of all entries is set.
RowsWith(mem, offset, values) == [e \in Entries |-> [mem[e] EXCEPT ![offset] = values[e]]]

LEMMA ScatterAll ==
  ASSUME NEW mem, Sequence(mem), Len(mem) = NBuild, NEW offset, NEW values,
         Listed(values, NBuild)
  PROVE  scatter(NBuild, values, mem, 1, offset) = RowsWith(mem, offset, values)
<1> DEFINE v == [x \in 1 .. NBuild |-> values[x]]
           s == [x \in DOMAIN v |-> [mem[1 + x - 1] EXCEPT ![offset] = v[x]]]
           t == [e \in Entries |-> [mem[e] EXCEPT ![offset] = values[e]]]
<1>1. scatter(NBuild, values, mem, 1, offset) = Store(mem, 0, s)
  BY DEF scatter, Scatter
<1>2. s = t
  <2>1. DOMAIN v = 1 .. NBuild /\ \A x \in 1 .. NBuild : 1 + x - 1 = x /\ v[x] = values[x]
    BY ProbeConstants
  <2> HIDE DEF v
  <2> QED
    BY <2>1 DEF Entries
<1>3. Sequence(t) /\ Len(t) = NBuild
  <2>1. t = [x \in 1 .. NBuild |-> t[x]] /\ NBuild \in Nat
    BY ProbeConstants DEF Entries
  <2> HIDE DEF t
  <2> QED
    BY <2>1, SequenceMade
<1> HIDE DEF s, t
<1>4. Sequence(Store(mem, 0, t)) /\ Len(Store(mem, 0, t)) = NBuild
      /\ \A x \in 1 .. NBuild : Store(mem, 0, t)[x] = t[x]
  BY <1>3, StoreFront, ProbeConstants
<1>5. Store(mem, 0, t) = t
  BY <1>3, <1>4 DEF Sequence
<1> QED
  BY <1>1, <1>2, <1>5 DEF t, RowsWith

\* The same with types: W is what the fields F of an entry may hold.
RowsTyped(mem, F, W) == mem \in [Entries -> [F -> W]]
FieldValues(values, W) == \A x \in Entries : values[x] \in W

LEMMA ScatterTyped ==
  ASSUME NEW W, NEW F, NEW mem, RowsTyped(mem, F, W), NEW offset \in F, NEW values,
         Listed(values, NBuild), FieldValues(values, W)
  PROVE  /\ scatter(NBuild, values, mem, 1, offset) = RowsWith(mem, offset, values)
         /\ RowsTyped(scatter(NBuild, values, mem, 1, offset), F, W)
<1>1. Entries = 1 .. NBuild /\ NBuild \in Nat
  BY ProbeConstants DEF Entries
<1>2. mem \in [Entries -> [F -> W]]
  BY DEF RowsTyped
<1>2b. mem = [x \in 1 .. NBuild |-> mem[x]]
  BY <1>1, <1>2
<1>3. Sequence(mem) /\ Len(mem) = NBuild
  BY <1>1, <1>2b, SequenceMade
<1>4. scatter(NBuild, values, mem, 1, offset) = RowsWith(mem, offset, values)
  BY <1>3, ScatterAll
<1>5. \A e \in Entries : [mem[e] EXCEPT ![offset] = values[e]] \in [F -> W]
  <2> SUFFICES ASSUME NEW e \in Entries PROVE [mem[e] EXCEPT ![offset] = values[e]] \in [F -> W]
    OBVIOUS
  <2> DEFINE row == mem[e]
             val == values[e]
  <2>1. row \in [F -> W] /\ val \in W
    BY <1>2 DEF FieldValues
  <2> HIDE DEF row, val
  <2>2. [row EXCEPT ![offset] = val] \in [F -> W]
    BY <2>1
  <2> QED
    BY <2>2 DEF row, val
<1>6. RowsTyped(RowsWith(mem, offset, values), F, W)
  BY <1>5 DEF RowsTyped, RowsWith
<1> QED
  BY <1>4, <1>6

\* What is where in an entry: the columns of its key, and its number as its value.
LEMMA MemoryFacts ==
  ASSUME InputTypes, NEW e \in Entries
  PROVE  /\ \A c \in 1 .. nrColumns : memory[e][ProbeOffset(c)] = Columns(buildKey[e])[c]
         /\ memory[e][ValueField] = e
<1> DEFINE W == Nat \cup {Columns(k)[c] : k \in Keys, c \in 1 .. nrColumns}
           V == [Entries -> [1 .. ValueField -> W]]
           blank == [x \in Entries |-> [field \in 1 .. ValueField |-> 0]]
           hashes == scatter(NBuild, [x \in Entries |-> HashOf(buildKey[x])], blank, 1, HashField)
           column(c) == [x \in Entries |-> Columns(buildKey[x])[c]]
           Key(mem, c) == scatter(NBuild, column(c), mem, 1, keyOffsets[c])
           run == CHOOSE g : g = [k \in 0 .. nrColumns |->
                    IF k = 0 THEN hashes ELSE Then(g[k - 1], LAMBDA v : Key(v, k))]
<1>1. memory = scatter(NBuild, Identity(NBuild), run[nrColumns], 1, ValueField)
  BY DEF InputTypes, Scattered, Iterate
<1>2. Entries = 1 .. NBuild /\ NBuild \in Nat /\ nrColumns \in Nat \ {0}
  BY ProbeConstants DEF Entries
<1>3. /\ ValueField = nrColumns + 2 /\ HashField = 1
      /\ \A c \in 1 .. nrColumns : keyOffsets[c] = c + 1 /\ ProbeOffset(c) = c + 1
  BY <1>2 DEF ValueField, HashField, keyOffsets, ProbeOffset
<1>4. HashField \in 1 .. ValueField /\ ValueField \in 1 .. ValueField
      /\ \A c \in 1 .. nrColumns : c + 1 \in 1 .. ValueField
  BY <1>2, <1>3
<1>5. hashes \in V
  <2> DEFINE values == [x \in Entries |-> HashOf(buildKey[x])]
  <2>1. RowsTyped(blank, 1 .. ValueField, W)
    BY DEF RowsTyped
  <2>2. FieldValues(values, W)
    <3>1. \A x \in Entries : HashOf(buildKey[x]) \in Nat
      BY HashTypes, ProbeConstants DEF EntryHash
    <3> QED
      BY <3>1 DEF FieldValues
  <2>3. Listed(values, NBuild)
    BY <1>2 DEF Listed
  <2> HIDE DEF blank, values, W
  <2>4. RowsTyped(scatter(NBuild, values, blank, 1, HashField), 1 .. ValueField, W)
    BY <1>4, <2>1, <2>2, <2>3, ScatterTyped
  <2> QED
    BY <2>4 DEF values, RowsTyped
<1>6. ASSUME NEW v \in V, NEW c \in 1 .. nrColumns
      PROVE  /\ Key(v, c) = [x \in Entries |-> [v[x] EXCEPT ![c + 1] = Columns(buildKey[x])[c]]]
             /\ Key(v, c) \in V
  <2> DEFINE values == column(c)
  <2>1. Listed(values, NBuild)
    BY <1>2 DEF Listed
  <2>2. FieldValues(values, W) /\ \A x \in Entries : values[x] = Columns(buildKey[x])[c]
    BY DEF InputTypes, FieldValues
  <2>3. Key(v, c) = scatter(NBuild, values, v, 1, c + 1)
    BY <1>3
  <2> HIDE DEF Key, values, W
  <2>4. RowsTyped(v, 1 .. ValueField, W) /\ c + 1 \in 1 .. ValueField
    <3>1. v \in [Entries -> [1 .. ValueField -> W]]
      OBVIOUS
    <3>2. c + 1 \in 1 .. ValueField
      BY <1>4
    <3> QED
      BY <3>1, <3>2 DEF RowsTyped
  <2>5. /\ scatter(NBuild, values, v, 1, c + 1) = RowsWith(v, c + 1, values)
        /\ RowsTyped(scatter(NBuild, values, v, 1, c + 1), 1 .. ValueField, W)
    BY <2>1, <2>2, <2>4, ScatterTyped
  <2>6. RowsWith(v, c + 1, values) = [x \in Entries |-> [v[x] EXCEPT ![c + 1] = Columns(buildKey[x])[c]]]
    BY <2>2 DEF RowsWith
  <2> QED
    BY <2>3, <2>5, <2>6 DEF RowsTyped
<1> HIDE DEF hashes, Key, V, W
<1>7. run = [k \in 0 .. nrColumns |-> IF k = 0 THEN hashes ELSE Key(run[k - 1], k)]
  <2> DEFINE f == [vc \in V \X (1 .. nrColumns) |-> Key(vc[1], vc[2])]
  <2>1. \A v \in V : \A c \in 1 .. nrColumns : f[<<v, c>>] = Key(v, c)
    OBVIOUS
  <2> HIDE DEF f
  <2>2. \A v \in V : \A c \in 1 .. nrColumns : f[<<v, c>>] \in V
    BY <1>6, <2>1
  <2>3. PICK h : Looped(V, hashes, nrColumns, f, h)
    BY <1>2, <1>5, <2>2, LoopTyped
  <2>4. h = [k \in 0 .. nrColumns |-> IF k = 0 THEN hashes ELSE Key(h[k - 1], k)]
    <3>1. ASSUME NEW k \in 0 .. nrColumns PROVE h[k] = IF k = 0 THEN hashes ELSE Key(h[k - 1], k)
      <4>1. CASE k = 0
        BY <2>3, <4>1 DEF Looped
      <4>2. CASE k # 0
        <5>1. k \in 1 .. nrColumns /\ k - 1 \in 0 .. nrColumns
          BY <1>2, <4>2
        <5>2. h[k - 1] \in V
          BY <2>3, <5>1 DEF Looped
        <5>3. h[k] = f[<<h[k - 1], k>>]
          BY <2>3, <4>2 DEF Looped
        <5> QED
          BY <2>1, <4>2, <5>1, <5>2, <5>3
      <4> QED
        BY <4>1, <4>2
    <3>2. h \in [0 .. nrColumns -> V]
      BY <2>3 DEF Looped
    <3> QED
      BY <3>1, <3>2
  <2>5. \A g : g = [k \in 0 .. nrColumns |-> IF k = 0 THEN hashes ELSE Then(g[k - 1], LAMBDA v : Key(v, k))]
               <=> g = [k \in 0 .. nrColumns |-> IF k = 0 THEN hashes ELSE Key(g[k - 1], k)]
    <3>1. \A v, k : Then(v, LAMBDA x : Key(x, k)) = Key(v, k)
      BY DEF Then
    <3> QED
      BY <3>1
  <2> QED
    BY <2>4, <2>5
<1> HIDE DEF run
<1> DEFINE L == {k \in Nat : k <= nrColumns =>
                   run[k] \in V /\ \A c \in 1 .. k : run[k][e][c + 1] = Columns(buildKey[e])[c]}
<1>8. 0 \in L
  BY <1>2, <1>5, <1>7
<1>9. ASSUME NEW k \in Nat, k \in L
      PROVE  k + 1 \in L
  <2> SUFFICES ASSUME k + 1 <= nrColumns
               PROVE  /\ run[k + 1] \in V
                      /\ \A c \in 1 .. k + 1 : run[k + 1][e][c + 1] = Columns(buildKey[e])[c]
    OBVIOUS
  <2>1. k + 1 \in 1 .. nrColumns /\ k + 1 \in 0 .. nrColumns /\ (k + 1) - 1 = k /\ k + 1 # 0
    OBVIOUS
  <2>2. run[k] \in V /\ \A c \in 1 .. k : run[k][e][c + 1] = Columns(buildKey[e])[c]
    BY <1>2, <1>9
  <2>3. run[k + 1] = Key(run[k], k + 1)
    BY <1>7, <2>1
  <2>4. run[k + 1] \in V
    BY <1>6, <2>1, <2>2, <2>3
  <2>5. run[k + 1][e] = [run[k][e] EXCEPT ![(k + 1) + 1] = Columns(buildKey[e])[k + 1]]
    <3>1. PICK v, c : v = run[k] /\ c = k + 1
      OBVIOUS
    <3>2. v \in V /\ c \in 1 .. nrColumns
      BY <2>1, <2>2, <3>1
    <3>3. Key(v, c) = [x \in Entries |-> [v[x] EXCEPT ![c + 1] = Columns(buildKey[x])[c]]]
      BY <1>6, <3>2
    <3>4. Key(v, c)[e] = [v[e] EXCEPT ![c + 1] = Columns(buildKey[e])[c]]
      BY <3>3
    <3> QED
      BY <2>3, <3>1, <3>4
  <2>6. run[k][e] \in [1 .. ValueField -> W]
    BY <2>2 DEF V
  <2>7. ASSUME NEW c \in 1 .. k + 1 PROVE run[k + 1][e][c + 1] = Columns(buildKey[e])[c]
    <3>1. c + 1 \in 1 .. ValueField
      BY <1>2, <1>3
    <3>2. CASE c = k + 1
      BY <2>5, <2>6, <3>1, <3>2
    <3>3. CASE c # k + 1
      <4>1. c \in 1 .. k /\ c + 1 # (k + 1) + 1
        BY <3>3
      <4> QED
        BY <2>2, <2>5, <2>6, <3>1, <4>1
    <3> QED
      BY <3>2, <3>3
  <2> QED
    BY <2>4, <2>7
<1>10. nrColumns \in L
  <2> HIDE DEF L
  <2> QED
    BY <1>2, <1>8, <1>9, SetInduction
<1>11. run[nrColumns] \in V /\ \A c \in 1 .. nrColumns : run[nrColumns][e][c + 1] = Columns(buildKey[e])[c]
  BY <1>2, <1>10
<1>12. memory = [x \in Entries |-> [run[nrColumns][x] EXCEPT ![ValueField] = x]]
  <2> DEFINE values == Identity(NBuild)
             last == run[nrColumns]
  <2>1. Listed(values, NBuild) /\ \A x \in Entries : values[x] = x
    BY <1>2 DEF Identity, Listed
  <2>2. memory = scatter(NBuild, values, last, 1, ValueField)
    BY <1>1
  <2>3. RowsTyped(last, 1 .. ValueField, W)
    BY <1>11 DEF V, RowsTyped
  <2> HIDE DEF values, last
  <2>4. FieldValues(values, W)
    BY <1>2, <2>1 DEF W, FieldValues
  <2>5. /\ scatter(NBuild, values, last, 1, ValueField) = RowsWith(last, ValueField, values)
        /\ RowsTyped(scatter(NBuild, values, last, 1, ValueField), 1 .. ValueField, W)
    BY <1>4, <2>1, <2>3, <2>4, ScatterTyped
  <2> QED
    BY <2>1, <2>2, <2>5 DEF last, RowsWith
<1>13. memory[e] = [run[nrColumns][e] EXCEPT ![ValueField] = e]
  BY <1>12
<1>14. run[nrColumns][e] \in [1 .. ValueField -> W] /\ ValueField \in 1 .. ValueField
  BY <1>2, <1>3, <1>11 DEF V
<1>15. memory[e][ValueField] = e
  BY <1>13, <1>14
<1>16. ASSUME NEW c \in 1 .. nrColumns PROVE memory[e][c + 1] = Columns(buildKey[e])[c]
  <2>1. c + 1 # ValueField /\ c + 1 \in 1 .. ValueField
    BY <1>2, <1>3
  <2>2. memory[e][c + 1] = run[nrColumns][e][c + 1]
    BY <1>13, <1>14, <2>1
  <2> QED
    BY <1>11, <2>2
<1> QED
  BY <1>3, <1>15, <1>16


-----------------------------------------------------------------------------
(* The comparison of the keys *)

\* MatchBuffers of m places of which n pairs count; what they hold, and whether once.
MatchBuffers(m) == [n : 0 .. m, buildEntry : [1 .. m -> Entries], probeIdx : [1 .. m -> Nat]]
PairAt(r, j) == <<r.buildEntry[j], r.probeIdx[j]>>
Holds(r, e, row) == \E j \in 1 .. r.n : PairAt(r, j) = <<e, row>>
Once(r) == \A j, k \in 1 .. r.n : PairAt(r, j) = PairAt(r, k) => j = k

\* r holds what st holds and what is the same in a field and a column.
Compared(r, st, mem, offset, column) ==
  \A e, row : Holds(r, e, row) <=> Holds(st, e, row) /\ mem[e][offset] = column[row]

KeysEqual(st, mem, offset, column) ==
  keys_equal(st.n, st.buildEntry, mem, offset, st.probeIdx, column)

LEMMA SamePair ==
  ASSUME NEW x \in Entries \X Nat, NEW y \in Entries \X Nat, x[1] = y[1], x[2] + 1 = y[2] + 1
  PROVE  x = y
<1>1. PICK a \in Entries, b \in Nat : x = <<a, b>>
  OBVIOUS
<1>2. PICK c \in Entries, d \in Nat : y = <<c, d>>
  OBVIOUS
<1>3. a = c /\ b + 1 = d + 1
  BY <1>1, <1>2
<1>4. b = d
  BY <1>3
<1> QED
  BY <1>1, <1>2, <1>3, <1>4

\* The comparison of one column keeps the pairs that agree in it.
LEMMA KeysEqualFacts ==
  ASSUME NEW m \in Nat, NEW st \in MatchBuffers(m), NEW mem, NEW offset, NEW column,
         NEW r, r = KeysEqual(st, mem, offset, column)
  PROVE  /\ r \in MatchBuffers(m)
         /\ Compared(r, st, mem, offset, column)
         /\ Once(st) => Once(r)
<1> DEFINE size == st.n
           be == st.buildEntry
           pi == st.probeIdx
           T == {z \in 1 .. size : mem[be[z]][offset] = column[pi[z]]}
           equal == Chosen(size, T)
           x == Len(equal)
           ce == [j \in DOMAIN equal |-> be[equal[j]]]
           ci == [j \in DOMAIN equal |-> pi[equal[j]]]
<1>1. size \in 0 .. m /\ be \in [1 .. m -> Entries] /\ pi \in [1 .. m -> Nat]
  BY DEF MatchBuffers
<1>2. r = [n |-> x, buildEntry |-> Store(be, 0, ce), probeIdx |-> Store(pi, 0, ci)]
  BY DEF keys_equal, KeysEqual
<1> HIDE DEF be, pi, size
<1>3. size \in Nat /\ \A z \in 1 .. size : z \in 1 .. m
  BY <1>1
<1>4. /\ equal \in Seq(1 .. size) /\ x \in 0 .. size
      /\ \A j \in 1 .. x : equal[j] \in 1 .. size /\ equal[j] \in T
      /\ \A j, k \in 1 .. x : j < k => equal[j] < equal[k]
      /\ \A y \in 1 .. size : y \in T => \E j \in 1 .. x : equal[j] = y
  <2> HIDE DEF T
  <2> QED
    BY <1>3, ChosenFacts
<1>5. DOMAIN equal = 1 .. x
  BY <1>4, LenProperties
<1> HIDE DEF equal
<1>6. Fills(ce, x, Entries) /\ Fills(ci, x, Nat) /\ x \in 0 .. m
  BY <1>1, <1>3, <1>4, <1>5 DEF Fills
<1> HIDE DEF x
<1>7. /\ Store(be, 0, ce) \in [1 .. m -> Entries] /\ Store(pi, 0, ci) \in [1 .. m -> Nat]
      /\ \A z \in 1 .. x : Store(be, 0, ce)[z] = ce[z] /\ Store(pi, 0, ci)[z] = ci[z]
  <2> HIDE DEF ce, ci
  <2>1. Fills(be, m, Entries) /\ Fills(pi, m, Nat)
    BY <1>1 DEF Fills
  <2>2. Fills(Store(be, 0, ce), m, Entries) /\ Begins(Store(be, 0, ce), ce, x)
    BY <1>6, <2>1, StoreTyped
  <2>3. Fills(Store(pi, 0, ci), m, Nat) /\ Begins(Store(pi, 0, ci), ci, x)
    BY <1>6, <2>1, StoreTyped
  <2> QED
    BY <2>2, <2>3 DEF Fills, Begins
<1>8. r \in MatchBuffers(m) /\ r.n = x
  BY <1>2, <1>6, <1>7 DEF MatchBuffers
<1>9. \A j \in 1 .. x : PairAt(r, j) = PairAt(st, equal[j])
  <2> SUFFICES ASSUME NEW j \in 1 .. x PROVE PairAt(r, j) = PairAt(st, equal[j])
    OBVIOUS
  <2>1. r.buildEntry[j] = ce[j] /\ r.probeIdx[j] = ci[j]
    <3> HIDE DEF ce, ci
    <3>1. r.buildEntry = Store(be, 0, ce) /\ r.probeIdx = Store(pi, 0, ci)
      BY <1>2
    <3> QED
      BY <1>7, <3>1
  <2>2. ce[j] = be[equal[j]] /\ ci[j] = pi[equal[j]]
    BY <1>5
  <2> QED
    BY <2>1, <2>2 DEF PairAt, be, pi
<1>10. ASSUME NEW e, NEW row
       PROVE  Holds(r, e, row) <=> Holds(st, e, row) /\ mem[e][offset] = column[row]
  <2>1. ASSUME Holds(r, e, row) PROVE Holds(st, e, row) /\ mem[e][offset] = column[row]
    <3>1. PICK j \in 1 .. x : PairAt(r, j) = <<e, row>>
      BY <1>8, <2>1 DEF Holds
    <3>2. equal[j] \in 1 .. size /\ equal[j] \in T /\ PairAt(st, equal[j]) = <<e, row>>
      BY <1>4, <1>9, <3>1
    <3>3. be[equal[j]] = e /\ pi[equal[j]] = row
      BY <3>2 DEF PairAt, be, pi
    <3> QED
      BY <3>2, <3>3 DEF Holds, size
  <2>2. ASSUME Holds(st, e, row), mem[e][offset] = column[row] PROVE Holds(r, e, row)
    <3>1. PICK y \in 1 .. size : PairAt(st, y) = <<e, row>>
      BY <2>2 DEF Holds, size
    <3>2. be[y] = e /\ pi[y] = row
      BY <3>1 DEF PairAt, be, pi
    <3>3. y \in T
      BY <2>2, <3>2
    <3>4. PICK j \in 1 .. x : equal[j] = y
      BY <1>4, <3>3
    <3> QED
      BY <1>8, <1>9, <3>1, <3>4 DEF Holds
  <2> QED
    BY <2>1, <2>2
<1>11. ASSUME Once(st) PROVE Once(r)
  <2> SUFFICES ASSUME NEW j \in 1 .. x, NEW k \in 1 .. x, PairAt(r, j) = PairAt(r, k) PROVE j = k
    BY <1>8 DEF Once
  <2>1. equal[j] = equal[k]
    BY <1>4, <1>9, <1>11 DEF Once, size
  <2>2. ~(j < k) /\ ~(k < j)
    BY <1>4, <2>1
  <2>3. j \in Nat /\ k \in Nat
    BY <1>6
  <2> QED
    BY <2>2, <2>3
<1> QED
  BY <1>8, <1>10, <1>11 DEF Compared

\* keyEquality keeps the pairs that agree in all columns, each as often as it was
\* there.
LEMMA KeyEqualityFacts ==
  ASSUME InputTypes, matches \in Seq(Entries \X Nat)
  PROVE  /\ keyEquality \in MatchBuffers(Len(matches))
         /\ \A e \in Entries : \A row : Holds(keyEquality, e, row) <=>
              /\ \E j \in DOMAIN matches : matches[j][1] = e /\ matches[j][2] + 1 = row
              /\ \A c \in 1 .. nrColumns : Columns(buildKey[e])[c] = Column(c)[row]
         /\ (\A j, k \in DOMAIN matches : matches[j] = matches[k] => j = k) => Once(keyEquality)
<1> DEFINE m == Len(matches)
           V == MatchBuffers(m)
           start == [n |-> Len(matches),
                     buildEntry |-> [j \in DOMAIN matches |-> matches[j][1]],
                     probeIdx |-> [j \in DOMAIN matches |-> matches[j][2] + 1]]
           Check(st, c) == keys_equal(st.n, st.buildEntry, memory, ProbeOffset(c),
                                      st.probeIdx, Column(c))
           run == CHOOSE g : g = [k \in 0 .. nrColumns |->
                    IF k = 0 THEN start ELSE Then(g[k - 1], LAMBDA v : Check(v, k))]
<1>1. keyEquality = run[nrColumns]
  BY DEF keyEquality, Iterate
<1>2. m \in Nat /\ DOMAIN matches = 1 .. m /\ \A j \in 1 .. m : matches[j] \in Entries \X Nat
  BY LenProperties, ElementOfSeq
<1>3. start \in V
  BY <1>2 DEF MatchBuffers
<1>4. /\ start.n = m
      /\ \A j \in 1 .. m : PairAt(start, j) = <<matches[j][1], matches[j][2] + 1>>
  BY <1>2 DEF PairAt
<1>5. nrColumns \in Nat \ {0}
  BY ProbeConstants
<1> HIDE DEF m, start
<1>6. ASSUME NEW v \in V, NEW c
      PROVE  /\ Check(v, c) \in V
             /\ \A e, row : Holds(Check(v, c), e, row)
                              <=> Holds(v, e, row) /\ memory[e][ProbeOffset(c)] = Column(c)[row]
             /\ Once(v) => Once(Check(v, c))
  <2> DEFINE r == Check(v, c)
             column == Column(c)
             offset == ProbeOffset(c)
  <2>1. r = KeysEqual(v, memory, offset, column)
    BY DEF KeysEqual
  <2> HIDE DEF r, column, offset
  <2>3. v \in MatchBuffers(m) /\ m \in Nat
    BY <1>2
  <2> HIDE DEF V
  <2>2. /\ r \in MatchBuffers(m)
        /\ Compared(r, v, memory, offset, column)
        /\ Once(v) => Once(r)
    BY <2>1, <2>3, KeysEqualFacts
  <2> QED
    BY <2>2 DEF r, column, offset, Compared, V
<1> HIDE DEF Check, V
<1>7. run = [k \in 0 .. nrColumns |-> IF k = 0 THEN start ELSE Check(run[k - 1], k)] /\ run[0] = start
  <2> DEFINE f == [vc \in V \X (1 .. nrColumns) |-> Check(vc[1], vc[2])]
  <2>1. \A v \in V : \A c \in 1 .. nrColumns : f[<<v, c>>] = Check(v, c)
    OBVIOUS
  <2> HIDE DEF f
  <2>2. \A v \in V : \A c \in 1 .. nrColumns : f[<<v, c>>] \in V
    BY <1>6, <2>1
  <2>3. PICK h : Looped(V, start, nrColumns, f, h)
    BY <1>3, <1>5, <2>2, LoopTyped
  <2>4. h = [k \in 0 .. nrColumns |-> IF k = 0 THEN start ELSE Check(h[k - 1], k)]
    <3>1. ASSUME NEW k \in 0 .. nrColumns PROVE h[k] = IF k = 0 THEN start ELSE Check(h[k - 1], k)
      <4>1. CASE k = 0
        BY <2>3, <4>1 DEF Looped
      <4>2. CASE k # 0
        <5>1. k \in 1 .. nrColumns /\ k - 1 \in 0 .. nrColumns
          BY <1>5, <4>2
        <5>2. h[k - 1] \in V
          BY <2>3, <5>1 DEF Looped
        <5>3. h[k] = f[<<h[k - 1], k>>]
          BY <2>3, <4>2 DEF Looped
        <5> QED
          BY <2>1, <4>2, <5>1, <5>2, <5>3
      <4> QED
        BY <4>1, <4>2
    <3>2. h \in [0 .. nrColumns -> V]
      BY <2>3 DEF Looped
    <3> QED
      BY <3>1, <3>2
  <2>5. \A g : g = [k \in 0 .. nrColumns |-> IF k = 0 THEN start ELSE Then(g[k - 1], LAMBDA v : Check(v, k))]
               <=> g = [k \in 0 .. nrColumns |-> IF k = 0 THEN start ELSE Check(g[k - 1], k)]
    <3>1. \A v, k : Then(v, LAMBDA x : Check(x, k)) = Check(v, k)
      BY DEF Then
    <3> QED
      BY <3>1
  <2>6. run = [k \in 0 .. nrColumns |-> IF k = 0 THEN start ELSE Check(run[k - 1], k)]
    BY <2>4, <2>5
  <2>7. 0 \in 0 .. nrColumns
    BY <1>5
  <2> HIDE DEF run
  <2> QED
    BY <2>6, <2>7
<1> HIDE DEF run
<1> DEFINE Agree(k, e, row) == \A c \in 1 .. k : memory[e][ProbeOffset(c)] = Column(c)[row]
           Good(k) == /\ run[k] \in V
                      /\ \A e, row : Holds(run[k], e, row) <=> Holds(start, e, row) /\ Agree(k, e, row)
                      /\ Once(start) => Once(run[k])
           L == {k \in Nat : k <= nrColumns => Good(k)}
<1>8. 0 \in L
  BY <1>3, <1>7
<1>9. ASSUME NEW k \in Nat, k \in L
      PROVE  k + 1 \in L
  <2> SUFFICES ASSUME k + 1 <= nrColumns PROVE Good(k + 1)
    <3> HIDE DEF Good
    <3> QED
      OBVIOUS
  <2>1. k + 1 \in 0 .. nrColumns /\ (k + 1) - 1 = k /\ k + 1 # 0 /\ k <= nrColumns
    BY <1>5
  <2>2. Good(k)
    <3> HIDE DEF Good
    <3> QED
      BY <1>9, <2>1
  <2>3. run[k + 1] = Check(run[k], k + 1)
    BY <1>7, <2>1
  <2>4. /\ run[k + 1] \in V
        /\ \A e, row : Holds(run[k + 1], e, row)
                         <=> Holds(run[k], e, row) /\ memory[e][ProbeOffset(k + 1)] = Column(k + 1)[row]
        /\ Once(run[k]) => Once(run[k + 1])
    BY <1>6, <2>2, <2>3
  <2>5. \A e, row : Agree(k + 1, e, row)
                      <=> Agree(k, e, row) /\ memory[e][ProbeOffset(k + 1)] = Column(k + 1)[row]
    <3>1. \A c : c \in 1 .. k + 1 <=> c \in 1 .. k \/ c = k + 1
      OBVIOUS
    <3> QED
      BY <3>1
  <2> HIDE DEF Agree
  <2> QED
    BY <2>2, <2>4, <2>5
<1>10. Good(nrColumns)
  <2> HIDE DEF Good
  <2>1. \A k \in Nat : k \in L => k + 1 \in L
    BY <1>9
  <2> HIDE DEF L
  <2>2. nrColumns \in L
    BY <1>5, <1>8, <2>1, SetInduction
  <2> QED
    BY <1>5, <2>2 DEF L
<1>11. \A e, row : Holds(start, e, row)
                     <=> \E j \in 1 .. m : matches[j][1] = e /\ matches[j][2] + 1 = row
  BY <1>4 DEF Holds
<1>12. \A e \in Entries : \A c \in 1 .. nrColumns :
         memory[e][ProbeOffset(c)] = Columns(buildKey[e])[c]
  BY MemoryFacts
<1>13. ASSUME \A j, k \in 1 .. m : matches[j] = matches[k] => j = k PROVE Once(start)
  <2> SUFFICES ASSUME NEW j \in 1 .. m, NEW k \in 1 .. m, PairAt(start, j) = PairAt(start, k)
               PROVE  j = k
    BY <1>4 DEF Once
  <2>1. matches[j][1] = matches[k][1] /\ matches[j][2] + 1 = matches[k][2] + 1
    BY <1>4
  <2>2. matches[j] \in Entries \X Nat /\ matches[k] \in Entries \X Nat
    BY <1>2
  <2>3. matches[j] = matches[k]
    BY <2>1, <2>2, SamePair
  <2> QED
    BY <1>13, <2>3
<1> HIDE DEF Agree
<1>14. \A e \in Entries : \A row : Agree(nrColumns, e, row)
         <=> \A c \in 1 .. nrColumns : Columns(buildKey[e])[c] = Column(c)[row]
  BY <1>12 DEF Agree
<1>15. keyEquality \in MatchBuffers(m)
  BY <1>1, <1>10 DEF V
<1>16. ASSUME NEW e \in Entries, NEW row
       PROVE  Holds(keyEquality, e, row) <=>
              /\ \E j \in DOMAIN matches : matches[j][1] = e /\ matches[j][2] + 1 = row
              /\ \A c \in 1 .. nrColumns : Columns(buildKey[e])[c] = Column(c)[row]
  <2>1. Holds(keyEquality, e, row) <=> Holds(start, e, row) /\ Agree(nrColumns, e, row)
    BY <1>1, <1>10
  <2>2. Holds(start, e, row) <=> \E j \in DOMAIN matches : matches[j][1] = e /\ matches[j][2] + 1 = row
    BY <1>2, <1>11
  <2>3. Agree(nrColumns, e, row)
          <=> \A c \in 1 .. nrColumns : Columns(buildKey[e])[c] = Column(c)[row]
    BY <1>14
  <2> HIDE DEF Good
  <2> QED
    BY <2>1, <2>2, <2>3
<1>17. Once(start) => Once(keyEquality)
  BY <1>1, <1>10
<1> QED
  BY <1>2, <1>13, <1>15, <1>16, <1>17 DEF m


-----------------------------------------------------------------------------
(* The vector of probe tuples, and what next() makes of the pairs *)

\* A selection vector is in the order of the tuples.
LEMMA SelFacts ==
  ASSUME InputTypes
  PROVE  /\ probeSel \in [0 .. batchSize - 1 -> Nat]
         /\ \A p, q \in 0 .. batchSize - 1 : p < q => probeSel[p] < probeSel[q]
         /\ join = "joinBoncz" => \A p \in 0 .. batchSize - 1 : probeSel[p] = p
<1>1. batchSize \in Nat \ {0}
  BY ProbeConstants
<1>2. CASE probeSel = Dense
  BY <1>1, <1>2 DEF Dense
<1>3. CASE probeSel \in ProbeSels /\ probeSel # Dense
  <2>1. probeSel \in [0 .. batchSize - 1 -> Nat] /\ \A p, q \in DOMAIN probeSel : p < q => probeSel[p] < probeSel[q]
    BY <1>3, ProbeSideAssumption
  <2> QED
    BY <1>3, <2>1 DEF InputTypes
<1> QED
  BY <1>2, <1>3 DEF InputTypes

\* A position of the vector stands for one tuple and for one row.
LEMMA PositionFacts ==
  ASSUME InputTypes, VectorTypes
  PROVE  /\ \A p \in Positions : /\ p \in Nat /\ p \in 0 .. batchSize - 1 /\ p < numProbes
                                 /\ base + p + 1 <= NProbe /\ base \in Nat
                                 /\ TupleAt(p) \in Probes /\ probeSel[p] \in Nat
         /\ \A p, q \in Positions : probeSel[p] = probeSel[q] \/ TupleAt(p) = TupleAt(q) => p = q
         /\ \A t \in Probes : base < t /\ t <= base + numProbes => \E p \in Positions : TupleAt(p) = t
<1>1. /\ base \in Nat /\ numProbes \in Nat /\ numProbes <= batchSize /\ base + numProbes <= NProbe
      /\ batchSize \in Nat /\ NProbe \in Nat
  BY ProbeConstants DEF VectorTypes
<1>2. ASSUME NEW p \in Positions
      PROVE  /\ p \in Nat /\ p \in 0 .. batchSize - 1 /\ p < numProbes
             /\ base + p + 1 <= NProbe /\ TupleAt(p) \in Probes
  BY <1>1 DEF Positions, TupleAt, Probes
<1>3. \A p \in Positions : probeSel[p] \in Nat
  BY <1>2, SelFacts
<1>4. ASSUME NEW p \in Positions, NEW q \in Positions, p # q
      PROVE  probeSel[p] # probeSel[q] /\ TupleAt(p) # TupleAt(q)
  <2>1. p < q \/ q < p
    BY <1>2, <1>4
  <2>2. probeSel[p] < probeSel[q] \/ probeSel[q] < probeSel[p]
    BY <1>2, <2>1, SelFacts
  <2> QED
    BY <1>1, <1>2, <1>3, <1>4, <2>2 DEF TupleAt
<1>5. ASSUME NEW t \in Probes, base < t, t <= base + numProbes
      PROVE  \E p \in Positions : TupleAt(p) = t
  <2>1. t - base - 1 \in Positions /\ TupleAt(t - base - 1) = t
    BY <1>1, <1>5 DEF Positions, TupleAt, Probes
  <2> QED
    BY <2>1
<1> QED
  BY <1>1, <1>2, <1>3, <1>4, <1>5

\* Equal keys have equal hashes and are in one chain.
LEMMA MatchFacts ==
  ASSUME InputTypes, VectorTypes, NEW p \in Positions, NEW e \in Entries, Match(e, TupleAt(p))
  PROVE  EntryHash(e) = Hash(p) /\ e \in Slot(p)
<1>1. EntryHash(e) = Hash(p)
  BY DEF Match, EntryHash, Hash, TupleAt
<1>2. p \in Nat /\ base \in Nat /\ base + p + 1 <= NProbe
  BY PositionFacts
<1> QED
  BY <1>1, <1>2, ChainFacts

\* Keys are equal if their columns are.
LEMMA MatchIsColumns ==
  ASSUME InputTypes, NEW e \in Entries, NEW t \in Probes
  PROVE  Match(e, t) <=>
           \A c \in 1 .. nrColumns : Columns(buildKey[e])[c] = Columns(probeKey[t])[c]
<1>1. buildKey[e] \in Keys /\ probeKey[t] \in Keys
  BY DEF InputTypes
<1> QED
  BY <1>1, ProbeSideAssumption DEF Match

\* The row of a tuple holds its columns.
LEMMA ColumnFacts ==
  ASSUME InputTypes, VectorTypes, NEW p \in Positions, NEW c
  PROVE  Column(c)[probeSel[p] + 1] = Columns(probeKey[TupleAt(p)])[c]
<1> DEFINE row == probeSel[p] + 1
           tuples == {q \in 0 .. numProbes - 1 : probeSel[q] + 1 = row}
<1>1. p \in 0 .. batchSize - 1 /\ p \in 0 .. numProbes - 1
  BY PositionFacts DEF Positions
<1>2. row \in 1 .. probeSel[batchSize - 1] + 1
  <2>1. batchSize - 1 \in 0 .. batchSize - 1 /\ (p < batchSize - 1 \/ p = batchSize - 1)
    BY <1>1, ProbeConstants
  <2>2. probeSel[p] \in Nat /\ probeSel[batchSize - 1] \in Nat
    BY <1>1, <2>1, SelFacts
  <2>3. probeSel[p] <= probeSel[batchSize - 1]
    BY <1>1, <2>1, <2>2, SelFacts
  <2> QED
    BY <2>2, <2>3
<1>3. tuples = {p}
  <2>1. ASSUME NEW q \in tuples PROVE q = p
    <3>1. q \in Positions /\ probeSel[q] \in Nat /\ probeSel[p] \in Nat /\ probeSel[q] + 1 = probeSel[p] + 1
      BY PositionFacts DEF Positions
    <3>2. probeSel[q] = probeSel[p]
      BY <3>1
    <3> QED
      BY <3>1, <3>2, PositionFacts
  <2> QED
    BY <1>1, <2>1
<1>4. (CHOOSE q \in tuples : TRUE) = p
  BY <1>3
<1>5. Column(c)[row] = Columns(probeKey[base + p + 1])[c]
  BY <1>2, <1>3, <1>4 DEF Column
<1> QED
  BY <1>5 DEF TupleAt

\* The pairs that the comparison leaves.
Hit(e, t) == \E p \in Positions : TupleAt(p) = t /\ InMatches(p, e) /\ Match(e, t)

\* What Return counts are the matches with equal keys, and for a join with a ring
\* none of them was counted before.
LEMMA ReturnFacts ==
  ASSUME JoinInv, Return
  PROVE  /\ pairs' \in [Entries \X Probes -> 0 .. 2]
         /\ \A e \in Entries, t \in Probes :
              /\ ~Hit(e, t) => pairs'[<<e, t>>] = pairs[<<e, t>>]
              /\ Hit(e, t) => pairs'[<<e, t>>] > 0
              /\ Hit(e, t) /\ RingJoin => pairs'[<<e, t>>] = 1
<1> DEFINE r == keyEquality
           m == Len(matches)
           values == gather_col(r.n, r.buildEntry, memory, ValueField, r.buildEntry)
           hits(e, t) == {j \in 1 .. r.n : values[j] = e /\ r.probeIdx[j] \in RowsOf(t)}
           Returned(e, t) == IF hits(e, t) = {} THEN pairs[<<e, t>>]
                          ELSE IF pairs[<<e, t>>] = 0 /\ Cardinality(hits(e, t)) = 1 THEN 1 ELSE 2
<1>1. InputTypes /\ VectorTypes /\ MatchesInv /\ PairsInv
  BY DEF JoinInv
<1>2. pairs' = [q \in Entries \X Probes |-> Returned(q[1], q[2])]
  <2>1. \A q \in Entries \X Probes : pairs[<<q[1], q[2]>>] = pairs[q]
    OBVIOUS
  <2>2. pairs' = [q \in Entries \X Probes |->
          LET h == {j \in 1 .. r.n : values[j] = q[1] /\ r.probeIdx[j] \in RowsOf(q[2])}
          IN  IF h = {} THEN pairs[q]
              ELSE IF pairs[q] = 0 /\ Cardinality(h) = 1 THEN 1 ELSE 2]
    BY DEF Return
  <2> HIDE DEF values, r
  <2> QED
    BY <2>1, <2>2
<1>3. matches \in Seq(Entries \X Nat) /\ m \in Nat /\ DOMAIN matches = 1 .. m
  BY <1>1, LenProperties DEF MatchesInv
<1>4. /\ r \in MatchBuffers(m)
      /\ \A e \in Entries : \A row : Holds(r, e, row) <=>
           /\ \E j \in DOMAIN matches : matches[j][1] = e /\ matches[j][2] + 1 = row
           /\ \A c \in 1 .. nrColumns : Columns(buildKey[e])[c] = Column(c)[row]
      /\ (\A j, k \in DOMAIN matches : matches[j] = matches[k] => j = k) => Once(r)
  BY <1>1, <1>3, KeyEqualityFacts
<1> HIDE DEF r
<1>5. \A j \in 1 .. r.n : values[j] = r.buildEntry[j]
  <2> DEFINE size == r.n
             be == r.buildEntry
             fetched == [j \in 1 .. size |-> memory[be[j]][ValueField]]
  <2>1. size \in 0 .. m /\ Fills(be, m, Entries)
    BY <1>4 DEF MatchBuffers, Fills
  <2>2. values = Store(be, 0, fetched)
    BY DEF gather_col
  <2>3. \A j \in 1 .. size : be[j] \in Entries
    <3> HIDE DEF size, be
    <3>1. \A j \in 1 .. size : j \in 1 .. m
      BY <1>3, <2>1
    <3> QED
      BY <2>1, <3>1 DEF Fills
  <2>4. \A j \in 1 .. size : fetched[j] = be[j]
    BY <1>1, <2>3, MemoryFacts
  <2>5. Fills(fetched, size, Entries)
    BY <2>3, <2>4 DEF Fills
  <2> HIDE DEF size, be, fetched, values
  <2>6. Begins(Store(be, 0, fetched), fetched, size) /\ Fills(Store(be, 0, fetched), m, Entries)
    BY <1>3, <2>1, <2>5, StoreTyped
  <2> QED
    BY <2>2, <2>4, <2>6 DEF Begins, size, be
<1> HIDE DEF values
<1>6. ASSUME NEW e \in Entries, NEW p \in Positions
      PROVE  Holds(r, e, probeSel[p] + 1) <=> InMatches(p, e) /\ Match(e, TupleAt(p))
  <2>1. probeSel[p] \in Nat /\ TupleAt(p) \in Probes
    BY <1>1, PositionFacts
  <2>2. \A j \in DOMAIN matches : matches[j][1] = e /\ matches[j][2] + 1 = probeSel[p] + 1
                                    <=> matches[j] = <<e, probeSel[p]>>
    <3> SUFFICES ASSUME NEW j \in DOMAIN matches
                 PROVE  matches[j][1] = e /\ matches[j][2] + 1 = probeSel[p] + 1
                          <=> matches[j] = <<e, probeSel[p]>>
      OBVIOUS
    <3>1. matches[j] \in Entries \X Nat
      BY <1>3, ElementOfSeq
    <3>2. PICK x \in Entries, y \in Nat : matches[j] = <<x, y>>
      BY <3>1
    <3> QED
      BY <2>1, <3>2
  <2>3. (\E j \in DOMAIN matches : matches[j][1] = e /\ matches[j][2] + 1 = probeSel[p] + 1)
          <=> InMatches(p, e)
    BY <2>2 DEF InMatches
  <2>4. (\A c \in 1 .. nrColumns : Columns(buildKey[e])[c] = Column(c)[probeSel[p] + 1])
          <=> Match(e, TupleAt(p))
    <3>1. \A c : Column(c)[probeSel[p] + 1] = Columns(probeKey[TupleAt(p)])[c]
      BY <1>1, ColumnFacts
    <3>2. Match(e, TupleAt(p)) <=>
            \A c \in 1 .. nrColumns : Columns(buildKey[e])[c] = Columns(probeKey[TupleAt(p)])[c]
      BY <1>1, <2>1, MatchIsColumns
    <3> QED
      BY <3>1, <3>2
  <2> QED
    BY <1>4, <2>3, <2>4
<1>7. ASSUME NEW e \in Entries, NEW t \in Probes
      PROVE  /\ ~Hit(e, t) => hits(e, t) = {}
             /\ Hit(e, t) => hits(e, t) # {}
             /\ Hit(e, t) /\ RingJoin => pairs[<<e, t>>] = 0 /\ Cardinality(hits(e, t)) = 1
  <2>1. \A row : row \in RowsOf(t) <=> \E p \in Positions : TupleAt(p) = t /\ row = probeSel[p] + 1
    BY DEF RowsOf, Positions, TupleAt
  <2>2. \A j : j \in hits(e, t) <=> /\ j \in 1 .. r.n
                                    /\ \E p \in Positions : TupleAt(p) = t
                                                            /\ PairAt(r, j) = <<e, probeSel[p] + 1>>
    <3> SUFFICES ASSUME NEW j \in 1 .. r.n
                 PROVE  (values[j] = e /\ r.probeIdx[j] \in RowsOf(t)) <=>
                          \E p \in Positions : TupleAt(p) = t /\ PairAt(r, j) = <<e, probeSel[p] + 1>>
      OBVIOUS
    <3>1. values[j] = r.buildEntry[j]
      BY <1>5
    <3>2. \A row : PairAt(r, j) = <<e, row>> <=> r.buildEntry[j] = e /\ r.probeIdx[j] = row
      BY DEF PairAt
    <3> QED
      BY <2>1, <3>1, <3>2
  <2> HIDE DEF hits
  <2>3. (\E j : j \in hits(e, t)) <=> \E p \in Positions : TupleAt(p) = t /\ Holds(r, e, probeSel[p] + 1)
    BY <2>2 DEF Holds
  <2>4. (\E j : j \in hits(e, t)) <=> Hit(e, t)
    BY <1>6, <2>3 DEF Hit
  <2>5. ASSUME Hit(e, t), RingJoin
        PROVE  pairs[<<e, t>>] = 0 /\ Cardinality(hits(e, t)) = 1
    <3>1. PICK p \in Positions : TupleAt(p) = t /\ InMatches(p, e)
      BY <2>5 DEF Hit
    <3>2. PICK j \in DOMAIN matches : matches[j] = <<e, probeSel[p]>>
      BY <3>1 DEF InMatches
    <3>3. PICK q \in Positions, x \in Entries :
             matches[j] = <<x, probeSel[q]>> /\ pairs[<<x, TupleAt(q)>>] = 0
      BY <1>1, <2>5 DEF MatchesInv
    <3>4. x = e /\ probeSel[q] = probeSel[p]
      BY <3>2, <3>3
    <3>5. q = p
      BY <1>1, <3>4, PositionFacts
    <3>6. pairs[<<e, t>>] = 0
      BY <3>1, <3>3, <3>4, <3>5
    <3>7. Once(r)
      BY <1>1, <1>4, <2>5 DEF MatchesInv
    <3>8. \A y, z \in hits(e, t) : y = z
      <4> SUFFICES ASSUME NEW y \in hits(e, t), NEW z \in hits(e, t) PROVE y = z
        OBVIOUS
      <4>1. PICK p1 \in Positions : TupleAt(p1) = t /\ PairAt(r, y) = <<e, probeSel[p1] + 1>>
        BY <2>2
      <4>2. PICK p2 \in Positions : TupleAt(p2) = t /\ PairAt(r, z) = <<e, probeSel[p2] + 1>>
        BY <2>2
      <4>3. p1 = p2
        BY <1>1, <4>1, <4>2, PositionFacts
      <4> QED
        BY <2>2, <3>7, <4>1, <4>2, <4>3 DEF Once
    <3>9. PICK y : hits(e, t) = {y}
      BY <2>4, <2>5, <3>8
    <3> QED
      BY <3>6, <3>9, FS_Singleton
  <2> QED
    BY <2>4, <2>5
<1>8. \A e \in Entries, t \in Probes : pairs'[<<e, t>>] = Returned(e, t)
  <2> HIDE DEF Returned
  <2>1. \A e \in Entries, t \in Probes : <<e, t>> \in Entries \X Probes /\ <<e, t>>[1] = e /\ <<e, t>>[2] = t
    OBVIOUS
  <2> QED
    BY <1>2, <2>1
<1>9. \A e \in Entries, t \in Probes : pairs[<<e, t>>] \in 0 .. 2
  BY <1>1 DEF PairsInv
<1> HIDE DEF hits
<1>10. pairs' \in [Entries \X Probes -> 0 .. 2]
  <2>1. ASSUME NEW e \in Entries, NEW t \in Probes PROVE Returned(e, t) \in 0 .. 2
    <3>1. pairs[<<e, t>>] \in 0 .. 2 /\ 1 \in 0 .. 2 /\ 2 \in 0 .. 2
      BY <1>9
    <3> QED
      BY <3>1
  <2> HIDE DEF Returned
  <2>2. \A q \in Entries \X Probes : Returned(q[1], q[2]) \in 0 .. 2
    BY <2>1
  <2> QED
    BY <1>2, <2>2
<1> QED
  BY <1>7, <1>8, <1>10


-----------------------------------------------------------------------------
(* The ring *)

RingStep(a) == IF a + 1 = followupBufferSize THEN 0 ELSE a + 1

\* A number below the modulus stays, and the modulus itself is nought.
LEMMA ModSmall ==
  ASSUME NEW N \in Nat \ {0}
  PROVE  N % N = 0 /\ \A x \in 0 .. N - 1 : x % N = x
<1>1. ASSUME NEW x \in Int, NEW q \in Int, NEW y \in 0 .. N - 1, x = N * q + y
      PROVE  x % N = y
  BY <1>1, Z3
<1>2. N % N = 0
  BY <1>1
<1>3. \A x \in 0 .. N - 1 : x % N = x
  BY <1>1
<1> QED
  BY <1>2, <1>3

LEMMA StepFacts ==
  ASSUME NEW a \in 0 .. batchSize
  PROVE  (a + 1) % followupBufferSize = RingStep(a) /\ RingStep(a) \in 0 .. batchSize
<1>1. batchSize \in Nat \ {0} /\ followupBufferSize = batchSize + 1 /\ followupBufferSize \in Nat \ {0}
  BY ProbeConstants
<1>2. a + 1 = followupBufferSize \/ a + 1 \in 0 .. followupBufferSize - 1
  BY <1>1
<1> QED
  BY <1>1, <1>2, ModSmall DEF RingStep

\* The first place of the ring is given up.
LEMMA RingPop ==
  ASSUME NEW a \in 0 .. batchSize, NEW b \in 0 .. batchSize, a # b
  PROVE  /\ Waiting(a, b) \in 1 .. batchSize
         /\ Waiting(RingStep(a), b) = Waiting(a, b) - 1
         /\ \A j \in 0 .. batchSize : InRing(j, RingStep(a), b) <=> InRing(j, a, b) /\ j # a
         /\ InRing(a, a, b)
BY ProbeConstants DEF Waiting, RingStep, InRing

\* The place behind the last one is taken.
LEMMA RingPush ==
  ASSUME NEW a \in 0 .. batchSize, NEW b \in 0 .. batchSize, Waiting(a, b) < batchSize
  PROVE  /\ Waiting(a, RingStep(b)) = Waiting(a, b) + 1
         /\ \A j \in 0 .. batchSize : InRing(j, a, RingStep(b)) <=> InRing(j, a, b) \/ j = b
         /\ ~InRing(b, a, b)
BY ProbeConstants DEF Waiting, RingStep, InRing

LEMMA RingBounds ==
  ASSUME NEW a \in 0 .. batchSize, NEW b \in 0 .. batchSize
  PROVE  /\ Waiting(a, b) \in 0 .. batchSize /\ (Waiting(a, b) = 0 <=> a = b)
         /\ \A j \in 0 .. batchSize : ~InRing(j, a, a)
BY ProbeConstants DEF Waiting, InRing

-----------------------------------------------------------------------------
(* Steps within a vector *)

\* The tuples of the vector are the same.
LEMMA SameVector ==
  ASSUME UNCHANGED <<joinInput, base, numProbes>>
  PROVE  /\ Positions' = Positions
         /\ \A p : TupleAt(p)' = TupleAt(p) /\ Hash(p)' = Hash(p) /\ probeSel[p]' = probeSel[p]
         /\ \A p : Slot(p)' = Slot(p) /\ ChainOf(p)' = ChainOf(p)
         /\ \A e : EntryHash(e)' = EntryHash(e)
         /\ \A e, t : Match(e, t)' = Match(e, t)
         /\ next' = next
<1>1. /\ UNCHANGED <<buildKey, memory, next, chain, probeKey, probeSel>>
      /\ base' = base /\ numProbes' = numProbes
  BY DEF joinInput
<1>2. Positions' = Positions
  BY <1>1 DEF Positions
<1>3. \A p : TupleAt(p)' = TupleAt(p) /\ Hash(p)' = Hash(p) /\ probeSel[p]' = probeSel[p]
  BY <1>1 DEF TupleAt, Hash
<1>4. \A e : EntryHash(e)' = EntryHash(e)
  BY <1>1 DEF EntryHash
<1>5. \A h : SlotEntries(h)' = SlotEntries(h)
  BY <1>4 DEF SlotEntries
<1>6. \A p : Slot(p)' = Slot(p) /\ ChainOf(p)' = ChainOf(p)
  BY <1>1, <1>3, <1>5 DEF Slot, ChainOf
<1> QED
  BY <1>1, <1>2, <1>3, <1>4, <1>6 DEF Match

LEMMA InputStays ==
  ASSUME InputTypes, UNCHANGED <<joinInput, join>>
  PROVE  InputTypes'
<1>1. UNCHANGED <<buildKey, memory, next, chain, probeKey, probeSel, join>>
  BY DEF joinInput
<1>2. \A e : EntryHash(e)' = EntryHash(e)
  BY <1>1 DEF EntryHash
<1>3. \A h : SlotEntries(h)' = SlotEntries(h)
  BY <1>2 DEF SlotEntries
<1>4. \A h : find_chain_tagged(h)' = find_chain_tagged(h)
  BY <1>2, <1>3 DEF find_chain_tagged
<1>5. \A e : {f \in SlotEntries(EntryHash(e)) : f > e}' = {f \in SlotEntries(EntryHash(e)) : f > e}
  BY <1>2, <1>3
<1>6. next' = [e \in Entries |-> First({f \in SlotEntries(EntryHash(e)) : f > e})]'
  BY <1>1, <1>5 DEF InputTypes
<1>7. chain' = [h \in 0 .. NHashes - 1 |-> find_chain_tagged(h)]'
  BY <1>1, <1>4 DEF InputTypes
<1> QED
  BY <1>1, <1>6, <1>7 DEF InputTypes

\* What was looked at stays so, for a join with a ring.
PassedStays ==
  RingJoin => \A p \in Positions, e \in Entries : Passed(p, e) => Passed(p, e)'

LEMMA PairsStay ==
  ASSUME JoinInv, UNCHANGED <<joinInput, join, base, numProbes, pairs>>, PassedStays
  PROVE  PairsInv'
<1>1. /\ Positions' = Positions /\ \A p : TupleAt(p)' = TupleAt(p)
      /\ \A e, t : Match(e, t)' = Match(e, t)
  BY SameVector
<1>2. RingJoin' <=> RingJoin
  BY DEF RingJoin
<1>3. PairsInv
  BY DEF JoinInv
<1>4. RingJoin => \A p \in Positions, e \in Entries : pairs[<<e, TupleAt(p)>>] > 0 => Passed(p, e)'
  BY <1>3 DEF PairsInv, PassedStays
<1> QED
  BY <1>1, <1>2, <1>3, <1>4 DEF PairsInv

\* Pairs s are added to the matches: those of entries that are looked at now.
LEMMA MatchesGrow ==
  ASSUME JoinInv, UNCHANGED <<joinInput, join, base, numProbes, pairs>>, PassedStays,
         NEW s \in Seq(Entries \X Nat), matches' = matches \o s,
         \A j \in 1 .. Len(s) : \E p \in Positions, e \in Entries :
           s[j] = <<e, probeSel[p]>> /\ (RingJoin => ~Passed(p, e) /\ Passed(p, e)'),
         RingJoin => \A j, k \in 1 .. Len(s) : s[j] = s[k] => j = k
  PROVE  /\ MatchesInv' /\ Len(matches') = Len(matches) + Len(s)
         /\ \A q \in Positions, x \in Entries :
              InMatches(q, x) \/ (\E j \in 1 .. Len(s) : s[j] = <<x, probeSel[q]>>)
                => InMatches(q, x)'
<1> DEFINE m == Len(matches)
           l == Len(s)
           t == matches'
<1>1. InputTypes /\ VectorTypes /\ MatchesInv /\ PairsInv
  BY DEF JoinInv
<1>2. matches \in Seq(Entries \X Nat) /\ m \in Nat /\ DOMAIN matches = 1 .. m /\ l \in Nat
  BY <1>1, LenProperties DEF MatchesInv
<1>3. /\ t \in Seq(Entries \X Nat) /\ Len(t) = m + l /\ DOMAIN t = 1 .. m + l
      /\ \A j \in 1 .. m + l : t[j] = IF j <= m THEN matches[j] ELSE s[j - m]
  <2>1. /\ matches \o s \in Seq(Entries \X Nat) /\ Len(matches \o s) = m + l
        /\ \A j \in 1 .. m + l : (matches \o s)[j] = IF j <= m THEN matches[j] ELSE s[j - m]
    BY <1>2, ConcatProperties
  <2>2. DOMAIN (matches \o s) = 1 .. m + l
    BY <2>1, LenProperties
  <2> QED
    BY <2>1, <2>2
<1> HIDE DEF t, m, l
<1>4. ASSUME NEW j \in 1 .. m + l
      PROVE  (j \in 1 .. m /\ t[j] = matches[j]) \/ (j - m \in 1 .. l /\ t[j] = s[j - m])
  <2>1. CASE j <= m
    BY <1>2, <1>3, <2>1
  <2>2. CASE ~(j <= m)
    <3>1. t[j] = s[j - m]
      BY <1>3, <2>2
    <3>2. j - m \in 1 .. l
      BY <1>2, <2>2
    <3> QED
      BY <3>1, <3>2
  <2> QED
    BY <2>1, <2>2
<1>5. \A j \in 1 .. m : j \in 1 .. m + l /\ t[j] = matches[j]
  BY <1>2, <1>3
<1>6. \A j \in 1 .. l : j + m \in 1 .. m + l /\ t[j + m] = s[j]
  <2> SUFFICES ASSUME NEW j \in 1 .. l PROVE j + m \in 1 .. m + l /\ t[j + m] = s[j]
    OBVIOUS
  <2>1. j + m \in 1 .. m + l /\ ~(j + m <= m) /\ (j + m) - m = j
    BY <1>2
  <2> QED
    BY <1>3, <2>1
<1>7. /\ Positions' = Positions /\ (\A p : TupleAt(p)' = TupleAt(p)) /\ probeSel' = probeSel
      /\ (RingJoin' <=> RingJoin)
  BY SameVector DEF RingJoin, joinInput
<1>8. \A p \in Positions, e \in Entries : RingJoin /\ ~Passed(p, e) => pairs[<<e, TupleAt(p)>>] = 0
  <2> SUFFICES ASSUME NEW p \in Positions, NEW e \in Entries, RingJoin, ~Passed(p, e)
               PROVE  pairs[<<e, TupleAt(p)>>] = 0
    OBVIOUS
  <2>1. TupleAt(p) \in Probes
    BY <1>1, PositionFacts
  <2>2. pairs[<<e, TupleAt(p)>>] \in 0 .. 2 /\ ~(pairs[<<e, TupleAt(p)>>] > 0)
    BY <1>1, <2>1 DEF PairsInv
  <2> QED
    BY <2>2
<1>9. ASSUME NEW j \in 1 .. m
      PROVE  \E p \in Positions, e \in Entries :
               /\ t[j] = <<e, probeSel[p]>>
               /\ RingJoin => Passed(p, e) /\ Passed(p, e)' /\ pairs[<<e, TupleAt(p)>>] = 0
  <2>1. PICK p \in Positions, e \in Entries :
           /\ matches[j] = <<e, probeSel[p]>>
           /\ RingJoin => Passed(p, e) /\ pairs[<<e, TupleAt(p)>>] = 0
    BY <1>1, <1>2 DEF MatchesInv
  <2> QED
    BY <1>5, <2>1 DEF PassedStays
<1>10. ASSUME NEW j \in 1 .. l
       PROVE  \E p \in Positions, e \in Entries :
                /\ s[j] = <<e, probeSel[p]>>
                /\ RingJoin => ~Passed(p, e) /\ Passed(p, e)' /\ pairs[<<e, TupleAt(p)>>] = 0
  BY <1>8 DEF l
<1>11. ASSUME NEW j \in 1 .. m + l
       PROVE  \E p \in Positions, e \in Entries :
                /\ t[j] = <<e, probeSel[p]>>
                /\ RingJoin => Passed(p, e)' /\ pairs[<<e, TupleAt(p)>>] = 0
  <2>1. CASE j \in 1 .. m
    <3>1. PICK p \in Positions, e \in Entries :
             /\ t[j] = <<e, probeSel[p]>>
             /\ RingJoin => Passed(p, e) /\ Passed(p, e)' /\ pairs[<<e, TupleAt(p)>>] = 0
      BY <1>9, <2>1
    <3> QED
      BY <3>1
  <2>2. CASE j - m \in 1 .. l /\ t[j] = s[j - m]
    <3>1. PICK p \in Positions, e \in Entries :
             /\ s[j - m] = <<e, probeSel[p]>>
             /\ RingJoin => ~Passed(p, e) /\ Passed(p, e)' /\ pairs[<<e, TupleAt(p)>>] = 0
      BY <1>10, <2>2
    <3> QED
      BY <2>2, <3>1
  <2> QED
    BY <1>4, <2>1, <2>2
<1>12. ASSUME RingJoin, NEW j \in 1 .. m, NEW k \in 1 .. l
       PROVE  matches[j] # s[k]
  <2>1. PICK p \in Positions, e \in Entries : matches[j] = <<e, probeSel[p]>> /\ Passed(p, e)
    BY <1>5, <1>9, <1>12
  <2>2. PICK q \in Positions, x \in Entries :
           /\ s[k] = <<x, probeSel[q]>>
           /\ RingJoin => ~Passed(q, x) /\ Passed(q, x)' /\ pairs[<<x, TupleAt(q)>>] = 0
    BY <1>10
  <2>3. probeSel[p] = probeSel[q] => p = q
    BY <1>1, PositionFacts
  <2> QED
    BY <1>12, <2>1, <2>2, <2>3
<1>13. RingJoin => \A j, k \in 1 .. m + l : t[j] = t[k] => j = k
  <2> SUFFICES ASSUME RingJoin, NEW j \in 1 .. m + l, NEW k \in 1 .. m + l, t[j] = t[k]
               PROVE  j = k
    OBVIOUS
  <2>1. \A y, z \in 1 .. m : matches[y] = matches[z] => y = z
    BY <1>1, <1>2 DEF MatchesInv
  <2>2. \A y, z \in 1 .. l : s[y] = s[z] => y = z
    BY DEF l
  <2>3. CASE j \in 1 .. m /\ t[j] = matches[j] /\ k \in 1 .. m /\ t[k] = matches[k]
    BY <2>1, <2>3
  <2>4. CASE j - m \in 1 .. l /\ t[j] = s[j - m] /\ k - m \in 1 .. l /\ t[k] = s[k - m]
    <3>1. j - m = k - m
      BY <2>2, <2>4
    <3> QED
      BY <1>2, <3>1
  <2>5. CASE j \in 1 .. m /\ t[j] = matches[j] /\ k - m \in 1 .. l /\ t[k] = s[k - m]
    BY <1>12, <2>5
  <2>6. CASE j - m \in 1 .. l /\ t[j] = s[j - m] /\ k \in 1 .. m /\ t[k] = matches[k]
    BY <1>12, <2>6
  <2> QED
    BY <1>4, <2>3, <2>4, <2>5, <2>6
<1>14. MatchesInv'
  <2>1. \A j \in DOMAIN t : \E p \in Positions', e \in Entries :
           /\ t[j] = <<e, probeSel'[p]>>
           /\ RingJoin' => Passed(p, e)' /\ pairs'[<<e, TupleAt(p)'>>] = 0
    <3> SUFFICES ASSUME NEW j \in 1 .. m + l
                 PROVE  \E p \in Positions', e \in Entries :
                          /\ t[j] = <<e, probeSel'[p]>>
                          /\ RingJoin' => Passed(p, e)' /\ pairs'[<<e, TupleAt(p)'>>] = 0
      BY <1>3
    <3>1. PICK p \in Positions, e \in Entries :
             /\ t[j] = <<e, probeSel[p]>>
             /\ RingJoin => Passed(p, e)' /\ pairs[<<e, TupleAt(p)>>] = 0
      BY <1>11
    <3>2. p \in Positions' /\ probeSel'[p] = probeSel[p]
          /\ pairs'[<<e, TupleAt(p)'>>] = pairs[<<e, TupleAt(p)>>]
      BY <1>7
    <3> QED
      BY <1>7, <3>1, <3>2
  <2>2. RingJoin' => \A j, k \in DOMAIN t : t[j] = t[k] => j = k
    BY <1>3, <1>7, <1>13
  <2> QED
    BY <1>3, <2>1, <2>2 DEF MatchesInv, t
<1>15. ASSUME NEW q \in Positions, NEW x \in Entries,
              InMatches(q, x) \/ \E j \in 1 .. l : s[j] = <<x, probeSel[q]>>
       PROVE  InMatches(q, x)'
  <2>1. \E j \in 1 .. m + l : t[j] = <<x, probeSel[q]>>
    <3>1. CASE InMatches(q, x)
      BY <1>2, <1>5, <3>1 DEF InMatches
    <3>2. CASE \E j \in 1 .. l : s[j] = <<x, probeSel[q]>>
      BY <1>6, <3>2
    <3> QED
      BY <1>15, <3>1, <3>2
  <2> QED
    BY <1>3, <1>7, <2>1 DEF InMatches, t
<1> QED
  BY <1>3, <1>14, <1>15 DEF t, m, l

\* The two frequent cases: one more pair, and none.
LEMMA MatchesAppend ==
  ASSUME JoinInv, UNCHANGED <<joinInput, join, base, numProbes, pairs>>, PassedStays,
         NEW p \in Positions, NEW e \in Entries, matches' = Append(matches, <<e, probeSel[p]>>),
         RingJoin => ~Passed(p, e) /\ Passed(p, e)'
  PROVE  /\ MatchesInv' /\ Len(matches') = Len(matches) + 1 /\ InMatches(p, e)'
         /\ \A q \in Positions, x \in Entries : InMatches(q, x) => InMatches(q, x)'
<1> DEFINE s == << <<e, probeSel[p]>> >>
<1>1. InputTypes /\ VectorTypes /\ matches \in Seq(Entries \X Nat)
  BY DEF JoinInv, MatchesInv
<1>2. <<e, probeSel[p]>> \in Entries \X Nat
  BY <1>1, PositionFacts
<1>3. s \in Seq(Entries \X Nat) /\ Len(s) = 1 /\ s[1] = <<e, probeSel[p]>>
  BY <1>2
<1>4. matches' = matches \o s
  BY <1>1, <1>2, AppendIsConcat
<1> HIDE DEF s
<1>5. \A j \in 1 .. Len(s) : \E q \in Positions, x \in Entries :
        s[j] = <<x, probeSel[q]>> /\ (RingJoin => ~Passed(q, x) /\ Passed(q, x)')
  BY <1>3
<1>6. \A j, k \in 1 .. Len(s) : s[j] = s[k] => j = k
  BY <1>3
<1>7. /\ MatchesInv' /\ Len(matches') = Len(matches) + Len(s)
      /\ \A q \in Positions, x \in Entries :
           InMatches(q, x) \/ (\E j \in 1 .. Len(s) : s[j] = <<x, probeSel[q]>>) => InMatches(q, x)'
  BY <1>3, <1>4, <1>5, <1>6, MatchesGrow
<1> QED
  BY <1>3, <1>7

LEMMA MatchesSame ==
  ASSUME JoinInv, UNCHANGED <<joinInput, join, base, numProbes, pairs, matches>>, PassedStays
  PROVE  /\ MatchesInv'
         /\ \A q \in Positions, x \in Entries : InMatches(q, x) => InMatches(q, x)'
<1>1. /\ Positions' = Positions /\ (\A p : TupleAt(p)' = TupleAt(p)) /\ probeSel' = probeSel
      /\ (RingJoin' <=> RingJoin)
  BY SameVector DEF RingJoin, joinInput
<1>2. MatchesInv
  BY DEF JoinInv
<1>3. \A j \in DOMAIN matches : \E p \in Positions, e \in Entries :
        /\ matches[j] = <<e, probeSel[p]>>
        /\ RingJoin => Passed(p, e)' /\ pairs[<<e, TupleAt(p)>>] = 0
  BY <1>2 DEF MatchesInv, PassedStays
<1>4. MatchesInv'
  <2>1. /\ matches' = matches /\ matches \in Seq(Entries \X Nat)
        /\ RingJoin => \A j, k \in DOMAIN matches : matches[j] = matches[k] => j = k
    BY <1>2 DEF MatchesInv
  <2>2. \A j \in DOMAIN matches' : \E p \in Positions', e \in Entries :
           /\ matches'[j] = <<e, probeSel'[p]>>
           /\ RingJoin' => Passed(p, e)' /\ pairs'[<<e, TupleAt(p)'>>] = 0
    <3> SUFFICES ASSUME NEW j \in DOMAIN matches'
                 PROVE  \E p \in Positions', e \in Entries :
                          /\ matches'[j] = <<e, probeSel'[p]>>
                          /\ RingJoin' => Passed(p, e)' /\ pairs'[<<e, TupleAt(p)'>>] = 0
      OBVIOUS
    <3>1. j \in DOMAIN matches /\ matches'[j] = matches[j]
      BY <2>1
    <3>2. PICK p \in Positions, e \in Entries :
             /\ matches[j] = <<e, probeSel[p]>>
             /\ RingJoin => Passed(p, e)' /\ pairs[<<e, TupleAt(p)>>] = 0
      BY <1>3, <3>1
    <3>3. p \in Positions' /\ probeSel'[p] = probeSel[p]
          /\ pairs'[<<e, TupleAt(p)'>>] = pairs[<<e, TupleAt(p)>>]
      BY <1>1
    <3> QED
      BY <1>1, <3>1, <3>2, <3>3
  <2>3. /\ matches' \in Seq(Entries \X Nat)
        /\ RingJoin' => \A j, k \in DOMAIN matches' : matches'[j] = matches'[k] => j = k
    BY <1>1, <2>1
  <2> QED
    BY <2>2, <2>3 DEF MatchesInv
<1> QED
  BY <1>1, <1>4 DEF InMatches

\* What is looked at now is delivered, if it is among the matches.
LEMMA DeliveredStep ==
  ASSUME JoinInv, UNCHANGED <<joinInput, join, base, numProbes, pairs>>,
         \A q \in Positions, x \in Entries : InMatches(q, x) => InMatches(q, x)',
         \A q \in Positions, x \in Entries :
           x \in Slot(q) /\ EntryHash(x) = Hash(q) /\ Passed(q, x)'
             => Passed(q, x) \/ InMatches(q, x)'
  PROVE  AllDelivered'
<1>1. /\ Positions' = Positions /\ (\A p : TupleAt(p)' = TupleAt(p))
      /\ \A e, t : Match(e, t)' = Match(e, t)
  BY SameVector
<1>2. InputTypes /\ VectorTypes /\ AllDelivered
  BY DEF JoinInv
<1>3. ASSUME NEW p \in Positions, NEW e \in Entries, Match(e, TupleAt(p)), Passed(p, e)'
      PROVE  pairs'[<<e, TupleAt(p)>>] > 0 \/ InMatches(p, e)'
  <2>1. e \in Slot(p) /\ EntryHash(e) = Hash(p)
    BY <1>2, <1>3, MatchFacts
  <2>2. Passed(p, e) \/ InMatches(p, e)'
    BY <1>3, <2>1
  <2> QED
    BY <1>2, <1>3, <2>2 DEF AllDelivered
<1> QED
  BY <1>1, <1>3 DEF AllDelivered


-----------------------------------------------------------------------------
(* Along a chain *)

\* What is in the chain of a tuple and has its hash is not before the head.
LEMMA ChainStart ==
  ASSUME InputTypes, VectorTypes, NEW p \in Positions
  PROVE  /\ ChainOf(p) \in Entries \cup {End}
         /\ ChainOf(p) # End => ChainOf(p) \in Slot(p)
         /\ \A x \in Slot(p) : x \in Entries
         /\ \A x \in Slot(p) : EntryHash(x) = Hash(p) => ChainOf(p) # End /\ ~(x < ChainOf(p))
<1>1. p \in Nat /\ base \in Nat /\ base + p + 1 <= NProbe
  BY PositionFacts
<1>2. \A x \in Slot(p) : x \in Entries
  BY DEF Slot, SlotEntries
<1>3. Entries \subseteq Nat
  BY ProbeConstants
<1>4. /\ ChainOf(p) \in Entries \cup {End}
      /\ ChainOf(p) = End => \A e \in Entries : EntryHash(e) # Hash(p)
      /\ ChainOf(p) # End => ChainOf(p) \in Slot(p) /\ \A e \in Slot(p) : ChainOf(p) <= e
  BY <1>1, ChainFacts
<1>5. ASSUME NEW x \in Slot(p), EntryHash(x) = Hash(p)
      PROVE  ChainOf(p) # End /\ ~(x < ChainOf(p))
  <2>1. ChainOf(p) # End
    BY <1>2, <1>4, <1>5
  <2>2. ChainOf(p) <= x /\ ChainOf(p) \in Nat /\ x \in Nat
    BY <1>2, <1>3, <1>4, <2>1
  <2> QED
    BY <2>1, <2>2
<1> QED
  BY <1>2, <1>4, <1>5

\* Between an entry and the next one there is none.
LEMMA ChainStep ==
  ASSUME InputTypes, NEW p, NEW e \in Slot(p)
  PROVE  /\ e \in Entries /\ next[e] \in Entries \cup {End}
         /\ next[e] # End => next[e] \in Slot(p) /\ e < next[e]
         /\ \A x \in Slot(p) : (next[e] # End => x < next[e]) => x = e \/ x < e
<1>1. Slot(p) = SlotEntries(EntryHash(e)) /\ e \in Entries
  BY SlotSame DEF Slot
<1>2. \A x \in Slot(p) : x \in Entries
  BY DEF Slot, SlotEntries
<1>3. Entries \subseteq Nat
  BY ProbeConstants
<1>4. /\ next[e] \in Entries \cup {End}
      /\ next[e] = End => \A f \in Slot(p) : f <= e
      /\ next[e] # End => /\ next[e] \in Slot(p) /\ next[e] > e
                          /\ \A f \in Slot(p) : f > e => f >= next[e]
  BY <1>1, NextFacts
<1>5. ASSUME NEW x \in Slot(p), next[e] # End => x < next[e]
      PROVE  x = e \/ x < e
  <2>1. x \in Nat /\ e \in Nat
    BY <1>1, <1>2, <1>3
  <2>2. CASE next[e] = End
    BY <1>4, <2>1, <2>2
  <2>3. CASE next[e] # End
    <3>1. next[e] \in Nat /\ x < next[e]
      BY <1>2, <1>3, <1>4, <1>5, <2>3
    <3>2. ~(x > e)
      BY <1>4, <2>1, <2>3, <3>1
    <3> QED
      BY <2>1, <3>2
  <2> QED
    BY <2>2, <2>3
<1>6. next[e] # End => next[e] \in Slot(p) /\ e < next[e]
  BY <1>1, <1>2, <1>3, <1>4
<1> QED
  BY <1>1, <1>4, <1>5, <1>6

-----------------------------------------------------------------------------
(* joinAll and joinSel *)

\* What their steps have in common.
LEMMA AllFrame ==
  ASSUME JoinInv, ~RingJoin, UNCHANGED <<joinInput, join, ringVars, base, numProbes, pairs>>
  PROVE  /\ InputTypes' /\ RingTypes' /\ RingInv' /\ PairsInv' /\ ~RingJoin' /\ PassedStays
         /\ InputTypes /\ VectorTypes /\ AllTypes /\ Space
         /\ matches \in Seq(Entries \X Nat) /\ Len(matches) \in Nat /\ batchSize \in Nat \ {0}
         /\ Positions' = Positions /\ probeSel' = probeSel
         /\ \A p : Slot(p)' = Slot(p) /\ Hash(p)' = Hash(p)
<1>1. InputTypes /\ VectorTypes /\ RingTypes /\ AllTypes /\ Space
  BY DEF JoinInv
<1>2. ~RingJoin' /\ PassedStays
  BY DEF RingJoin, PassedStays
<1>3. RingTypes'
  BY <1>1 DEF RingTypes, ringVars
<1>4. RingInv'
  BY <1>2 DEF RingInv
<1>5. PairsInv'
  BY <1>2, PairsStay
<1>6. InputTypes'
  BY <1>1, InputStays
<1>7. matches \in Seq(Entries \X Nat) /\ Len(matches) \in Nat
  BY LenProperties DEF JoinInv, MatchesInv
<1>8. Positions' = Positions /\ probeSel' = probeSel /\ \A p : Slot(p)' = Slot(p) /\ Hash(p)' = Hash(p)
  BY SameVector DEF joinInput
<1> QED
  BY <1>1, <1>2, <1>3, <1>4, <1>5, <1>6, <1>7, <1>8, ProbeConstants

\* In which place of the code they have looked at an entry.
LEMMA AllPassed ==
  ASSUME ~RingJoin, NEW p, NEW e
  PROVE  /\ stage = "probe" =>
              (Passed(p, e) <=> p < probing \/ (p = probing /\ (entry # End => e < entry)))
         /\ stage = "resume" =>
              (Passed(p, e) <=> \/ p < nextProbe
                                \/ p = nextProbe /\ IF entry # End THEN e < entry ELSE buildMatch # End)
         /\ stage \notin {"probe", "resume"} =>
              (Passed(p, e) <=> p < nextProbe \/ (p = nextProbe /\ buildMatch # End /\ e < buildMatch))
BY DEF Passed

LEMMA AllPassedNext ==
  ASSUME ~RingJoin', NEW p, NEW e
  PROVE  /\ stage' = "probe" =>
              (Passed(p, e)' <=> p < probing' \/ (p = probing' /\ (entry' # End => e < entry')))
         /\ stage' = "resume" =>
              (Passed(p, e)' <=>
                 \/ p < nextProbe'
                 \/ p = nextProbe' /\ IF entry' # End THEN e < entry' ELSE buildMatch' # End)
         /\ stage' \notin {"probe", "resume"} =>
              (Passed(p, e)' <=>
                 p < nextProbe' \/ (p = nextProbe' /\ buildMatch' # End /\ e < buildMatch'))
BY DEF Passed

LEMMA AllStartStep ==
  ASSUME JoinInv, ~RingJoin, AllStart, UNCHANGED <<join, ringVars>>
  PROVE  JoinInv'
<1>1. UNCHANGED <<joinInput, join, ringVars, base, numProbes, pairs, matches>>
  BY DEF AllStart
<1>2. /\ InputTypes' /\ RingTypes' /\ RingInv' /\ PairsInv' /\ ~RingJoin' /\ PassedStays
      /\ InputTypes /\ VectorTypes /\ AllTypes /\ Space
      /\ matches \in Seq(Entries \X Nat) /\ Len(matches) \in Nat /\ batchSize \in Nat \ {0}
      /\ Positions' = Positions /\ probeSel' = probeSel
      /\ \A p : Slot(p)' = Slot(p) /\ Hash(p)' = Hash(p)
  BY <1>1, AllFrame
<1>3. MatchesInv' /\ \A q \in Positions, x \in Entries : InMatches(q, x) => InMatches(q, x)'
  BY <1>1, <1>2, MatchesSame
<1>4. VectorTypes'
  BY <1>1, <1>2 DEF VectorTypes, AllStart
<1>5. AllTypes'
  BY <1>1, <1>2 DEF AllTypes, VectorTypes, AllStart
<1>6. Space'
  <2>1. Len(matches) = 0
    BY <1>2 DEF VectorTypes, AllStart
  <2> QED
    BY <1>1, <1>2, <2>1 DEF Space, AllStart
<1>7. \A q \in Positions, x \in Entries : Passed(q, x)' => Passed(q, x)
  <2> SUFFICES ASSUME NEW q \in Positions, NEW x \in Entries PROVE Passed(q, x)' => Passed(q, x)
    OBVIOUS
  <2>1. stage = "join" /\ stage' = "resume"
    BY DEF AllStart
  <2>2. Passed(q, x)' <=> \/ q < nextProbe'
                          \/ q = nextProbe' /\ IF entry' # End THEN x < entry' ELSE buildMatch' # End
    BY <1>2, <2>1, AllPassedNext
  <2>3. Passed(q, x) <=> q < nextProbe \/ (q = nextProbe /\ buildMatch # End /\ x < buildMatch)
    BY <2>1, AllPassed
  <2> QED
    BY <2>2, <2>3 DEF AllStart
<1>8. AllDelivered'
  BY <1>1, <1>3, <1>7, DeliveredStep
<1> QED
  BY <1>2, <1>3, <1>4, <1>5, <1>6, <1>8 DEF JoinInv

LEMMA AllResumeStep ==
  ASSUME JoinInv, ~RingJoin, AllResume, UNCHANGED <<join, ringVars>>
  PROVE  JoinInv'
<1>1. UNCHANGED <<joinInput, join, ringVars, base, numProbes, pairs>>
  BY DEF AllResume, ringVars
<1>2. /\ InputTypes' /\ RingTypes' /\ RingInv' /\ PairsInv' /\ ~RingJoin' /\ PassedStays
      /\ InputTypes /\ VectorTypes /\ AllTypes /\ Space
      /\ matches \in Seq(Entries \X Nat) /\ Len(matches) \in Nat /\ batchSize \in Nat \ {0}
      /\ Positions' = Positions /\ probeSel' = probeSel
      /\ \A p : Slot(p)' = Slot(p) /\ Hash(p)' = Hash(p)
  BY <1>1, AllFrame
<1>0. PICK p, e : p = nextProbe /\ e = entry
  OBVIOUS
<1>3. /\ stage = "resume" /\ e # End /\ entry' = next[e]
      /\ nextProbe' = nextProbe /\ probing' = probing /\ probeHash' = probeHash
      /\ matches' = IF EntryHash(e) = probeHash THEN Append(matches, <<e, probeSel[p]>>) ELSE matches
      /\ IF matches' # matches /\ Len(matches') = batchSize
         THEN buildMatch' = next[e] /\ stage' = "return"
         ELSE buildMatch' = buildMatch /\ stage' = stage
  BY <1>0 DEF AllResume
<1>4. /\ p \in Positions /\ p < numProbes /\ e \in Slot(p) /\ probeHash = Hash(p) /\ buildMatch # End
      /\ buildMatch \in Entries /\ probing \in Nat /\ probeHash \in Nat /\ p \in Nat
  BY <1>0, <1>2, <1>3 DEF VectorTypes, AllTypes, Positions
<1>5. /\ e \in Entries /\ next[e] \in Entries \cup {End}
      /\ next[e] # End => next[e] \in Slot(p) /\ e < next[e]
      /\ \A x \in Slot(p) : (next[e] # End => x < next[e]) => x = e \/ x < e
  BY <1>2, <1>4, ChainStep
<1>6. /\ MatchesInv' /\ \A q \in Positions, x \in Entries : InMatches(q, x) => InMatches(q, x)'
      /\ EntryHash(e) = Hash(p) => InMatches(p, e)' /\ Len(matches') = Len(matches) + 1
      /\ EntryHash(e) # Hash(p) => matches' = matches
  <2>1. CASE EntryHash(e) = Hash(p)
    <3>1. matches' = Append(matches, <<e, probeSel[p]>>)
      BY <1>3, <1>4, <2>1
    <3>2. /\ MatchesInv' /\ Len(matches') = Len(matches) + 1 /\ InMatches(p, e)'
          /\ \A q \in Positions, x \in Entries : InMatches(q, x) => InMatches(q, x)'
      BY <1>1, <1>2, <1>4, <1>5, <3>1, MatchesAppend
    <3> QED
      BY <2>1, <3>2
  <2>2. CASE EntryHash(e) # Hash(p)
    <3>1. matches' = matches
      BY <1>3, <1>4, <2>2
    <3> QED
      BY <1>1, <1>2, <2>2, <3>1, MatchesSame
  <2> QED
    BY <2>1, <2>2
<1>7. VectorTypes'
  BY <1>0, <1>1, <1>2, <1>3, <1>4 DEF VectorTypes
<1>8. AllTypes'
  BY <1>0, <1>1, <1>2, <1>3, <1>4, <1>5 DEF AllTypes
<1>9. Space'
  <2>1. Len(matches) < batchSize
    BY <1>2, <1>3 DEF Space
  <2>2. Len(matches') = Len(matches) \/ (Len(matches') = Len(matches) + 1 /\ matches' # matches)
    <3>1. CASE EntryHash(e) = Hash(p)
      <4>1. Len(matches') = Len(matches) + 1
        BY <1>6, <3>1
      <4>2. matches' # matches
        BY <1>2, <4>1
      <4> QED
        BY <4>1, <4>2
    <3>2. CASE EntryHash(e) # Hash(p)
      BY <1>6, <3>2
    <3> QED
      BY <3>1, <3>2
  <2> QED
    BY <1>2, <1>3, <2>1, <2>2 DEF Space
<1>10. \A q \in Positions, x \in Entries :
         x \in Slot(q) /\ EntryHash(x) = Hash(q) /\ Passed(q, x)' => Passed(q, x) \/ InMatches(q, x)'
  <2> SUFFICES ASSUME NEW q \in Positions, NEW x \in Entries,
                      x \in Slot(q), EntryHash(x) = Hash(q), Passed(q, x)'
               PROVE  Passed(q, x) \/ InMatches(q, x)'
    OBVIOUS
  <2>1. Passed(q, x) <=> q < p \/ (q = p /\ x < e)
    BY <1>0, <1>3, AllPassed
  <2>2. q < p \/ (q = p /\ (next[e] # End => x < next[e]))
    <3>1. CASE stage' = "return"
      <4>1. buildMatch' = next[e]
        BY <1>3, <3>1
      <4> QED
        BY <1>0, <1>2, <1>3, <3>1, <4>1, AllPassedNext
    <3>2. CASE stage' # "return"
      <4>1. stage' = "resume"
        BY <1>3, <3>2
      <4> QED
        BY <1>0, <1>2, <1>3, <4>1, AllPassedNext
    <3> QED
      BY <3>1, <3>2
  <2>3. CASE q = p
    <3>1. x = e \/ x < e
      BY <1>5, <2>2, <2>3, PositionFacts, <1>2
    <3> QED
      BY <1>6, <2>1, <2>3, <3>1
  <2> QED
    BY <2>1, <2>2, <2>3
<1>11. AllDelivered'
  BY <1>1, <1>6, <1>10, DeliveredStep
<1> QED
  BY <1>2, <1>6, <1>7, <1>8, <1>9, <1>11 DEF JoinInv

LEMMA AllResumedStep ==
  ASSUME JoinInv, ~RingJoin, AllResumed, UNCHANGED <<join, ringVars>>
  PROVE  JoinInv'
<1>1. UNCHANGED <<joinInput, join, ringVars, base, numProbes, pairs>>
  BY DEF AllResumed, ringVars
<1>2. /\ InputTypes' /\ RingTypes' /\ RingInv' /\ PairsInv' /\ ~RingJoin' /\ PassedStays
      /\ InputTypes /\ VectorTypes /\ AllTypes /\ Space
      /\ matches \in Seq(Entries \X Nat) /\ Len(matches) \in Nat /\ batchSize \in Nat \ {0}
      /\ Positions' = Positions /\ probeSel' = probeSel
      /\ \A p : Slot(p)' = Slot(p) /\ Hash(p)' = Hash(p)
  BY <1>1, AllFrame
<1>3. /\ stage = "resume" /\ stage' = "probe" /\ entry = End /\ matches' = matches
      /\ nextProbe' = IF buildMatch # End THEN nextProbe + 1 ELSE nextProbe
      /\ probing' = nextProbe'
      /\ entry' = IF probing' < numProbes THEN ChainOf(probing') ELSE End
      /\ probeHash' = probeHash /\ buildMatch' = buildMatch
  BY DEF AllResumed
<1>4. nextProbe \in Nat /\ nextProbe < numProbes /\ numProbes \in Nat
  BY <1>2, <1>3 DEF VectorTypes
<1>5. probing' \in Nat /\ probing' <= numProbes /\ (probing' < numProbes => probing' \in Positions)
  BY <1>3, <1>4 DEF Positions
<1>6. \A p \in Positions : /\ ChainOf(p) \in Entries \cup {End}
                           /\ ChainOf(p) # End => ChainOf(p) \in Slot(p)
                           /\ \A x \in Slot(p) : EntryHash(x) = Hash(p) => ChainOf(p) # End /\ ~(x < ChainOf(p))
  BY <1>2, ChainStart
<1>7. MatchesInv' /\ \A q \in Positions, x \in Entries : InMatches(q, x) => InMatches(q, x)'
  BY <1>1, <1>2, <1>3, MatchesSame
<1>8. VectorTypes'
  BY <1>1, <1>2, <1>3, <1>4, <1>5 DEF VectorTypes
<1>9. AllTypes'
  BY <1>1, <1>2, <1>3, <1>4, <1>5, <1>6 DEF AllTypes
<1>10. Space'
  BY <1>2, <1>3 DEF Space
<1>11. \A q \in Positions, x \in Entries :
         x \in Slot(q) /\ EntryHash(x) = Hash(q) /\ Passed(q, x)' => Passed(q, x)
  <2> SUFFICES ASSUME NEW q \in Positions, NEW x \in Entries,
                      x \in Slot(q), EntryHash(x) = Hash(q), Passed(q, x)'
               PROVE  Passed(q, x)
    OBVIOUS
  <2>1. Passed(q, x) <=> q < nextProbe \/ (q = nextProbe /\ buildMatch # End)
    BY <1>3, AllPassed
  <2>2. q < probing' \/ (q = probing' /\ (entry' # End => x < entry'))
    BY <1>2, <1>3, AllPassedNext
  <2>3. q \in Nat /\ q < numProbes
    BY <1>2, PositionFacts
  <2>4. q < probing'
    <3>1. CASE q = probing'
      <4>1. entry' = ChainOf(q)
        BY <1>3, <2>3, <3>1
      <4>2. ChainOf(q) # End /\ ~(x < ChainOf(q))
        BY <1>6
      <4> QED
        BY <2>2, <3>1, <4>1, <4>2
    <3> QED
      BY <2>2, <3>1
  <2> QED
    BY <1>3, <1>4, <2>1, <2>3, <2>4
<1>12. AllDelivered'
  BY <1>1, <1>7, <1>11, DeliveredStep
<1> QED
  BY <1>2, <1>7, <1>8, <1>9, <1>10, <1>12 DEF JoinInv

LEMMA AllProbeStep ==
  ASSUME JoinInv, ~RingJoin, AllProbe, UNCHANGED <<join, ringVars>>
  PROVE  JoinInv'
<1>1. UNCHANGED <<joinInput, join, ringVars, base, numProbes, pairs>>
  BY DEF AllProbe, ringVars
<1>2. /\ InputTypes' /\ RingTypes' /\ RingInv' /\ PairsInv' /\ ~RingJoin' /\ PassedStays
      /\ InputTypes /\ VectorTypes /\ AllTypes /\ Space
      /\ matches \in Seq(Entries \X Nat) /\ Len(matches) \in Nat /\ batchSize \in Nat \ {0}
      /\ Positions' = Positions /\ probeSel' = probeSel
      /\ \A p : Slot(p)' = Slot(p) /\ Hash(p)' = Hash(p)
  BY <1>1, AllFrame
<1>0. PICK p, e : p = probing /\ e = entry
  OBVIOUS
<1>3. /\ stage = "probe" /\ p < numProbes /\ e # End /\ entry' = next[e] /\ probing' = probing
      /\ matches' = IF EntryHash(e) = Hash(p) THEN Append(matches, <<e, probeSel[p]>>) ELSE matches
      /\ IF /\ matches' # matches /\ Len(matches') = batchSize
            /\ next[e] # End \/ p + 1 < numProbes
         THEN /\ buildMatch' = next[e] /\ probeHash' = Hash(p) /\ nextProbe' = p /\ stage' = "return"
         ELSE /\ buildMatch' = buildMatch /\ probeHash' = probeHash /\ nextProbe' = nextProbe
              /\ stage' = stage
  BY <1>0 DEF AllProbe
<1>4. /\ p \in Positions /\ p \in Nat /\ e \in Slot(p) /\ numProbes \in Nat /\ nextProbe \in Nat
      /\ buildMatch \in Entries \cup {End} /\ probeHash \in Nat
  BY <1>0, <1>2, <1>3 DEF VectorTypes, AllTypes, Positions
<1>5. /\ e \in Entries /\ next[e] \in Entries \cup {End}
      /\ next[e] # End => next[e] \in Slot(p) /\ e < next[e]
      /\ \A x \in Slot(p) : (next[e] # End => x < next[e]) => x = e \/ x < e
  BY <1>2, <1>4, ChainStep
<1>6. Hash(p) \in Nat
  <2>1. base \in Nat /\ base + p + 1 <= NProbe
    BY <1>2, <1>4, PositionFacts
  <2>2. Hash(p) \in 0 .. NHashes - 1 /\ NHashes \in Nat
    BY <1>2, <1>4, <2>1, HashTypes, ProbeConstants
  <2> QED
    BY <2>2
<1>7. /\ MatchesInv' /\ \A q \in Positions, x \in Entries : InMatches(q, x) => InMatches(q, x)'
      /\ EntryHash(e) = Hash(p) => InMatches(p, e)' /\ Len(matches') = Len(matches) + 1
      /\ EntryHash(e) # Hash(p) => matches' = matches
  <2>1. CASE EntryHash(e) = Hash(p)
    <3>1. matches' = Append(matches, <<e, probeSel[p]>>)
      BY <1>3, <2>1
    <3>2. /\ MatchesInv' /\ Len(matches') = Len(matches) + 1 /\ InMatches(p, e)'
          /\ \A q \in Positions, x \in Entries : InMatches(q, x) => InMatches(q, x)'
      BY <1>1, <1>2, <1>4, <1>5, <3>1, MatchesAppend
    <3> QED
      BY <2>1, <3>2
  <2>2. CASE EntryHash(e) # Hash(p)
    <3>1. matches' = matches
      BY <1>3, <2>2
    <3> QED
      BY <1>1, <1>2, <2>2, <3>1, MatchesSame
  <2> QED
    BY <2>1, <2>2
<1>8. VectorTypes'
  BY <1>1, <1>2, <1>3, <1>4 DEF VectorTypes
<1>9. AllTypes'
  BY <1>0, <1>1, <1>2, <1>3, <1>4, <1>5, <1>6 DEF AllTypes
<1>10. Space'
  <2>1. Len(matches) < batchSize
    BY <1>0, <1>2, <1>3 DEF Space
  <2>2. Len(matches') = Len(matches) \/ (Len(matches') = Len(matches) + 1 /\ matches' # matches)
    <3>1. CASE EntryHash(e) = Hash(p)
      <4>1. Len(matches') = Len(matches) + 1
        BY <1>7, <3>1
      <4>2. matches' # matches
        BY <1>2, <4>1
      <4> QED
        BY <4>1, <4>2
    <3>2. CASE EntryHash(e) # Hash(p)
      BY <1>7, <3>2
    <3> QED
      BY <3>1, <3>2
  <2>3. stage' = "probe" => Len(matches') < batchSize \/ (entry' = End /\ probing' + 1 >= numProbes')
    BY <1>0, <1>1, <1>2, <1>3, <1>4, <2>1, <2>2
  <2> QED
    BY <1>2, <1>3, <2>1, <2>2, <2>3 DEF Space
<1>11. \A q \in Positions, x \in Entries :
         x \in Slot(q) /\ EntryHash(x) = Hash(q) /\ Passed(q, x)' => Passed(q, x) \/ InMatches(q, x)'
  <2> SUFFICES ASSUME NEW q \in Positions, NEW x \in Entries,
                      x \in Slot(q), EntryHash(x) = Hash(q), Passed(q, x)'
               PROVE  Passed(q, x) \/ InMatches(q, x)'
    OBVIOUS
  <2>1. Passed(q, x) <=> q < p \/ (q = p /\ x < e)
    BY <1>0, <1>3, AllPassed
  <2>2. q < p \/ (q = p /\ (next[e] # End => x < next[e]))
    <3>1. CASE stage' = "return"
      <4>1. buildMatch' = next[e] /\ nextProbe' = p
        BY <1>3, <3>1
      <4> QED
        BY <1>2, <3>1, <4>1, AllPassedNext
    <3>2. CASE stage' # "return"
      <4>1. stage' = "probe"
        BY <1>3, <3>2
      <4> QED
        BY <1>0, <1>2, <1>3, <4>1, AllPassedNext
    <3> QED
      BY <3>1, <3>2
  <2>3. CASE q = p
    <3>1. x = e \/ x < e
      BY <1>5, <2>2, <2>3, PositionFacts, <1>2
    <3> QED
      BY <1>7, <2>1, <2>3, <3>1
  <2> QED
    BY <2>1, <2>2, <2>3
<1>12. AllDelivered'
  BY <1>1, <1>7, <1>11, DeliveredStep
<1> QED
  BY <1>2, <1>7, <1>8, <1>9, <1>10, <1>12 DEF JoinInv

LEMMA AllNextProbeStep ==
  ASSUME JoinInv, ~RingJoin, AllNextProbe, UNCHANGED <<join, ringVars>>
  PROVE  JoinInv'
<1>1. UNCHANGED <<joinInput, join, ringVars, base, numProbes, pairs>>
  BY DEF AllNextProbe, ringVars
<1>2. /\ InputTypes' /\ RingTypes' /\ RingInv' /\ PairsInv' /\ ~RingJoin' /\ PassedStays
      /\ InputTypes /\ VectorTypes /\ AllTypes /\ Space
      /\ matches \in Seq(Entries \X Nat) /\ Len(matches) \in Nat /\ batchSize \in Nat \ {0}
      /\ Positions' = Positions /\ probeSel' = probeSel
      /\ \A p : Slot(p)' = Slot(p) /\ Hash(p)' = Hash(p)
  BY <1>1, AllFrame
<1>3. /\ stage = "probe" /\ stage' = "probe" /\ probing < numProbes /\ entry = End
      /\ matches' = matches /\ probing' = probing + 1
      /\ entry' = IF probing' < numProbes THEN ChainOf(probing') ELSE End
      /\ nextProbe' = nextProbe /\ probeHash' = probeHash /\ buildMatch' = buildMatch
  BY DEF AllNextProbe
<1>4. nextProbe \in Nat /\ numProbes \in Nat /\ probing \in Nat
  BY <1>2, <1>3 DEF VectorTypes, AllTypes
<1>5. probing' \in Nat /\ probing' <= numProbes /\ (probing' < numProbes => probing' \in Positions)
  BY <1>3, <1>4 DEF Positions
<1>6. \A p \in Positions : /\ ChainOf(p) \in Entries \cup {End}
                           /\ ChainOf(p) # End => ChainOf(p) \in Slot(p)
                           /\ \A x \in Slot(p) : EntryHash(x) = Hash(p) => ChainOf(p) # End /\ ~(x < ChainOf(p))
  BY <1>2, ChainStart
<1>7. MatchesInv' /\ \A q \in Positions, x \in Entries : InMatches(q, x) => InMatches(q, x)'
  BY <1>1, <1>2, <1>3, MatchesSame
<1>8. VectorTypes'
  BY <1>1, <1>2, <1>3, <1>4, <1>5 DEF VectorTypes
<1>9. AllTypes'
  BY <1>1, <1>2, <1>3, <1>4, <1>5, <1>6 DEF AllTypes
<1>10. Space'
  BY <1>1, <1>2, <1>3, <1>4 DEF Space
<1>11. \A q \in Positions, x \in Entries :
         x \in Slot(q) /\ EntryHash(x) = Hash(q) /\ Passed(q, x)' => Passed(q, x)
  <2> SUFFICES ASSUME NEW q \in Positions, NEW x \in Entries,
                      x \in Slot(q), EntryHash(x) = Hash(q), Passed(q, x)'
               PROVE  Passed(q, x)
    OBVIOUS
  <2>1. Passed(q, x) <=> q < probing \/ q = probing
    BY <1>3, AllPassed
  <2>2. q < probing' \/ (q = probing' /\ (entry' # End => x < entry'))
    BY <1>2, <1>3, AllPassedNext
  <2>3. q \in Nat /\ q < numProbes
    BY <1>2, PositionFacts
  <2>4. q < probing'
    <3>1. CASE q = probing'
      <4>1. entry' = ChainOf(q)
        BY <1>3, <2>3, <3>1
      <4>2. ChainOf(q) # End /\ ~(x < ChainOf(q))
        BY <1>6
      <4> QED
        BY <2>2, <3>1, <4>1, <4>2
    <3> QED
      BY <2>2, <3>1
  <2> QED
    BY <1>3, <1>4, <2>1, <2>3, <2>4
<1>12. AllDelivered'
  BY <1>1, <1>7, <1>11, DeliveredStep
<1> QED
  BY <1>2, <1>7, <1>8, <1>9, <1>10, <1>12 DEF JoinInv

LEMMA AllDoneStep ==
  ASSUME JoinInv, ~RingJoin, AllDone, UNCHANGED <<join, ringVars>>
  PROVE  JoinInv'
<1>1. UNCHANGED <<joinInput, join, ringVars, base, numProbes, pairs>>
  BY DEF AllDone, ringVars
<1>2. /\ InputTypes' /\ RingTypes' /\ RingInv' /\ PairsInv' /\ ~RingJoin' /\ PassedStays
      /\ InputTypes /\ VectorTypes /\ AllTypes /\ Space
      /\ matches \in Seq(Entries \X Nat) /\ Len(matches) \in Nat /\ batchSize \in Nat \ {0}
      /\ Positions' = Positions /\ probeSel' = probeSel
      /\ \A p : Slot(p)' = Slot(p) /\ Hash(p)' = Hash(p)
  BY <1>1, AllFrame
<1>3. /\ stage = "probe" /\ stage' = "return" /\ probing >= numProbes /\ matches' = matches
      /\ buildMatch' = End /\ nextProbe' = numProbes
      /\ entry' = entry /\ probing' = probing /\ probeHash' = probeHash
  BY DEF AllDone
<1>4. numProbes \in Nat /\ probing \in Nat
  BY <1>2, <1>3 DEF VectorTypes, AllTypes
<1>5. MatchesInv' /\ \A q \in Positions, x \in Entries : InMatches(q, x) => InMatches(q, x)'
  BY <1>1, <1>2, <1>3, MatchesSame
<1>6. VectorTypes'
  BY <1>1, <1>2, <1>3, <1>4 DEF VectorTypes
<1>7. AllTypes'
  BY <1>1, <1>2, <1>3, <1>4 DEF AllTypes
<1>8. Space'
  BY <1>1, <1>2, <1>3, <1>4 DEF Space
<1>9. \A q \in Positions, x \in Entries : Passed(q, x)
  <2> SUFFICES ASSUME NEW q \in Positions, NEW x \in Entries PROVE Passed(q, x)
    OBVIOUS
  <2>1. q \in Nat /\ q < numProbes
    BY <1>2, PositionFacts
  <2> QED
    BY <1>3, <1>4, <2>1, AllPassed
<1>10. AllDelivered'
  BY <1>1, <1>5, <1>9, DeliveredStep
<1> QED
  BY <1>2, <1>5, <1>6, <1>7, <1>8, <1>10 DEF JoinInv

LEMMA AllSteps ==
  ASSUME JoinInv, ~RingJoin, AllStep, UNCHANGED <<join, ringVars>>
  PROVE  JoinInv'
BY AllStartStep, AllResumeStep, AllResumedStep, AllProbeStep, AllNextProbeStep, AllDoneStep DEF AllStep


-----------------------------------------------------------------------------
(* The joins with a ring *)

\* What their steps have in common.
LEMMA RingFrame ==
  ASSUME JoinInv, RingJoin, UNCHANGED <<joinInput, join, allVars, base, numProbes, pairs>>
  PROVE  /\ InputTypes' /\ AllTypes' /\ RingJoin' /\ (PassedStays => PairsInv')
         /\ InputTypes /\ VectorTypes /\ RingTypes /\ RingInv /\ LiveInv /\ Space
         /\ matches \in Seq(Entries \X Nat) /\ Len(matches) \in Nat
         /\ batchSize \in Nat \ {0} /\ followupBufferSize = batchSize + 1
         /\ Positions' = Positions /\ probeSel' = probeSel
         /\ DOMAIN ring = 0 .. batchSize
<1>1. InputTypes /\ VectorTypes /\ RingTypes /\ RingInv /\ AllTypes /\ Space /\ LiveInv
  BY DEF JoinInv, RingInv
<1>2. RingJoin'
  BY DEF RingJoin
<1>3. AllTypes'
  BY <1>1, <1>2 DEF AllTypes, allVars
<1>4. PassedStays => PairsInv'
  BY PairsStay
<1>5. InputTypes'
  BY <1>1, InputStays
<1>6. matches \in Seq(Entries \X Nat) /\ Len(matches) \in Nat
  BY LenProperties DEF JoinInv, MatchesInv
<1>7. Positions' = Positions /\ probeSel' = probeSel
  BY SameVector DEF joinInput
<1>8. batchSize \in Nat \ {0} /\ followupBufferSize = batchSize + 1
  BY ProbeConstants
<1>9. DOMAIN ring = 0 .. batchSize
  <2>1. DOMAIN ring = 0 .. followupBufferSize - 1
    BY <1>1 DEF RingTypes
  <2>2. followupBufferSize - 1 = batchSize
    BY <1>8
  <2> QED
    BY <2>1, <2>2
<1> QED
  BY <1>1, <1>2, <1>3, <1>4, <1>5, <1>6, <1>7, <1>8, <1>9

\* What the ring says of an entry.
LEMMA RingPassed ==
  ASSUME RingJoin, NEW p, NEW e
  PROVE  Passed(p, e) <=> Begun /\ \A j \in Live : ring[j][1] = p => e < ring[j][2]
BY DEF Passed

LEMMA RingPassedNext ==
  ASSUME RingJoin', NEW p, NEW e
  PROVE  Passed(p, e)' <=> Begun' /\ \A j \in Live' : ring'[j][1] = p => e < ring'[j][2]
BY DEF Passed

\* Steps that leave the ring as it is.
LEMMA RingSame ==
  ASSUME JoinInv, RingJoin, UNCHANGED <<joinInput, join, allVars, base, numProbes, pairs, ring>>,
         ringFrom' = ringFrom, ringTo' = ringTo, Begun' <=> Begun
  PROVE  LiveInv' /\ PassedStays /\ \A p, e : Passed(p, e)' <=> Passed(p, e)
<1>1. RingJoin' /\ LiveInv /\ Positions' = Positions /\ \A p : Slot(p)' = Slot(p)
  BY RingFrame, SameVector
<1>2. Live' = Live
  BY DEF Live
<1>3. \A p, e : Passed(p, e)' <=> Passed(p, e)
  BY <1>1, <1>2, RingPassed, RingPassedNext
<1>4. LiveInv'
  BY <1>1, <1>2 DEF LiveInv
<1> QED
  BY <1>3, <1>4 DEF PassedStays

\* A ring that is filled anew, with the entries h of the tuples in S.
LEMMA RingFresh ==
  ASSUME JoinInv, RingJoin, UNCHANGED <<joinInput, join, allVars, base, numProbes, pairs>>,
         stage' = "round", followup' = 0, NEW S \in SUBSET Positions, NEW h,
         \A p \in S : h[p] \in Slot(p), followupWrite' = Len(Ordered(S)),
         DOMAIN ring' = 0 .. batchSize,
         \A j \in 0 .. batchSize : j < Len(Ordered(S)) =>
           ring'[j] = <<Ordered(S)[j + 1], h[Ordered(S)[j + 1]]>>
  PROVE  /\ LiveInv' /\ \A p, e : Passed(p, e)' <=> (p \in S => e < h[p])
         /\ Len(Ordered(S)) \in 0 .. batchSize
<1> DEFINE o == Ordered(S)
           l == Len(o)
<1>1. /\ RingJoin' /\ VectorTypes /\ batchSize \in Nat \ {0} /\ Positions' = Positions
      /\ \A p : Slot(p)' = Slot(p)
  BY RingFrame, SameVector
<1>2. numProbes \in Nat /\ numProbes <= batchSize
  BY <1>1 DEF VectorTypes
<1>3. /\ l \in 0 .. numProbes
      /\ \A j \in 1 .. l : o[j] \in S
      /\ \A j, k \in 1 .. l : o[j] = o[k] => j = k
      /\ \A p \in S : \E j \in 1 .. l : o[j] = p
  <2>1. /\ Len(Ordered(S)) \in 0 .. numProbes
        /\ \A j \in 1 .. Len(Ordered(S)) : Ordered(S)[j] \in S /\ Ordered(S)[j] \in Nat
        /\ \A j, k \in 1 .. Len(Ordered(S)) : Ordered(S)[j] = Ordered(S)[k] => j = k
        /\ \A p \in S : \E j \in 1 .. Len(Ordered(S)) : Ordered(S)[j] = p
    BY <1>2, OrderedFacts
  <2> QED
    BY <2>1
<1> HIDE DEF l, o
<1>4. l \in 0 .. batchSize /\ l \in Nat
  BY <1>1, <1>2, <1>3
<1>5. \A j : j \in Live' <=> j \in 0 .. batchSize /\ j < l
  <2>1. ringFrom' = 0 /\ ringTo' = l
    BY DEF ringFrom, ringTo, l, o
  <2>2. \A j \in 0 .. batchSize : InRing(j, 0, l) <=> j < l
    BY <1>4 DEF InRing
  <2> QED
    BY <2>1, <2>2 DEF Live
<1>6. \A j \in Live' : j + 1 \in 1 .. l /\ ring'[j] = <<o[j + 1], h[o[j + 1]]>>
  <2>1. \A j \in 0 .. batchSize : j < l => ring'[j] = <<o[j + 1], h[o[j + 1]]>>
    BY DEF o, l
  <2> SUFFICES ASSUME NEW j \in Live'
               PROVE  j + 1 \in 1 .. l /\ ring'[j] = <<o[j + 1], h[o[j + 1]]>>
    OBVIOUS
  <2>2. j \in 0 .. batchSize /\ j < l
    BY <1>5
  <2>3. j + 1 \in 1 .. l
    BY <1>1, <1>4, <2>2
  <2> QED
    BY <2>1, <2>2, <2>3
<1>7. \A j \in 1 .. l : j - 1 \in Live' /\ (j - 1) + 1 = j
  BY <1>1, <1>4, <1>5
<1>8. Begun'
  BY DEF Begun
<1>9. ASSUME NEW p, NEW e PROVE Passed(p, e)' <=> (p \in S => e < h[p])
  <2>1. ASSUME Passed(p, e)', p \in S PROVE e < h[p]
    <3>1. PICK j \in 1 .. l : o[j] = p
      BY <1>3, <2>1
    <3>2. ring'[j - 1] = <<p, h[p]>> /\ j - 1 \in Live'
      BY <1>6, <1>7, <3>1
    <3>3. ring'[j - 1][1] = p /\ ring'[j - 1][2] = h[p]
      BY <3>2
    <3> QED
      BY <1>1, <2>1, <3>2, <3>3, RingPassedNext
  <2>2. ASSUME p \in S => e < h[p] PROVE Passed(p, e)'
    <3>1. ASSUME NEW j \in Live', ring'[j][1] = p PROVE e < ring'[j][2]
      <4>1. o[j + 1] = p /\ ring'[j][2] = h[p] /\ p \in S
        BY <1>3, <1>6, <3>1
      <4> QED
        BY <2>2, <4>1
    <3> QED
      BY <1>1, <1>8, <3>1, RingPassedNext
  <2> QED
    BY <2>1, <2>2
<1>10. \A j \in Live' : ring'[j][1] \in Positions /\ ring'[j][2] \in Slot(ring'[j][1])
  <2> SUFFICES ASSUME NEW j \in Live'
               PROVE  ring'[j][1] \in Positions /\ ring'[j][2] \in Slot(ring'[j][1])
    OBVIOUS
  <2>1. o[j + 1] \in S
    BY <1>3, <1>6
  <2> QED
    BY <1>6, <2>1
<1>11. \A j, k \in Live' : ring'[j][1] = ring'[k][1] => j = k
  <2> SUFFICES ASSUME NEW j \in Live', NEW k \in Live', ring'[j][1] = ring'[k][1] PROVE j = k
    OBVIOUS
  <2>1. o[j + 1] = o[k + 1]
    BY <1>6
  <2>2. j + 1 = k + 1 /\ j \in Nat /\ k \in Nat
    BY <1>3, <1>5, <1>6, <2>1
  <2> QED
    BY <2>2
<1>12. LiveInv'
  <2>1. \A j \in Live' : Slot(ring[j][1])' = Slot(ring'[j][1])
    BY <1>1
  <2> QED
    BY <1>1, <1>10, <1>11, <2>1 DEF LiveInv
<1> QED
  BY <1>4, <1>9, <1>12 DEF l, o

-----------------------------------------------------------------------------
(* The steps of the joins with a ring *)

\* What is left to see of a step that looks at some entries.
LEMMA RingDone ==
  ASSUME JoinInv, RingJoin, UNCHANGED <<joinInput, join, allVars, base, numProbes, pairs>>,
         VectorTypes', RingTypes', RingInv', Space', PassedStays, MatchesInv',
         \A q \in Positions, x \in Entries : InMatches(q, x) => InMatches(q, x)',
         \A q \in Positions, x \in Entries :
           x \in Slot(q) /\ EntryHash(x) = Hash(q) /\ Passed(q, x)'
             => Passed(q, x) \/ InMatches(q, x)'
  PROVE  JoinInv'
<1>1. InputTypes' /\ AllTypes' /\ PairsInv'
  BY RingFrame
<1>2. AllDelivered'
  BY DeliveredStep
<1> QED
  BY <1>1, <1>2 DEF JoinInv

\* And of one that looks at none.
LEMMA RingQuiet ==
  ASSUME JoinInv, RingJoin, UNCHANGED <<joinInput, join, allVars, base, numProbes, pairs>>,
         UNCHANGED <<ring, matches>>,
         ringFrom' = ringFrom, ringTo' = ringTo, Begun' <=> Begun,
         VectorTypes', RingTypes', RingInv', Space'
  PROVE  JoinInv'
<1>1. PassedStays /\ \A p, e : Passed(p, e)' <=> Passed(p, e)
  BY RingSame
<1>2. MatchesInv' /\ \A q \in Positions, x \in Entries : InMatches(q, x) => InMatches(q, x)'
  BY <1>1, MatchesSame
<1> QED
  BY <1>1, <1>2, RingDone

\* The first entries of the chains.
LEMMA FirstPassStep ==
  ASSUME JoinInv, join \in {"joinAllParallel", "joinSelParallel"}, FirstPass, UNCHANGED allVars
  PROVE  JoinInv'
<1>1. RingJoin /\ UNCHANGED <<joinInput, join, allVars, base, numProbes, pairs>>
  BY DEF RingJoin, FirstPass
<1>2. /\ InputTypes' /\ AllTypes' /\ RingJoin' /\ (PassedStays => PairsInv')
      /\ InputTypes /\ VectorTypes /\ RingTypes /\ RingInv /\ LiveInv /\ Space
      /\ matches \in Seq(Entries \X Nat) /\ Len(matches) \in Nat
      /\ batchSize \in Nat \ {0} /\ followupBufferSize = batchSize + 1
      /\ Positions' = Positions /\ probeSel' = probeSel
      /\ DOMAIN ring = 0 .. batchSize
  BY <1>1, RingFrame
<1>3. PICK S, h, T, head :
        /\ S = {p \in Positions : ChainOf(p) # End /\ next[ChainOf(p)] # End}
        /\ h = [p \in Positions |-> next[ChainOf(p)]]
        /\ head = [p \in Positions |-> ChainOf(p)]
        /\ T = {p \in Positions : ChainOf(p) # End /\ EntryHash(ChainOf(p)) = Hash(p)}
  OBVIOUS
<1>4. PICK rest, hits : rest = Ordered(S) /\ hits = Ordered(T)
  OBVIOUS
<1>5. /\ stage = "join" /\ stage' = "round" /\ nextProbe' = nextProbe /\ contCon' = contCon
      /\ todo' = todo /\ more' = more /\ followup' = contCon.followup
      /\ IF contCon.followup = contCon.followupWrite
         THEN /\ matches' = [j \in 1 .. Len(hits) |-> <<ChainOf(hits[j]), probeSel[hits[j]]>>]
              /\ ring' = AddFollowups(contCon.followupWrite, rest)
              /\ followupWrite' = (contCon.followupWrite + Len(rest)) % followupBufferSize
         ELSE followupWrite' = contCon.followupWrite /\ matches' = matches /\ ring' = ring
  BY <1>3, <1>4 DEF FirstPass
<1>6. /\ nextProbe = 0 /\ numProbes \in Nat /\ 0 < numProbes /\ numProbes <= batchSize
      /\ matches = <<>> /\ join' = join /\ numProbes' = numProbes /\ base' = base
  BY <1>1, <1>2, <1>5 DEF VectorTypes
<1>7. VectorTypes'
  BY <1>1, <1>2, <1>5, <1>6 DEF VectorTypes
<1>8. /\ ringFrom = contCon.followup /\ ringTo = contCon.followupWrite
      /\ ringFrom' = followup' /\ ringTo' = followupWrite' /\ Begun'
      /\ contCon.followup \in 0 .. batchSize /\ contCon.followupWrite \in 0 .. batchSize
  BY <1>2, <1>5 DEF ringFrom, ringTo, Begun, RingTypes
<1>9. CASE contCon.followup # contCon.followupWrite
  <2>1. /\ followupWrite' = contCon.followupWrite /\ matches' = matches /\ ring' = ring
        /\ Begun /\ ringFrom' = ringFrom /\ ringTo' = ringTo
    BY <1>5, <1>8, <1>9 DEF Begun
  <2>2. RingTypes'
    BY <1>2, <1>5, <1>8, <2>1 DEF RingTypes
  <2>3. LiveInv'
    BY <1>1, <1>8, <2>1, RingSame
  <2>4. RingInv'
    BY <1>1, <1>5, <1>6, <2>3 DEF RingInv
  <2>5. Space'
    BY <1>1, <1>2, <1>5, <2>1 DEF Space
  <2> QED
    BY <1>1, <1>7, <1>8, <2>1, <2>2, <2>4, <2>5, RingQuiet
<1>10. CASE contCon.followup = contCon.followupWrite
  <2>1. contCon.followup = 0 /\ contCon.followupWrite = 0 /\ ~Begun
    BY <1>1, <1>2, <1>5, <1>6, <1>8, <1>10 DEF RingInv, Begun
  <2>2. \A p \in Positions :
          /\ ChainOf(p) \in Entries \cup {End}
          /\ ChainOf(p) # End => ChainOf(p) \in Slot(p)
          /\ \A x \in Slot(p) : EntryHash(x) = Hash(p) => ChainOf(p) # End /\ ~(x < ChainOf(p))
    BY <1>2, ChainStart
  <2>3. \A p \in Positions : ChainOf(p) # End =>
          LET e == ChainOf(p)
          IN  /\ e \in Entries /\ next[e] \in Entries \cup {End}
              /\ next[e] # End => next[e] \in Slot(p) /\ e < next[e]
              /\ \A x \in Slot(p) : (next[e] # End => x < next[e]) => x = e \/ x < e
    BY <1>2, <2>2, ChainStep
  <2>4. \A p \in S : p \in Positions /\ h[p] \in Slot(p) /\ h[p] = next[ChainOf(p)] /\ h[p] \in Entries
    BY <1>3, <2>3
  <2>5. /\ S \in SUBSET Positions /\ T \in SUBSET Positions
        /\ \A p \in T : ChainOf(p) # End /\ ChainOf(p) \in Entries
    BY <1>3, <2>2, <2>4, ProbeConstants
  <2>6. /\ Len(rest) \in 0 .. numProbes
        /\ \A j \in 1 .. Len(rest) : rest[j] \in S /\ rest[j] \in Nat
    BY <1>4, <1>6, <2>5, OrderedFacts
  <2>7. /\ Len(hits) \in 0 .. numProbes
        /\ \A j \in 1 .. Len(hits) : hits[j] \in T /\ hits[j] \in Nat
        /\ \A j, k \in 1 .. Len(hits) : hits[j] = hits[k] => j = k
        /\ \A p \in T : \E j \in 1 .. Len(hits) : hits[j] = p
    BY <1>4, <1>6, <2>5, OrderedFacts
  <2>8. followup' = 0 /\ followupWrite' = Len(rest)
    <3>1. 0 + Len(rest) = Len(rest) /\ Len(rest) \in 0 .. followupBufferSize - 1
      BY <1>2, <1>6, <2>6
    <3>2. Len(rest) % followupBufferSize = Len(rest)
      <4>1. followupBufferSize \in Nat \ {0}
        BY <1>2
      <4> QED
        BY <3>1, <4>1, ModSmall
    <3> QED
      BY <1>5, <1>10, <2>1, <3>1, <3>2
  <2>9. /\ DOMAIN ring' = 0 .. batchSize
        /\ \A j \in 0 .. batchSize : ring'[j] =
             IF j < Len(rest) THEN <<rest[j + 1], next[ChainOf(rest[j + 1])]>> ELSE ring[j]
    <3>1. ring' = [j \in 0 .. batchSize |->
                     IF 0 <= j /\ j < 0 + Len(rest)
                     THEN <<rest[j - 0 + 1], next[ChainOf(rest[j - 0 + 1])]>> ELSE ring[j]]
      BY <1>2, <1>5, <1>10, <2>1 DEF AddFollowups
    <3>2. \A j \in 0 .. batchSize : /\ 0 <= j /\ j - 0 = j
                                    /\ j < 0 + Len(rest) <=> j < Len(rest)
      BY <1>2, <2>6
    <3> QED
      BY <3>1, <3>2
  <2>10. \A j \in 0 .. batchSize : j < Len(rest) =>
           j + 1 \in 1 .. Len(rest) /\ rest[j + 1] \in S /\ ring'[j] = <<rest[j + 1], h[rest[j + 1]]>>
    <3> SUFFICES ASSUME NEW j \in 0 .. batchSize, j < Len(rest)
                 PROVE  j + 1 \in 1 .. Len(rest) /\ rest[j + 1] \in S
                        /\ ring'[j] = <<rest[j + 1], h[rest[j + 1]]>>
      OBVIOUS
    <3>1. j + 1 \in 1 .. Len(rest)
      BY <1>2, <2>6
    <3> QED
      BY <2>4, <2>6, <2>9, <3>1
  <2>11. /\ LiveInv' /\ \A p, e : Passed(p, e)' <=> (p \in S => e < h[p])
         /\ Len(rest) \in 0 .. batchSize
    BY <1>1, <1>4, <1>5, <2>4, <2>5, <2>8, <2>9, <2>10, RingFresh
  <2>12. RingTypes'
    <3>1. \A j \in 0 .. batchSize : ring'[j] \in Nat \X (Entries \cup {End})
      <4> SUFFICES ASSUME NEW j \in 0 .. batchSize PROVE ring'[j] \in Nat \X (Entries \cup {End})
        OBVIOUS
      <4>1. CASE j < Len(rest)
        <5>1. rest[j + 1] \in S /\ ring'[j] = <<rest[j + 1], h[rest[j + 1]]>>
          BY <2>10, <4>1
        <5>2. rest[j + 1] \in Nat
          <6>1. j + 1 \in 1 .. Len(rest)
            BY <2>10, <4>1
          <6> QED
            BY <2>6, <6>1
        <5> QED
          BY <2>4, <5>1, <5>2
      <4>2. CASE ~(j < Len(rest))
        <5>1. followupBufferSize - 1 = batchSize
          BY <1>2
        <5>2. ring[j] \in Nat \X (Entries \cup {End})
          BY <1>2, <5>1 DEF RingTypes
        <5> QED
          BY <2>9, <4>2, <5>2
      <4> QED
        BY <4>1, <4>2
    <3>2. ring' \in [0 .. followupBufferSize - 1 -> Nat \X (Entries \cup {End})]
      <4>1. 0 .. followupBufferSize - 1 = 0 .. batchSize
        BY <1>2
      <4>2. ring' = [j \in 0 .. batchSize |-> ring'[j]]
        BY <1>5, <1>2, <1>10 DEF AddFollowups
      <4> QED
        BY <3>1, <4>1, <4>2
    <3> QED
      BY <1>2, <1>5, <2>1, <2>8, <2>11, <3>2 DEF RingTypes
  <2>13. RingInv'
    BY <1>1, <1>5, <1>6, <2>11 DEF RingInv
  <2>14. \A p \in Positions, e \in Entries : ~Passed(p, e)
    BY <1>1, <2>1, RingPassed
  <2>15. PassedStays
    BY <2>14 DEF PassedStays
  <2>16. PICK s : s = [j \in 1 .. Len(hits) |-> <<ChainOf(hits[j]), probeSel[hits[j]]>>]
    OBVIOUS
  <2>17. \A j \in 1 .. Len(hits) :
           /\ hits[j] \in Positions /\ head[hits[j]] \in Entries /\ probeSel[hits[j]] \in Nat
           /\ s[j] = <<head[hits[j]], probeSel[hits[j]]>>
           /\ Passed(hits[j], head[hits[j]])'
    <3> SUFFICES ASSUME NEW j \in 1 .. Len(hits)
                 PROVE  /\ hits[j] \in Positions /\ head[hits[j]] \in Entries
                        /\ probeSel[hits[j]] \in Nat
                        /\ s[j] = <<head[hits[j]], probeSel[hits[j]]>>
                        /\ Passed(hits[j], head[hits[j]])'
      OBVIOUS
    <3>1. PICK p \in T : p = hits[j]
      BY <2>7
    <3>2. p \in Positions /\ ChainOf(p) # End /\ ChainOf(p) \in Entries /\ probeSel[p] \in Nat
      BY <1>2, <2>5, PositionFacts
    <3>3. head[p] = ChainOf(p) /\ (p \in S => head[p] < h[p])
      BY <1>3, <2>3, <2>4, <3>2
    <3>4. Passed(p, head[p])'
      BY <2>11, <3>3
    <3>5. s[j] = <<head[p], probeSel[p]>>
      BY <2>16, <3>1, <3>3
    <3> QED
      BY <3>1, <3>2, <3>3, <3>4, <3>5
  <2>18. s \in Seq(Entries \X Nat) /\ Len(s) = Len(hits)
    <3>1. s \in [1 .. Len(hits) -> Entries \X Nat]
      BY <2>16, <2>17
    <3>2. Len(hits) \in Nat
      BY <1>6, <2>7
    <3>3. s \in Seq(Entries \X Nat)
      BY <3>1, <3>2, SeqDef
    <3> QED
      BY <2>16, <3>2, <3>3, SequenceMade
  <2>19. matches' = matches \o s
    <3>1. matches' = s
      BY <1>5, <1>10, <2>16
    <3> QED
      BY <1>6, <2>18, <3>1, ConcatEmptySeq
  <2>20. \A j \in 1 .. Len(s) : \E p \in Positions, e \in Entries :
           s[j] = <<e, probeSel[p]>> /\ (RingJoin => ~Passed(p, e) /\ Passed(p, e)')
    <3> SUFFICES ASSUME NEW j \in 1 .. Len(s)
                 PROVE  \E p \in Positions, e \in Entries :
                          s[j] = <<e, probeSel[p]>> /\ (RingJoin => ~Passed(p, e) /\ Passed(p, e)')
      OBVIOUS
    <3>1. PICK p \in Positions, e \in Entries :
            s[j] = <<e, probeSel[p]>> /\ Passed(p, e)' /\ p = hits[j]
      BY <2>17, <2>18
    <3> QED
      BY <2>14, <3>1
  <2>21. RingJoin => \A j, k \in 1 .. Len(s) : s[j] = s[k] => j = k
    <3> SUFFICES ASSUME NEW j \in 1 .. Len(s), NEW k \in 1 .. Len(s), s[j] = s[k] PROVE j = k
      OBVIOUS
    <3>1. probeSel[hits[j]] = probeSel[hits[k]] /\ hits[j] \in Positions /\ hits[k] \in Positions
      BY <2>17, <2>18
    <3>2. hits[j] = hits[k]
      BY <1>2, <3>1, PositionFacts
    <3> QED
      BY <2>7, <2>18, <3>2
  <2>22. /\ MatchesInv' /\ Len(matches') = Len(matches) + Len(s)
         /\ \A q \in Positions, x \in Entries :
              InMatches(q, x) \/ (\E j \in 1 .. Len(s) : s[j] = <<x, probeSel[q]>>) => InMatches(q, x)'
    BY <1>1, <2>15, <2>18, <2>19, <2>20, <2>21, MatchesGrow
  <2>23. Space'
    <3>1. Len(matches') <= batchSize
      BY <1>2, <1>6, <2>7, <2>18, <2>22
    <3> QED
      BY <1>1, <1>5, <3>1 DEF Space
  <2>24. \A q \in Positions, x \in Entries :
           x \in Slot(q) /\ EntryHash(x) = Hash(q) /\ Passed(q, x)' => InMatches(q, x)'
    <3> SUFFICES ASSUME NEW q \in Positions, NEW x \in Entries,
                        x \in Slot(q), EntryHash(x) = Hash(q), Passed(q, x)'
                 PROVE  InMatches(q, x)'
      OBVIOUS
    <3>1. ChainOf(q) # End /\ ~(x < ChainOf(q))
      BY <2>2
    <3>2. q \in S => x < h[q]
      BY <2>11
    <3>3. next[ChainOf(q)] # End => x < next[ChainOf(q)]
      BY <1>3, <2>4, <3>1, <3>2
    <3>4. x = ChainOf(q)
      BY <2>3, <3>1, <3>3
    <3>5. q \in T
      BY <1>3, <3>1, <3>4
    <3>6. PICK j \in 1 .. Len(hits) : hits[j] = q
      BY <2>7, <3>5
    <3>7. head[q] = x
      BY <1>3, <3>4
    <3>8. s[j] = <<x, probeSel[q]>> /\ j \in 1 .. Len(s)
      BY <2>17, <2>18, <3>6, <3>7
    <3> QED
      BY <2>22, <3>8
  <2> QED
    BY <1>1, <1>7, <2>12, <2>13, <2>15, <2>22, <2>23, <2>24, RingDone
<1> QED
  BY <1>9, <1>10

\* What is known when a round or a followup begins.
LEMMA RoundFacts ==
  ASSUME JoinInv, RingJoin, stage \in {"round", "followup"},
         UNCHANGED <<joinInput, join, allVars, base, numProbes, pairs>>
  PROVE  /\ InputTypes /\ VectorTypes /\ RingTypes /\ RingInv /\ LiveInv /\ Space
         /\ matches \in Seq(Entries \X Nat) /\ Len(matches) \in Nat
         /\ batchSize \in Nat \ {0} /\ followupBufferSize = batchSize + 1
         /\ Positions' = Positions /\ DOMAIN ring = 0 .. batchSize
         /\ join' = join /\ numProbes' = numProbes /\ base' = base
         /\ followup \in 0 .. batchSize /\ followupWrite \in 0 .. batchSize
         /\ ringFrom = followup /\ ringTo = followupWrite /\ Begun
         /\ nextProbe = 0 /\ numProbes \in Nat /\ 0 < numProbes
<1>1. /\ InputTypes /\ VectorTypes /\ RingTypes /\ RingInv /\ LiveInv /\ Space
      /\ matches \in Seq(Entries \X Nat) /\ Len(matches) \in Nat
      /\ batchSize \in Nat \ {0} /\ followupBufferSize = batchSize + 1
      /\ Positions' = Positions /\ DOMAIN ring = 0 .. batchSize
  BY RingFrame
<1>2. followup \in 0 .. batchSize /\ followupWrite \in 0 .. batchSize
  BY <1>1 DEF RingTypes
<1>3. ringFrom = followup /\ ringTo = followupWrite /\ Begun
  BY DEF ringFrom, ringTo, Begun
<1>4. nextProbe = 0 /\ numProbes \in Nat /\ 0 < numProbes
  BY <1>1 DEF VectorTypes
<1> QED
  BY <1>1, <1>2, <1>3, <1>4

LEMMA RoundStep ==
  ASSUME JoinInv, join \in {"joinAllParallel", "joinSelParallel"}, Round, UNCHANGED allVars
  PROVE  JoinInv'
<1>1. RingJoin /\ UNCHANGED <<joinInput, join, allVars, base, numProbes, pairs>>
  BY DEF RingJoin, Round
<1>2. PICK m, space : m = nrFollowups /\ space = batchSize - Len(matches)
  OBVIOUS
<1>3. /\ stage = "round" /\ stage' = "followup" /\ UNCHANGED <<ring, matches>>
      /\ nextProbe' = nextProbe /\ contCon' = contCon
      /\ followup' = followup /\ followupWrite' = followupWrite
      /\ todo' = (IF m < space THEN m ELSE space) /\ more' = (todo' < m)
  BY <1>2 DEF Round
<1>4. /\ InputTypes /\ VectorTypes /\ RingTypes /\ RingInv /\ LiveInv /\ Space
      /\ Len(matches) \in Nat /\ batchSize \in Nat \ {0} /\ followupBufferSize = batchSize + 1
      /\ join' = join /\ numProbes' = numProbes /\ base' = base
      /\ followup \in 0 .. batchSize /\ followupWrite \in 0 .. batchSize
      /\ ringFrom = followup /\ ringTo = followupWrite /\ Begun
      /\ nextProbe = 0 /\ numProbes \in Nat /\ 0 < numProbes
  BY <1>1, <1>3, RoundFacts
<1>5. ringFrom' = ringFrom /\ ringTo' = ringTo /\ Begun'
  BY <1>3, <1>4 DEF ringFrom, ringTo, Begun
<1>6. m = Waiting(ringFrom, ringTo) /\ m \in 0 .. batchSize /\ space \in 0 .. batchSize
  <2>1. m = Waiting(followup, followupWrite)
    BY <1>2 DEF nrFollowups, Waiting
  <2>2. Waiting(followup, followupWrite) \in 0 .. batchSize
    BY <1>4, RingBounds
  <2>3. space \in 0 .. batchSize
    BY <1>2, <1>4 DEF Space
  <2> QED
    BY <1>4, <2>1, <2>2, <2>3
<1>7. todo' \in Nat /\ todo' <= m /\ todo' <= space /\ (more' => todo' < m) /\ more' \in BOOLEAN
  <2>1. todo' \in Nat /\ todo' <= m /\ todo' <= space
    BY <1>3, <1>6
  <2>2. more' = (todo' < m)
    BY <1>3
  <2>3. more' \in BOOLEAN /\ (more' => todo' < m)
    <3>1. CASE todo' < m
      BY <2>2, <3>1
    <3>2. CASE ~(todo' < m)
      <4>1. (todo' < m) = FALSE
        BY <3>2
      <4>2. more' = FALSE
        BY <2>2, <4>1
      <4> QED
        BY <4>2
    <3> QED
      BY <3>1, <3>2
  <2> QED
    BY <2>1, <2>3
<1>8. LiveInv'
  BY <1>1, <1>3, <1>4, <1>5, RingSame
<1>9. VectorTypes'
  BY <1>1, <1>3, <1>4 DEF VectorTypes, RingJoin
<1>10. RingTypes'
  BY <1>3, <1>4, <1>7 DEF RingTypes
<1>11. RingInv'
  <2>1. Waiting(ringFrom', ringTo') = m
    BY <1>5, <1>6
  <2> QED
    BY <1>1, <1>3, <1>4, <1>7, <1>8, <2>1 DEF RingInv
<1>12. Space'
  BY <1>1, <1>2, <1>3, <1>4, <1>6, <1>7 DEF Space
<1> QED
  BY <1>1, <1>3, <1>4, <1>5, <1>9, <1>10, <1>11, <1>12, RingQuiet

LEMMA RoundEndStep ==
  ASSUME JoinInv, join \in {"joinAllParallel", "joinSelParallel"}, RoundEnd, UNCHANGED allVars
  PROVE  JoinInv'
<1>1. RingJoin /\ UNCHANGED <<joinInput, join, allVars, base, numProbes, pairs>>
  BY DEF RingJoin, RoundEnd
<1>2. /\ stage = "followup" /\ todo = 0 /\ UNCHANGED <<ring, matches>>
      /\ nextProbe' = nextProbe /\ todo' = todo /\ more' = more
      /\ followup' = followup /\ followupWrite' = followupWrite
      /\ IF more
         THEN /\ contCon' = [followup |-> followup, followupWrite |-> followupWrite]
              /\ stage' = "return"
         ELSE stage' = "round" /\ contCon' = contCon
  BY DEF RoundEnd
<1>3. /\ InputTypes /\ VectorTypes /\ RingTypes /\ RingInv /\ LiveInv /\ Space
      /\ Len(matches) \in Nat /\ batchSize \in Nat \ {0} /\ followupBufferSize = batchSize + 1
      /\ join' = join /\ numProbes' = numProbes /\ base' = base
      /\ followup \in 0 .. batchSize /\ followupWrite \in 0 .. batchSize
      /\ ringFrom = followup /\ ringTo = followupWrite /\ Begun
      /\ nextProbe = 0 /\ numProbes \in Nat /\ 0 < numProbes
  BY <1>1, <1>2, RoundFacts
<1>4. ringFrom' = ringFrom /\ ringTo' = ringTo /\ stage' \in {"return", "round"}
  BY <1>2, <1>3 DEF ringFrom, ringTo
<1>5. more => ringFrom # ringTo
  <2>1. more => 0 < Waiting(ringFrom, ringTo)
    BY <1>1, <1>2, <1>3 DEF RingInv
  <2>2. Waiting(ringFrom, ringTo) = 0 <=> ringFrom = ringTo
    BY <1>3, RingBounds
  <2> QED
    BY <2>1, <2>2
<1>6. Begun' /\ (stage' = "return" => ringFrom' # ringTo')
  BY <1>2, <1>4, <1>5 DEF Begun
<1>7. LiveInv'
  BY <1>1, <1>2, <1>3, <1>4, <1>6, RingSame
<1>8. VectorTypes'
  BY <1>1, <1>2, <1>3 DEF VectorTypes, RingJoin
<1>9. RingTypes'
  <2>1. contCon' \in [followup : 0 .. batchSize, followupWrite : 0 .. batchSize]
    <3>1. contCon \in [followup : 0 .. batchSize, followupWrite : 0 .. batchSize]
      BY <1>3 DEF RingTypes
    <3>2. [followup |-> followup, followupWrite |-> followupWrite]
            \in [followup : 0 .. batchSize, followupWrite : 0 .. batchSize]
      BY <1>3
    <3> QED
      BY <1>2, <3>1, <3>2
  <2>2. /\ ring \in [0 .. followupBufferSize - 1 -> Nat \X (Entries \cup {End})] /\ ring' = ring
        /\ todo' \in Nat /\ more' \in BOOLEAN
    BY <1>2, <1>3 DEF RingTypes
  <2> QED
    BY <1>2, <1>3, <2>1, <2>2 DEF RingTypes
<1>10. RingInv'
  BY <1>1, <1>2, <1>3, <1>6, <1>7 DEF RingInv
<1>11. Space'
  BY <1>1, <1>2, <1>3 DEF Space
<1> QED
  BY <1>1, <1>2, <1>3, <1>4, <1>6, <1>8, <1>9, <1>10, <1>11, RingQuiet

\* The vector is used up: no entry waits, before or after.
LEMMA RingOver ==
  ASSUME JoinInv, RingJoin, UNCHANGED <<joinInput, join, allVars, base, numProbes, pairs>>,
         stage = "round", followup = followupWrite, stage' = "return", nextProbe' = numProbes,
         contCon' = [followup |-> 0, followupWrite |-> 0],
         UNCHANGED <<followup, followupWrite, ring, todo, more, matches>>
  PROVE  JoinInv'
<1>1. /\ InputTypes /\ VectorTypes /\ RingTypes /\ RingInv /\ LiveInv /\ Space
      /\ Len(matches) \in Nat /\ batchSize \in Nat \ {0} /\ followupBufferSize = batchSize + 1
      /\ join' = join /\ numProbes' = numProbes /\ base' = base
      /\ followup \in 0 .. batchSize /\ followupWrite \in 0 .. batchSize
      /\ ringFrom = followup /\ ringTo = followupWrite /\ Begun
      /\ nextProbe = 0 /\ numProbes \in Nat /\ 0 < numProbes /\ DOMAIN ring = 0 .. batchSize
  BY RoundFacts
<1>2. ringFrom' = 0 /\ ringTo' = 0 /\ Begun'
  BY <1>1 DEF ringFrom, ringTo, Begun
<1>3. Live = {} /\ Live' = {}
  <2>1. \A j \in 0 .. batchSize : ~InRing(j, followup, followup) /\ ~InRing(j, 0, 0)
    <3>1. 0 \in 0 .. batchSize
      BY <1>1
    <3>2. \A a \in 0 .. batchSize, j \in 0 .. batchSize : ~InRing(j, a, a)
      BY RingBounds
    <3> QED
      BY <1>1, <3>1, <3>2
  <2> QED
    BY <1>1, <1>2, <2>1 DEF Live
<1>4. RingJoin'
  BY <1>1 DEF RingJoin
<1>5. \A p, e : Passed(p, e) /\ Passed(p, e)'
  BY <1>1, <1>2, <1>3, <1>4, RingPassed, RingPassedNext
<1>6. PassedStays
  BY <1>5 DEF PassedStays
<1>7. MatchesInv' /\ \A q \in Positions, x \in Entries : InMatches(q, x) => InMatches(q, x)'
  BY <1>6, MatchesSame
<1>8. VectorTypes'
  BY <1>1 DEF VectorTypes
<1>9. RingTypes'
  BY <1>1 DEF RingTypes
<1>10. LiveInv'
  BY <1>3 DEF LiveInv
<1>11. RingInv'
  <2>1. join' = "joinBoncz" => followup' = 0 /\ contCon'.followup = 0
    BY <1>1 DEF RingInv
  <2> QED
    BY <1>1, <1>2, <1>10, <2>1 DEF RingInv
<1>12. Space'
  BY <1>1 DEF Space
<1> QED
  BY <1>5, <1>6, <1>7, <1>8, <1>9, <1>11, <1>12, RingDone

LEMMA DrainedStep ==
  ASSUME JoinInv, join \in {"joinAllParallel", "joinSelParallel"}, Drained, UNCHANGED allVars
  PROVE  JoinInv'
<1>1. RingJoin
  BY DEF RingJoin
<1> QED
  BY <1>1, RingOver DEF Drained

LEMMA BonczNoneStep ==
  ASSUME JoinInv, join = "joinBoncz", BonczNone, UNCHANGED allVars
  PROVE  JoinInv'
<1>1. RingJoin /\ RingInv /\ RingTypes
  BY DEF RingJoin, JoinInv
<1>2. followup = 0 /\ contCon.followup = 0
  BY <1>1 DEF RingInv
<1>3. contCon' = [followup |-> 0, followupWrite |-> 0]
  BY <1>1, <1>2 DEF BonczNone, RingTypes
<1> QED
  BY <1>1, <1>2, <1>3, RingOver DEF BonczNone

\* One place of the ring is given up, and its entry followed by the next of the
\* chain, if there is one.
LEMMA RingFollowed ==
  ASSUME JoinInv, RingJoin, UNCHANGED <<joinInput, join, allVars, base, numProbes, pairs>>,
         stage = "followup", stage' = "followup", followup # followupWrite,
         NEW p, NEW e, NEW d, p = ring[followup][1], e = ring[followup][2], d = next[e],
         followup' = RingStep(followup),
         IF d # End THEN /\ ring' = [ring EXCEPT ![followupWrite] = <<p, d>>]
                         /\ followupWrite' = RingStep(followupWrite)
         ELSE ring' = ring /\ followupWrite' = followupWrite
  PROVE  /\ p \in Positions /\ e \in Slot(p) /\ d \in Entries \cup {End}
         /\ d # End => d \in Slot(p) /\ e < d
         /\ \A x \in Slot(p) : (d # End => x < d) => x = e \/ x < e
         /\ LiveInv' /\ followup' \in 0 .. batchSize /\ followupWrite' \in 0 .. batchSize
         /\ Waiting(ringFrom, ringTo) \in 1 .. batchSize
         /\ Waiting(ringFrom', ringTo') >= Waiting(ringFrom, ringTo) - 1
         /\ Waiting(ringFrom', ringTo') \in Nat
         /\ \A q, x : Passed(q, x)' <=>
              IF q = p THEN d # End => x < d ELSE Passed(q, x)
         /\ \A x : Passed(p, x) => x < e
<1>1. PICK a, b : a = followup /\ b = followupWrite
  OBVIOUS
<1>2. /\ InputTypes /\ LiveInv /\ RingTypes /\ RingJoin'
      /\ batchSize \in Nat \ {0} /\ followupBufferSize = batchSize + 1
      /\ Positions' = Positions /\ DOMAIN ring = 0 .. batchSize
      /\ a \in 0 .. batchSize /\ b \in 0 .. batchSize /\ a # b
      /\ ringFrom = a /\ ringTo = b /\ Begun
  BY <1>1, RoundFacts, RingFrame
<1>3. ringFrom' = RingStep(a) /\ ringTo' = followupWrite' /\ Begun' /\ RingStep(a) \in 0 .. batchSize
  BY <1>1, <1>2, StepFacts DEF ringFrom, ringTo, Begun
<1>4. /\ Waiting(a, b) \in 1 .. batchSize
      /\ Waiting(RingStep(a), b) = Waiting(a, b) - 1
      /\ \A j \in 0 .. batchSize : InRing(j, RingStep(a), b) <=> InRing(j, a, b) /\ j # a
      /\ InRing(a, a, b)
  BY <1>2, RingPop
<1>5. \A j : j \in Live <=> j \in 0 .. batchSize /\ InRing(j, a, b)
  BY <1>2 DEF Live
<1>6. a \in Live /\ p \in Positions /\ e \in Slot(p)
  BY <1>1, <1>2, <1>4, <1>5 DEF LiveInv
<1>7. \A j \in Live : ring[j][1] = p => j = a
  BY <1>1, <1>2, <1>6 DEF LiveInv
<1>8. /\ e \in Entries /\ d \in Entries \cup {End}
      /\ d # End => d \in Slot(p) /\ e < d
      /\ \A x \in Slot(p) : (d # End => x < d) => x = e \/ x < e
  BY <1>2, <1>6, ChainStep
<1>9. \A x : Passed(p, x) => x < e
  BY <1>1, <1>6, RingPassed
<1>10. \A q : Slot(q)' = Slot(q)
  BY SameVector
<1>11. CASE d = End
  <2>1. ring' = ring /\ ringTo' = b
    BY <1>1, <1>3, <1>11
  <2>2. \A j : j \in Live' <=> j \in Live /\ j # a
    BY <1>2, <1>3, <1>4, <1>5, <2>1 DEF Live
  <2>3. ASSUME NEW q, NEW x PROVE Passed(q, x)' <=> IF q = p THEN d # End => x < d ELSE Passed(q, x)
    <3>1. Passed(q, x)' <=> \A j \in Live : j # a => (ring[j][1] = q => x < ring[j][2])
      BY <1>2, <1>3, <2>1, <2>2, RingPassedNext
    <3>2. Passed(q, x) <=> \A j \in Live : ring[j][1] = q => x < ring[j][2]
      BY <1>2, RingPassed
    <3>3. CASE q = p
      BY <1>7, <1>11, <3>1, <3>3
    <3>4. CASE q # p
      BY <1>1, <3>1, <3>2, <3>4
    <3> QED
      BY <3>3, <3>4
  <2>4. LiveInv'
    <3>1. \A j \in Live' : ring'[j][1] \in Positions /\ ring'[j][2] \in Slot(ring'[j][1])
      BY <1>2, <1>10, <2>1, <2>2 DEF LiveInv
    <3>2. \A j, k \in Live' : ring'[j][1] = ring'[k][1] => j = k
      BY <1>2, <2>1, <2>2 DEF LiveInv
    <3>3. \A j : Slot(ring[j][1])' = Slot(ring'[j][1])
      BY <1>10
    <3> QED
      BY <1>2, <3>1, <3>2, <3>3 DEF LiveInv
  <2>5. Waiting(ringFrom', ringTo') = Waiting(a, b) - 1
    BY <1>3, <1>4, <2>1
  <2>6. followup' \in 0 .. batchSize /\ followupWrite' \in 0 .. batchSize
    BY <1>1, <1>2, <1>3, <2>1
  <2>7. Waiting(ringFrom, ringTo) = Waiting(a, b)
    BY <1>2
  <2>8. /\ Waiting(ringFrom', ringTo') >= Waiting(ringFrom, ringTo) - 1
        /\ Waiting(ringFrom', ringTo') \in Nat /\ Waiting(ringFrom, ringTo) \in 1 .. batchSize
    BY <1>2, <1>4, <2>5, <2>7
  <2> QED
    BY <1>6, <1>8, <1>9, <2>3, <2>4, <2>6, <2>8
<1>12. CASE d # End
  <2>1. ring' = [ring EXCEPT ![b] = <<p, d>>] /\ ringTo' = RingStep(b) /\ RingStep(b) \in 0 .. batchSize
    BY <1>1, <1>2, <1>3, <1>12, StepFacts
  <2>2. Waiting(RingStep(a), b) < batchSize
    BY <1>2, <1>4
  <2>3. /\ Waiting(RingStep(a), RingStep(b)) = Waiting(RingStep(a), b) + 1
        /\ \A j \in 0 .. batchSize :
             InRing(j, RingStep(a), RingStep(b)) <=> InRing(j, RingStep(a), b) \/ j = b
        /\ ~InRing(b, RingStep(a), b)
    BY <1>2, <1>3, <2>2, RingPush
  <2>4. b \notin Live
    BY <1>2, <1>4, <1>5, <2>3
  <2>5. DOMAIN ring' = 0 .. batchSize
    BY <1>2, <2>1
  <2>6. \A j : j \in Live' <=> (j \in Live /\ j # a) \/ j = b
    <3>1. \A j : j \in Live' <=> j \in 0 .. batchSize /\ InRing(j, RingStep(a), RingStep(b))
      BY <1>3, <2>1, <2>5 DEF Live
    <3> QED
      BY <1>2, <1>4, <1>5, <2>3, <3>1
  <2>7. ring'[b][1] = p /\ ring'[b][2] = d /\ \A j \in Live : ring'[j] = ring[j]
    BY <1>2, <1>5, <2>1, <2>4
  <2>8. ASSUME NEW q, NEW x PROVE Passed(q, x)' <=> IF q = p THEN d # End => x < d ELSE Passed(q, x)
    <3>1. Passed(q, x)' <=> /\ \A j \in Live : j # a => (ring[j][1] = q => x < ring[j][2])
                            /\ p = q => x < d
      <4>1. Passed(q, x)' <=> \A j \in Live' : ring'[j][1] = q => x < ring'[j][2]
        BY <1>2, <1>3, RingPassedNext
      <4> QED
        BY <2>6, <2>7, <4>1
    <3>2. Passed(q, x) <=> \A j \in Live : ring[j][1] = q => x < ring[j][2]
      BY <1>2, RingPassed
    <3>3. CASE q = p
      BY <1>7, <1>12, <3>1, <3>3
    <3>4. CASE q # p
      BY <1>1, <3>1, <3>2, <3>4
    <3> QED
      BY <3>3, <3>4
  <2>9. LiveInv'
    <3>1. \A j \in Live' : ring'[j][1] \in Positions /\ ring'[j][2] \in Slot(ring'[j][1])
      <4> SUFFICES ASSUME NEW j \in Live'
                   PROVE  ring'[j][1] \in Positions /\ ring'[j][2] \in Slot(ring'[j][1])
        OBVIOUS
      <4>1. CASE j = b
        BY <1>2, <1>6, <1>8, <1>10, <1>12, <2>7, <4>1
      <4>2. CASE j \in Live
        BY <1>2, <1>10, <2>7, <4>2 DEF LiveInv
      <4> QED
        BY <2>6, <4>1, <4>2
    <3>2. \A j, k \in Live' : ring'[j][1] = ring'[k][1] => j = k
      <4> SUFFICES ASSUME NEW j \in Live', NEW k \in Live', ring'[j][1] = ring'[k][1] PROVE j = k
        OBVIOUS
      <4>1. CASE j = b /\ k = b
        BY <4>1
      <4>2. CASE j = b /\ k \in Live /\ k # a
        BY <1>7, <2>7, <4>2
      <4>3. CASE j \in Live /\ j # a /\ k = b
        BY <1>7, <2>7, <4>3
      <4>4. CASE j \in Live /\ k \in Live
        BY <1>2, <2>7, <4>4 DEF LiveInv
      <4> QED
        BY <2>6, <4>1, <4>2, <4>3, <4>4
    <3>3. \A j : Slot(ring[j][1])' = Slot(ring'[j][1])
      BY <1>10
    <3> QED
      BY <1>2, <3>1, <3>2, <3>3 DEF LiveInv
  <2>10. Waiting(ringFrom', ringTo') = Waiting(a, b) /\ Waiting(ringFrom, ringTo) = Waiting(a, b)
    BY <1>2, <1>3, <1>4, <2>1, <2>3
  <2>11. followup' \in 0 .. batchSize /\ followupWrite' \in 0 .. batchSize
    BY <1>1, <1>2, <1>3, <1>12, <2>1
  <2>12. /\ Waiting(ringFrom', ringTo') >= Waiting(ringFrom, ringTo) - 1
         /\ Waiting(ringFrom', ringTo') \in Nat /\ Waiting(ringFrom, ringTo) \in 1 .. batchSize
    BY <1>2, <1>4, <2>10
  <2> QED
    BY <1>6, <1>8, <1>9, <2>8, <2>9, <2>11, <2>12
<1> QED
  BY <1>11, <1>12

LEMMA FollowupHolds ==
  ASSUME JoinInv, join \in {"joinAllParallel", "joinSelParallel"}, Followup, UNCHANGED allVars
  PROVE  JoinInv'
<1>1. RingJoin /\ UNCHANGED <<joinInput, join, allVars, base, numProbes, pairs>>
  BY DEF RingJoin, Followup
<1>2. PICK p, e, d : p = ring[followup][1] /\ e = ring[followup][2] /\ d = next[e]
  OBVIOUS
<1>3. /\ stage = "followup" /\ stage' = "followup" /\ todo > 0 /\ todo' = todo - 1
      /\ nextProbe' = nextProbe /\ contCon' = contCon /\ more' = more
      /\ followup' = (IF followup + 1 = followupBufferSize THEN 0 ELSE followup + 1)
      /\ matches' = IF EntryHash(e) = Hash(p) THEN Append(matches, <<e, probeSel[p]>>) ELSE matches
      /\ IF d # End THEN /\ ring' = [ring EXCEPT ![followupWrite] = <<p, d>>]
                         /\ followupWrite' = (followupWrite + 1) % followupBufferSize
         ELSE ring' = ring /\ followupWrite' = followupWrite
  BY <1>2 DEF Followup
<1>4. /\ InputTypes /\ VectorTypes /\ RingTypes /\ RingInv /\ LiveInv /\ Space
      /\ Len(matches) \in Nat /\ batchSize \in Nat \ {0} /\ followupBufferSize = batchSize + 1
      /\ join' = join /\ numProbes' = numProbes /\ base' = base /\ DOMAIN ring = 0 .. batchSize
      /\ followup \in 0 .. batchSize /\ followupWrite \in 0 .. batchSize
      /\ ringFrom = followup /\ ringTo = followupWrite /\ Begun
      /\ nextProbe = 0 /\ numProbes \in Nat /\ 0 < numProbes
  BY <1>1, <1>3, RoundFacts
<1>5. /\ todo \in Nat /\ todo' \in Nat /\ todo <= Waiting(ringFrom, ringTo)
      /\ more => todo < Waiting(ringFrom, ringTo)
  BY <1>1, <1>3, <1>4 DEF RingInv, RingTypes
<1>6. followup # followupWrite
  <2>1. Waiting(followup, followupWrite) \in Nat /\ Waiting(followup, followupWrite) > 0
    <3>1. Waiting(followup, followupWrite) \in 0 .. batchSize
      BY <1>4, RingBounds
    <3>2. todo <= Waiting(followup, followupWrite)
      BY <1>4, <1>5
    <3> QED
      BY <1>3, <1>4, <1>5, <3>1, <3>2
  <2>2. Waiting(followup, followupWrite) = 0 <=> followup = followupWrite
    BY <1>4, RingBounds
  <2>3. Waiting(followup, followupWrite) # 0
    BY <2>1
  <2> QED
    BY <2>2, <2>3
<1>7. /\ followup' = RingStep(followup)
      /\ IF d # End THEN /\ ring' = [ring EXCEPT ![followupWrite] = <<p, d>>]
                         /\ followupWrite' = RingStep(followupWrite)
         ELSE ring' = ring /\ followupWrite' = followupWrite
  <2>1. (followupWrite + 1) % followupBufferSize = RingStep(followupWrite)
    BY <1>4, StepFacts
  <2> QED
    BY <1>3, <2>1 DEF RingStep
<1>8. /\ p \in Positions /\ e \in Slot(p) /\ d \in Entries \cup {End}
      /\ d # End => d \in Slot(p) /\ e < d
      /\ \A x \in Slot(p) : (d # End => x < d) => x = e \/ x < e
      /\ LiveInv' /\ followup' \in 0 .. batchSize /\ followupWrite' \in 0 .. batchSize
      /\ Waiting(ringFrom, ringTo) \in 1 .. batchSize
      /\ Waiting(ringFrom', ringTo') >= Waiting(ringFrom, ringTo) - 1
      /\ Waiting(ringFrom', ringTo') \in Nat
      /\ \A q, x : Passed(q, x)' <=> IF q = p THEN d # End => x < d ELSE Passed(q, x)
      /\ \A x : Passed(p, x) => x < e
  BY <1>1, <1>2, <1>3, <1>6, <1>7, RingFollowed
<1>9. e \in Entries /\ e \in Nat /\ (d # End => d \in Nat)
  <2>1. Entries \subseteq Nat
    BY ProbeConstants
  <2> QED
    BY <1>8, <2>1 DEF Slot, SlotEntries
<1>10. PassedStays
  <2> SUFFICES ASSUME NEW q \in Positions, NEW x \in Entries, Passed(q, x) PROVE Passed(q, x)'
    BY DEF PassedStays
  <2>1. x \in Nat
    BY ProbeConstants
  <2>2. CASE q = p
    BY <1>8, <1>9, <2>1, <2>2
  <2>3. CASE q # p
    BY <1>8, <2>3
  <2> QED
    BY <2>2, <2>3
<1>11. ~Passed(p, e) /\ Passed(p, e)'
  <2>1. ~(e < e)
    BY <1>9
  <2> QED
    BY <1>8, <2>1
<1>12. /\ MatchesInv'
       /\ \A q \in Positions, x \in Entries : InMatches(q, x) => InMatches(q, x)'
       /\ EntryHash(e) = Hash(p) => InMatches(p, e)'
       /\ Len(matches') \in Nat /\ Len(matches') <= Len(matches) + 1
  <2>1. CASE EntryHash(e) = Hash(p)
    <3>1. matches' = Append(matches, <<e, probeSel[p]>>)
      BY <1>3, <2>1
    <3>2. /\ MatchesInv' /\ Len(matches') = Len(matches) + 1 /\ InMatches(p, e)'
          /\ \A q \in Positions, x \in Entries : InMatches(q, x) => InMatches(q, x)'
      BY <1>1, <1>8, <1>9, <1>10, <1>11, <3>1, MatchesAppend
    <3> QED
      BY <1>4, <3>2
  <2>2. CASE EntryHash(e) # Hash(p)
    <3>1. matches' = matches
      BY <1>3, <2>2
    <3> QED
      BY <1>1, <1>4, <1>10, <2>2, <3>1, MatchesSame
  <2> QED
    BY <2>1, <2>2
<1>13. VectorTypes'
  BY <1>1, <1>3, <1>4 DEF VectorTypes, RingJoin
<1>14. RingTypes'
  <2>1. 0 .. followupBufferSize - 1 = 0 .. batchSize
    BY <1>4
  <2>2. p \in Nat
    BY <1>4, <1>8, PositionFacts
  <2>3. ring' \in [0 .. batchSize -> Nat \X (Entries \cup {End})]
    <3>1. ring \in [0 .. batchSize -> Nat \X (Entries \cup {End})]
      BY <1>4, <2>1 DEF RingTypes
    <3> QED
      BY <1>7, <1>8, <2>2, <3>1
  <2> QED
    BY <1>3, <1>4, <1>5, <1>8, <2>1, <2>3 DEF RingTypes
<1>15. RingInv'
  <2>1. /\ todo' <= Waiting(ringFrom', ringTo')
        /\ more' => todo' < Waiting(ringFrom', ringTo')
    BY <1>3, <1>5, <1>8
  <2> QED
    BY <1>1, <1>3, <1>4, <1>8, <2>1 DEF RingInv
<1>16. Space'
  <2>1. Len(matches') + todo' <= batchSize
    BY <1>3, <1>4, <1>5, <1>12 DEF Space
  <2>2. Len(matches') <= batchSize
    BY <1>4, <1>5, <1>12, <2>1
  <2> QED
    BY <1>3, <2>1, <2>2 DEF Space
<1>17. \A q \in Positions, x \in Entries :
         x \in Slot(q) /\ EntryHash(x) = Hash(q) /\ Passed(q, x)' => Passed(q, x) \/ InMatches(q, x)'
  <2> SUFFICES ASSUME NEW q \in Positions, NEW x \in Entries,
                      x \in Slot(q), EntryHash(x) = Hash(q), Passed(q, x)'
               PROVE  Passed(q, x) \/ InMatches(q, x)'
    OBVIOUS
  <2>1. CASE q # p
    BY <1>8, <2>1
  <2>2. CASE q = p /\ x = e
    BY <1>12, <2>2
  <2>3. CASE q = p /\ x < e
    <3>1. \A j \in Live : ring[j][1] = p => x < ring[j][2]
      <4> SUFFICES ASSUME NEW j \in Live, ring[j][1] = p PROVE x < ring[j][2]
        OBVIOUS
      <4>1. followup \in Live
        <5>1. InRing(followup, ringFrom, ringTo)
          BY <1>4, <1>6, RingPop
        <5> QED
          BY <1>4, <5>1 DEF Live
      <4>2. j = followup
        BY <1>2, <1>4, <4>1 DEF LiveInv
      <4> QED
        BY <1>2, <2>3, <4>2
    <3> QED
      BY <1>1, <1>4, <2>3, <3>1, RingPassed
  <2>4. q = p => x = e \/ x < e
    BY <1>8
  <2> QED
    BY <2>1, <2>2, <2>3, <2>4
<1> QED
  BY <1>1, <1>10, <1>12, <1>13, <1>14, <1>15, <1>16, <1>17, RingDone

-----------------------------------------------------------------------------
(* joinBoncz *)

LEMMA BonczFirstStep ==
  ASSUME JoinInv, join = "joinBoncz", BonczFirst, UNCHANGED allVars
  PROVE  JoinInv'
<1>1. RingJoin /\ UNCHANGED <<joinInput, join, allVars, base, numProbes, pairs>>
  BY DEF RingJoin, BonczFirst
<1>2. /\ InputTypes' /\ AllTypes' /\ RingJoin' /\ (PassedStays => PairsInv')
      /\ InputTypes /\ VectorTypes /\ RingTypes /\ RingInv /\ LiveInv /\ Space
      /\ matches \in Seq(Entries \X Nat) /\ Len(matches) \in Nat
      /\ batchSize \in Nat \ {0} /\ followupBufferSize = batchSize + 1
      /\ Positions' = Positions /\ probeSel' = probeSel
      /\ DOMAIN ring = 0 .. batchSize
  BY <1>1, RingFrame
<1>3. PICK S, h :
        /\ S = {p \in Positions : ChainOf(p) # End}
        /\ h = [p \in Positions |-> ChainOf(p)]
  OBVIOUS
<1>4. PICK heads : heads = Ordered(S)
  OBVIOUS
<1>5. /\ stage = "join" /\ stage' = "round" /\ nextProbe' = nextProbe /\ contCon' = contCon
      /\ todo' = todo /\ more' = more /\ followup' = followup /\ matches' = matches
      /\ IF contCon.followupWrite = 0
         THEN /\ ring' = [j \in DOMAIN ring |->
                            IF j < Len(heads) THEN <<heads[j + 1], ChainOf(heads[j + 1])>> ELSE ring[j]]
              /\ followupWrite' = Len(heads)
         ELSE followupWrite' = contCon.followupWrite /\ ring' = ring
  BY <1>3, <1>4 DEF BonczFirst
<1>6. /\ nextProbe = 0 /\ numProbes \in Nat /\ 0 < numProbes /\ numProbes <= batchSize
      /\ matches = <<>> /\ join' = join /\ numProbes' = numProbes /\ base' = base
      /\ followup = 0 /\ contCon.followup = 0 /\ Len(matches) = 0
  BY <1>1, <1>2, <1>5 DEF VectorTypes, RingInv
<1>7. VectorTypes'
  BY <1>1, <1>2, <1>5, <1>6 DEF VectorTypes
<1>8. /\ ringFrom = 0 /\ ringTo = contCon.followupWrite
      /\ ringFrom' = 0 /\ ringTo' = followupWrite' /\ Begun'
      /\ contCon.followupWrite \in 0 .. batchSize
  BY <1>2, <1>5, <1>6 DEF ringFrom, ringTo, Begun, RingTypes
<1>9. CASE contCon.followupWrite # 0
  <2>1. /\ followupWrite' = contCon.followupWrite /\ ring' = ring
        /\ Begun /\ ringFrom' = ringFrom /\ ringTo' = ringTo
    BY <1>5, <1>8, <1>9 DEF Begun
  <2>2. RingTypes'
    BY <1>2, <1>5, <1>8, <2>1 DEF RingTypes
  <2>3. LiveInv'
    BY <1>1, <1>8, <2>1, RingSame
  <2>4. RingInv'
    BY <1>1, <1>5, <1>6, <2>3 DEF RingInv
  <2>5. Space'
    BY <1>1, <1>2, <1>5, <1>6, <1>8, <2>1 DEF Space
  <2> QED
    BY <1>1, <1>5, <1>7, <1>8, <2>1, <2>2, <2>4, <2>5, RingQuiet
<1>10. CASE contCon.followupWrite = 0
  <2>1. ~Begun
    BY <1>5, <1>6, <1>8, <1>10 DEF Begun
  <2>2. \A p \in Positions :
          /\ ChainOf(p) \in Entries \cup {End}
          /\ ChainOf(p) # End => ChainOf(p) \in Slot(p)
          /\ \A x \in Slot(p) : EntryHash(x) = Hash(p) => ChainOf(p) # End /\ ~(x < ChainOf(p))
    BY <1>2, ChainStart
  <2>3. /\ S \in SUBSET Positions
        /\ \A p \in S : p \in Positions /\ h[p] \in Slot(p) /\ h[p] = ChainOf(p) /\ h[p] \in Entries
    BY <1>3, <2>2
  <2>4. /\ Len(heads) \in 0 .. numProbes
        /\ \A j \in 1 .. Len(heads) : heads[j] \in S /\ heads[j] \in Nat
    BY <1>4, <1>6, <2>3, OrderedFacts
  <2>5. followup' = 0 /\ followupWrite' = Len(heads)
    BY <1>5, <1>6, <1>10
  <2>6. /\ DOMAIN ring' = 0 .. batchSize
        /\ \A j \in 0 .. batchSize : ring'[j] =
             IF j < Len(heads) THEN <<heads[j + 1], ChainOf(heads[j + 1])>> ELSE ring[j]
    BY <1>2, <1>5, <1>10
  <2>7. \A j \in 0 .. batchSize : j < Len(heads) =>
           /\ j + 1 \in 1 .. Len(heads) /\ heads[j + 1] \in S /\ heads[j + 1] \in Nat
           /\ ring'[j] = <<heads[j + 1], h[heads[j + 1]]>>
    <3> SUFFICES ASSUME NEW j \in 0 .. batchSize, j < Len(heads)
                 PROVE  /\ j + 1 \in 1 .. Len(heads) /\ heads[j + 1] \in S /\ heads[j + 1] \in Nat
                        /\ ring'[j] = <<heads[j + 1], h[heads[j + 1]]>>
      OBVIOUS
    <3>1. j + 1 \in 1 .. Len(heads)
      BY <1>2, <2>4
    <3> QED
      BY <2>3, <2>4, <2>6, <3>1
  <2>8. /\ LiveInv' /\ \A p, e : Passed(p, e)' <=> (p \in S => e < h[p])
        /\ Len(heads) \in 0 .. batchSize
    BY <1>1, <1>4, <1>5, <2>3, <2>5, <2>6, <2>7, RingFresh
  <2>9. RingTypes'
    <3>1. \A j \in 0 .. batchSize : ring'[j] \in Nat \X (Entries \cup {End})
      <4> SUFFICES ASSUME NEW j \in 0 .. batchSize PROVE ring'[j] \in Nat \X (Entries \cup {End})
        OBVIOUS
      <4>1. CASE j < Len(heads)
        <5>1. /\ heads[j + 1] \in S /\ heads[j + 1] \in Nat
              /\ ring'[j] = <<heads[j + 1], h[heads[j + 1]]>>
          BY <2>7, <4>1
        <5> QED
          BY <2>3, <5>1
      <4>2. CASE ~(j < Len(heads))
        <5>1. followupBufferSize - 1 = batchSize
          BY <1>2
        <5>2. ring[j] \in Nat \X (Entries \cup {End})
          BY <1>2, <5>1 DEF RingTypes
        <5> QED
          BY <2>6, <4>2, <5>2
      <4> QED
        BY <4>1, <4>2
    <3>2. ring' \in [0 .. followupBufferSize - 1 -> Nat \X (Entries \cup {End})]
      <4>1. 0 .. followupBufferSize - 1 = 0 .. batchSize
        BY <1>2
      <4>2. ring' = [j \in 0 .. batchSize |-> ring'[j]]
        BY <1>5, <1>2, <1>10
      <4> QED
        BY <3>1, <4>1, <4>2
    <3> QED
      BY <1>2, <1>5, <2>5, <2>8, <3>2 DEF RingTypes
  <2>10. RingInv'
    BY <1>1, <1>5, <1>6, <2>8 DEF RingInv
  <2>11. \A p \in Positions, e \in Entries : ~Passed(p, e)
    BY <1>1, <2>1, RingPassed
  <2>12. PassedStays
    BY <2>11 DEF PassedStays
  <2>13. MatchesInv' /\ \A q \in Positions, x \in Entries : InMatches(q, x) => InMatches(q, x)'
    BY <1>1, <1>5, <2>12, MatchesSame
  <2>14. Space'
    BY <1>1, <1>2, <1>5, <1>6, <2>5, <2>8 DEF Space
  <2>15. \A q \in Positions, x \in Entries :
           x \in Slot(q) /\ EntryHash(x) = Hash(q) => ~Passed(q, x)'
    <3> SUFFICES ASSUME NEW q \in Positions, NEW x \in Entries,
                        x \in Slot(q), EntryHash(x) = Hash(q)
                 PROVE  ~Passed(q, x)'
      OBVIOUS
    <3>1. q \in S /\ ~(x < h[q])
      BY <1>3, <2>2
    <3> QED
      BY <2>8, <3>1
  <2> QED
    BY <1>1, <1>7, <2>9, <2>10, <2>12, <2>13, <2>14, <2>15, RingDone
<1> QED
  BY <1>9, <1>10

\* The entries of a round, and of the next.
LEMMA LevelFacts ==
  ASSUME JoinInv, join = "joinBoncz", stage = "round"
  PROVE  /\ followup = 0 /\ followupWrite \in 0 .. batchSize
         /\ \A j : j \in Live <=> j \in 0 .. batchSize /\ j < followupWrite
         /\ \A j \in 1 .. followupWrite :
              /\ Level[j] = ring[j - 1] /\ Level[j][1] \in Positions
              /\ Level[j][2] \in Slot(Level[j][1])
         /\ \A j, k \in 1 .. followupWrite : Level[j][1] = Level[k][1] => j = k
         /\ Len(NextLevel) \in 0 .. followupWrite /\ (NextLevel = <<>> <=> Len(NextLevel) = 0)
         /\ \A j \in 1 .. Len(NextLevel) : \E k \in 1 .. followupWrite :
              next[Level[k][2]] # End /\ NextLevel[j] = <<Level[k][1], next[Level[k][2]]>>
         /\ \A k \in 1 .. followupWrite : next[Level[k][2]] # End =>
              \E j \in 1 .. Len(NextLevel) : NextLevel[j] = <<Level[k][1], next[Level[k][2]]>>
         /\ \A j, k \in 1 .. Len(NextLevel) : NextLevel[j][1] = NextLevel[k][1] => j = k
<1>1. /\ RingTypes /\ RingInv /\ LiveInv /\ RingJoin /\ batchSize \in Nat \ {0}
      /\ followupBufferSize = batchSize + 1
  BY ProbeConstants DEF JoinInv, RingInv, RingJoin
<1>2. followup = 0 /\ followupWrite \in 0 .. batchSize /\ DOMAIN ring = 0 .. batchSize
  <2>1. 0 .. followupBufferSize - 1 = 0 .. batchSize
    BY <1>1
  <2> QED
    BY <1>1, <2>1 DEF RingInv, RingTypes
<1>3. \A j : j \in Live <=> j \in 0 .. batchSize /\ j < followupWrite
  <2>1. ringFrom = 0 /\ ringTo = followupWrite
    BY <1>2 DEF ringFrom, ringTo
  <2>2. \A j \in 0 .. batchSize : InRing(j, 0, followupWrite) <=> j < followupWrite
    BY <1>1, <1>2 DEF InRing
  <2> QED
    BY <1>2, <2>1, <2>2 DEF Live
<1>4. DOMAIN Level = 1 .. followupWrite /\ \A j \in 1 .. followupWrite : Level[j] = ring[j - 1]
  BY DEF Level
<1>5. \A j \in 1 .. followupWrite : j - 1 \in Live
  BY <1>1, <1>2, <1>3
<1>6. \A j \in 1 .. followupWrite :
        Level[j][1] \in Positions /\ Level[j][2] \in Slot(Level[j][1])
  BY <1>1, <1>4, <1>5 DEF LiveInv
<1>7. \A j, k \in 1 .. followupWrite : Level[j][1] = Level[k][1] => j = k
  <2> SUFFICES ASSUME NEW j \in 1 .. followupWrite, NEW k \in 1 .. followupWrite,
                      Level[j][1] = Level[k][1]
               PROVE  j = k
    OBVIOUS
  <2>1. j - 1 = k - 1
    BY <1>1, <1>4, <1>5 DEF LiveInv
  <2> QED
    BY <1>2, <2>1
<1> DEFINE R == {j \in DOMAIN Level : next[Level[j][2]] # End}
           rest == Chosen(followupWrite, R)
           N == [j \in 1 .. Len(rest) |-> <<Level[rest[j]][1], next[Level[rest[j]][2]]>>]
<1>8. /\ Len(rest) \in 0 .. followupWrite
      /\ \A j \in 1 .. Len(rest) : rest[j] \in 1 .. followupWrite /\ rest[j] \in R
      /\ \A j, k \in 1 .. Len(rest) : j < k => rest[j] < rest[k]
      /\ \A x \in 1 .. followupWrite : x \in R => \E j \in 1 .. Len(rest) : rest[j] = x
  <2>1. followupWrite \in Nat
    BY <1>2
  <2> HIDE DEF R
  <2> QED
    BY <2>1, ChosenFacts
<1>9. NextLevel = N
  BY DEF NextLevel
<1>10. \A x \in 1 .. followupWrite : x \in R <=> next[Level[x][2]] # End
  BY <1>4
<1> HIDE DEF rest, R
<1>11. Len(N) = Len(rest) /\ (N = <<>> <=> Len(N) = 0)
  <2>1. N = [j \in 1 .. Len(rest) |-> N[j]] /\ Len(rest) \in Nat
    BY <1>2, <1>8
  <2> HIDE DEF N
  <2>2. Sequence(N) /\ Len(N) = Len(rest)
    BY <2>1, SequenceMade
  <2>3. N \in Seq({N[i] : i \in 1 .. Len(N)})
    BY <2>2, SequenceOver
  <2>4. N = <<>> <=> Len(N) = 0
    BY <2>3, EmptySeq
  <2> QED
    BY <2>2, <2>4
<1>12. \A j \in 1 .. Len(rest) : N[j] = <<Level[rest[j]][1], next[Level[rest[j]][2]]>>
  OBVIOUS
<1> HIDE DEF N
<1>13. \A j \in 1 .. Len(N) : \E k \in 1 .. followupWrite :
         next[Level[k][2]] # End /\ N[j] = <<Level[k][1], next[Level[k][2]]>>
  BY <1>8, <1>10, <1>11, <1>12
<1>14. \A k \in 1 .. followupWrite : next[Level[k][2]] # End =>
         \E j \in 1 .. Len(N) : N[j] = <<Level[k][1], next[Level[k][2]]>>
  <2> SUFFICES ASSUME NEW k \in 1 .. followupWrite, next[Level[k][2]] # End
               PROVE  \E j \in 1 .. Len(N) : N[j] = <<Level[k][1], next[Level[k][2]]>>
    OBVIOUS
  <2>1. PICK j \in 1 .. Len(rest) : rest[j] = k
    BY <1>8, <1>10
  <2> QED
    BY <1>11, <1>12, <2>1
<1>15. \A j, k \in 1 .. Len(N) : N[j][1] = N[k][1] => j = k
  <2> SUFFICES ASSUME NEW j \in 1 .. Len(N), NEW k \in 1 .. Len(N), N[j][1] = N[k][1] PROVE j = k
    OBVIOUS
  <2>1. rest[j] = rest[k]
    <3>1. rest[j] \in 1 .. followupWrite /\ rest[k] \in 1 .. followupWrite
      BY <1>8, <1>11
    <3>2. N[j][1] = Level[rest[j]][1] /\ N[k][1] = Level[rest[k]][1]
      BY <1>11, <1>12
    <3> QED
      BY <1>7, <3>1, <3>2
  <2>2. rest[j] \in Nat /\ rest[k] \in Nat /\ j \in Nat /\ k \in Nat
    BY <1>2, <1>8, <1>11
  <2> QED
    BY <1>8, <1>11, <2>1, <2>2
<1>16. Len(NextLevel) \in 0 .. followupWrite /\ (NextLevel = <<>> <=> Len(NextLevel) = 0)
  BY <1>8, <1>9, <1>11
<1>17. \A j \in 1 .. Len(NextLevel) : \E k \in 1 .. followupWrite :
         next[Level[k][2]] # End /\ NextLevel[j] = <<Level[k][1], next[Level[k][2]]>>
  BY <1>9, <1>13
<1>18. \A k \in 1 .. followupWrite : next[Level[k][2]] # End =>
         \E j \in 1 .. Len(NextLevel) : NextLevel[j] = <<Level[k][1], next[Level[k][2]]>>
  BY <1>9, <1>14
<1>19. \A j, k \in 1 .. Len(NextLevel) : NextLevel[j][1] = NextLevel[k][1] => j = k
  BY <1>9, <1>15
<1> QED
  BY <1>2, <1>3, <1>4, <1>6, <1>7, <1>16, <1>17, <1>18, <1>19

LEMMA BonczRoundStep ==
  ASSUME JoinInv, join = "joinBoncz", BonczRound, UNCHANGED allVars
  PROVE  JoinInv'
<1>1. RingJoin /\ UNCHANGED <<joinInput, join, allVars, base, numProbes, pairs>>
  BY DEF RingJoin, BonczRound
<1>2. PICK L, N, nx, m : L = Level /\ N = NextLevel /\ nx = next /\ m = followupWrite
  OBVIOUS
<1>3. PICK s : s = [j \in 1 .. m |-> <<L[j][2], L[j][1]>>]
  OBVIOUS
<1>4. /\ stage = "round" /\ m > 0 /\ todo' = todo /\ more' = more /\ followup' = followup
      /\ matches' = matches \o s /\ followupWrite' = Len(N)
      /\ ring' = [j \in DOMAIN ring |-> IF j < Len(N) THEN N[j + 1] ELSE ring[j]]
      /\ IF N = <<>> \/ Len(matches') + Len(N) >= batchSize
         THEN /\ contCon' = [contCon EXCEPT !.followupWrite = Len(N)]
              /\ nextProbe' = IF N = <<>> THEN numProbes ELSE nextProbe
              /\ stage' = "return"
         ELSE contCon' = contCon /\ nextProbe' = nextProbe /\ stage' = stage
  BY <1>2, <1>3 DEF BonczRound
<1>5. /\ InputTypes /\ VectorTypes /\ RingTypes /\ RingInv /\ LiveInv /\ Space
      /\ matches \in Seq(Entries \X Nat) /\ Len(matches) \in Nat
      /\ batchSize \in Nat \ {0} /\ followupBufferSize = batchSize + 1
      /\ Positions' = Positions /\ DOMAIN ring = 0 .. batchSize
      /\ join' = join /\ numProbes' = numProbes /\ base' = base
      /\ nextProbe = 0 /\ numProbes \in Nat /\ 0 < numProbes
  BY <1>1, <1>4, RoundFacts
<1>6. /\ followup = 0 /\ m \in 0 .. batchSize
      /\ \A j : j \in Live <=> j \in 0 .. batchSize /\ j < m
      /\ \A j \in 1 .. m : L[j] = ring[j - 1] /\ L[j][1] \in Positions /\ L[j][2] \in Slot(L[j][1])
      /\ \A j, k \in 1 .. m : L[j][1] = L[k][1] => j = k
      /\ Len(N) \in 0 .. m /\ (N = <<>> <=> Len(N) = 0)
      /\ \A j \in 1 .. Len(N) : \E k \in 1 .. m :
           nx[L[k][2]] # End /\ N[j] = <<L[k][1], nx[L[k][2]]>>
      /\ \A k \in 1 .. m : nx[L[k][2]] # End =>
           \E j \in 1 .. Len(N) : N[j] = <<L[k][1], nx[L[k][2]]>>
      /\ \A j, k \in 1 .. Len(N) : N[j][1] = N[k][1] => j = k
  <2>1. /\ followup = 0 /\ followupWrite \in 0 .. batchSize
        /\ \A j : j \in Live <=> j \in 0 .. batchSize /\ j < followupWrite
        /\ \A j \in 1 .. followupWrite :
             /\ Level[j] = ring[j - 1] /\ Level[j][1] \in Positions
             /\ Level[j][2] \in Slot(Level[j][1])
        /\ \A j, k \in 1 .. followupWrite : Level[j][1] = Level[k][1] => j = k
        /\ Len(NextLevel) \in 0 .. followupWrite /\ (NextLevel = <<>> <=> Len(NextLevel) = 0)
        /\ \A j \in 1 .. Len(NextLevel) : \E k \in 1 .. followupWrite :
             next[Level[k][2]] # End /\ NextLevel[j] = <<Level[k][1], next[Level[k][2]]>>
        /\ \A k \in 1 .. followupWrite : next[Level[k][2]] # End =>
             \E j \in 1 .. Len(NextLevel) : NextLevel[j] = <<Level[k][1], next[Level[k][2]]>>
        /\ \A j, k \in 1 .. Len(NextLevel) : NextLevel[j][1] = NextLevel[k][1] => j = k
    <3>1. stage = "round"
      BY <1>4
    <3> QED
      BY <3>1, LevelFacts
  <2>2. /\ followup = 0 /\ m \in 0 .. batchSize
        /\ \A j : j \in Live <=> j \in 0 .. batchSize /\ j < m
    BY <1>2, <2>1
  <2>3. /\ \A j \in 1 .. m : L[j] = ring[j - 1] /\ L[j][1] \in Positions /\ L[j][2] \in Slot(L[j][1])
        /\ \A j, k \in 1 .. m : L[j][1] = L[k][1] => j = k
    BY <1>2, <2>1
  <2>4. Len(N) \in 0 .. m /\ (N = <<>> <=> Len(N) = 0)
    BY <1>2, <2>1
  <2>5. \A j \in 1 .. Len(N) : \E k \in 1 .. m :
          nx[L[k][2]] # End /\ N[j] = <<L[k][1], nx[L[k][2]]>>
    <3>1. \A j \in 1 .. Len(NextLevel) : \E k \in 1 .. followupWrite :
             next[Level[k][2]] # End /\ NextLevel[j] = <<Level[k][1], next[Level[k][2]]>>
      BY <2>1
    <3> QED
      BY <1>2, <3>1
  <2>6. \A k \in 1 .. m : nx[L[k][2]] # End =>
          \E j \in 1 .. Len(N) : N[j] = <<L[k][1], nx[L[k][2]]>>
    <3>1. \A k \in 1 .. followupWrite : next[Level[k][2]] # End =>
             \E j \in 1 .. Len(NextLevel) : NextLevel[j] = <<Level[k][1], next[Level[k][2]]>>
      BY <2>1
    <3> QED
      BY <1>2, <3>1
  <2>7. \A j, k \in 1 .. Len(N) : N[j][1] = N[k][1] => j = k
    BY <1>2, <2>1
  <2> QED
    BY <2>2, <2>3, <2>4, <2>5, <2>6, <2>7
<1>7. /\ Len(N) \in 0 .. batchSize /\ Len(N) \in Nat /\ m \in Nat /\ m > 0
  BY <1>4, <1>5, <1>6
<1>8. contCon.followup = 0 /\ contCon' \in [followup : {0}, followupWrite : 0 .. batchSize]
  <2>1. contCon.followup = 0 /\ contCon \in [followup : 0 .. batchSize, followupWrite : 0 .. batchSize]
    BY <1>1, <1>5 DEF RingInv, RingTypes
  <2> QED
    BY <1>4, <1>7, <2>1
<1>9. ringFrom' = 0 /\ ringTo' = Len(N) /\ Begun'
  <2>1. CASE stage' = "return"
    <3>1. contCon'.followup = 0 /\ contCon'.followupWrite = Len(N)
      BY <1>4, <1>5, <1>8, <2>1 DEF RingTypes
    <3>2. ringFrom' = 0 /\ ringTo' = Len(N)
      BY <2>1, <3>1 DEF ringFrom, ringTo
    <3>3. CASE N = <<>>
      <4>1. nextProbe' = numProbes /\ numProbes' = numProbes
        BY <1>4, <1>5, <2>1, <3>3
      <4> QED
        BY <1>5, <3>2, <4>1 DEF Begun
    <3>4. CASE N # <<>>
      BY <1>6, <3>2, <3>4 DEF Begun
    <3> QED
      BY <3>2, <3>3, <3>4
  <2>2. CASE stage' = "round"
    BY <1>4, <1>6, <2>2 DEF ringFrom, ringTo, Begun
  <2> QED
    BY <1>4, <2>1, <2>2
<1>10. /\ DOMAIN ring' = 0 .. batchSize
       /\ \A j \in 0 .. batchSize : ring'[j] = IF j < Len(N) THEN N[j + 1] ELSE ring[j]
  BY <1>4, <1>5
<1>11. \A j : j \in Live' <=> j \in 0 .. batchSize /\ j < Len(N)
  <2>1. \A j \in 0 .. batchSize : InRing(j, 0, Len(N)) <=> j < Len(N)
    BY <1>5, <1>7 DEF InRing
  <2> QED
    BY <1>9, <1>10, <2>1 DEF Live
<1>12. \A j \in Live' : j + 1 \in 1 .. Len(N) /\ ring'[j] = N[j + 1] /\ j \in Nat
  <2> SUFFICES ASSUME NEW j \in Live' PROVE j + 1 \in 1 .. Len(N) /\ ring'[j] = N[j + 1] /\ j \in Nat
    OBVIOUS
  <2>1. j \in 0 .. batchSize /\ j < Len(N)
    BY <1>11
  <2>2. j \in Nat /\ j + 1 \in 1 .. Len(N)
    BY <1>5, <1>7, <2>1
  <2> QED
    BY <1>10, <2>1, <2>2
<1>13. \A j \in Live' : \E k \in 1 .. m :
         nx[L[k][2]] # End /\ ring'[j] = <<L[k][1], nx[L[k][2]]>>
  <2> SUFFICES ASSUME NEW j \in Live'
               PROVE  \E k \in 1 .. m : nx[L[k][2]] # End /\ ring'[j] = <<L[k][1], nx[L[k][2]]>>
    OBVIOUS
  <2>1. j + 1 \in 1 .. Len(N) /\ ring'[j] = N[j + 1]
    BY <1>12
  <2>2. PICK k \in 1 .. m : nx[L[k][2]] # End /\ N[j + 1] = <<L[k][1], nx[L[k][2]]>>
    BY <1>6, <2>1
  <2> QED
    BY <2>1, <2>2
<1>14. \A j \in 1 .. Len(N) : j - 1 \in Live' /\ ring'[j - 1] = N[j]
  <2> SUFFICES ASSUME NEW j \in 1 .. Len(N) PROVE j - 1 \in Live' /\ ring'[j - 1] = N[j]
    OBVIOUS
  <2>1. j - 1 \in 0 .. batchSize /\ j - 1 < Len(N) /\ (j - 1) + 1 = j
    BY <1>5, <1>7
  <2> QED
    BY <1>10, <1>11, <2>1
<1>15. \A j \in 1 .. m : j - 1 \in Live /\ \A i \in Live : i + 1 \in 1 .. m /\ ring[i] = L[i + 1]
  <2>1. ASSUME NEW j \in 1 .. m PROVE j - 1 \in Live
    <3>1. j - 1 \in 0 .. batchSize /\ j - 1 < m
      BY <1>5, <1>6, <1>7
    <3> QED
      BY <1>6, <3>1
  <2>2. ASSUME NEW i \in Live PROVE i + 1 \in 1 .. m /\ ring[i] = L[i + 1]
    <3>1. i + 1 \in 1 .. m /\ (i + 1) - 1 = i
      BY <1>5, <1>6, <1>7
    <3> QED
      BY <1>6, <3>1
  <2> QED
    BY <2>1, <2>2
<1>16. \A k \in 1 .. m :
         LET p == L[k][1]
             e == L[k][2]
         IN  /\ e \in Entries /\ e \in Nat /\ p \in Positions /\ nx[e] \in Entries \cup {End}
             /\ nx[e] # End => nx[e] \in Slot(p) /\ e < nx[e] /\ nx[e] \in Nat
             /\ \A x \in Slot(p) : (nx[e] # End => x < nx[e]) => x = e \/ x < e
  <2> SUFFICES ASSUME NEW k \in 1 .. m, NEW p, NEW e, p = L[k][1], e = L[k][2]
               PROVE  /\ e \in Entries /\ e \in Nat /\ p \in Positions /\ nx[e] \in Entries \cup {End}
                      /\ nx[e] # End => nx[e] \in Slot(p) /\ e < nx[e] /\ nx[e] \in Nat
                      /\ \A x \in Slot(p) : (nx[e] # End => x < nx[e]) => x = e \/ x < e
    OBVIOUS
  <2>1. p \in Positions /\ e \in Slot(p)
    BY <1>6
  <2>2. /\ e \in Entries /\ next[e] \in Entries \cup {End}
        /\ next[e] # End => next[e] \in Slot(p) /\ e < next[e]
        /\ \A x \in Slot(p) : (next[e] # End => x < next[e]) => x = e \/ x < e
    <3>1. InputTypes
      BY <1>5
    <3> QED
      BY <2>1, <3>1, ChainStep
  <2> QED
    BY <1>2, <2>1, <2>2, ProbeConstants
<1>17. RingJoin' /\ \A q : Slot(q)' = Slot(q)
  BY <1>1, RingFrame, SameVector
<1>18. \A q, x : Passed(q, x) <=> \A k \in 1 .. m : L[k][1] = q => x < L[k][2]
  <2> SUFFICES ASSUME NEW q, NEW x
               PROVE  Passed(q, x) <=> \A k \in 1 .. m : L[k][1] = q => x < L[k][2]
    OBVIOUS
  <2>1. Begun
    BY <1>4 DEF Begun
  <2>2. Passed(q, x) <=> \A j \in Live : ring[j][1] = q => x < ring[j][2]
    BY <1>1, <2>1, RingPassed
  <2>3. ASSUME Passed(q, x), NEW k \in 1 .. m, L[k][1] = q PROVE x < L[k][2]
    BY <1>6, <1>15, <2>2, <2>3
  <2>4. ASSUME \A k \in 1 .. m : L[k][1] = q => x < L[k][2], NEW j \in Live, ring[j][1] = q
        PROVE  x < ring[j][2]
    <3>1. 1 \in 1 .. m
      BY <1>7
    <3>2. j + 1 \in 1 .. m /\ ring[j] = L[j + 1]
      BY <1>15, <3>1
    <3> QED
      BY <2>4, <3>2
  <2> QED
    BY <2>2, <2>3, <2>4
<1>19. \A q, x : Passed(q, x)' <=>
         \A k \in 1 .. m : L[k][1] = q /\ nx[L[k][2]] # End => x < nx[L[k][2]]
  <2> SUFFICES ASSUME NEW q, NEW x
               PROVE  Passed(q, x)' <=>
                        \A k \in 1 .. m : L[k][1] = q /\ nx[L[k][2]] # End => x < nx[L[k][2]]
    OBVIOUS
  <2>1. Passed(q, x)' <=> \A j \in Live' : ring'[j][1] = q => x < ring'[j][2]
    BY <1>9, <1>17, RingPassedNext
  <2>2. ASSUME Passed(q, x)', NEW k \in 1 .. m, L[k][1] = q, nx[L[k][2]] # End
        PROVE  x < nx[L[k][2]]
    <3>1. PICK j \in 1 .. Len(N) : N[j] = <<L[k][1], nx[L[k][2]]>>
      BY <1>6, <2>2
    <3>2. j - 1 \in Live' /\ ring'[j - 1][1] = q /\ ring'[j - 1][2] = nx[L[k][2]]
      BY <1>14, <2>2, <3>1
    <3> QED
      BY <2>1, <2>2, <3>2
  <2>3. ASSUME \A k \in 1 .. m : L[k][1] = q /\ nx[L[k][2]] # End => x < nx[L[k][2]],
               NEW j \in Live', ring'[j][1] = q
        PROVE  x < ring'[j][2]
    <3>1. PICK k \in 1 .. m : nx[L[k][2]] # End /\ ring'[j] = <<L[k][1], nx[L[k][2]]>>
      BY <1>13
    <3> QED
      BY <2>3, <3>1
  <2> QED
    BY <2>1, <2>2, <2>3
<1>20. PassedStays
  <2> SUFFICES ASSUME NEW q \in Positions, NEW x \in Entries, Passed(q, x) PROVE Passed(q, x)'
    BY DEF PassedStays
  <2>1. ASSUME NEW k \in 1 .. m, L[k][1] = q, nx[L[k][2]] # End PROVE x < nx[L[k][2]]
    <3>1. x < L[k][2] /\ x \in Nat
      BY <1>18, <2>1, ProbeConstants
    <3>2. L[k][2] < nx[L[k][2]] /\ L[k][2] \in Nat /\ nx[L[k][2]] \in Nat
      BY <1>16, <2>1
    <3> QED
      BY <3>1, <3>2
  <2> QED
    BY <1>19, <2>1
<1>21. \A k \in 1 .. m : ~Passed(L[k][1], L[k][2]) /\ Passed(L[k][1], L[k][2])'
  <2> SUFFICES ASSUME NEW k \in 1 .. m
               PROVE  ~Passed(L[k][1], L[k][2]) /\ Passed(L[k][1], L[k][2])'
    OBVIOUS
  <2>1. ~(L[k][2] < L[k][2])
    BY <1>16
  <2>2. ~Passed(L[k][1], L[k][2])
    BY <1>18, <2>1
  <2>3. \A i \in 1 .. m : L[i][1] = L[k][1] /\ nx[L[i][2]] # End => L[k][2] < nx[L[i][2]]
    BY <1>6, <1>16
  <2>4. Passed(L[k][1], L[k][2])'
    BY <1>19, <2>3
  <2> QED
    BY <2>2, <2>4
<1>22. \A p \in Positions : probeSel[p] = p /\ p \in Nat
  BY <1>5, SelFacts, PositionFacts
<1>23. /\ s \in Seq(Entries \X Nat) /\ Len(s) = m
       /\ \A k \in 1 .. m : s[k] = <<L[k][2], L[k][1]>> /\ s[k] = <<L[k][2], probeSel[L[k][1]]>>
  <2>1. \A k \in 1 .. m : s[k] = <<L[k][2], L[k][1]>> /\ s[k] = <<L[k][2], probeSel[L[k][1]]>>
                          /\ s[k] \in Entries \X Nat
    BY <1>3, <1>16, <1>22
  <2>2. s \in [1 .. m -> Entries \X Nat]
    BY <1>3, <2>1
  <2>3. s \in Seq(Entries \X Nat)
    BY <1>7, <2>2, SeqDef
  <2>4. Len(s) = m
    BY <1>3, <1>7, SequenceMade
  <2> QED
    BY <2>1, <2>3, <2>4
<1>24. \A j \in 1 .. Len(s) : \E p \in Positions, e \in Entries :
         s[j] = <<e, probeSel[p]>> /\ (RingJoin => ~Passed(p, e) /\ Passed(p, e)')
  BY <1>16, <1>21, <1>23
<1>25. RingJoin => \A j, k \in 1 .. Len(s) : s[j] = s[k] => j = k
  <2> SUFFICES ASSUME NEW j \in 1 .. Len(s), NEW k \in 1 .. Len(s), s[j] = s[k] PROVE j = k
    OBVIOUS
  <2>1. L[j][1] = L[k][1]
    BY <1>23
  <2> QED
    BY <1>6, <1>23, <2>1
<1>26. /\ MatchesInv' /\ Len(matches') = Len(matches) + Len(s)
       /\ \A q \in Positions, x \in Entries :
            InMatches(q, x) \/ (\E j \in 1 .. Len(s) : s[j] = <<x, probeSel[q]>>) => InMatches(q, x)'
  BY <1>1, <1>4, <1>20, <1>23, <1>24, <1>25, MatchesGrow
<1>27. \A q \in Positions, x \in Entries :
         x \in Slot(q) /\ EntryHash(x) = Hash(q) /\ Passed(q, x)' => Passed(q, x) \/ InMatches(q, x)'
  <2> SUFFICES ASSUME NEW q \in Positions, NEW x \in Entries,
                      x \in Slot(q), Passed(q, x)', ~Passed(q, x)
               PROVE  InMatches(q, x)'
    OBVIOUS
  <2>1. PICK k \in 1 .. m : L[k][1] = q /\ ~(x < L[k][2])
    BY <1>18
  <2>2. x = L[k][2]
    BY <1>16, <1>19, <2>1
  <2>3. s[k] = <<x, probeSel[q]>> /\ k \in 1 .. Len(s)
    BY <1>23, <2>1, <2>2
  <2> QED
    BY <1>26, <2>3
<1>28. VectorTypes'
  BY <1>1, <1>4, <1>5 DEF VectorTypes, RingJoin
<1>29. RingTypes'
  <2>1. 0 .. followupBufferSize - 1 = 0 .. batchSize
    BY <1>5
  <2>2. \A j \in 0 .. batchSize : ring'[j] \in Nat \X (Entries \cup {End})
    <3> SUFFICES ASSUME NEW j \in 0 .. batchSize PROVE ring'[j] \in Nat \X (Entries \cup {End})
      OBVIOUS
    <3>1. CASE j < Len(N)
      <4>1. j + 1 \in 1 .. Len(N) /\ ring'[j] = N[j + 1]
        BY <1>11, <1>12, <3>1
      <4>2. PICK k \in 1 .. m : ring'[j] = <<L[k][1], nx[L[k][2]]>>
        BY <1>6, <4>1
      <4> QED
        BY <1>16, <1>22, <4>2
    <3>2. CASE ~(j < Len(N))
      BY <1>5, <1>10, <2>1, <3>2 DEF RingTypes
    <3> QED
      BY <3>1, <3>2
  <2>3. ring' \in [0 .. followupBufferSize - 1 -> Nat \X (Entries \cup {End})]
    <3>1. ring' = [j \in 0 .. batchSize |-> ring'[j]]
      BY <1>4, <1>5
    <3> QED
      BY <2>1, <2>2, <3>1
  <2>4. contCon' \in [followup : 0 .. batchSize, followupWrite : 0 .. batchSize]
    BY <1>5, <1>8
  <2> QED
    BY <1>4, <1>5, <1>7, <2>3, <2>4 DEF RingTypes
<1>30. LiveInv'
  <2>1. \A j \in Live' : ring'[j][1] \in Positions /\ ring'[j][2] \in Slot(ring'[j][1])
    <3> SUFFICES ASSUME NEW j \in Live'
                 PROVE  ring'[j][1] \in Positions /\ ring'[j][2] \in Slot(ring'[j][1])
      OBVIOUS
    <3>1. PICK k \in 1 .. m : nx[L[k][2]] # End /\ ring'[j] = <<L[k][1], nx[L[k][2]]>>
      BY <1>13
    <3> QED
      BY <1>16, <3>1
  <2>2. \A j, k \in Live' : ring'[j][1] = ring'[k][1] => j = k
    <3> SUFFICES ASSUME NEW j \in Live', NEW k \in Live', ring'[j][1] = ring'[k][1] PROVE j = k
      OBVIOUS
    <3>1. /\ j + 1 \in 1 .. Len(N) /\ ring'[j] = N[j + 1] /\ j \in Nat
          /\ k + 1 \in 1 .. Len(N) /\ ring'[k] = N[k + 1] /\ k \in Nat
      BY <1>12
    <3>2. j + 1 = k + 1
      BY <1>6, <3>1
    <3> QED
      BY <3>1, <3>2
  <2>3. \A j : Slot(ring[j][1])' = Slot(ring'[j][1])
    BY <1>17
  <2> QED
    BY <1>5, <2>1, <2>2, <2>3 DEF LiveInv
<1>31. RingInv'
  <2>1. stage' # "followup" /\ followup' = 0 /\ contCon'.followup = 0
    BY <1>4, <1>6, <1>8
  <2>2. nextProbe' >= numProbes' => ringFrom' = ringTo'
    <3>1. nextProbe' = 0 \/ (N = <<>> /\ nextProbe' = numProbes)
      BY <1>4, <1>5
    <3> QED
      BY <1>5, <1>6, <1>9, <3>1
  <2> QED
    BY <1>9, <1>30, <2>1, <2>2 DEF RingInv
<1>32. Space'
  <2>1. Len(matches) + m <= batchSize
    BY <1>1, <1>2, <1>4, <1>5 DEF Space
  <2>2. Len(matches') <= batchSize /\ Len(matches') \in Nat
    BY <1>5, <1>7, <1>23, <1>26, <2>1
  <2>3. stage' = "round" => Len(matches') + followupWrite' <= batchSize
    <3> SUFFICES ASSUME stage' = "round" PROVE Len(matches') + followupWrite' <= batchSize
      OBVIOUS
    <3>1. ~(Len(matches') + Len(N) >= batchSize) /\ followupWrite' = Len(N)
      BY <1>4
    <3> QED
      BY <1>5, <1>7, <2>2, <3>1
  <2> QED
    BY <1>4, <2>2, <2>3 DEF Space
<1> QED
  BY <1>1, <1>20, <1>26, <1>27, <1>28, <1>29, <1>31, <1>32, RingDone

-----------------------------------------------------------------------------
(* What next() does but for the join function *)

\* Between two calls of the join function.
Idle == stage \in {"next", "join", "return", "eos"}

LEMMA IdleFacts ==
  ASSUME UNCHANGED <<join, ringVars, allVars, nextProbe, numProbes>>, Idle, Idle'
  PROVE  /\ ringFrom' = ringFrom /\ ringTo' = ringTo /\ Live' = Live
         /\ (Begun' <=> Begun) /\ (RingJoin' <=> RingJoin)
         /\ \A p, e : Passed(p, e)' <=> Passed(p, e)
<1>1. /\ contCon' = contCon /\ ring' = ring /\ buildMatch' = buildMatch /\ join' = join
      /\ nextProbe' = nextProbe /\ numProbes' = numProbes
  BY DEF ringVars, allVars
<1>2. /\ stage \notin {"round", "followup"} /\ stage' \notin {"round", "followup"}
      /\ stage \notin {"probe", "resume"} /\ stage' \notin {"probe", "resume"}
  BY DEF Idle
<1>3. ringFrom' = ringFrom /\ ringTo' = ringTo
  BY <1>1, <1>2 DEF ringFrom, ringTo
<1>4. Live' = Live /\ (Begun' <=> Begun) /\ (RingJoin' <=> RingJoin)
  BY <1>1, <1>2, <1>3 DEF Live, Begun, RingJoin
<1>5. \A p, e : Passed(p, e)' <=> Passed(p, e)
  BY <1>1, <1>2, <1>4 DEF Passed
<1> QED
  BY <1>3, <1>4, <1>5

LEMMA ContinueStep ==
  ASSUME JoinInv, Continue, UNCHANGED <<join, ringVars, allVars>>
  PROVE  JoinInv'
<1>1. /\ stage = "next" /\ stage' = "join" /\ nextProbe < numProbes
      /\ UNCHANGED <<joinInput, base, nextProbe, numProbes, matches, pairs>>
  BY DEF Continue
<1>2. /\ InputTypes /\ VectorTypes /\ RingTypes /\ RingInv /\ AllTypes /\ Space
      /\ MatchesInv /\ AllDelivered /\ PairsInv /\ matches = <<>>
  BY <1>1 DEF JoinInv, VectorTypes
<1>3. /\ ringFrom' = ringFrom /\ ringTo' = ringTo /\ Live' = Live
      /\ (Begun' <=> Begun) /\ (RingJoin' <=> RingJoin)
      /\ \A p, e : Passed(p, e)' <=> Passed(p, e)
  BY <1>1, IdleFacts DEF Idle
<1>4. /\ Positions' = Positions /\ \A p : TupleAt(p)' = TupleAt(p) /\ Hash(p)' = Hash(p)
      /\ (\A p : Slot(p)' = Slot(p)) /\ probeSel' = probeSel
      /\ \A e, t : Match(e, t)' = Match(e, t)
  BY <1>1, SameVector DEF joinInput
<1>5. InputTypes'
  BY <1>1, <1>2, InputStays
<1>6. nextProbe \in Nat /\ numProbes \in Nat /\ (RingJoin => nextProbe = 0)
  BY <1>1, <1>2 DEF VectorTypes
<1>7. VectorTypes'
  BY <1>1, <1>2, <1>3, <1>6 DEF VectorTypes
<1>8. RingTypes'
  BY <1>2 DEF RingTypes, ringVars
<1>9. RingJoin => LiveInv'
  BY <1>2, <1>3, <1>4 DEF LiveInv, RingInv, ringVars
<1>10. RingInv'
  BY <1>1, <1>2, <1>3, <1>9 DEF RingInv, ringVars
<1>11. AllTypes'
  BY <1>1, <1>2, <1>3, <1>4 DEF AllTypes, allVars
<1>12. Space'
  BY <1>1, <1>2 DEF Space
<1>13. MatchesInv'
  BY <1>1, <1>2, <1>3, <1>4 DEF MatchesInv
<1>14. AllDelivered'
  BY <1>1, <1>2, <1>3, <1>4 DEF AllDelivered, InMatches
<1>15. PairsInv'
  BY <1>1, <1>2, <1>3, <1>4 DEF PairsInv
<1> QED
  BY <1>5, <1>7, <1>8, <1>10, <1>11, <1>12, <1>13, <1>14, <1>15 DEF JoinInv

\* Nothing is left of the matches when the call has returned.
LEMMA NoMatches ==
  ASSUME matches = <<>>
  PROVE  /\ Len(matches) = 0 /\ MatchesInv /\ \A p, e : ~InMatches(p, e)
<1>1. Len(matches) = 0 /\ matches \in Seq(Entries \X Nat) /\ DOMAIN matches = {}
  OBVIOUS
<1> QED
  BY <1>1 DEF MatchesInv, InMatches

LEMMA NoMatchesNext ==
  ASSUME matches' = <<>>
  PROVE  Len(matches') = 0 /\ MatchesInv'
<1>1. Len(matches') = 0 /\ matches' \in Seq(Entries \X Nat) /\ DOMAIN matches' = {}
  OBVIOUS
<1> QED
  BY <1>1 DEF MatchesInv

LEMMA ReturnStep ==
  ASSUME JoinInv, Return, UNCHANGED <<join, ringVars, allVars>>
  PROVE  JoinInv'
<1>1. /\ stage = "return" /\ stage' = "next" /\ matches' = <<>>
      /\ UNCHANGED <<joinInput, base, nextProbe, numProbes>>
  BY DEF Return
<1>2. /\ InputTypes /\ VectorTypes /\ RingTypes /\ RingInv /\ AllTypes /\ Space
      /\ MatchesInv /\ AllDelivered /\ PairsInv
  BY DEF JoinInv
<1>3. /\ ringFrom' = ringFrom /\ ringTo' = ringTo /\ Live' = Live
      /\ (Begun' <=> Begun) /\ (RingJoin' <=> RingJoin)
      /\ \A p, e : Passed(p, e)' <=> Passed(p, e)
  BY <1>1, IdleFacts DEF Idle
<1>4. /\ Positions' = Positions /\ \A p : TupleAt(p)' = TupleAt(p) /\ Hash(p)' = Hash(p)
      /\ (\A p : Slot(p)' = Slot(p)) /\ probeSel' = probeSel
      /\ \A e, t : Match(e, t)' = Match(e, t)
  BY <1>1, SameVector DEF joinInput
<1>5. InputTypes'
  BY <1>1, <1>2, InputStays
<1>6. VectorTypes'
  BY <1>1, <1>2, <1>3 DEF VectorTypes
<1>7. RingTypes'
  BY <1>2 DEF RingTypes, ringVars
<1>8. RingJoin => LiveInv'
  BY <1>2, <1>3, <1>4 DEF LiveInv, RingInv, ringVars
<1>9. RingInv'
  BY <1>1, <1>2, <1>3, <1>8 DEF RingInv, ringVars
<1>10. AllTypes'
  BY <1>1, <1>2, <1>3, <1>4 DEF AllTypes, allVars
<1>11. MatchesInv' /\ Space'
  BY <1>1, ProbeConstants, NoMatchesNext DEF Space
<1>12. /\ pairs' \in [Entries \X Probes -> 0 .. 2]
       /\ \A e \in Entries, t \in Probes :
            /\ ~Hit(e, t) => pairs'[<<e, t>>] = pairs[<<e, t>>]
            /\ Hit(e, t) => pairs'[<<e, t>>] > 0
            /\ Hit(e, t) /\ RingJoin => pairs'[<<e, t>>] = 1
  BY ReturnFacts
<1>13. \A p \in Positions : TupleAt(p) \in Probes
  BY <1>2, PositionFacts
<1>14. ASSUME NEW p \in Positions, NEW e \in Entries, Match(e, TupleAt(p)), Passed(p, e)
       PROVE  pairs'[<<e, TupleAt(p)>>] > 0
  <2>1. TupleAt(p) \in Probes
    BY <1>13
  <2>2. CASE Hit(e, TupleAt(p))
    BY <1>12, <2>1, <2>2
  <2>3. CASE ~Hit(e, TupleAt(p))
    <3>1. ~InMatches(p, e)
      BY <1>14, <2>3 DEF Hit, InMatches
    <3>2. pairs[<<e, TupleAt(p)>>] > 0
      BY <1>2, <1>14, <3>1 DEF AllDelivered
    <3> QED
      BY <1>12, <2>1, <2>3, <3>2
  <2> QED
    BY <2>2, <2>3
<1>15. AllDelivered'
  BY <1>3, <1>4, <1>14 DEF AllDelivered
<1>16. ASSUME NEW e \in Entries, NEW t \in Probes, Hit(e, t)
       PROVE  /\ Match(e, t) /\ ~(t > base + numProbes)
              /\ RingJoin => \A p \in Positions : TupleAt(p) = t => Passed(p, e)
  <2>1. PICK p \in Positions : TupleAt(p) = t /\ InMatches(p, e) /\ Match(e, t)
    BY <1>16 DEF Hit
  <2>2. ~(t > base + numProbes)
    <3>1. p \in Nat /\ p < numProbes /\ base \in Nat /\ numProbes \in Nat /\ t = base + p + 1
      BY <1>2, <2>1, PositionFacts DEF TupleAt, VectorTypes
    <3> QED
      BY <3>1
  <2>3. \A q \in Positions : TupleAt(q) = t => q = p
    BY <1>2, <2>1, PositionFacts
  <2>4. ASSUME RingJoin PROVE Passed(p, e)
    <3>1. PICK j \in DOMAIN matches : matches[j] = <<e, probeSel[p]>>
      BY <2>1 DEF InMatches
    <3>2. PICK q \in Positions, x \in Entries : matches[j] = <<x, probeSel[q]>> /\ Passed(q, x)
      BY <1>2, <2>4, <3>1 DEF MatchesInv
    <3>3. x = e /\ probeSel[q] = probeSel[p]
      BY <3>1, <3>2
    <3>4. q = p
      BY <1>2, <3>3, PositionFacts
    <3> QED
      BY <3>2, <3>3, <3>4
  <2> QED
    BY <2>1, <2>2, <2>3, <2>4
<1>17. \A e \in Entries, t \in Probes :
         /\ pairs'[<<e, t>>] > 0 => Match(e, t)
         /\ RingJoin => pairs'[<<e, t>>] <= 1
         /\ t <= base /\ Match(e, t) => pairs'[<<e, t>>] > 0
         /\ t > base + numProbes => pairs'[<<e, t>>] = 0
  <2> SUFFICES ASSUME NEW e \in Entries, NEW t \in Probes
               PROVE  /\ pairs'[<<e, t>>] > 0 => Match(e, t)
                      /\ RingJoin => pairs'[<<e, t>>] <= 1
                      /\ t <= base /\ Match(e, t) => pairs'[<<e, t>>] > 0
                      /\ t > base + numProbes => pairs'[<<e, t>>] = 0
    OBVIOUS
  <2>1. CASE Hit(e, t)
    BY <1>12, <1>16, <2>1
  <2>2. CASE ~Hit(e, t)
    <3>1. pairs'[<<e, t>>] = pairs[<<e, t>>]
      BY <1>12, <2>2
    <3> QED
      BY <1>2, <3>1 DEF PairsInv
  <2> QED
    BY <2>1, <2>2
<1>18. ASSUME RingJoin, NEW p \in Positions, NEW e \in Entries, pairs'[<<e, TupleAt(p)>>] > 0
       PROVE  Passed(p, e)
  <2>1. TupleAt(p) \in Probes
    BY <1>13
  <2>2. CASE Hit(e, TupleAt(p))
    BY <1>16, <1>18, <2>1, <2>2
  <2>3. CASE ~Hit(e, TupleAt(p))
    BY <1>2, <1>12, <1>18, <2>1, <2>3 DEF PairsInv
  <2> QED
    BY <2>2, <2>3
<1>19. PairsInv'
  BY <1>1, <1>3, <1>4, <1>12, <1>17, <1>18 DEF PairsInv
<1> QED
  BY <1>5, <1>6, <1>7, <1>9, <1>10, <1>11, <1>15, <1>19 DEF JoinInv

\* The old vector is used up: whatever it has is returned.
LEMMA PullVectorStep ==
  ASSUME JoinInv, PullVector, UNCHANGED <<join, ringVars, allVars>>
  PROVE  JoinInv'
<1>1. /\ stage = "next" /\ nextProbe >= numProbes /\ base' = base + numProbes /\ nextProbe' = 0
      /\ \/ base' = NProbe /\ stage' = "eos" /\ numProbes' = 0
         \/ stage' = "join" /\ numProbes' \in 1 .. batchSize /\ base' + numProbes' <= NProbe
      /\ UNCHANGED <<joinInput, matches, pairs>>
  BY DEF PullVector
<1>2. /\ InputTypes /\ VectorTypes /\ RingTypes /\ RingInv /\ AllTypes /\ Space
      /\ AllDelivered /\ PairsInv /\ matches = <<>> /\ matches' = <<>>
  BY <1>1 DEF JoinInv, VectorTypes
<1>3. /\ base \in Nat /\ nextProbe \in Nat /\ numProbes \in Nat /\ base' \in Nat
      /\ numProbes' \in 0 .. batchSize /\ base' + numProbes' <= NProbe /\ numProbes' \in Nat
      /\ batchSize \in Nat /\ NProbe \in Nat /\ base' = base + numProbes /\ nextProbe' = 0
  BY <1>1, <1>2, ProbeConstants DEF VectorTypes
<1>4. /\ contCon' = contCon /\ ring' = ring /\ buildMatch' = buildMatch /\ entry' = entry
      /\ probeSel' = probeSel /\ join' = join /\ (RingJoin' <=> RingJoin)
  BY <1>1 DEF ringVars, allVars, joinInput, RingJoin
<1>5. InputTypes'
  BY <1>1, <1>2, <1>4, InputStays
<1>6. VectorTypes'
  <2>1. /\ stage' \in {"join", "eos"} /\ (stage' = "join" => nextProbe' < numProbes')
        /\ (stage' = "eos" => base' = NProbe)
    <3>1. CASE base' = NProbe /\ stage' = "eos" /\ numProbes' = 0
      BY <3>1
    <3>2. CASE stage' = "join" /\ numProbes' \in 1 .. batchSize
      <4>1. 0 < numProbes'
        BY <1>3, <3>2
      <4> QED
        BY <1>3, <3>2, <4>1
    <3> QED
      BY <1>1, <3>1, <3>2
  <2> QED
    BY <1>2, <1>3, <1>4, <2>1 DEF VectorTypes
<1>7. RingTypes'
  BY <1>2 DEF RingTypes, ringVars
<1>8. /\ ringFrom = contCon.followup /\ ringTo = contCon.followupWrite
      /\ ringFrom' = ringFrom /\ ringTo' = ringTo
  BY <1>1, <1>4 DEF ringFrom, ringTo
<1>9. ASSUME RingJoin
      PROVE  Live = {} /\ Live' = {} /\ ringFrom = 0 /\ ringTo = 0 /\ Begun
  <2>1. ringFrom = 0 /\ ringTo = 0
    BY <1>1, <1>2, <1>9 DEF RingInv
  <2>2. \A j \in DOMAIN ring : ~InRing(j, 0, 0)
    <3>1. \A j \in 0 .. followupBufferSize - 1 : ~InRing(j, 0, 0)
      BY <1>3, ProbeConstants DEF InRing
    <3> QED
      BY <1>2, <3>1 DEF RingTypes
  <2>3. Live = {} /\ Live' = {}
    BY <1>4, <1>8, <2>1, <2>2 DEF Live
  <2> QED
    BY <1>1, <2>1, <2>3 DEF Begun
<1>10. RingInv'
  <2>1. RingJoin => LiveInv'
    BY <1>9 DEF LiveInv
  <2>2. join' = "joinBoncz" => followup' = 0 /\ contCon'.followup = 0
    BY <1>2, <1>4 DEF RingInv, RingJoin, ringVars
  <2> QED
    BY <1>1, <1>4, <1>8, <1>9, <2>1, <2>2 DEF RingInv
<1>11. ~RingJoin => buildMatch = End
  BY <1>1, <1>2 DEF AllTypes
<1>12. AllTypes'
  <2>1. stage' \in {"join", "eos"}
    BY <1>1
  <2>2. /\ entry' \in Entries \cup {End} /\ buildMatch' \in Entries \cup {End}
        /\ probing' \in Nat /\ probeHash' \in Nat
    BY <1>2 DEF AllTypes, allVars
  <2>3. ~RingJoin' => buildMatch' = End
    BY <1>4, <1>11
  <2>4. nextProbe' <= numProbes'
    BY <1>3
  <2> QED
    BY <2>1, <2>2, <2>3, <2>4 DEF AllTypes
<1>13. MatchesInv' /\ Space'
  BY <1>1, <1>2, <1>3, NoMatchesNext DEF Space
<1>14. \A p \in Positions' : /\ p \in Nat /\ stage' = "join" /\ nextProbe' < numProbes'
                             /\ TupleAt(p)' = base' + p + 1 /\ TupleAt(p)' > base + numProbes
  <2> SUFFICES ASSUME NEW p \in Positions'
               PROVE  /\ p \in Nat /\ stage' = "join" /\ nextProbe' < numProbes'
                      /\ TupleAt(p)' = base' + p + 1 /\ TupleAt(p)' > base + numProbes
    OBVIOUS
  <2>1. p \in 0 .. numProbes' - 1
    BY DEF Positions
  <2>5. PICK b, m : b = base' /\ m = numProbes'
    OBVIOUS
  <2>2. p \in Nat /\ 0 < numProbes' /\ base' + p + 1 > base + numProbes
    <3>1. b \in Nat /\ m \in Nat /\ p \in 0 .. m - 1
      BY <1>3, <2>5, <2>1
    <3>2. p \in Nat /\ 0 < m /\ b + p + 1 > b
      BY <3>1
    <3> QED
      BY <1>3, <2>5, <3>2
  <2>3. stage' = "join"
    <3>1. stage' = "join" \/ numProbes' = 0
      BY <1>1
    <3>2. numProbes' # 0
      BY <1>3, <2>2
    <3> QED
      BY <3>1, <3>2
  <2>4. TupleAt(p)' = base' + p + 1
    BY DEF TupleAt
  <2> QED
    BY <1>1, <2>2, <2>3, <2>4
<1>15. ASSUME NEW p \in Positions', NEW e PROVE ~Passed(p, e)'
  <2>1. p \in Nat /\ stage' = "join" /\ nextProbe' = 0 /\ ~(nextProbe' >= numProbes')
    BY <1>1, <1>3, <1>14
  <2>2. CASE RingJoin
    <3>1. ~Begun'
      BY <1>8, <1>9, <2>1, <2>2 DEF Begun
    <3> QED
      BY <1>4, <2>2, <3>1, RingPassedNext
  <2>3. CASE ~RingJoin
    BY <1>4, <1>11, <2>1, <2>3, AllPassedNext
  <2> QED
    BY <2>2, <2>3
<1>16. AllDelivered'
  BY <1>15 DEF AllDelivered
<1>17. ASSUME NEW p \in Positions, NEW e PROVE Passed(p, e)
  <2>1. CASE RingJoin
    BY <1>9, <2>1, RingPassed
  <2>2. CASE ~RingJoin
    <3>1. p \in Nat /\ p < numProbes
      BY <1>2, PositionFacts
    <3>2. p < nextProbe
      BY <1>1, <1>3, <3>1
    <3> QED
      BY <1>1, <2>2, <3>2, AllPassed
  <2> QED
    BY <2>1, <2>2
<1>18. \A e \in Entries, t \in Probes : t <= base' /\ Match(e, t) => pairs[<<e, t>>] > 0
  <2> SUFFICES ASSUME NEW e \in Entries, NEW t \in Probes, t <= base', Match(e, t)
               PROVE  pairs[<<e, t>>] > 0
    OBVIOUS
  <2>1. CASE t <= base
    BY <1>2, <2>1 DEF PairsInv
  <2>2. CASE ~(t <= base)
    <3>1. base < t /\ t <= base + numProbes
      BY <1>1, <1>3, <2>2 DEF Probes
    <3>2. PICK p \in Positions : TupleAt(p) = t
      BY <1>2, <3>1, PositionFacts
    <3>3. pairs[<<e, t>>] > 0 \/ InMatches(p, e)
      BY <1>2, <1>17, <3>2 DEF AllDelivered
    <3>4. ~InMatches(p, e)
      BY <1>2, NoMatches
    <3> QED
      BY <3>3, <3>4
  <2> QED
    BY <2>1, <2>2
<1>19. \A e \in Entries, t \in Probes : t > base + numProbes => pairs[<<e, t>>] = 0
  BY <1>2 DEF PairsInv
<1>20. PairsInv'
  <2>1. \A e, t : Match(e, t)' <=> Match(e, t)
    BY <1>1 DEF Match, joinInput
  <2>2. \A t \in Probes : t > base' + numProbes' => t > base + numProbes
    <3> SUFFICES ASSUME NEW t \in Probes, t > base' + numProbes' PROVE t > base + numProbes
      OBVIOUS
    <3>1. PICK b, m : b = base' /\ m = numProbes'
      OBVIOUS
    <3>2. b \in Nat /\ m \in Nat /\ t > b + m /\ t \in Nat
      <4>1. t \in Nat
        BY <1>3 DEF Probes
      <4> QED
        BY <1>3, <3>1, <4>1
    <3>3. t > b
      BY <3>2
    <3> QED
      BY <1>3, <3>1, <3>3
  <2>3. ASSUME NEW p \in Positions', NEW e \in Entries PROVE pairs[<<e, TupleAt(p)'>>] = 0
    <3>1. TupleAt(p)' \in Probes /\ TupleAt(p)' > base + numProbes
      <4>1. TupleAt(p)' \in Probes
        <5>1. p \in 0 .. numProbes' - 1 /\ TupleAt(p)' = base' + p + 1
          BY <1>14 DEF Positions
        <5>2. base' + p + 1 \in 1 .. NProbe
          <6>1. PICK b, m : b = base' /\ m = numProbes'
            OBVIOUS
          <6>2. b \in Nat /\ m \in Nat /\ p \in 0 .. m - 1 /\ b + m <= NProbe /\ NProbe \in Nat
            BY <1>3, <5>1, <6>1
          <6>3. b + p + 1 \in 1 .. NProbe
            BY <6>2
          <6> QED
            BY <6>1, <6>3
        <5> QED
          BY <5>1, <5>2 DEF Probes
      <4> QED
        BY <1>14, <4>1
    <3> QED
      BY <1>19, <3>1
  <2>4. \A e \in Entries, t \in Probes :
          /\ pairs[<<e, t>>] > 0 => Match(e, t)
          /\ RingJoin => pairs[<<e, t>>] <= 1
    BY <1>2 DEF PairsInv
  <2>5. \A p \in Positions', e \in Entries : ~(pairs[<<e, TupleAt(p)'>>] > 0)
    <3> SUFFICES ASSUME NEW p \in Positions', NEW e \in Entries
                 PROVE  ~(pairs[<<e, TupleAt(p)'>>] > 0)
      OBVIOUS
    <3>1. pairs[<<e, TupleAt(p)'>>] = 0
      BY <2>3
    <3>2. ~(0 > 0)
      OBVIOUS
    <3> QED
      BY <3>1, <3>2
  <2>6. pairs \in [Entries \X Probes -> 0 .. 2]
    BY <1>2 DEF PairsInv
  <2> QED
    BY <1>1, <1>4, <1>18, <1>19, <2>1, <2>2, <2>4, <2>5, <2>6 DEF PairsInv
<1> QED
  BY <1>5, <1>6, <1>7, <1>10, <1>12, <1>13, <1>16, <1>20 DEF JoinInv

-----------------------------------------------------------------------------
(* The whole *)

LEMMA JoinInitHolds ==
  ASSUME JoinInit
  PROVE  JoinInv
<1>1. /\ buildKey \in [Entries -> Keys] /\ memory = Scattered(buildKey)
      /\ next = [e \in Entries |-> First({f \in SlotEntries(EntryHash(e)) : f > e})]
      /\ chain = [h \in 0 .. NHashes - 1 |-> find_chain_tagged(h)]
      /\ probeKey \in [Probes -> Keys] /\ probeSel \in ProbeSels \cup {Dense}
      /\ stage = "next" /\ base = 0 /\ nextProbe = 0 /\ numProbes = 0 /\ matches = <<>>
      /\ pairs = [p \in Entries \X Probes |-> 0]
      /\ join \in IF probeSel = Dense
                  THEN {"joinAllParallel", "joinBoncz", "joinAll"}
                  ELSE {"joinSelParallel", "joinSel"}
      /\ contCon = [followup |-> 0, followupWrite |-> 0]
      /\ followup = 0 /\ followupWrite = 0
      /\ ring = [j \in 0 .. followupBufferSize - 1 |-> <<0, End>>]
      /\ todo = 0 /\ more = FALSE
      /\ probeHash = 0 /\ buildMatch = End /\ probing = 0 /\ entry = End
  BY DEF JoinInit, ProbeInit
<1>2. InputTypes
  BY <1>1 DEF InputTypes
<1>3. VectorTypes
  BY <1>1, ProbeConstants DEF VectorTypes
<1>4. RingTypes
  <2>1. 0 \in 0 .. batchSize /\ 0 \in Nat
    BY ProbeConstants
  <2>2. ring \in [0 .. followupBufferSize - 1 -> Nat \X (Entries \cup {End})]
    BY <1>1
  <2> QED
    BY <1>1, <2>1, <2>2 DEF RingTypes
<1>5. ringFrom = 0 /\ ringTo = 0
  BY <1>1 DEF ringFrom, ringTo
<1>6. Live = {}
  BY <1>1, <1>5, ProbeConstants DEF Live, InRing
<1>7. RingInv
  BY <1>1, <1>5, <1>6 DEF RingInv, LiveInv
<1>8. AllTypes
  BY <1>1 DEF AllTypes
<1>9. MatchesInv /\ Space
  BY <1>1, ProbeConstants, NoMatches DEF Space
<1>10. Positions = {}
  BY <1>1 DEF Positions
<1>11. AllDelivered
  BY <1>10 DEF AllDelivered
<1>12. PairsInv
  <2>1. \A e \in Entries, t \in Probes : pairs[<<e, t>>] = 0
    BY <1>1
  <2>2. \A t \in Probes : ~(t <= base)
    BY <1>1, ProbeConstants DEF Probes
  <2>3. pairs \in [Entries \X Probes -> 0 .. 2]
    BY <1>1
  <2> QED
    BY <1>10, <2>1, <2>2, <2>3 DEF PairsInv
<1> QED
  BY <1>2, <1>3, <1>4, <1>7, <1>8, <1>9, <1>11, <1>12 DEF JoinInv

LEMMA JoinStutters ==
  ASSUME JoinInv, UNCHANGED joinVars
  PROVE  JoinInv'
<1>1. UNCHANGED <<buildKey, memory, next, chain, probeKey, probeSel, stage, base, nextProbe,
                  numProbes, matches, pairs, join, contCon, followup, followupWrite, ring, todo,
                  more, probeHash, buildMatch, probing, entry>>
  BY DEF joinVars, probeVars, joinInput, ringVars, allVars
<1>2. UNCHANGED <<joinInput, join, ringVars, allVars, base, numProbes, pairs, matches>>
  BY <1>1 DEF joinInput, ringVars, allVars
<1>3. RingJoin' <=> RingJoin
  BY <1>1 DEF RingJoin
<1>4. Positions' = Positions /\ (\A p : Slot(p)' = Slot(p)) /\ (\A p : Hash(p)' = Hash(p))
      /\ (\A p : TupleAt(p)' = TupleAt(p)) /\ \A e, t : Match(e, t)' = Match(e, t)
  BY <1>2, SameVector
<1>5. InputTypes' /\ VectorTypes' /\ Space' /\ RingTypes'
  BY <1>1, <1>2, <1>3, InputStays DEF JoinInv, VectorTypes, Space, RingTypes
<1>6. ringFrom' = ringFrom /\ ringTo' = ringTo /\ Live' = Live /\ (Begun' <=> Begun)
  BY <1>1 DEF ringFrom, ringTo, Live, Begun
<1>7. \A p, e : Passed(p, e)' <=> Passed(p, e)
  BY <1>1, <1>3, <1>6 DEF Passed
<1>8. RingInv /\ AllTypes /\ MatchesInv /\ AllDelivered /\ PairsInv
  BY DEF JoinInv
<1>9. RingJoin => LiveInv'
  BY <1>1, <1>4, <1>6, <1>8 DEF LiveInv, RingInv
<1>10. RingInv'
  BY <1>1, <1>3, <1>6, <1>8, <1>9 DEF RingInv, Waiting
<1>11. AllTypes'
  BY <1>1, <1>3, <1>4, <1>8 DEF AllTypes
<1>12. MatchesInv'
  BY <1>1, <1>3, <1>4, <1>7, <1>8 DEF MatchesInv
<1>13. AllDelivered'
  BY <1>1, <1>4, <1>7, <1>8 DEF AllDelivered, InMatches
<1>14. PairsInv'
  BY <1>1, <1>3, <1>4, <1>7, <1>8 DEF PairsInv
<1> QED
  BY <1>5, <1>10, <1>11, <1>12, <1>13, <1>14 DEF JoinInv

\* The invariant of the join, for any tables, hashes and sizes and each function.
THEOREM JoinInductive == JoinSpec => []JoinInv
<1>1. JoinInit => JoinInv
  BY JoinInitHolds
<1>2. JoinInv /\ [JoinNext]_joinVars => JoinInv'
  <2> SUFFICES ASSUME JoinInv, [JoinNext]_joinVars PROVE JoinInv'
    OBVIOUS
  <2>1. CASE PullVector /\ UNCHANGED <<join, ringVars, allVars>>
    BY <2>1, PullVectorStep
  <2>2. CASE Continue /\ UNCHANGED <<join, ringVars, allVars>>
    BY <2>2, ContinueStep
  <2>3. CASE Return /\ UNCHANGED <<join, ringVars, allVars>>
    BY <2>3, ReturnStep
  <2>4. CASE (joinAllParallel \/ joinSelParallel) /\ UNCHANGED allVars
    <3>1. join \in {"joinAllParallel", "joinSelParallel"} /\ FollowupStep
      BY <2>4 DEF joinAllParallel, joinSelParallel
    <3> QED
      BY <2>4, <3>1, FirstPassStep, RoundStep, FollowupHolds, RoundEndStep, DrainedStep
         DEF FollowupStep
  <2>5. CASE joinBoncz /\ UNCHANGED allVars
    BY <2>5, BonczFirstStep, BonczRoundStep, BonczNoneStep DEF joinBoncz
  <2>6. CASE (joinAll \/ joinSel) /\ UNCHANGED <<join, ringVars>>
    BY <2>6, AllSteps DEF joinAll, joinSel, RingJoin
  <2>7. CASE UNCHANGED joinVars
    BY <2>7, JoinStutters
  <2> QED
    BY <2>1, <2>2, <2>3, <2>4, <2>5, <2>6, <2>7 DEF JoinNext, JoinStep, JoinStop, Operator
<1> QED
  BY <1>1, <1>2, PTL DEF JoinSpec

\* BuffersHold: whatever the number of tuples, the lengths of the chains and the
\* size of a vector, no join function writes behind its buffers.
THEOREM JoinBuffers == JoinSpec => []BuffersHold
<1>1. JoinInv => BuffersHold
  BY DEF JoinInv, Space, BuffersHold
<1> QED
  BY <1>1, JoinInductive, PTL

\* JoinExact: the pairs that are returned are those with equal keys, all of them
\* when the probe side has ended, and with a ring each once.
THEOREM JoinAnswers == JoinSpec => []JoinExact
<1>1. ASSUME JoinInv PROVE JoinExact
  <2>1. InputTypes /\ VectorTypes /\ MatchesInv /\ PairsInv
    BY <1>1 DEF JoinInv
  <2>2. ASSUME NEW p \in Entries \X Probes
        PROVE  LET match == buildKey[p[1]] = probeKey[p[2]]
               IN  /\ pairs[p] > 0 => match
                   /\ Ended /\ match => pairs[p] > 0
                   /\ pairs[p] > 1 => join \in {"joinAll", "joinSel"}
    <3>1. PICK e \in Entries, t \in Probes : p = <<e, t>>
      BY <2>2
    <3>2. pairs[p] \in 0 .. 2
      BY <2>1 DEF PairsInv
    <3>3. Match(e, t) <=> buildKey[p[1]] = probeKey[p[2]]
      BY <3>1 DEF Match
    <3>4. pairs[p] > 0 => Match(e, t)
      BY <2>1, <3>1 DEF PairsInv
    <3>5. Ended /\ Match(e, t) => pairs[p] > 0
      <4>1. Ended => t <= base
        BY <2>1, ProbeConstants DEF Ended, VectorTypes, Probes
      <4> QED
        BY <2>1, <3>1, <4>1 DEF PairsInv
    <3>6. RingJoin => pairs[p] <= 1
      BY <2>1, <3>1 DEF PairsInv
    <3>7. pairs[p] > 1 => join \in {"joinAll", "joinSel"}
      <4>1. pairs[p] > 1 => ~RingJoin
        BY <3>2, <3>6
      <4> QED
        BY <2>1, <4>1 DEF RingJoin, InputTypes
    <3> QED
      BY <3>3, <3>4, <3>5, <3>7
  <2>3. \A j \in DOMAIN matches : \E p \in 0 .. numProbes - 1 : matches[j][2] = probeSel[p]
    <3> SUFFICES ASSUME NEW j \in DOMAIN matches
                 PROVE  \E p \in Positions : matches[j][2] = probeSel[p]
      BY DEF Positions
    <3>1. PICK p \in Positions, e \in Entries : matches[j] = <<e, probeSel[p]>>
      BY <2>1 DEF MatchesInv
    <3> QED
      BY <3>1
  <2> QED
    BY <2>2, <2>3 DEF JoinExact
<1> QED
  BY <1>1, JoinInductive, PTL

-----------------------------------------------------------------------------
(* The hybrid query.  EachTupleOnce holds in the case WorkersCountRows only:  *)
(* then the count of tuples is where the worker is in the relation.           *)

\* The row at which the next vector of a worker begins.
Frontier(w) == IF needsInit[w] THEN 0 ELSE Begin(currentChunk[w], vecInChunk[w])

\* A worker that is alone gets one chunk after the other.
ChunkOf(w) == pos = IF needsInit[w] THEN 0 ELSE currentChunk[w] + 1

HybridTypes ==
  /\ selected \in Qualifying
  /\ loopAt \in [Workers -> {"fetch", "check", "evaluate", "count", "store", "done"}]
  /\ aggregator \in [Workers -> [Rows -> Nat]] /\ atomicAggr \in [Rows -> Nat]
  /\ processedTuples \in Nat
  /\ main \in {"workers", "typer", "returned", "threw"}

\* What was counted ends where the vector of the worker begins, and what was added up
\* are the rows before, or with those of the vector until that is counted.
CountedInv(w) ==
  main = "workers" =>
    /\ loopAt[w] = "fetch" => ~exhausted[w] /\ processedTuples = Frontier(w)
    /\ loopAt[w] \in {"check", "evaluate", "count"} =>
         /\ processedTuples + vecSize = Frontier(w) /\ ~exhausted[w]
         /\ batch[w] = {r \in Rows : processedTuples <= r /\ r < processedTuples + vecSize}
    /\ loopAt[w] # "done" =>
         /\ atomicAggr = Zero
         /\ aggregator[w] = SumOver(0 .. processedTuples - 1
                                           + (IF loopAt[w] = "count" THEN vecSize ELSE 0))
    /\ loopAt[w] = "done" => atomicAggr = SumOver(0 .. processedTuples - 1)

\* Typer begins with the sum of the rows before the first that it adds.
HandedOver ==
  /\ main \in {"typer", "returned"} =>
       /\ processedTuples <= nrTuples
       /\ atomicAggr = SumOver(0 .. processedTuples - 1)
  /\ main = "returned" => revenue = SumOver(Rows)

HybridInv ==
  /\ IInv /\ HybridTypes /\ HandedOver
  /\ \A w \in Workers : ChunkOf(w) /\ CountedInv(w) /\ (main # "workers" => loopAt[w] = "done")

\* A call of next() by a worker that is alone: the vector at its frontier, or the end.
LEMMA SoleNext ==
  ASSUME IInv, NEW w \in Workers, Workers = {w}, ChunkOf(w), ScanNext(w)
  PROVE  /\ ChunkOf(w)' /\ Frontier(w) \in Nat
         /\ \/ exhausted'[w]
            \/ /\ ~exhausted'[w] /\ Frontier(w) < nrTuples
               /\ Frontier(w)' = Frontier(w) + vecSize
               /\ batch'[w] = {r \in Rows : Frontier(w) <= r /\ r < Frontier(w) + vecSize}
<1>1. PICK k, used, step : Places(w, k, used, step)
  BY NextPlaces
<1>2. /\ k \in Nat /\ used \in Nat /\ Begin(k, used) \in Nat
      /\ Begin(k, used + 1) = Begin(k, used) + vecSize
      /\ vecSize \in Nat /\ nrTuples \in Nat
      /\ needsInit' = [needsInit EXCEPT ![w] = FALSE]
      /\ currentChunk' = [currentChunk EXCEPT ![w] = k]
  BY <1>1, PlaceFacts
<1>3. /\ needsInit \in [Workers -> BOOLEAN] /\ currentChunk \in [Workers -> Nat] /\ pos \in Nat
      /\ vecInChunk \in [Workers -> 0 .. scanChunkSize]
      /\ exhausted \in [Workers -> BOOLEAN] /\ batch \in [Workers -> SUBSET Rows]
  BY DEF IInv, TypeOK
<1>4. Frontier(w) = Begin(k, used) /\ pos' = k + 1
  <2>1. CASE ~needsInit[w] /\ k = currentChunk[w] /\ used = vecInChunk[w] /\ pos' = pos
    BY <2>1 DEF Frontier, ChunkOf
  <2>2. CASE vecInChunk[w] = scanChunkSize /\ k = pos /\ used = 0 /\ pos' = pos + 1
    <3>1. CASE needsInit[w]
      <4>1. 0 * scanChunkSize + 0 = 0 /\ 0 * vecSize = 0
        BY <1>2, ChunkSize
      <4> QED
        BY <2>2, <3>1, <4>1 DEF Frontier, ChunkOf, Begin
    <3>2. CASE ~needsInit[w]
      <4>1. Begin(currentChunk[w], scanChunkSize) = Begin(currentChunk[w] + 1, 0)
        BY <1>3, BeginFacts
      <4> QED
        BY <2>2, <3>2, <4>1 DEF Frontier, ChunkOf
    <3> QED
      BY <3>1, <3>2
  <2> QED
    BY <1>1, <2>1, <2>2 DEF Places
<1>5. ~needsInit'[w] /\ currentChunk'[w] = k
  BY <1>2, <1>3
<1>6. ChunkOf(w)'
  BY <1>4, <1>5 DEF ChunkOf
<1>7. lastOffset[w] + step * vecSize = Begin(k, used) /\ Advance(w, step, used) /\ ~exhausted[w]
  BY <1>1 DEF Places
<1>8. CASE Begin(k, used) >= nrTuples
  BY <1>2, <1>3, <1>4, <1>6, <1>7, <1>8 DEF Advance
<1>9. CASE ~(Begin(k, used) >= nrTuples)
  <2>1. /\ vecInChunk' = [vecInChunk EXCEPT ![w] = used + 1]
        /\ batch' = [batch EXCEPT ![w] =
             {r \in Rows : Begin(k, used) <= r /\ r < Begin(k, used) + vecSize}]
        /\ exhausted' = exhausted
    BY <1>7, <1>9 DEF Advance
  <2>2. Frontier(w)' = Begin(k, used + 1)
    <3>1. vecInChunk'[w] = used + 1
      BY <1>3, <2>1
    <3> QED
      BY <1>5, <3>1 DEF Frontier, Begin
  <2> QED
    BY <1>2, <1>3, <1>4, <1>6, <1>7, <1>9, <2>1, <2>2
<1> QED
  BY <1>8, <1>9

\* The frontier is at the begin of a vector, so that a row of that vector qualifies.
LEMMA SomeQualifies ==
  ASSUME IInv, WorkersCountRows, selected \in Qualifying, NEW w \in Workers,
         Frontier(w) < nrTuples
  PROVE  \E r \in selected : Frontier(w) <= r /\ r < Frontier(w) + vecSize
<1>1. \E v \in Nat : Frontier(w) = v * vecSize
  <2>1. CASE needsInit[w]
    <3>1. 0 * vecSize = 0
      BY ScanAssumption
    <3> QED
      BY <2>1, <3>1 DEF Frontier
  <2>2. CASE ~needsInit[w]
    <3>1. currentChunk[w] \in Nat /\ vecInChunk[w] \in Nat /\ scanChunkSize \in Nat
      BY ChunkSize DEF IInv, TypeOK
    <3>2. currentChunk[w] * scanChunkSize + vecInChunk[w] \in Nat
      BY <3>1
    <3> QED
      BY <2>2, <3>2 DEF Frontier, Begin
  <2> QED
    BY <2>1, <2>2
<1>2. PICK v \in Nat : Frontier(w) = v * vecSize
  BY <1>1
<1>3. vecSize \in Nat /\ vecSize >= 1 /\ nrTuples \in Nat
  BY ScanAssumption
<1>4. \A a, b \in Nat : b >= 1 => a <= a * b /\ (a + 1) * b = a * b + b
  OBVIOUS
<1>5. v <= v * vecSize /\ (v + 1) * vecSize = v * vecSize + vecSize /\ v * vecSize \in Nat
  BY <1>3, <1>4
<1>6. v \in 0 .. nrTuples
  BY <1>2, <1>3, <1>5
<1> QED
  BY <1>2, <1>5, <1>6 DEF WorkersCountRows

\* Sums of the rows up to here, of a vector, and of the rest make sums of more rows.
LEMMA SumsAdd ==
  ASSUME NEW m \in Nat, NEW d \in Nat
  PROVE  /\ SumOver(0 .. m - 1) \in [Rows -> Nat]
         /\ Plus(SumOver(0 .. m - 1), SumOver({r \in Rows : m <= r /\ r < m + d}))
              = SumOver(0 .. m + d - 1)
         /\ m <= nrTuples =>
              Plus(SumOver(0 .. m - 1), SumOver(m .. nrTuples - 1)) = SumOver(Rows)
         /\ nrTuples < m => SumOver(0 .. nrTuples - 1) = SumOver(0 .. m - 1)
         /\ Plus(Zero, SumOver(0 .. m - 1)) = SumOver(0 .. m - 1)
<1>1. nrTuples \in Nat /\ \A r \in Rows : r \in Nat /\ r < nrTuples
  BY ScanAssumption DEF Rows
<1>2. SumOver(0 .. m - 1) \in [Rows -> Nat]
  BY DEF SumOver
<1>3. Plus(SumOver(0 .. m - 1), SumOver({r \in Rows : m <= r /\ r < m + d}))
        = SumOver(0 .. m + d - 1)
  <2>1. \A r \in Rows : r \in 0 .. m + d - 1 <=> r \in 0 .. m - 1 \/ (m <= r /\ r < m + d)
    BY <1>1
  <2>2. \A r \in Rows : ~(r \in 0 .. m - 1 /\ m <= r)
    BY <1>1
  <2> QED
    BY <2>1, <2>2 DEF Plus, SumOver
<1>4. ASSUME m <= nrTuples
      PROVE  Plus(SumOver(0 .. m - 1), SumOver(m .. nrTuples - 1)) = SumOver(Rows)
  <2>1. \A r \in Rows : (r \in 0 .. m - 1) # (r \in m .. nrTuples - 1)
    BY <1>1
  <2> QED
    BY <2>1 DEF Plus, SumOver
<1>5. ASSUME nrTuples < m PROVE SumOver(0 .. nrTuples - 1) = SumOver(0 .. m - 1)
  <2>1. \A r \in Rows : r \in 0 .. nrTuples - 1 /\ r \in 0 .. m - 1
    BY <1>1, <1>5
  <2> QED
    BY <2>1 DEF SumOver
<1>6. Plus(Zero, SumOver(0 .. m - 1)) = SumOver(0 .. m - 1)
  BY DEF Plus, SumOver, Zero
<1> QED
  BY <1>2, <1>3, <1>4, <1>5, <1>6

LEMMA HybridInitHolds == WorkersCountRows /\ HybridInit => HybridInv
<1> SUFFICES ASSUME WorkersCountRows, HybridInit PROVE HybridInv
  OBVIOUS
<1>1. IInv
  BY InitIInv DEF HybridInit
<1>2. Zero \in [Rows -> Nat] /\ SumOver(0 .. 0 - 1) = Zero
  BY DEF Zero, SumOver
<1>3. HybridTypes
  BY <1>2 DEF HybridInit, HybridTypes
<1>4. ASSUME NEW w \in Workers PROVE ChunkOf(w) /\ CountedInv(w)
  <2>1. needsInit[w] /\ pos = 0 /\ ~exhausted[w] /\ loopAt[w] = "fetch" /\ aggregator[w] = Zero
    BY DEF HybridInit, Init
  <2>2. 0 - 1 + 0 = 0 - 1
    OBVIOUS
  <2> QED
    BY <1>2, <2>1, <2>2 DEF HybridInit, ChunkOf, CountedInv, Frontier
<1>5. main = "workers"
  BY DEF HybridInit
<1> QED
  BY <1>1, <1>3, <1>4, <1>5 DEF HybridInv, HandedOver

\* While a worker is in its loop, the caller waits for it.
LEMMA CallerWaits ==
  ASSUME HybridInv, NEW w \in Workers, loopAt[w] # "done"
  PROVE  main = "workers"
BY DEF HybridInv

\* The steps of a worker, and of the others: what they leave alone is not in the invariant.
LEMMA ScanKept ==
  ASSUME HybridInv, UNCHANGED scanVars
  PROVE  IInv' /\ \A w \in Workers : ChunkOf(w)' /\ Frontier(w)' = Frontier(w)
<1>1. IInv'
  BY NextIInv DEF HybridInv
<1> QED
  BY <1>1 DEF HybridInv, ChunkOf, Frontier, Begin, scanVars

LEMMA LinkKeeps ==
  ASSUME HybridInv, NEW r, Link(r)
  PROVE  HybridInv'
<1>1. IInv' /\ \A w \in Workers : ChunkOf(w)' /\ Frontier(w)' = Frontier(w)
  BY ScanKept DEF Link
<1>2. UNCHANGED <<scanVars, selected, loopAt, aggregator, atomicAggr, processedTuples, main,
                  revenue>>
  BY DEF Link
<1>3. HybridTypes' /\ HandedOver'
  BY <1>2 DEF HybridInv, HybridTypes, HandedOver, SumOver
<1>4. \A w \in Workers : CountedInv(w)'
  BY <1>1, <1>2 DEF HybridInv, CountedInv, scanVars, SumOver
<1> QED
  BY <1>1, <1>2, <1>3, <1>4 DEF HybridInv

LEMMA ChildNextKeeps ==
  ASSUME HybridInv, WorkersCountRows, NEW w \in Workers, ChildNext(w)
  PROVE  HybridInv'
<1>1. Workers = {w} /\ selected \in Qualifying /\ IInv /\ ChunkOf(w) /\ HybridTypes
  BY DEF WorkersCountRows, HybridInv, HybridTypes
<1>2. ScanNext(w) /\ loopAt[w] = "fetch"
  BY DEF ChildNext
<1>3. main = "workers" /\ CountedInv(w)
  BY <1>2, CallerWaits DEF HybridInv
<1>4. /\ ~exhausted[w] /\ processedTuples = Frontier(w) /\ atomicAggr = Zero
      /\ aggregator[w] = SumOver(0 .. processedTuples - 1 + 0)
  BY <1>2, <1>3 DEF CountedInv
<1>5. [Next]_scanVars
  BY <1>2 DEF Next
<1>6. IInv'
  BY <1>1, <1>5, NextIInv
<1>7. UNCHANGED <<selected, typerLib, compiler, aggregator, atomicAggr, processedTuples, main,
                  revenue>>
  BY DEF ChildNext
<1>8. loopAt' = [loopAt EXCEPT ![w] = IF exhausted'[w] THEN "store"
                                     ELSE IF batch'[w] \cap selected = {} THEN "fetch"
                                     ELSE "check"]
  BY DEF ChildNext
<1>9. /\ ChunkOf(w)' /\ Frontier(w) \in Nat
      /\ \/ exhausted'[w]
         \/ /\ ~exhausted'[w] /\ Frontier(w) < nrTuples
            /\ Frontier(w)' = Frontier(w) + vecSize
            /\ batch'[w] = {r \in Rows : Frontier(w) <= r /\ r < Frontier(w) + vecSize}
  BY <1>1, <1>2, SoleNext
<1>10. ~exhausted'[w] => batch'[w] \cap selected # {}
  <2> SUFFICES ASSUME ~exhausted'[w] PROVE batch'[w] \cap selected # {}
    OBVIOUS
  <2>1. PICK r \in selected : Frontier(w) <= r /\ r < Frontier(w) + vecSize
    BY <1>1, <1>9, SomeQualifies
  <2>2. r \in Rows
    BY <1>1, HybridAssumption
  <2> QED
    BY <1>9, <2>1, <2>2
<1>11. HybridTypes'
  BY <1>1, <1>7, <1>8 DEF HybridTypes
<1>12. loopAt'[w] = IF exhausted'[w] THEN "store" ELSE "check"
  BY <1>1, <1>8, <1>10 DEF HybridTypes
<1>13. aggregator'[w] = SumOver(0 .. processedTuples - 1 + 0)'
  BY <1>4, <1>7 DEF SumOver
<1>14. CountedInv(w)'
  BY <1>4, <1>7, <1>9, <1>12, <1>13 DEF CountedInv
<1>15. HandedOver'
  BY <1>3, <1>7 DEF HandedOver
<1> QED
  BY <1>1, <1>3, <1>6, <1>7, <1>9, <1>11, <1>14, <1>15 DEF HybridInv

\* The steps of the worker between two calls of next().
LEMMA WorkerKeeps ==
  ASSUME HybridInv, WorkersCountRows, NEW w \in Workers,
         CheckLib(w) \/ Evaluate(w) \/ CountVector(w) \/ StoreSum(w)
  PROVE  HybridInv'
<1>1. Workers = {w} /\ HybridTypes
  BY DEF WorkersCountRows, HybridInv
<1>2. UNCHANGED <<scanVars, selected, typerLib, compiler, main, revenue>>
  BY DEF CheckLib, Evaluate, CountVector, StoreSum
<1>3. /\ IInv' /\ ChunkOf(w)' /\ Frontier(w)' = Frontier(w)
      /\ batch' = batch /\ exhausted' = exhausted
  BY <1>2, ScanKept DEF scanVars
<1>4. loopAt[w] # "done" /\ main = "workers" /\ CountedInv(w) /\ main' = main
  <2>1. loopAt[w] # "done"
    BY DEF CheckLib, Evaluate, CountVector, StoreSum
  <2> QED
    BY <1>2, <2>1, CallerWaits DEF HybridInv
<1>5. HandedOver'
  BY <1>4 DEF HandedOver
<1>6. /\ processedTuples \in Nat /\ vecSize \in Nat
      /\ loopAt \in [Workers -> {"fetch", "check", "evaluate", "count", "store", "done"}]
      /\ aggregator \in [Workers -> [Rows -> Nat]] /\ atomicAggr \in [Rows -> Nat]
  BY <1>1, ScanAssumption DEF HybridTypes
<1>7. \A d \in Nat : SumOver(0 .. d - 1) \in [Rows -> Nat]
  BY DEF SumOver
<1>8. SUFFICES HybridTypes' /\ CountedInv(w)'
  BY <1>1, <1>3, <1>4, <1>5 DEF HybridInv
<1>9. CASE CheckLib(w)
  <2>1. /\ loopAt[w] = "check" /\ loopAt'[w] \in {"evaluate", "store"}
        /\ loopAt' = [loopAt EXCEPT ![w] = loopAt'[w]]
        /\ UNCHANGED <<aggregator, atomicAggr, processedTuples>>
    BY <1>6, <1>9 DEF CheckLib
  <2>2. HybridTypes'
    BY <1>1, <1>2, <1>6, <2>1 DEF HybridTypes
  <2>3. aggregator'[w] = SumOver(0 .. processedTuples - 1 + 0)'
    BY <1>2, <1>4, <2>1 DEF CountedInv, SumOver
  <2> QED
    BY <1>3, <1>4, <2>1, <2>2, <2>3 DEF CountedInv
<1>10. CASE Evaluate(w)
  <2>1. /\ loopAt[w] = "evaluate" /\ loopAt'[w] = "count"
        /\ loopAt' = [loopAt EXCEPT ![w] = loopAt'[w]]
        /\ aggregator' = [aggregator EXCEPT ![w] = Plus(@, SumOver(batch[w]))]
        /\ UNCHANGED <<atomicAggr, processedTuples>>
    BY <1>6, <1>10 DEF Evaluate
  <2>2. aggregator[w] = SumOver(0 .. processedTuples - 1 + 0)
        /\ batch[w] = {r \in Rows : processedTuples <= r /\ r < processedTuples + vecSize}
    BY <1>4, <2>1 DEF CountedInv
  <2>3. aggregator'[w] = SumOver(0 .. processedTuples + vecSize - 1)
    <3>1. processedTuples - 1 + 0 = processedTuples - 1
      BY <1>6
    <3>2. aggregator'[w] = Plus(aggregator[w], SumOver(batch[w]))
      BY <1>6, <2>1
    <3>3. Plus(SumOver(0 .. processedTuples - 1),
               SumOver({r \in Rows : processedTuples <= r /\ r < processedTuples + vecSize}))
            = SumOver(0 .. processedTuples + vecSize - 1)
      BY <1>6, SumsAdd
    <3> QED
      BY <2>2, <3>1, <3>2, <3>3
  <2>4. aggregator'[w] \in [Rows -> Nat]
    <3> DEFINE d == processedTuples + vecSize
    <3>1. d \in Nat /\ aggregator'[w] = SumOver(0 .. d - 1)
      BY <1>6, <2>3
    <3> HIDE DEF d
    <3> QED
      BY <1>7, <3>1
  <2>5. HybridTypes'
    BY <1>1, <1>2, <1>6, <2>1, <2>4 DEF HybridTypes
  <2>6. processedTuples' - 1 + vecSize = processedTuples + vecSize - 1
    BY <1>6, <2>1
  <2>7. aggregator'[w] = SumOver(0 .. processedTuples - 1 + vecSize)'
    BY <1>2, <2>3, <2>6 DEF SumOver
  <2> QED
    BY <1>3, <1>4, <2>1, <2>5, <2>7 DEF CountedInv, Zero
<1>11. CASE CountVector(w)
  <2>1. /\ loopAt[w] = "count" /\ loopAt'[w] = "fetch"
        /\ loopAt' = [loopAt EXCEPT ![w] = loopAt'[w]]
        /\ processedTuples' = processedTuples + vecSize
        /\ UNCHANGED <<aggregator, atomicAggr>>
    BY <1>6, <1>11 DEF CountVector
  <2>2. HybridTypes'
    BY <1>1, <1>2, <1>6, <2>1 DEF HybridTypes
  <2>3. processedTuples' - 1 + 0 = processedTuples - 1 + vecSize
    BY <1>6, <2>1
  <2>4. aggregator'[w] = SumOver(0 .. processedTuples - 1 + 0)'
    BY <1>2, <1>4, <2>1, <2>3 DEF CountedInv, SumOver
  <2> QED
    BY <1>3, <1>4, <2>1, <2>2, <2>4 DEF CountedInv, Zero
<1>12. CASE StoreSum(w)
  <2>1. /\ loopAt[w] = "store" /\ loopAt'[w] = "done"
        /\ loopAt' = [loopAt EXCEPT ![w] = loopAt'[w]]
        /\ atomicAggr' = Plus(atomicAggr, aggregator[w])
        /\ UNCHANGED <<aggregator, processedTuples>>
    BY <1>6, <1>12 DEF StoreSum
  <2>2. atomicAggr = Zero /\ aggregator[w] = SumOver(0 .. processedTuples - 1 + 0)
    BY <1>4, <2>1 DEF CountedInv
  <2>3. processedTuples - 1 + 0 = processedTuples - 1
    BY <1>6
  <2>4. atomicAggr' = SumOver(0 .. processedTuples - 1)
    BY <1>6, <2>1, <2>2, <2>3, SumsAdd
  <2>5. HybridTypes'
    BY <1>1, <1>2, <1>6, <1>7, <2>1, <2>4 DEF HybridTypes
  <2>6. atomicAggr' = SumOver(0 .. processedTuples - 1)'
    BY <1>2, <2>1, <2>4 DEF SumOver
  <2> QED
    BY <1>3, <1>4, <2>1, <2>5, <2>6 DEF CountedInv
<1> QED
  BY <1>9, <1>10, <1>11, <1>12

LEMMA HandoffKeeps ==
  ASSUME HybridInv, WorkersCountRows, Handoff
  PROVE  HybridInv'
<1>1. PICK w \in Workers : Workers = {w}
  BY DEF WorkersCountRows
<1>2. UNCHANGED <<scanVars, selected, typerLib, compiler, loopAt, aggregator, atomicAggr, revenue>>
      /\ loopAt[w] = "done" /\ main = "workers" /\ main' \in {"threw", "typer"}
      /\ processedTuples' = IF processedTuples > nrTuples THEN nrTuples ELSE processedTuples
  BY DEF Handoff
<1>3. processedTuples \in Nat /\ nrTuples \in Nat
  BY ScanAssumption DEF HybridInv, HybridTypes
<1>4. processedTuples' \in Nat /\ processedTuples' <= nrTuples
  BY <1>2, <1>3
<1>5. atomicAggr = SumOver(0 .. processedTuples - 1)
  BY <1>2 DEF HybridInv, CountedInv
<1>6. atomicAggr = SumOver(0 .. processedTuples' - 1)
  <2>1. CASE processedTuples > nrTuples
    BY <1>2, <1>3, <1>5, <2>1, SumsAdd
  <2>2. CASE ~(processedTuples > nrTuples)
    BY <1>2, <1>5, <2>2
  <2> QED
    BY <2>1, <2>2
<1>7. HandedOver'
  BY <1>2, <1>4, <1>6 DEF HandedOver, SumOver
<1>8. HybridTypes'
  BY <1>2, <1>4 DEF HybridInv, HybridTypes
<1>9. IInv' /\ \A u \in Workers : ChunkOf(u)'
  BY <1>2, ScanKept
<1>10. \A u \in Workers : CountedInv(u)' /\ loopAt'[u] = "done"
  BY <1>1, <1>2 DEF CountedInv
<1> QED
  BY <1>7, <1>8, <1>9, <1>10 DEF HybridInv

LEMMA TyperKeeps ==
  ASSUME HybridInv, Typer
  PROVE  HybridInv'
<1>1. /\ UNCHANGED <<scanVars, selected, loopAt, aggregator, atomicAggr, processedTuples>>
      /\ main = "typer" /\ main' = "returned"
      /\ revenue' = Plus(atomicAggr, SumOver(processedTuples .. nrTuples - 1))
  BY DEF Typer
<1>2. /\ processedTuples \in Nat /\ processedTuples <= nrTuples
      /\ atomicAggr = SumOver(0 .. processedTuples - 1)
  BY <1>1 DEF HybridInv, HybridTypes, HandedOver
<1>3. revenue' = SumOver(Rows)
  BY <1>1, <1>2, SumsAdd
<1>4. HandedOver'
  BY <1>1, <1>2, <1>3 DEF HandedOver, SumOver
<1>5. HybridTypes'
  BY <1>1 DEF HybridInv, HybridTypes
<1>6. IInv' /\ \A w \in Workers : ChunkOf(w)'
  BY <1>1, ScanKept
<1>7. \A w \in Workers : CountedInv(w)' /\ loopAt'[w] = "done"
  BY <1>1 DEF HybridInv, CountedInv
<1> QED
  BY <1>4, <1>5, <1>6, <1>7 DEF HybridInv

LEMMA HybridStays ==
  ASSUME HybridInv, UNCHANGED hybridVars
  PROVE  HybridInv'
<1>1. UNCHANGED scanVars /\ UNCHANGED queryVars
  BY DEF hybridVars
<1>2. IInv' /\ \A w \in Workers : ChunkOf(w)' /\ Frontier(w)' = Frontier(w)
  BY <1>1, ScanKept
<1>3. HybridTypes' /\ HandedOver'
  BY <1>1 DEF HybridInv, HybridTypes, HandedOver, SumOver, queryVars
<1>4. \A w \in Workers : CountedInv(w)' /\ (main' # "workers" => loopAt'[w] = "done")
  BY <1>1, <1>2 DEF HybridInv, CountedInv, SumOver, scanVars, queryVars
<1> QED
  BY <1>2, <1>3, <1>4 DEF HybridInv

\* EachTupleOnce: with one worker, and if no vector is skipped by the selection, the
\* hybrid query returns the answer of the query, at whatever moment the library arrives,
\* for any number of rows and sizes of vectors and chunks.
THEOREM HybridExact ==
  ASSUME WorkersCountRows
  PROVE  HybridSpec => []EachTupleOnce
<1>1. HybridInit => HybridInv
  BY HybridInitHolds
<1>2. HybridInv /\ [HybridNext]_hybridVars => HybridInv'
  <2> SUFFICES ASSUME HybridInv, [HybridNext]_hybridVars PROVE HybridInv'
    OBVIOUS
  <2>1. CASE \E r \in LinkResults : Link(r)
    BY <2>1, LinkKeeps
  <2>2. CASE \E w \in Workers : HybridWorker(w)
    BY <2>2, ChildNextKeeps, WorkerKeeps DEF HybridWorker
  <2>3. CASE Handoff
    BY <2>3, HandoffKeeps
  <2>4. CASE Typer
    BY <2>4, TyperKeeps
  <2>5. CASE UNCHANGED hybridVars
    BY <2>5, HybridStays
  <2> QED
    BY <2>1, <2>2, <2>3, <2>4, <2>5 DEF HybridNext, HybridStop
<1>3. HybridInv => EachTupleOnce
  BY DEF HybridInv, HandedOver, EachTupleOnce
<1> QED
  BY <1>1, <1>2, <1>3, PTL DEF HybridSpec
=============================================================================
