-------------------------------- MODULE Scan --------------------------------
(***************************************************************************)
(* vectorwise::Scan: the morsel-driven scan of a relation by a group of    *)
(* workers.  Each worker owns a Scan object; the objects share a counter   *)
(* `pos`, from which a worker takes the number of its next chunk of        *)
(* scanChunkSize vectors.  The rows of a relation are 0 .. nrTuples - 1.   *)
(* A call of next() touches shared state once, in pos.fetch_add, so it is  *)
(* one step.                                                               *)
(***************************************************************************)
EXTENDS Integers, FiniteSets

CONSTANTS
  Workers,     \* the worker threads
  nrTuples,    \* rows of the relation
  vecSize,     \* rows of a vector
  MorselSize   \* scanMorselSize: 10240 rows in the code

ASSUME ScanAssumption ==
  /\ IsFiniteSet(Workers) /\ Workers # {}
  /\ nrTuples \in Nat
  /\ vecSize \in Nat /\ vecSize >= 1
  /\ MorselSize \in Nat

Rows == 0 .. nrTuples - 1

\* The constructor: a chunk has just over a morsel of rows, or is one vector.
scanChunkSize == IF vecSize < MorselSize THEN MorselSize \div vecSize + 1 ELSE 1

VARIABLES
  pos,            \* Shared::pos: number of chunks handed out
  needsInit,      \* per worker: no chunk taken yet
  currentChunk,   \* per worker: the chunk it is in
  vecInChunk,     \* per worker: vectors of the chunk already returned
  lastOffset,     \* per worker: first row of the vector returned last
  colPtr,         \* per worker: first row the consumers' column pointers see
  batch,          \* per worker: rows of the vector the last call returned
  exhausted,      \* per worker: a call has returned EndOfStream
  taken           \* history: how often each row was returned, to any worker

scanVars == <<pos, needsInit, currentChunk, vecInChunk, lastOffset, colPtr,
              batch, exhausted, taken>>

Init ==
  /\ pos = 0
  /\ needsInit = [w \in Workers |-> TRUE]
  /\ currentChunk = [w \in Workers |-> 0]
  /\ vecInChunk = [w \in Workers |-> scanChunkSize]
  /\ lastOffset = [w \in Workers |-> 0]
  /\ colPtr = [w \in Workers |-> 0]
  /\ batch = [w \in Workers |-> {}]
  /\ exhausted = [w \in Workers |-> FALSE]
  /\ taken = [r \in Rows |-> 0]

-----------------------------------------------------------------------------
\* Faulty variant: the column pointers move on by one vector, whatever the step.
AdvanceByOne(w, step, used) ==
  LET nextBegin == lastOffset[w] + step * vecSize
      rows == {r \in Rows : nextBegin <= r /\ r < nextBegin + vecSize}
  IN  IF nextBegin >= nrTuples
      THEN /\ vecInChunk' = [vecInChunk EXCEPT ![w] = used]
           /\ batch' = [batch EXCEPT ![w] = {}]
           /\ exhausted' = [exhausted EXCEPT ![w] = TRUE]
           /\ UNCHANGED <<lastOffset, colPtr, taken>>
      ELSE /\ vecInChunk' = [vecInChunk EXCEPT ![w] = used + 1]
           /\ lastOffset' = [lastOffset EXCEPT ![w] = nextBegin]
           /\ colPtr' = [colPtr EXCEPT ![w] = @ + vecSize]
           /\ batch' = [batch EXCEPT ![w] = rows]
           /\ taken' = [r \in Rows |-> IF r \in rows THEN taken[r] + 1 ELSE taken[r]]
           /\ UNCHANGED exhausted

\* The vector a worker gets that moves `step` vectors ahead, if there is one;
\* `used` is vecInChunk after the chunk was chosen.
Advance(w, step, used) ==
  LET nextBegin == lastOffset[w] + step * vecSize
      rows == {r \in Rows : nextBegin <= r /\ r < nextBegin + vecSize}
  IN  IF nextBegin >= nrTuples
      THEN /\ vecInChunk' = [vecInChunk EXCEPT ![w] = used]
           /\ batch' = [batch EXCEPT ![w] = {}]
           /\ exhausted' = [exhausted EXCEPT ![w] = TRUE]
           /\ UNCHANGED <<lastOffset, colPtr, taken>>
      ELSE /\ vecInChunk' = [vecInChunk EXCEPT ![w] = used + 1]
           /\ lastOffset' = [lastOffset EXCEPT ![w] = nextBegin]
           /\ colPtr' = [colPtr EXCEPT ![w] = @ + step * vecSize]
           /\ batch' = [batch EXCEPT ![w] = rows]
           /\ taken' = [r \in Rows |-> IF r \in rows THEN taken[r] + 1 ELSE taken[r]]
           /\ UNCHANGED exhausted

\* next() inside a chunk: the vector after the last one.
NextInChunk(w) ==
  /\ vecInChunk[w] # scanChunkSize
  /\ Advance(w, 1, vecInChunk[w])
  /\ UNCHANGED <<pos, needsInit, currentChunk>>

\* Faulty variant: the chunk that was just finished is skipped once more.
NextChunkSkipsOwn(w) ==
  LET chunkSkip == pos - currentChunk[w]
      step == IF needsInit[w] THEN chunkSkip * scanChunkSize
                              ELSE chunkSkip * scanChunkSize + 1
  IN  /\ vecInChunk[w] = scanChunkSize
      /\ pos' = pos + 1
      /\ currentChunk' = [currentChunk EXCEPT ![w] = pos]
      /\ needsInit' = [needsInit EXCEPT ![w] = FALSE]
      /\ Advance(w, step, 0)

\* next() at the end of a chunk: take the next chunk of the relation, and skip
\* the chunks that other workers took.
NextChunk(w) ==
  LET chunkSkip == pos - currentChunk[w]
      step == IF needsInit[w] THEN chunkSkip * scanChunkSize
                              ELSE (chunkSkip - 1) * scanChunkSize + 1
  IN  /\ vecInChunk[w] = scanChunkSize
      /\ pos' = pos + 1
      /\ currentChunk' = [currentChunk EXCEPT ![w] = pos]
      /\ needsInit' = [needsInit EXCEPT ![w] = FALSE]
      /\ Advance(w, step, 0)

\* A worker calls next(), and not again once it got EndOfStream.
ScanNext(w) == ~exhausted[w] /\ (NextInChunk(w) \/ NextChunk(w))

Finished == \A w \in Workers : exhausted[w]

\* All workers have drained the scan: the system may stop.
Stop == Finished /\ UNCHANGED scanVars

Next == (\E w \in Workers : ScanNext(w)) \/ Stop

Spec == Init /\ [][Next]_scanVars

-----------------------------------------------------------------------------
TypeOK ==
  /\ pos \in Nat
  /\ needsInit \in [Workers -> BOOLEAN]
  /\ currentChunk \in [Workers -> Nat]
  /\ vecInChunk \in [Workers -> 0 .. scanChunkSize]
  /\ lastOffset \in [Workers -> Nat]
  /\ colPtr \in [Workers -> Nat]
  /\ batch \in [Workers -> SUBSET Rows]
  /\ exhausted \in [Workers -> BOOLEAN]
  /\ taken \in [Rows -> Nat]

\* No row is given out twice, to one worker or to two, whatever the order in
\* which they take chunks: a row read twice is counted twice by an aggregate.
NoRowTwice == \A r \in Rows : taken[r] <= 1

\* Once all workers have got EndOfStream every row has been given out: a
\* worker that finds its chunk past the end leaves no rows behind.
NoRowLost == Finished => \A r \in Rows : taken[r] >= 1

\* The column pointers of the operators above the scan are moved by
\* differences only, and yet point at the vector that was announced.
PointersInStep ==
  \A w \in Workers : batch[w] # {} =>
    /\ colPtr[w] \in batch[w]
    /\ \A r \in batch[w] : colPtr[w] <= r

=============================================================================
