----------------------------- MODULE Allocators -----------------------------
(***************************************************************************)
(* The allocators of a worker.  runtime::Allocator hands out pieces of a   *)
(* chunk it takes from the global pool; ResetableAllocator, which holds    *)
(* the groups of a HashGroup, hands out pieces of chunks that it takes     *)
(* from the Allocator and keeps when it is reset.  Both are private to the *)
(* worker, so a call touches shared state only when it goes to the pool    *)
(* (module GlobalPool).                                                    *)
(***************************************************************************)
EXTENDS GlobalPool, Sequences, Functions

CONSTANTS
  Requests,    \* bytes that the operators of a query ask for at a time
  Align,       \* alignment of what is returned: 64 bytes in the code
  ChunkHeader, \* sizeof(ResetableAllocator::Chunk)
  InitialSize, \* allocSize of a new allocator: 2 MB in the code
  MaxCalls     \* bound: calls of all workers together

ASSUME AllocatorsAssumption ==
  /\ Requests \subseteq Nat \ {0}
  /\ Align \in Nat \ {0} /\ ChunkHeader \in Nat \ {0} /\ InitialSize \in Nat \ {0}
  /\ MaxCalls \in Nat

\* ResetableAllocator looks for a chunk that holds a request with the padding at
\* its old position, and adds the padding at the new one afterwards.  Requests
\* up to twice the first chunk, 4 MB in the code, have room for both; from a
\* larger one on, `free` may wrap around, which is not modelled.
ASSUME RequestsFit == \A n \in Requests : n + 2 * Align <= 2 * InitialSize

VARIABLES
  aStart, aFree, aSize,   \* Allocator: start, free, allocSize
  gStart, gFree, gSize,   \* ResetableAllocator: the same,
  gChunks, gCurrent,      \* its chunks in their order, and the current one
  call,      \* per worker: the call that waits for memory from the pool
  calls,     \* per worker: calls begun
  blocks,    \* history: what the Allocator has returned
  groups     \* history: what the ResetableAllocator has, since its reset

allocVars == <<aStart, aFree, aSize>>
storeVars == <<gStart, gFree, gSize, gChunks, gCurrent>>
vars == <<poolVars, allocVars, storeVars, call, calls, blocks, groups>>

\* aligndiff
Pad(a) == Align - (a % Align)

NoCall == [for |-> "nothing", n |-> 0, size |-> 0]

Init ==
  /\ PoolInit
  /\ aStart = [w \in Threads |-> 0] /\ aFree = [w \in Threads |-> 0]
  /\ aSize = [w \in Threads |-> InitialSize]
  /\ gStart = [w \in Threads |-> 0] /\ gFree = [w \in Threads |-> 0]
  /\ gSize = [w \in Threads |-> InitialSize]
  /\ gChunks = [w \in Threads |-> <<>>]
  /\ gCurrent = [w \in Threads |-> 0]
  /\ call = [w \in Threads |-> NoCall] /\ calls = [w \in Threads |-> 0]
  /\ blocks = {} /\ groups = {}

Set(f, w, v) == [f EXCEPT ![w] = v]
Block(w, lo, n) == [owner |-> w, nr |-> calls[w], lo |-> lo, hi |-> lo + n]

-----------------------------------------------------------------------------
(* ResetableAllocator: n bytes from the chunk that it is at. *)

Bump(w, n, from, free, used) ==
  /\ gStart' = Set(gStart, w, from + used)
  /\ gFree' = Set(gFree, w, free - used)
  /\ groups' = groups \cup {Block(w, from + Pad(from), n)}

\* The chunk that a request goes to, after the current one, or 0.
Fitting(w, bytes) ==
  LET ahead == {k \in gCurrent[w] + 1 .. Len(gChunks[w]) : gChunks[w][k].size >= bytes}
  IN  IF ahead = {} THEN 0 ELSE CHOOSE k \in ahead : \A l \in ahead : k <= l

\* In a new or a reused chunk k of the given chunks: the padding is added again.
InChunk(w, n, bytes, cs, k) ==
  LET from == cs[k].base + ChunkHeader
  IN  /\ gCurrent' = Set(gCurrent, w, k)
      /\ Bump(w, n, from, cs[k].size, bytes + Pad(from))

-----------------------------------------------------------------------------
(* What a call does with the memory at address a that the Allocator returns. *)

Deliver(w, for, n, bytes, a) ==
  \/ /\ for = "query"
     /\ blocks' = blocks \cup {Block(w, a, n)}
     /\ UNCHANGED <<storeVars, groups>>
  \/ /\ for = "store"    \* ResetableAllocator::setSource
     /\ blocks' = blocks \cup {Block(w, a, InitialSize + ChunkHeader)}
     /\ gChunks' = Set(gChunks, w, <<[base |-> a, size |-> InitialSize]>>)
     /\ gCurrent' = Set(gCurrent, w, 1)
     /\ gStart' = Set(gStart, w, a + ChunkHeader)
     /\ gFree' = Set(gFree, w, InitialSize)
     /\ UNCHANGED <<gSize, groups>>
  \/ /\ for = "group"
     /\ LET m == Larger(gSize[w] * 2, bytes)
            cs == Append(gChunks[w], [base |-> a, size |-> m])
        IN  /\ blocks' = blocks \cup {Block(w, a, m + ChunkHeader)}
            /\ gSize' = Set(gSize, w, m)
            /\ gChunks' = Set(gChunks, w, cs)
            /\ InChunk(w, n, bytes, cs, Len(cs))

\* The bytes that this means for the Allocator.
Needed(w, for, n, bytes) ==
  CASE for = "query" -> n
    [] for = "store" -> InitialSize + ChunkHeader
    [] for = "group" -> Larger(gSize[w] * 2, bytes) + ChunkHeader

\* allocSize for a request, padding included, that does not fit.
ChunkSize(w, bytes) == Larger(aSize[w] * 2, bytes + Align)

\* Allocator::allocate(m) on behalf of a call, where m = Needed(...).
AllocatorCall(w, for, n, bytes) ==
  LET m == Needed(w, for, n, bytes)
      padded == m + Pad(aStart[w])
  IN  IF aFree[w] < padded
      THEN /\ aSize' = Set(aSize, w, ChunkSize(w, padded))
           /\ Allocate(w, ChunkSize(w, padded))
           /\ call' = Set(call, w, [for |-> for, n |-> n, size |-> bytes])
           /\ UNCHANGED <<aStart, aFree, storeVars, blocks, groups>>
      ELSE /\ Deliver(w, for, n, bytes, aStart[w] + Pad(aStart[w]))
           /\ aStart' = Set(aStart, w, aStart[w] + padded)
           /\ aFree' = Set(aFree, w, aFree[w] - padded)
           /\ UNCHANGED <<poolVars, aSize, call>>

\* The pool has granted a chunk: the padding of the old one is still counted.
Refilled(w) ==
  LET a == start_[w]
      c == call[w]
      used == Needed(w, c.for, c.n, c.size) + Pad(aStart[w]) + Pad(a)
  IN  /\ c # NoCall /\ c.for # "source"
      /\ Return(w)
      /\ Deliver(w, c.for, c.n, c.size, a + Pad(a))
      /\ aStart' = Set(aStart, w, a + used)
      /\ aFree' = Set(aFree, w, aSize[w] - used)
      /\ call' = Set(call, w, NoCall)
      /\ UNCHANGED <<aSize, calls>>

-----------------------------------------------------------------------------
\* Allocator::setSource(pool), as a worker joins a query.
SetSource(w) ==
  /\ call[w] = NoCall /\ aStart[w] = 0
  /\ Allocate(w, aSize[w])
  /\ call' = Set(call, w, [NoCall EXCEPT !.for = "source"])
  /\ UNCHANGED <<allocVars, storeVars, calls, blocks, groups>>

SourceSet(w) ==
  /\ call[w].for = "source"
  /\ Return(w)
  /\ aStart' = Set(aStart, w, start_[w])
  /\ aFree' = Set(aFree, w, aSize[w])
  /\ call' = Set(call, w, NoCall)
  /\ UNCHANGED <<aSize, storeVars, calls, blocks, groups>>

Ready(w) == call[w] = NoCall /\ aStart[w] # 0 /\ SumFunction(calls) < MaxCalls
Begin(w) == Ready(w) /\ calls' = Set(calls, w, calls[w] + 1)

\* An operator allocates a buffer, a chunk of a Stack, a block of entries...
AllocateBuffer(w) ==
  /\ Begin(w)
  /\ \E n \in Requests : AllocatorCall(w, "query", n, 0)

\* A HashGroup is built: ResetableAllocator::setSource.
StoreSetSource(w) ==
  /\ Begin(w) /\ gChunks[w] = <<>>
  /\ AllocatorCall(w, "store", 0, 0)

\* Faulty variant: a reset store begins again at its last chunk.
StoreAllocateAnyChunk(w) ==
  /\ Begin(w) /\ gChunks[w] # <<>>
  /\ \E n \in Requests :
       LET bytes == n + Pad(gStart[w])
       IN  IF gFree[w] >= bytes
           THEN /\ Bump(w, n, gStart[w], gFree[w], bytes)
                /\ UNCHANGED <<gSize, gChunks, gCurrent, poolVars, allocVars, call, blocks>>
           ELSE IF Len(gChunks[w]) > 1
           THEN /\ InChunk(w, n, bytes, gChunks[w], Len(gChunks[w]))
                /\ UNCHANGED <<gSize, gChunks, poolVars, allocVars, call, blocks>>
           ELSE AllocatorCall(w, "group", n, bytes)

\* ResetableAllocator::allocate: from the current chunk, from one behind it
\* that was left by a reset, or from a new one.
StoreAllocate(w) ==
  /\ Begin(w) /\ gChunks[w] # <<>>
  /\ \E n \in Requests :
       LET bytes == n + Pad(gStart[w])
           k == Fitting(w, bytes)
       IN  IF gFree[w] >= bytes
           THEN /\ Bump(w, n, gStart[w], gFree[w], bytes)
                /\ UNCHANGED <<gSize, gChunks, gCurrent, poolVars, allocVars, call, blocks>>
           ELSE IF k # 0
           THEN /\ InChunk(w, n, bytes, gChunks[w], k)
                /\ UNCHANGED <<gSize, gChunks, poolVars, allocVars, call, blocks>>
           ELSE AllocatorCall(w, "group", n, bytes)

\* reset(): the group table is cleared.
StoreReset(w) ==
  /\ Begin(w) /\ gChunks[w] # <<>>
  /\ gCurrent' = Set(gCurrent, w, 1)
  /\ gStart' = Set(gStart, w, gChunks[w][1].base + ChunkHeader)
  /\ gFree' = Set(gFree, w, gChunks[w][1].size)
  /\ groups' = {g \in groups : g.owner # w}
  /\ UNCHANGED <<gSize, gChunks, poolVars, allocVars, call, blocks>>

Pool(w) == PoolStep(w) /\ UNCHANGED <<allocVars, storeVars, call, calls, blocks, groups>>

Worker(w) ==
  \/ SetSource(w) \/ SourceSet(w) \/ Refilled(w) \/ Pool(w)
  \/ AllocateBuffer(w) \/ StoreSetSource(w) \/ StoreAllocate(w) \/ StoreReset(w)

Next == \E w \in Threads : Worker(w)

Spec == Init /\ [][Next]_vars

-----------------------------------------------------------------------------
\* What the operators of all workers hold is theirs alone, aligned, and backed
\* by memory: the blocks of the Allocators lie apart in what the pool granted
\* them, and the groups lie apart in the chunks of their store, although both
\* add the padding before and after a new chunk.
BlocksApart ==
  /\ \A a, b \in blocks : a # b => Apart(a, b)
  /\ \A a \in blocks : \E g \in granted : g.owner = a.owner /\ g.lo <= a.lo /\ a.hi <= g.hi
  /\ \A a, b \in groups : a # b => Apart(a, b)
  /\ \A a \in groups : \E k \in DOMAIN gChunks[a.owner] :
       LET c == gChunks[a.owner][k]
       IN  c.base + ChunkHeader <= a.lo /\ a.hi <= c.base + ChunkHeader + c.size
  /\ \A a \in blocks \cup groups : a.lo % Align = 0
=============================================================================
