----------------------------- MODULE GlobalPool -----------------------------
(***************************************************************************)
(* runtime::GlobalPool: the memory that all workers of a query allocate    *)
(* from.  An allocation moves `start` up by compare-exchange; whoever finds *)
(* too little left takes the mutex `refill`, closes the pool, and opens it *)
(* again on a new chunk.  `start` and `end` are two atomics that other     *)
(* threads read one after the other at any time.                           *)
(*                                                                         *)
(* Addresses are numbers.  A spurious failure of a weak compare-exchange   *)
(* only repeats loads and is left out.                                     *)
(***************************************************************************)
EXTENDS Integers, FiniteSets

CONSTANTS
  Threads,
  Nobody,    \* the holder of a mutex that is free
  Sizes,     \* bytes that may be asked for
  Bases,     \* addresses that mmap may return
  First,     \* the one it returned for the first chunk
  Header,    \* sizeof(Chunk)
  PoolSize   \* allocSize of a new pool: 128 MB in the code

ASSUME PoolAssumption ==
  /\ Nobody \notin Threads
  /\ Sizes \subseteq Nat \ {0}
  /\ Bases \subseteq Nat /\ First \in Bases
  /\ Header \in Nat \ {0} /\ PoolSize \in Nat \ {0}

VARIABLES
  start, end,     \* the two atomics
  allocSize,      \* payload of the newest chunk
  chunks,         \* all chunks there are
  current,        \* address of the newest
  refill,         \* who holds the mutex
  pc,             \* where each thread is in allocate()
  size,           \* per thread: what it asks for
  start_, end_,   \* per thread: the local copies
  served,         \* history: how many calls of each thread have been served,
  granted         \* and the pieces of memory that they returned

history == <<served, granted>>
poolVars == <<start, end, allocSize, chunks, current, refill, pc, size, start_, end_, history>>

Larger(a, b) == IF a > b THEN a ELSE b

PoolInit ==
  /\ chunks = {[base |-> First, size |-> PoolSize]}
  /\ current = First
  /\ start = First + Header /\ end = First + Header + PoolSize
  /\ allocSize = PoolSize
  /\ refill = Nobody
  /\ pc = [t \in Threads |-> "idle"]
  /\ size = [t \in Threads |-> 0]
  /\ start_ = [t \in Threads |-> 0] /\ end_ = [t \in Threads |-> 0]
  /\ served = [t \in Threads |-> 0]
  /\ granted = {}

-----------------------------------------------------------------------------
Allocate(t, n) ==
  /\ pc[t] = "idle"
  /\ size' = [size EXCEPT ![t] = n]
  /\ pc' = [pc EXCEPT ![t] = "loadStart"]
  /\ UNCHANGED <<start, end, allocSize, chunks, current, refill, start_, end_, history>>

\* start_ = start.load()
LoadStart(t) ==
  /\ pc[t] = "loadStart"
  /\ start_' = [start_ EXCEPT ![t] = start]
  /\ pc' = [pc EXCEPT ![t] = "loadEnd"]
  /\ UNCHANGED <<start, end, allocSize, chunks, current, refill, size, end_, history>>

\* end_ = end.load(), and the test whether the space suffices.
LoadEnd(t) ==
  /\ pc[t] = "loadEnd"
  /\ end_' = [end_ EXCEPT ![t] = end]
  /\ pc' = [pc EXCEPT ![t] = IF start_[t] + size[t] >= end THEN "lock" ELSE "cas"]
  /\ UNCHANGED <<start, end, allocSize, chunks, current, refill, size, start_, history>>

\* Under the mutex the test is repeated, as somebody may have refilled the pool.
Recheck(t) ==
  /\ pc[t] = "lock" /\ refill = Nobody
  /\ start_' = [start_ EXCEPT ![t] = start]
  /\ end_' = [end_ EXCEPT ![t] = end]
  /\ IF start + size[t] >= end
     THEN refill' = t /\ pc' = [pc EXCEPT ![t] = "drain"]
     ELSE UNCHANGED refill /\ pc' = [pc EXCEPT ![t] = "loadStart"]
  /\ UNCHANGED <<start, end, allocSize, chunks, current, size, history>>

\* The pool is closed: start becomes end, unless another thread has moved it.
Drain(t) ==
  /\ pc[t] = "drain"
  /\ end_' = [end_ EXCEPT ![t] = end]
  /\ IF start = start_[t]
     THEN start' = end /\ pc' = [pc EXCEPT ![t] = "chunk"] /\ UNCHANGED start_
     ELSE start_' = [start_ EXCEPT ![t] = start] /\ UNCHANGED <<start, pc>>
  /\ UNCHANGED <<end, allocSize, chunks, current, refill, size, history>>

\* The memory that a chunk takes up is that of no other.
Vacant(b, n) ==
  \A c \in chunks : b + Header + n <= c.base \/ c.base + Header + c.size <= b

\* newChunk(): from mmap, above or below the others.
NewChunk(t) ==
  LET n == Larger(allocSize * 2, size[t])
  IN  /\ pc[t] = "chunk"
      /\ \E b \in Bases :
           /\ Vacant(b, n)
           /\ chunks' = chunks \cup {[base |-> b, size |-> n]}
           /\ start_' = [start_ EXCEPT ![t] = b + Header]
           /\ end_' = [end_ EXCEPT ![t] = b + Header + n]
      /\ allocSize' = n
      /\ pc' = [pc EXCEPT ![t] = "open"]
      /\ UNCHANGED <<start, end, current, refill, size, history>>

\* Faulty variant: the order of the two stores is always the same.
StartAlwaysFirst(t) == FALSE

\* A chunk below the old one is opened by its end, one above it by its start.
EndFirst(t) == start_[t] - Header < current

\* The first of the two stores that open the pool.
Open(t) ==
  /\ pc[t] = "open"
  /\ IF EndFirst(t)
     THEN end' = end_[t] /\ UNCHANGED start
     ELSE start' = start_[t] /\ UNCHANGED end
  /\ pc' = [pc EXCEPT ![t] = "opened"]
  /\ UNCHANGED <<allocSize, chunks, current, refill, size, start_, end_, history>>

\* The second store; the mutex is released.
Opened(t) ==
  /\ pc[t] = "opened"
  /\ IF EndFirst(t)
     THEN start' = start_[t] /\ UNCHANGED end
     ELSE end' = end_[t] /\ UNCHANGED start
  /\ current' = start_[t] - Header
  /\ refill' = Nobody
  /\ pc' = [pc EXCEPT ![t] = "cas"]
  /\ UNCHANGED <<allocSize, chunks, size, start_, end_, history>>

\* The piece of memory at address a is the thread's.
Grant(t, a) ==
  /\ served' = [served EXCEPT ![t] = @ + 1]
  /\ granted' = granted \cup {[owner |-> t, nr |-> served[t], lo |-> a, hi |-> a + size[t]]}

\* start.compare_exchange_weak(start_, start_ + size)
Take(t) ==
  /\ pc[t] = "cas"
  /\ IF start = start_[t]
     THEN /\ start' = start + size[t]
          /\ Grant(t, start)
          /\ pc' = [pc EXCEPT ![t] = "done"]
     ELSE pc' = [pc EXCEPT ![t] = "loadStart"] /\ UNCHANGED <<start, history>>
  /\ UNCHANGED <<end, allocSize, chunks, current, refill, size, start_, end_>>

\* allocate() returns start_.
Return(t) ==
  /\ pc[t] = "done"
  /\ pc' = [pc EXCEPT ![t] = "idle"]
  /\ UNCHANGED <<start, end, allocSize, chunks, current, refill, size, start_, end_, history>>

\* A step inside allocate().
PoolStep(t) ==
  \/ LoadStart(t) \/ LoadEnd(t) \/ Recheck(t) \/ Drain(t) \/ NewChunk(t)
  \/ Open(t) \/ Opened(t) \/ Take(t)

PoolNext ==
  \E t \in Threads : PoolStep(t) \/ Return(t) \/ \E n \in Sizes : Allocate(t, n)

PoolSpec == PoolInit /\ [][PoolNext]_poolVars

-----------------------------------------------------------------------------
PoolTypeOK ==
  /\ start \in Nat /\ end \in Nat /\ current \in Nat
  /\ allocSize \in Nat \ {0}
  /\ chunks \subseteq [base : Nat, size : Nat \ {0}]
  /\ refill \in Threads \cup {Nobody}
  /\ pc \in [Threads -> {"idle", "loadStart", "loadEnd", "lock", "drain", "chunk", "open",
                         "opened", "cas", "done"}]
  /\ size \in [Threads -> Nat]
  /\ start_ \in [Threads -> Nat] /\ end_ \in [Threads -> Nat]
  /\ served \in [Threads -> Nat]
  /\ granted \subseteq [owner : Threads, nr : Nat, lo : Nat, hi : Nat]

Apart(a, b) == a.hi <= b.lo \/ b.hi <= a.lo

\* No two allocations overlap, and each lies in one chunk, behind its header:
\* a thread that read start of one chunk and end of another, or found the pool
\* closed, gets nothing from it ("order is important", MemoryPool.cpp:53).
GrantsApart ==
  /\ \A a, b \in granted : a # b => Apart(a, b)
  /\ \A a \in granted : \E c \in chunks :
       c.base + Header <= a.lo /\ a.hi <= c.base + Header + c.size
=============================================================================
