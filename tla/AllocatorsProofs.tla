-------------------------- MODULE AllocatorsProofs --------------------------
(***************************************************************************)
(* Proofs about modules GlobalPool and Allocators: the pieces of memory    *)
(* that the global pool grants lie apart, and so does what the allocators  *)
(* of the workers hand out of them, for any number of workers, any sizes   *)
(* of requests that fit (RequestsFit), and any addresses that mmap may     *)
(* return.                                                                 *)
(*                                                                         *)
(* The pool (IInv).  The atomics `start` and `end` are read one after the  *)
(* other, so that a thread may hold a `start` that is out of date when it  *)
(* reads `end`.  That it gets nothing then rests on this: `start` never    *)
(* takes a value again that it has left (Reading), and while a refill is   *)
(* under way, the two stores of which are ordered by the addresses of the  *)
(* chunks, nothing fits between the two atomics (Phase, Chosen).           *)
(*                                                                         *)
(* The pool keeps its promise to the allocators as well, whose steps are   *)
(* its own or leave it alone.  On top of it stand the Allocators (AInv):   *)
(* what a worker may still give out lies in one piece that it was granted, *)
(* behind its blocks; and on top of these the stores (SInv): the chunks of *)
(* a store are blocks of the Allocator, and the groups lie in its chunks   *)
(* up to the current one.                                                  *)
(***************************************************************************)
EXTENDS Allocators, NaturalFacts

(***************************************************************************)
(*                               GlobalPool                                *)
(***************************************************************************)
\* The addresses that a chunk gives out, from Lo to Hi.
Lo(c) == c.base + Header
Hi(c) == c.base + Header + c.size
In(v, c) == Lo(c) <= v /\ v <= Hi(c)

\* The new chunk, as long as `start` has not reached it.
Pending(c) ==
  \E t \in Threads : pc[t] \in {"open", "opened"} /\ start_[t] = Lo(c) /\ start # Lo(c)

\* In chunk c, and not above `start` if that is in c, too.
Passed(v, c) == In(v, c) /\ (In(start, c) => v <= start) /\ ~Pending(c)

-----------------------------------------------------------------------------
(* The parts of the inductive invariant. *)

\* The mutex is held from the second test to the second store.
Mutex ==
  \A t \in Threads : refill = t <=> pc[t] \in {"drain", "chunk", "open", "opened"}

ChunksApart == \A c, d \in chunks : c # d => Hi(c) <= d.base \/ Hi(d) <= c.base

Asked == \A t \in Threads : pc[t] # "idle" => size[t] > 0

\* No refill is under way, or it has not closed the pool yet.
IsOpen == \A t \in Threads : pc[t] \notin {"chunk", "open", "opened"}

\* Thread t refills the pool, in which c was the chunk, with chunk d.
Opening(t, c, d) ==
  /\ c # d
  /\ start_[t] = Lo(d) /\ end_[t] = Hi(d) /\ size[t] <= d.size
  /\ pc[t] = "open" => start = Hi(c) /\ end = Hi(c)
  /\ pc[t] = "opened" =>
       IF d.base < c.base THEN start = Hi(c) /\ end = Hi(d) ELSE start = Lo(d) /\ end = Hi(c)

PhaseOf(c) ==
  /\ c.base = current
  /\ IsOpen => In(start, c) /\ end = Hi(c)
  /\ \A t \in Threads : pc[t] = "chunk" => start = Hi(c) /\ end = Hi(c)
  /\ \A t \in Threads : pc[t] \in {"open", "opened"} => \E d \in chunks : Opening(t, c, d)

Phase == \E c \in chunks : PhaseOf(c)

\* What a thread has read from `start` is behind it.
Reading ==
  \A t \in Threads : pc[t] \in {"loadEnd", "cas"} => \E c \in chunks : Passed(start_[t], c)

\* A compare-exchange that will succeed takes what there is.
Chosen ==
  \A t \in Threads : pc[t] = "cas" /\ start_[t] = start => IsOpen /\ start + size[t] <= end

\* What was granted is behind `start`.
Behind ==
  \A g \in granted : \E c \in chunks : Lo(c) <= g.lo /\ g.lo < g.hi /\ Passed(g.hi, c)

GrantsDisjoint == \A a, b \in granted : a # b => Apart(a, b)

IInv ==
  /\ PoolTypeOK /\ Mutex /\ ChunksApart /\ Asked /\ Phase
  /\ Reading /\ Chosen /\ Behind /\ GrantsDisjoint

-----------------------------------------------------------------------------
(* About addresses. *)

\* The arithmetic of a chunk.
LEMMA ChunkFacts ==
  ASSUME chunks \subseteq [base : Nat, size : Nat \ {0}], NEW c \in chunks
  PROVE  /\ c.base \in Nat /\ c.size \in Nat /\ c.size > 0
         /\ Lo(c) \in Nat /\ Hi(c) \in Nat
         /\ c.base < Lo(c) /\ Lo(c) < Hi(c) /\ Hi(c) = Lo(c) + c.size
BY PoolAssumption DEF Lo, Hi

\* An address is in one chunk at most.
LEMMA OneChunk ==
  ASSUME chunks \subseteq [base : Nat, size : Nat \ {0}], ChunksApart,
         NEW c \in chunks, NEW d \in chunks, NEW v \in Int, In(v, c), In(v, d)
  PROVE  c = d
<1>1. /\ c.base < Lo(c) /\ d.base < Lo(d)
      /\ Lo(c) \in Nat /\ Hi(c) \in Nat /\ Lo(d) \in Nat /\ Hi(d) \in Nat
      /\ c.base \in Nat /\ d.base \in Nat
  BY ChunkFacts
<1> QED
  BY <1>1 DEF ChunksApart, In

\* Between the first and the second store, and while the pool is closed,
\* nothing fits between the two atomics.
LEMMA NothingFits ==
  ASSUME IInv, ~IsOpen
  PROVE  start >= end
<1>1. PICK t \in Threads : pc[t] \in {"chunk", "open", "opened"}
  BY DEF IsOpen
<1>2. PICK c \in chunks : PhaseOf(c)
  BY DEF IInv, Phase
<1>3. start \in Nat /\ end \in Nat /\ chunks \subseteq [base : Nat, size : Nat \ {0}]
  BY DEF IInv, PoolTypeOK
<1>4. CASE pc[t] = "chunk"
  BY <1>2, <1>3, <1>4 DEF PhaseOf
<1>5. CASE pc[t] \in {"open", "opened"}
  <2>1. PICK d \in chunks : Opening(t, c, d)
    BY <1>2, <1>5 DEF PhaseOf
  <2>2. c # d /\ (Hi(c) <= d.base \/ Hi(d) <= c.base)
    BY <2>1 DEF IInv, ChunksApart, Opening
  <2>3. /\ c.base < Lo(c) /\ Lo(c) < Hi(c) /\ d.base < Lo(d) /\ Lo(d) < Hi(d)
        /\ Lo(c) \in Nat /\ Hi(c) \in Nat /\ Lo(d) \in Nat /\ Hi(d) \in Nat
        /\ c.base \in Nat /\ d.base \in Nat
    BY <1>3, ChunkFacts
  <2> QED
    BY <1>3, <1>5, <2>1, <2>2, <2>3 DEF Opening
<1> QED
  BY <1>1, <1>4, <1>5

\* `start` itself is in a chunk.
LEMMA StartPassed ==
  ASSUME IInv
  PROVE  \E c \in chunks : Passed(start, c)
<1>0. start \in Nat /\ chunks \subseteq [base : Nat, size : Nat \ {0}]
  BY DEF IInv, PoolTypeOK
<1>1. PICK c \in chunks : PhaseOf(c)
  BY DEF IInv, Phase
<1>2. \A d \in chunks : Lo(d) \in Nat /\ Hi(d) \in Nat /\ Lo(d) < Hi(d)
  BY <1>0, ChunkFacts
<1>3. \A d \in chunks : In(start, d) /\ start = Lo(d) => Passed(start, d)
  BY <1>0, <1>2 DEF Passed, In, Pending
<1>4. \A d \in chunks : start = Lo(d) => In(start, d)
  BY <1>0, <1>2 DEF In
<1>5. CASE start # Lo(c) /\ In(start, c) /\ \E t \in Threads : pc[t] \in {"open", "opened"}
  <2>1. PICK t \in Threads : pc[t] \in {"open", "opened"}
    BY <1>5
  <2>2. \A u \in Threads : pc[u] \in {"open", "opened"} => u = t
    BY <2>1 DEF IInv, Mutex
  <2>3. PICK d \in chunks : Opening(t, c, d)
    BY <1>1, <2>1 DEF PhaseOf
  <2>4. Lo(c) # Lo(d)
    <3>1. c # d /\ (Hi(c) <= d.base \/ Hi(d) <= c.base)
      BY <2>3 DEF IInv, ChunksApart, Opening
    <3>2. /\ c.base < Lo(c) /\ Lo(c) < Hi(c) /\ d.base < Lo(d) /\ Lo(d) < Hi(d)
          /\ Lo(c) \in Nat /\ Hi(c) \in Nat /\ Lo(d) \in Nat /\ Hi(d) \in Nat
          /\ c.base \in Nat /\ d.base \in Nat
      BY <1>0, ChunkFacts
    <3> QED
      BY <3>1, <3>2
  <2>5. ~Pending(c)
    BY <2>2, <2>3, <2>4 DEF Pending, Opening
  <2> QED
    BY <1>0, <1>5, <2>5 DEF Passed
<1>6. CASE In(start, c) /\ ~\E t \in Threads : pc[t] \in {"open", "opened"}
  BY <1>0, <1>6 DEF Passed, Pending
<1>7. CASE ~In(start, c)
  <2>1. PICK t \in Threads : pc[t] \in {"chunk", "open", "opened"}
    BY <1>1, <1>7 DEF PhaseOf, IsOpen
  <2>2. Hi(c) = start => In(start, c)
    BY <1>2 DEF In
  <2>3. pc[t] \in {"open", "opened"}
    BY <1>1, <1>7, <2>1, <2>2 DEF PhaseOf
  <2>4. PICK d \in chunks : Opening(t, c, d)
    BY <1>1, <2>3 DEF PhaseOf
  <2>5. start = Lo(d)
    BY <1>7, <2>2, <2>3, <2>4 DEF Opening
  <2> QED
    BY <1>3, <1>4, <2>5
<1> QED
  BY <1>3, <1>5, <1>6, <1>7

-----------------------------------------------------------------------------
(* The steps that change neither atomic nor the chunks. *)

\* What the steps of one thread that change none of the shared variables leave
\* alone, unless the thread is refilling the pool.
LEMMA LocalStep ==
  ASSUME IInv, NEW t \in Threads,
         UNCHANGED <<start, end, chunks, current, granted>>,
         pc[t] \notin {"chunk", "open", "opened"},
         pc'[t] \notin {"chunk", "open", "opened"},
         \A u \in Threads \ {t} : /\ pc'[u] = pc[u] /\ size'[u] = size[u]
                                  /\ start_'[u] = start_[u] /\ end_'[u] = end_[u]
  PROVE  ChunksApart' /\ Phase' /\ Behind' /\ GrantsDisjoint'
         /\ IsOpen' = IsOpen
         /\ \A c \in chunks, v \in Int : Passed(v, c) => Passed(v, c)'
<1>1. ChunksApart' /\ GrantsDisjoint'
  BY DEF IInv, ChunksApart, GrantsDisjoint, Hi, Apart
<1>2. IsOpen' = IsOpen
  BY DEF IsOpen
<1>3. \A c : Pending(c)' => Pending(c)
  BY DEF Pending, Lo
<1>4. ASSUME NEW c \in chunks, NEW v \in Int, Passed(v, c)
      PROVE  Passed(v, c)'
  BY <1>3, <1>4 DEF Passed, In, Lo, Hi
<1>5. Phase'
  <2>1. PICK c \in chunks : PhaseOf(c)
    BY DEF IInv, Phase
  <2>2. ASSUME NEW u \in Threads, pc'[u] \in {"open", "opened"}
        PROVE  \E d \in chunks : Opening(u, c, d)'
    <3>1. u # t /\ pc[u] = pc'[u]
      BY <2>2
    <3>2. PICK d \in chunks : Opening(u, c, d)
      BY <2>1, <2>2, <3>1 DEF PhaseOf
    <3>3. Opening(u, c, d)'
      BY <3>1, <3>2 DEF Opening, Lo, Hi
    <3> QED
      BY <3>3
  <2>3. PhaseOf(c)'
    BY <1>2, <2>1, <2>2 DEF PhaseOf, In, Lo, Hi
  <2> QED
    BY <2>3 DEF Phase
<1>6. Behind'
  <2> SUFFICES ASSUME NEW g \in granted
               PROVE  \E c \in chunks : (Lo(c) <= g.lo /\ g.lo < g.hi /\ Passed(g.hi, c))'
    BY DEF Behind
  <2>1. PICK c \in chunks : Lo(c) <= g.lo /\ g.lo < g.hi /\ Passed(g.hi, c)
    BY DEF IInv, Behind
  <2>2. g.hi \in Int
    BY DEF IInv, PoolTypeOK
  <2>3. Passed(g.hi, c)'
    BY <1>4, <2>1, <2>2
  <2> QED
    BY <2>1, <2>3 DEF Lo
<1> QED
  BY <1>1, <1>2, <1>4, <1>5, <1>6

LEMMA AllocateStep ==
  ASSUME IInv, NEW t \in Threads, NEW n \in Nat \ {0}, Allocate(t, n)
  PROVE  IInv'
<1> USE DEF Allocate, history
<1>0. PoolTypeOK
  BY DEF IInv
<1>1. PoolTypeOK'
  BY <1>0 DEF PoolTypeOK
<1>2. /\ pc[t] = "idle" /\ pc'[t] = "loadStart"
      /\ \A u \in Threads \ {t} : /\ pc'[u] = pc[u] /\ size'[u] = size[u]
                                  /\ start_'[u] = start_[u] /\ end_'[u] = end_[u]
  BY <1>0 DEF PoolTypeOK
<1>3. /\ ChunksApart' /\ Phase' /\ Behind' /\ GrantsDisjoint' /\ IsOpen' = IsOpen
      /\ \A c \in chunks, v \in Int : Passed(v, c) => Passed(v, c)'
  BY <1>2, LocalStep
<1>4. Mutex'
  BY <1>2 DEF IInv, Mutex
<1>5. Asked'
  BY <1>0, <1>2 DEF IInv, Asked, PoolTypeOK
<1>6. Reading'
  BY <1>0, <1>2, <1>3 DEF IInv, Reading, PoolTypeOK
<1>7. Chosen'
  BY <1>0, <1>2, <1>3 DEF IInv, Chosen, PoolTypeOK
<1> QED
  BY <1>1, <1>3, <1>4, <1>5, <1>6, <1>7 DEF IInv

LEMMA LoadStartStep ==
  ASSUME IInv, NEW t \in Threads, LoadStart(t)
  PROVE  IInv'
<1> USE DEF LoadStart, history
<1>0. PoolTypeOK
  BY DEF IInv
<1>1. PoolTypeOK'
  BY <1>0 DEF PoolTypeOK
<1>2. /\ pc[t] = "loadStart" /\ pc'[t] = "loadEnd"
      /\ \A u \in Threads \ {t} : /\ pc'[u] = pc[u] /\ size'[u] = size[u]
                                  /\ start_'[u] = start_[u] /\ end_'[u] = end_[u]
  BY <1>0 DEF PoolTypeOK
<1>3. /\ ChunksApart' /\ Phase' /\ Behind' /\ GrantsDisjoint' /\ IsOpen' = IsOpen
      /\ \A c \in chunks, v \in Int : Passed(v, c) => Passed(v, c)'
  BY <1>2, LocalStep
<1>4. Mutex'
  BY <1>2 DEF IInv, Mutex
<1>5. Asked'
  BY <1>0, <1>2 DEF IInv, Asked, PoolTypeOK
<1>6. Reading'
  <2>1. \E c \in chunks : Passed(start, c)
    BY StartPassed
  <2> QED
    BY <1>0, <1>2, <1>3, <2>1 DEF IInv, Reading, PoolTypeOK
<1>7. Chosen'
  BY <1>0, <1>2, <1>3 DEF IInv, Chosen, PoolTypeOK
<1> QED
  BY <1>1, <1>3, <1>4, <1>5, <1>6, <1>7 DEF IInv

LEMMA LoadEndStep ==
  ASSUME IInv, NEW t \in Threads, LoadEnd(t)
  PROVE  IInv'
<1> USE DEF LoadEnd, history
<1>0. PoolTypeOK
  BY DEF IInv
<1>1. PoolTypeOK'
  BY <1>0 DEF PoolTypeOK
<1>2. /\ pc[t] = "loadEnd" /\ pc'[t] \in {"lock", "cas"}
      /\ \A u \in Threads \ {t} : /\ pc'[u] = pc[u] /\ size'[u] = size[u]
                                  /\ start_'[u] = start_[u] /\ end_'[u] = end_[u]
  BY <1>0 DEF PoolTypeOK
<1>3. /\ ChunksApart' /\ Phase' /\ Behind' /\ GrantsDisjoint' /\ IsOpen' = IsOpen
      /\ \A c \in chunks, v \in Int : Passed(v, c) => Passed(v, c)'
  BY <1>2, LocalStep
<1>4. Mutex'
  BY <1>2 DEF IInv, Mutex
<1>5. Asked'
  BY <1>0, <1>2 DEF IInv, Asked, PoolTypeOK
<1>6. Reading'
  BY <1>0, <1>2, <1>3 DEF IInv, Reading, PoolTypeOK
<1>7. Chosen'
  <2> SUFFICES ASSUME NEW u \in Threads, pc'[u] = "cas", start_'[u] = start
               PROVE  IsOpen /\ start + size[u] <= end
    BY <1>0, <1>3 DEF Chosen
  <2>1. CASE u # t
    BY <1>2, <2>1 DEF IInv, Chosen
  <2>2. CASE u = t
    <3>1. start + size[t] < end
      BY <1>0, <2>2 DEF PoolTypeOK
    <3>2. start < end
      BY <1>0, <3>1 DEF PoolTypeOK
    <3>3. IsOpen
      BY <1>0, <3>2, NothingFits DEF PoolTypeOK
    <3> QED
      BY <1>0, <2>2, <3>1, <3>3 DEF PoolTypeOK
  <2> QED
    BY <2>1, <2>2
<1> QED
  BY <1>1, <1>3, <1>4, <1>5, <1>6, <1>7 DEF IInv

LEMMA ReturnStep ==
  ASSUME IInv, NEW t \in Threads, Return(t)
  PROVE  IInv'
<1> USE DEF Return, history
<1>0. PoolTypeOK
  BY DEF IInv
<1>1. PoolTypeOK'
  BY <1>0 DEF PoolTypeOK
<1>2. /\ pc[t] = "done" /\ pc'[t] = "idle"
      /\ \A u \in Threads \ {t} : /\ pc'[u] = pc[u] /\ size'[u] = size[u]
                                  /\ start_'[u] = start_[u] /\ end_'[u] = end_[u]
  BY <1>0 DEF PoolTypeOK
<1>3. /\ ChunksApart' /\ Phase' /\ Behind' /\ GrantsDisjoint' /\ IsOpen' = IsOpen
      /\ \A c \in chunks, v \in Int : Passed(v, c) => Passed(v, c)'
  BY <1>2, LocalStep
<1>4. Mutex'
  BY <1>2 DEF IInv, Mutex
<1>5. Asked' /\ Reading' /\ Chosen'
  BY <1>0, <1>2, <1>3 DEF IInv, Asked, Reading, Chosen, PoolTypeOK
<1> QED
  BY <1>1, <1>3, <1>4, <1>5 DEF IInv

\* Taking the mutex, or finding that the pool was refilled.
LEMMA RecheckStep ==
  ASSUME IInv, NEW t \in Threads, Recheck(t)
  PROVE  IInv'
<1> USE DEF Recheck, history
<1>0. PoolTypeOK
  BY DEF IInv
<1>1. PoolTypeOK'
  BY <1>0 DEF PoolTypeOK
<1>2. /\ pc[t] = "lock" /\ pc'[t] \in {"drain", "loadStart"}
      /\ \A u \in Threads \ {t} : /\ pc'[u] = pc[u] /\ size'[u] = size[u]
                                  /\ start_'[u] = start_[u] /\ end_'[u] = end_[u]
  BY <1>0 DEF PoolTypeOK
<1>3. /\ ChunksApart' /\ Phase' /\ Behind' /\ GrantsDisjoint' /\ IsOpen' = IsOpen
      /\ \A c \in chunks, v \in Int : Passed(v, c) => Passed(v, c)'
  BY <1>2, LocalStep
<1>4. Mutex'
  BY <1>0, <1>2, PoolAssumption DEF IInv, Mutex, PoolTypeOK
<1>5. Asked' /\ Reading' /\ Chosen'
  BY <1>0, <1>2, <1>3 DEF IInv, Asked, Reading, Chosen, PoolTypeOK
<1> QED
  BY <1>1, <1>3, <1>4, <1>5 DEF IInv

-----------------------------------------------------------------------------
(* The steps of a refill. *)

\* The mutex keeps all but one thread out of a refill.
LEMMA OneRefill ==
  ASSUME IInv, NEW t \in Threads, pc[t] \in {"drain", "chunk", "open", "opened"}
  PROVE  \A u \in Threads : u # t => pc[u] \notin {"drain", "chunk", "open", "opened"}
BY DEF IInv, Mutex

\* The two chunks of a refill have nothing in common.
LEMMA NewIsApart ==
  ASSUME IInv, NEW c \in chunks, NEW d \in chunks, c # d
  PROVE  /\ c.base # d.base /\ Lo(c) # Lo(d) /\ Lo(d) # Hi(c)
         /\ d.base < c.base => Hi(d) <= c.base
         /\ ~(d.base < c.base) => Hi(c) <= d.base
<1>1. chunks \subseteq [base : Nat, size : Nat \ {0}]
  BY DEF IInv, PoolTypeOK
<1>2. /\ c.base < Lo(c) /\ Lo(c) < Hi(c) /\ d.base < Lo(d) /\ Lo(d) < Hi(d)
      /\ Lo(c) \in Nat /\ Hi(c) \in Nat /\ Lo(d) \in Nat /\ Hi(d) \in Nat
      /\ c.base \in Nat /\ d.base \in Nat
  BY <1>1, ChunkFacts
<1> QED
  BY <1>2 DEF IInv, ChunksApart

\* The pool is closed, or, if start was moved meanwhile, the thread tries again.
LEMMA DrainStep ==
  ASSUME IInv, NEW t \in Threads, Drain(t)
  PROVE  IInv'
<1> USE DEF Drain, history
<1>0. PoolTypeOK
  BY DEF IInv
<1>1. PoolTypeOK'
  BY <1>0 DEF PoolTypeOK
<1>2. /\ pc[t] = "drain"
      /\ \A u \in Threads \ {t} : /\ pc'[u] = pc[u] /\ size'[u] = size[u]
                                  /\ start_'[u] = start_[u] /\ end_'[u] = end_[u]
  BY <1>0 DEF PoolTypeOK
<1>3. CASE start # start_[t]
  <2>1. UNCHANGED <<start, end, chunks, current, granted, pc>>
    BY <1>3
  <2>2. /\ ChunksApart' /\ Phase' /\ Behind' /\ GrantsDisjoint' /\ IsOpen' = IsOpen
        /\ \A c \in chunks, v \in Int : Passed(v, c) => Passed(v, c)'
    BY <1>2, <2>1, LocalStep
  <2>3. Mutex' /\ Asked'
    BY <2>1 DEF IInv, Mutex, Asked
  <2>4. Reading' /\ Chosen'
    BY <1>0, <1>2, <2>1, <2>2 DEF IInv, Reading, Chosen, PoolTypeOK
  <2> QED
    BY <1>1, <2>2, <2>3, <2>4 DEF IInv
<1>4. CASE start = start_[t]
  <2>1. /\ start' = end /\ pc'[t] = "chunk"
        /\ UNCHANGED <<end, chunks, current, granted, size, start_, refill>>
    BY <1>0, <1>4 DEF PoolTypeOK
  <2>2. IsOpen /\ \A u \in Threads : pc'[u] \notin {"open", "opened"}
    BY <1>2, <2>1, OneRefill DEF IsOpen
  <2>3. PICK c \in chunks : PhaseOf(c)
    BY DEF IInv, Phase
  <2>4. In(start, c) /\ end = Hi(c) /\ start \in Nat /\ end \in Nat
    BY <1>0, <2>2, <2>3 DEF PhaseOf, PoolTypeOK
  <2>5. chunks \subseteq [base : Nat, size : Nat \ {0}]
    BY <1>0 DEF PoolTypeOK
  <2>6. In(end, c)
    BY <2>4, <2>5, ChunkFacts DEF In
  <2>7. ChunksApart
    BY DEF IInv
  <2>8. ASSUME NEW b \in chunks, NEW v \in Int, In(v, b)
        PROVE  Passed(v, b)'
    <3>1. ~Pending(b)'
      BY <2>2 DEF Pending
    <3>2. In(end, b) => b = c
      BY <2>4, <2>5, <2>6, <2>7, OneChunk
    <3>3. In(end, b) => v <= end
      BY <2>4, <2>8, <3>2 DEF In
    <3> QED
      BY <2>1, <2>8, <3>1, <3>3 DEF Passed, In, Lo, Hi
  <2>9. Mutex' /\ Asked'
    BY <1>2, <2>1 DEF IInv, Mutex, Asked
  <2>10. Phase'
    <3>1. ~IsOpen'
      BY <2>1 DEF IsOpen
    <3>2. PhaseOf(c)'
      BY <2>1, <2>2, <2>3, <2>4, <3>1 DEF PhaseOf, Hi
    <3> QED
      BY <2>1, <3>2 DEF Phase
  <2>11. Reading'
    <3> SUFFICES ASSUME NEW u \in Threads, pc'[u] \in {"loadEnd", "cas"}
                 PROVE  \E b \in chunks : Passed(start_[u], b)'
      BY <2>1 DEF Reading
    <3>1. pc[u] \in {"loadEnd", "cas"}
      BY <1>2, <2>1
    <3>2. PICK b \in chunks : Passed(start_[u], b)
      BY <3>1 DEF IInv, Reading
    <3> QED
      BY <1>0, <2>1, <2>8, <3>2 DEF Passed, PoolTypeOK
  <2>12. Chosen'
    <3> SUFFICES ASSUME NEW u \in Threads, pc'[u] = "cas", start_[u] = end
                 PROVE  FALSE
      BY <2>1 DEF Chosen
    <3>1. pc[u] = "cas" /\ size[u] \in Nat /\ size[u] > 0
      BY <1>0, <1>2, <2>1 DEF IInv, Asked, PoolTypeOK
    <3>2. PICK b \in chunks : Passed(start_[u], b)
      BY <3>1 DEF IInv, Reading
    <3>3. b = c
      BY <2>4, <2>5, <2>6, <2>7, <3>2, OneChunk DEF Passed
    <3>4. end <= start
      BY <2>4, <3>2, <3>3 DEF Passed
    <3>5. start = end
      BY <2>4, <3>4 DEF In
    <3> QED
      BY <2>4, <3>1, <3>5 DEF IInv, Chosen
  <2>13. Behind'
    <3> SUFFICES ASSUME NEW g \in granted
                 PROVE  \E b \in chunks : Lo(b)' <= g.lo /\ g.lo < g.hi /\ Passed(g.hi, b)'
      BY <2>1 DEF Behind, Lo
    <3>1. PICK b \in chunks : Lo(b) <= g.lo /\ g.lo < g.hi /\ Passed(g.hi, b)
      BY DEF IInv, Behind
    <3> QED
      BY <1>0, <2>8, <3>1 DEF Passed, PoolTypeOK, Lo
  <2>14. ChunksApart' /\ GrantsDisjoint'
    BY <2>1 DEF IInv, ChunksApart, GrantsDisjoint, Hi, Apart
  <2> QED
    BY <1>1, <2>9, <2>10, <2>11, <2>12, <2>13, <2>14 DEF IInv
<1> QED
  BY <1>3, <1>4

\* The new chunk is pending.
LEMMA NewChunkStep ==
  ASSUME IInv, NEW t \in Threads, NewChunk(t)
  PROVE  IInv'
<1> USE DEF NewChunk, history
<1>0. /\ PoolTypeOK /\ Header \in Nat
      /\ chunks \subseteq [base : Nat, size : Nat \ {0}]
  BY PoolAssumption DEF IInv, PoolTypeOK
<1>1. PICK n \in Nat \ {0} : n = Larger(allocSize * 2, size[t]) /\ size[t] <= n
  BY <1>0 DEF Larger, PoolTypeOK
<1>2. PICK b \in Bases : /\ Vacant(b, n)
                         /\ chunks' = chunks \cup {[base |-> b, size |-> n]}
                         /\ start_' = [start_ EXCEPT ![t] = b + Header]
                         /\ end_' = [end_ EXCEPT ![t] = b + Header + n]
  BY <1>1
<1> DEFINE d == [base |-> b, size |-> n]
<1>3. b \in Nat /\ d.base = b /\ d.size = n /\ Lo(d) = b + Header /\ Hi(d) = b + Header + n
  BY PoolAssumption DEF Lo, Hi
<1>4. allocSize' = n
  BY <1>1
<1>5. PoolTypeOK'
  BY <1>0, <1>1, <1>2, <1>3, <1>4 DEF PoolTypeOK
<1>6. /\ pc[t] = "chunk" /\ pc'[t] = "open"
      /\ \A u \in Threads \ {t} : pc'[u] = pc[u] /\ start_'[u] = start_[u]
      /\ start_'[t] = Lo(d) /\ end_'[t] = Hi(d)
  BY <1>0, <1>2, <1>3 DEF PoolTypeOK
<1>7. UNCHANGED <<start, end, current, refill, size, granted>>
  OBVIOUS
<1> HIDE DEF NewChunk, d
<1>8. \A c \in chunks : (Hi(d) <= c.base \/ Hi(c) <= d.base) /\ Lo(c) # Lo(d) /\ c # d
  <2> SUFFICES ASSUME NEW c \in chunks
               PROVE  (Hi(d) <= c.base \/ Hi(c) <= d.base) /\ Lo(c) # Lo(d) /\ c # d
    OBVIOUS
  <2>1. Hi(d) <= c.base \/ Hi(c) <= d.base
    BY <1>2, <1>3 DEF Vacant, Hi
  <2>2. c.base \in Nat /\ c.size \in Nat /\ c.size > 0
    BY <1>0, ChunkFacts
  <2>3. c.base # d.base
    BY <1>0, <1>1, <1>3, <2>1, <2>2 DEF Hi
  <2> QED
    BY <1>0, <1>3, <2>1, <2>2, <2>3 DEF Lo
<1>9. ChunksApart'
  BY <1>2, <1>8 DEF IInv, ChunksApart, Hi, d
<1>10. ~IsOpen /\ \A u \in Threads : u # t => pc[u] \notin {"drain", "chunk", "open", "opened"}
  BY <1>6, OneRefill DEF IsOpen
<1>11. ASSUME NEW c \in chunks, NEW v \in Int, Passed(v, c)
       PROVE  Passed(v, c)'
  <2>1. ~Pending(c)'
    BY <1>6, <1>8, <1>10 DEF Pending, Lo
  <2> QED
    BY <1>7, <1>11, <2>1 DEF Passed, In, Lo, Hi
<1>12. Phase'
  <2>1. PICK c \in chunks : PhaseOf(c)
    BY DEF IInv, Phase
  <2>2. start = Hi(c) /\ end = Hi(c)
    BY <1>6, <2>1 DEF PhaseOf
  <2>3. Opening(t, c, d)'
    BY <1>1, <1>3, <1>6, <1>7, <1>8, <2>2 DEF Opening, Lo, Hi
  <2>4. ~IsOpen'
    BY <1>6 DEF IsOpen
  <2>5. d \in chunks' /\ c \in chunks'
    BY <1>2 DEF d
  <2>6. \A u \in Threads : pc'[u] # "chunk" /\ (pc'[u] \in {"open", "opened"} => u = t)
    BY <1>6, <1>10
  <2>7. PhaseOf(c)'
    BY <1>7, <2>1, <2>3, <2>4, <2>5, <2>6 DEF PhaseOf
  <2> QED
    BY <2>5, <2>7 DEF Phase
<1>13. Mutex' /\ Asked'
  BY <1>6, <1>7 DEF IInv, Mutex, Asked
<1>14. Reading'
  <2> SUFFICES ASSUME NEW u \in Threads, pc'[u] \in {"loadEnd", "cas"}
               PROVE  \E c \in chunks' : Passed(start_[u], c)'
    BY DEF Reading
  <2>1. u # t /\ pc[u] \in {"loadEnd", "cas"} /\ start_'[u] = start_[u] /\ start_[u] \in Int
    BY <1>0, <1>6 DEF PoolTypeOK
  <2>2. PICK c \in chunks : Passed(start_[u], c)
    BY <2>1 DEF IInv, Reading
  <2>3. Passed(start_[u], c)'
    BY <1>11, <2>1, <2>2 DEF Passed, In
  <2> QED
    BY <1>2, <2>3
<1>15. Chosen'
  BY <1>6, <1>7, <1>10 DEF IInv, Chosen
<1>16. Behind'
  <2> SUFFICES ASSUME NEW g \in granted
               PROVE  \E c \in chunks' : Lo(c)' <= g.lo /\ g.lo < g.hi /\ Passed(g.hi, c)'
    BY <1>7 DEF Behind
  <2>1. PICK c \in chunks : Lo(c) <= g.lo /\ g.lo < g.hi /\ Passed(g.hi, c)
    BY DEF IInv, Behind
  <2>2. g.hi \in Int
    BY <1>0 DEF PoolTypeOK
  <2> QED
    BY <1>2, <1>11, <2>1, <2>2 DEF Lo, Passed, In
<1>17. GrantsDisjoint'
  BY <1>7 DEF IInv, GrantsDisjoint, Apart
<1> QED
  BY <1>5, <1>9, <1>12, <1>13, <1>14, <1>15, <1>16, <1>17 DEF IInv

\* The first store: into the new chunk, if it is above the old one.
LEMMA OpenStep ==
  ASSUME IInv, NEW t \in Threads, Open(t)
  PROVE  IInv'
<1> USE DEF Open, history
<1>0. /\ PoolTypeOK /\ Header \in Nat
      /\ chunks \subseteq [base : Nat, size : Nat \ {0}]
  BY PoolAssumption DEF IInv, PoolTypeOK
<1>1. PoolTypeOK'
  BY <1>0 DEF PoolTypeOK
<1>2. /\ pc[t] = "open" /\ pc'[t] = "opened"
      /\ \A u \in Threads \ {t} : pc'[u] = pc[u]
      /\ UNCHANGED <<chunks, current, refill, size, start_, end_, granted>>
  BY <1>0 DEF PoolTypeOK
<1>3. PICK c \in chunks : PhaseOf(c)
  BY DEF IInv, Phase
<1>4. PICK d \in chunks : Opening(t, c, d)
  BY <1>2, <1>3 DEF PhaseOf
<1>5. /\ start = Hi(c) /\ end = Hi(c) /\ c.base = current
      /\ start_[t] = Lo(d) /\ end_[t] = Hi(d) /\ c # d
  BY <1>2, <1>3, <1>4 DEF Opening, PhaseOf
<1>6. EndFirst(t) <=> d.base < c.base
  BY <1>0, <1>5, ChunkFacts DEF EndFirst, Lo
<1>7. IF d.base < c.base THEN start' = Hi(c) /\ end' = Hi(d)
                         ELSE start' = Lo(d) /\ end' = Hi(c)
  BY <1>5, <1>6
<1> HIDE DEF Open
<1>8. ~IsOpen /\ \A u \in Threads : u # t => pc[u] \notin {"drain", "chunk", "open", "opened"}
  BY <1>2, OneRefill DEF IsOpen
<1>9. /\ start # Lo(d) /\ Lo(d) \in Int
      /\ \A b \in chunks : b # d => Lo(b) # Lo(d)
  BY <1>0, <1>5, NewIsApart, ChunkFacts
<1>10. Pending(d)
  BY <1>2, <1>5, <1>9 DEF Pending
<1>11. \A b \in chunks : b # d => ~In(Lo(d), b)
  <2>1. In(Lo(d), d)
    BY <1>0, ChunkFacts DEF In
  <2> QED
    BY <1>0, <1>9, <2>1, OneChunk DEF IInv
<1>12. ASSUME NEW b \in chunks, NEW v \in Int, Passed(v, b)
       PROVE  Passed(v, b)'
  <2>1. b # d
    BY <1>10, <1>12 DEF Passed
  <2>2. ~Pending(b)'
    BY <1>2, <1>5, <1>8, <1>9, <2>1 DEF Pending, Lo
  <2>3. In(start', b) => start' = start
    BY <1>5, <1>7, <1>11, <2>1
  <2> QED
    BY <1>2, <1>12, <2>2, <2>3 DEF Passed, In, Lo, Hi
<1>13. Phase'
  <2>1. Opening(t, c, d)'
    BY <1>2, <1>4, <1>7 DEF Opening, Lo, Hi
  <2>2. ~IsOpen'
    BY <1>2 DEF IsOpen
  <2>3. \A u \in Threads : pc'[u] # "chunk" /\ (pc'[u] \in {"open", "opened"} => u = t)
    BY <1>2, <1>8
  <2>4. PhaseOf(c)'
    BY <1>2, <1>5, <2>1, <2>2, <2>3 DEF PhaseOf
  <2> QED
    BY <1>2, <2>4 DEF Phase
<1>14. Mutex' /\ Asked' /\ ChunksApart' /\ GrantsDisjoint'
  BY <1>2 DEF IInv, Mutex, Asked, ChunksApart, GrantsDisjoint, Hi, Apart
<1>15. Reading'
  <2> SUFFICES ASSUME NEW u \in Threads, pc'[u] \in {"loadEnd", "cas"}
               PROVE  \E b \in chunks : Passed(start_[u], b)'
    BY <1>2 DEF Reading
  <2>1. u # t /\ pc[u] \in {"loadEnd", "cas"} /\ start_[u] \in Int
    BY <1>0, <1>2 DEF PoolTypeOK
  <2>2. PICK b \in chunks : Passed(start_[u], b)
    BY <2>1 DEF IInv, Reading
  <2> QED
    BY <1>2, <1>12, <2>1, <2>2 DEF Passed, In
<1>16. Chosen'
  <2> SUFFICES ASSUME NEW u \in Threads, pc'[u] = "cas", start_[u] = start'
               PROVE  FALSE
    BY <1>2 DEF Chosen
  <2>1. pc[u] = "cas"
    BY <1>2
  <2>2. start_[u] # start
    BY <1>8, <2>1 DEF IInv, Chosen
  <2>3. start_[u] = Lo(d)
    BY <1>5, <1>7, <2>2
  <2>4. PICK b \in chunks : Passed(start_[u], b)
    BY <2>1 DEF IInv, Reading
  <2> QED
    BY <1>10, <1>11, <2>3, <2>4 DEF Passed
<1>17. Behind'
  <2> SUFFICES ASSUME NEW g \in granted
               PROVE  \E b \in chunks : Lo(b)' <= g.lo /\ g.lo < g.hi /\ Passed(g.hi, b)'
    BY <1>2 DEF Behind
  <2>1. PICK b \in chunks : Lo(b) <= g.lo /\ g.lo < g.hi /\ Passed(g.hi, b)
    BY DEF IInv, Behind
  <2>2. g.hi \in Int
    BY <1>0 DEF PoolTypeOK
  <2> QED
    BY <1>2, <1>12, <2>1, <2>2 DEF Lo, Passed, In
<1> QED
  BY <1>1, <1>13, <1>14, <1>15, <1>16, <1>17 DEF IInv

\* The second store: the pool is open, and the thread takes the first piece.
LEMMA OpenedStep ==
  ASSUME IInv, NEW t \in Threads, Opened(t)
  PROVE  IInv'
<1> USE DEF Opened, history
<1>0. /\ PoolTypeOK /\ Header \in Nat
      /\ chunks \subseteq [base : Nat, size : Nat \ {0}]
  BY PoolAssumption DEF IInv, PoolTypeOK
<1>2. /\ pc[t] = "opened" /\ pc'[t] = "cas" /\ refill' = Nobody
      /\ \A u \in Threads \ {t} : pc'[u] = pc[u]
      /\ UNCHANGED <<chunks, size, start_, end_, granted>>
  BY <1>0 DEF PoolTypeOK
<1>3. PICK c \in chunks : PhaseOf(c)
  BY DEF IInv, Phase
<1>4. PICK d \in chunks : Opening(t, c, d)
  BY <1>2, <1>3 DEF PhaseOf
<1>5. /\ c.base = current /\ start_[t] = Lo(d) /\ end_[t] = Hi(d) /\ c # d
      /\ size[t] <= d.size
      /\ IF d.base < c.base THEN start = Hi(c) /\ end = Hi(d) ELSE start = Lo(d) /\ end = Hi(c)
  BY <1>2, <1>3, <1>4 DEF Opening, PhaseOf
<1>6. /\ EndFirst(t) <=> d.base < c.base
      /\ start_[t] - Header = d.base
  BY <1>0, <1>5, ChunkFacts DEF EndFirst, Lo
<1>7. start' = Lo(d) /\ end' = Hi(d) /\ current' = d.base
  BY <1>5, <1>6
<1>1. PoolTypeOK'
  BY <1>0, <1>6, <1>7, ChunkFacts DEF PoolTypeOK
<1> HIDE DEF Opened
<1>8. ~IsOpen /\ \A u \in Threads : u # t => pc[u] \notin {"drain", "chunk", "open", "opened"}
  BY <1>2, OneRefill DEF IsOpen
<1>9. /\ Lo(d) \in Nat /\ Hi(d) \in Nat /\ d.size \in Nat /\ Lo(d) < Hi(d)
      /\ Hi(d) = Lo(d) + d.size /\ Lo(d) # Hi(c)
  BY <1>0, <1>5, NewIsApart, ChunkFacts
<1>10. In(Lo(d), d) /\ \A b \in chunks : b # d => ~In(Lo(d), b)
  <2>1. In(Lo(d), d)
    BY <1>9 DEF In
  <2> QED
    BY <1>0, <1>9, <2>1, OneChunk DEF IInv
<1>11. IsOpen' /\ \A b \in chunks : ~Pending(b)'
  BY <1>2, <1>8 DEF IsOpen, Pending
<1>12. ASSUME NEW b \in chunks, NEW v \in Int, Passed(v, b)
       PROVE  Passed(v, b)'
  <2>1. CASE start = Lo(d)
    BY <1>2, <1>7, <1>11, <1>12, <2>1 DEF Passed, In, Lo, Hi
  <2>2. CASE start # Lo(d)
    <3>1. Pending(d)
      BY <1>2, <1>5, <2>2 DEF Pending
    <3>2. b # d
      BY <1>12, <3>1 DEF Passed
    <3> QED
      BY <1>2, <1>7, <1>10, <1>11, <1>12, <3>2 DEF Passed, In, Lo, Hi
  <2> QED
    BY <2>1, <2>2
<1>13. Phase'
  <2>1. PhaseOf(d)'
    BY <1>2, <1>7, <1>8, <1>10 DEF PhaseOf, In, Lo, Hi
  <2> QED
    BY <1>2, <2>1 DEF Phase
<1>14. Asked' /\ ChunksApart' /\ GrantsDisjoint'
  BY <1>2 DEF IInv, Asked, ChunksApart, GrantsDisjoint, Hi, Apart
<1>15. Mutex'
  BY <1>2, <1>8, PoolAssumption DEF Mutex
<1>16. Reading'
  <2> SUFFICES ASSUME NEW u \in Threads, pc'[u] \in {"loadEnd", "cas"}
               PROVE  \E b \in chunks : Passed(start_[u], b)'
    BY <1>2 DEF Reading
  <2>1. CASE u = t
    BY <1>2, <1>5, <1>7, <1>9, <1>10, <1>11, <2>1 DEF Passed, In, Lo, Hi
  <2>2. CASE u # t
    <3>1. pc[u] \in {"loadEnd", "cas"} /\ start_[u] \in Int
      BY <1>0, <1>2, <2>2 DEF PoolTypeOK
    <3>2. PICK b \in chunks : Passed(start_[u], b)
      BY <3>1 DEF IInv, Reading
    <3> QED
      BY <1>2, <1>12, <3>1, <3>2 DEF Passed, In
  <2> QED
    BY <2>1, <2>2
<1>17. Chosen'
  <2> SUFFICES ASSUME NEW u \in Threads, pc'[u] = "cas", start_[u] = start'
               PROVE  start' + size[u] <= end'
    BY <1>2, <1>11 DEF Chosen
  <2>1. CASE u = t
    BY <1>0, <1>5, <1>7, <1>9, <2>1 DEF PoolTypeOK
  <2>2. CASE u # t
    <3>1. pc[u] = "cas"
      BY <1>2, <2>2
    <3>2. start_[u] # start
      BY <1>8, <3>1 DEF IInv, Chosen
    <3>3. Pending(d)
      BY <1>2, <1>5, <1>7, <3>2 DEF Pending
    <3>4. PICK b \in chunks : Passed(start_[u], b)
      BY <3>1 DEF IInv, Reading
    <3> QED
      BY <1>7, <1>10, <3>3, <3>4 DEF Passed
  <2> QED
    BY <2>1, <2>2
<1>18. Behind'
  <2> SUFFICES ASSUME NEW g \in granted
               PROVE  \E b \in chunks : Lo(b)' <= g.lo /\ g.lo < g.hi /\ Passed(g.hi, b)'
    BY <1>2 DEF Behind
  <2>1. PICK b \in chunks : Lo(b) <= g.lo /\ g.lo < g.hi /\ Passed(g.hi, b)
    BY DEF IInv, Behind
  <2>2. g.hi \in Int
    BY <1>0 DEF PoolTypeOK
  <2> QED
    BY <1>2, <1>12, <2>1, <2>2 DEF Lo, Passed, In
<1> QED
  BY <1>1, <1>13, <1>14, <1>15, <1>16, <1>17, <1>18 DEF IInv

-----------------------------------------------------------------------------
\* The compare-exchange.
LEMMA TakeStep ==
  ASSUME IInv, NEW t \in Threads, Take(t)
  PROVE  IInv'
<1> USE DEF Take, Grant, history
<1>0. /\ PoolTypeOK
      /\ chunks \subseteq [base : Nat, size : Nat \ {0}]
  BY DEF IInv, PoolTypeOK
<1>1. pc[t] = "cas" /\ size[t] \in Nat /\ size[t] > 0 /\ start \in Nat /\ end \in Nat
  BY <1>0 DEF IInv, Asked, PoolTypeOK
<1>2. \A u \in Threads \ {t} : /\ pc'[u] = pc[u] /\ size'[u] = size[u]
                               /\ start_'[u] = start_[u] /\ end_'[u] = end_[u]
  BY <1>0 DEF PoolTypeOK
<1>3. CASE start # start_[t]
  <2>1. /\ pc'[t] = "loadStart"
        /\ UNCHANGED <<start, end, allocSize, chunks, current, refill, size, start_, end_, history>>
    BY <1>0, <1>3 DEF PoolTypeOK
  <2>2. /\ ChunksApart' /\ Phase' /\ Behind' /\ GrantsDisjoint' /\ IsOpen' = IsOpen
        /\ \A c \in chunks, v \in Int : Passed(v, c) => Passed(v, c)'
    BY <1>1, <1>2, <2>1, LocalStep
  <2>3. Mutex' /\ Asked'
    BY <1>1, <1>2, <2>1 DEF IInv, Mutex, Asked
  <2>4. Reading' /\ Chosen'
    BY <1>0, <1>2, <2>1, <2>2 DEF IInv, Reading, Chosen, PoolTypeOK
  <2>5. PoolTypeOK'
    BY <1>0, <1>3 DEF PoolTypeOK
  <2> QED
    BY <2>2, <2>3, <2>4, <2>5 DEF IInv
<1>4. CASE start = start_[t]
  <2> DEFINE piece == [owner |-> t, nr |-> served[t], lo |-> start, hi |-> start + size[t]]
  <2>1. /\ pc'[t] = "done" /\ start' = start + size[t]
        /\ granted' = granted \cup {piece}
        /\ UNCHANGED <<end, allocSize, chunks, current, refill, size, start_, end_>>
    BY <1>0, <1>4 DEF PoolTypeOK
  <2>2. IsOpen /\ start' <= end
    BY <1>1, <1>4, <2>1 DEF IInv, Chosen
  <2>3. IsOpen' /\ \A b \in chunks : ~Pending(b)'
    BY <1>2, <2>1, <2>2 DEF IsOpen, Pending
  <2>4. PICK c \in chunks : PhaseOf(c)
    BY DEF IInv, Phase
  <2>5. /\ In(start, c) /\ end = Hi(c) /\ start' \in Nat
        /\ Lo(c) \in Nat /\ Hi(c) \in Nat /\ c.base \in Nat /\ c.base < Lo(c)
    BY <1>0, <1>1, <2>1, <2>2, <2>4, ChunkFacts DEF PhaseOf
  <2>6. In(start', c)
    BY <1>1, <2>1, <2>2, <2>5 DEF In
  <2>7. \A b \in chunks : In(start', b) => b = c
    BY <1>0, <2>5, <2>6, OneChunk DEF IInv
  <2>8. ASSUME NEW b \in chunks, NEW v \in Int, Passed(v, b)
        PROVE  Passed(v, b)' /\ (b = c => v <= start)
    <3>1. b = c => v <= start
      BY <2>5, <2>8 DEF Passed
    <3> QED
      BY <1>1, <2>1, <2>3, <2>7, <2>8, <3>1 DEF Passed, In, Lo, Hi
  <2>9. PoolTypeOK'
    BY <1>0, <1>4 DEF PoolTypeOK
  <2>10. Phase'
    <3>1. PhaseOf(c)'
      BY <2>1, <2>3, <2>4, <2>5, <2>6 DEF PhaseOf, In, Lo, Hi, IsOpen
    <3> QED
      BY <2>1, <3>1 DEF Phase
  <2>11. Mutex' /\ Asked' /\ ChunksApart'
    BY <1>1, <1>2, <2>1 DEF IInv, Mutex, Asked, ChunksApart, Hi
  <2>12. Reading'
    <3> SUFFICES ASSUME NEW u \in Threads, pc'[u] \in {"loadEnd", "cas"}
                 PROVE  \E b \in chunks : Passed(start_[u], b)'
      BY <2>1 DEF Reading
    <3>1. pc[u] \in {"loadEnd", "cas"} /\ start_[u] \in Int
      BY <1>0, <1>2, <2>1 DEF PoolTypeOK
    <3>2. PICK b \in chunks : Passed(start_[u], b)
      BY <3>1 DEF IInv, Reading
    <3> QED
      BY <2>1, <2>8, <3>1, <3>2 DEF Passed, In
  <2>13. Chosen'
    <3> SUFFICES ASSUME NEW u \in Threads, pc'[u] = "cas", start_[u] = start'
                 PROVE  FALSE
      BY <2>1 DEF Chosen
    <3>1. pc[u] = "cas" /\ start_[u] \in Int
      BY <1>0, <1>2, <2>1 DEF PoolTypeOK
    <3>2. PICK b \in chunks : Passed(start_[u], b)
      BY <3>1 DEF IInv, Reading
    <3>3. b = c
      BY <2>7, <3>2 DEF Passed
    <3>4. start' <= start
      BY <2>5, <3>2, <3>3 DEF Passed
    <3> QED
      BY <1>1, <2>1, <3>4
  <2>14. Behind'
    <3> SUFFICES ASSUME NEW g \in granted'
                 PROVE  \E b \in chunks : Lo(b)' <= g.lo /\ g.lo < g.hi /\ Passed(g.hi, b)'
      BY <2>1 DEF Behind
    <3>1. CASE g \in granted
      <4>1. PICK b \in chunks : Lo(b) <= g.lo /\ g.lo < g.hi /\ Passed(g.hi, b)
        BY <3>1 DEF IInv, Behind
      <4>2. g.hi \in Int
        BY <1>0, <3>1 DEF PoolTypeOK
      <4> QED
        BY <2>1, <2>8, <4>1, <4>2 DEF Lo, Passed, In
    <3>2. CASE g = piece
      <4>1. g.lo = start /\ g.hi = start'
        BY <2>1, <3>2
      <4> QED
        BY <1>1, <2>1, <2>3, <2>5, <2>6, <4>1 DEF Passed, In, Lo, Hi
    <3> QED
      BY <2>1, <3>1, <3>2
  <2>15. GrantsDisjoint'
    <3>1. ASSUME NEW g \in granted
          PROVE  g.hi <= start \/ start' <= g.lo
      <4>1. PICK b \in chunks : Lo(b) <= g.lo /\ g.lo < g.hi /\ Passed(g.hi, b)
        BY DEF IInv, Behind
      <4>2. g.hi \in Nat /\ g.lo \in Nat /\ Lo(b) \in Nat /\ Hi(b) \in Nat
            /\ b.base \in Nat /\ b.base < Lo(b) /\ g.hi <= Hi(b)
        BY <1>0, <4>1, ChunkFacts DEF PoolTypeOK, Passed, In
      <4>3. CASE b = c
        BY <2>8, <4>1, <4>2, <4>3
      <4>4. CASE b # c
        <5>1. Hi(b) <= c.base \/ Hi(c) <= b.base
          BY <4>4 DEF IInv, ChunksApart
        <5> QED
          BY <1>1, <2>5, <2>6, <4>1, <4>2, <5>1 DEF In
      <4> QED
        BY <4>3, <4>4
    <3>2. piece.lo = start /\ piece.hi = start'
      BY <2>1
    <3> QED
      BY <2>1, <3>1, <3>2 DEF IInv, GrantsDisjoint, Apart
  <2> QED
    BY <2>9, <2>10, <2>11, <2>12, <2>13, <2>14, <2>15 DEF IInv
<1> QED
  BY <1>3, <1>4

\* The pool starts in its first chunk, with nothing granted.
LEMMA PoolStarts == PoolInit => IInv
<1> SUFFICES ASSUME PoolInit
             PROVE  IInv
  OBVIOUS
<1> USE PoolAssumption DEF PoolInit
<1> DEFINE c == [base |-> First, size |-> PoolSize]
<1>1. PoolTypeOK
  BY DEF PoolTypeOK
<1>2. PhaseOf(c)
  BY DEF PhaseOf, IsOpen, In, Lo, Hi
<1>3. Phase
  BY <1>2 DEF Phase
<1>4. Mutex /\ ChunksApart /\ Asked /\ Reading /\ Chosen /\ Behind /\ GrantsDisjoint
  BY DEF Mutex, ChunksApart, Asked, Reading, Chosen, Behind, GrantsDisjoint
<1> QED
  BY <1>1, <1>3, <1>4 DEF IInv

-----------------------------------------------------------------------------
\* The inductive invariant of the pool (MemoryPool.cpp, 14-73): the mutex, the
\* chunks, what the two atomics are in each phase of a refill, and that `start`
\* has left behind whatever a thread has read from it and whatever was granted.
THEOREM Inductive == PoolSpec => []IInv
<1>1. PoolInit => IInv
  BY PoolStarts
<1>2. IInv /\ [PoolNext]_poolVars => IInv'
  <2> SUFFICES ASSUME IInv, [PoolNext]_poolVars
               PROVE  IInv'
    OBVIOUS
  <2>1. ASSUME NEW t \in Threads, NEW n \in Sizes, Allocate(t, n)
        PROVE  IInv'
    BY <2>1, AllocateStep, PoolAssumption
  <2>2. ASSUME NEW t \in Threads, PoolStep(t)
        PROVE  IInv'
    BY <2>2, LoadStartStep, LoadEndStep, RecheckStep, DrainStep, NewChunkStep, OpenStep,
       OpenedStep, TakeStep DEF PoolStep
  <2>3. ASSUME NEW t \in Threads, Return(t)
        PROVE  IInv'
    BY <2>3, ReturnStep
  <2>4. CASE UNCHANGED poolVars
    BY <2>4 DEF poolVars, history, IInv, PoolTypeOK, Mutex, ChunksApart, Asked, Phase, PhaseOf,
       IsOpen, Opening, Reading, Chosen, Behind, GrantsDisjoint, Apart, Passed, Pending, In, Lo, Hi
  <2> QED
    BY <2>1, <2>2, <2>3, <2>4 DEF PoolNext
<1> QED
  BY <1>1, <1>2, PTL DEF PoolSpec

\* What was granted lies in the chunks, and apart.
LEMMA GrantsLieApart == IInv => GrantsApart
<1> SUFFICES ASSUME IInv
             PROVE  GrantsApart
  OBVIOUS
<1>1. ASSUME NEW g \in granted
      PROVE  \E c \in chunks : c.base + Header <= g.lo /\ g.hi <= c.base + Header + c.size
  <2>1. PICK c \in chunks : Lo(c) <= g.lo /\ Passed(g.hi, c)
    BY DEF IInv, Behind
  <2> QED
    BY <2>1 DEF Passed, In, Lo, Hi
<1> QED
  BY <1>1 DEF IInv, GrantsDisjoint, GrantsApart

\* What allocate() returns belongs to its caller alone, and lies in a chunk
\* (the comment "order is important", MemoryPool.cpp:53, on the two stores).
THEOREM PiecesApart == PoolSpec => []GrantsApart
<1> QED
  BY GrantsLieApart, Inductive, PTL

-----------------------------------------------------------------------------
(***************************************************************************)
(*                                Allocators                               *)
(***************************************************************************)


Piece == [owner : Threads, nr : Nat, lo : Nat, hi : Nat]
StoreChunk == [base : Nat, size : Nat]
Top(c) == c.base + ChunkHeader + c.size
Within(b, g) == g.owner = b.owner /\ g.lo <= b.lo /\ b.hi <= g.hi

AllocTypeOK ==
  /\ aStart \in [Threads -> Nat] /\ aFree \in [Threads -> Nat]
  /\ aSize \in [Threads -> Nat \ {0}]
  /\ gStart \in [Threads -> Nat] /\ gFree \in [Threads -> Int]
  /\ gSize \in [Threads -> Nat \ {0}]
  /\ gChunks \in [Threads -> Seq(StoreChunk)]
  /\ gCurrent \in [Threads -> Nat]
  /\ call \in [Threads -> [for : {"nothing", "source", "query", "store", "group"},
                           n : Nat, size : Nat]]
  /\ calls \in [Threads -> Nat]
  /\ blocks \subseteq Piece /\ groups \subseteq Piece

-----------------------------------------------------------------------------
(* The Allocators *)

\* A call that a worker may make of its Allocator.
Proper(w, for, n, bytes) ==
  \/ for = "query" /\ n \in Requests
  \/ for = "store" /\ gChunks[w] = <<>>
  \/ for = "group" /\ gChunks[w] # <<>> /\ n \in Requests /\ bytes = n + Pad(gStart[w])

\* A worker waits for the pool on behalf of a call, and the chunk it has asked
\* for has room for it, however the chunk is aligned.
Waits(w) ==
  LET c == call[w]
  IN  IF pc[w] = "idle" THEN c = NoCall
      ELSE /\ c.for # "nothing" /\ size[w] = aSize[w]
           /\ c.for # "source" =>
                /\ Proper(w, c.for, c.n, c.size)
                /\ Needed(w, c.for, c.n, c.size) + Pad(aStart[w]) + Align <= aSize[w]

Waiting == \A w \in Threads : Waits(w)

\* No two grants of a thread have the same number.
Numbered == \A g \in granted : g.nr < served[g.owner]

\* A block lies in what its owner was granted.
Backed ==
  \A b \in blocks : b.lo < b.hi /\ b.lo % Align = 0 /\ \E g \in granted : Within(b, g)

BlocksDisjoint == \A a, b \in blocks : a # b => Apart(a, b)

\* A piece of a grant that holds no blocks.
Unused(w, lo, hi) ==
  /\ \E g \in granted : g.owner = w /\ g.lo <= lo /\ hi <= g.hi
  /\ \A b \in blocks : b.owner = w => b.hi <= lo \/ hi <= b.lo

\* What a worker may still give out, and what it has been granted just now.
RoomOf(w) ==
  /\ aFree[w] > 0 => Unused(w, aStart[w], aStart[w] + aFree[w])
  /\ pc[w] = "done" => Unused(w, start_[w], start_[w] + size[w])

Room == \A w \in Threads : RoomOf(w)

AInv == AllocTypeOK /\ Waiting /\ Numbered /\ Backed /\ BlocksDisjoint /\ Room

-----------------------------------------------------------------------------
(* The stores *)

\* Its chunks are blocks; from the second on they are twice as large as the first.
ChunksOK ==
  \A w \in Threads :
    /\ gSize[w] >= InitialSize
    /\ \A k \in 1 .. Len(gChunks[w]) :
         /\ gChunks[w][k].size >= IF k = 1 THEN InitialSize ELSE 2 * InitialSize
         /\ \E b \in blocks : b.owner = w /\ b.lo = gChunks[w][k].base /\ b.hi = Top(gChunks[w][k])
         /\ \A l \in 1 .. Len(gChunks[w]) :
              l # k => Top(gChunks[w][k]) <= gChunks[w][l].base \/ Top(gChunks[w][l]) <= gChunks[w][k].base

\* Where the store is in its current chunk.
CurrentOK ==
  \A w \in Threads :
    IF gChunks[w] = <<>> THEN gCurrent[w] = 0
    ELSE /\ gCurrent[w] \in 1 .. Len(gChunks[w])
         /\ gChunks[w][gCurrent[w]].base + ChunkHeader <= gStart[w]
         /\ gStart[w] + gFree[w] <= Top(gChunks[w][gCurrent[w]])

\* A group lies in chunk k of its owner, and behind gStart if that is the current one.
Lies(a, k) ==
  /\ k \in 1 .. Len(gChunks[a.owner]) /\ k <= gCurrent[a.owner]
  /\ gChunks[a.owner][k].base + ChunkHeader <= a.lo /\ a.hi <= Top(gChunks[a.owner][k])
  /\ k = gCurrent[a.owner] => a.hi <= gStart[a.owner]

GroupsIn == \A a \in groups : a.lo < a.hi /\ a.lo % Align = 0 /\ \E k \in Nat : Lies(a, k)

GroupsDisjoint == \A a, b \in groups : a # b => Apart(a, b)

SInv == ChunksOK /\ CurrentOK /\ GroupsIn /\ GroupsDisjoint

-----------------------------------------------------------------------------
(* Padding *)

\* Nothing of a multiple of k remains.
LEMMA Multiple ==
  ASSUME NEW k \in Nat \ {0}, NEW q \in Int
  PROVE  (k * q) % k = 0
<1> DEFINE r == (k * q) % k
           d == (k * q) \div k
           e == q - d
<1>1. r \in 0 .. k - 1 /\ d \in Int /\ k * q = k * d + r
  OBVIOUS
<1> HIDE DEF r, d
<1>2. e \in Int /\ k * e = r
  BY <1>1
<1> HIDE DEF e
<1>3. ~(e >= 1)
  <2> SUFFICES ASSUME e >= 1
               PROVE  FALSE
    OBVIOUS
  <2>1. k * e >= k
    BY <1>2
  <2> QED
    BY <1>1, <1>2, <2>1
<1>4. ~(e <= -1)
  <2> SUFFICES ASSUME e <= -1
               PROVE  FALSE
    OBVIOUS
  <2>1. k * e <= -k
    BY <1>2
  <2> QED
    BY <1>1, <1>2, <2>1
<1>5. e = 0
  BY <1>2, <1>3, <1>4
<1> QED
  BY <1>2, <1>5 DEF r

LEMMA Division ==
  ASSUME NEW k \in Nat \ {0}, NEW a \in Int
  PROVE  a % k \in 0 .. k - 1 /\ \E q \in Int : a = k * q + (a % k) /\ k * (q + 1) = k * q + k
<1> DEFINE r == a % k
           d == a \div k
<1>1. r \in 0 .. k - 1 /\ d \in Int
  OBVIOUS
<1>2. a = k * d + r
  OBVIOUS
<1> HIDE DEF d
<1>3. k * (d + 1) = k * d + k
  BY <1>1
<1> HIDE DEF r
<1>4. \E q \in Int : a = k * q + r /\ k * (q + 1) = k * q + k
  BY <1>1, <1>2, <1>3
<1> QED
  <2>1. a % k \in 0 .. k - 1
    BY <1>1 DEF r
  <2>2. \E q \in Int : a = k * q + (a % k) /\ k * (q + 1) = k * q + k
    BY <1>4 DEF r
  <2> QED
    BY <2>1, <2>2

\* The padding behind an address makes it a multiple of Align.
LEMMA PadFacts ==
  ASSUME NEW a \in Nat
  PROVE  Pad(a) \in Nat /\ 1 <= Pad(a) /\ Pad(a) <= Align /\ (a + Pad(a)) % Align = 0
<1>1. Align \in Nat \ {0}
  BY AllocatorsAssumption
<1>2. /\ a % Align \in 0 .. Align - 1
      /\ \E q \in Int : a = Align * q + (a % Align) /\ Align * (q + 1) = Align * q + Align
  <2>1. a \in Int
    OBVIOUS
  <2> QED
    BY <1>1, <2>1, Division, Zenon
<1>3. PICK q \in Int : a = Align * q + (a % Align) /\ Align * (q + 1) = Align * q + Align
  BY <1>2
<1>4. PICK p \in Int : p = Align * q
  BY <1>1
<1>5. a + Pad(a) = Align * (q + 1)
  <2>1. a = p + (a % Align) /\ Align * (q + 1) = p + Align
    BY <1>3, <1>4
  <2>2. PICK x \in Int : x = a % Align
    BY <1>2
  <2>3. Pad(a) = Align - x
    BY <2>2 DEF Pad
  <2>4. a = p + x
    BY <2>1, <2>2
  <2>5. a + Pad(a) = p + Align
    BY <1>1, <1>4, <2>2, <2>3, <2>4
  <2> QED
    BY <2>1, <2>5
<1>6. (Align * (q + 1)) % Align = 0
  BY <1>1, Multiple
<1> QED
  BY <1>1, <1>2, <1>5, <1>6 DEF Pad

-----------------------------------------------------------------------------
(* The pool, as the Allocators call it *)

LEMMA AllocatorsSteps ==
  ASSUME AllocTypeOK, NEW w \in Threads, Worker(w)
  PROVE  \/ PoolStep(w) \/ Return(w)
         \/ \E n \in Nat \ {0} : Allocate(w, n)
         \/ UNCHANGED poolVars
<1> USE AllocatorsAssumption
<1>1. aSize[w] \in Nat \ {0} /\ aStart[w] \in Nat
  BY DEF AllocTypeOK
<1>2. \A n \in Nat : ChunkSize(w, n) \in Nat \ {0}
  BY <1>1 DEF ChunkSize, Larger
<1>3. ASSUME NEW for, NEW n, NEW bytes, Needed(w, for, n, bytes) \in Nat,
             AllocatorCall(w, for, n, bytes)
      PROVE  (\E m \in Nat \ {0} : Allocate(w, m)) \/ UNCHANGED poolVars
  <2>1. Pad(aStart[w]) \in Nat
    BY <1>1, PadFacts
  <2> QED
    BY <1>2, <1>3, <2>1 DEF AllocatorCall
<1>4. Requests \subseteq Nat /\ gSize[w] \in Nat /\ gStart[w] \in Nat
  BY DEF AllocTypeOK
<1>5. CASE SetSource(w)
  BY <1>1, <1>5 DEF SetSource
<1>6. CASE AllocateBuffer(w)
  <2>1. PICK n \in Requests : AllocatorCall(w, "query", n, 0)
    BY <1>6 DEF AllocateBuffer
  <2>2. Needed(w, "query", n, 0) \in Nat
    BY <1>4 DEF Needed
  <2> QED
    BY <1>3, <2>1, <2>2
<1>7. CASE StoreSetSource(w)
  <2>1. Needed(w, "store", 0, 0) \in Nat
    BY DEF Needed
  <2> QED
    BY <1>3, <1>7, <2>1 DEF StoreSetSource
<1>8. CASE StoreAllocate(w)
  <2>1. PICK n \in Requests :
          \/ AllocatorCall(w, "group", n, n + Pad(gStart[w]))
          \/ UNCHANGED poolVars
    BY <1>8 DEF StoreAllocate
  <2>2. Needed(w, "group", n, n + Pad(gStart[w])) \in Nat
    BY <1>4, PadFacts DEF Needed, Larger
  <2> QED
    BY <1>3, <2>1, <2>2
<1> QED
  BY <1>5, <1>6, <1>7, <1>8 DEF Worker, SourceSet, Refilled, Pool, StoreReset

LEMMA PoolPreserved ==
  ASSUME IInv, AllocTypeOK, [Next]_vars
  PROVE  IInv'
<1>1. CASE UNCHANGED poolVars
  BY <1>1 DEF poolVars, history, IInv, PoolTypeOK, Mutex, ChunksApart, Asked, Phase, PhaseOf,
     IsOpen, Opening, Reading, Chosen, Behind, GrantsDisjoint, Apart, Passed, Pending, In, Lo, Hi
<1>2. ASSUME NEW w \in Threads, PoolStep(w)
      PROVE  IInv'
  BY <1>2, LoadStartStep, LoadEndStep, RecheckStep, DrainStep, NewChunkStep, OpenStep,
     OpenedStep, TakeStep DEF PoolStep
<1>3. ASSUME NEW w \in Threads, Worker(w)
      PROVE  IInv'
  BY <1>1, <1>2, <1>3, AllocatorsSteps, AllocateStep, ReturnStep
<1> QED
  BY <1>1, <1>3 DEF Next, vars

-----------------------------------------------------------------------------
(* The Allocators: the steps *)

\* What the pool changes, inside a call.
LEMMA PoolFrame ==
  ASSUME IInv, NEW w \in Threads, PoolStep(w)
  PROVE  /\ \A u \in Threads : u # w => pc'[u] = pc[u] /\ start_'[u] = start_[u]
         /\ size' = size /\ pc[w] \notin {"idle", "done"} /\ pc'[w] # "idle"
         /\ IF pc'[w] = "done"
            THEN LET new == [owner |-> w, nr |-> served[w], lo |-> start_[w], hi |-> start_[w] + size[w]]
                 IN  /\ granted' = granted \cup {new} /\ start_' = start_
                     /\ served' = [served EXCEPT ![w] = @ + 1]
            ELSE UNCHANGED <<served, granted>>
<1>1. PoolTypeOK
  BY DEF IInv
<1>2. CASE Take(w)
  <2>1. CASE start = start_[w]
    BY <1>1, <1>2, <2>1 DEF Take, Grant, PoolTypeOK
  <2>2. CASE start # start_[w]
    BY <1>1, <1>2, <2>2 DEF Take, Grant, PoolTypeOK, history
  <2> QED
    BY <2>1, <2>2
<1>3. CASE LoadStart(w) \/ LoadEnd(w) \/ Recheck(w)
  BY <1>1, <1>3 DEF PoolTypeOK, LoadStart, LoadEnd, Recheck, history
<1>4. CASE Drain(w) \/ Open(w) \/ Opened(w)
  BY <1>1, <1>4 DEF PoolTypeOK, Drain, Open, Opened, history
<1>5. CASE NewChunk(w)
  BY <1>1, <1>5 DEF PoolTypeOK, NewChunk, history
<1> QED
  BY <1>2, <1>3, <1>4, <1>5 DEF PoolStep

PoolPlaces ==
  {"idle", "loadStart", "loadEnd", "lock", "drain", "chunk", "open", "opened", "cas", "done"}

LEMMA GrantFacts ==
  ASSUME IInv
  PROVE  /\ granted \subseteq Piece /\ pc \in [Threads -> PoolPlaces] /\ size \in [Threads -> Nat]
         /\ start_ \in [Threads -> Nat] /\ served \in [Threads -> Nat]
         /\ \A g, h \in granted : g # h => g.hi <= h.lo \/ h.hi <= g.lo
<1>1. PoolTypeOK /\ GrantsDisjoint
  BY DEF IInv
<1>2. pc \in [Threads -> PoolPlaces]
  BY <1>1 DEF PoolTypeOK, PoolPlaces
<1> QED
  BY <1>1, <1>2 DEF PoolTypeOK, Piece, GrantsDisjoint, Apart

\* A worker that keeps what its call is about waits as before.
LEMMA StillWaits ==
  ASSUME NEW u \in Threads, Waits(u),
         call'[u] = call[u], aSize'[u] = aSize[u], aStart'[u] = aStart[u], size'[u] = size[u],
         gSize'[u] = gSize[u], gStart'[u] = gStart[u], gChunks'[u] = gChunks[u],
         pc'[u] = "idle" <=> pc[u] = "idle"
  PROVE  Waits(u)'
BY DEF Waits, Proper, Needed

\* A part of an unused piece is unused.
LEMMA UnusedPart ==
  ASSUME NEW w \in Threads, NEW lo \in Nat, NEW hi \in Nat, Unused(w, lo, hi),
         NEW x \in Nat, NEW y \in Nat, lo <= x, y <= hi, IInv, AllocTypeOK
  PROVE  Unused(w, x, y)
<1>1. granted \subseteq Piece /\ blocks \subseteq Piece
  BY GrantFacts DEF AllocTypeOK
<1> QED
  BY <1>1 DEF Unused, Piece

\* A block that is put into an unused piece of its owner's.
LEMMA NewBlock ==
  ASSUME IInv, AInv, NEW w \in Threads, NEW lo \in Nat, NEW m \in Nat \ {0}, lo % Align = 0,
         Unused(w, lo, lo + m), granted \subseteq granted',
         blocks' = blocks \cup {Block(w, lo, m)}
  PROVE  /\ \A b \in blocks : b.hi <= lo \/ lo + m <= b.lo
         /\ blocks' \subseteq Piece /\ Backed' /\ BlocksDisjoint'
         /\ \A u \in Threads, x, y \in Nat :
              Unused(u, x, y) /\ (u = w => y <= lo \/ lo + m <= x) => Unused(u, x, y)'
<1> DEFINE new == Block(w, lo, m)
<1>1. /\ new \in Piece /\ new.owner = w /\ new.lo = lo /\ new.hi = lo + m
  BY DEF Block, Piece, AInv, AllocTypeOK
<1>2. granted \subseteq Piece /\ blocks \subseteq Piece
  BY GrantFacts DEF AInv, AllocTypeOK
<1> HIDE DEF new
<1>3. PICK g \in granted : g.owner = w /\ g.lo <= lo /\ lo + m <= g.hi
  BY DEF Unused
<1>4. ASSUME NEW b \in blocks
      PROVE  b.hi <= lo \/ lo + m <= b.lo
  <2>1. CASE b.owner = w
    BY <2>1 DEF Unused
  <2>2. CASE b.owner # w
    <3>1. PICK h \in granted : Within(b, h)
      BY DEF AInv, Backed
    <3>2. h # g
      BY <1>3, <2>2, <3>1 DEF Within
    <3>3. g.hi <= h.lo \/ h.hi <= g.lo
      BY <3>2, GrantFacts
    <3>4. /\ g.lo \in Nat /\ g.hi \in Nat /\ h.lo \in Nat /\ h.hi \in Nat
          /\ b.lo \in Nat /\ b.hi \in Nat
      BY <1>2 DEF Piece
    <3> QED
      BY <1>3, <3>1, <3>3, <3>4 DEF Within
  <2> QED
    BY <2>1, <2>2
<1>5. blocks' = blocks \cup {new}
  BY DEF new
<1>6. Backed'
  <2>1. \A b \in blocks : b.lo < b.hi /\ b.lo % Align = 0 /\ \E h \in granted' : Within(b, h)
    BY DEF AInv, Backed
  <2>2. new.lo < new.hi /\ new.lo % Align = 0 /\ Within(new, g)
    BY <1>1, <1>3 DEF Within
  <2> QED
    BY <1>5, <2>1, <2>2 DEF Backed, Within
<1>7. BlocksDisjoint'
  <2>1. \A b \in blocks : Apart(b, new) /\ Apart(new, b)
    BY <1>1, <1>4 DEF Apart
  <2>2. \A a, b \in blocks : a # b => Apart(a, b)
    BY DEF AInv, BlocksDisjoint
  <2> QED
    BY <1>5, <2>1, <2>2 DEF BlocksDisjoint, Apart
<1>8. ASSUME NEW u \in Threads, NEW x \in Nat, NEW y \in Nat, Unused(u, x, y),
             u = w => y <= lo \/ lo + m <= x
      PROVE  Unused(u, x, y)'
  <2>1. \A b \in blocks' : b.owner = u => b.hi <= x \/ y <= b.lo
    BY <1>1, <1>5, <1>8 DEF Unused
  <2>2. \E h \in granted' : h.owner = u /\ h.lo <= x /\ y <= h.hi
    BY <1>8 DEF Unused
  <2> QED
    BY <2>1, <2>2 DEF Unused
<1> QED
  BY <1>1, <1>2, <1>4, <1>5, <1>6, <1>7, <1>8

\* No new blocks: what is unused stays so.
LEMMA SameBlocks ==
  ASSUME AInv, blocks' = blocks, granted \subseteq granted'
  PROVE  /\ Backed' /\ BlocksDisjoint'
         /\ \A u \in Threads, x, y \in Nat : Unused(u, x, y) => Unused(u, x, y)'
<1>1. Backed' /\ BlocksDisjoint'
  BY DEF AInv, Backed, Within, BlocksDisjoint, Apart
<1>2. ASSUME NEW u \in Threads, NEW x \in Nat, NEW y \in Nat, Unused(u, x, y)
      PROVE  Unused(u, x, y)'
  BY <1>2 DEF Unused
<1> QED
  BY <1>1, <1>2

\* A step of a worker is of no concern to the others.
OthersKept(w) ==
  \A u \in Threads : u # w =>
    /\ call'[u] = call[u] /\ aSize'[u] = aSize[u] /\ aStart'[u] = aStart[u] /\ aFree'[u] = aFree[u]
    /\ size'[u] = size[u] /\ start_'[u] = start_[u] /\ pc'[u] = pc[u]
    /\ gSize'[u] = gSize[u] /\ gStart'[u] = gStart[u] /\ gChunks'[u] = gChunks[u]

\* The invariant of the Allocators, from what a step does to its worker.
LEMMA WorkerKeeps ==
  ASSUME IInv, AInv, NEW w \in Threads, OthersKept(w),
         AllocTypeOK', Numbered', Backed', BlocksDisjoint', Waits(w)', RoomOf(w)',
         \A u \in Threads, x, y \in Nat : u # w /\ Unused(u, x, y) => Unused(u, x, y)'
  PROVE  AInv'
<1>1. Waiting'
  <2> SUFFICES ASSUME NEW u \in Threads
               PROVE  Waits(u)'
    BY DEF Waiting
  <2>1. CASE u # w
    BY <2>1, StillWaits DEF OthersKept, AInv, Waiting
  <2> QED
    BY <2>1
<1>2. ASSUME NEW u \in Threads, u # w
      PROVE  RoomOf(u)'
  <2>1. /\ aFree'[u] = aFree[u] /\ aStart'[u] = aStart[u] /\ start_'[u] = start_[u]
        /\ size'[u] = size[u] /\ pc'[u] = pc[u]
    BY <1>2 DEF OthersKept
  <2>2. aStart[u] \in Nat /\ aFree[u] \in Nat /\ start_[u] \in Nat /\ size[u] \in Nat
    BY GrantFacts DEF AInv, AllocTypeOK
  <2>3. RoomOf(u)
    BY DEF AInv, Room
  <2>4. ASSUME aFree[u] > 0
        PROVE  Unused(u, aStart[u], aStart[u] + aFree[u])'
    <3>1. PICK x \in Nat, y \in Nat : x = aStart[u] /\ y = aStart[u] + aFree[u]
      BY <2>2
    <3>2. Unused(u, x, y)'
      BY <1>2, <2>3, <2>4, <3>1 DEF RoomOf
    <3> QED
      BY <2>1, <3>1, <3>2 DEF Unused
  <2>5. ASSUME pc[u] = "done"
        PROVE  Unused(u, start_[u], start_[u] + size[u])'
    <3>1. PICK x \in Nat, y \in Nat : x = start_[u] /\ y = start_[u] + size[u]
      BY <2>2
    <3>2. Unused(u, x, y)'
      BY <1>2, <2>3, <2>5, <3>1 DEF RoomOf
    <3> QED
      BY <2>1, <3>1, <3>2 DEF Unused
  <2> QED
    BY <2>1, <2>4, <2>5 DEF RoomOf
<1> QED
  BY <1>1, <1>2 DEF AInv, Room

LEMMA PoolKeepsA ==
  ASSUME IInv, IInv', AInv, NEW w \in Threads, Pool(w)
  PROVE  AInv'
<1>1. /\ PoolStep(w)
      /\ UNCHANGED <<aStart, aFree, aSize, gStart, gFree, gSize, gChunks, gCurrent, call, calls,
                     blocks, groups>>
  BY DEF Pool, allocVars, storeVars
<1>2. /\ \A u \in Threads : u # w => pc'[u] = pc[u] /\ start_'[u] = start_[u]
      /\ size' = size /\ pc[w] \notin {"idle", "done"} /\ pc'[w] # "idle"
  BY <1>1, PoolFrame
<1>3. OthersKept(w)
  BY <1>1, <1>2 DEF OthersKept
<1>4. AllocTypeOK'
  BY <1>1 DEF AInv, AllocTypeOK
<1>5. Waits(w)'
  BY <1>1, <1>2, StillWaits DEF AInv, Waiting
<1>6. aFree'[w] = aFree[w] /\ aStart'[w] = aStart[w]
  BY <1>1
<1>7. CASE pc'[w] # "done"
  <2>1. UNCHANGED <<served, granted>>
    BY <1>1, <1>7, PoolFrame
  <2>2. Numbered'
    BY <2>1 DEF AInv, Numbered
  <2>3. /\ Backed' /\ BlocksDisjoint'
        /\ \A u \in Threads, x, y \in Nat : Unused(u, x, y) => Unused(u, x, y)'
    BY <1>1, <2>1, SameBlocks
  <2>4. RoomOf(w)'
    BY <1>1, <1>7, <2>1 DEF AInv, Room, RoomOf, Unused
  <2> QED
    BY <1>3, <1>4, <1>5, <2>2, <2>3, <2>4, WorkerKeeps
<1>8. CASE pc'[w] = "done"
  <2> DEFINE new == [owner |-> w, nr |-> served[w], lo |-> start_[w], hi |-> start_[w] + size[w]]
  <2>1. /\ granted' = granted \cup {new} /\ start_' = start_
        /\ served' = [served EXCEPT ![w] = @ + 1]
    BY <1>1, <1>8, PoolFrame
  <2>2. /\ served[w] \in Nat /\ granted \subseteq Piece /\ served \in [Threads -> Nat]
        /\ new.nr = served[w] /\ new.owner = w /\ new.lo = start_[w] /\ new.hi = start_[w] + size[w]
        /\ start_[w] \in Nat /\ size[w] \in Nat
    BY GrantFacts
  <2> HIDE DEF new
  <2>3. Numbered'
    BY <2>1, <2>2 DEF AInv, Numbered, Piece
  <2>4. /\ Backed' /\ BlocksDisjoint'
        /\ \A u \in Threads, x, y \in Nat : Unused(u, x, y) => Unused(u, x, y)'
    BY <1>1, <2>1, SameBlocks
  <2>5. ASSUME NEW b \in blocks, b.owner = w
        PROVE  b.hi <= start_[w] \/ start_[w] + size[w] <= b.lo
    <3>1. PICK h \in granted : Within(b, h)
      BY DEF AInv, Backed
    <3>2. h # new
      BY <2>2, <2>5, <3>1 DEF AInv, Numbered, Within, Piece
    <3>3. h \in granted' /\ new \in granted'
      BY <2>1
    <3>4. h.hi <= new.lo \/ new.hi <= h.lo
      BY <3>2, <3>3 DEF IInv, GrantsDisjoint, Apart
    <3>5. /\ h.lo \in Nat /\ h.hi \in Nat /\ b.lo \in Nat /\ b.hi \in Nat
      BY <2>2 DEF Piece, AInv, AllocTypeOK
    <3> QED
      BY <2>2, <3>1, <3>4, <3>5 DEF Within
  <2>6. Unused(w, start_[w], start_[w] + size[w])'
    <3>1. \A b \in blocks' : b.owner = w => b.hi <= start_'[w] \/ start_'[w] + size'[w] <= b.lo
      BY <1>1, <1>2, <2>1, <2>5
    <3>2. new \in granted' /\ new.owner = w /\ new.lo <= start_'[w] /\ start_'[w] + size'[w] <= new.hi
      BY <1>2, <2>1, <2>2
    <3> QED
      BY <3>1, <3>2 DEF Unused
  <2>7. aFree'[w] > 0 => Unused(w, aStart[w], aStart[w] + aFree[w])'
    BY <1>1, <2>1 DEF AInv, Room, RoomOf, Unused
  <2> QED
    BY <1>3, <1>4, <1>5, <2>3, <2>4, <2>6, <2>7, WorkerKeeps DEF RoomOf
<1> QED
  BY <1>7, <1>8

LEMMA SourceKeepsA ==
  ASSUME IInv, IInv', AInv, NEW w \in Threads, SetSource(w) \/ SourceSet(w)
  PROVE  AInv'
<1>1. /\ AllocTypeOK /\ Waits(w) /\ RoomOf(w) /\ Numbered
      /\ pc \in [Threads -> PoolPlaces] /\ size \in [Threads -> Nat]
      /\ start_ \in [Threads -> Nat]
  BY GrantFacts DEF AInv, Waiting, Room
<1>2. UNCHANGED <<served, granted, start_, aSize, gStart, gFree, gSize, gChunks, gCurrent, calls,
                  blocks, groups>>
  BY DEF SetSource, SourceSet, Allocate, Return, history, allocVars, storeVars
<1>3. /\ Backed' /\ BlocksDisjoint' /\ Numbered'
      /\ \A u \in Threads, x, y \in Nat : Unused(u, x, y) => Unused(u, x, y)'
  BY <1>1, <1>2, SameBlocks DEF Numbered
<1>4. CASE SetSource(w)
  <2>1. /\ pc[w] = "idle" /\ pc' = [pc EXCEPT ![w] = "loadStart"]
        /\ size' = [size EXCEPT ![w] = aSize[w]]
        /\ call' = [call EXCEPT ![w] = [NoCall EXCEPT !.for = "source"]]
        /\ UNCHANGED <<aStart, aFree>>
    BY <1>4 DEF SetSource, Allocate, Set, allocVars
  <2>2. AllocTypeOK'
    BY <1>1, <1>2, <2>1 DEF AllocTypeOK, NoCall
  <2>3. OthersKept(w)
    BY <1>1, <1>2, <2>1 DEF OthersKept, AllocTypeOK
  <2>4. Waits(w)'
    BY <1>1, <1>2, <2>1 DEF Waits, AllocTypeOK, NoCall
  <2>5. RoomOf(w)'
    <3>1. pc'[w] # "done"
      BY <1>1, <2>1
    <3> QED
      BY <1>1, <1>2, <2>1, <3>1 DEF RoomOf, Unused
  <2> QED
    BY <1>3, <2>2, <2>3, <2>4, <2>5, WorkerKeeps
<1>5. CASE SourceSet(w)
  <2>1. /\ pc[w] = "done" /\ pc' = [pc EXCEPT ![w] = "idle"]
        /\ call[w].for = "source"
        /\ aStart' = [aStart EXCEPT ![w] = start_[w]]
        /\ aFree' = [aFree EXCEPT ![w] = aSize[w]]
        /\ call' = [call EXCEPT ![w] = NoCall]
        /\ UNCHANGED size
    BY <1>5 DEF SourceSet, Return, Set
  <2>2. AllocTypeOK'
    BY <1>1, <1>2, <2>1 DEF AllocTypeOK, NoCall
  <2>3. OthersKept(w)
    BY <1>1, <1>2, <2>1 DEF OthersKept, AllocTypeOK
  <2>4. Waits(w)'
    BY <1>1, <1>2, <2>1 DEF Waits, AllocTypeOK, NoCall
  <2>5. RoomOf(w)'
    <3>1. aStart'[w] = start_[w] /\ aFree'[w] = size[w] /\ pc'[w] = "idle"
      BY <1>1, <2>1 DEF Waits, AllocTypeOK
    <3>2. Unused(w, start_[w], start_[w] + size[w])
      BY <1>1, <2>1 DEF RoomOf
    <3> QED
      BY <1>2, <3>1, <3>2 DEF RoomOf, Unused
  <2> QED
    BY <1>3, <2>2, <2>3, <2>4, <2>5, WorkerKeeps
<1> QED
  BY <1>4, <1>5

\* What a call gets: a block of the Allocator, which the store may make a chunk.
LEMMA DeliverFacts ==
  ASSUME AllocTypeOK, NEW w \in Threads, NEW for, NEW n \in Nat, NEW bytes \in Nat, NEW a \in Nat,
         Proper(w, for, n, bytes), Deliver(w, for, n, bytes, a)
  PROVE  /\ blocks' = blocks \cup {Block(w, a, Needed(w, for, n, bytes))}
         /\ gStart' \in [Threads -> Nat] /\ gFree' \in [Threads -> Int]
         /\ gSize' \in [Threads -> Nat \ {0}]
         /\ gChunks' \in [Threads -> Seq(StoreChunk)] /\ gCurrent' \in [Threads -> Nat]
         /\ groups' \subseteq Piece
         /\ \A u \in Threads : u # w =>
              gSize'[u] = gSize[u] /\ gStart'[u] = gStart[u] /\ gChunks'[u] = gChunks[u]
<1> USE AllocatorsAssumption DEF AllocTypeOK
<1>1. CASE for = "query"
  BY <1>1 DEF Proper, Deliver, Needed, storeVars
<1>2. CASE for = "store"
  <2>1. /\ blocks' = blocks \cup {Block(w, a, InitialSize + ChunkHeader)}
        /\ gChunks' = Set(gChunks, w, <<[base |-> a, size |-> InitialSize]>>)
        /\ gCurrent' = Set(gCurrent, w, 1)
        /\ gStart' = Set(gStart, w, a + ChunkHeader)
        /\ gFree' = Set(gFree, w, InitialSize)
        /\ UNCHANGED <<gSize, groups>>
    BY <1>2 DEF Deliver
  <2>2. <<[base |-> a, size |-> InitialSize]>> \in Seq(StoreChunk)
    BY DEF StoreChunk
  <2>3. Needed(w, for, n, bytes) = InitialSize + ChunkHeader
    BY <1>2 DEF Needed
  <2>4. gChunks' \in [Threads -> Seq(StoreChunk)] /\ \A u \in Threads : u # w => gChunks'[u] = gChunks[u]
    BY <2>1, <2>2 DEF Set
  <2>5. gCurrent' \in [Threads -> Nat] /\ gFree' \in [Threads -> Int]
    BY SMTT(30), <2>1 DEF Set
  <2>6. gStart' \in [Threads -> Nat] /\ \A u \in Threads : u # w => gStart'[u] = gStart[u]
    BY <2>1 DEF Set
  <2> QED
    BY <2>1, <2>3, <2>4, <2>5, <2>6
<1>3. CASE for = "group"
  <2> DEFINE m == Larger(gSize[w] * 2, bytes)
             c == [base |-> a, size |-> m]
             cs == Append(gChunks[w], c)
             from == a + ChunkHeader
  <2>0. m \in Nat \ {0} /\ from \in Nat
    BY SMTT(30) DEF Larger
  <2>1. m \in Nat \ {0} /\ c \in StoreChunk /\ from \in Nat /\ Pad(from) \in Nat
    <3> HIDE DEF m, from
    <3> QED
      BY <2>0, PadFacts DEF StoreChunk
  <2> HIDE DEF m
  <2>2. /\ cs \in Seq(StoreChunk) /\ Len(cs) \in Nat
        /\ cs[Len(cs)] = c
    BY SMTT(30), <2>1
  <2>3. /\ blocks' = blocks \cup {Block(w, a, m + ChunkHeader)}
        /\ gSize' = Set(gSize, w, m)
        /\ gChunks' = Set(gChunks, w, cs)
        /\ InChunk(w, n, bytes, cs, Len(cs))
    BY <1>3 DEF Deliver, m
  <2> HIDE DEF cs
  <2>4. /\ gCurrent' = Set(gCurrent, w, Len(cs))
        /\ gStart' = Set(gStart, w, from + (bytes + Pad(from)))
        /\ gFree' = Set(gFree, w, m - (bytes + Pad(from)))
        /\ groups' = groups \cup {Block(w, from + Pad(from), n)}
    BY <2>2, <2>3 DEF InChunk, Bump
  <2> HIDE DEF from, c
  <2>5. PICK lo \in Nat, g \in Nat, f \in Int :
          lo = from + Pad(from) /\ g = from + (bytes + Pad(from)) /\ f = m - (bytes + Pad(from))
    <3>1. PICK p \in Nat : p = Pad(from)
      BY <2>1
    <3>2. from + p \in Nat /\ from + (bytes + p) \in Nat /\ m - (bytes + p) \in Int
      BY <2>1
    <3> QED
      BY <3>1, <3>2
  <2>6. Block(w, lo, n) \in Piece
    <3>1. calls[w] \in Nat
      OBVIOUS
    <3> QED
      BY <3>1 DEF Block, Piece
  <2>7. Needed(w, for, n, bytes) = m + ChunkHeader
    BY <1>3 DEF Needed, m
  <2>8. gChunks' \in [Threads -> Seq(StoreChunk)] /\ \A u \in Threads : u # w => gChunks'[u] = gChunks[u]
    BY <2>2, <2>3 DEF Set
  <2>9. gCurrent' \in [Threads -> Nat] /\ gFree' \in [Threads -> Int]
    BY <2>2, <2>4, <2>5 DEF Set
  <2>10. gStart' \in [Threads -> Nat] /\ \A u \in Threads : u # w => gStart'[u] = gStart[u]
    BY <2>4, <2>5 DEF Set
  <2>11. gSize' \in [Threads -> Nat \ {0}] /\ \A u \in Threads : u # w => gSize'[u] = gSize[u]
    BY <2>1, <2>3 DEF Set
  <2>12. groups' \subseteq Piece
    BY <2>4, <2>6, <2>5
  <2> QED
    BY <2>3, <2>7, <2>8, <2>9, <2>10, <2>11, <2>12
<1> QED
  BY <1>1, <1>2, <1>3 DEF Proper

LEMMA NeededType ==
  ASSUME AllocTypeOK, NEW w \in Threads, NEW for, NEW n \in Nat, NEW bytes \in Nat,
         Proper(w, for, n, bytes)
  PROVE  Needed(w, for, n, bytes) \in Nat \ {0}
<1>1. /\ gSize[w] \in Nat /\ Requests \subseteq Nat \ {0}
      /\ InitialSize \in Nat /\ ChunkHeader \in Nat \ {0}
  BY AllocatorsAssumption DEF AllocTypeOK
<1>2. Larger(gSize[w] * 2, bytes) \in Nat
  BY <1>1 DEF Larger
<1>3. CASE for = "query"
  BY <1>1, <1>3 DEF Proper, Needed
<1>4. CASE for = "store"
  BY <1>1, <1>4 DEF Needed
<1>5. CASE for = "group"
  BY <1>1, <1>2, <1>5 DEF Needed
<1> QED
  BY <1>3, <1>4, <1>5 DEF Proper

\* A block is put where the worker has room, and the rest of the room stays.
LEMMA Placed ==
  ASSUME IInv, AInv, NEW w \in Threads, NEW lo \in Nat, NEW hi \in Nat, Unused(w, lo, hi),
         NEW a \in Nat, NEW m \in Nat \ {0}, a % Align = 0, lo <= a, a + m <= hi,
         granted' = granted, served' = served, blocks' = blocks \cup {Block(w, a, m)}
  PROVE  /\ \A b \in blocks : b.hi <= a \/ a + m <= b.lo
         /\ blocks' \subseteq Piece /\ Backed' /\ BlocksDisjoint' /\ Numbered'
         /\ \A u \in Threads, x, y \in Nat : u # w /\ Unused(u, x, y) => Unused(u, x, y)'
         /\ \A x, y \in Nat : a + m <= x /\ y <= hi => Unused(w, x, y)'
<1>1. AllocTypeOK
  BY DEF AInv
<1>2. Unused(w, a, a + m)
  BY <1>1, UnusedPart
<1>3. /\ \A b \in blocks : b.hi <= a \/ a + m <= b.lo
      /\ blocks' \subseteq Piece /\ Backed' /\ BlocksDisjoint'
      /\ \A u \in Threads, x, y \in Nat :
           Unused(u, x, y) /\ (u = w => y <= a \/ a + m <= x) => Unused(u, x, y)'
  BY <1>2, NewBlock
<1>4. ASSUME NEW x \in Nat, NEW y \in Nat, a + m <= x, y <= hi
      PROVE  Unused(w, x, y)'
  <2>1. lo <= x
    BY <1>4
  <2>2. Unused(w, x, y)
    BY <1>1, <1>4, <2>1, UnusedPart
  <2> QED
    BY <1>3, <1>4, <2>2
<1>5. Numbered'
  BY DEF AInv, Numbered
<1> QED
  BY <1>3, <1>4, <1>5

\* What the store may rely on: the call waits, or it gets a new block.
Served(w, for, n, bytes) ==
  \/ UNCHANGED <<storeVars, blocks, groups>>
  \/ \E a \in Nat :
       /\ a % Align = 0 /\ Deliver(w, for, n, bytes, a)
       /\ \A b \in blocks : b.hi <= a \/ a + Needed(w, for, n, bytes) <= b.lo

LEMMA CallKeepsA ==
  ASSUME IInv, AInv, NEW w \in Threads, NEW for \in {"query", "store", "group"},
         NEW n \in Nat, NEW bytes \in Nat, Proper(w, for, n, bytes),
         call[w] = NoCall, AllocatorCall(w, for, n, bytes), calls' \in [Threads -> Nat]
  PROVE  AInv' /\ Served(w, for, n, bytes)
<1> DEFINE m == Needed(w, for, n, bytes)
           padded == m + Pad(aStart[w])
<1>1. /\ AllocTypeOK /\ Waits(w) /\ RoomOf(w)
      /\ pc \in [Threads -> PoolPlaces] /\ size \in [Threads -> Nat]
      /\ start_ \in [Threads -> Nat]
  BY GrantFacts DEF AInv, Waiting, Room
<1>2. pc[w] = "idle"
  BY <1>1 DEF Waits, NoCall
<1>3. /\ aStart[w] \in Nat /\ aFree[w] \in Nat /\ aSize[w] \in Nat \ {0}
      /\ aStart \in [Threads -> Nat] /\ aFree \in [Threads -> Nat] /\ aSize \in [Threads -> Nat \ {0}]
      /\ Align \in Nat \ {0}
  BY <1>1, AllocatorsAssumption DEF AllocTypeOK
<1>4. m \in Nat \ {0}
  BY <1>1, NeededType
<1>5. PICK p \in Nat : p = Pad(aStart[w]) /\ (aStart[w] + p) % Align = 0
  BY <1>3, PadFacts
<1> HIDE DEF m
<1>6. padded \in Nat \ {0}
  BY <1>4, <1>5
<1>7. CASE aFree[w] < padded
  <2> DEFINE s == ChunkSize(w, padded)
  <2>1. s \in Nat \ {0} /\ padded + Align <= s
    BY <1>3, <1>6 DEF ChunkSize, Larger
  <2> HIDE DEF s
  <2>2. /\ aSize' = [aSize EXCEPT ![w] = s]
        /\ pc' = [pc EXCEPT ![w] = "loadStart"]
        /\ size' = [size EXCEPT ![w] = s]
        /\ call' = [call EXCEPT ![w] = [for |-> for, n |-> n, size |-> bytes]]
        /\ UNCHANGED <<aStart, aFree, storeVars, blocks, groups, start_, served, granted>>
    BY <1>7 DEF AllocatorCall, Allocate, Set, m, s, history
  <2>3. AllocTypeOK'
    BY <1>1, <2>1, <2>2 DEF AllocTypeOK, storeVars
  <2>4. OthersKept(w)
    BY <1>1, <2>2 DEF OthersKept, AllocTypeOK, storeVars
  <2>5. Waits(w)'
    <3>1. /\ pc'[w] = "loadStart" /\ size'[w] = aSize'[w] /\ aSize'[w] = s /\ aStart'[w] = aStart[w]
          /\ call'[w] = [for |-> for, n |-> n, size |-> bytes]
      BY <1>1, <2>2 DEF AllocTypeOK
    <3>2. Proper(w, for, n, bytes)' /\ Needed(w, for, n, bytes)' = m
      BY <2>2 DEF Proper, Needed, storeVars, m
    <3>3. m + Pad(aStart[w]) + Align <= s
      BY <2>1
    <3> QED
      BY <3>1, <3>2, <3>3 DEF Waits
  <2>6. /\ Backed' /\ BlocksDisjoint' /\ Numbered'
        /\ \A u \in Threads, x, y \in Nat : Unused(u, x, y) => Unused(u, x, y)'
    BY <2>2, SameBlocks DEF AInv, Numbered
  <2>7. RoomOf(w)'
    <3>1. pc'[w] # "done"
      BY <1>1, <2>2
    <3> QED
      BY <1>1, <2>2, <3>1 DEF RoomOf, Unused
  <2>8. AInv'
    BY <2>3, <2>4, <2>5, <2>6, <2>7, WorkerKeeps
  <2> QED
    BY <2>2, <2>8 DEF Served
<1>8. CASE ~(aFree[w] < padded)
  <2> DEFINE a == aStart[w] + p
  <2>1. /\ Deliver(w, for, n, bytes, a)
        /\ aStart' = [aStart EXCEPT ![w] = aStart[w] + padded]
        /\ aFree' = [aFree EXCEPT ![w] = aFree[w] - padded]
        /\ UNCHANGED <<pc, size, start_, served, granted, aSize, call>>
    BY <1>5, <1>8 DEF AllocatorCall, Set, m, poolVars, history
  <2>2. /\ a \in Nat /\ a % Align = 0
        /\ aStart[w] + padded = a + m
        /\ a + m <= aStart[w] + aFree[w] /\ aFree[w] > 0 /\ aFree[w] - padded \in Nat
    BY <1>3, <1>4, <1>5, <1>6, <1>8
  <2> HIDE DEF a, padded
  <2>3. /\ blocks' = blocks \cup {Block(w, a, m)}
        /\ gStart' \in [Threads -> Nat] /\ gFree' \in [Threads -> Int]
        /\ gSize' \in [Threads -> Nat \ {0}]
        /\ gChunks' \in [Threads -> Seq(StoreChunk)] /\ gCurrent' \in [Threads -> Nat]
        /\ groups' \subseteq Piece
        /\ \A u \in Threads : u # w =>
             gSize'[u] = gSize[u] /\ gStart'[u] = gStart[u] /\ gChunks'[u] = gChunks[u]
    BY <1>1, <2>1, <2>2, DeliverFacts DEF m
  <2>4. PICK lo \in Nat, hi \in Nat : lo = aStart[w] /\ hi = aStart[w] + aFree[w]
    BY <1>3
  <2>5. Unused(w, lo, hi)
    BY <1>1, <2>2, <2>4 DEF RoomOf
  <2>6. /\ \A b \in blocks : b.hi <= a \/ a + m <= b.lo
        /\ blocks' \subseteq Piece /\ Backed' /\ BlocksDisjoint' /\ Numbered'
        /\ \A u \in Threads, x, y \in Nat : u # w /\ Unused(u, x, y) => Unused(u, x, y)'
        /\ \A x, y \in Nat : a + m <= x /\ y <= hi => Unused(w, x, y)'
    <3>1. lo <= a
      BY <1>3, <2>4 DEF a
    <3> QED
      BY <1>4, <2>1, <2>2, <2>3, <2>4, <2>5, <3>1, Placed
  <2>7. AllocTypeOK'
    <3>1. aStart' \in [Threads -> Nat] /\ aFree' \in [Threads -> Nat]
      BY <1>3, <1>4, <2>1, <2>2
    <3> QED
      BY <1>1, <2>1, <2>3, <2>6, <3>1 DEF AllocTypeOK
  <2>8. OthersKept(w)
    BY <1>3, <2>1, <2>3 DEF OthersKept
  <2>9. Waits(w)'
    BY <1>1, <1>2, <2>1 DEF Waits
  <2>10. RoomOf(w)'
    <3>1. PICK x \in Nat, y \in Nat : x = aStart'[w] /\ y = aStart'[w] + aFree'[w]
      BY <2>7 DEF AllocTypeOK
    <3>2. a + m <= x /\ y <= hi
      <4>1. x = a + m /\ y = a + m + (aFree[w] - padded) 
        BY <1>3, <2>1, <2>2, <3>1
      <4>2. aStart[w] + padded = a + m
        BY <2>2
      <4> QED
        BY <1>3, <1>4, <1>6, <2>2, <2>4, <4>1, <4>2
    <3>3. Unused(w, x, y)'
      BY <2>6, <3>2
    <3>4. pc'[w] # "done"
      BY <1>2, <2>1
    <3> QED
      BY <3>1, <3>3, <3>4 DEF RoomOf, Unused
  <2>11. AInv'
    BY <2>6, <2>7, <2>8, <2>9, <2>10, WorkerKeeps
  <2> QED
    BY <2>1, <2>2, <2>6, <2>11 DEF Served, m
<1> QED
  BY <1>7, <1>8

\* The pool has answered: the block lies in the chunk that was asked for.
LEMMA RefilledKeepsA ==
  ASSUME IInv, AInv, NEW w \in Threads, Refilled(w)
  PROVE  LET c == call[w]
         IN  /\ AInv' /\ Served(w, c.for, c.n, c.size)
             /\ Proper(w, c.for, c.n, c.size) /\ c.n \in Nat /\ c.size \in Nat
<1> DEFINE c == call[w]
           m == Needed(w, c.for, c.n, c.size)
<1>1. /\ AllocTypeOK /\ Waits(w) /\ RoomOf(w)
      /\ pc \in [Threads -> PoolPlaces] /\ size \in [Threads -> Nat]
      /\ start_ \in [Threads -> Nat]
  BY GrantFacts DEF AInv, Waiting, Room
<1>2. /\ c # NoCall /\ c.for # "source" /\ pc[w] = "done"
  BY DEF Refilled, Return
<1>3. /\ size[w] = aSize[w] /\ Proper(w, c.for, c.n, c.size)
      /\ m + Pad(aStart[w]) + Align <= aSize[w]
      /\ c.n \in Nat /\ c.size \in Nat
  BY <1>1, <1>2 DEF Waits, AllocTypeOK
<1>4. m \in Nat \ {0}
  BY <1>1, <1>3, NeededType
<1>5. /\ aStart \in [Threads -> Nat] /\ aFree \in [Threads -> Nat] /\ aSize \in [Threads -> Nat \ {0}]
      /\ Align \in Nat \ {0} /\ aStart[w] \in Nat /\ start_[w] \in Nat
  BY <1>1, AllocatorsAssumption DEF AllocTypeOK
<1>6. PICK p \in Nat : p = Pad(aStart[w])
  BY <1>5, PadFacts
<1>7. PICK q \in Nat : q = Pad(start_[w]) /\ q <= Align /\ (start_[w] + q) % Align = 0
  BY <1>5, PadFacts
<1> DEFINE a == start_[w] + q
           used == m + p + q
<1>8. /\ Deliver(w, c.for, c.n, c.size, a)
      /\ aStart' = [aStart EXCEPT ![w] = start_[w] + used]
      /\ aFree' = [aFree EXCEPT ![w] = aSize[w] - used]
      /\ pc' = [pc EXCEPT ![w] = "idle"]
      /\ call' = [call EXCEPT ![w] = NoCall]
      /\ UNCHANGED <<size, start_, served, granted, aSize, calls>>
  BY <1>6, <1>7 DEF Refilled, Return, Set, history
<1> HIDE DEF c, m
<1>9. /\ a \in Nat /\ a % Align = 0 /\ start_[w] <= a
      /\ a + m <= start_[w] + size[w]
      /\ used \in Nat /\ aSize[w] - used \in Nat /\ a + m <= start_[w] + used
  BY <1>3, <1>4, <1>5, <1>6, <1>7
<1> HIDE DEF a, used
<1>10. /\ blocks' = blocks \cup {Block(w, a, m)}
       /\ gStart' \in [Threads -> Nat] /\ gFree' \in [Threads -> Int]
       /\ gSize' \in [Threads -> Nat \ {0}]
       /\ gChunks' \in [Threads -> Seq(StoreChunk)] /\ gCurrent' \in [Threads -> Nat]
       /\ groups' \subseteq Piece
       /\ \A u \in Threads : u # w =>
            gSize'[u] = gSize[u] /\ gStart'[u] = gStart[u] /\ gChunks'[u] = gChunks[u]
  BY <1>1, <1>3, <1>8, <1>9, DeliverFacts DEF m
<1>11. PICK lo \in Nat, hi \in Nat : lo = start_[w] /\ hi = start_[w] + size[w]
  BY <1>1
<1>12. Unused(w, lo, hi)
  BY <1>1, <1>2, <1>11 DEF RoomOf
<1>13. /\ \A b \in blocks : b.hi <= a \/ a + m <= b.lo
       /\ blocks' \subseteq Piece /\ Backed' /\ BlocksDisjoint' /\ Numbered'
       /\ \A u \in Threads, x, y \in Nat : u # w /\ Unused(u, x, y) => Unused(u, x, y)'
       /\ \A x, y \in Nat : a + m <= x /\ y <= hi => Unused(w, x, y)'
  BY <1>4, <1>8, <1>9, <1>10, <1>11, <1>12, Placed
<1>14. AllocTypeOK'
  <2>1. aStart' \in [Threads -> Nat] /\ aFree' \in [Threads -> Nat]
    BY <1>5, <1>8, <1>9
  <2> QED
    BY <1>1, <1>8, <1>10, <1>13, <2>1 DEF AllocTypeOK, NoCall
<1>15. OthersKept(w)
  BY <1>1, <1>5, <1>8, <1>10 DEF OthersKept, AllocTypeOK
<1>16. Waits(w)'
  BY <1>1, <1>8 DEF Waits, AllocTypeOK
<1>17. RoomOf(w)'
  <2>1. PICK x \in Nat, y \in Nat : x = aStart'[w] /\ y = aStart'[w] + aFree'[w]
    BY <1>14 DEF AllocTypeOK
  <2>2. a + m <= x /\ y <= hi
    <3>1. x = start_[w] + used /\ y = start_[w] + used + (aSize[w] - used)
      BY <1>5, <1>8, <2>1
    <3> QED
      BY <1>3, <1>5, <1>9, <1>11, <3>1
  <2>3. Unused(w, x, y)'
    BY <1>13, <2>2
  <2>4. pc'[w] # "done"
    BY <1>1, <1>8
  <2> QED
    BY <2>1, <2>3, <2>4 DEF RoomOf, Unused
<1>18. AInv'
  BY <1>13, <1>14, <1>15, <1>16, <1>17, WorkerKeeps
<1>19. Served(w, c.for, c.n, c.size)
  BY <1>8, <1>9, <1>13 DEF Served, m
<1> QED
  BY <1>3, <1>18, <1>19 DEF c

\* The group is put behind the padding, and the store moves on.
LEMMA BumpFacts ==
  ASSUME AllocTypeOK, NEW w \in Threads, NEW n \in Nat, NEW from \in Nat, NEW free \in Int,
         NEW used \in Nat, Bump(w, n, from, free, used)
  PROVE  /\ gStart' = [gStart EXCEPT ![w] = from + used] /\ gStart' \in [Threads -> Nat]
         /\ gFree' = [gFree EXCEPT ![w] = free - used] /\ gFree' \in [Threads -> Int]
         /\ groups' = groups \cup {Block(w, from + Pad(from), n)}
         /\ Block(w, from + Pad(from), n) \in Piece /\ groups' \subseteq Piece
<1>1. PICK p \in Nat : p = Pad(from)
  BY PadFacts
<1>2. calls[w] \in Nat /\ groups \subseteq Piece
  BY DEF AllocTypeOK
<1>3. Block(w, from + p, n) \in Piece
  BY <1>2 DEF Block, Piece
<1> QED
  BY SMTT(30), <1>1, <1>2, <1>3 DEF Bump, Set, AllocTypeOK

\* A step of the store within its chunks does not concern the Allocator.
LEMMA StoreKeepsA ==
  ASSUME IInv, AInv, NEW w \in Threads, call[w] = NoCall,
         UNCHANGED <<poolVars, allocVars, call, blocks, gSize, gChunks>>,
         calls' \in [Threads -> Nat], groups' \subseteq Piece,
         gStart' \in [Threads -> Nat], gFree' \in [Threads -> Int], gCurrent' \in [Threads -> Nat],
         \A u \in Threads : u # w => gStart'[u] = gStart[u]
  PROVE  AInv'
<1>1. /\ AllocTypeOK /\ Waits(w) /\ RoomOf(w)
  BY DEF AInv, Waiting, Room
<1>2. UNCHANGED <<aStart, aFree, aSize, pc, size, start_, served, granted>>
  BY DEF allocVars, poolVars, history
<1>3. pc[w] = "idle"
  BY <1>1 DEF Waits, NoCall
<1>4. AllocTypeOK'
  BY <1>1, <1>2 DEF AllocTypeOK
<1>5. OthersKept(w)
  BY <1>2 DEF OthersKept
<1>6. Waits(w)'
  BY <1>1, <1>2, <1>3 DEF Waits
<1>7. /\ Backed' /\ BlocksDisjoint' /\ Numbered'
      /\ \A u \in Threads, x, y \in Nat : Unused(u, x, y) => Unused(u, x, y)'
  BY <1>2, SameBlocks DEF AInv, Numbered
<1>8. RoomOf(w)'
  BY <1>1, <1>2 DEF RoomOf, Unused
<1> QED
  BY <1>4, <1>5, <1>6, <1>7, <1>8, WorkerKeeps

-----------------------------------------------------------------------------
(* The stores: the steps *)

\* Where a chunk of a store begins and ends.
LEMMA ChunkBounds ==
  ASSUME AllocTypeOK, ChunksOK, NEW w \in Threads, NEW k \in 1 .. Len(gChunks[w])
  PROVE  LET c == gChunks[w][k]
         IN  /\ c \in StoreChunk /\ c.base \in Nat /\ c.size \in Nat
             /\ Top(c) \in Nat /\ Top(c) = c.base + ChunkHeader + c.size
             /\ c.size >= IF k = 1 THEN InitialSize ELSE 2 * InitialSize
<1>1. gChunks[w] \in Seq(StoreChunk)
  BY DEF AllocTypeOK
<1>2. gChunks[w][k] \in StoreChunk
  BY <1>1
<1>3. gChunks[w][k].size >= IF k = 1 THEN InitialSize ELSE 2 * InitialSize
  BY DEF ChunksOK
<1> QED
  BY <1>2, <1>3, AllocatorsAssumption DEF StoreChunk, Top

\* No two chunks share memory: those of two stores are blocks of two workers.
StoresApart ==
  \A v, w \in Threads : \A k \in 1 .. Len(gChunks[v]), l \in 1 .. Len(gChunks[w]) :
    v # w \/ k # l =>
      Top(gChunks[v][k]) <= gChunks[w][l].base \/ Top(gChunks[w][l]) <= gChunks[v][k].base

LEMMA ChunksAreApart == BlocksDisjoint /\ ChunksOK => StoresApart
<1> SUFFICES ASSUME BlocksDisjoint, ChunksOK, NEW v \in Threads, NEW w \in Threads,
                    NEW k \in 1 .. Len(gChunks[v]), NEW l \in 1 .. Len(gChunks[w]), v # w \/ k # l
             PROVE  \/ Top(gChunks[v][k]) <= gChunks[w][l].base
                    \/ Top(gChunks[w][l]) <= gChunks[v][k].base
  BY DEF StoresApart
<1>1. CASE v = w
  BY <1>1 DEF ChunksOK
<1>2. CASE v # w
  <2>1. PICK a \in blocks : a.owner = v /\ a.lo = gChunks[v][k].base /\ a.hi = Top(gChunks[v][k])
    BY DEF ChunksOK
  <2>2. PICK b \in blocks : b.owner = w /\ b.lo = gChunks[w][l].base /\ b.hi = Top(gChunks[w][l])
    BY DEF ChunksOK
  <2>3. a # b
    BY <1>2, <2>1, <2>2
  <2> QED
    BY <2>1, <2>2, <2>3 DEF BlocksDisjoint, Apart
<1> QED
  BY <1>1, <1>2

\* The addresses are plain numbers.
ChunksTyped ==
  \A w \in Threads : \A k \in 1 .. Len(gChunks[w]) :
    /\ gChunks[w][k].base \in Nat /\ gChunks[w][k].size \in Nat /\ Top(gChunks[w][k]) \in Nat
    /\ Top(gChunks[w][k]) = gChunks[w][k].base + ChunkHeader + gChunks[w][k].size

LEMMA ChunksAreTyped == AllocTypeOK => ChunksTyped
<1> SUFFICES ASSUME AllocTypeOK, NEW w \in Threads, NEW k \in 1 .. Len(gChunks[w])
             PROVE  /\ gChunks[w][k].base \in Nat /\ gChunks[w][k].size \in Nat
                    /\ Top(gChunks[w][k]) \in Nat
                    /\ Top(gChunks[w][k]) = gChunks[w][k].base + ChunkHeader + gChunks[w][k].size
  BY DEF ChunksTyped
<1>1. gChunks[w] \in Seq(StoreChunk)
  BY DEF AllocTypeOK
<1>2. gChunks[w][k] \in StoreChunk
  BY <1>1
<1> QED
  BY <1>2, AllocatorsAssumption DEF StoreChunk, Top

\* Pieces of two ranges that lie apart, behind a header each.
LEMMA InsideApart ==
  ASSUME NEW x \in Nat, NEW y \in Nat, NEW p \in Nat, NEW q \in Nat, NEW h \in Nat,
         NEW a \in Nat, NEW b \in Nat, NEW lo \in Nat, NEW n \in Nat,
         x + h <= a, b <= y, p + h <= lo, lo + n <= q, y <= p \/ q <= x
  PROVE  b <= lo \/ lo + n <= a
OBVIOUS

\* A group that is put behind the position of the store, in its current chunk or
\* in a later one, lies apart from all groups, and the store moves behind it.
LEMMA NewGroup ==
  ASSUME AInv, AInv', SInv, ChunksOK', NEW w \in Threads, NEW n \in Nat \ {0},
         NEW lo \in Nat, lo % Align = 0, NEW s \in Nat, NEW f \in Nat,
         NEW k \in 1 .. Len(gChunks'[w]),
         gStart' = [gStart EXCEPT ![w] = s], gFree' = [gFree EXCEPT ![w] = f],
         gCurrent' = [gCurrent EXCEPT ![w] = k],
         groups' = groups \cup {Block(w, lo, n)},
         \A u \in Threads : u # w => gChunks'[u] = gChunks[u],
         \A l \in 1 .. Len(gChunks[w]) : l \in 1 .. Len(gChunks'[w]) /\ gChunks'[w][l] = gChunks[w][l],
         gChunks[w] # <<>>,
         gChunks'[w][k].base + ChunkHeader <= lo,
         k = gCurrent[w] => gStart[w] <= lo, k >= gCurrent[w],
         lo + n <= s, s + f <= Top(gChunks'[w][k])
  PROVE  SInv'
<1>1. /\ AllocTypeOK /\ ChunksOK /\ CurrentOK /\ GroupsIn /\ GroupsDisjoint
      /\ AllocTypeOK' /\ BlocksDisjoint'
  BY DEF AInv, SInv
<1>2. /\ gStart \in [Threads -> Nat] /\ gFree \in [Threads -> Int] /\ gCurrent \in [Threads -> Nat]
      /\ groups \subseteq Piece /\ groups' \subseteq Piece
  BY <1>1 DEF AllocTypeOK
<1>12. ChunkHeader \in Nat /\ ChunkHeader > 0
  BY AllocatorsAssumption
<1>13. ChunksTyped /\ ChunksTyped'
  BY <1>1, ChunksAreTyped, PTL
<1>14. /\ gChunks'[w][k].base \in Nat /\ Top(gChunks'[w][k]) \in Nat
       /\ gChunks'[w][k].base + ChunkHeader <= s
       /\ lo + n <= Top(gChunks'[w][k])
  <2>1. gChunks'[w][k].base \in Nat /\ Top(gChunks'[w][k]) \in Nat
    BY <1>13 DEF ChunksTyped
  <2> QED
    BY <1>12, <2>1
<1>3. /\ gStart'[w] = s /\ gFree'[w] = f /\ gCurrent'[w] = k
      /\ \A u \in Threads : u # w =>
           gStart'[u] = gStart[u] /\ gFree'[u] = gFree[u] /\ gCurrent'[u] = gCurrent[u]
  BY <1>2
<1>4. gCurrent[w] \in Nat /\ gCurrent[w] <= k /\ k \in Nat
  BY <1>2
<1>5. CurrentOK'
  <2> SUFFICES ASSUME NEW u \in Threads
               PROVE  IF gChunks'[u] = <<>> THEN gCurrent'[u] = 0
                      ELSE /\ gCurrent'[u] \in 1 .. Len(gChunks'[u])
                           /\ gChunks'[u][gCurrent'[u]].base + ChunkHeader <= gStart'[u]
                           /\ gStart'[u] + gFree'[u] <= Top(gChunks'[u][gCurrent'[u]])
    BY DEF CurrentOK
  <2>1. CASE u # w
    BY <1>1, <1>3, <2>1 DEF CurrentOK
  <2>2. CASE u = w
    <3>1. gChunks'[w] # <<>>
      OBVIOUS
    <3> QED
      BY <1>3, <1>14, <2>2, <3>1
  <2> QED
    BY <2>1, <2>2
<1>15. PICK new : new = Block(w, lo, n)
  OBVIOUS
<1>6. new.owner = w /\ new.lo = lo /\ new.hi = lo + n /\ groups' = groups \cup {new}
  BY <1>15 DEF Block
\* Where the groups were, they still are.
<1>7. ASSUME NEW a \in groups, NEW j \in Nat, Lies(a, j)
      PROVE  /\ Lies(a, j)' /\ a.owner \in Threads
             /\ a.owner = w /\ j = k => a.hi <= lo
             /\ j \in 1 .. Len(gChunks'[a.owner])
             /\ gChunks'[a.owner][j].base + ChunkHeader <= a.lo /\ a.hi <= Top(gChunks'[a.owner][j])
  <2>1. /\ a.owner \in Threads /\ a.lo \in Nat /\ a.hi \in Nat
        /\ j \in 1 .. Len(gChunks[a.owner]) /\ j <= gCurrent[a.owner]
        /\ gChunks[a.owner][j].base + ChunkHeader <= a.lo /\ a.hi <= Top(gChunks[a.owner][j])
        /\ j = gCurrent[a.owner] => a.hi <= gStart[a.owner]
    BY <1>2, <1>7 DEF Lies, Piece
  <2>2. CASE a.owner # w
    <3>1. /\ gChunks'[a.owner] = gChunks[a.owner] /\ gCurrent'[a.owner] = gCurrent[a.owner]
          /\ gStart'[a.owner] = gStart[a.owner]
      BY <1>3, <2>1, <2>2
    <3> QED
      BY <2>1, <2>2, <3>1 DEF Lies
  <2>3. CASE a.owner = w
    <3>1. j \in 1 .. Len(gChunks'[w]) /\ gChunks'[w][j] = gChunks[w][j]
      BY <2>1, <2>3
    <3>2. j <= k
      BY <1>4, <2>1, <2>3
    <3>3. j = k => a.hi <= lo
      BY <1>2, <1>4, <2>1, <2>3
    <3>4. j = k => a.hi <= s
      BY <2>1, <3>3
    <3> QED
      BY <1>3, <2>1, <2>3, <3>1, <3>2, <3>3, <3>4 DEF Lies
  <2> QED
    BY <2>2, <2>3
<1>8. GroupsIn'
  <2>1. ASSUME NEW a \in groups
        PROVE  a.lo < a.hi /\ a.lo % Align = 0 /\ \E j \in Nat : Lies(a, j)'
    BY <1>1, <1>7 DEF GroupsIn
  <2>2. Lies(new, k)'
    <3>1. new.owner \in Threads /\ gCurrent'[new.owner] = k /\ gStart'[new.owner] = s
      BY <1>3, <1>6
    <3> QED
      BY <1>6, <1>14, <3>1 DEF Lies
  <2>3. new.lo < new.hi /\ new.lo % Align = 0
    BY <1>6
  <2> SUFFICES ASSUME NEW a \in groups'
               PROVE  a.lo < a.hi /\ a.lo % Align = 0 /\ \E j \in Nat : Lies(a, j)'
    BY DEF GroupsIn
  <2> QED
    BY <1>4, <1>6, <2>1, <2>2, <2>3
<1>9. StoresApart'
  BY <1>1, ChunksAreApart, PTL
<1>10. ASSUME NEW a \in groups
       PROVE  a.hi <= lo \/ lo + n <= a.lo
  <2>1. PICK j \in Nat : Lies(a, j)
    BY <1>1 DEF GroupsIn
  <2>2. CASE a.owner = w /\ j = k
    BY <1>7, <2>1, <2>2
  <2>3. CASE a.owner # w \/ j # k
    <3>1. /\ a.owner \in Threads /\ j \in 1 .. Len(gChunks'[a.owner])
          /\ gChunks'[a.owner][j].base + ChunkHeader <= a.lo /\ a.hi <= Top(gChunks'[a.owner][j])
      BY <1>7, <2>1
    <3>2. \/ Top(gChunks'[a.owner][j]) <= gChunks'[w][k].base
          \/ Top(gChunks'[w][k]) <= gChunks'[a.owner][j].base
      BY <1>9, <2>3, <3>1 DEF StoresApart
    <3>3. /\ gChunks'[a.owner][j].base \in Nat /\ Top(gChunks'[a.owner][j]) \in Nat
      BY <1>13, <3>1 DEF ChunksTyped
    <3>4. a.lo \in Nat /\ a.hi \in Nat
      BY <1>2 DEF Piece
    <3>5. PICK x, y, p, q, h \in Nat :
            /\ x = gChunks'[a.owner][j].base /\ y = Top(gChunks'[a.owner][j])
            /\ p = gChunks'[w][k].base /\ q = Top(gChunks'[w][k]) /\ h = ChunkHeader
      BY <1>12, <1>14, <3>3
    <3>6. x + h <= a.lo /\ a.hi <= y 
      BY  <3>1, <3>5
    <3>7. p + h <= lo /\ lo + n <= q
      BY <1>14, <3>5
    <3>8. y <= p \/ q <= x
      BY <3>2, <3>5
    <3>9. CASE y <= p
      BY <3>4, <3>6, <3>7, <3>9
    <3>10. CASE q <= x
      BY <3>4, <3>6, <3>7, <3>10
    <3> QED
      BY <3>8, <3>9, <3>10
  <2> QED
    BY <2>2, <2>3
<1>11. GroupsDisjoint'
  <2>1. \A a \in groups : Apart(a, new) /\ Apart(new, a)
    BY <1>6, <1>10 DEF Apart
  <2> QED
    BY <1>1, <1>6, <2>1 DEF GroupsDisjoint, Apart
<1> QED
  BY <1>5, <1>8, <1>11 DEF SInv

\* Steps that leave the stores and their groups alone.
LEMMA SameStores ==
  ASSUME SInv, blocks \subseteq blocks', UNCHANGED <<storeVars, groups>>
  PROVE  SInv'
BY DEF SInv, ChunksOK, CurrentOK, GroupsIn, GroupsDisjoint, Lies, Top, Apart, storeVars

\* From the chunk that the store is at.
LEMMA BumpKeeps ==
  ASSUME AInv, AInv', SInv, NEW w \in Threads, NEW n \in Requests, gChunks[w] # <<>>,
         gFree[w] >= n + Pad(gStart[w]),
         Bump(w, n, gStart[w], gFree[w], n + Pad(gStart[w])),
         UNCHANGED <<gSize, gChunks, gCurrent, blocks>>
  PROVE  SInv'
<1>1. /\ AllocTypeOK /\ ChunksOK /\ CurrentOK
  BY DEF AInv, SInv
<1>2. ChunksOK'
  BY <1>1 DEF ChunksOK, Top
<1>3. n \in Nat \ {0}
  BY AllocatorsAssumption
<1>4. PICK g \in Nat, e \in Int, k \in 1 .. Len(gChunks[w]) :
        g = gStart[w] /\ e = gFree[w] /\ k = gCurrent[w]
  BY <1>1 DEF AllocTypeOK, CurrentOK
<1>5. PICK p \in Nat : p = Pad(g) /\ (g + p) % Align = 0
  BY PadFacts
<1>6. e >= n + p
  BY <1>4, <1>5
<1>7. /\ gStart' = [gStart EXCEPT ![w] = g + (n + p)]
      /\ gFree' = [gFree EXCEPT ![w] = e - (n + p)]
      /\ groups' = groups \cup {Block(w, g + p, n)}
  BY <1>4, <1>5 DEF Bump, Set
<1>8. gCurrent' = [gCurrent EXCEPT ![w] = k]
  BY <1>1, <1>4 DEF AllocTypeOK
<1>9. gChunks[w][k].base + ChunkHeader <= g /\ g + e <= Top(gChunks[w][k])
  BY <1>1, <1>4 DEF CurrentOK
<1>10. ChunksTyped /\ ChunkHeader \in Nat
  BY <1>1, ChunksAreTyped, AllocatorsAssumption
<1>11. PICK b \in Nat, t \in Nat : b = gChunks[w][k].base /\ t = Top(gChunks[w][k])
  BY <1>10 DEF ChunksTyped
<1>12. b + ChunkHeader <= g /\ g + e <= t
  BY <1>9, <1>11
<1>13. PICK lo \in Nat, s \in Nat, f \in Nat : lo = g + p /\ s = g + (n + p) /\ f = e - (n + p)
  BY <1>3, <1>6
<1>14. b + ChunkHeader <= lo /\ g <= lo /\ lo + n <= s /\ s + f <= t
  BY <1>3, <1>10, <1>12, <1>13
<1>15. /\ gChunks'[w][k].base + ChunkHeader <= lo
       /\ s + f <= Top(gChunks'[w][k])
       /\ k \in 1 .. Len(gChunks'[w]) /\ k >= gCurrent[w] /\ gStart[w] <= lo
       /\ lo % Align = 0
  BY <1>4, <1>5, <1>11, <1>13, <1>14
<1> QED
  BY <1>2, <1>3, <1>7, <1>8, <1>13, <1>14, <1>15, NewGroup

\* In a chunk behind the current one, at its beginning.
LEMMA InChunkKeeps ==
  ASSUME AInv, AInv', SInv, ChunksOK', NEW w \in Threads, NEW n \in Requests, gChunks[w] # <<>>,
         NEW k \in 2 .. Len(gChunks'[w]), k > gCurrent[w],
         \A u \in Threads : u # w => gChunks'[u] = gChunks[u],
         \A l \in 1 .. Len(gChunks[w]) : l \in 1 .. Len(gChunks'[w]) /\ gChunks'[w][l] = gChunks[w][l],
         InChunk(w, n, n + Pad(gStart[w]), gChunks'[w], k)
  PROVE  SInv'
<1>1. /\ AllocTypeOK /\ AllocTypeOK' /\ CurrentOK
  BY DEF AInv, SInv
<1>2. n \in Nat \ {0} /\ n + 2 * Align <= 2 * InitialSize /\ Align \in Nat /\ InitialSize \in Nat
  BY AllocatorsAssumption, RequestsFit
<1>16. ChunksTyped'
  BY <1>1, ChunksAreTyped, PTL
<1>3. ChunksTyped' /\ ChunkHeader \in Nat
  BY <1>16, AllocatorsAssumption
<1>4. PICK b \in Nat, z \in Nat :
        /\ b = gChunks'[w][k].base /\ z = gChunks'[w][k].size
        /\ Top(gChunks'[w][k]) = b + ChunkHeader + z
  BY <1>3 DEF ChunksTyped
<1>5. z >= 2 * InitialSize
  <2>1. gChunks'[w][k].size >= IF k = 1 THEN InitialSize ELSE 2 * InitialSize
    BY SMTT(30) DEF ChunksOK
  <2> QED
    BY <1>4, <2>1
<1>6. PICK g \in Nat : g = gStart[w]
  BY <1>1 DEF AllocTypeOK
<1>7. PICK p \in Nat : p = Pad(g) /\ p <= Align
  BY PadFacts
<1>8. PICK from \in Nat : from = b + ChunkHeader
  BY <1>3
<1>9. PICK q \in Nat : q = Pad(from) /\ q <= Align /\ (from + q) % Align = 0
  BY PadFacts
<1>10. /\ gCurrent' = [gCurrent EXCEPT ![w] = k]
       /\ gStart' = [gStart EXCEPT ![w] = from + (n + p + q)]
       /\ gFree' = [gFree EXCEPT ![w] = z - (n + p + q)]
       /\ groups' = groups \cup {Block(w, from + q, n)}
  BY <1>4, <1>6, <1>7, <1>8, <1>9 DEF InChunk, Bump, Set
<1>11. PICK lo \in Nat, s \in Nat, f \in Nat :
         lo = from + q /\ s = from + (n + p + q) /\ f = z - (n + p + q)
  <2>1. n + p + q <= z
    BY <1>2, <1>5, <1>7, <1>9
  <2>2. z - (n + p + q) \in Nat /\ from + q \in Nat /\ from + (n + p + q) \in Nat
    BY <1>2, <2>1
  <2> QED
    BY <2>2
<1>12. b + ChunkHeader <= lo /\ lo + n <= s /\ s + f <= b + ChunkHeader + z
  <2>1. b + ChunkHeader <= lo
    BY <1>3, <1>8, <1>11
  <2>2. lo + n <= s
    BY <1>2, <1>11
  <2>3. s + f = from + z
    BY <1>2, <1>11
  <2> QED
    BY <1>3, <1>8, <2>1, <2>2, <2>3
<1>13. /\ gChunks'[w][k].base + ChunkHeader <= lo /\ s + f <= Top(gChunks'[w][k])
       /\ lo % Align = 0
  BY <1>4, <1>9, <1>11, <1>12
<1>14. gCurrent[w] \in Nat /\ k \in 1 .. Len(gChunks'[w])
  BY <1>1 DEF AllocTypeOK
<1>15. k >= gCurrent[w] /\ k # gCurrent[w]
  BY <1>14
<1> QED
  BY <1>2, <1>10, <1>11, <1>12, <1>13, <1>14, <1>15, NewGroup

\* A store that is reset starts again in its first chunk, without groups.
LEMMA ResetKeeps ==
  ASSUME AInv, SInv, NEW w \in Threads, StoreReset(w)
  PROVE  SInv'
<1>1. /\ AllocTypeOK /\ ChunksOK /\ CurrentOK /\ GroupsIn /\ GroupsDisjoint
  BY DEF AInv, SInv
<1>2. /\ gChunks[w] # <<>> /\ gCurrent' = [gCurrent EXCEPT ![w] = 1]
      /\ gStart' = [gStart EXCEPT ![w] = gChunks[w][1].base + ChunkHeader]
      /\ gFree' = [gFree EXCEPT ![w] = gChunks[w][1].size]
      /\ groups' = {g \in groups : g.owner # w}
      /\ UNCHANGED <<gSize, gChunks, blocks>>
  BY DEF StoreReset, Set
<1>3. ChunksOK'
  BY <1>1, <1>2 DEF ChunksOK, Top
<1>4. /\ gStart'[w] = gChunks[w][1].base + ChunkHeader
      /\ gFree'[w] = gChunks[w][1].size /\ gCurrent'[w] = 1
      /\ \A u \in Threads : u # w =>
           gStart'[u] = gStart[u] /\ gFree'[u] = gFree[u] /\ gCurrent'[u] = gCurrent[u]
  BY <1>1, <1>2 DEF AllocTypeOK
<1>5. CurrentOK'
  <2> SUFFICES ASSUME NEW u \in Threads
               PROVE  IF gChunks'[u] = <<>> THEN gCurrent'[u] = 0
                      ELSE /\ gCurrent'[u] \in 1 .. Len(gChunks'[u])
                           /\ gChunks'[u][gCurrent'[u]].base + ChunkHeader <= gStart'[u]
                           /\ gStart'[u] + gFree'[u] <= Top(gChunks'[u][gCurrent'[u]])
    BY DEF CurrentOK
  <2>1. CASE u # w
    BY <1>1, <1>2, <1>4, <2>1 DEF CurrentOK
  <2>2. CASE u = w
    <3>1. 1 \in 1 .. Len(gChunks[w])
      BY <1>1, <1>2 DEF AllocTypeOK
    <3>2. ChunksTyped /\ ChunkHeader \in Nat
      BY <1>1, ChunksAreTyped, AllocatorsAssumption
    <3>3. PICK b \in Nat, z \in Nat :
            /\ b = gChunks[w][1].base /\ z = gChunks[w][1].size
            /\ Top(gChunks[w][1]) = b + ChunkHeader + z
      BY <3>1, <3>2 DEF ChunksTyped
    <3> QED
      BY SMTT(30), <1>2, <1>4, <2>2, <3>1, <3>2, <3>3
  <2> QED
    BY <2>1, <2>2
<1>6. GroupsIn'
  <2> SUFFICES ASSUME NEW a \in groups, a.owner # w
               PROVE  a.lo < a.hi /\ a.lo % Align = 0 /\ \E k \in Nat : Lies(a, k)'
    BY <1>2 DEF GroupsIn
  <2>1. a.owner \in Threads
    BY <1>1 DEF AllocTypeOK, Piece
  <2>2. /\ gStart'[a.owner] = gStart[a.owner] /\ gCurrent'[a.owner] = gCurrent[a.owner]
        /\ gChunks' = gChunks
    BY <1>2, <1>4, <2>1
  <2> QED
    BY <1>1, <2>2 DEF GroupsIn, Lies, Top
<1>7. GroupsDisjoint'
  BY <1>1, <1>2 DEF GroupsDisjoint, Apart
<1> QED
  BY <1>3, <1>5, <1>6, <1>7 DEF SInv

\* Two chunks share nothing.
Disjoint(c, d) == Top(c) <= d.base \/ Top(d) <= c.base

\* What ChunksOK says, in parts.
Backing(w, k) ==
  /\ gChunks[w][k].size >= IF k = 1 THEN InitialSize ELSE 2 * InitialSize
  /\ \E b \in blocks : b.owner = w /\ b.lo = gChunks[w][k].base /\ b.hi = Top(gChunks[w][k])

Separate(w, k, l) == Disjoint(gChunks[w][k], gChunks[w][l])

ChunkParts ==
  \A w \in Threads :
    /\ gSize[w] >= InitialSize
    /\ \A k \in 1 .. Len(gChunks[w]) :
         Backing(w, k) /\ \A l \in 1 .. Len(gChunks[w]) : l # k => Separate(w, k, l)

LEMMA ChunkPartsSuffice == ChunkParts => ChunksOK
BY DEF ChunkParts, Backing, Separate, Disjoint, ChunksOK

\* The block that a store gets becomes its last chunk, apart from the others.
LEMMA ChunkAdded ==
  ASSUME AllocTypeOK, ChunksOK, NEW w \in Threads, NEW a \in Nat, NEW m \in Nat, NEW x \in Nat \ {0},
         gChunks' = [gChunks EXCEPT ![w] = Append(@, [base |-> a, size |-> m])],
         gSize' = [gSize EXCEPT ![w] = x],
         blocks' = blocks \cup {Block(w, a, m + ChunkHeader)},
         \A b \in blocks : b.hi <= a \/ a + (m + ChunkHeader) <= b.lo,
         x >= InitialSize, m >= IF gChunks[w] = <<>> THEN InitialSize ELSE 2 * InitialSize
  PROVE  /\ ChunksOK' /\ Len(gChunks'[w]) = Len(gChunks[w]) + 1
         /\ gChunks'[w][Len(gChunks[w]) + 1] = [base |-> a, size |-> m]
         /\ \A l \in 1 .. Len(gChunks[w]) :
              l \in 1 .. Len(gChunks'[w]) /\ gChunks'[w][l] = gChunks[w][l]
         /\ \A u \in Threads : u # w => gChunks'[u] = gChunks[u]
<1> DEFINE c == [base |-> a, size |-> m]
           n == Len(gChunks[w])
<1>1. /\ gChunks \in [Threads -> Seq(StoreChunk)] /\ gSize \in [Threads -> Nat \ {0}]
      /\ ChunkHeader \in Nat /\ gChunks[w] \in Seq(StoreChunk)
  BY AllocatorsAssumption DEF AllocTypeOK
<1>2. /\ c.base = a /\ c.size = m /\ Top(c) = a + ChunkHeader + m /\ c \in StoreChunk
  BY DEF Top, StoreChunk
<1>3. PICK t \in Nat : t = a + ChunkHeader + m
  BY <1>1
<1> HIDE DEF c
<1>4. /\ gChunks'[w] = Append(gChunks[w], c)
      /\ \A u \in Threads : u # w => gChunks'[u] = gChunks[u]
  BY <1>1 DEF c
<1>5. /\ n \in Nat /\ Len(gChunks'[w]) = n + 1 /\ gChunks'[w][n + 1] = c
      /\ \A l \in 1 .. n : l \in 1 .. n + 1 /\ gChunks'[w][l] = gChunks[w][l]
  BY <1>1, <1>2, <1>4
<1> HIDE DEF n
<1>6. PICK new \in blocks' : new.owner = w /\ new.lo = a /\ new.hi = t
  <2>1. Block(w, a, m + ChunkHeader) \in blocks'
    OBVIOUS
  <2>2. /\ Block(w, a, m + ChunkHeader).owner = w /\ Block(w, a, m + ChunkHeader).lo = a
        /\ Block(w, a, m + ChunkHeader).hi = a + (m + ChunkHeader)
    BY DEF Block
  <2> QED
    BY <1>1, <1>3, <2>1, <2>2
\* The chunk lies apart from the old ones.
<1>7. ASSUME NEW l \in 1 .. n
      PROVE  Top(gChunks[w][l]) <= a \/ t <= gChunks[w][l].base
  <2>1. l \in 1 .. Len(gChunks[w])
    BY DEF n
  <2>2. PICK b \in blocks : b.owner = w /\ b.lo = gChunks[w][l].base /\ b.hi = Top(gChunks[w][l])
    BY <2>1 DEF ChunksOK
  <2>3. b.hi <= a \/ a + (m + ChunkHeader) <= b.lo
    OBVIOUS
  <2> QED
    BY <1>1, <1>3, <2>2, <2>3
<1>8. ASSUME NEW k \in 1 .. n
      PROVE  /\ gChunks[w][k].size >= IF k = 1 THEN InitialSize ELSE 2 * InitialSize
             /\ \E b \in blocks' : b.owner = w /\ b.lo = gChunks[w][k].base /\ b.hi = Top(gChunks[w][k])
             /\ \A l \in 1 .. n : l # k => Disjoint(gChunks[w][k], gChunks[w][l])
  BY DEF ChunksOK, n, Disjoint
<1>9. c.size >= IF n + 1 = 1 THEN InitialSize ELSE 2 * InitialSize
  <2>1. n + 1 = 1 => gChunks[w] = <<>>
    BY <1>1, <1>5 DEF n
  <2>2. CASE n + 1 = 1
    BY <1>2, <2>1, <2>2
  <2>3. CASE n + 1 # 1
    <3>1. gChunks[w] # <<>>
      BY <1>1, <1>5, <2>3 DEF n
    <3> QED
      BY <1>2, <2>3, <3>1
  <2> QED
    BY <2>2, <2>3
<1>10. ASSUME NEW k \in 1 .. n + 1, NEW l \in 1 .. n + 1, l # k
       PROVE  Disjoint(gChunks'[w][k], gChunks'[w][l])
  <2>1. CASE k \in 1 .. n /\ l \in 1 .. n
    <3>1. gChunks'[w][k] = gChunks[w][k] /\ gChunks'[w][l] = gChunks[w][l]
      BY <1>5, <2>1
    <3> QED
      BY <1>8, <1>10, <2>1, <3>1
  <2>2. CASE k \in 1 .. n /\ l = n + 1
    <3>1. gChunks'[w][k] = gChunks[w][k] /\ gChunks'[w][l] = c
      BY <1>5, <2>2
    <3> QED
      BY <1>2, <1>3, <1>7, <2>2, <3>1 DEF Disjoint
  <2>3. CASE k = n + 1
    <3>1. l \in 1 .. n
      BY <1>5, <1>10, <2>3
    <3>2. gChunks'[w][l] = gChunks[w][l] /\ gChunks'[w][k] = c
      BY <1>5, <2>3, <3>1
    <3> QED
      BY <1>2, <1>3, <1>7, <3>1, <3>2 DEF Disjoint
  <2> QED
    BY <1>5, <2>1, <2>2, <2>3
<1>12. ASSUME NEW k \in 1 .. n + 1
       PROVE  /\ gChunks'[w][k].size >= IF k = 1 THEN InitialSize ELSE 2 * InitialSize
              /\ \E b \in blocks' : b.owner = w /\ b.lo = gChunks'[w][k].base /\ b.hi = Top(gChunks'[w][k])
  <2>1. CASE k \in 1 .. n
    <3>1. gChunks'[w][k] = gChunks[w][k]
      BY <1>5, <2>1
    <3>2. gChunks[w][k].size >= IF k = 1 THEN InitialSize ELSE 2 * InitialSize
      BY <1>8, <2>1
    <3>3. \E b \in blocks' : b.owner = w /\ b.lo = gChunks[w][k].base /\ b.hi = Top(gChunks[w][k])
      BY <1>8, <2>1
    <3> QED
      BY <3>1, <3>2, <3>3
  <2>2. CASE k = n + 1
    <3>1. gChunks'[w][k] = c
      BY <1>5, <2>2
    <3>2. c.size >= IF k = 1 THEN InitialSize ELSE 2 * InitialSize
      BY <1>9, <2>2
    <3>3. new.lo = c.base /\ new.hi = Top(c)
      BY <1>2, <1>3, <1>6
    <3> QED
      BY <1>6, <3>1, <3>2, <3>3
  <2> QED
    BY <1>5, <2>1, <2>2
<1>13. ASSUME NEW u \in Threads, u # w
       PROVE  gSize'[u] = gSize[u] /\ gChunks'[u] = gChunks[u]
  BY <1>1, <1>4, <1>13
<1>14. ASSUME NEW u \in Threads, NEW k \in 1 .. Len(gChunks'[u])
       PROVE  /\ gChunks'[u][k].size >= IF k = 1 THEN InitialSize ELSE 2 * InitialSize
              /\ \E b \in blocks' : b.owner = u /\ b.lo = gChunks'[u][k].base /\ b.hi = Top(gChunks'[u][k])
  <2>1. CASE u = w
    <3>1. k \in 1 .. n + 1
      BY <1>5, <2>1
    <3> QED
      BY <1>12, <2>1, <3>1
  <2>2. CASE u # w
    <3>1. k \in 1 .. Len(gChunks[u]) /\ gChunks'[u][k] = gChunks[u][k]
      BY <1>13, <2>2
    <3>2. gChunks[u][k].size >= IF k = 1 THEN InitialSize ELSE 2 * InitialSize
      BY <3>1 DEF ChunksOK
    <3>3. \E b \in blocks' : b.owner = u /\ b.lo = gChunks[u][k].base /\ b.hi = Top(gChunks[u][k])
      BY <3>1 DEF ChunksOK
    <3> QED
      BY <3>1, <3>2, <3>3
  <2> QED
    BY <2>1, <2>2
<1>15. ASSUME NEW u \in Threads, NEW k \in 1 .. Len(gChunks'[u]), NEW l \in 1 .. Len(gChunks'[u]), l # k
       PROVE  Disjoint(gChunks'[u][k], gChunks'[u][l])
  <2>1. CASE u = w
    <3>1. k \in 1 .. n + 1 /\ l \in 1 .. n + 1
      BY <1>5, <2>1
    <3> QED
      BY <1>10, <1>15, <2>1, <3>1
  <2>2. CASE u # w
    <3>1. /\ k \in 1 .. Len(gChunks[u]) /\ gChunks'[u][k] = gChunks[u][k]
          /\ l \in 1 .. Len(gChunks[u]) /\ gChunks'[u][l] = gChunks[u][l]
      BY <1>13, <2>2
    <3> QED
      BY <1>15, <3>1 DEF ChunksOK, Disjoint
  <2> QED
    BY <2>1, <2>2
<1>16. \A u \in Threads : gSize'[u] >= InitialSize
  BY <1>1, <1>13 DEF ChunksOK
<1>11. ChunksOK'
  <2>1. ASSUME NEW u \in Threads, NEW k \in 1 .. Len(gChunks'[u])
        PROVE  Backing(u, k)'
    BY <1>14 DEF Backing, Top
  <2>2. ASSUME NEW u \in Threads, NEW k \in 1 .. Len(gChunks'[u]), NEW l \in 1 .. Len(gChunks'[u]), l # k
        PROVE  Separate(u, k, l)'
    BY <1>15, <2>2 DEF Separate, Disjoint, Top
  <2>3. ChunkParts'
    BY <1>16, <2>1, <2>2 DEF ChunkParts
  <2> QED
    BY <2>3, ChunkPartsSuffice, PTL
<1> QED
  BY <1>4, <1>5, <1>11 DEF c, n

\* What a store does with a call that is served: a query's block is no concern
\* of it; it begins in its first chunk, or goes on in a new one.
LEMMA ServedKeeps ==
  ASSUME IInv, AInv, AInv', SInv, NEW w \in Threads, NEW for, NEW n \in Nat, NEW bytes \in Nat,
         Proper(w, for, n, bytes), Served(w, for, n, bytes)
  PROVE  SInv'
<1>1. /\ AllocTypeOK /\ ChunksOK /\ CurrentOK /\ GroupsIn /\ GroupsDisjoint
      /\ ChunkHeader \in Nat /\ InitialSize \in Nat \ {0}
  BY AllocatorsAssumption DEF AInv, SInv
<1>2. /\ gSize[w] \in Nat \ {0} /\ gSize[w] >= InitialSize /\ gChunks[w] \in Seq(StoreChunk)
      /\ gChunks \in [Threads -> Seq(StoreChunk)] /\ gSize \in [Threads -> Nat \ {0}]
  BY <1>1 DEF AllocTypeOK, ChunksOK
<1>3. CASE UNCHANGED <<storeVars, blocks, groups>>
  BY <1>3, SameStores
<1>4. ASSUME NEW a \in Nat, Deliver(w, for, n, bytes, a),
             \A b \in blocks : b.hi <= a \/ a + Needed(w, for, n, bytes) <= b.lo
      PROVE  SInv'
  <2>1. CASE for = "query"
    <3>1. UNCHANGED <<storeVars, groups>> /\ blocks \subseteq blocks'
      BY <1>4, <2>1 DEF Deliver
    <3> QED
      BY <3>1, SameStores
  <2>2. CASE for = "store"
    <3>1. /\ blocks' = blocks \cup {Block(w, a, InitialSize + ChunkHeader)}
          /\ gChunks' = [gChunks EXCEPT ![w] = <<[base |-> a, size |-> InitialSize]>>]
          /\ gCurrent' = [gCurrent EXCEPT ![w] = 1]
          /\ gStart' = [gStart EXCEPT ![w] = a + ChunkHeader]
          /\ gFree' = [gFree EXCEPT ![w] = InitialSize]
          /\ UNCHANGED <<gSize, groups>>
      BY <1>4, <2>2 DEF Deliver, Set
    <3>2. gChunks[w] = <<>> /\ Needed(w, for, n, bytes) = InitialSize + ChunkHeader
      BY <2>2 DEF Proper, Needed
    <3>3. gChunks' = [gChunks EXCEPT ![w] = Append(@, [base |-> a, size |-> InitialSize])]
      <4>1. Append(gChunks[w], [base |-> a, size |-> InitialSize]) = <<[base |-> a, size |-> InitialSize]>>
        BY <3>2
      <4> QED
        BY <3>1, <4>1
    <3>4. gSize' = [gSize EXCEPT ![w] = gSize[w]]
      BY <1>2, <3>1
    <3>5. \A b \in blocks : b.hi <= a \/ a + (InitialSize + ChunkHeader) <= b.lo
      BY <1>4, <3>2
    <3>6. /\ ChunksOK' /\ Len(gChunks'[w]) = 1
          /\ gChunks'[w][1] = [base |-> a, size |-> InitialSize]
          /\ \A u \in Threads : u # w => gChunks'[u] = gChunks[u]
      <4>1. InitialSize >= IF gChunks[w] = <<>> THEN InitialSize ELSE 2 * InitialSize
        BY <1>1, <3>2
      <4>2. Len(gChunks[w]) = 0
        BY <3>2
      <4>4. PICK x \in Nat \ {0}, z \in Nat : x = gSize[w] /\ z = InitialSize /\ x >= InitialSize
        BY <1>1, <1>2
      <4>3. /\ ChunksOK' /\ Len(gChunks'[w]) = Len(gChunks[w]) + 1
            /\ gChunks'[w][Len(gChunks[w]) + 1] = [base |-> a, size |-> InitialSize]
            /\ \A u \in Threads : u # w => gChunks'[u] = gChunks[u]
        <5>1. gSize' = [gSize EXCEPT ![w] = x]
          BY <3>4, <4>4
        <5>2. blocks' = blocks \cup {Block(w, a, InitialSize + ChunkHeader)} /\ InitialSize \in Nat
          BY <1>1, <3>1
        <5>3. x \in Nat \ {0} /\ x >= InitialSize
          BY <4>4
        <5>4. AllocTypeOK /\ ChunksOK
          BY <1>1
        <5> QED
          BY ZenonT(60), <3>3, <3>5, <4>1, <5>1, <5>2, <5>3, <5>4, ChunkAdded
      <4> QED
        BY <4>2, <4>3
    <3>7. /\ gStart'[w] = a + ChunkHeader /\ gFree'[w] = InitialSize /\ gCurrent'[w] = 1
          /\ \A u \in Threads : u # w =>
               gStart'[u] = gStart[u] /\ gFree'[u] = gFree[u] /\ gCurrent'[u] = gCurrent[u]
      BY <1>1, <3>1 DEF AllocTypeOK
    <3>8. CurrentOK'
      <4> SUFFICES ASSUME NEW u \in Threads
                   PROVE  IF gChunks'[u] = <<>> THEN gCurrent'[u] = 0
                          ELSE /\ gCurrent'[u] \in 1 .. Len(gChunks'[u])
                               /\ gChunks'[u][gCurrent'[u]].base + ChunkHeader <= gStart'[u]
                               /\ gStart'[u] + gFree'[u] <= Top(gChunks'[u][gCurrent'[u]])
        BY DEF CurrentOK
      <4>1. CASE u # w
        BY <1>1, <3>6, <3>7, <4>1 DEF CurrentOK
      <4>2. CASE u = w
        <5>1. gChunks'[w] # <<>>
          BY <3>6
        <5>2. /\ gChunks'[w][1].base = a
              /\ Top(gChunks'[w][1]) = a + ChunkHeader + InitialSize
          BY <3>6 DEF Top
        <5> QED
          BY <1>1, <3>6, <3>7, <4>2, <5>1, <5>2
      <4> QED
        BY <4>1, <4>2
    <3>9. GroupsIn'
      <4> SUFFICES ASSUME NEW b \in groups
                   PROVE  b.lo < b.hi /\ b.lo % Align = 0 /\ \E k \in Nat : Lies(b, k)'
        BY <3>1 DEF GroupsIn
      <4>1. PICK k \in Nat : Lies(b, k)
        BY <1>1 DEF GroupsIn
      <4>2. b.owner \in Threads /\ b.owner # w
        BY SMTT(30), <1>1, <3>2, <4>1 DEF Lies, AllocTypeOK, Piece
      <4>3. /\ gStart'[b.owner] = gStart[b.owner] /\ gCurrent'[b.owner] = gCurrent[b.owner]
            /\ gChunks'[b.owner] = gChunks[b.owner]
        BY <3>6, <3>7, <4>2
      <4>4. Lies(b, k)'
        BY <4>1, <4>3 DEF Lies, Top
      <4> QED
        BY <1>1, <4>4 DEF GroupsIn
    <3>10. GroupsDisjoint'
      BY <1>1, <3>1 DEF GroupsDisjoint, Apart
    <3> QED
      BY <3>6, <3>8, <3>9, <3>10 DEF SInv
  <2>3. CASE for = "group"
    <3> DEFINE m == Larger(gSize[w] * 2, bytes)
               cs == Append(gChunks[w], [base |-> a, size |-> m])
    <3>1. m \in Nat \ {0} /\ m >= 2 * InitialSize /\ m >= InitialSize
      BY <1>1, <1>2 DEF Larger
    <3>2. /\ blocks' = blocks \cup {Block(w, a, m + ChunkHeader)}
          /\ gSize' = [gSize EXCEPT ![w] = m]
          /\ gChunks' = [gChunks EXCEPT ![w] = Append(@, [base |-> a, size |-> m])]
          /\ InChunk(w, n, bytes, cs, Len(cs))
      BY <1>4, <2>3 DEF Deliver, Set
    <3>3. /\ gChunks[w] # <<>> /\ n \in Requests /\ bytes = n + Pad(gStart[w])
          /\ Needed(w, for, n, bytes) = m + ChunkHeader
      BY <2>3 DEF Proper, Needed
    <3>4. gChunks'[w] = cs
      BY <1>2, <3>2
    <3> HIDE DEF m, cs
    <3>5. /\ \A b \in blocks : b.hi <= a \/ a + (m + ChunkHeader) <= b.lo
          /\ m >= IF gChunks[w] = <<>> THEN InitialSize ELSE 2 * InitialSize
      BY <1>4, <3>1, <3>3
    <3>6. /\ ChunksOK' /\ Len(gChunks'[w]) = Len(gChunks[w]) + 1
          /\ \A l \in 1 .. Len(gChunks[w]) :
               l \in 1 .. Len(gChunks'[w]) /\ gChunks'[w][l] = gChunks[w][l]
          /\ \A u \in Threads : u # w => gChunks'[u] = gChunks[u]
      BY <1>1, <3>1, <3>2, <3>5, ChunkAdded
    <3>7. InChunk(w, n, n + Pad(gStart[w]), gChunks'[w], Len(cs))
      BY <3>2, <3>3, <3>4
    <3>8. Len(cs) \in 2 .. Len(gChunks'[w]) /\ Len(cs) > gCurrent[w]
      <4>1. Len(cs) = Len(gChunks[w]) + 1 /\ Len(gChunks'[w]) = Len(cs)
        BY <3>4, <3>6
      <4>2. gCurrent[w] \in 1 .. Len(gChunks[w]) /\ Len(gChunks[w]) \in Nat
        BY <1>1, <1>2, <3>3 DEF CurrentOK
      <4> QED
        BY <4>1, <4>2
    <3> QED
      BY <3>3, <3>6, <3>7, <3>8, InChunkKeeps
  <2> QED
    BY <2>1, <2>2, <2>3 DEF Proper
<1> QED
  BY <1>3, <1>4 DEF Served

\* The chunk that a request goes to is one behind the current one.
LEMMA FittingIn ==
  ASSUME NEW w \in Threads, NEW bytes \in Nat, Fitting(w, bytes) # 0, AllocTypeOK
  PROVE  Fitting(w, bytes) \in gCurrent[w] + 1 .. Len(gChunks[w])
<1> DEFINE ahead == {k \in gCurrent[w] + 1 .. Len(gChunks[w]) : gChunks[w][k].size >= bytes}
<1>1. ahead # {} /\ Fitting(w, bytes) = CHOOSE k \in ahead : \A l \in ahead : k <= l
  BY DEF Fitting
<1>2. ahead \subseteq Nat
  BY DEF AllocTypeOK
<1>3. \E k \in ahead : \A l \in ahead : k <= l
  BY <1>1, <1>2, LeastElement
<1> HIDE DEF ahead
<1>4. Fitting(w, bytes) \in ahead
  BY <1>1, <1>3
<1> QED
  BY <1>4 DEF ahead

-----------------------------------------------------------------------------
(* The theorems *)

LEMMA InitHolds == Init => IInv /\ AInv /\ SInv
<1> SUFFICES ASSUME Init
             PROVE  IInv /\ AInv /\ SInv
  OBVIOUS
<1>1. PoolInit /\ IInv
  BY PoolStarts DEF Init
<1>2. AllocTypeOK
  BY AllocatorsAssumption DEF Init, AllocTypeOK, NoCall
<1>3. /\ granted = {} /\ blocks = {} /\ groups = {}
      /\ \A w \in Threads : pc[w] = "idle" /\ call[w] = NoCall /\ aFree[w] = 0
      /\ \A w \in Threads : gChunks[w] = <<>> /\ gCurrent[w] = 0 /\ gSize[w] = InitialSize
  BY <1>1 DEF Init, PoolInit
<1>4. Waiting /\ Room
  BY <1>3 DEF Waiting, Waits, Room, RoomOf
<1>5. Numbered /\ Backed /\ BlocksDisjoint
  BY <1>3 DEF Numbered, Backed, BlocksDisjoint
<1>6. SInv
  BY <1>3, AllocatorsAssumption DEF SInv, ChunksOK, CurrentOK, GroupsIn, GroupsDisjoint
<1> QED
  BY <1>1, <1>2, <1>4, <1>5, <1>6 DEF AInv

LEMMA CallerFrame ==
  ASSUME NEW w \in Threads, AllocTypeOK,
         AllocateBuffer(w) \/ StoreSetSource(w) \/ StoreAllocate(w) \/ StoreReset(w)
  PROVE  call[w] = NoCall /\ calls' \in [Threads -> Nat]
<1>1. call[w] = NoCall /\ calls' = [calls EXCEPT ![w] = calls[w] + 1]
  BY DEF AllocateBuffer, StoreSetSource, StoreAllocate, StoreReset, Begin, Ready, Set
<1>2. calls \in [Threads -> Nat]
  BY DEF AllocTypeOK
<1> QED
  BY <1>1, <1>2

\* An allocation in the store, in its three branches.
LEMMA StoreAllocateStep ==
  ASSUME IInv, AInv, SInv, NEW w \in Threads, StoreAllocate(w)
  PROVE  AInv' /\ SInv'
<1>1. AllocTypeOK /\ call[w] = NoCall /\ calls' \in [Threads -> Nat] /\ gChunks[w] # <<>>
  BY CallerFrame DEF AInv, StoreAllocate
<1>2. PICK n \in Requests :
        LET bytes == n + Pad(gStart[w])
            k == Fitting(w, bytes)
        IN  IF gFree[w] >= bytes
            THEN /\ Bump(w, n, gStart[w], gFree[w], bytes)
                 /\ UNCHANGED <<gSize, gChunks, gCurrent, poolVars, allocVars, call, blocks>>
            ELSE IF k # 0
            THEN /\ InChunk(w, n, bytes, gChunks[w], k)
                 /\ UNCHANGED <<gSize, gChunks, poolVars, allocVars, call, blocks>>
            ELSE AllocatorCall(w, "group", n, bytes)
  BY DEF StoreAllocate
<1>3. n \in Nat \ {0} /\ gStart[w] \in Nat /\ gFree[w] \in Int /\ gCurrent[w] \in Nat
  BY <1>1, AllocatorsAssumption DEF AllocTypeOK
<1>4. PICK p \in Nat : p = Pad(gStart[w])
  BY <1>3, PadFacts
<1> DEFINE bytes == n + p
<1>5. bytes \in Nat
  BY <1>3
<1>6. CASE gFree[w] >= bytes
  <2>1. /\ Bump(w, n, gStart[w], gFree[w], n + Pad(gStart[w]))
        /\ UNCHANGED <<gSize, gChunks, gCurrent, poolVars, allocVars, call, blocks>>
    BY <1>2, <1>4, <1>6
  <2>2. PICK g \in Nat, e \in Int : g = gStart[w] /\ e = gFree[w]
    BY <1>3
  <2>3. /\ gStart' = [gStart EXCEPT ![w] = g + bytes] /\ gStart' \in [Threads -> Nat]
        /\ gFree' \in [Threads -> Int] /\ groups' \subseteq Piece
    <3>1. Bump(w, n, g, e, bytes) /\ n \in Nat
      BY <1>3, <1>4, <2>1, <2>2
    <3>2. PICK used \in Nat : used = bytes
      BY <1>5
    <3>3. Bump(w, n, g, e, used)
      BY <3>1, <3>2
    <3>4. /\ gStart' = [gStart EXCEPT ![w] = g + used] /\ gStart' \in [Threads -> Nat]
          /\ gFree' \in [Threads -> Int] /\ groups' \subseteq Piece
      BY <1>1, <3>1, <3>3, BumpFacts
    <3> QED
      BY <3>2, <3>4
  <2>4. /\ gCurrent' \in [Threads -> Nat] /\ \A u \in Threads : u # w => gStart'[u] = gStart[u]
    BY <1>1, <2>1, <2>3 DEF AllocTypeOK
  <2>5. AInv'
    BY <1>1, <2>1, <2>3, <2>4, StoreKeepsA
  <2>6. SInv'
    BY <1>1, <1>4, <1>6, <2>1, <2>5, BumpKeeps
  <2> QED
    BY <2>5, <2>6
<1>7. CASE ~(gFree[w] >= bytes) /\ Fitting(w, bytes) # 0
  <2> DEFINE k == Fitting(w, bytes)
  <2>1. /\ InChunk(w, n, bytes, gChunks[w], k)
        /\ UNCHANGED <<gSize, gChunks, poolVars, allocVars, call, blocks>>
    BY <1>2, <1>4, <1>7
  <2>2. k \in gCurrent[w] + 1 .. Len(gChunks[w])
    BY <1>1, <1>5, <1>7, FittingIn
  <2> HIDE DEF k
  <2>3. gCurrent[w] >= 1 /\ Len(gChunks[w]) \in Nat
    BY <1>1 DEF AInv, SInv, CurrentOK, AllocTypeOK
  <2>4. k \in 2 .. Len(gChunks[w]) /\ k > gCurrent[w] /\ k \in 1 .. Len(gChunks[w])
    BY <1>3, <2>2, <2>3
  <2>5. ChunksTyped /\ ChunkHeader \in Nat
    BY <1>1, ChunksAreTyped, AllocatorsAssumption
  <2>6. PICK from \in Nat, z \in Nat : from = gChunks[w][k].base + ChunkHeader /\ z = gChunks[w][k].size
    BY <2>4, <2>5 DEF ChunksTyped
  <2>7. PICK q \in Nat : q = Pad(from)
    BY PadFacts
  <2>8. /\ gCurrent' = [gCurrent EXCEPT ![w] = k]
        /\ Bump(w, n, from, z, bytes + q)
    BY <2>1, <2>6, <2>7 DEF InChunk, Set
  <2>9. /\ gStart' = [gStart EXCEPT ![w] = from + (bytes + q)] /\ gStart' \in [Threads -> Nat]
        /\ gFree' \in [Threads -> Int] /\ groups' \subseteq Piece
    <3>1. bytes + q \in Nat
      BY <1>5
    <3> QED
      BY <1>1, <1>3, <2>8, <3>1, BumpFacts
  <2>10. /\ gCurrent' \in [Threads -> Nat] /\ \A u \in Threads : u # w => gStart'[u] = gStart[u]
    BY <1>1, <2>4, <2>8, <2>9 DEF AllocTypeOK
  <2>11. AInv'
    BY <1>1, <2>1, <2>9, <2>10, StoreKeepsA
  <2>12. InChunk(w, n, n + Pad(gStart[w]), gChunks'[w], k) /\ k \in 2 .. Len(gChunks'[w])
    BY <1>4, <2>1, <2>4
  <2>13. ChunksOK'
    BY <2>1 DEF SInv, ChunksOK, Top
  <2>14. /\ \A u \in Threads : u # w => gChunks'[u] = gChunks[u]
         /\ \A l \in 1 .. Len(gChunks[w]) : l \in 1 .. Len(gChunks'[w]) /\ gChunks'[w][l] = gChunks[w][l]
    BY <2>1
  <2>15. SInv'
    BY <1>1, <2>4, <2>11, <2>12, <2>13, <2>14, InChunkKeeps
  <2> QED
    BY <2>11, <2>15
<1>8. CASE ~(gFree[w] >= bytes) /\ Fitting(w, bytes) = 0
  <2>1. AllocatorCall(w, "group", n, bytes)
    BY <1>2, <1>4, <1>8
  <2>2. Proper(w, "group", n, bytes)
    BY <1>1, <1>4 DEF Proper
  <2>3. AInv' /\ Served(w, "group", n, bytes)
    BY <1>1, <1>3, <1>5, <2>1, <2>2, CallKeepsA
  <2> QED
    BY <1>3, <1>5, <2>2, <2>3, ServedKeeps
<1> QED
  BY <1>6, <1>7, <1>8

\* A step of a worker.
LEMMA WorkerStep ==
  ASSUME IInv, IInv', AInv, SInv, NEW w \in Threads, Worker(w)
  PROVE  AInv' /\ SInv'
<1>1. CASE Pool(w)
  <2>1. UNCHANGED <<storeVars, blocks, groups>>
    BY <1>1 DEF Pool
  <2> QED
    BY <1>1, <2>1, PoolKeepsA, SameStores
<1>2. CASE SetSource(w) \/ SourceSet(w)
  <2>1. UNCHANGED <<storeVars, blocks, groups>>
    BY <1>2 DEF SetSource, SourceSet
  <2> QED
    BY <1>2, <2>1, SourceKeepsA, SameStores
<1>3. CASE Refilled(w)
  <2>1. LET c == call[w]
        IN  /\ AInv' /\ Served(w, c.for, c.n, c.size)
            /\ Proper(w, c.for, c.n, c.size) /\ c.n \in Nat /\ c.size \in Nat
    BY <1>3, RefilledKeepsA
  <2> QED
    BY <2>1, ServedKeeps
<1>4. AllocTypeOK /\ Requests \subseteq Nat
  BY AllocatorsAssumption DEF AInv
<1>5. CASE AllocateBuffer(w)
  <2>1. PICK n \in Requests : AllocatorCall(w, "query", n, 0)
    BY <1>5 DEF AllocateBuffer
  <2>2. Proper(w, "query", n, 0) /\ n \in Nat
    BY <1>4 DEF Proper
  <2>3. AInv' /\ Served(w, "query", n, 0)
    BY <1>4, <1>5, <2>1, <2>2, CallerFrame, CallKeepsA
  <2> QED
    BY <2>2, <2>3, ServedKeeps
<1>6. CASE StoreSetSource(w)
  <2>1. AllocatorCall(w, "store", 0, 0) /\ Proper(w, "store", 0, 0)
    BY <1>6 DEF StoreSetSource, Proper
  <2>2. AInv' /\ Served(w, "store", 0, 0)
    BY <1>4, <1>6, <2>1, CallerFrame, CallKeepsA
  <2> QED
    BY <2>1, <2>2, ServedKeeps
<1>7. CASE StoreAllocate(w)
  BY <1>7, StoreAllocateStep
<1>8. CASE StoreReset(w)
  <2>1. /\ call[w] = NoCall /\ calls' \in [Threads -> Nat]
        /\ UNCHANGED <<poolVars, allocVars, call, blocks, gSize, gChunks>>
        /\ gChunks[w] # <<>>
        /\ gStart' = [gStart EXCEPT ![w] = gChunks[w][1].base + ChunkHeader]
        /\ gFree' = [gFree EXCEPT ![w] = gChunks[w][1].size]
        /\ gCurrent' = [gCurrent EXCEPT ![w] = 1]
        /\ groups' \subseteq groups
    BY <1>4, <1>8, CallerFrame DEF StoreReset, Set
  <2>2. 1 \in 1 .. Len(gChunks[w])
    BY <1>4, <2>1 DEF AllocTypeOK
  <2>3. ChunksTyped /\ ChunkHeader \in Nat
    BY <1>4, ChunksAreTyped, AllocatorsAssumption
  <2>4. PICK s \in Nat, f \in Nat : s = gChunks[w][1].base + ChunkHeader /\ f = gChunks[w][1].size
    <3>1. gChunks[w][1].base \in Nat /\ gChunks[w][1].size \in Nat
      BY <2>2, <2>3 DEF ChunksTyped
    <3>2. gChunks[w][1].base + ChunkHeader \in Nat
      BY <2>3, <3>1
    <3> QED
      BY <3>1, <3>2, Zenon
  <2>5. /\ gStart' \in [Threads -> Nat] /\ gFree' \in [Threads -> Int]
        /\ gCurrent' \in [Threads -> Nat] /\ groups' \subseteq Piece
        /\ \A u \in Threads : u # w => gStart'[u] = gStart[u]
    <3>1. gStart' = [gStart EXCEPT ![w] = s] /\ gFree' = [gFree EXCEPT ![w] = f]
      BY <2>1, <2>4
    <3>2. gStart \in [Threads -> Nat] /\ gFree \in [Threads -> Int] /\ gCurrent \in [Threads -> Nat]
          /\ groups \subseteq Piece
      BY <1>4 DEF AllocTypeOK
    <3>3. gStart' \in [Threads -> Nat] /\ \A u \in Threads : u # w => gStart'[u] = gStart[u]
      BY <3>1, <3>2
    <3>4. gFree' \in [Threads -> Int] /\ gCurrent' \in [Threads -> Nat]
      BY <2>1, <3>1, <3>2
    <3> QED
      BY <2>1, <3>2, <3>3, <3>4
  <2>6. AInv'
    BY <2>1, <2>5, StoreKeepsA
  <2> QED
    BY <1>8, <2>6, ResetKeeps
<1> QED
  BY <1>1, <1>2, <1>3, <1>5, <1>6, <1>7, <1>8 DEF Worker

\* The global pool keeps its promise to the allocators too, whatever they ask
\* for at a time (common/runtime/MemoryPool.hpp, 78-220): its inductive
\* invariant, what may still be given out of each piece, and the stores.
THEOREM AllocatorsInductive == Spec => [](IInv /\ AInv /\ SInv)
<1>1. IInv /\ AInv /\ SInv /\ [Next]_vars => (IInv /\ AInv /\ SInv)'
  <2> SUFFICES ASSUME IInv, AInv, SInv, [Next]_vars
               PROVE  (IInv /\ AInv /\ SInv)'
    OBVIOUS
  <2>1. IInv'
    BY PoolPreserved DEF AInv
  <2>2. ASSUME NEW w \in Threads, Worker(w)
        PROVE  AInv' /\ SInv'
    BY <2>1, <2>2, WorkerStep
  <2>3. CASE UNCHANGED vars
    <3>1. UNCHANGED <<poolVars, allocVars, storeVars, call, calls, blocks, groups>>
      BY <2>3 DEF vars
    <3>2. UNCHANGED <<aStart, aFree, aSize, gStart, gFree, gSize, gChunks, gCurrent, call, calls,
                      blocks, groups, pc, size, start_, served, granted>>
      BY <3>1 DEF allocVars, storeVars, poolVars, history
    <3>3. AllocTypeOK' /\ Waiting' /\ Numbered' /\ Room'
      BY <3>2 DEF AInv, AllocTypeOK, Waiting, Waits, Proper, Needed, Numbered, Room, RoomOf, Unused
    <3>4. AInv'
      BY <3>2, <3>3, SameBlocks DEF AInv
    <3>5. SInv'
      BY <3>1, SameStores
    <3> QED
      BY <2>1, <3>4, <3>5
  <2> QED
    BY <2>1, <2>2, <2>3 DEF Next
<1> QED
  BY <1>1, InitHolds, PTL DEF Spec

\* What the pool grants the allocators of the workers lies apart, inside its
\* chunks (common/runtime/MemoryPool.hpp, 97-133).
THEOREM GrantsLie == Spec => []GrantsApart
<1> QED
  BY AllocatorsInductive, GrantsLieApart, PTL

\* What the operators of all workers hold is theirs alone, aligned, and backed
\* by memory (common/runtime/MemoryPool.hpp, 136-220).
THEOREM BlocksAlone == Spec => []BlocksApart
<1>1. AInv /\ SInv => BlocksApart
  <2> SUFFICES ASSUME AInv, SInv
               PROVE  BlocksApart
    OBVIOUS
  <2>1. \A a, b \in blocks : a # b => Apart(a, b)
    BY DEF AInv, BlocksDisjoint
  <2>2. \A a \in blocks : \E g \in granted : g.owner = a.owner /\ g.lo <= a.lo /\ a.hi <= g.hi
    BY DEF AInv, Backed, Within
  <2>3. \A a, b \in groups : a # b => Apart(a, b)
    BY DEF SInv, GroupsDisjoint
  <2>4. ASSUME NEW a \in groups
        PROVE  \E k \in DOMAIN gChunks[a.owner] :
                 LET c == gChunks[a.owner][k]
                 IN  c.base + ChunkHeader <= a.lo /\ a.hi <= c.base + ChunkHeader + c.size
    <3>1. PICK k \in Nat : Lies(a, k)
      BY DEF SInv, GroupsIn
    <3>2. a.owner \in Threads /\ gChunks[a.owner] \in Seq(StoreChunk)
      BY DEF AInv, AllocTypeOK, Piece
    <3>3. DOMAIN gChunks[a.owner] = 1 .. Len(gChunks[a.owner])
      BY <3>2
    <3> QED
      BY <3>1, <3>3 DEF Lies, Top
  <2>5. \A a \in blocks \cup groups : a.lo % Align = 0
    BY DEF AInv, Backed, SInv, GroupsIn
  <2> QED
    BY <2>1, <2>2, <2>3, <2>4, <2>5 DEF BlocksApart
<1> QED
  BY <1>1, AllocatorsInductive, PTL
=============================================================================
