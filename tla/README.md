# Verification of db-engine-paradigms

The repository compares and combines two ways of executing analytical queries
on a main-memory column store: *Tectorwise*, a vectorized interpreter
(`src/vectorwise`), and *Typer*, compiled code (`include/hyper` and the
generated code of `src/hybrid`). A hybrid query starts in Tectorwise while its
Typer version is being linked, and goes on in Typer. This directory holds TLA+
models of the parts of the system where a test reaches little: barriers, shared
scans, whole plans run by a group of workers, concurrent hash tables,
continuations of operators, grouping in two phases by either engine, memory
pools, the import of tables with its cache, and the handoff from one engine to
the other.

Paths below are relative to the repository. `PROJECT.json` lists the components,
the runs, the source lines that each definition stands for, the hazards, and
the theorems; `X.cfg` configures the run of that name.

## The system

| Component | State | Operations | Who calls it, and what it shares |
|---|---|---|---|
| `Barrier`, `HierarchicBarrier` (`include/common/runtime/Barrier.hpp`) | arrival counter, wrapping round number, parent | `wait(finalizer)` | every operator with phases, through `barrier()`; all workers of a group |
| `WorkerGroup`, `Worker`, `thread_specific` (`Concurrency.hpp`) | threads, `this_worker`, current barrier | `run` | query entry points; TBB tasks, pinned to cores |
| `Scan` (`src/vectorwise/Operators.cpp`) | per worker: chunk, offset, column pointers; shared: `pos` | `next`, `addConsumer` | pulled by the operators above; workers share `pos` |
| `Hashjoin` | entries of the build side, continuation; shared: `found`, hash table | `next`, the `join*` functions | pulls both children; two barriers during the build |
| `HashGroup` | group table, entries, continuation; shared: spill storages, `partition` | `next`, `findGroups`, `createMissingGroups` | pulls its child; one barrier between the phases |
| `Select`, `Project`, `FixedAggr`, `ResultWriter` | little; result blocks are shared | `next` | the plans |
| `Hashmap` (`Hashmap.hpp`) | directory of tagged pointers, chains | `setSize`, `insert(_tagged)`, `find_chain(_tagged)`, `clear` | `Hashjoin` (concurrent inserts), `HashGroup` (private) |
| `Hashmapx`, `Hashset` | as `Hashmap`, typed | `findOrCreate`, `findOne`, `insertAll` | Typer |
| `PartitionedDeque`, `Stack`, `HashmapSmall` | chunks by upper hash bits | `push_back`, `size`, `clear` | spilling, `partition_by_key` |
| `GlobalPool`, `Allocator`, `ResetableAllocator` (`MemoryPool`) | chunks, bump pointers | `allocate`, `reset`, `setSource` | every allocation of a worker; the pool is shared |
| `SharedStateManager`, `QueryBuilder` | map from operator number to shared state | `get`, `once`, building of plans | each worker builds its own plan; equal numbers make operators share state |
| primitives (`Primitives.hpp`) | none | selection, hash, gather, scatter, partition | expressions of the operators |
| `GroupBy` (`include/hyper/GroupBy.hpp`) | thread-local tables and spill storages | `consume`, `spillAll`, `forallGroups` | Typer queries, on TBB loops |
| hybrid queries (`q1.cpp`, `q6.cpp`, `q18.cpp`, `src/hybrid`) | `typerLib`, `processedTuples`, results | `q*_hybrid`, generated code | compilation thread, worker group, caller |
| query plans (`src/benchmarks`) | none beyond the operators | one function per query and engine | benchmark drivers, tests |
| `Types` (`Types.cpp`, `Types.hpp`, `String.cpp`) | none | casts, printing, comparison, search | import, results |
| `Import`, `Mmap`, `Database` | column files, mapped columns, result blocks | `parseColumns`, `readBinary`, `writeBinary`, `createBlock` | the drivers; later runs of the program find the files |

What is hard here: workers run the same plan with private operator objects that
meet only in a few atomics and barriers, and read each other's memory without
locks in between; operators are coroutines by hand, whose `next()` goes on from
a saved continuation; all sizes (vectors, chunks, buffers, tables) have
boundaries that data reach rarely; and a hybrid query may switch engines at
any moment. What makes a component correct:

- barrier: nobody overtakes, the finalizer runs once and alone, one leader, and
  every `wait` returns, although the counter is reused at once and the round
  number wraps;
- scan: each row is given to one worker, once;
- join: every pair of the answer once, whatever the interleaving of insertions
  and wherever the output buffers fill up;
- grouping: one row per group with each tuple in it once, whatever is flushed
  when, and whatever hashes collide;
- hybrid query: the answer is that of the query, whenever the library arrives;
- allocators: no two allocations overlap, none reaches beyond its chunk;
- plans: what is selected, projected, aggregated and written is the same
  tuples, whatever vector goes to whom;
- import: what a run loads is what the text file says, whatever earlier runs
  left in the cache.

## Modules

| Module | Models | State and actions |
|---|---|---|
| `Rendezvous` | what a barrier promises | `Enter`, `Finalize`, `Trip`; no code |
| `Barrier` | `Barrier::wait` | one action between two accesses to `cntr` and `round`: `Enter` (load of the round), `Arrive` (fetch_sub), `Reset`, `Finalize`, `Release`, `Leave` |
| `HierarchicBarrier` | `create`, `HierarchicBarrier::wait`, the assignment of workers to leaves | the actions of `Barrier` at the barrier a thread is at; `Climb` is the finalizer of an inner barrier |
| `Scan` | `Scan::Scan`, `Scan::next` | `NextInChunk`, `NextChunk` (with the fetch_add), `Advance`; `taken` counts what was given out |
| `Query` | a plan of `Scan`, `Select`, `Project` and `FixedAggr` or `ResultWriter`, from its building by each worker to the result | EXTENDs `Scan`; `AddInput` (with the barrier of `addValue`), `Start`, `PullVector`, `Process`, `AddAggregate`, `AddFound`, `Leave`; `Finalize`, `Trip`; the blocks of `BlockRelation` |
| `Primitives` | `vectorwise::primitives`: selection in its three forms, projection, aggregation, hashing, gather, scatter, comparison of keys, `partition_by_key` | operators of a vector's inputs and of the buffer that is written |
| `HashmapSmall` | `runtime::HashmapSmall` | operators: `NewMap`, `FindFirst`, `Insert` with growth, `ClearMap` |
| `HybridQ6` | `q6_hybrid` and its generated code | EXTENDs `Scan`; `Link`, per worker `ChildNext` (with `Select`), `CheckLib`, `Evaluate`, `CountVector`, `StoreSum`; `Handoff`, `Typer` |
| `Hashmap` | `setSize` | `CapacityFor`, `MaxFillFor` |
| `HashBuild` | build side of `Hashjoin::next`, `insert_tagged` | `Materialize` ... `LeaveBarrier`, `LoadSlot`, `CompareExchange`, `InsertEnds`; INSTANCEs `Rendezvous` |
| `ProbeSide` | probe side of `Hashjoin::next`, and what `HashJoinBuilder` puts together for it | `PullVector`, `Continue`, `Return` with the comparison of the keys and the gathering of values; EXTENDed by the next |
| `JoinProbe` | `joinAll`, `joinSel`, `joinAllParallel`, `joinSelParallel`, `joinBoncz` | one action per entry of a chain for the first two, per pass, round and followup for the others |
| `HashGroup` | `HashGroup::next` | phase 1: `Consume`, `ConsumeEnds`; `EnterBarrier`, `LeaveBarrier`; phase 2: `Claim`, `Aggregate`, `Emit`, `ClearTable`; INSTANCEs `Rendezvous` |
| `GroupLookup` | `findGroups`, `createMissingGroups`, `updateGroups`, `gatherGroups`, and what `HashGroupBuilder` puts together | one action per primitive, `HtFollow` one per tuple; `CreateMissingGroups` with the partitioning and the resizing; EXTENDs `Primitives` |
| `Containers` | `Stack`, `PartitionedDeque` | operators on both, by chunks |
| `GroupBy` | Typer's `GroupBy` and the code generated for Q1, with the merge of the tables that the vectorized half leaves | tasks of the parallel loops: `ScanRow`, `MergeTable`, `MergePartition`, `Find` and `Update` (`findOrCreate` and what follows it), `SpillAll`, `Aggregate`; `EndScan`, `EndMerge`, `EndSpill`, `Return` of the calling thread |
| `GlobalPool` | `GlobalPool::allocate`, `newChunk` | one action between two accesses to `start`, `end` and the mutex: `LoadStart` ... `Take`, `Return` |
| `Allocators` | `Allocator`, `ResetableAllocator` on top of the pool | EXTENDs `GlobalPool`; `SetSource`, `AllocateBuffer`, `StoreSetSource`, `StoreAllocate`, `StoreReset`, `Refilled` |
| `Types` | casts from text, printing and comparison of `Integer`, `Numeric`, `Date`, `Timestamp` with its null, `Char`, `Char<1>`, `Varchar`; `memmemSSE`, `SmallStringView` | operators on sequences of characters |
| `Import` | `parseColumns`, `readBinary`, `writeBinary` | EXTENDs `Types`; `Start`, `MakeDir`, `CheckFiles`, `Parse`, `OpenFile`, `AllocateFile`, `CopyRow`, `CloseFile`, `ReadColumn`; `Kill`, and `RemoveText` between two runs |
| `RuntimeProofs`, `HierarchicBarrierProofs`, `OperatorProofs`, `AllocatorsProofs`, `HashGroupProofs`, `HashBuildProofs`, `GroupByProofs` | | theorems: `RuntimeProofs` about `Barrier` and `Import`, `OperatorProofs` about `Query`, `Scan`, which it extends, `JoinProbe` and `HybridQ6`, `AllocatorsProofs` about `Allocators` and `GlobalPool`, which it extends, the others about the module each is named after |
| `NaturalFacts` | | lemmas that these share: a least element, induction over a set of numbers, the values of a recursive function, sums of a sequence of numbers, powers of two, the capacity of a table |
| `MC...` | | inputs of the runs that a cfg cannot write |

Composition. A join, a grouping and a plan use the barrier by its promise:
`HashBuild`, `HashGroup` and `Query` INSTANCE `Rendezvous`, and that `Barrier`
and `HierarchicBarrier` implement `Rendezvous` is checked and proved. `HybridQ6` and `Query` run the actions of `Scan` themselves, and the
operators of `Query` evaluate the primitives of `Primitives`, which
`GroupLookup` and `ProbeSide` use as well. `JoinProbe` begins with any table
that `HashBuild` can leave behind (`FrozenWhileProbed` says that it then rests).
`HashGroup` takes the lookup of groups to be right, which is the subject of
`GroupLookup`. The allocators of `Allocators` call the steps of `GlobalPool`.

Abstractions. An aggregate is modelled by what went into it, so that a sum
tells which tuples it has: a function from tuples to how often each was added,
or a number to which each adds a power of its own; in `Query` the sums are the
plans' own. A key or a row is a number or a short sequence of them; a hash is
a number whose low part is the slot and whose high part is the tag, and hash
functions are given functions of a value and a seed, with and without
collisions. Calls that touch no shared state are one step with the shared
access before or after them. The memory model is sequential consistency: the
atomics use the default ordering where workers synchronize, and the relaxed
loads of `find_chain_tagged` and `find_chain` come after a barrier or are of
private tables. A spurious failure of `compare_exchange_weak` changes nothing
and is left out.

Definitions whose comment begins with *Faulty variant* are not part of the
models. Each is a definition of the model with one plausible bug; put in its
place it breaks the property it is listed with in `PROJECT.json`, which shows
that the property can fail at all.

## Runs

| Run | Instance | Shows |
|---|---|---|
| `Barrier` | 4 threads, 3 phases, round number of 2 values | `FinalizerAlone`, `NoOvertaking`, `ImplementsRendezvous`, `AllReturn` |
| `HierarchicBarrier` | 5 threads in groups of 2: three levels, a leaf of one thread | `OneLeaderPerPhase`, `ImplementsRendezvous`, `AllReturn` |
| `Query` | 2 workers, 13 rows in vectors of 3 and chunks of 2 vectors; five plans (Q6, the expressions of Q1, comparisons of columns, a sum and a count through a selection vector), three tables, selections and projections in their branching, branch-free and AVX-512 forms | `NoRowTwice`, `NoRowLost`, `PointersInStep` of the scan, `ResultExact`, `BlocksWhole`, `QueryEnds` |
| `HybridOneWorker` | 1 worker, all selections with a row in each vector, linking succeeds or fails | `EachTupleOnce` |
| `HybridTwoWorkers` | 2 workers, all rows qualify | `EachTupleOnce` is **violated** |
| `HashBuild` | 3 workers, 3 tuples or none, hashes that share slots or tags | `LookupComplete`, `SizedInTime`, `NothingDisplaced`, `FrozenWhileProbed`, `BuildCompletes` |
| `JoinProbe` | all tables of 4 and probe sides of 3 tuples, keys of two columns of which two collide, vectors of up to 3, with and without a selection vector, all five join functions | `JoinExact`, `BuffersHold`, `JoinEnds` |
| `HashGroup` | 2 workers, 4 tuples, 3 groups in 2 partitions, flushes from the second group on | `GroupsExact`, `PartitionsApart`, `SpillFrozen`, `GroupingEnds` |
| `GroupLookup` | 2 vectors of up to 3 tuples, keys of one and of two columns, hashes with and without collisions, with and without a selection vector and resizing | `GroupsSeparateByHash`, `ResultComplete`, `PartitionsExact`, `LookupsEnd` |
| `Memory` | 2 workers with their allocators on one pool, 5 calls, requests that fit and that need a new chunk, chunks above and below each other | `GrantsApart`, `BlocksApart` |
| `GroupBy` | 2 threads, 4 rows, tables that spill at 2 groups and grow, two vectorized tables of which all, some or no rows come | `GroupsExact`, `TableHoldsEntries`, `SomeDeque`, `GroupByEnds` |
| `Import` | tables of 2 columns and 2 rows of each type at the edges of its range, 4 starts of the program, killed anywhere, with the directory writable or not and the text there, gone at first or removed between two starts | `LoadedExact`, `RerunSucceeds`, `PrintedExact`, `StringsExact` |

Two runs stop by design and do not look for deadlocks: in `Memory` the calls
are bounded, and in `Import` the starts of the program.

### Bounds

- `MaxWaits` (barriers): 3 phases. With a round number of two values the third
  phase reuses the number of the first, which a thread that still spins in the
  first could confuse; the code has 256 values, and the proof covers any number.
- `Fan` of the tree is 2 where the code has 8, so that five threads make a tree
  of three levels with a partly filled barrier at each of the lower two.
- `Query`: 13 rows in vectors of 3 and chunks of 2 vectors; the relation ends
  inside a vector, and chunks taken lie past it. `minBlockSize` is 2, so that
  a vector may be larger than the smallest block. SIMD registers have 2 lanes
  (`Lanes`), so that a vector has a full one and a rest. `MaxValues` bounds the
  attributes of a result at 2; one table selects nothing in the queries.
- `HybridQ6` has 5 rows in 3 vectors and 2 chunks.
- `HashBuild`: three entries are enough for a slot with two competing inserts
  above a third; `BuildSides` has the empty side for the early return. Equal
  tuples are told apart only by their hashes, so `AscendingHashes` takes one
  of each order.
- `JoinProbe`: chains of up to 4 entries with vectors of 3, so that a call may
  end in the middle of a chain, at its end, between two rounds, and with a ring
  that wraps.
- `HashGroup`: four tuples in vectors of up to two; a worker can flush before,
  between and after vectors.
- `GroupLookup` (`MaxVectors`): the table is made for one entry, so that a
  resize happens at the second and the third group, and the map of the
  partitioning starts with two slots. Three keys in one chain.
- `Memory` (`MaxCalls`): five calls of both workers together are enough to fill
  a store's first chunk, take a second, reset it and use both again while the
  other worker refills the pool. The larger request is at the limit of the
  assumption `RequestsFit`, beyond which the code fails (see below).
- `GroupBy`: a stack's first chunk and a deque's chunks hold one entry, so that
  each further entry is in another chunk; the hash has 3 bits.
- `Import` (`MaxRuns`): a run may be killed at most three times before the last.
  An `Integer` has 8 bits, a `Numeric` 18, a register of `memmemSSE` 3
  characters, so that the edges of the widths and a needle across two blocks
  are among the values.

### Fairness

A worker is a thread of its own, pinned to a core (`Concurrency.hpp:95`), so
each worker's steps are weakly fair; a worker that spins in a barrier takes no
step of the model. A barrier as `Rendezvous` is fair because `Barrier` lets
every thread return (`AllReturn`). `Query` needs less: a query whose workers
make some step as long as there is one ends (`WF_vars(Step)`). In `HybridQ6`
linking ends, because the compiler it runs does. `JoinProbe` and `GroupLookup`
model a single worker that keeps running. The tasks of `GroupBy` run on TBB,
which does not leave a task to a thread for ever: each thread, and the one that
waits for the loops, is weakly fair. `Memory` and `Import` state no liveness: an
allocation may fail its compare-exchange as long as others succeed, and a
program may be killed each time. No strong fairness is assumed anywhere. That
the task scheduler has as many threads as the group has workers is assumed:
`run.cpp:81` asks for it.

### What the code does otherwise than it says

One run shows a violated property, and properties of passing runs are stated
with an exception where the code has one. `PROJECT.json` lists them under
"findings", with the lines.

- Hybrid handoff (`HybridTwoWorkers`). The code counts the tuples that
  Tectorwise has processed and has Typer begin at that number. The tuples
  processed are a prefix only with one worker and if no vector is skipped by
  the selection. `HybridOneWorker` shows that in this case the handoff is exact,
  and `HybridExact` proves it.
- `joinAll`, `joinSel` (`JoinExact`, `JoinEnds`). The continuation cannot tell
  "the chain ended with the buffer" from "no chain was interrupted", so pairs
  are returned again. No query uses these two now (`config.cpp:90-105`).
- `htFollow` (`GroupsSeparateByHash`, `ResultComplete`). It records the loop
  variable instead of the tuple, and nothing when a chain ends. As long as no
  two group keys have the same hash this code never runs.
- `partition_by_key` (`PartitionsExact`). With keys of several columns, and so
  many of them in one vector that the map grows between the two passes, the
  second pass may not find what the first one counted.
- `ResetableAllocator` (assumption `RequestsFit`). A request of more than twice
  the last chunk gets one without space for the padding, and `free` wraps.
- Import (`RerunSucceeds`, `LoadedExact`). The test of `mkdir` is inverted, so
  that the first run in a new directory throws (`fresh`); a run killed while it
  writes a column leaves a file of the full size with zeros in it, which later
  runs take for complete (`torn`). That a text that is gone, or a directory that
  cannot be written to, stops a run is no disagreement: `RerunSucceeds` admits it,
  but only when a column file is missing.
- Seen while modelling, without a property: the padding of the rows of phase 2
  (`QueryBuilder.cpp:534`), `NULL` timestamps that print a date as well
  (in the code and in `TimestampPrint`),
  `Varchar == char*` that compares a prefix, and a row count that `q6_vectorwise`
  leaves uninitialized if no row qualifies.

Three hazards of the code are these disagreements themselves, and no property is
named for them: colliding hashes in `findGroups` (but for `LookupsEnd`), a torn
column file, and the tables shared below.

`GroupsExact` of `GroupBy` is stated for runs in which no two threads are
inside one table (`shared`). The code takes the table from the outer loop's
thread and fills it in an inner parallel loop, whose tasks another thread may
steal; whether one does depends on the scheduler.

## Proofs

The theorems hold for every value of the constants, under the assumptions in
the modules only: `BarrierAssumption` and `HierarchicBarrierAssumption` (finitely
many threads, at least one, a round number of at least two values, and a tree
whose nodes have at least two children), `ScanAssumption` (finitely many
workers, at least one, and vectors of at least one row), `PoolAssumption` and
`AllocatorsAssumption` (sizes, headers and addresses are numbers, and sizes are
not 0) with `RequestsFit`, `HashGroupAssumption` and `HashBuildAssumption` (the
kinds of the constants), `GroupByAssumption` and `ContainersAssumption`
(finitely many threads and tables, chunks of at least one entry, and fewer
partitions than hash values, which has to be so for the shift of
`PartitionedDeque` to be one), `PrimitivesAssumption` and `QueryAssumption`
(registers of at least one lane, loops of the three forms, plans whose selections
are primitives of a `Select`, and values of at least one byte),
`ProbeSideAssumption` and `JoinProbeAssumption` (two keys differ in one of their
columns, selection vectors are ascending, and the ring of followups has one more
slot than a vector has tuples, as the builder makes it), and `ImportAssumption` (a
table has columns, all of them as many rows, and at least one). TLC evaluates
them in the runs of these modules. Two theorems about `Import` have a hypothesis
on the tables: `TextsCastable`, which `MCImport` assumes as well, so that TLC
evaluates it for the tables of the run, and `CastsExact`, which `LoadedExact`
comes to for them.

*Barrier.* `NoOvertaking` and `FinalizerAlone` are not inductive: that the last
thread finds all others waiting depends on what `cntr` counts. `IInv` adds
that a thread's place and its `prevRound` tell how many phases it has entered
(`PhaseInv`), that `cntr` is what is missing to `threadCount` waiting threads
(`CountInv`), and when the finalizer has run (`FinalizedInv`). The step that
needs it is `Release`: every waiting thread becomes one that still spins in an
old round, and none can be in an older one, so a round number of two values
would be enough. From `IInv`: `TypeCorrect`, `FinalizerRunsAlone`,
`NobodyOvertakes`, and `RefinesRendezvous`, a step simulation in which
`Arrive`, `Reset` and `Leave` stutter.

*HierarchicBarrier.* Thread `t` goes up level by level, in `slot[l][t]` of
level `l`; the leader of a barrier is the last that arrives there, and its
finalizer is the `wait` of the parent. What the invariant `IInv` needs here
beyond that of one barrier is that the levels fit together. Whoever is above
a level has won every barrier below, and the threads it stands for are held
there in order (`Followed`); a barrier whose counter is used up has exactly one
such thread (`Represented`), and it counts the slots that nobody has come from
yet (`Missing`). A counter that was set again stays full until its threads are
released (`SetAgain`). So when a thread finds itself last at the root, every
thread of the group has arrived, and `Release` there is the trip of
`Rendezvous`: those who are held further down have passed it already, although
they still spin. `ImplementsRendezvous` is the step simulation in which the
actions below the root stutter. `OneLeaderPerPhase` counts: the wins of all
threads together are the phases of the root's finalizer (`Winners`).

*Scan.* The offsets of a worker are moved by differences. `OffsetInv` says
that they always are what they would be if they were computed from the chunk
and the vector in it, `ChunkInv` that no two workers are in one chunk, and
`TakenInv` that the rows given out are those of the chunks handed out, less
what the owners have in front of them. From `IInv`: `TypeCorrect`,
`RowsAtMostOnce`, `RowsAtLeastOnce`, `PointersFollow`. These are about `Scan`
alone (`Spec`). Every run of a query is one of its scan (`QueryScans`), so that
they hold of queries as well (`QueryScansOnce`, `QueryScansAll`,
`QueryPointersFollow`).

*Query.* `BlocksWhole` (`BlocksStayWhole`) depends on the barriers of
`addValue`: the areas of a block move when an attribute is added, so no block
may be there before the last one is. A worker that pulls has passed the barrier
of each value (`PlaceInv`), and a barrier that is passed has its finalizer
behind it (`BarrierInv`), so there are all attributes (`AttributeInv`), and
nobody creates a block earlier (`BlockInv`). Within a block, `size` is at most
`maxNrElements`, and what is behind the elements of an area ends before the next
one (`WithinBlock`). The number of tuples is what the selections have counted,
in whichever of their forms. That each of these loops counts in `Nat`, and that
copying keeps a block as long as it is, is an induction over their turns; it is
done once, for loops whose body is given by a record (`Turn`, `LoopRuns`,
`LoopKeeps`), as the bodies cannot be arguments of a lemma.

*GlobalPool.* `GrantsApart` needs to know why a thread that has read `start` of
one chunk and `end` of another gets nothing. `IInv` has two reasons. `start`
never takes a value again that it has left: what a thread has read from it is
in a chunk and not above where `start` is now (`Reading`), and the new chunk,
of which `start` may be the beginning only now, was not there before
(`Chosen`, `Pending`). And while a refill is under way, the order of its two
stores, which depends on the addresses of the chunks, sees to it that nothing
fits between the two atomics at any time (`Phase`, `Opening`). What was granted
is behind `start` as well (`Behind`), so that a grant is apart from all earlier
ones (`GrantsDisjoint`). The theorem is about `PoolSpec`, with any set of
sizes and any number of calls.

*Allocators.* The steps of the pool keep their invariant under the calls that
the allocators make as well, which is how `GrantsApart` is proved for the system
that the run `Memory` checks (`GrantsLie`). For `BlocksApart` (`BlocksAlone`),
each bump allocator keeps what it has left in one grant of the pool, behind all
blocks it has handed out of it; a store's chunks are blocks of its allocator,
and the groups it has handed out lie in chunks up to the current one, so that
what is returned to after `reset` is nobody else's. `RequestsFit` is used where
a new chunk must hold the request that did not fit, which is where the code
fails without it.

*HashGroup.* `PartitionsApart` follows from claimed partitions being below the
counter (`Claims`). `SpillFrozen` is about a step: that no worker is in phase 1
any more when one is in phase 2 takes that nobody is released from the barrier
before all have entered it (`Gathered`), and that a worker's place tells
whether it has (`Places`). `GroupsExact` (`GroupsOnce`) has two invariants on
top. Of phase 1, each tuple that was fetched is in one place: in one worker's
table, or in one flush of one worker (`OnePlace`, `Fetched`), and the tables
are empty once their owner is at the barrier (`Cleared`). Of phase 2, a table
holds for its partition what the flushes merged so far hold (`Merged`, a sum over
flushes, `Total`), and a row of the answer holds it of all flushes, of a
partition that nobody else has (`Blocks`, `Results`).

*HashBuild.* `FrozenWhileProbed` as `SpillFrozen`, over two barriers: a worker
that probes has been released from the second one, so that all others are in
it or behind it, and neither inserts nor sizes the table. `SizedInTime`
(`TableSizedInTime`) adds what `found` counts: the sum of what the workers that
have added theirs own, so that after the first barrier it is all entries
(`Counting`), and the table is made for them before anybody inserts (`Sizing`).
`LookupComplete` (`AllFound`) is about chains. The entries that a slot leads to
are the least set that contains its head and the successors of its members
(`Reach`); every entry inserted is in that of its slot, an entry about to
be inserted is in none, and its `next` is the head that the worker has read,
which the compare-exchange confirms (`Linked`). The tag of a slot has the bits
of all of them (`Tagged`). `NothingDisplaced` (`InsertionsStay`) is that a step
only adds to these sets. That the table has
slots at all, more than entries, takes that the powers of two are unbounded
(`CapacityAbove`).

*GroupBy.* A row adds a power of its own to the sum of its group, and
`GroupsExact` follows from a conservation law: what the tables of the threads
(`InTable`), the spill storages (`InDeques`), the tasks of the merge (`InTask`),
the partitions of the vectorized half that no task has got (`InData`) and the
rows that no task has got (`InRows`) hold of a group is the whole group
(`Conserved`). In the last phase all of it is in the spill storages, and `Done`
relates these to the result, partition by partition. Each action moves an amount
between two of the terms; that it moves the right one is what the lemmas on the
containers say. A stack visits each entry once, across chunks that double
(`StackOK`, `StackEmplace`), a spill storage keeps an entry in the partition of
its hash (`DequeType`, `PushedHash`), and the table that aggregates a partition
holds what it has read of it, although it grows on the way (`MergeLoop`). `Find`
and `Update` are two steps: that what `Find` has read is still so when `Update`
writes takes that no other task is in the table (`Apart`, `SlotOK`), which is
where `shared` comes in. `TypeOK` does not need it (`TypeCorrect`): a write that
comes late goes to memory of the same table, whatever is there by then.
`SomeDeque` (`DequeThere`) follows from who may have got a task at all
(`SomeThread`), and `TableHoldsEntries` (`EntriesHeld`) from `StackOK` and
`Apart`.

*Import.* `LoadedExact` and `RerunSucceeds` are about what runs that were killed
leave to the next. `CacheInv` says what that can be: the files are there in the
order of the columns (`InOrder`), each before the last one has all of its values
(`DiskOK`), and the last one has zeros in it, or values and zeros behind them, only
while a run writes it or when one was killed over it (`torn`, `LastDone`). A run
that finds all files maps what `DiskOK` says (`ReadOK`), and one that misses a
file writes all of them again, each over an old one that is exact already
(`WritingOK`). A run parses only when a file is missing (`BegunOK`), so that a
text that is gone or a directory that cannot be written to stops no other run
(`ThrownOK`). From it: `LoadedAsParsed`, without any hypothesis, that what is loaded is what the text
parses to; `LoadedAsWritten`, that this is what dbgen meant if the casts read
each value rightly; and `RerunsSucceed` if they take each text. What the casts do
with a given text is left to the run: it would be an induction over characters for each
type.

*HybridQ6.* `EachTupleOnce` is false in general (see above), and `HybridExact`
has the two hypotheses under which it holds, `WorkersCountRows`: one worker, and a
row that qualifies in each vector. A worker that is alone takes the chunks one after the other
(`ChunkOf`), so that with no vector skipped the number of tuples counted is the
row where it is, and its sum has the rows before that row (`CountedInv`).

*JoinProbe.* A call may return with a full vector in the middle of a chain, and
the next one goes on from what `cont` and `followups` keep. `Passed(p, e)`
says from this alone, for each of the five functions, whether the call has gone by entry `e` in
the chain of tuple `p`: with a ring, when no followup of the tuple
that waits is at `e` or before it, else by the position and the entry of the loops. `AllDelivered` is
that a passed entry with the key of the tuple is returned or among the matches,
`MatchesInv` that matches are of passed entries, and with a ring not returned yet and
each there once; at the end of a vector all entries of its chains are passed, and `JoinExact`
(`JoinAnswers`) follows. What makes `Passed` a fact about the whole chain is
that a slot's entries are chained in ascending order and that the ring holds
one followup of a tuple at most (`LiveInv`), in a window between `followup` and
`followupWrite` that may wrap around; that it never catches up with itself is why the ring
has `batchSize + 1` slots. `BuffersHold` (`JoinBuffers`) needs to know that what a round
will still look at fits into what is left of the buffers (`Space`). The comparison of keys
runs over the matches once per column and compacts them each time; that what is
left are the matches with equal keys in the order of before is an induction over the columns
(`Compared`, `KeysEqual`).

Proofs by induction are written as induction over a set: the numbers that have
the property contain 0 and with each its successor, so they are all
(`SetInduction`, itself from `LeastElement`, that a set of numbers which is not
empty has a least one). That a recursive function has the value its
equation states (`Unfolding`, `Unfolds`) is proved in this way, once.

Only model-checked: everything else.

- Liveness under fairness (`AllReturn`, `QueryEnds`, `BuildCompletes`,
  `JoinEnds`, `GroupingEnds`, `LookupsEnd`, `GroupByEnds`) and ENABLED cannot be
  proved with this prover.
- `ResultExact` of `Query` and the invariants of `GroupLookup`
  (`GroupsSeparateByHash`, `ResultComplete`, `PartitionsExact`) are not proved, nor are
  `PrintedExact` and `StringsExact` of `Import`, which are about the conversions alone.
  They compare the program with a reference that is computed by folds over
  sequences or by recursive functions over text; what these compute on all
  inputs would take an induction of its own for each of the folds, as those of
  `GroupBy` have: the library's induction theorems have an operator as a
  parameter, which the installed provers cannot instantiate.

## Plan

Done: barriers, scan, plans of one scan, primitives, hybrid Q6, the hash table
as the join uses it, join, grouping of both engines with the merge of hybrid
Q1, containers, memory pools, types and import. Left, in this order:

1. `HybridQ18`: the build cut short, the grouping, and the final join.
2. `Hashset` and `Hashmapx` under the concurrent insertions of Typer's joins.
3. The TPC-H and SSB plans with joins and groupings as relational operators,
   compared between the engines over small relations.
4. Proofs: `GroupsSeparateByHash` of `GroupLookup`, then `ResultExact` of `Query`.

## Not modelled

- The AVX-512 forms of the joins: the lookup that they call is commented out
  (`Hashmap.hpp:144`), so that they do not compile on such hardware; elsewhere
  `joinAllSIMD` and `joinSelSIMD` are the Parallel forms. The SIMD hashes
  (`hash4_*`) exist on such hardware only and compute what the others do.
- The hash functions themselves, the arithmetic of `Numeric` and `Integer`
  with its overflow checks, `contains2` and LIKE; `apply_*`, which only TPC-H Q9 uses;
  `gather_sel_col` and `proj_sel_col_sel_col`, which no plan uses. None of them
  keeps state of its own.
- `DebugOperator`, which prints; the mutex of `SharedStateManager::get` and
  `once`, which nobody calls; the pinning of threads and the task scheduler.
- That TBB may run another task of the same loop inside a thread that waits
  for a nested one, which could put one thread twice into its table.
- Weak memory effects beyond what is said above.
- The algebra and the unfinished code translation (`src/hyper/codegen`), what
  the shell commands of the compilation engine do, benchmark drivers, tests
  and third-party code.
