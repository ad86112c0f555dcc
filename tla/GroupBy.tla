------------------------------ MODULE GroupBy ------------------------------
(***************************************************************************)
(* The grouping of the compiled engine (hyper/GroupBy.hpp) as the generated *)
(* code of Q1 drives it, alone or as the second half of the hybrid query.  *)
(* The phases are parallel loops of TBB: each thread aggregates rows into  *)
(* tables of its own; the tables that the vectorized half has left are     *)
(* merged into tables of the threads; all entries are spilled by partition *)
(* of their hash, and each partition is aggregated by one thread.          *)
(*                                                                         *)
(* An aggregate is a sum, to which each row adds a power of its own, so that *)
(* the sum tells how often each row went into it.                          *)
(***************************************************************************)
EXTENDS Integers, Sequences, FiniteSets, SequencesExt, Containers

CONSTANTS
  Threads,       \* threads of the TBB scheduler
  nrTuples,      \* rows of lineitem
  NGroups,       \* group keys are 1 .. NGroups
  Inputs,        \* group of each row, or 0 if the WHERE clause drops the row
  nrPartitions,  \* what a spill storage is constructed with: 4 * nrThreads
  maxFill,       \* entries at which a new table is full
  twTables,      \* spill storages of the vectorized half, none without one
  Firsts         \* values of firstTuple: the rows before it are in twTables

Rows == 0 .. nrTuples - 1
Groups == 1 .. NGroups

ASSUME GroupByAssumption ==
  /\ nrTuples \in Nat \ {0} /\ NGroups \in Nat \ {0}
  /\ Inputs \subseteq [Rows -> 0 .. NGroups] /\ Inputs # {}
  /\ nrPartitions \in 1 .. 2 ^ HashBits - 1 /\ maxFill \in Nat \ {0}
  /\ IsFiniteSet(Threads) /\ IsFiniteSet(twTables)
  /\ Firsts \subseteq 0 .. nrTuples /\ Firsts # {}
  /\ twTables = {} => Firsts = {0}

VARIABLES
  key,        \* the group of each row
  data,       \* per table of the vectorized half: its spilled entries
  left,       \* rows from firstTuple on that no task has got yet
  phase,      \* the parallel loop that is running
  ready,      \* threads whose thread-local state exists
  linked,     \* per thread: the places of the entries in its hash table
  limit,      \* per thread: entries at which its table is full
  entries,    \* per thread: the Stack of the entries of its table
  deques,     \* per thread: its spill storage, NoDeque before it is used
  owner,      \* per table of the vectorized half: whose table it is merged into
  todo,       \* and the partitions that no task has got yet
  task,       \* per thread: the entries left of the partition that it merges,
              \* the thread whose table it uses, and what it has found there
  tasks,      \* tasks of the last two loops not done yet
  rows, result,  \* the result rows of each group, and their aggregates
  shared      \* history: two threads have merged into one table at a time

rowVars == <<key, data, left>>
localVars == <<ready, linked, limit, entries, deques>>
mergeVars == <<owner, todo, task, shared>>
outVars == <<tasks, rows, result>>
vars == <<rowVars, phase, localVars, mergeVars, outVars>>

\* What a row adds to the aggregate of its group.
Value(r) == 2 ^ (2 * r)
SumOver(S) ==
  LET sum[n \in 0 .. nrTuples] ==
        IF n = 0 THEN 0 ELSE sum[n - 1] + (IF n - 1 \in S THEN Value(n - 1) ELSE 0)
  IN  sum[nrTuples]
Entry(g, v) == [k |-> g, v |-> v]
\* The hash of a group.
HashOf(g) == g % 2 ^ HashBits
\* All entries of a sequence, into a spill storage.
Spilled(deque, es) ==
  LET spill[n \in 0 .. Len(es)] ==
        IF n = 0 THEN deque ELSE PushBackHash(spill[n - 1], es[n], HashOf(es[n].k))
  IN  spill[Len(es)]
\* Each group of a table that has rows, as an entry.
Entries(table) ==
  LET gs == SetToSeq({g \in Groups : table[g] # 0})
  IN  [n \in DOMAIN gs |-> Entry(gs[n], table[gs[n]])]

\* No spill storage yet; places that an entry does not have.
NoDeque == [shift |-> 0, partitions |-> <<>>]
Unknown == <<0, 0>>
Absent == <<0, 1>>
NoTask == [left |-> <<>>, of |-> 0, slot |-> Unknown, acc |-> 0]

\* What the vectorized half leaves of rows 0 .. first - 1: each row is in a
\* table, aggregated with those of its group (module HashGroup).
TwData(k, first) ==
  {[x \in twTables |->
      Spilled(NewDeque(nrPartitions),
        Entries([g \in Groups |-> SumOver({r \in 0 .. first - 1 : in[r] = x /\ k[r] = g})]))] :
     in \in [0 .. first - 1 -> twTables]}

Init ==
  /\ key \in Inputs
  /\ \E first \in Firsts :
       /\ data \in TwData(key, first)
       /\ left = first .. nrTuples - 1
  /\ phase = "scan"
  /\ ready = {}
  /\ linked = [t \in Threads |-> {}]
  /\ limit = [t \in Threads |-> maxFill]
  /\ entries = [t \in Threads |-> NewStack]
  /\ deques = [t \in Threads |-> NoDeque]
  /\ owner = [x \in {} |-> 0]
  /\ todo = [x \in twTables |-> {}]
  /\ task = [t \in Threads |-> NoTask]
  /\ shared = FALSE
  /\ tasks = {}
  /\ rows = [g \in Groups |-> 0]
  /\ result = [g \in Groups |-> 0]

-----------------------------------------------------------------------------
(* Hashmapx and Locals *)

\* findOne: the place of the entry of a group in a table, or Absent.
FindIn(places, stack, g) ==
  LET found == {pl \in places : At(stack, pl).k = g}
  IN  IF found = {} THEN Absent ELSE CHOOSE pl \in found : TRUE

\* preAggLocals(): the state of the thread is set up when it is first used.
PreAggLocals(t) ==
  /\ ready' = ready \cup {t}
  /\ deques' = [deques EXCEPT ![t] = IF @ = NoDeque THEN NewDeque(nrPartitions) ELSE @]

\* Faulty variant: a table that was spilled keeps its entries.
CreateGroupKeeping(t, g, v) ==
  LET full == Cardinality(linked[t]) >= limit[t]
      stack == EmplaceBack(entries[t], Entry(g, v))
  IN  /\ deques' = [deques EXCEPT ![t] = IF full THEN Spilled(@, Items(entries[t])) ELSE @]
      /\ linked' = [linked EXCEPT ![t] = (IF full THEN {} ELSE @) \cup {Back(stack)}]
      /\ entries' = [entries EXCEPT ![t] = stack]

\* A new group; a full table is first spilled and cleared, and so is its stack.
CreateGroup(t, g, v) ==
  LET full == Cardinality(linked[t]) >= limit[t]
      stack == EmplaceBack(IF full THEN ClearStack(entries[t]) ELSE entries[t], Entry(g, v))
  IN  /\ deques' = [deques EXCEPT ![t] = IF full THEN Spilled(@, Items(entries[t])) ELSE @]
      /\ linked' = [linked EXCEPT ![t] = (IF full THEN {} ELSE @) \cup {Back(stack)}]
      /\ entries' = [entries EXCEPT ![t] = stack]

\* update(*group, value)
AddTo(stack, pl, v) == [stack EXCEPT !.chunks[pl[1]][pl[2]].v = @ + v]

\* getGroup(key) += row
GetGroup(t, g, v) ==
  LET pl == FindIn(linked[t], entries[t], g)
  IN  IF pl = Absent
      THEN CreateGroup(t, g, v)
      ELSE /\ entries' = [entries EXCEPT ![t] = AddTo(@, pl, v)]
           /\ UNCHANGED <<linked, deques>>

-----------------------------------------------------------------------------
\* A task of the scan begins.
ScanTask(t) ==
  /\ phase = "scan" /\ left # {}
  /\ t \notin ready
  /\ PreAggLocals(t)
  /\ UNCHANGED <<rowVars, phase, linked, limit, entries, mergeVars, outVars>>

\* A row of a task: the WHERE clause, and the group.
ScanRow(t) ==
  /\ phase = "scan"
  /\ t \in ready
  /\ \E r \in left :
       /\ left' = left \ {r}
       /\ IF key[r] = 0 THEN UNCHANGED <<linked, entries, deques>>
                        ELSE GetGroup(t, key[r], Value(r))
  /\ UNCHANGED <<key, data, phase, ready, limit, mergeVars, outVars>>

EndScan ==
  /\ phase = "scan" /\ left = {}
  /\ phase' = "merge"
  /\ UNCHANGED <<rowVars, localVars, mergeVars, outVars>>

\* Faulty variant: the thread-local state is set up by the inner tasks.
MergeTableLate(t) ==
  /\ phase = "merge" /\ task[t] = NoTask
  /\ \E x \in twTables \ DOMAIN owner :
       /\ owner' = [y \in DOMAIN owner \cup {x} |-> IF y = x THEN t ELSE owner[y]]
       /\ todo' = [todo EXCEPT ![x] = DOMAIN data[x].partitions]
  /\ UNCHANGED <<rowVars, phase, localVars, task, shared, outVars>>

\* A task of the outer loop over the spill storages: the thread that runs it
\* lends its own table to the tasks of the inner loop, over the partitions.  A
\* thread that waits for its inner tasks may get any other task.
MergeTable(t) ==
  /\ phase = "merge" /\ task[t] = NoTask
  /\ \E x \in twTables \ DOMAIN owner :
       /\ owner' = [y \in DOMAIN owner \cup {x} |-> IF y = x THEN t ELSE owner[y]]
       /\ todo' = [todo EXCEPT ![x] = DOMAIN data[x].partitions]
  /\ PreAggLocals(t)
  /\ UNCHANGED <<rowVars, phase, linked, limit, entries, task, shared, outVars>>

\* A task of the inner loop: any thread, with the table of the outer task.
MergePartition(t) ==
  /\ phase = "merge" /\ task[t] = NoTask
  /\ \E x \in DOMAIN owner : \E p \in todo[x] :
       LET part == PartitionItems(data[x].partitions[p])
       IN  /\ todo' = [todo EXCEPT ![x] = @ \ {p}]
           /\ task' = [task EXCEPT ![t] =
                         IF part = <<>> THEN @ ELSE [NoTask EXCEPT !.left = part, !.of = owner[x]]]
           /\ shared' = (shared \/ (part # <<>> /\ \E u \in Threads : task[u].of = owner[x]))
  /\ UNCHANGED <<rowVars, phase, localVars, owner, outVars>>

\* consume(key, value): the group is looked up, and its aggregate read, ...
Find(t) ==
  /\ task[t].left # <<>> /\ task[t].slot = Unknown
  /\ LET o == task[t].of
         pl == FindIn(linked[o], entries[o], Head(task[t].left).k)
     IN  task' = [task EXCEPT ![t].slot = pl,
                              ![t].acc = IF pl = Absent THEN 0 ELSE At(entries[o], pl).v]
  /\ UNCHANGED <<rowVars, phase, localVars, owner, todo, shared, outVars>>

\* ... and created, or written.  Whatever another thread has done to the table
\* in between is not noticed: its update may be lost, and one of an entry that
\* has been spilled goes to memory that counts no more, or for another group.
Update(t) ==
  /\ task[t].left # <<>> /\ task[t].slot # Unknown
  /\ LET o == task[t].of
         e == Head(task[t].left)
         pl == task[t].slot
     IN  IF pl = Absent
         THEN CreateGroup(o, e.k, e.v)
         ELSE /\ entries' = [entries EXCEPT ![o].chunks[pl[1]][pl[2]].v = task[t].acc + e.v]
              /\ UNCHANGED <<linked, deques>>
  /\ task' = [task EXCEPT ![t] = IF Len(@.left) = 1 THEN NoTask
                                 ELSE [NoTask EXCEPT !.left = Tail(task[t].left), !.of = task[t].of]]
  /\ UNCHANGED <<rowVars, phase, ready, limit, owner, todo, shared, outVars>>

\* forallGroups begins when all is merged, with a loop over the tables there are.
EndMerge ==
  /\ phase = "merge"
  /\ DOMAIN owner = twTables
  /\ \A x \in twTables : todo[x] = {}
  /\ \A t \in Threads : task[t] = NoTask
  /\ phase' = "spill"
  /\ tasks' = ready
  /\ UNCHANGED <<rowVars, localVars, mergeVars, rows, result>>

\* Faulty variant: a thread without entries is not counted as done.
SpillAllEntries(t) ==
  /\ phase = "spill"
  /\ \E u \in tasks :
       /\ tasks' = IF StackEmpty(entries[u]) THEN tasks ELSE tasks \ {u}
       /\ deques' = [deques EXCEPT ![t] =
                       Spilled(IF @ = NoDeque THEN NewDeque(nrPartitions) ELSE @, Items(entries[u]))]
  /\ UNCHANGED <<rowVars, phase, ready, linked, limit, entries, mergeVars, rows, result>>

\* spillAll: the entries of a thread go to the deque of whoever has the task.
SpillAll(t) ==
  /\ phase = "spill"
  /\ \E u \in tasks :
       /\ tasks' = tasks \ {u}
       /\ deques' = [deques EXCEPT ![t] =
                       Spilled(IF @ = NoDeque THEN NewDeque(nrPartitions) ELSE @, Items(entries[u]))]
  /\ UNCHANGED <<rowVars, phase, ready, linked, limit, entries, mergeVars, rows, result>>

Spillers == {t \in Threads : deques[t] # NoDeque}

\* The number of partitions is that of the first deque, if there is one.
EndSpill ==
  /\ phase = "spill" /\ tasks = {}
  /\ phase' = "aggregate"
  /\ tasks' = UNION {DOMAIN deques[t].partitions : t \in Spillers}
  /\ UNCHANGED <<rowVars, localVars, mergeVars, rows, result>>

\* Faulty variant: the table grows, and its entries are not inserted again.
GrowEmpty(table) == [table EXCEPT !.places = {}, !.max = 2 * @]

\* insertAll: the entries of a stack, into an empty table.
InsertAll(stack) == ToSet(Places(stack))

\* grow: a larger table, into which the entries of the stack are inserted again.
Grow(table) == [table EXCEPT !.places = InsertAll(table.stack), !.max = 2 * @]

\* One value of a partition, into the table of the thread.
Merged(table, e) ==
  LET pl == FindIn(table.places, table.stack, e.k)
      large == IF Cardinality(table.places) >= table.max THEN Grow(table) ELSE table
      stack == EmplaceBack(table.stack, e)
  IN  IF pl # Absent
      THEN [table EXCEPT !.stack = AddTo(@, pl, e.v)]
      ELSE [large EXCEPT !.stack = stack, !.places = @ \cup {Back(stack)}]

\* The groups of a partition become a block of the result, of as many rows as
\* the stack says that it has; a partition without any is not handed on.
Emit(stack) ==
  IF StackEmpty(stack)
  THEN UNCHANGED <<rows, result>>
  ELSE \E block \in {SubSeq(Items(stack), 1, StackSize(stack))} :
         LET Of(g) == {n \in DOMAIN block : block[n].k = g}
         IN  /\ rows' = [g \in Groups |-> rows[g] + Cardinality(Of(g))]
             /\ result' = [g \in Groups |->
                             IF Of(g) = {} THEN result[g]
                             ELSE block[CHOOSE n \in Of(g) : TRUE].v]

\* What the deques of all threads hold of a partition.
Values(p) ==
  LET us == SetToSeq(Spillers)
  IN  FlattenSeq([n \in DOMAIN us |-> PartitionItems(deques[us[n]].partitions[p])])

\* A partition: the thread clears its table, which keeps its size, and its stack,
\* aggregates what the deques hold, and hands the groups on.  (merge is a set of one table, and the
\* values are quantified over, so that TLC evaluates them once.)
Aggregate(t) ==
  /\ phase = "aggregate"
  /\ \E p \in tasks : \E values \in {Values(p)} :
       LET cleared == [places |-> {}, stack |-> ClearStack(entries[t]), max |-> limit[t]]
           merge[n \in 0 .. Len(values)] ==
             IF n = 0 THEN {cleared} ELSE {Merged(table, values[n]) : table \in merge[n - 1]}
       IN  /\ tasks' = tasks \ {p}
           /\ \E table \in merge[Len(values)] :
                /\ linked' = [linked EXCEPT ![t] = table.places]
                /\ limit' = [limit EXCEPT ![t] = table.max]
                /\ entries' = [entries EXCEPT ![t] = table.stack]
                /\ Emit(table.stack)
  /\ ready' = ready \cup {t}
  /\ UNCHANGED <<rowVars, phase, deques, mergeVars>>

Return ==
  /\ phase = "aggregate" /\ tasks = {}
  /\ phase' = "returned"
  /\ UNCHANGED <<rowVars, localVars, mergeVars, outVars>>

Thread(t) ==
  \/ ScanTask(t) \/ ScanRow(t) \/ MergeTable(t) \/ MergePartition(t) \/ Find(t) \/ Update(t)
  \/ SpillAll(t) \/ Aggregate(t)

Main == EndScan \/ EndMerge \/ EndSpill \/ Return

\* The query has its result: the system may stop.
Stop == phase = "returned" /\ UNCHANGED vars

Next == (\E t \in Threads : Thread(t)) \/ Main \/ Stop

\* The scheduler does not leave a task that is there to a thread for ever.
Spec ==
  /\ Init /\ [][Next]_vars
  /\ \A t \in Threads : WF_vars(Thread(t))
  /\ WF_vars(Main)

-----------------------------------------------------------------------------
\* The answer of the query: one row per group, with each row of lineitem that
\* qualifies in its aggregate once, however rows, tables and partitions were
\* given to threads and full tables were spilled or grown - as long as no two
\* threads have merged into one table.  They may: findOrCreate is "Not thread
\* safe" (Hashmap.hpp:243), but the tasks of the inner loop share a table.
GroupsExact ==
  phase = "returned" /\ ~shared =>
    \A g \in Groups :
      /\ rows[g] = IF \E r \in Rows : key[r] = g THEN 1 ELSE 0
      /\ result[g] = SumOver({r \in Rows : key[r] = g})

\* A hash table finds the entries of its stack and no other, once each, also
\* after it was spilled, or has grown.
TableHoldsEntries ==
  ~shared => \A t \in Threads :
    /\ linked[t] = ToSet(Places(entries[t]))
    /\ Cardinality(linked[t]) = StackSize(entries[t])
    /\ \A p, q \in linked[t] : At(entries[t], p).k = At(entries[t], q).k => p = q

\* forallGroups reads the number of partitions from the first deque: there is
\* one, also if all rows are in tables of the vectorized half.
SomeDeque == phase = "aggregate" => Spillers # {}

\* The query ends, however the tasks of the nested loops are stolen.
GroupByEnds == <>(phase = "returned")
=============================================================================
