----------------------------- MODULE HashGroup -----------------------------
(***************************************************************************)
(* vectorwise::HashGroup: grouping and aggregation by a group of workers,  *)
(* in two phases.  Each worker aggregates its tuples into a hash table of  *)
(* its own, which it flushes into its partitioned spill storage when the   *)
(* table has grown; after a barrier the workers claim the partitions, and  *)
(* one worker brings together what all workers have spilled into one.      *)
(*                                                                         *)
(* An aggregate is modelled by what went into it: how often each tuple.    *)
(* The lookup of the groups of a vector is taken to be right here.         *)
(***************************************************************************)
EXTENDS Integers, Sequences, FiniteSets

CONSTANTS
  Workers,       \* the worker threads
  Tuples,        \* the input of the operator
  NGroups,       \* group keys are 0 .. NGroups - 1
  nrPartitions,  \* partitions of the spill storage
  vecSize,       \* rows of a vector
  maxFill,       \* number of groups at which a worker flushes
  Inputs         \* the inputs to look at: functions from tuples to group keys

ASSUME HashGroupAssumption ==
  /\ IsFiniteSet(Workers) /\ Workers # {} /\ IsFiniteSet(Tuples)
  /\ NGroups \in Nat \ {0} /\ nrPartitions \in Nat \ {0}
  /\ vecSize \in Nat \ {0} /\ maxFill \in Nat
  /\ Inputs \subseteq [Tuples -> 0 .. NGroups - 1] /\ Inputs # {}

Groups == 0 .. NGroups - 1
\* The upper bits of the hash of a group.
PartitionOf(g) == g % nrPartitions

VARIABLES
  key,            \* the group of each tuple
  left,           \* tuples that child->next() has not given out yet
  pc,             \* where each worker is in next()
  ht,             \* per worker: the aggregates in its hash table
  groups,         \* per worker: the variable `groups` of phase 1
  spillStorage,   \* per worker: what it has spilled, flush by flush
  partition,      \* Shared::partition: partitions claimed
  current,        \* per worker: cont.partition
  merged,         \* per worker: whose part of the partition it has merged
  allocations,    \* per worker: blocks of groups still to be returned
  rows, result,   \* history: result rows of each group, and their aggregates
  entered, finalized, tripped   \* of the barrier

phase1Vars == <<left, groups, spillStorage>>
phase2Vars == <<partition, current, merged, allocations, rows, result>>
barrierVars == <<entered, finalized, tripped>>
vars == <<key, pc, ht, phase1Vars, phase2Vars, barrierVars>>

R == INSTANCE Rendezvous WITH Threads <- Workers, MaxWaits <- 1

Zero == [t \in Tuples |-> 0]
Plus(f, h) == [t \in Tuples |-> f[t] + h[t]]
NoGroups == [g \in Groups |-> Zero]
\* The groups that a table has an entry for.
InTable(table) == {g \in Groups : table[g] # Zero}

Init ==
  /\ key \in Inputs
  /\ left = Tuples
  /\ pc = [w \in Workers |-> "consume"]
  /\ ht = [w \in Workers |-> NoGroups]
  /\ groups = [w \in Workers |-> 0]
  /\ spillStorage = [w \in Workers |-> <<>>]
  /\ partition = 0
  /\ current = [w \in Workers |-> 0]
  /\ merged = [w \in Workers |-> {}]
  /\ allocations = [w \in Workers |-> <<>>]
  /\ rows = [g \in Groups |-> 0]
  /\ result = NoGroups
  /\ R!Init

Goto(w, label) == pc' = [pc EXCEPT ![w] = label]

-----------------------------------------------------------------------------
(* Phase 1: local preaggregation *)

\* The table with a vector of tuples added to the aggregates of their groups.
Aggregated(table, V) ==
  [g \in Groups |-> Plus(table[g], [t \in Tuples |-> IF t \in V /\ key[t] = g THEN 1 ELSE 0])]

\* flushAndClear: all entries of the table go to the spill storage.
FlushAndClear(w, table) ==
  /\ spillStorage' = [spillStorage EXCEPT ![w] = Append(@, table)]
  /\ ht' = [ht EXCEPT ![w] = NoGroups]

\* A vector of tuples: its groups are looked up or created and updated.  The
\* count of groups created is not set back by a flush, so that once it has
\* reached maxFill every vector is flushed.
Consume(w) ==
  /\ pc[w] = "consume"
  /\ \E V \in SUBSET left :
       LET table == Aggregated(ht[w], V)
           created == Cardinality(InTable(table) \ InTable(ht[w]))
       IN  /\ V # {} /\ Cardinality(V) <= vecSize
           /\ left' = left \ V
           /\ groups' = [groups EXCEPT ![w] = @ + created]
           /\ IF groups'[w] >= maxFill
              THEN FlushAndClear(w, table)
              ELSE ht' = [ht EXCEPT ![w] = table] /\ UNCHANGED spillStorage
  /\ UNCHANGED <<key, pc, phase2Vars, barrierVars>>

\* Faulty variant: the last groups are not flushed.
ConsumeEndsUnflushed(w) ==
  /\ pc[w] = "consume"
  /\ left = {} \/ \E v \in Workers \ {w} : pc[v] = "consume"
  /\ Goto(w, "enter")
  /\ UNCHANGED <<key, ht, phase1Vars, phase2Vars, barrierVars>>

\* EndOfStream: the rest is given out to others, or is none; a last flush.
ConsumeEnds(w) ==
  /\ pc[w] = "consume"
  /\ left = {} \/ \E v \in Workers \ {w} : pc[v] = "consume"
  /\ FlushAndClear(w, ht[w])
  /\ Goto(w, "enter")
  /\ UNCHANGED <<key, left, groups, phase2Vars, barrierVars>>

\* Faulty variant: no barrier between the phases.
EnterNoBarrier(w) ==
  /\ pc[w] = "enter"
  /\ Goto(w, "claim")
  /\ UNCHANGED <<key, ht, phase1Vars, phase2Vars, barrierVars>>

\* barrier(): wait until all workers have finished phase 1.
EnterBarrier(w) ==
  /\ pc[w] = "enter"
  /\ R!Enter(w)
  /\ Goto(w, "wait")
  /\ UNCHANGED <<key, ht, phase1Vars, phase2Vars>>

\* The barrier, without a finalizer.
BarrierStep ==
  /\ R!Finalize \/ R!Trip
  /\ UNCHANGED <<key, pc, ht, phase1Vars, phase2Vars>>

LeaveBarrier(w) ==
  /\ pc[w] = "wait" /\ tripped = entered[w]
  /\ Goto(w, "claim")
  /\ UNCHANGED <<key, ht, phase1Vars, phase2Vars, barrierVars>>

-----------------------------------------------------------------------------
(* Phase 2: global aggregation *)

\* Faulty variant: the number of the partition is read and written back late.
ClaimSame(w) ==
  /\ pc[w] = "claim"
  /\ current' = [current EXCEPT ![w] = partition]
  /\ partition' = IF partition < nrPartitions /\ \E v \in Workers \ {w} : pc[v] = "claim"
                  THEN partition ELSE partition + 1
  /\ merged' = [merged EXCEPT ![w] = {}]
  /\ Goto(w, IF partition < nrPartitions THEN "aggregate" ELSE "eos")
  /\ UNCHANGED <<key, ht, phase1Vars, allocations, rows, result, barrierVars>>

\* cont.partition = shared.partition.fetch_add(1)
Claim(w) ==
  /\ pc[w] = "claim"
  /\ current' = [current EXCEPT ![w] = partition]
  /\ partition' = partition + 1
  /\ merged' = [merged EXCEPT ![w] = {}]
  /\ Goto(w, IF partition < nrPartitions THEN "aggregate" ELSE "eos")
  /\ UNCHANGED <<key, ht, phase1Vars, allocations, rows, result, barrierVars>>

\* The flushes of a worker, summed up by group.
Total(flushes) ==
  LET sum[n \in 0 .. Len(flushes)] ==
        IF n = 0 THEN NoGroups ELSE [g \in Groups |-> Plus(sum[n - 1][g], flushes[n][g])]
  IN  sum[Len(flushes)]

\* What a worker has spilled into a partition.
Spilled(v, p) ==
  [g \in Groups |-> IF PartitionOf(g) = p THEN Total(spillStorage[v])[g] ELSE Zero]

\* The part of the partition that some worker v has spilled is aggregated, and
\* the groups it creates become a block.  The order of the workers is that of
\* an unordered_map.
Aggregate(w) ==
  /\ pc[w] = "aggregate"
  /\ \E v \in Workers \ merged[w] :
       LET spilled == Spilled(v, current[w])
           created == InTable(spilled) \ InTable(ht[w])
       IN  /\ merged' = [merged EXCEPT ![w] = @ \cup {v}]
           /\ ht' = [ht EXCEPT ![w] = [g \in Groups |-> Plus(@[g], spilled[g])]]
           /\ allocations' = [allocations EXCEPT ![w] =
                                IF created = {} THEN @ ELSE Append(@, created)]
  /\ UNCHANGED <<key, pc, phase1Vars, partition, current, rows, result, barrierVars>>

\* Faulty variant: the same block is returned again.
EmitAgain(w) ==
  /\ pc[w] = "aggregate" /\ merged[w] = Workers
  /\ allocations[w] # <<>>
  /\ LET block == allocations[w][1]
     IN  /\ rows' = [g \in Groups |-> IF g \in block /\ rows[g] < 2 THEN rows[g] + 1 ELSE rows[g]]
         /\ result' = [g \in Groups |-> IF g \in block THEN ht[w][g] ELSE result[g]]
  /\ UNCHANGED <<key, pc, ht, phase1Vars, partition, current, merged, allocations, barrierVars>>

\* A block of groups is returned to the parent operator.
Emit(w) ==
  /\ pc[w] = "aggregate" /\ merged[w] = Workers
  /\ allocations[w] # <<>>
  /\ LET block == allocations[w][1]
     IN  /\ rows' = [g \in Groups |-> IF g \in block THEN rows[g] + 1 ELSE rows[g]]
         /\ result' = [g \in Groups |-> IF g \in block THEN Plus(result[g], ht[w][g]) ELSE result[g]]
  /\ allocations' = [allocations EXCEPT ![w] = Tail(@)]
  /\ UNCHANGED <<key, pc, ht, phase1Vars, partition, current, merged, barrierVars>>

\* All blocks are returned: clear the table, and on to the next partition.
ClearTable(w) ==
  /\ pc[w] = "aggregate" /\ merged[w] = Workers
  /\ allocations[w] = <<>>
  /\ ht' = [ht EXCEPT ![w] = NoGroups]
  /\ Goto(w, "claim")
  /\ UNCHANGED <<key, phase1Vars, phase2Vars, barrierVars>>

Worker(w) ==
  \/ Consume(w) \/ ConsumeEnds(w) \/ EnterBarrier(w) \/ LeaveBarrier(w)
  \/ Claim(w) \/ Aggregate(w) \/ Emit(w) \/ ClearTable(w)

Finished == \A w \in Workers : pc[w] = "eos"

\* All workers have returned EndOfStream: the system may stop.
Stop == Finished /\ UNCHANGED vars

Next == (\E w \in Workers : Worker(w)) \/ BarrierStep \/ Stop

\* Every worker keeps running, and the barrier lets go of a full group.
Spec ==
  /\ Init /\ [][Next]_vars
  /\ \A w \in Workers : WF_vars(Worker(w))
  /\ WF_vars(BarrierStep)

-----------------------------------------------------------------------------

\* The answer of the operator: one row per group, from one worker, with every
\* tuple of the group in its aggregate once, however the tuples were spread
\* over workers, vectors and flushes.
GroupsExact ==
  Finished => \A g \in Groups :
    /\ rows[g] = IF \E t \in Tuples : key[t] = g THEN 1 ELSE 0
    /\ \A t \in Tuples : result[g][t] = IF key[t] = g THEN 1 ELSE 0

\* No partition is aggregated by two workers.
PartitionsApart ==
  \A v, w \in Workers :
    v # w /\ pc[v] = "aggregate" /\ pc[w] = "aggregate" => current[v] # current[w]

\* While a worker reads the spill storages, without a lock, none of them grows.
SpillFrozen ==
  [][(\E w \in Workers : pc[w] = "aggregate") => UNCHANGED spillStorage]_vars

\* Every worker gets to EndOfStream.
GroupingEnds == <>Finished
=============================================================================
