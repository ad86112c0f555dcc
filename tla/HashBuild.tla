----------------------------- MODULE HashBuild -----------------------------
(***************************************************************************)
(* The build side of vectorwise::Hashjoin, by a group of workers, and the  *)
(* concurrent hash table runtime::Hashmap that they fill: the workers      *)
(* materialize entries, count them, have the table sized by the finalizer  *)
(* of a barrier, insert their entries with compare-and-swap, and meet at a *)
(* second barrier before they probe (module JoinProbe).                    *)
(*                                                                         *)
(* The barrier is the abstract one, Rendezvous, which Barrier and          *)
(* HierarchicBarrier implement.  A spurious failure of the weak            *)
(* compare-exchange changes nothing and is left out.                       *)
(***************************************************************************)
EXTENDS Integers, Sequences, FiniteSets, Hashmap

CONSTANTS
  Workers,   \* the worker threads
  Rows,      \* tuples that may be on the build side: each becomes an entry
  BuildSides,     \* the sets of tuples that may make up the build side
  Hashes,    \* the hash values they may have
  HashFunctions,  \* the assignments of hashes to tuples to look at
  TagUnit,   \* the tag of a hash is its high part: hash \div TagUnit
  End        \* Hashmap::end(), the null pointer

ASSUME HashBuildAssumption ==
  /\ IsFiniteSet(Workers) /\ Workers # {}
  /\ IsFiniteSet(Rows) /\ End \notin Rows
  /\ BuildSides \subseteq SUBSET Rows /\ BuildSides # {}
  /\ Hashes \subseteq Nat
  /\ HashFunctions \subseteq [Rows -> Hashes] /\ HashFunctions # {}
  /\ TagUnit \in Nat \ {0}

VARIABLES
  hash,         \* EntryHeader::hash of each entry
  next,         \* EntryHeader::next of each entry
  left,         \* tuples that left->next() has not given out yet
  pc,           \* where each worker is in Hashjoin::next()
  allocations,  \* per worker: the entries it has materialized
  inserted,     \* per worker: how many of them are in the table
  loc,          \* per worker: the slot as insert_tagged saw it last
  found,        \* Shared::found
  capacity,     \* of the table, 0 before setSize
  slots,        \* the table: a tagged pointer is a head and a set of tags
  entered, finalized, tripped   \* of the barrier

tableVars == <<capacity, slots>>
barrierVars == <<entered, finalized, tripped>>
vars == <<hash, next, left, pc, allocations, inserted, loc, found, tableVars, barrierVars>>

R == INSTANCE Rendezvous WITH Threads <- Workers, MaxWaits <- 2

EmptySlot == [head |-> End, tags |-> {}]
Tag(h) == h \div TagUnit

Init ==
  /\ hash \in HashFunctions
  /\ next = [e \in Rows |-> End]
  /\ left \in BuildSides
  /\ pc = [w \in Workers |-> "build"]
  /\ allocations = [w \in Workers |-> <<>>]
  /\ inserted = [w \in Workers |-> 0]
  /\ loc = [w \in Workers |-> EmptySlot]
  /\ found = 0
  /\ capacity = 0 /\ slots = <<>>
  /\ R!Init

Goto(w, label) == pc' = [pc EXCEPT ![w] = label]

-----------------------------------------------------------------------------
\* left->next() gives the worker a tuple, which it scatters into an entry.
Materialize(w) ==
  /\ pc[w] = "build"
  /\ \E e \in left :
       /\ left' = left \ {e}
       /\ allocations' = [allocations EXCEPT ![w] = Append(@, e)]
  /\ UNCHANGED <<hash, next, pc, inserted, loc, found, tableVars, barrierVars>>

\* Faulty variant: a worker without tuples does not wait for the others.
BuildEndsEarly(w) ==
  /\ pc[w] = "build"
  /\ left = {} \/ \E v \in Workers \ {w} : pc[v] = "build"
  /\ Goto(w, IF allocations[w] = <<>> THEN "eos" ELSE "add")
  /\ UNCHANGED <<hash, next, left, allocations, inserted, loc, found, tableVars, barrierVars>>

\* left->next() gives EndOfStream: the rest is given out to other workers.
BuildEnds(w) ==
  /\ pc[w] = "build"
  /\ left = {} \/ \E v \in Workers \ {w} : pc[v] = "build"
  /\ Goto(w, "add")
  /\ UNCHANGED <<hash, next, left, allocations, inserted, loc, found, tableVars, barrierVars>>

\* Faulty variant: the count is stored, not added.
StoreFound(w) ==
  /\ pc[w] = "add"
  /\ found' = Len(allocations[w])
  /\ Goto(w, "enter")
  /\ UNCHANGED <<hash, next, left, allocations, inserted, loc, tableVars, barrierVars>>

\* shared.found.fetch_add(found)
AddFound(w) ==
  /\ pc[w] = "add"
  /\ found' = found + Len(allocations[w])
  /\ Goto(w, "enter")
  /\ UNCHANGED <<hash, next, left, allocations, inserted, loc, tableVars, barrierVars>>

\* barrier(): before the insertions, and after them.
EnterBarrier(w) ==
  /\ pc[w] = "enter"
  /\ R!Enter(w)
  /\ Goto(w, "wait")
  /\ UNCHANGED <<hash, next, left, allocations, inserted, loc, found, tableVars>>

\* The finalizer of the first barrier sizes the table, which mmap zeroes; the
\* second barrier has none.
Finalizer ==
  /\ R!Finalize
  /\ IF finalized = 0 /\ found > 0
     THEN /\ capacity' = CapacityFor(found)
          /\ slots' = [s \in 0 .. CapacityFor(found) - 1 |-> EmptySlot]
     ELSE UNCHANGED tableVars
  /\ UNCHANGED <<hash, next, left, pc, allocations, inserted, loc, found>>

Trip ==
  /\ R!Trip
  /\ UNCHANGED <<hash, next, left, pc, allocations, inserted, loc, found, tableVars>>

\* The worker is released: from the first barrier it goes on to insert, or
\* ends if nobody has found anything; from the second it goes on to probe.
LeaveBarrier(w) ==
  /\ pc[w] = "wait" /\ tripped = entered[w]
  /\ Goto(w, IF tripped = 2 THEN "probe" ELSE IF found = 0 THEN "eos" ELSE "insert")
  /\ UNCHANGED <<hash, next, left, allocations, inserted, loc, found, tableVars, barrierVars>>

-----------------------------------------------------------------------------
(* insertAllEntries, and in it Hashmap::insert_tagged *)

Entry(w) == allocations[w][inserted[w] + 1]
SlotOf(e) == hash[e] % capacity

\* locPtr->load()
LoadSlot(w) ==
  /\ pc[w] = "insert" /\ inserted[w] < Len(allocations[w])
  /\ loc' = [loc EXCEPT ![w] = slots[SlotOf(Entry(w))]]
  /\ Goto(w, "cas")
  /\ UNCHANGED <<hash, next, left, allocations, inserted, found, tableVars, barrierVars>>

\* Faulty variant: the tags of the entries below are lost.
UpdateOwnTag(old, e) == [head |-> e, tags |-> {Tag(hash[e])}]

\* What update() makes of the old slot.
Update(old, e) == [head |-> e, tags |-> old.tags \cup {Tag(hash[e])}]

\* Faulty variant: a plain store for the compare-exchange.
StoreSlot(w) ==
  LET e == Entry(w)
      s == SlotOf(e)
  IN  /\ pc[w] = "cas"
      /\ next' = [next EXCEPT ![e] = loc[w].head]
      /\ slots' = [slots EXCEPT ![s] = Update(loc[w], e)]
      /\ inserted' = [inserted EXCEPT ![w] = @ + 1]
      /\ Goto(w, "insert")
      /\ UNCHANGED <<loc, hash, left, allocations, found, capacity, barrierVars>>

\* entry->next = ptr(loc), and the compare-exchange: it publishes the entry,
\* or loads the slot again.  The entry is private until then.
CompareExchange(w) ==
  LET e == Entry(w)
      s == SlotOf(e)
  IN  /\ pc[w] = "cas"
      /\ next' = [next EXCEPT ![e] = loc[w].head]
      /\ IF slots[s] = loc[w]
         THEN /\ slots' = [slots EXCEPT ![s] = Update(loc[w], e)]
              /\ inserted' = [inserted EXCEPT ![w] = @ + 1]
              /\ Goto(w, "insert")
              /\ UNCHANGED loc
         ELSE /\ loc' = [loc EXCEPT ![w] = slots[s]]
              /\ UNCHANGED <<slots, inserted, pc>>
      /\ UNCHANGED <<hash, left, allocations, found, capacity, barrierVars>>

\* Faulty variant: no second barrier.
InsertThenProbe(w) ==
  /\ pc[w] = "insert" /\ inserted[w] = Len(allocations[w])
  /\ Goto(w, "probe")
  /\ UNCHANGED <<hash, next, left, allocations, inserted, loc, found, tableVars, barrierVars>>

\* All entries of the worker are in the table.
InsertEnds(w) ==
  /\ pc[w] = "insert" /\ inserted[w] = Len(allocations[w])
  /\ Goto(w, "enter")
  /\ UNCHANGED <<hash, next, left, allocations, inserted, loc, found, tableVars, barrierVars>>

Worker(w) ==
  \/ Materialize(w) \/ BuildEnds(w) \/ AddFound(w) \/ EnterBarrier(w) \/ LeaveBarrier(w)
  \/ LoadSlot(w) \/ CompareExchange(w) \/ InsertEnds(w)

Built(w) == pc[w] \in {"probe", "eos"}

\* The build is over: nothing of it is left to do.
Stop == (\A w \in Workers : Built(w)) /\ UNCHANGED vars

Next == (\E w \in Workers : Worker(w)) \/ Finalizer \/ Trip \/ Stop

\* Every worker keeps running, and the barrier lets go of a full group.
Fairness ==
  /\ \A w \in Workers : WF_vars(Worker(w))
  /\ WF_vars(Finalizer) /\ WF_vars(Trip)

Spec == Init /\ [][Next]_vars /\ Fairness

-----------------------------------------------------------------------------
\* The chain of a slot: what its head and the pointers from there on lead to.
ChainOf(s) ==
  {e \in Rows : \A C \in SUBSET Rows :
     slots[s].head \in C \cup {End} /\ (\A d \in C : next[d] \in C \cup {End}) => e \in C}

\* The build side: what has been materialized, and what has not yet.
Tuples == left \cup UNION {{allocations[w][n] : n \in DOMAIN allocations[w]} : w \in Workers}

InTable == UNION {ChainOf(s) : s \in DOMAIN slots}

\* What a probe with hash h finds: find_chain_tagged, and the comparison of
\* the hashes along the chain.
Lookup(h) ==
  LET s == h % capacity
  IN  IF Tag(h) \in slots[s].tags THEN {e \in ChainOf(s) : hash[e] = h} ELSE {}


\* A worker that probes finds every tuple of the build side, whoever has
\* inserted it: no insertion has overwritten another one or lost its tag.
LookupComplete ==
  (\E w \in Workers : pc[w] = "probe") =>
    \A h \in Hashes : Lookup(h) = {e \in Tuples : hash[e] = h}


\* The table is sized before the first insertion, for all entries there are.
SizedInTime ==
  (\E w \in Workers : pc[w] \in {"insert", "cas"} \/ inserted[w] > 0) =>
    capacity >= Cardinality(Tuples) /\ left = {}

\* What has been inserted stays in the table, whatever other workers insert.
NothingDisplaced == [][InTable \subseteq InTable']_vars

\* Once a worker probes, the chains it walks without a lock do not change.
FrozenWhileProbed ==
  [][(\E w \in Workers : pc[w] = "probe") => UNCHANGED <<slots, next>>]_vars

\* Every worker gets through both barriers.
BuildCompletes == <>(\A w \in Workers : Built(w))
=============================================================================
