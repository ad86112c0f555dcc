-------------------------- MODULE HashGroupProofs --------------------------
(***************************************************************************)
(* Proofs about module HashGroup: in phase 2 each partition has one owner, *)
(* and the spill storages of all workers, which the owners read without a  *)
(* lock, have been filled for good.                                        *)
(*                                                                         *)
(* Both rest on the barrier between the phases, which is here what         *)
(* Rendezvous promises (BarrierProofs): a worker that has been released    *)
(* from it knows that every other worker has entered it (Gathered), and    *)
(* the place of a worker tells whether it has (Places).                    *)
(*                                                                         *)
(* The answer then needs two more invariants, each on top of the last: in  *)
(* phase 1 a tuple is in one place (PInv), so that after the barrier it is *)
(* in one spill storage; and in phase 2 the table of a partition's owner   *)
(* holds what has been merged of it, while the groups are returned one by  *)
(* one (RInv).  What a worker has spilled is a sum over its flushes, a     *)
(* recursive function: the lemmas on SumOf show by induction that there is *)
(* one such sum, and how a flush changes it.                               *)
(***************************************************************************)
EXTENDS HashGroup, NaturalFacts, SequenceTheorems

PlaceNames == {"consume", "enter", "wait", "claim", "aggregate", "eos"}

\* The variables that the argument is about, within their types.
PlacesTypeOK ==
  /\ pc \in [Workers -> PlaceNames]
  /\ entered \in [Workers -> Nat]
  /\ tripped \in Nat
  /\ partition \in Nat
  /\ current \in [Workers -> Nat]

\* A worker in phase 1 has not entered the barrier, one that waits has, and one
\* in phase 2 has been released from it.
Places ==
  \A w \in Workers :
    /\ pc[w] \in {"consume", "enter"} => entered[w] = 0
    /\ pc[w] = "wait" => entered[w] > 0
    /\ pc[w] \in {"claim", "aggregate", "eos"} => tripped > 0

\* Nobody is released before all have entered.
Gathered ==
  /\ finalized \in Nat
  /\ finalized > 0 \/ tripped > 0 => \A w \in Workers : entered[w] > 0

\* A claimed partition is below the counter, and has one owner.
Claims ==
  /\ \A w \in Workers : pc[w] = "aggregate" => current[w] < partition
  /\ PartitionsApart

IInv == PlacesTypeOK /\ Places /\ Gathered /\ Claims

-----------------------------------------------------------------------------
LEMMA Phase1Step ==
  ASSUME NEW w \in Workers, IInv, Consume(w) \/ ConsumeEnds(w)
  PROVE  IInv'
<1>1. /\ pc' \in [Workers -> PlaceNames]
      /\ \A v \in Workers : v # w => pc'[v] = pc[v]
      /\ pc[w] = "consume" /\ pc'[w] \in {"consume", "enter"}
  BY DEF Consume, ConsumeEnds, Goto, IInv, PlacesTypeOK, PlaceNames
<1>2. UNCHANGED <<entered, finalized, tripped, partition, current>>
  BY DEF Consume, ConsumeEnds, phase2Vars, barrierVars
<1>3. PlacesTypeOK'
  BY <1>1, <1>2 DEF IInv, PlacesTypeOK
<1>4. Places' /\ Gathered'
  BY <1>1, <1>2 DEF IInv, Places, Gathered
<1>5. Claims'
  BY <1>1, <1>2 DEF IInv, Claims, PartitionsApart
<1> QED
  BY <1>3, <1>4, <1>5 DEF IInv

LEMMA BarrierSteps ==
  ASSUME IInv, (\E w \in Workers : EnterBarrier(w) \/ LeaveBarrier(w)) \/ BarrierStep
  PROVE  IInv'
<1>1. ASSUME NEW w \in Workers, EnterBarrier(w)
      PROVE  IInv'
  <2>1. UNCHANGED <<finalized, tripped, partition, current>>
    BY <1>1 DEF EnterBarrier, R!Enter, phase2Vars
  <2>2. PlacesTypeOK'
    BY <1>1, <2>1 DEF EnterBarrier, R!Enter, Goto, IInv, PlacesTypeOK, PlaceNames
  <2>3. Places' /\ Gathered'
    BY <1>1, <2>1 DEF EnterBarrier, R!Enter, Goto, IInv, PlacesTypeOK, Places, Gathered
  <2>4. Claims'
    BY <1>1, <2>1 DEF EnterBarrier, Goto, IInv, PlacesTypeOK, Claims, PartitionsApart
  <2> QED
    BY <2>2, <2>3, <2>4 DEF IInv
<1>2. ASSUME NEW w \in Workers, LeaveBarrier(w)
      PROVE  IInv'
  <2>1. UNCHANGED <<entered, finalized, tripped, partition, current>>
    BY <1>2 DEF LeaveBarrier, phase2Vars, barrierVars
  <2>2. PlacesTypeOK'
    BY <1>2, <2>1 DEF LeaveBarrier, Goto, IInv, PlacesTypeOK, PlaceNames
  <2>3. Places' /\ Gathered'
    BY <1>2, <2>1 DEF LeaveBarrier, Goto, IInv, PlacesTypeOK, Places, Gathered
  <2>4. Claims'
    BY <1>2, <2>1 DEF LeaveBarrier, Goto, IInv, PlacesTypeOK, Claims, PartitionsApart
  <2> QED
    BY <2>2, <2>3, <2>4 DEF IInv
<1>3. CASE BarrierStep
  <2>1. UNCHANGED <<pc, partition, current, entered>>
    BY <1>3 DEF BarrierStep, R!Finalize, R!Trip, phase2Vars
  <2>2. PlacesTypeOK'
    BY <1>3, <2>1 DEF BarrierStep, R!Finalize, R!Trip, IInv, PlacesTypeOK
  <2>3. Places' /\ Gathered'
    BY <1>3, <2>1 DEF BarrierStep, R!Finalize, R!Trip, IInv, PlacesTypeOK, Places, Gathered
  <2>4. Claims'
    BY <2>1 DEF IInv, Claims, PartitionsApart
  <2> QED
    BY <2>2, <2>3, <2>4 DEF IInv
<1> QED
  BY <1>1, <1>2, <1>3

\* The fetch_add: the number is new, so that its owner shares it with nobody.
LEMMA ClaimStep ==
  ASSUME NEW w \in Workers, IInv, Claim(w)
  PROVE  IInv'
<1>1. /\ pc[w] = "claim"
      /\ pc' = [pc EXCEPT ![w] = IF partition < nrPartitions THEN "aggregate" ELSE "eos"]
      /\ current' = [current EXCEPT ![w] = partition]
      /\ partition' = partition + 1
      /\ UNCHANGED <<entered, finalized, tripped>>
  BY DEF Claim, Goto, barrierVars
<1>2. PlacesTypeOK'
  BY <1>1 DEF IInv, PlacesTypeOK, PlaceNames
<1>3. Places' /\ Gathered'
  BY <1>1 DEF IInv, PlacesTypeOK, Places, Gathered
<1>4. \A v \in Workers : pc'[v] = "aggregate" => current'[v] < partition'
  BY <1>1 DEF IInv, PlacesTypeOK, Claims
<1>5. PartitionsApart'
  <2> SUFFICES ASSUME NEW u \in Workers, NEW v \in Workers, u # v,
                      pc'[u] = "aggregate", pc'[v] = "aggregate"
               PROVE  current'[u] # current'[v]
    BY DEF PartitionsApart
  <2>1. CASE u # w /\ v # w
    BY <1>1, <2>1 DEF IInv, PlacesTypeOK, Claims, PartitionsApart
  <2>2. CASE u = w \/ v = w
    BY <1>1, <2>2 DEF IInv, PlacesTypeOK, Claims
  <2> QED
    BY <2>1, <2>2
<1> QED
  BY <1>2, <1>3, <1>4, <1>5 DEF IInv, Claims

LEMMA Phase2Step ==
  ASSUME NEW w \in Workers, IInv, Aggregate(w) \/ Emit(w) \/ ClearTable(w)
  PROVE  IInv'
<1>1. /\ pc' \in [Workers -> PlaceNames]
      /\ \A v \in Workers : v # w => pc'[v] = pc[v]
      /\ pc[w] = "aggregate" /\ pc'[w] \in {"aggregate", "claim"}
  BY DEF Aggregate, Emit, ClearTable, Goto, IInv, PlacesTypeOK, PlaceNames
<1>2. UNCHANGED <<entered, finalized, tripped, partition, current>>
  BY DEF Aggregate, Emit, ClearTable, phase2Vars, barrierVars
<1>3. PlacesTypeOK'
  BY <1>1, <1>2 DEF IInv, PlacesTypeOK
<1>4. Places' /\ Gathered'
  BY <1>1, <1>2 DEF IInv, Places, Gathered
<1>5. Claims'
  BY <1>1, <1>2 DEF IInv, Claims, PartitionsApart
<1> QED
  BY <1>3, <1>4, <1>5 DEF IInv

\* The inductive invariant of the grouping (Operators.cpp, 815-890): who may
\* still be in phase 1, and who owns which partition.
THEOREM Inductive == Spec => []IInv
<1>1. Init => IInv
  BY DEF Init, R!Init, IInv, PlacesTypeOK, PlaceNames, Places, Gathered, Claims, PartitionsApart
<1>2. IInv /\ [Next]_vars => IInv'
  <2> SUFFICES ASSUME IInv, [Next]_vars
               PROVE  IInv'
    OBVIOUS
  <2>1. ASSUME NEW w \in Workers, Worker(w)
        PROVE  IInv'
    BY <2>1, Phase1Step, BarrierSteps, ClaimStep, Phase2Step DEF Worker
  <2>2. CASE BarrierStep
    BY <2>2, BarrierSteps
  <2>3. CASE UNCHANGED vars
    BY <2>3 DEF vars, phase1Vars, phase2Vars, barrierVars, IInv, PlacesTypeOK, Places, Gathered,
       Claims, PartitionsApart
  <2> QED
    BY <2>1, <2>2, <2>3 DEF Next, Stop
<1> QED
  BY <1>1, <1>2, PTL DEF Spec

\* No partition of the spill storages is aggregated by two workers (the
\* fetch_add of Operators.cpp:859).
THEOREM OneOwner == Spec => []PartitionsApart
<1>1. IInv => PartitionsApart
  BY DEF IInv, Claims
<1> QED
  BY <1>1, Inductive, PTL

\* Phase 2 reads the spill storages of all workers without a lock
\* (Operators.cpp:869): while a worker does, none of them grows.
THEOREM NothingSpilledLate == Spec => SpillFrozen
<1>1. IInv /\ [Next]_vars =>
        [(\E w \in Workers : pc[w] = "aggregate") => UNCHANGED spillStorage]_vars
  <2> SUFFICES ASSUME IInv, Next, NEW w \in Workers, pc[w] = "aggregate"
               PROVE  UNCHANGED spillStorage
    BY DEF vars, phase1Vars
  <2>1. \A v \in Workers : pc[v] # "consume"
    BY DEF IInv, PlacesTypeOK, Places, Gathered
  <2>2. ASSUME NEW v \in Workers, Worker(v)
        PROVE  UNCHANGED spillStorage
    BY <2>1, <2>2 DEF Worker, Consume, ConsumeEnds, EnterBarrier, LeaveBarrier, Claim, Aggregate,
       Emit, ClearTable, phase1Vars
  <2>3. CASE BarrierStep \/ Stop
    BY <2>3 DEF BarrierStep, Stop, vars, phase1Vars
  <2> QED
    BY <2>2, <2>3 DEF Next
<1> QED
  BY <1>1, Inductive, PTL DEF Spec, SpillFrozen

-----------------------------------------------------------------------------
(* What has been spilled: the sums over flushes *)

Counts == [Tuples -> Nat]
Table == [Groups -> Counts]

\* f holds the sums over the first flushes, as in Total.
SumOf(s, f) ==
  f = [n \in 0 .. Len(s) |->
         IF n = 0 THEN NoGroups ELSE [g \in Groups |-> Plus(f[n - 1][g], s[n][g])]]

LEMMA SumStep ==
  ASSUME NEW s \in Seq(Table), NEW f, SumOf(s, f)
  PROVE  /\ f[0] = NoGroups
         /\ \A n \in 0 .. Len(s) - 1 : f[n + 1] = [g \in Groups |-> Plus(f[n][g], s[n + 1][g])]
<1>1. f[0] = NoGroups
  BY DEF SumOf
<1>2. ASSUME NEW n \in 0 .. Len(s) - 1, NEW m, m = n + 1
      PROVE  f[m] = [g \in Groups |-> Plus(f[n][g], s[m][g])]
  <2>1. m \in 0 .. Len(s) /\ m # 0 /\ m - 1 = n
    BY <1>2
  <2>2. f[m] = [g \in Groups |-> Plus(f[m - 1][g], s[m][g])]
    BY <2>1 DEF SumOf
  <2> QED
    BY <2>1, <2>2
<1> QED
  BY <1>1, <1>2

LEMMA PlusType ==
  /\ NoGroups \in Table
  /\ \A F, H \in Table : [g \in Groups |-> Plus(F[g], H[g])] \in Table
<1>1. \A f, h \in Counts : Plus(f, h) \in Counts
  BY DEF Plus, Counts
<1> QED
  BY <1>1 DEF NoGroups, Table, Zero, Counts

\* The sums over the first n flushes exist, and are tables.
LEMMA SumExists ==
  ASSUME NEW s \in Seq(Table)
  PROVE  \E f : SumOf(s, f) /\ \A n \in 0 .. Len(s) : f[n] \in Table
<1> DEFINE Step(f, n) == [g \in Groups |-> Plus(f[n - 1][g], s[n][g])]
           Upto(m, f) == /\ f[0] = NoGroups
                         /\ \A n \in 1 .. m : f[n] = Step(f, n)
                         /\ f \in [0 .. m -> Table]
           S == {m \in Nat : m <= Len(s) => \E f : Upto(m, f)}
<1>1. 0 \in S
  <2>1. Upto(0, [n \in 0 .. 0 |-> NoGroups])
    BY PlusType
  <2> QED
    BY <2>1
<1>2. ASSUME NEW m \in Nat, m \in S
      PROVE  m + 1 \in S
  <2> SUFFICES ASSUME m + 1 <= Len(s)
               PROVE  \E f : Upto(m + 1, f)
    OBVIOUS
  <2>1. PICK f : Upto(m, f)
    BY <1>2
  <2> DEFINE last == [g \in Groups |-> Plus(f[m][g], s[m + 1][g])]
             e == [n \in 0 .. m + 1 |-> IF n = m + 1 THEN last ELSE f[n]]
  <2>2. last \in Table
    <3>1. f[m] \in Table /\ s[m + 1] \in Table
      BY <2>1
    <3> QED
      BY <3>1, PlusType
  <2>3. e \in [0 .. m + 1 -> Table]
    BY <2>1, <2>2
  <2>4. e[0] = NoGroups
    BY <2>1
  <2>5. \A n \in 1 .. m + 1 : e[n] = Step(e, n)
    <3> SUFFICES ASSUME NEW n \in 1 .. m + 1
                 PROVE  e[n] = Step(e, n)
      OBVIOUS
    <3>1. e[n - 1] = f[n - 1]
      <4>1. n - 1 \in 0 .. m + 1 /\ n - 1 # m + 1
        OBVIOUS
      <4> QED
        BY <4>1
    <3>2. CASE n = m + 1
      <4>1. n - 1 = m /\ e[n] = last
        BY <3>2
      <4>2. Step(e, n) = last
        BY <3>1, <3>2, <4>1
      <4> QED
        BY <4>1, <4>2
    <3>3. CASE n # m + 1
      <4>1. n \in 1 .. m /\ e[n] = f[n]
        BY <3>3
      <4>2. f[n] = Step(f, n)
        BY <2>1, <4>1
      <4> QED
        BY <3>1, <4>1, <4>2
    <3> QED
      BY <3>2, <3>3
  <2>6. Upto(m + 1, e)
    BY <2>3, <2>4, <2>5
  <2> QED
    BY <2>6
<1>3. Nat \subseteq S
  <2> HIDE DEF S
  <2> QED
    BY <1>1, <1>2, SetInduction
<1>4. PICK f : Upto(Len(s), f)
  BY <1>3
<1>5. SumOf(s, f)
  <2>1. f = [n \in 0 .. Len(s) |-> f[n]]
    BY <1>4
  <2>2. ASSUME NEW n \in 0 .. Len(s)
        PROVE  f[n] = IF n = 0 THEN NoGroups ELSE Step(f, n)
    <3>1. CASE n = 0
      BY <1>4, <3>1
    <3>2. CASE n # 0
      <4>1. n \in 1 .. Len(s)
        BY <3>2
      <4> QED
        BY <1>4, <3>2, <4>1
    <3> QED
      BY <3>1, <3>2
  <2> QED
    BY <2>1, <2>2 DEF SumOf
<1> QED
  BY <1>4, <1>5

\* There is one such function, and Total(s) is its last value.
LEMMA SumUnique ==
  ASSUME NEW s \in Seq(Table), NEW t \in Seq(Table), NEW f, NEW h,
         Len(s) <= Len(t), \A n \in 1 .. Len(s) : s[n] = t[n],
         SumOf(s, f), SumOf(t, h)
  PROVE  f[Len(s)] = h[Len(s)]
<1> DEFINE S == {n \in Nat : n <= Len(s) => f[n] = h[n]}
<1>1. 0 \in S
  BY DEF SumOf
<1>2. ASSUME NEW n \in Nat, n \in S
      PROVE  n + 1 \in S
  <2> SUFFICES ASSUME n + 1 <= Len(s)
               PROVE  f[n + 1] = h[n + 1]
    OBVIOUS
  <2>1. f[n] = h[n] /\ s[n + 1] = t[n + 1]
    BY <1>2
  <2>2. f[n + 1] = [g \in Groups |-> Plus(f[n][g], s[n + 1][g])]
    BY SumStep
  <2>3. h[n + 1] = [g \in Groups |-> Plus(h[n][g], t[n + 1][g])]
    <3>1. n \in 0 .. Len(t) - 1
      OBVIOUS
    <3> QED
      BY <3>1, SumStep
  <2> QED
    BY <2>1, <2>2, <2>3
<1>3. Nat \subseteq S
  <2> HIDE DEF S
  <2> QED
    BY <1>1, <1>2, SetInduction
<1> QED
  BY <1>3

LEMMA TotalIsSum ==
  ASSUME NEW s \in Seq(Table)
  PROVE  \E f : SumOf(s, f) /\ Total(s) = f[Len(s)] /\ Total(s) \in Table
<1> DEFINE f == CHOOSE e : SumOf(s, e)
<1>1. SumOf(s, f)
  BY SumExists
<1>2. Total(s) = f[Len(s)]
  BY DEF Total, SumOf
<1>3. PICK h : SumOf(s, h) /\ \A n \in 0 .. Len(s) : h[n] \in Table
  BY SumExists
<1> HIDE DEF f
<1>4. f[Len(s)] = h[Len(s)]
  BY <1>1, <1>3, SumUnique
<1> QED
  BY <1>1, <1>2, <1>3, <1>4

\* What the sums over the flushes are, without the recursion.
LEMMA TotalFacts ==
  /\ \A s \in Seq(Table) : Total(s) \in Table
  /\ Total(<<>>) = NoGroups
  /\ \A s \in Seq(Table), table \in Table :
       Total(Append(s, table)) = [g \in Groups |-> Plus(Total(s)[g], table[g])]
<1>1. \A s \in Seq(Table) : Total(s) \in Table
  BY TotalIsSum
<1>2. Total(<<>>) = NoGroups
  <2>1. <<>> \in Seq(Table) /\ Len(<<>>) = 0
    OBVIOUS
  <2>2. PICK f : SumOf(<<>>, f) /\ Total(<<>>) = f[Len(<<>>)]
    BY <2>1, TotalIsSum
  <2> QED
    BY <2>1, <2>2, SumStep
<1>3. ASSUME NEW s \in Seq(Table), NEW table \in Table
      PROVE  Total(Append(s, table)) = [g \in Groups |-> Plus(Total(s)[g], table[g])]
  <2> DEFINE t == Append(s, table)
  <2>1. /\ t \in Seq(Table) /\ Len(t) = Len(s) + 1 /\ t[Len(t)] = table
        /\ \A n \in 1 .. Len(s) : s[n] = t[n]
    OBVIOUS
  <2> HIDE DEF t
  <2>2. PICK f : SumOf(s, f) /\ Total(s) = f[Len(s)]
    BY TotalIsSum
  <2>3. PICK h : SumOf(t, h) /\ Total(t) = h[Len(t)]
    BY <2>1, TotalIsSum
  <2>4. f[Len(s)] = h[Len(s)]
    BY <2>1, <2>2, <2>3, SumUnique
  <2>5. h[Len(s) + 1] = [g \in Groups |-> Plus(h[Len(s)][g], t[Len(s) + 1][g])]
    BY <2>1, <2>3, SumStep
  <2> QED
    BY <2>1, <2>2, <2>3, <2>4, <2>5 DEF t
<1> QED
  BY <1>1, <1>2, <1>3

-----------------------------------------------------------------------------
(* Phase 1: where the tuples are *)

DataTypeOK ==
  /\ key \in [Tuples -> Groups]
  /\ left \in SUBSET Tuples
  /\ ht \in [Workers -> Table]
  /\ spillStorage \in [Workers -> Seq(Table)]
  /\ merged \in [Workers -> SUBSET Workers]
  /\ allocations \in [Workers -> Seq(SUBSET Groups)]
  /\ rows \in [Groups -> Nat]
  /\ result \in Table

\* How often a worker has a tuple in a group: in its table of phase 1 and in
\* what it has spilled.
Local(w) == IF pc[w] = "consume" THEN ht[w] ELSE NoGroups
Held(w, g, t) == Local(w)[g][t] + Total(spillStorage[w])[g][t]

\* Each tuple is in one place: not given out yet, or once with one worker.
NotHeld(t) == \A v \in Workers, g \in Groups : Held(v, g, t) = 0
HeldBy(w, t) ==
  \A v \in Workers, g \in Groups : Held(v, g, t) = IF v = w /\ g = key[t] THEN 1 ELSE 0
OnePlace ==
  \A t \in Tuples : IF t \in left THEN NotHeld(t) ELSE \E w \in Workers : HeldBy(w, t)

\* Somebody fetches what is left, and tables are empty between the phases.
Fetched == left = {} \/ \E w \in Workers : pc[w] = "consume"
Cleared ==
  \A w \in Workers :
    /\ pc[w] \in {"enter", "wait", "claim", "eos"} => ht[w] = NoGroups
    /\ pc[w] # "aggregate" => allocations[w] = <<>>

PInv == DataTypeOK /\ OnePlace /\ Fetched /\ Cleared

\* The worker has merged what holds the tuple.
Taken(w, t) == \E v \in merged[w] : Total(spillStorage[v])[key[t]][t] = 1

\* In phase 2 a table holds what has been merged of the claimed partition ...
Merged ==
  \A w \in Workers : pc[w] = "aggregate" =>
    /\ current[w] < nrPartitions
    /\ \A g \in Groups, t \in Tuples :
         ht[w][g][t] = IF key[t] = g /\ PartitionOf(g) = current[w] /\ Taken(w, t) THEN 1 ELSE 0

\* ... and the blocks to be returned hold groups of it, each once.
Blocks ==
  \A w \in Workers : pc[w] = "aggregate" =>
    \A n \in 1 .. Len(allocations[w]) :
      /\ allocations[w][n] \subseteq InTable(ht[w])
      /\ \A m \in 1 .. Len(allocations[w]) : m # n => allocations[w][m] \cap allocations[w][n] = {}

Waiting(w, g) == \E n \in 1 .. Len(allocations[w]) : g \in allocations[w][n]
Unreturned(g) == rows[g] = 0 /\ \A t \in Tuples : result[g][t] = 0
Returned(g) ==
  /\ rows[g] = IF \E t \in Tuples : key[t] = g THEN 1 ELSE 0
  /\ \A t \in Tuples : result[g][t] = IF key[t] = g THEN 1 ELSE 0

\* Groups of partitions not claimed are still to be returned, those of claimed
\* ones are when they are neither waiting in a block nor still to be found, and
\* those of finished ones are.
Results ==
  /\ \A g \in Groups : PartitionOf(g) >= partition => Unreturned(g)
  /\ \A w \in Workers, g \in Groups : pc[w] = "aggregate" /\ PartitionOf(g) = current[w] =>
       IF g \in InTable(ht[w]) /\ ~Waiting(w, g)
       THEN Returned(g) /\ merged[w] = Workers
       ELSE Unreturned(g)
  /\ \A g \in Groups :
       PartitionOf(g) < partition
         /\ (\A w \in Workers : pc[w] = "aggregate" => current[w] # PartitionOf(g))
       => Returned(g)
  /\ \A w \in Workers : pc[w] = "eos" => partition >= nrPartitions

RInv == Merged /\ Blocks /\ Results

-----------------------------------------------------------------------------
LEMMA HeldType ==
  ASSUME DataTypeOK, NEW w \in Workers
  PROVE  /\ ht[w] \in Table /\ Local(w) \in Table /\ Total(spillStorage[w]) \in Table
         /\ \A g \in Groups, t \in Tuples :
              /\ ht[w][g][t] \in Nat /\ Local(w)[g][t] \in Nat
              /\ Total(spillStorage[w])[g][t] \in Nat /\ Held(w, g, t) \in Nat
<1>1. ht[w] \in Table /\ spillStorage[w] \in Seq(Table)
  BY DEF DataTypeOK
<1>2. Local(w) \in Table
  BY <1>1, PlusType DEF Local
<1>3. Total(spillStorage[w]) \in Table
  BY <1>1, TotalFacts
<1>4. \A T \in Table, g \in Groups, t \in Tuples : T[g][t] \in Nat
  BY DEF Table, Counts
<1> QED
  BY <1>1, <1>2, <1>3, <1>4 DEF Held

\* The table of a vector, and what a flush adds to the sums.
LEMMA AggregatedFacts ==
  ASSUME NEW table \in Table, NEW V \in SUBSET Tuples
  PROVE  /\ Aggregated(table, V) \in Table
         /\ \A g \in Groups, t \in Tuples :
              Aggregated(table, V)[g][t] = table[g][t] + (IF t \in V /\ key[t] = g THEN 1 ELSE 0)
  BY DEF Aggregated, Plus, Table, Counts

LEMMA FlushedFacts ==
  ASSUME NEW s \in Seq(Table), NEW table \in Table, NEW g \in Groups, NEW t \in Tuples
  PROVE  /\ Append(s, table) \in Seq(Table)
         /\ Total(Append(s, table))[g][t] = Total(s)[g][t] + table[g][t]
<1>1. Total(Append(s, table)) = [h \in Groups |-> Plus(Total(s)[h], table[h])]
  BY TotalFacts
<1> QED
  BY <1>1 DEF Plus

\* A vector of tuples gets into the hands of the worker, flushed or not.
LEMMA ConsumeHeld ==
  ASSUME DataTypeOK, NEW w \in Workers, NEW V \in SUBSET left,
         pc[w] = "consume", pc' = pc,
         \/ /\ ht' = [ht EXCEPT ![w] = Aggregated(ht[w], V)]
            /\ spillStorage' = spillStorage
         \/ FlushAndClear(w, Aggregated(ht[w], V)),
         NEW v \in Workers, NEW g \in Groups, NEW t \in Tuples
  PROVE  Held(v, g, t)' = Held(v, g, t) + (IF v = w /\ t \in V /\ key[t] = g THEN 1 ELSE 0)
<1> DEFINE T == Aggregated(ht[w], V)
<1>1. V \in SUBSET Tuples /\ ht[w] \in Table /\ spillStorage[w] \in Seq(Table)
  BY DEF DataTypeOK
<1>2. T \in Table /\ T[g][t] = ht[w][g][t] + (IF t \in V /\ key[t] = g THEN 1 ELSE 0)
  BY <1>1, AggregatedFacts
<1>3. NoGroups[g][t] = 0
  BY DEF NoGroups, Zero
<1>4. /\ ht[v][g][t] \in Nat /\ ht[w][g][t] \in Nat
      /\ Total(spillStorage[v])[g][t] \in Nat /\ Held(v, g, t) \in Nat
  BY HeldType
<1>5. Total(Append(spillStorage[w], T))[g][t] = Total(spillStorage[w])[g][t] + T[g][t]
  BY <1>1, <1>2, FlushedFacts
<1> HIDE DEF T
<1>6. CASE v # w
  <2>1. ht'[v] = ht[v] /\ spillStorage'[v] = spillStorage[v]
    BY <1>6 DEF DataTypeOK, FlushAndClear
  <2> QED
    BY <1>4, <1>6, <2>1 DEF Held, Local
<1>7. CASE v = w /\ ht' = [ht EXCEPT ![w] = T] /\ spillStorage' = spillStorage
  <2>1. ht'[w] = T /\ spillStorage'[w] = spillStorage[w]
    BY <1>7 DEF DataTypeOK
  <2>2. Held(w, g, t)' = T[g][t] + Total(spillStorage[w])[g][t]
    BY <2>1 DEF Held, Local
  <2>3. Held(w, g, t) = ht[w][g][t] + Total(spillStorage[w])[g][t]
    BY DEF Held, Local
  <2> QED
    BY <1>2, <1>4, <1>7, <2>2, <2>3
<1>8. CASE v = w /\ FlushAndClear(w, T)
  <2>1. ht'[w] = NoGroups /\ spillStorage'[w] = Append(spillStorage[w], T)
    BY <1>8 DEF DataTypeOK, FlushAndClear
  <2>2. Held(w, g, t)' = NoGroups[g][t] + Total(Append(spillStorage[w], T))[g][t]
    BY <2>1 DEF Held, Local
  <2>3. Held(w, g, t) = ht[w][g][t] + Total(spillStorage[w])[g][t]
    BY DEF Held, Local
  <2> QED
    BY <1>2, <1>3, <1>4, <1>5, <1>8, <2>2, <2>3
<1> QED
  BY <1>6, <1>7, <1>8 DEF T

LEMMA ConsumePlaces ==
  ASSUME PInv, IInv, NEW w \in Workers, Consume(w)
  PROVE  PInv'
<1>1. PICK V \in SUBSET left :
        /\ left' = left \ V
        /\ \/ /\ ht' = [ht EXCEPT ![w] = Aggregated(ht[w], V)]
              /\ spillStorage' = spillStorage
           \/ FlushAndClear(w, Aggregated(ht[w], V))
  BY Zenon DEF Consume
<1>2. /\ pc[w] = "consume" /\ pc' = pc /\ key' = key
      /\ UNCHANGED phase2Vars
  BY DEF Consume
<1>3. \A v \in Workers, g \in Groups, t \in Tuples :
        /\ Held(v, g, t)' = Held(v, g, t) + (IF v = w /\ t \in V /\ key[t] = g THEN 1 ELSE 0)
        /\ Held(v, g, t) \in Nat
  <2> SUFFICES ASSUME NEW v \in Workers, NEW g \in Groups, NEW t \in Tuples
               PROVE  /\ Held(v, g, t)' = Held(v, g, t) + (IF v = w /\ t \in V /\ key[t] = g THEN 1 ELSE 0)
                      /\ Held(v, g, t) \in Nat
    OBVIOUS
  <2>1. DataTypeOK
    BY DEF PInv
  <2>2. Held(v, g, t) \in Nat
    BY <2>1, HeldType
  <2>3. Held(v, g, t)' = Held(v, g, t) + (IF v = w /\ t \in V /\ key[t] = g THEN 1 ELSE 0)
    BY <1>1, <1>2, <2>1, ConsumeHeld
  <2> QED
    BY <2>2, <2>3
<1>4. DataTypeOK'
  <2>1. V \in SUBSET Tuples /\ ht[w] \in Table /\ spillStorage[w] \in Seq(Table)
    BY DEF PInv, DataTypeOK
  <2>2. Aggregated(ht[w], V) \in Table /\ NoGroups \in Table
    BY <2>1, AggregatedFacts, PlusType
  <2>3. Append(spillStorage[w], Aggregated(ht[w], V)) \in Seq(Table)
    BY <2>1, <2>2
  <2>4. ht' \in [Workers -> Table] /\ spillStorage' \in [Workers -> Seq(Table)]
    BY <1>1, <2>2, <2>3 DEF PInv, DataTypeOK, FlushAndClear
  <2> QED
    BY <1>1, <1>2, <2>4 DEF PInv, DataTypeOK, phase2Vars
<1>5. OnePlace'
  <2> SUFFICES ASSUME NEW t \in Tuples
               PROVE  IF t \in left' THEN NotHeld(t)' ELSE \E v \in Workers : HeldBy(v, t)'
    BY DEF OnePlace
  <2>1. IF t \in left THEN NotHeld(t) ELSE \E v \in Workers : HeldBy(v, t)
    BY DEF PInv, OnePlace
  <2>2. CASE t \in V
    <3>1. NotHeld(t) /\ t \notin left'
      BY <1>1, <2>1, <2>2
    <3>2. HeldBy(w, t)'
      BY <1>2, <1>3, <2>2, <3>1 DEF NotHeld, HeldBy
    <3> QED
      BY <3>1, <3>2
  <2>3. CASE t \notin V
    <3>1. \A v \in Workers, g \in Groups : Held(v, g, t)' = Held(v, g, t)
      BY <1>3, <2>3
    <3>2. NotHeld(t) => NotHeld(t)'
      BY <3>1 DEF NotHeld
    <3>3. \A v \in Workers : HeldBy(v, t) => HeldBy(v, t)'
      BY <1>2, <3>1 DEF HeldBy
    <3> QED
      BY <1>1, <2>1, <2>3, <3>2, <3>3
  <2> QED
    BY <2>2, <2>3
<1>6. Fetched'
  BY <1>2 DEF Fetched
<1>7. Cleared'
  <2>1. \A v \in Workers : v # w => ht'[v] = ht[v]
    BY <1>1 DEF PInv, DataTypeOK, FlushAndClear
  <2> QED
    BY <1>2, <2>1 DEF PInv, Cleared, phase2Vars
<1> QED
  BY <1>4, <1>5, <1>6, <1>7 DEF PInv

\* A step that hands out no tuples and changes nobody's share of them.
LEMMA SameShares ==
  ASSUME PInv, key' = key, left' = left,
         \A w \in Workers, g \in Groups, t \in Tuples : Held(w, g, t)' = Held(w, g, t)
  PROVE  OnePlace'
<1> SUFFICES ASSUME NEW t \in Tuples
             PROVE  IF t \in left' THEN NotHeld(t)' ELSE \E v \in Workers : HeldBy(v, t)'
  BY DEF OnePlace
<1>1. IF t \in left THEN NotHeld(t) ELSE \E v \in Workers : HeldBy(v, t)
  BY DEF PInv, OnePlace
<1>2. NotHeld(t) => NotHeld(t)'
  BY DEF NotHeld
<1>3. \A v \in Workers : HeldBy(v, t) => HeldBy(v, t)'
  BY DEF HeldBy
<1> QED
  BY <1>1, <1>2, <1>3

LEMMA ConsumeEndsPlaces ==
  ASSUME PInv, IInv, NEW w \in Workers, ConsumeEnds(w)
  PROVE  PInv'
<1>1. /\ pc[w] = "consume" /\ pc' = [pc EXCEPT ![w] = "enter"]
      /\ left = {} \/ \E v \in Workers \ {w} : pc[v] = "consume"
      /\ spillStorage' = [spillStorage EXCEPT ![w] = Append(@, ht[w])]
      /\ ht' = [ht EXCEPT ![w] = NoGroups]
      /\ UNCHANGED <<key, left, phase2Vars>>
  BY DEF ConsumeEnds, FlushAndClear, Goto
<1>2. /\ ht \in [Workers -> Table] /\ spillStorage \in [Workers -> Seq(Table)]
      /\ pc \in [Workers -> PlaceNames]
      /\ DataTypeOK
  BY DEF PInv, DataTypeOK, IInv, PlacesTypeOK
<1>3. ASSUME NEW v \in Workers, NEW g \in Groups, NEW t \in Tuples
      PROVE  Held(v, g, t)' = Held(v, g, t)
  <2>1. CASE v # w
    <3>1. ht'[v] = ht[v] /\ spillStorage'[v] = spillStorage[v] /\ pc'[v] = pc[v]
      BY <1>1, <1>2, <2>1
    <3> QED
      BY <3>1 DEF Held, Local
  <2>2. CASE v = w
    <3>1. spillStorage'[w] = Append(spillStorage[w], ht[w]) /\ pc'[w] = "enter"
      BY <1>1, <1>2
    <3>2. Held(w, g, t)' = NoGroups[g][t] + Total(Append(spillStorage[w], ht[w]))[g][t]
      BY <3>1 DEF Held, Local
    <3>3. Total(Append(spillStorage[w], ht[w]))[g][t] = Total(spillStorage[w])[g][t] + ht[w][g][t]
      BY <1>2, FlushedFacts
    <3>4. Held(w, g, t) = ht[w][g][t] + Total(spillStorage[w])[g][t]
      BY <1>1 DEF Held, Local
    <3>5. NoGroups[g][t] = 0
      BY DEF NoGroups, Zero
    <3>6. ht[w][g][t] \in Nat /\ Total(spillStorage[w])[g][t] \in Nat
      BY <1>2, HeldType
    <3> QED
      BY <2>2, <3>2, <3>3, <3>4, <3>5, <3>6
  <2> QED
    BY <2>1, <2>2
<1>4. OnePlace'
  BY <1>1, <1>3, SameShares
<1>5. DataTypeOK'
  <2>1. NoGroups \in Table /\ Append(spillStorage[w], ht[w]) \in Seq(Table)
    BY <1>2, PlusType
  <2>2. ht' \in [Workers -> Table] /\ spillStorage' \in [Workers -> Seq(Table)]
    BY <1>1, <1>2, <2>1
  <2> QED
    BY <1>1, <1>2, <2>2 DEF DataTypeOK, phase2Vars
<1>6. Fetched'
  BY <1>1, <1>2 DEF Fetched
<1>7. Cleared'
  BY <1>1, <1>2 DEF PInv, Cleared, phase2Vars
<1> QED
  BY <1>4, <1>5, <1>6, <1>7 DEF PInv

\* The other steps leave the tables of phase 1 and the spill storages alone.
LEMMA QuietPlaces ==
  ASSUME PInv, IInv, DataTypeOK',
         UNCHANGED <<key, left, spillStorage>>,
         \A w \in Workers : pc[w] = "consume" <=> pc'[w] = "consume",
         \A w \in Workers : pc[w] = "consume" => ht'[w] = ht[w],
         Cleared'
  PROVE  PInv'
<1>1. ASSUME NEW v \in Workers, NEW g \in Groups, NEW t \in Tuples
      PROVE  Held(v, g, t)' = Held(v, g, t)
  BY <1>1 DEF Held, Local
<1>2. OnePlace'
  BY <1>1, SameShares
<1> QED
  BY <1>2 DEF PInv, Fetched

LEMMA OtherPlaces ==
  ASSUME PInv, IInv, NEW w \in Workers,
         EnterBarrier(w) \/ LeaveBarrier(w) \/ Claim(w) \/ Aggregate(w) \/ Emit(w) \/ ClearTable(w)
  PROVE  PInv'
<1>1. /\ UNCHANGED <<key, left, spillStorage>>
      /\ pc \in [Workers -> PlaceNames]
      /\ ht \in [Workers -> Table] /\ allocations \in [Workers -> Seq(SUBSET Groups)]
      /\ merged \in [Workers -> SUBSET Workers]
      /\ rows \in [Groups -> Nat] /\ result \in Table
      /\ Cleared /\ DataTypeOK
  BY DEF EnterBarrier, LeaveBarrier, Claim, Aggregate, Emit, ClearTable, phase1Vars,
     PInv, DataTypeOK, IInv, PlacesTypeOK
<1>2. CASE EnterBarrier(w) \/ LeaveBarrier(w)
  <2>1. /\ UNCHANGED <<ht, phase2Vars>> /\ pc[w] \in {"enter", "wait"}
        /\ \E l \in {"wait", "claim"} : pc' = [pc EXCEPT ![w] = l]
    BY <1>2 DEF EnterBarrier, LeaveBarrier, Goto
  <2>2. Cleared'
    BY <1>1, <2>1 DEF Cleared, phase2Vars
  <2>3. DataTypeOK'
    BY <1>1, <2>1 DEF DataTypeOK, phase2Vars
  <2> QED
    BY <1>1, <2>1, <2>2, <2>3, QuietPlaces
<1>3. CASE Claim(w)
  <2>1. /\ UNCHANGED <<ht, allocations, rows, result>> /\ pc[w] = "claim"
        /\ \E l \in {"aggregate", "eos"} : pc' = [pc EXCEPT ![w] = l]
        /\ merged' = [merged EXCEPT ![w] = {}]
    BY <1>3 DEF Claim, Goto
  <2>2. Cleared'
    BY <1>1, <2>1 DEF Cleared
  <2>3. DataTypeOK'
    BY <1>1, <2>1 DEF DataTypeOK
  <2> QED
    BY <1>1, <2>1, <2>2, <2>3, QuietPlaces
<1>4. CASE Aggregate(w)
  <2>1. PICK v \in Workers \ merged[w] :
          LET spilled == Spilled(v, current[w])
              created == InTable(spilled) \ InTable(ht[w])
          IN  /\ merged' = [merged EXCEPT ![w] = @ \cup {v}]
              /\ ht' = [ht EXCEPT ![w] = [g \in Groups |-> Plus(@[g], spilled[g])]]
              /\ allocations' = [allocations EXCEPT ![w] =
                                   IF created = {} THEN @ ELSE Append(@, created)]
    BY <1>4 DEF Aggregate
  <2>2. UNCHANGED <<pc, rows, result>> /\ pc[w] = "aggregate"
    BY <1>4 DEF Aggregate
  <2> DEFINE spilled == Spilled(v, current[w])
             created == InTable(spilled) \ InTable(ht[w])
  <2>3. spilled \in Table
    <3>1. Total(spillStorage[v]) \in Table
      BY <1>1, HeldType
    <3> QED
      BY <3>1 DEF Spilled, Table, Counts, Zero
  <2>4. [g \in Groups |-> Plus(ht[w][g], spilled[g])] \in Table
    BY <1>1, <2>3, PlusType
  <2>5. ht' \in [Workers -> Table]
    BY <1>1, <2>1, <2>4
  <2>6. created \in SUBSET Groups
    BY DEF InTable
  <2>7. allocations' \in [Workers -> Seq(SUBSET Groups)]
    <3> HIDE DEF created
    <3> QED
      BY <1>1, <2>1, <2>6 DEF created
  <2>8. DataTypeOK'
    BY <1>1, <2>1, <2>2, <2>5, <2>7 DEF DataTypeOK
  <2>9. Cleared'
    BY <1>1, <2>1, <2>2 DEF Cleared
  <2> QED
    BY <1>1, <2>1, <2>2, <2>8, <2>9, QuietPlaces
<1>5. CASE Emit(w)
  <2>1. /\ UNCHANGED <<pc, ht, merged>> /\ pc[w] = "aggregate"
        /\ allocations[w] # <<>>
        /\ allocations' = [allocations EXCEPT ![w] = Tail(@)]
    BY <1>5 DEF Emit
  <2>2. rows' \in [Groups -> Nat]
    BY <1>1, <1>5 DEF Emit
  <2>3. result' \in Table
    <3>1. \A g \in Groups : result[g] \in Counts /\ Plus(result[g], ht[w][g]) \in Counts
      BY <1>1 DEF Plus, Table, Counts
    <3> QED
      BY <1>5, <3>1 DEF Emit, Table
  <2>4. allocations' \in [Workers -> Seq(SUBSET Groups)]
    BY <1>1, <2>1
  <2>5. DataTypeOK'
    BY <1>1, <2>1, <2>2, <2>3, <2>4 DEF DataTypeOK
  <2>6. Cleared'
    BY <1>1, <2>1 DEF Cleared
  <2> QED
    BY <1>1, <2>1, <2>5, <2>6, QuietPlaces
<1>6. CASE ClearTable(w)
  <2>1. /\ UNCHANGED phase2Vars /\ pc[w] = "aggregate"
        /\ allocations[w] = <<>>
        /\ ht' = [ht EXCEPT ![w] = NoGroups]
        /\ pc' = [pc EXCEPT ![w] = "claim"]
    BY <1>6 DEF ClearTable, Goto
  <2>2. DataTypeOK'
    BY <1>1, <2>1, PlusType DEF DataTypeOK, phase2Vars
  <2>3. Cleared'
    BY <1>1, <2>1 DEF Cleared, phase2Vars
  <2> QED
    BY <1>1, <2>1, <2>2, <2>3, QuietPlaces
<1> QED
  BY <1>2, <1>3, <1>4, <1>5, <1>6

\* The inductive invariant of the tuples (Operators.cpp, 815-890): until the
\* end of phase 1 each is in one place, and all are spilled then.
THEOREM PlacesInductive == Spec => []PInv
<1>1. Init => PInv
  <2> SUFFICES ASSUME Init
               PROVE  PInv
    OBVIOUS
  <2>1. DataTypeOK
    <3>1. NoGroups \in Table
      BY PlusType
    <3> QED
      BY <3>1, HashGroupAssumption DEF Init, DataTypeOK, Groups
  <2>2. \A t \in Tuples : NotHeld(t)
    BY TotalFacts DEF Init, NotHeld, Held, Local, NoGroups, Zero
  <2>3. Fetched /\ Cleared
    BY HashGroupAssumption DEF Init, Fetched, Cleared
  <2> QED
    BY <2>1, <2>2, <2>3 DEF PInv, OnePlace, Init
<1>2. IInv /\ PInv /\ [Next]_vars => PInv'
  <2> SUFFICES ASSUME IInv, PInv, [Next]_vars
               PROVE  PInv'
    OBVIOUS
  <2>1. ASSUME NEW w \in Workers, Worker(w)
        PROVE  PInv'
    BY <2>1, ConsumePlaces, ConsumeEndsPlaces, OtherPlaces DEF Worker
  <2>2. CASE BarrierStep \/ UNCHANGED vars
    <3>1. UNCHANGED <<key, pc, ht, phase1Vars, phase2Vars>>
      BY <2>2 DEF BarrierStep, vars
    <3>2. DataTypeOK' /\ Cleared'
      BY <3>1 DEF PInv, DataTypeOK, Cleared, phase1Vars, phase2Vars
    <3> QED
      BY <3>1, <3>2, QuietPlaces DEF phase1Vars
  <2> QED
    BY <2>1, <2>2 DEF Next, Stop
<1> QED
  BY <1>1, <1>2, Inductive, PTL DEF Spec

-----------------------------------------------------------------------------
(* Phase 2: the answer *)

InPhase2(w) == pc[w] \in {"claim", "aggregate", "eos"}

\* What each worker has spilled, once one of them is in phase 2: each tuple is
\* in the storage of one worker.
Spread(home) ==
  /\ home \in [Tuples -> Workers]
  /\ \A v \in Workers, g \in Groups, t \in Tuples :
       Total(spillStorage[v])[g][t] = IF v = home[t] /\ g = key[t] THEN 1 ELSE 0

LEMMA AllSpilled ==
  ASSUME IInv, PInv, NEW w \in Workers, InPhase2(w)
  PROVE  \E home : Spread(home)
<1>1. \A v \in Workers : pc[v] # "consume"
  BY DEF IInv, PlacesTypeOK, Places, Gathered, InPhase2
<1>2. left = {}
  BY <1>1 DEF PInv, Fetched
<1>3. \A t \in Tuples : \E v \in Workers : HeldBy(v, t)
  BY <1>2 DEF PInv, OnePlace
<1> DEFINE home == [t \in Tuples |-> CHOOSE v \in Workers : HeldBy(v, t)]
<1>4. home \in [Tuples -> Workers] /\ \A t \in Tuples : HeldBy(home[t], t)
  BY <1>3
<1>5. ASSUME NEW v \in Workers, NEW g \in Groups, NEW t \in Tuples
      PROVE  Held(v, g, t) = Total(spillStorage[v])[g][t]
  <2>1. NoGroups[g][t] = 0
    BY DEF NoGroups, Zero
  <2>2. Total(spillStorage[v])[g][t] \in Nat
    BY HeldType DEF PInv
  <2> QED
    BY <1>1, <2>1, <2>2 DEF Held, Local
<1> HIDE DEF home
<1>6. Spread(home)
  BY <1>4, <1>5 DEF Spread, HeldBy
<1> QED
  BY <1>6

\* With such a home, a worker has taken a tuple if it has merged its home.
LEMMA TakenIsHome ==
  ASSUME NEW home, Spread(home), PInv, NEW w \in Workers, NEW t \in Tuples
  PROVE  Taken(w, t) <=> home[t] \in merged[w]
<1>1. key[t] \in Groups /\ merged[w] \subseteq Workers
  BY DEF PInv, DataTypeOK
<1> QED
  BY <1>1 DEF Taken, Spread

LEMMA InTableFacts ==
  ASSUME NEW table \in Table, NEW g \in Groups
  PROVE  /\ g \in InTable(table) <=> \E t \in Tuples : table[g][t] # 0
         /\ InTable(table) \subseteq Groups
<1>1. table[g] \in Counts
  BY DEF Table
<1>2. table[g] = Zero <=> \A t \in Tuples : table[g][t] = 0
  BY <1>1 DEF Counts, Zero
<1> QED
  BY <1>2 DEF InTable

LEMMA PartitionType ==
  ASSUME NEW g \in Groups
  PROVE  PartitionOf(g) \in 0 .. nrPartitions - 1
  BY HashGroupAssumption DEF PartitionOf, Groups

\* A step that leaves the partitions and the answer alone.
LEMMA QuietResults ==
  ASSUME RInv, PInv,
         UNCHANGED <<key, rows, result, partition, current, merged, allocations>>,
         \A w \in Workers : pc'[w] = "aggregate" =>
           pc[w] = "aggregate" /\ ht'[w] = ht[w] /\ spillStorage' = spillStorage,
         \A w \in Workers : pc[w] = "aggregate" => pc'[w] = "aggregate",
         \A w \in Workers : pc'[w] = "eos" => pc[w] = "eos"
  PROVE  RInv'
<1>1. ASSUME NEW w \in Workers, NEW t \in Tuples, pc'[w] = "aggregate"
      PROVE  Taken(w, t)' <=> Taken(w, t)
  BY <1>1 DEF Taken
<1>2. ASSUME NEW w \in Workers, NEW g \in Groups
      PROVE  Waiting(w, g)' <=> Waiting(w, g)
  BY DEF Waiting
<1>3. ASSUME NEW g \in Groups
      PROVE  (Unreturned(g)' <=> Unreturned(g)) /\ (Returned(g)' <=> Returned(g))
  BY DEF Unreturned, Returned
<1>4. Merged'
  BY <1>1 DEF RInv, Merged
<1>5. Blocks'
  BY DEF RInv, Blocks
<1>6. Results'
  BY <1>2, <1>3 DEF RInv, Results
<1> QED
  BY <1>4, <1>5, <1>6 DEF RInv

LEMMA Phase1Results ==
  ASSUME RInv, PInv, IInv, NEW w \in Workers,
         Consume(w) \/ ConsumeEnds(w) \/ EnterBarrier(w) \/ LeaveBarrier(w)
  PROVE  RInv'
<1>1. UNCHANGED <<key, phase2Vars>>
  BY DEF Consume, ConsumeEnds, EnterBarrier, LeaveBarrier
<1>2. /\ pc \in [Workers -> PlaceNames]
      /\ pc[w] \in {"consume", "enter", "wait"}
      /\ \E l \in {"consume", "enter", "wait", "claim"} : pc' = [pc EXCEPT ![w] = l]
  <2>1. pc \in [Workers -> PlaceNames]
    BY DEF IInv, PlacesTypeOK
  <2>2. CASE Consume(w)
    <3>1. pc[w] = "consume" /\ pc' = pc
      BY <2>2 DEF Consume
    <3>2. pc' = [pc EXCEPT ![w] = "consume"]
      BY <2>1, <3>1
    <3> QED
      BY <2>1, <3>1, <3>2
  <2>3. CASE ConsumeEnds(w) \/ EnterBarrier(w) \/ LeaveBarrier(w)
    BY <2>1, <2>3 DEF ConsumeEnds, EnterBarrier, LeaveBarrier, Goto
  <2> QED
    BY <2>2, <2>3
<1>3. ASSUME NEW v \in Workers, pc'[v] = "aggregate"
      PROVE  pc[v] = "aggregate" /\ ht'[v] = ht[v] /\ spillStorage' = spillStorage
  <2>1. v # w /\ pc[v] = "aggregate"
    BY <1>2, <1>3
  <2>2. pc[w] # "consume"
    BY <2>1 DEF IInv, PlacesTypeOK, Places, Gathered
  <2>3. UNCHANGED <<ht, phase1Vars>>
    BY <2>2 DEF Consume, ConsumeEnds, EnterBarrier, LeaveBarrier
  <2> QED
    BY <2>1, <2>3 DEF phase1Vars
<1> QED
  BY <1>1, <1>2, <1>3, QuietResults DEF phase2Vars

\* A partition that nobody has claimed yet gets its owner.
LEMMA ClaimResults ==
  ASSUME RInv, PInv, IInv, NEW w \in Workers, Claim(w)
  PROVE  RInv'
<1>1. /\ pc[w] = "claim"
      /\ pc' = [pc EXCEPT ![w] = IF partition < nrPartitions THEN "aggregate" ELSE "eos"]
      /\ current' = [current EXCEPT ![w] = partition]
      /\ partition' = partition + 1
      /\ merged' = [merged EXCEPT ![w] = {}]
      /\ UNCHANGED <<key, ht, spillStorage, allocations, rows, result>>
  BY DEF Claim, Goto, phase1Vars
<1>2. /\ pc \in [Workers -> PlaceNames] /\ current \in [Workers -> Nat] /\ partition \in Nat
      /\ merged \in [Workers -> SUBSET Workers]
      /\ ht[w] = NoGroups /\ allocations[w] = <<>>
      /\ nrPartitions \in Nat
  BY <1>1, HashGroupAssumption DEF IInv, PlacesTypeOK, PInv, DataTypeOK, Cleared
<1>3. \A g \in Groups : (Unreturned(g)' <=> Unreturned(g)) /\ (Returned(g)' <=> Returned(g))
  <2> SUFFICES ASSUME NEW g \in Groups
               PROVE  (Unreturned(g)' <=> Unreturned(g)) /\ (Returned(g)' <=> Returned(g))
    OBVIOUS
  <2> QED
    BY <1>1 DEF Unreturned, Returned
<1>4. ASSUME NEW v \in Workers, v # w
      PROVE  /\ pc'[v] = pc[v] /\ current'[v] = current[v] /\ merged'[v] = merged[v]
             /\ \A t \in Tuples : Taken(v, t)' <=> Taken(v, t)
  BY <1>1, <1>2, <1>4 DEF Taken
<1>5. Merged'
  <2> SUFFICES ASSUME NEW v \in Workers, pc'[v] = "aggregate"
               PROVE  /\ current'[v] < nrPartitions
                      /\ \A g \in Groups, t \in Tuples :
                           ht'[v][g][t] = IF key'[t] = g /\ PartitionOf(g) = current'[v] /\ Taken(v, t)'
                                          THEN 1 ELSE 0
    BY DEF Merged
  <2>1. CASE v # w
    BY <1>1, <1>4, <2>1 DEF RInv, Merged
  <2>2. CASE v = w
    <3>1. current'[w] = partition /\ merged'[w] = {} /\ partition < nrPartitions
      BY <1>1, <1>2, <2>2
    <3>2. \A t \in Tuples : ~Taken(w, t)'
      BY <3>1 DEF Taken
    <3>3. \A g \in Groups, t \in Tuples : ht'[w][g][t] = 0
      BY <1>1, <1>2 DEF NoGroups, Zero
    <3> QED
      BY <2>2, <3>1, <3>2, <3>3
  <2> QED
    BY <2>1, <2>2
<1>6. Blocks'
  <2>1. Len(allocations'[w]) = 0
    BY <1>1, <1>2
  <2> QED
    BY <1>1, <1>4, <2>1 DEF RInv, Blocks
<1>7. Results'
  <2>1. \A g \in Groups : PartitionOf(g) \in Nat /\ PartitionOf(g) < nrPartitions
    BY <1>2, PartitionType
  <2>2. ASSUME NEW g \in Groups, PartitionOf(g) >= partition'
        PROVE  Unreturned(g)'
    BY <1>1, <1>2, <1>3, <2>1, <2>2 DEF RInv, Results
  <2>3. ASSUME NEW v \in Workers, NEW g \in Groups, pc'[v] = "aggregate", PartitionOf(g) = current'[v]
        PROVE  IF g \in InTable(ht'[v]) /\ ~Waiting(v, g)'
               THEN Returned(g)' /\ merged'[v] = Workers
               ELSE Unreturned(g)'
    <3>1. CASE v # w
      <4>1. Waiting(v, g)' <=> Waiting(v, g)
        BY <1>1 DEF Waiting
      <4> QED
        BY <1>1, <1>3, <1>4, <2>3, <3>1, <4>1 DEF RInv, Results
    <3>2. CASE v = w
      <4>1. PartitionOf(g) = partition
        BY <1>1, <1>2, <2>3, <3>2
      <4>2. Unreturned(g)
        BY <1>2, <4>1 DEF RInv, Results
      <4>3. g \notin InTable(ht'[w])
        BY <1>1, <1>2 DEF InTable, NoGroups
      <4> QED
        BY <1>3, <3>2, <4>2, <4>3
    <3> QED
      BY <3>1, <3>2
  <2>4. ASSUME NEW g \in Groups, PartitionOf(g) < partition',
               \A v \in Workers : pc'[v] = "aggregate" => current'[v] # PartitionOf(g)
        PROVE  Returned(g)'
    <3>1. PartitionOf(g) < partition
      <4>1. CASE partition < nrPartitions
        <5>1. pc'[w] = "aggregate" /\ current'[w] = partition
          BY <1>1, <1>2, <4>1
        <5> QED
          BY <1>1, <1>2, <2>1, <2>4, <5>1
      <4>2. CASE partition >= nrPartitions
        BY <1>2, <2>1, <4>2
      <4> QED
        BY <1>2, <4>1, <4>2
    <3>2. \A v \in Workers : pc[v] = "aggregate" => current[v] # PartitionOf(g)
      BY <1>1, <1>4, <2>4
    <3> QED
      BY <1>3, <3>1, <3>2 DEF RInv, Results
  <2>5. \A v \in Workers : pc'[v] = "eos" => partition' >= nrPartitions
    <3> SUFFICES ASSUME NEW v \in Workers, pc'[v] = "eos"
                 PROVE  partition' >= nrPartitions
      OBVIOUS
    <3>1. CASE v = w
      BY <1>1, <1>2, <3>1
    <3>2. CASE v # w
      BY <1>1, <1>2, <1>4, <3>2 DEF RInv, Results
    <3> QED
      BY <3>1, <3>2
  <2> QED
    BY <2>2, <2>3, <2>4, <2>5 DEF Results
<1> QED
  BY <1>5, <1>6, <1>7 DEF RInv

\* What a worker has spilled into the claimed partition is merged: all groups
\* that are found by it get into the new block.
LEMMA AggregateResults ==
  ASSUME RInv, PInv, IInv, NEW w \in Workers, Aggregate(w)
  PROVE  RInv'
<1>1. PICK v \in Workers \ merged[w] :
        LET spilled == Spilled(v, current[w])
            created == InTable(spilled) \ InTable(ht[w])
        IN  /\ merged' = [merged EXCEPT ![w] = @ \cup {v}]
            /\ ht' = [ht EXCEPT ![w] = [g \in Groups |-> Plus(@[g], spilled[g])]]
            /\ allocations' = [allocations EXCEPT ![w] =
                                 IF created = {} THEN @ ELSE Append(@, created)]
  BY DEF Aggregate
<1>2. /\ pc[w] = "aggregate"
      /\ UNCHANGED <<key, pc, spillStorage, partition, current, rows, result>>
  BY DEF Aggregate, phase1Vars
<1>3. /\ ht \in [Workers -> Table] /\ merged \in [Workers -> SUBSET Workers]
      /\ allocations \in [Workers -> Seq(SUBSET Groups)]
      /\ DataTypeOK
  BY DEF PInv, DataTypeOK
<1>4. PICK home : Spread(home)
  BY <1>2, AllSpilled DEF InPhase2
<1> DEFINE spilled == Spilled(v, current[w])
           created == InTable(spilled) \ InTable(ht[w])
<1>5. \A g \in Groups, t \in Tuples :
        /\ spilled[g][t] = IF PartitionOf(g) = current[w] /\ v = home[t] /\ g = key[t] THEN 1 ELSE 0
        /\ ht'[w][g][t] = ht[w][g][t] + spilled[g][t]
        /\ ht[w][g][t] \in Nat
  <2> SUFFICES ASSUME NEW g \in Groups, NEW t \in Tuples
               PROVE  /\ spilled[g][t] = IF PartitionOf(g) = current[w] /\ v = home[t] /\ g = key[t]
                                         THEN 1 ELSE 0
                      /\ ht'[w][g][t] = ht[w][g][t] + spilled[g][t]
                      /\ ht[w][g][t] \in Nat
    OBVIOUS
  <2>1. Total(spillStorage[v])[g][t] = IF v = home[t] /\ g = key[t] THEN 1 ELSE 0
    BY <1>4 DEF Spread
  <2>2. spilled[g][t] = IF PartitionOf(g) = current[w] THEN Total(spillStorage[v])[g][t] ELSE 0
    BY DEF Spilled, Zero
  <2>3. ht'[w] = [h \in Groups |-> Plus(ht[w][h], spilled[h])]
    BY <1>1, <1>3
  <2>4. ht'[w][g][t] = ht[w][g][t] + spilled[g][t]
    <3> HIDE DEF spilled
    <3> QED
      BY <2>3 DEF Plus
  <2> QED
    BY <1>3, <2>1, <2>2, <2>4, HeldType
<1>6. spilled \in Table /\ ht' \in [Workers -> Table]
  <2>1. Total(spillStorage[v]) \in Table
    BY <1>3, HeldType
  <2>2. spilled \in Table
    BY <2>1 DEF Spilled, Table, Counts, Zero
  <2>3. [g \in Groups |-> Plus(ht[w][g], spilled[g])] \in Table
    BY <1>3, <2>2, PlusType
  <2> QED
    BY <1>1, <1>3, <2>2, <2>3
<1>7. InTable(ht'[w]) = InTable(ht[w]) \cup InTable(spilled)
  <2>1. ht[w] \in Table /\ ht'[w] \in Table
    BY <1>3, <1>6
  <2>2. ASSUME NEW g \in Groups
        PROVE  g \in InTable(ht'[w]) <=> g \in InTable(ht[w]) \/ g \in InTable(spilled)
    <3> HIDE DEF spilled
    <3>1. \A t \in Tuples : ht'[w][g][t] # 0 <=> ht[w][g][t] # 0 \/ spilled[g][t] # 0
      BY <1>5
    <3> QED
      BY <1>6, <2>1, <3>1, InTableFacts
  <2>3. /\ InTable(ht'[w]) \subseteq Groups /\ InTable(ht[w]) \subseteq Groups
        /\ InTable(spilled) \subseteq Groups
    BY DEF InTable
  <2> HIDE DEF spilled
  <2> QED
    BY <2>2, <2>3
<1>8. ASSUME NEW u \in Workers, u # w
      PROVE  /\ ht'[u] = ht[u] /\ merged'[u] = merged[u] /\ allocations'[u] = allocations[u]
             /\ \A t \in Tuples : Taken(u, t)' <=> Taken(u, t)
             /\ \A g \in Groups : Waiting(u, g)' <=> Waiting(u, g)
  BY <1>1, <1>2, <1>3, <1>8 DEF Taken, Waiting
<1>9. /\ merged'[w] = merged[w] \cup {v}
      /\ allocations'[w] = IF created = {} THEN allocations[w] ELSE Append(allocations[w], created)
  BY <1>1, <1>3
<1>10. created \subseteq Groups /\ created \cap InTable(ht[w]) = {}
       /\ InTable(ht'[w]) = InTable(ht[w]) \cup created
  BY <1>7 DEF InTable
<1> HIDE DEF spilled, created
<1>11. \A g \in Groups : (Unreturned(g)' <=> Unreturned(g)) /\ (Returned(g)' <=> Returned(g))
  <2> SUFFICES ASSUME NEW g \in Groups
               PROVE  (Unreturned(g)' <=> Unreturned(g)) /\ (Returned(g)' <=> Returned(g))
    OBVIOUS
  <2> QED
    BY <1>2 DEF Unreturned, Returned
<1>12. Merged'
  <2> SUFFICES ASSUME NEW u \in Workers, pc'[u] = "aggregate", NEW g \in Groups, NEW t \in Tuples
               PROVE  /\ current'[u] < nrPartitions
                      /\ ht'[u][g][t] = IF key'[t] = g /\ PartitionOf(g) = current'[u] /\ Taken(u, t)'
                                        THEN 1 ELSE 0
    BY <1>2, <1>3 DEF Merged, RInv
  <2>1. CASE u # w
    BY <1>2, <1>8, <2>1 DEF RInv, Merged
  <2>2. CASE u = w
    <3>1. Taken(w, t)' <=> home[t] \in merged'[w]
      <4>1. key[t] \in Groups /\ merged'[w] \subseteq Workers
        BY <1>3, <1>9 DEF DataTypeOK
      <4> QED
        BY <1>2, <1>4, <4>1 DEF Taken, Spread
    <3>2. Taken(w, t) <=> home[t] \in merged[w]
      BY <1>4, TakenIsHome
    <3>3. /\ current[w] < nrPartitions
          /\ ht[w][g][t] = IF key[t] = g /\ PartitionOf(g) = current[w] /\ Taken(w, t) THEN 1 ELSE 0
      BY <1>2 DEF RInv, Merged
    <3>4. v \notin merged[w]
      OBVIOUS
    <3>5. spilled[g][t] = IF PartitionOf(g) = current[w] /\ v = home[t] /\ g = key[t] THEN 1 ELSE 0
      BY <1>5
    <3> QED
      BY <1>2, <1>5, <1>9, <2>2, <3>1, <3>2, <3>3, <3>4, <3>5
  <2> QED
    BY <2>1, <2>2
<1>13. Blocks'
  <2> SUFFICES ASSUME NEW u \in Workers, pc'[u] = "aggregate",
                      NEW n \in 1 .. Len(allocations'[u])
               PROVE  /\ allocations'[u][n] \subseteq InTable(ht'[u])
                      /\ \A m \in 1 .. Len(allocations'[u]) :
                           m # n => allocations'[u][m] \cap allocations'[u][n] = {}
    BY DEF Blocks
  <2>1. CASE u # w
    BY <1>2, <1>8, <2>1 DEF RInv, Blocks
  <2>2. CASE u = w
    <3>1. \A k \in 1 .. Len(allocations[w]) :
            /\ allocations[w][k] \subseteq InTable(ht[w])
            /\ \A m \in 1 .. Len(allocations[w]) : m # k => allocations[w][m] \cap allocations[w][k] = {}
      BY <1>2 DEF RInv, Blocks
    <3>2. CASE created = {}
      BY <1>9, <1>10, <2>2, <3>1, <3>2
    <3>3. CASE created # {}
      <4>1. /\ Len(allocations'[w]) = Len(allocations[w]) + 1
            /\ allocations'[w][Len(allocations[w]) + 1] = created
            /\ \A k \in 1 .. Len(allocations[w]) : allocations'[w][k] = allocations[w][k]
            /\ Len(allocations[w]) \in Nat
        BY <1>3, <1>9, <1>10, <3>3
      <4> QED
        BY SMTT(30), <1>10, <2>2, <3>1, <4>1
    <3> QED
      BY <3>2, <3>3
  <2> QED
    BY <2>1, <2>2
<1>14. Results'
  <2>1. ASSUME NEW g \in Groups, PartitionOf(g) = current[w]
        PROVE  /\ Unreturned(g)
               /\ g \in InTable(ht'[w]) => Waiting(w, g)'
    <3>1. merged[w] # Workers
      BY <1>1
    <3>2. Unreturned(g) /\ (g \in InTable(ht[w]) => Waiting(w, g))
      BY <1>2, <2>1, <3>1 DEF RInv, Results
    <3>3. Waiting(w, g) => Waiting(w, g)'
      <4>1. CASE created = {}
        BY <1>9, <4>1 DEF Waiting
      <4>2. CASE created # {}
        <5>1. /\ Len(allocations'[w]) = Len(allocations[w]) + 1
              /\ \A k \in 1 .. Len(allocations[w]) : allocations'[w][k] = allocations[w][k]
              /\ Len(allocations[w]) \in Nat
          BY <1>3, <1>9, <1>10, <4>2
        <5> QED
          BY <5>1 DEF Waiting
      <4> QED
        BY <4>1, <4>2
    <3>4. g \in created => Waiting(w, g)'
      <4> SUFFICES ASSUME g \in created
                   PROVE  Waiting(w, g)'
        OBVIOUS
      <4>1. /\ Len(allocations'[w]) = Len(allocations[w]) + 1
            /\ allocations'[w][Len(allocations[w]) + 1] = created
            /\ Len(allocations[w]) \in Nat
        BY <1>3, <1>9, <1>10
      <4> QED
        BY <4>1 DEF Waiting
    <3> QED
      BY <1>10, <3>2, <3>3, <3>4
  <2>2. ASSUME NEW u \in Workers, NEW g \in Groups, pc'[u] = "aggregate", PartitionOf(g) = current'[u]
        PROVE  IF g \in InTable(ht'[u]) /\ ~Waiting(u, g)'
               THEN Returned(g)' /\ merged'[u] = Workers
               ELSE Unreturned(g)'
    <3>1. CASE u # w
      BY <1>2, <1>8, <1>11, <2>2, <3>1 DEF RInv, Results
    <3>2. CASE u = w
      BY <1>2, <1>11, <2>1, <2>2, <3>2
    <3> QED
      BY <3>1, <3>2
  <2>3. /\ \A g \in Groups : PartitionOf(g) >= partition' => Unreturned(g)'
        /\ \A g \in Groups :
             PartitionOf(g) < partition'
               /\ (\A u \in Workers : pc'[u] = "aggregate" => current'[u] # PartitionOf(g))
             => Returned(g)'
        /\ \A u \in Workers : pc'[u] = "eos" => partition' >= nrPartitions
    BY <1>2, <1>11 DEF RInv, Results
  <2> QED
    BY <2>2, <2>3 DEF Results
<1> QED
  BY <1>12, <1>13, <1>14 DEF RInv

\* Every tuple of a group is in the table when all workers' parts are merged.
LEMMA MergedAll ==
  ASSUME RInv, PInv, IInv, NEW w \in Workers, pc[w] = "aggregate", merged[w] = Workers,
         NEW g \in Groups, NEW t \in Tuples
  PROVE  ht[w][g][t] = IF key[t] = g /\ PartitionOf(g) = current[w] THEN 1 ELSE 0
<1>1. PICK home : Spread(home)
  BY AllSpilled DEF InPhase2
<1>2. Taken(w, t)
  <2>1. home[t] \in Workers
    BY <1>1 DEF Spread
  <2> QED
    BY <1>1, <2>1, TakenIsHome
<1> QED
  BY <1>2 DEF RInv, Merged

\* The groups of a block are returned, with all that belongs to them.
LEMMA EmitResults ==
  ASSUME RInv, PInv, IInv, NEW w \in Workers, Emit(w)
  PROVE  RInv'
<1> DEFINE block == allocations[w][1]
<1>1. /\ pc[w] = "aggregate" /\ merged[w] = Workers /\ allocations[w] # <<>>
      /\ rows' = [g \in Groups |-> IF g \in block THEN rows[g] + 1 ELSE rows[g]]
      /\ result' = [g \in Groups |-> IF g \in block THEN Plus(result[g], ht[w][g]) ELSE result[g]]
      /\ allocations' = [allocations EXCEPT ![w] = Tail(@)]
      /\ UNCHANGED <<key, pc, ht, spillStorage, partition, current, merged>>
  BY DEF Emit, phase1Vars
<1>2. /\ ht \in [Workers -> Table] /\ allocations \in [Workers -> Seq(SUBSET Groups)]
      /\ rows \in [Groups -> Nat] /\ result \in Table /\ key \in [Tuples -> Groups]
      /\ current \in [Workers -> Nat] /\ partition \in Nat
  BY DEF PInv, DataTypeOK, IInv, PlacesTypeOK
<1> HIDE DEF block
<1>3. /\ Len(allocations'[w]) = Len(allocations[w]) - 1 /\ Len(allocations[w]) \in Nat \ {0}
      /\ \A n \in 1 .. Len(allocations[w]) - 1 : allocations'[w][n] = allocations[w][n + 1]
      /\ \A u \in Workers : u # w => allocations'[u] = allocations[u]
  <2>1. allocations[w] \in Seq(SUBSET Groups) /\ allocations'[w] = Tail(allocations[w])
    BY <1>1, <1>2
  <2> QED
    BY <1>1, <1>2, <2>1
<1>4. \A k \in 1 .. Len(allocations[w]) :
        /\ allocations[w][k] \subseteq InTable(ht[w])
        /\ \A m \in 1 .. Len(allocations[w]) : m # k => allocations[w][m] \cap allocations[w][k] = {}
  BY <1>1 DEF RInv, Blocks
<1>5. ASSUME NEW g \in block
      PROVE  /\ g \in Groups /\ PartitionOf(g) = current[w] /\ Returned(g)' /\ ~Waiting(w, g)'
  <2>1. g \in InTable(ht[w]) /\ Waiting(w, g)
    BY <1>3, <1>4, <1>5 DEF block, Waiting
  <2>2. g \in Groups
    BY <2>1 DEF InTable
  <2>3. PICK t \in Tuples : ht[w][g][t] # 0
    BY <1>2, <2>1, <2>2, InTableFacts
  <2>4. key[t] = g /\ PartitionOf(g) = current[w]
    BY <1>1, <2>2, <2>3, MergedAll
  <2>5. Unreturned(g)
    BY <1>1, <2>1, <2>2, <2>4 DEF RInv, Results
  <2>6. rows'[g] = 1
    BY <1>1, <1>5, <2>2, <2>5 DEF Unreturned
  <2>7. ASSUME NEW s \in Tuples
        PROVE  result'[g][s] = IF key'[s] = g THEN 1 ELSE 0
    <3>1. result'[g] = Plus(result[g], ht[w][g])
      BY <1>1, <1>5, <2>2
    <3>2. result'[g][s] = result[g][s] + ht[w][g][s]
      BY <3>1 DEF Plus
    <3>3. result[g][s] = 0
      BY <2>5 DEF Unreturned
    <3>4. ht[w][g][s] = IF key[s] = g THEN 1 ELSE 0
      BY <1>1, <2>2, <2>4, MergedAll
    <3> QED
      BY <1>1, <3>2, <3>3, <3>4
  <2>8. Returned(g)'
    BY <1>1, <2>4, <2>6, <2>7 DEF Returned
  <2>9. ~Waiting(w, g)'
    <3> SUFFICES ASSUME NEW n \in 1 .. Len(allocations'[w]), g \in allocations'[w][n]
                 PROVE  FALSE
      BY DEF Waiting
    <3>1. n + 1 \in 1 .. Len(allocations[w]) /\ 1 \in 1 .. Len(allocations[w]) /\ n + 1 # 1
      BY <1>3
    <3>2. g \in allocations[w][n + 1]
      BY <1>3
    <3> QED
      BY <1>4, <1>5, <3>1, <3>2 DEF block
  <2> QED
    BY <2>2, <2>4, <2>8, <2>9
<1>6. ASSUME NEW g \in Groups, g \notin block
      PROVE  /\ Unreturned(g)' <=> Unreturned(g)
             /\ Returned(g)' <=> Returned(g)
             /\ Waiting(w, g)' <=> Waiting(w, g)
  <2>1. rows'[g] = rows[g] /\ result'[g] = result[g]
    BY <1>1, <1>6
  <2>2. ASSUME Waiting(w, g)
        PROVE  Waiting(w, g)'
    <3>1. PICK n \in 1 .. Len(allocations[w]) : g \in allocations[w][n]
      BY <2>2 DEF Waiting
    <3>2. n # 1
      BY <1>6, <3>1 DEF block
    <3>3. n - 1 \in 1 .. Len(allocations'[w]) /\ allocations'[w][n - 1] = allocations[w][n]
      BY <1>3, <3>1, <3>2
    <3> QED
      BY <3>1, <3>3 DEF Waiting
  <2>3. ASSUME Waiting(w, g)'
        PROVE  Waiting(w, g)
    <3>1. PICK n \in 1 .. Len(allocations'[w]) : g \in allocations'[w][n]
      BY <2>3 DEF Waiting
    <3>2. n + 1 \in 1 .. Len(allocations[w]) /\ allocations[w][n + 1] = allocations'[w][n]
      BY <1>3, <3>1
    <3> QED
      BY <3>1, <3>2 DEF Waiting
  <2> QED
    BY <1>1, <2>1, <2>2, <2>3 DEF Unreturned, Returned
<1>7. ASSUME NEW u \in Workers
      PROVE  \A t \in Tuples : Taken(u, t)' <=> Taken(u, t)
  BY <1>1 DEF Taken
<1>8. Merged'
  BY <1>1, <1>7 DEF RInv, Merged
<1>9. Blocks'
  <2> SUFFICES ASSUME NEW u \in Workers, pc'[u] = "aggregate",
                      NEW n \in 1 .. Len(allocations'[u])
               PROVE  /\ allocations'[u][n] \subseteq InTable(ht'[u])
                      /\ \A m \in 1 .. Len(allocations'[u]) :
                           m # n => allocations'[u][m] \cap allocations'[u][n] = {}
    BY DEF Blocks
  <2>1. CASE u # w
    BY <1>1, <1>3, <2>1 DEF RInv, Blocks
  <2>2. CASE u = w
    <3>1. \A m \in 1 .. Len(allocations'[w]) :
            /\ m + 1 \in 1 .. Len(allocations[w]) /\ allocations'[w][m] = allocations[w][m + 1]
            /\ m # n => m + 1 # n + 1
      BY SMTT(30), <1>3, <2>2
    <3>2. n + 1 \in 1 .. Len(allocations[w]) /\ allocations'[w][n] = allocations[w][n + 1]
      BY <2>2, <3>1
    <3>3. allocations[w][n + 1] \subseteq InTable(ht[w])
      BY <1>4, <3>2
    <3>4. ASSUME NEW m \in 1 .. Len(allocations'[w]), m # n
          PROVE  allocations'[w][m] \cap allocations'[w][n] = {}
      BY <1>4, <3>1, <3>2, <3>4
    <3> QED
      BY <1>1, <2>2, <3>2, <3>3, <3>4
  <2> QED
    BY <2>1, <2>2
<1>10. Results'
  <2>1. ASSUME NEW g \in Groups, PartitionOf(g) >= partition'
        PROVE  Unreturned(g)'
    <3>1. PartitionOf(g) # current[w]
      BY <1>1, <1>2, <2>1 DEF IInv, Claims
    <3>2. g \notin block
      BY <1>5, <3>1
    <3> QED
      BY <1>1, <1>6, <2>1, <3>2 DEF RInv, Results
  <2>2. ASSUME NEW u \in Workers, NEW g \in Groups, pc'[u] = "aggregate", PartitionOf(g) = current'[u]
        PROVE  IF g \in InTable(ht'[u]) /\ ~Waiting(u, g)'
               THEN Returned(g)' /\ merged'[u] = Workers
               ELSE Unreturned(g)'
    <3>1. CASE u # w
      <4>1. PartitionOf(g) # current[w]
        BY <1>1, <2>2, <3>1 DEF IInv, Claims, PartitionsApart
      <4>2. g \notin block
        BY <1>5, <4>1
      <4>3. Waiting(u, g)' <=> Waiting(u, g)
        BY <1>3, <3>1 DEF Waiting
      <4> QED
        BY <1>1, <1>6, <2>2, <4>2, <4>3 DEF RInv, Results
    <3>2. CASE u = w /\ g \in block
      <4>1. g \in InTable(ht[w])
        BY <1>3, <1>4, <3>2 DEF block
      <4> QED
        BY <1>1, <1>5, <3>2, <4>1
    <3>3. CASE u = w /\ g \notin block
      BY <1>1, <1>6, <2>2, <3>3 DEF RInv, Results
    <3> QED
      BY <3>1, <3>2, <3>3
  <2>3. ASSUME NEW g \in Groups, PartitionOf(g) < partition',
               \A v \in Workers : pc'[v] = "aggregate" => current'[v] # PartitionOf(g)
        PROVE  Returned(g)'
    <3>1. g \notin block
      BY <1>1, <1>5, <2>3
    <3> QED
      BY <1>1, <1>6, <2>3, <3>1 DEF RInv, Results
  <2>4. \A u \in Workers : pc'[u] = "eos" => partition' >= nrPartitions
    BY <1>1 DEF RInv, Results
  <2> QED
    BY <2>1, <2>2, <2>3, <2>4 DEF Results
<1> QED
  BY <1>8, <1>9, <1>10 DEF RInv

\* The partition is finished: all its groups have been returned.
LEMMA ClearTableResults ==
  ASSUME RInv, PInv, IInv, NEW w \in Workers, ClearTable(w)
  PROVE  RInv'
<1>1. /\ pc[w] = "aggregate" /\ merged[w] = Workers /\ allocations[w] = <<>>
      /\ pc' = [pc EXCEPT ![w] = "claim"]
      /\ ht' = [ht EXCEPT ![w] = NoGroups]
      /\ UNCHANGED <<key, spillStorage, phase2Vars>>
  BY DEF ClearTable, Goto, phase1Vars
<1>2. pc \in [Workers -> PlaceNames] /\ ht \in [Workers -> Table]
  BY DEF PInv, DataTypeOK, IInv, PlacesTypeOK
<1>3. ASSUME NEW u \in Workers
      PROVE  /\ pc'[u] = "aggregate" <=> u # w /\ pc[u] = "aggregate"
             /\ pc'[u] = "eos" => pc[u] = "eos"
             /\ u # w => ht'[u] = ht[u]
             /\ \A t \in Tuples : Taken(u, t)' <=> Taken(u, t)
             /\ \A g \in Groups : Waiting(u, g)' <=> Waiting(u, g)
  BY <1>1, <1>2 DEF Taken, Waiting, phase2Vars
<1>4. \A g \in Groups : (Unreturned(g)' <=> Unreturned(g)) /\ (Returned(g)' <=> Returned(g))
  <2> SUFFICES ASSUME NEW g \in Groups
               PROVE  (Unreturned(g)' <=> Unreturned(g)) /\ (Returned(g)' <=> Returned(g))
    OBVIOUS
  <2> QED
    BY <1>1 DEF Unreturned, Returned, phase2Vars
<1>5. ASSUME NEW g \in Groups, PartitionOf(g) = current[w]
      PROVE  Returned(g)
  <2>1. ~Waiting(w, g)
    <3>1. Len(allocations[w]) = 0
      BY <1>1
    <3> QED
      BY <3>1 DEF Waiting
  <2>2. CASE g \in InTable(ht[w])
    BY <1>1, <1>5, <2>1, <2>2 DEF RInv, Results
  <2>3. CASE g \notin InTable(ht[w])
    <3>1. \A t \in Tuples : ht[w][g][t] = 0
      BY <1>2, <2>3, InTableFacts
    <3>2. \A t \in Tuples : key[t] # g
      BY <1>1, <1>5, <3>1, MergedAll
    <3>3. Unreturned(g)
      BY <1>1, <1>5, <2>3 DEF RInv, Results
    <3> QED
      BY <3>2, <3>3 DEF Unreturned, Returned
  <2> QED
    BY <2>2, <2>3
<1>6. Merged'
  BY <1>1, <1>3 DEF RInv, Merged, phase2Vars
<1>7. Blocks'
  BY <1>1, <1>3 DEF RInv, Blocks, phase2Vars
<1>8. Results'
  <2>1. UNCHANGED <<partition, current, merged>>
    BY <1>1 DEF phase2Vars
  <2>2. ASSUME NEW g \in Groups, PartitionOf(g) < partition',
               \A v \in Workers : pc'[v] = "aggregate" => current'[v] # PartitionOf(g)
        PROVE  Returned(g)'
    <3>1. CASE PartitionOf(g) = current[w]
      BY <1>4, <1>5, <3>1
    <3>2. CASE PartitionOf(g) # current[w]
      <4>1. \A v \in Workers : pc[v] = "aggregate" => current[v] # PartitionOf(g)
        BY <1>3, <2>1, <2>2, <3>2
      <4> QED
        BY <1>4, <2>1, <2>2, <4>1 DEF RInv, Results
    <3> QED
      BY <3>1, <3>2
  <2>3. ASSUME NEW u \in Workers, NEW g \in Groups, pc'[u] = "aggregate", PartitionOf(g) = current'[u]
        PROVE  IF g \in InTable(ht'[u]) /\ ~Waiting(u, g)'
               THEN Returned(g)' /\ merged'[u] = Workers
               ELSE Unreturned(g)'
    BY <1>3, <1>4, <2>1, <2>3 DEF RInv, Results
  <2>4. /\ \A g \in Groups : PartitionOf(g) >= partition' => Unreturned(g)'
        /\ \A u \in Workers : pc'[u] = "eos" => partition' >= nrPartitions
    BY <1>3, <1>4, <2>1 DEF RInv, Results
  <2> QED
    BY <2>2, <2>3, <2>4 DEF Results
<1> QED
  BY <1>6, <1>7, <1>8 DEF RInv

\* The inductive invariant of the answer (Operators.cpp, 855-890): what is in
\* the table of the owner of a partition, and which groups are returned.
THEOREM ResultsInductive == Spec => []RInv
<1>1. Init => RInv
  <2> SUFFICES ASSUME Init
               PROVE  RInv
    OBVIOUS
  <2>1. \A w \in Workers : pc[w] = "consume"
    BY DEF Init
  <2>2. \A g \in Groups : Unreturned(g)
    BY DEF Init, Unreturned, NoGroups, Zero
  <2>3. \A g \in Groups : ~(PartitionOf(g) < partition)
    BY PartitionType, HashGroupAssumption DEF Init
  <2> QED
    BY <2>1, <2>2, <2>3 DEF RInv, Merged, Blocks, Results
<1>2. IInv /\ PInv /\ RInv /\ [Next]_vars => RInv'
  <2> SUFFICES ASSUME IInv, PInv, RInv, [Next]_vars
               PROVE  RInv'
    OBVIOUS
  <2>1. ASSUME NEW w \in Workers, Worker(w)
        PROVE  RInv'
    BY <2>1, Phase1Results, ClaimResults, AggregateResults, EmitResults, ClearTableResults DEF Worker
  <2>2. CASE BarrierStep \/ UNCHANGED vars
    <3>1. UNCHANGED <<key, pc, ht, phase1Vars, phase2Vars>>
      BY <2>2 DEF BarrierStep, vars
    <3> QED
      BY <3>1, QuietResults DEF phase1Vars, phase2Vars
  <2> QED
    BY <2>1, <2>2 DEF Next, Stop
<1> QED
  BY <1>1, <1>2, Inductive, PlacesInductive, PTL DEF Spec

\* However the tuples are spread over workers, vectors and flushes, and
\* whoever claims which partition: one row for each group, with every tuple of
\* it once (Operators.cpp, 815-890).
THEOREM GroupsOnce == Spec => []GroupsExact
<1>1. IInv /\ RInv => GroupsExact
  <2> SUFFICES ASSUME IInv, RInv, Finished, NEW g \in Groups
               PROVE  Returned(g)
    BY DEF GroupsExact, Returned
  <2>1. PICK w \in Workers : pc[w] = "eos"
    BY HashGroupAssumption DEF Finished
  <2>2. PartitionOf(g) < partition
    BY <2>1, PartitionType, HashGroupAssumption DEF RInv, Results, IInv, PlacesTypeOK
  <2>3. \A v \in Workers : pc[v] # "aggregate"
    BY DEF Finished
  <2> QED
    BY <2>2, <2>3 DEF RInv, Results
<1> QED
  BY <1>1, Inductive, ResultsInductive, PTL
=============================================================================
