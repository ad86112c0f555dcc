-------------------------- MODULE HashBuildProofs --------------------------
(***************************************************************************)
(* Proofs about module HashBuild: once a worker probes, the hash table of  *)
(* the join is at rest, so that its chains may be walked without a lock.   *)
(*                                                                         *)
(* The phases of the build are told apart by two numbers: how often a      *)
(* worker has entered the barrier, which its place in next() tells         *)
(* (Places), and how often the barrier has let its workers go, which no    *)
(* worker is behind (Gathered).                                            *)
(***************************************************************************)
EXTENDS HashBuild, NaturalFacts, SequenceTheorems, TLAPS

PlaceNames == {"build", "add", "enter", "wait", "insert", "cas", "probe", "eos"}

\* The variables that the argument is about, within their types.
PlacesTypeOK ==
  /\ pc \in [Workers -> PlaceNames]
  /\ entered \in [Workers -> Nat]
  /\ finalized \in Nat /\ tripped \in Nat

\* The barriers that a worker has entered, by its place; a worker probes after
\* the second.
Places ==
  \A w \in Workers :
    /\ pc[w] \in {"build", "add"} => entered[w] = 0
    /\ pc[w] = "enter" => entered[w] < 2
    /\ pc[w] = "wait" => entered[w] \in {1, 2}
    /\ pc[w] \in {"insert", "cas", "eos"} => entered[w] = 1
    /\ pc[w] = "probe" => entered[w] = 2 /\ tripped = 2

\* The barrier lets go of its workers when all of them have entered it.
Gathered == tripped <= finalized /\ \A w \in Workers : finalized <= entered[w]

IInv == PlacesTypeOK /\ Places /\ Gathered

-----------------------------------------------------------------------------
\* The steps outside of the barrier: a worker moves on between two barriers.
LEMMA WorkStep ==
  ASSUME NEW w \in Workers, IInv,
         Materialize(w) \/ BuildEnds(w) \/ AddFound(w) \/ LoadSlot(w) \/ CompareExchange(w)
           \/ InsertEnds(w)
  PROVE  IInv'
<1>1. UNCHANGED <<entered, finalized, tripped>>
  BY DEF Materialize, BuildEnds, AddFound, LoadSlot, CompareExchange, InsertEnds, barrierVars
<1>2. PICK place \in PlaceNames :
        /\ pc' = [pc EXCEPT ![w] = place]
        /\ pc[w] = "build" => place \in {"build", "add"}
        /\ pc[w] = "add" => place = "enter"
        /\ pc[w] \in {"insert", "cas"} => place \in {"insert", "cas", "enter"}
        /\ pc[w] \in {"build", "add", "insert", "cas"}
  <2>1. CASE Materialize(w) \/ CompareExchange(w)
    BY <2>1 DEF Materialize, CompareExchange, Goto, IInv, PlacesTypeOK, PlaceNames
  <2>2. CASE BuildEnds(w) \/ AddFound(w) \/ LoadSlot(w) \/ InsertEnds(w)
    BY <2>2 DEF BuildEnds, AddFound, LoadSlot, InsertEnds, Goto, PlaceNames
  <2> QED
    BY <2>1, <2>2
<1>3. PlacesTypeOK'
  BY <1>1, <1>2 DEF IInv, PlacesTypeOK
<1>4. Places'
  BY <1>1, <1>2 DEF IInv, PlacesTypeOK, Places
<1>5. Gathered'
  BY <1>1 DEF IInv, Gathered
<1> QED
  BY <1>3, <1>4, <1>5 DEF IInv

LEMMA EnterStep ==
  ASSUME NEW w \in Workers, IInv, EnterBarrier(w)
  PROVE  IInv'
<1>1. /\ pc[w] = "enter" /\ pc' = [pc EXCEPT ![w] = "wait"]
      /\ entered[w] < 2 /\ entered' = [entered EXCEPT ![w] = @ + 1]
      /\ UNCHANGED <<finalized, tripped>>
  BY DEF EnterBarrier, R!Enter, Goto
<1>2. PlacesTypeOK'
  BY <1>1 DEF IInv, PlacesTypeOK, PlaceNames
<1>3. Places'
  BY <1>1 DEF IInv, PlacesTypeOK, Places
<1>4. Gathered'
  BY <1>1 DEF IInv, PlacesTypeOK, Gathered
<1> QED
  BY <1>2, <1>3, <1>4 DEF IInv

LEMMA LeaveStep ==
  ASSUME NEW w \in Workers, IInv, LeaveBarrier(w)
  PROVE  IInv'
<1>1. /\ pc[w] = "wait" /\ tripped = entered[w]
      /\ pc' = [pc EXCEPT ![w] = IF tripped = 2 THEN "probe"
                                 ELSE IF found = 0 THEN "eos" ELSE "insert"]
      /\ UNCHANGED <<entered, finalized, tripped>>
  BY DEF LeaveBarrier, Goto, barrierVars
<1>2. PlacesTypeOK'
  BY <1>1 DEF IInv, PlacesTypeOK, PlaceNames
<1>3. Places'
  BY <1>1 DEF IInv, PlacesTypeOK, Places
<1>4. Gathered'
  BY <1>1 DEF IInv, Gathered
<1> QED
  BY <1>2, <1>3, <1>4 DEF IInv

\* Nobody probes before the second release, and there is no third one.
LEMMA ReleaseStep ==
  ASSUME IInv, Finalizer \/ Trip
  PROVE  IInv'
<1>1. UNCHANGED <<pc, entered>>
  BY DEF Finalizer, Trip, R!Finalize, R!Trip
<1>2. PlacesTypeOK'
  BY <1>1 DEF Finalizer, Trip, R!Finalize, R!Trip, IInv, PlacesTypeOK
<1>3. Gathered'
  BY <1>1 DEF Finalizer, Trip, R!Finalize, R!Trip, IInv, PlacesTypeOK, Gathered
<1>4. ASSUME NEW w \in Workers, pc[w] = "probe"
      PROVE  UNCHANGED tripped
  <2>1. tripped = 2 /\ entered[w] = 2 /\ finalized = 2
    BY <1>4 DEF IInv, PlacesTypeOK, Places, Gathered
  <2> QED
    BY <1>4, <2>1 DEF Finalizer, Trip, R!Finalize, R!Trip
<1>5. Places'
  BY <1>1, <1>4 DEF IInv, Places
<1> QED
  BY <1>2, <1>3, <1>5 DEF IInv

\* The inductive invariant of the build (Operators.cpp, 749-780): what the two
\* barriers keep apart.
THEOREM Inductive == Spec => []IInv
<1>1. Init => IInv
  BY DEF Init, R!Init, IInv, PlacesTypeOK, PlaceNames, Places, Gathered
<1>2. IInv /\ [Next]_vars => IInv'
  <2> SUFFICES ASSUME IInv, [Next]_vars
               PROVE  IInv'
    OBVIOUS
  <2>1. ASSUME NEW w \in Workers, Worker(w)
        PROVE  IInv'
    BY <2>1, WorkStep, EnterStep, LeaveStep DEF Worker
  <2>2. CASE Finalizer \/ Trip
    BY <2>2, ReleaseStep
  <2>3. CASE UNCHANGED vars
    BY <2>3 DEF vars, barrierVars, IInv, PlacesTypeOK, Places, Gathered
  <2> QED
    BY <2>1, <2>2, <2>3 DEF Next, Stop
<1> QED
  BY <1>1, <1>2, PTL DEF Spec

\* find_chain_tagged and the join functions read the table with relaxed loads
\* and without a lock (Hashmap.hpp:136, Operators.cpp:159): while one worker
\* probes, no other one still inserts or sizes the table.
THEOREM ProbedAtRest == Spec => FrozenWhileProbed
<1>1. IInv /\ [Next]_vars =>
        [(\E w \in Workers : pc[w] = "probe") => UNCHANGED <<slots, next>>]_vars
  <2> SUFFICES ASSUME IInv, Next, NEW w \in Workers, pc[w] = "probe"
               PROVE  UNCHANGED <<slots, next>>
    BY DEF vars, tableVars
  <2>1. \A v \in Workers : entered[v] >= 2
    BY DEF IInv, PlacesTypeOK, Places, Gathered
  <2>2. ASSUME NEW v \in Workers, Worker(v)
        PROVE  UNCHANGED <<slots, next>>
    <3>1. pc[v] # "cas"
      BY <2>1 DEF IInv, Places
    <3> QED
      BY <2>2, <3>1 DEF Worker, Materialize, BuildEnds, AddFound, EnterBarrier, LeaveBarrier,
         LoadSlot, CompareExchange, InsertEnds, tableVars
  <2>3. CASE Finalizer
    <3>1. finalized >= 2
      BY DEF IInv, PlacesTypeOK, Places, Gathered
    <3> QED
      BY <2>3, <3>1 DEF Finalizer, tableVars
  <2>4. CASE Trip \/ Stop
    BY <2>4 DEF Trip, Stop, vars, tableVars
  <2> QED
    BY <2>2, <2>3, <2>4 DEF Next
<1> QED
  BY <1>1, Inductive, PTL DEF Spec, FrozenWhileProbed

-----------------------------------------------------------------------------
(***************************************************************************)
(* What the workers hold, how it is counted, and that the table is sized   *)
(* for it.                                                                 *)
(***************************************************************************)
Slot == [head : Rows \cup {End}, tags : SUBSET Int]

BuildTypeOK ==
  /\ hash \in [Rows -> Nat]
  /\ next \in [Rows -> Rows \cup {End}]
  /\ left \in SUBSET Rows
  /\ allocations \in [Workers -> Seq(Rows)]
  /\ inserted \in [Workers -> Nat]
  /\ loc \in [Workers -> Slot]
  /\ found \in Nat /\ capacity \in Nat
  /\ slots \in [0 .. capacity - 1 -> Slot]

\* Each tuple is in one place: not given out yet, or an entry of one worker.
Owned ==
  /\ \A w \in Workers : inserted[w] <= Len(allocations[w])
  /\ \A w \in Workers : \A n \in 1 .. Len(allocations[w]) : allocations[w][n] \notin left
  /\ \A v, w \in Workers : \A m \in 1 .. Len(allocations[v]), n \in 1 .. Len(allocations[w]) :
       allocations[v][m] = allocations[w][n] => v = w /\ m = n

\* Somebody fetches what is left.
Fetched == left = {} \/ \E w \in Workers : pc[w] = "build"

\* The worker is past the first barrier, and not because there was nothing.
Inserting(w) ==
  pc[w] \in {"insert", "cas"} \/ (pc[w] = "enter" /\ entered[w] = 1) \/ entered[w] = 2

\* Nothing is inserted before the first barrier, all before the second.
Progress ==
  \A w \in Workers :
    /\ inserted[w] > 0 => Inserting(w)
    /\ pc[w] = "cas" => inserted[w] < Len(allocations[w])
    /\ (pc[w] = "enter" /\ entered[w] = 1) \/ entered[w] = 2 => inserted[w] = Len(allocations[w])

\* The entries of a worker, and those that have been added to `found`.
Mine(w) == {allocations[w][n] : n \in 1 .. Len(allocations[w])}
Adders == {w \in Workers : pc[w] \notin {"build", "add"}}
Counted == UNION {Mine(w) : w \in Adders}
Counting == found = Cardinality(Counted)

Sizing ==
  /\ \A w \in Workers : Inserting(w) => finalized > 0 /\ found > 0
  /\ finalized > 0 /\ found > 0 => capacity > found
  /\ finalized = 0 => capacity = 0

BInv == BuildTypeOK /\ Owned /\ Fetched /\ Progress /\ Counting /\ Sizing

-----------------------------------------------------------------------------
LEMMA SlotInTable ==
  ASSUME NEW a \in Nat, NEW c \in Nat, c > 0
  PROVE  a % c \in 0 .. c - 1
OBVIOUS

LEMMA TagType ==
  ASSUME NEW h \in Nat
  PROVE  Tag(h) \in Int
BY HashBuildAssumption DEF Tag

\* The entry that a worker is about to insert is one of its own.
LEMMA EntryFacts ==
  ASSUME BInv, NEW w \in Workers, inserted[w] < Len(allocations[w])
  PROVE  /\ inserted[w] + 1 \in 1 .. Len(allocations[w])
         /\ Entry(w) \in Rows
<1>1. inserted[w] \in Nat /\ allocations[w] \in Seq(Rows) /\ Len(allocations[w]) \in Nat
  BY DEF BInv, BuildTypeOK
<1> QED
  BY <1>1, ElementOfSeq DEF Entry

LEMMA SlotFacts ==
  ASSUME BInv, NEW w \in Workers, Inserting(w), NEW e \in Rows
  PROVE  /\ capacity \in Nat /\ capacity > 0
         /\ SlotOf(e) \in 0 .. capacity - 1
         /\ slots[SlotOf(e)] \in Slot
<1>1. capacity \in Nat /\ capacity > 0 /\ hash[e] \in Nat
  BY DEF BInv, BuildTypeOK, Sizing
<1>2. SlotOf(e) \in 0 .. capacity - 1
  BY <1>1, SlotInTable DEF SlotOf
<1> QED
  BY <1>1, <1>2 DEF BInv, BuildTypeOK

\* The entries of a worker are as many as it has counted.
LEMMA MineCounted ==
  ASSUME BInv, NEW w \in Workers
  PROVE  IsFiniteSet(Mine(w)) /\ Cardinality(Mine(w)) = Len(allocations[w])
<1> DEFINE len == Len(allocations[w])
           f == [n \in 1 .. len |-> allocations[w][n]]
<1>1. len \in Nat
  BY DEF BInv, BuildTypeOK
<1>2. f \in Bijection(1 .. len, Mine(w))
  <2>1. f \in [1 .. len -> Mine(w)]
    BY DEF Mine
  <2>2. \A m, n \in 1 .. len : f[m] = f[n] => m = n
    BY DEF BInv, Owned
  <2>3. \A e \in Mine(w) : \E n \in 1 .. len : f[n] = e
    BY DEF Mine
  <2> HIDE DEF f
  <2> QED
    BY <2>1, <2>2, <2>3 DEF Bijection, Injection, Surjection, IsInjective
<1>3. ExistsBijection(1 .. len, Mine(w))
  BY <1>2 DEF ExistsBijection
<1> QED
  BY <1>1, <1>3, FS_CountingElements, FS_NatBijection

LEMMA CountedFinite ==
  ASSUME BInv
  PROVE  IsFiniteSet(Counted) /\ Counted \in SUBSET Rows
<1>1. Counted \in SUBSET Rows
  BY ElementOfSeq DEF Counted, Mine, Adders, BInv, BuildTypeOK
<1> QED
  BY <1>1, FS_Subset, HashBuildAssumption

-----------------------------------------------------------------------------
LEMMA MaterializeStep ==
  ASSUME IInv, BInv, NEW w \in Workers, Materialize(w)
  PROVE  BInv'
<1>1. PICK e \in left : /\ left' = left \ {e}
                        /\ allocations' = [allocations EXCEPT ![w] = Append(@, e)]
  BY DEF Materialize
<1>2. /\ pc[w] = "build"
      /\ UNCHANGED <<hash, next, pc, inserted, loc, found, capacity, slots,
                     entered, finalized, tripped>>
  BY DEF Materialize, tableVars, barrierVars
<1> DEFINE len == Len(allocations[w])
<1>3. e \in Rows /\ allocations \in [Workers -> Seq(Rows)] /\ allocations[w] \in Seq(Rows)
      /\ len \in Nat
  BY <1>1 DEF BInv, BuildTypeOK
<1>4. /\ allocations' \in [Workers -> Seq(Rows)]
      /\ Len(allocations'[w]) = len + 1
      /\ \A n \in 1 .. len : allocations'[w][n] = allocations[w][n]
      /\ allocations'[w][len + 1] = e
      /\ \A v \in Workers : v # w => allocations'[v] = allocations[v]
  BY <1>1, <1>3, AppendProperties
<1>5. BuildTypeOK'
  BY <1>1, <1>2, <1>4 DEF BInv, BuildTypeOK
<1>6. Owned'
  <2>1. \A v \in Workers : inserted'[v] <= Len(allocations'[v])
    <3> SUFFICES ASSUME NEW v \in Workers
                 PROVE  inserted[v] <= Len(allocations'[v])
      BY <1>2
    <3>1. inserted[v] \in Nat /\ inserted[v] <= Len(allocations[v])
      BY DEF BInv, BuildTypeOK, Owned
    <3>2. CASE v = w
      BY <1>3, <1>4, <3>1, <3>2
    <3>3. CASE v # w
      BY <1>4, <3>1, <3>3
    <3> QED
      BY <3>2, <3>3
  <2>2. ASSUME NEW v \in Workers, NEW n \in 1 .. Len(allocations'[v])
        PROVE  \/ v = w /\ n = len + 1 /\ allocations'[v][n] = e
               \/ /\ n \in 1 .. Len(allocations[v])
                  /\ allocations'[v][n] = allocations[v][n]
                  /\ allocations[v][n] \notin left
    BY <1>3, <1>4 DEF BInv, Owned
  <2>3. \A v \in Workers : \A n \in 1 .. Len(allocations'[v]) : allocations'[v][n] \notin left'
    BY <1>1, <2>2
  <2>4. ASSUME NEW u \in Workers, NEW v \in Workers, NEW m \in 1 .. Len(allocations'[u]),
               NEW n \in 1 .. Len(allocations'[v]), allocations'[u][m] = allocations'[v][n]
        PROVE  u = v /\ m = n
    BY <1>1, <2>2, <2>4 DEF BInv, Owned
  <2> QED
    BY <2>1, <2>3, <2>4 DEF Owned
<1>7. Fetched'
  BY <1>2 DEF Fetched
<1>8. Progress'
  BY <1>2, <1>4 DEF BInv, Progress, Inserting, IInv, Places
<1>9. Counting'
  <2>1. w \notin Adders /\ Adders' = Adders
    BY <1>2 DEF Adders
  <2>2. \A v \in Adders : Mine(v)' = Mine(v)
    <3> SUFFICES ASSUME NEW v \in Adders
                 PROVE  Mine(v)' = Mine(v)
      OBVIOUS
    <3>1. v \in Workers /\ v # w
      BY <2>1 DEF Adders
    <3>2. allocations'[v] = allocations[v]
      BY <1>4, <3>1
    <3> QED
      BY <3>2 DEF Mine
  <2> QED
    BY <1>2, <2>1, <2>2 DEF BInv, Counting, Counted
<1>10. Sizing'
  BY <1>2 DEF BInv, Sizing, Inserting
<1> QED
  BY <1>5, <1>6, <1>7, <1>8, <1>9, <1>10 DEF BInv

LEMMA AddFoundStep ==
  ASSUME IInv, BInv, NEW w \in Workers, AddFound(w)
  PROVE  BInv'
<1>1. /\ pc[w] = "add" /\ pc' = [pc EXCEPT ![w] = "enter"]
      /\ found' = found + Len(allocations[w])
      /\ UNCHANGED <<hash, next, left, allocations, inserted, loc, capacity, slots,
                     entered, finalized, tripped>>
  BY DEF AddFound, Goto, tableVars, barrierVars
<1>2. entered[w] = 0 /\ finalized = 0 /\ pc \in [Workers -> PlaceNames]
  BY <1>1 DEF IInv, PlacesTypeOK, Places, Gathered
<1>3. Len(allocations[w]) \in Nat /\ inserted[w] \in Nat
  BY DEF BInv, BuildTypeOK
<1>4. BuildTypeOK' /\ Owned'
  BY <1>1, <1>3 DEF BInv, BuildTypeOK, Owned
<1>5. Fetched'
  BY <1>1, <1>2 DEF BInv, Fetched
<1>6. \A v \in Workers : ~Inserting(v) /\ ~Inserting(v)'
  BY <1>1, <1>2 DEF BInv, Sizing, Inserting
<1>7. Progress'
  BY <1>1, <1>2, <1>6 DEF BInv, Progress, Inserting
<1>8. Counting'
  <2>1. Adders' = Adders \cup {w} /\ w \notin Adders
    BY <1>1, <1>2 DEF Adders
  <2>2. \A v \in Workers : Mine(v)' = Mine(v)
    BY <1>1 DEF Mine
  <2>3. Counted' = Counted \cup Mine(w)
    BY <2>1, <2>2 DEF Counted, Adders
  <2>4. Counted \cap Mine(w) = {}
    BY <2>1 DEF Counted, Mine, Adders, BInv, Owned
  <2>5. Cardinality(Counted \cup Mine(w)) = Cardinality(Counted) + Cardinality(Mine(w)) - 0
    BY <2>4, CountedFinite, MineCounted, FS_Union, FS_EmptySet
  <2>6. Cardinality(Counted) \in Nat
    BY CountedFinite, FS_CardinalityType
  <2> QED
    BY <1>1, <1>3, <2>3, <2>5, <2>6, MineCounted DEF BInv, Counting
<1>9. Sizing'
  BY <1>1, <1>2, <1>6 DEF BInv, Sizing
<1> QED
  BY <1>4, <1>5, <1>7, <1>8, <1>9 DEF BInv

\* The steps that only move a worker on, or load a slot.
LEMMA MoveStep ==
  ASSUME IInv, BInv, NEW w \in Workers,
         BuildEnds(w) \/ EnterBarrier(w) \/ LeaveBarrier(w) \/ LoadSlot(w) \/ InsertEnds(w)
  PROVE  BInv'
<1>1. UNCHANGED <<hash, next, left, allocations, inserted, found, capacity, slots,
                  finalized, tripped>>
  BY DEF BuildEnds, EnterBarrier, R!Enter, LeaveBarrier, LoadSlot, InsertEnds, tableVars,
     barrierVars
<1>2. /\ pc \in [Workers -> PlaceNames] /\ entered \in [Workers -> Nat]
      /\ inserted \in [Workers -> Nat]
      /\ \A v \in Workers : Len(allocations[v]) \in Nat
  BY DEF IInv, PlacesTypeOK, BInv, BuildTypeOK
<1>3. loc' \in [Workers -> Slot]
  <2>1. CASE LoadSlot(w)
    <3>1. Inserting(w) /\ inserted[w] < Len(allocations[w])
      BY <2>1 DEF LoadSlot, Inserting
    <3>2. slots[SlotOf(Entry(w))] \in Slot
      BY <3>1, EntryFacts, SlotFacts
    <3> QED
      BY <2>1, <3>2 DEF LoadSlot, BInv, BuildTypeOK
  <2>2. CASE ~LoadSlot(w)
    BY <2>2 DEF BuildEnds, EnterBarrier, LeaveBarrier, InsertEnds, BInv, BuildTypeOK
  <2> QED
    BY <2>1, <2>2
<1>4. BuildTypeOK' /\ Owned'
  BY <1>1, <1>3 DEF BInv, BuildTypeOK, Owned
<1>5. /\ \A v \in Workers : v # w => pc'[v] = pc[v] /\ entered'[v] = entered[v]
      /\ \/ /\ pc[w] = "build" /\ pc'[w] = "add" /\ entered'[w] = entered[w]
            /\ left = {} \/ \E v \in Workers \ {w} : pc[v] = "build"
         \/ pc[w] = "enter" /\ pc'[w] = "wait" /\ entered'[w] = entered[w] + 1
         \/ /\ pc[w] = "wait" /\ entered'[w] = entered[w] /\ tripped = entered[w]
            /\ pc'[w] = IF tripped = 2 THEN "probe" ELSE IF found = 0 THEN "eos" ELSE "insert"
         \/ /\ pc[w] = "insert" /\ pc'[w] = "cas" /\ entered'[w] = entered[w]
            /\ inserted[w] < Len(allocations[w])
         \/ /\ pc[w] = "insert" /\ pc'[w] = "enter" /\ entered'[w] = entered[w]
            /\ inserted[w] = Len(allocations[w])
  BY <1>2 DEF BuildEnds, EnterBarrier, R!Enter, LeaveBarrier, LoadSlot, InsertEnds, Goto,
     barrierVars
<1>6. Fetched'
  BY <1>1, <1>5 DEF BInv, Fetched
<1>7. entered[w] <= 1 \/ pc[w] = "wait" \/ pc[w] = "probe"
  BY SMTT(30), <1>2 DEF IInv, Places, PlacesTypeOK, PlaceNames
<1>8. \A v \in Workers : v # w => Inserting(v)' = Inserting(v)
  BY <1>5 DEF Inserting
<1>9. Progress'
  <2> SUFFICES ASSUME NEW v \in Workers
               PROVE  /\ inserted[v] > 0 => Inserting(v)'
                      /\ pc'[v] = "cas" => inserted[v] < Len(allocations[v])
                      /\ (pc'[v] = "enter" /\ entered'[v] = 1) \/ entered'[v] = 2
                           => inserted[v] = Len(allocations[v])
    BY <1>1 DEF Progress
  <2>1. CASE v # w
    BY <1>1, <1>5, <1>8, <2>1 DEF BInv, Progress
  <2>2. CASE v = w
    BY <1>1, <1>2, <1>5, <2>2 DEF BInv, Progress, Inserting, IInv, Places
  <2> QED
    BY <2>1, <2>2
<1>10. Counting'
  <2>1. Adders' = Adders
    BY <1>2, <1>5 DEF Adders
  <2> QED
    BY <1>1, <2>1 DEF BInv, Counting, Counted, Mine
<1>11. Sizing'
  <2> SUFFICES ASSUME NEW v \in Workers, Inserting(v)'
               PROVE  finalized > 0 /\ found > 0
    BY <1>1 DEF Sizing, BInv
  <2>1. CASE Inserting(v)
    BY <2>1 DEF BInv, Sizing
  <2>2. CASE ~Inserting(v)
    <3>1. v = w /\ pc[w] = "wait" /\ tripped = 1 /\ found # 0
      BY <1>2, <1>5, <1>8, <2>2 DEF Inserting, IInv, Places
    <3> QED
      BY <3>1 DEF IInv, PlacesTypeOK, Gathered, BInv, BuildTypeOK
  <2> QED
    BY <2>1, <2>2
<1> QED
  BY <1>4, <1>6, <1>9, <1>10, <1>11 DEF BInv

LEMMA CompareExchangeStep ==
  ASSUME IInv, BInv, NEW w \in Workers, CompareExchange(w)
  PROVE  BInv'
<1> DEFINE e == Entry(w)
           s == SlotOf(e)
<1>1. /\ pc[w] = "cas"
      /\ next' = [next EXCEPT ![e] = loc[w].head]
      /\ \/ /\ slots' = [slots EXCEPT ![s] = Update(loc[w], e)]
            /\ inserted' = [inserted EXCEPT ![w] = @ + 1]
            /\ pc' = [pc EXCEPT ![w] = "insert"]
            /\ UNCHANGED loc
         \/ /\ loc' = [loc EXCEPT ![w] = slots[s]]
            /\ UNCHANGED <<slots, inserted, pc>>
      /\ UNCHANGED <<hash, left, allocations, found, capacity, entered, finalized, tripped>>
  BY DEF CompareExchange, Goto, barrierVars
<1>2. /\ pc \in [Workers -> PlaceNames] /\ inserted \in [Workers -> Nat]
      /\ \A v \in Workers : Len(allocations[v]) \in Nat
  BY DEF IInv, PlacesTypeOK, BInv, BuildTypeOK
<1>3. Inserting(w) /\ inserted[w] < Len(allocations[w]) /\ entered[w] = 1
  BY <1>1 DEF Inserting, BInv, Progress, IInv, Places
<1>4. e \in Rows /\ s \in 0 .. capacity - 1 /\ slots[s] \in Slot
  BY <1>3, EntryFacts, SlotFacts
<1>5. BuildTypeOK'
  <2>1. loc[w] \in Slot /\ Tag(hash[e]) \in Int
    BY <1>4, TagType DEF BInv, BuildTypeOK
  <2>2. Update(loc[w], e) \in Slot
    BY <1>4, <2>1 DEF Update, Slot
  <2>3. next' \in [Rows -> Rows \cup {End}]
    BY <1>1, <2>1 DEF Slot, BInv, BuildTypeOK
  <2>4. slots' \in [0 .. capacity' - 1 -> Slot] /\ loc' \in [Workers -> Slot]
    BY <1>1, <1>4, <2>2 DEF BInv, BuildTypeOK
  <2>5. inserted' \in [Workers -> Nat]
    BY <1>1, <1>2
  <2> QED
    BY <1>1, <2>3, <2>4, <2>5 DEF BInv, BuildTypeOK
<1>6. Owned'
  <2>1. \A v \in Workers : inserted'[v] <= Len(allocations[v])
    BY <1>1, <1>2, <1>3 DEF BInv, Owned
  <2> QED
    BY <1>1, <2>1 DEF BInv, Owned
<1>7. /\ \A v \in Workers : v # w => pc'[v] = pc[v] /\ inserted'[v] = inserted[v]
      /\ pc'[w] \in {"insert", "cas"}
      /\ pc'[w] = "cas" => inserted'[w] = inserted[w]
  BY <1>1, <1>2
<1>8. Fetched'
  BY <1>1, <1>7 DEF BInv, Fetched
<1>9. \A v \in Workers : Inserting(v)' = Inserting(v)
  BY <1>1, <1>7 DEF Inserting
<1>10. Progress'
  BY <1>1, <1>3, <1>7, <1>9 DEF BInv, Progress
<1>11. Counting'
  <2>1. Adders' = Adders
    BY <1>1, <1>7 DEF Adders
  <2> QED
    BY <1>1, <2>1 DEF BInv, Counting, Counted, Mine
<1>12. Sizing'
  BY <1>1, <1>9 DEF BInv, Sizing
<1> QED
  BY <1>5, <1>6, <1>8, <1>10, <1>11, <1>12 DEF BInv

\* The finalizer finds all entries counted and none inserted.
LEMMA FinalizerStep ==
  ASSUME IInv, BInv, Finalizer
  PROVE  BInv'
<1>1. /\ finalized' = finalized + 1
      /\ UNCHANGED <<hash, next, left, pc, allocations, inserted, loc, found, entered, tripped>>
  BY DEF Finalizer, R!Finalize
<1>2. finalized \in Nat /\ found \in Nat
  BY DEF IInv, PlacesTypeOK, BInv, BuildTypeOK
<1>3. Owned' /\ Fetched' /\ Counting'
  BY <1>1 DEF BInv, Owned, Fetched, Counting, Counted, Adders, Mine
<1>4. Progress'
  BY <1>1 DEF BInv, Progress, Inserting
<1>5. BuildTypeOK' /\ Sizing'
  <2>1. CASE finalized = 0 /\ found > 0
    <3>1. /\ capacity' = CapacityFor(found)
          /\ slots' = [s \in 0 .. CapacityFor(found) - 1 |-> EmptySlot]
      BY <2>1 DEF Finalizer
    <3>2. CapacityFor(found) \in Nat /\ CapacityFor(found) > found
      BY <1>2, <2>1, CapacityAbove
    <3>3. EmptySlot \in Slot
      BY DEF EmptySlot, Slot
    <3>4. BuildTypeOK'
      BY <1>1, <3>1, <3>2, <3>3 DEF BInv, BuildTypeOK
    <3> QED
      BY <1>1, <1>2, <2>1, <3>1, <3>2, <3>4 DEF BInv, Sizing, Inserting
  <2>2. CASE ~(finalized = 0 /\ found > 0)
    <3>1. UNCHANGED <<capacity, slots>>
      BY <2>2 DEF Finalizer, tableVars
    <3>2. BuildTypeOK'
      BY <1>1, <3>1 DEF BInv, BuildTypeOK
    <3> QED
      BY <1>1, <1>2, <2>2, <3>1, <3>2 DEF BInv, Sizing, Inserting
  <2> QED
    BY <2>1, <2>2
<1> QED
  BY <1>3, <1>4, <1>5 DEF BInv

\* The second inductive invariant of the build (Operators.cpp, 749-780): whose
\* entries there are, how many are counted and inserted in each phase, and that
\* the table has room for them.
THEOREM BuildInductive == Spec => []BInv
<1>1. Init => BInv
  <2> SUFFICES ASSUME Init
               PROVE  BInv
    OBVIOUS
  <2> USE DEF Init, R!Init
  <2>1. BuildTypeOK
    <3>1. hash \in [Rows -> Nat] /\ left \in SUBSET Rows
      <4>1. hash \in [Rows -> Hashes] /\ left \in SUBSET Rows
        BY HashBuildAssumption
      <4>2. Hashes \subseteq Nat
        BY HashBuildAssumption
      <4> QED
        BY <4>1, <4>2
    <3>2. EmptySlot \in Slot
      BY DEF EmptySlot, Slot
    <3>3. slots \in [0 .. capacity - 1 -> Slot]
      OBVIOUS
    <3> QED
      BY <3>1, <3>2, <3>3 DEF BuildTypeOK
  <2>2. Owned /\ Progress
    BY DEF Owned, Progress
  <2>3. Fetched
    BY HashBuildAssumption DEF Fetched
  <2>4. Counting
    <3>1. Counted = {}
      BY DEF Counted, Adders
    <3> QED
      BY <3>1, FS_EmptySet DEF Counting
  <2>5. Sizing
    BY DEF Sizing, Inserting
  <2> QED
    BY <2>1, <2>2, <2>3, <2>4, <2>5 DEF BInv
<1>2. IInv /\ BInv /\ [Next]_vars => BInv'
  <2> SUFFICES ASSUME IInv, BInv, [Next]_vars
               PROVE  BInv'
    OBVIOUS
  <2>1. ASSUME NEW w \in Workers, Worker(w)
        PROVE  BInv'
    BY <2>1, MaterializeStep, AddFoundStep, MoveStep, CompareExchangeStep DEF Worker
  <2>2. CASE Finalizer
    BY <2>2, FinalizerStep
  <2>3. CASE Trip \/ UNCHANGED vars
    <3>1. UNCHANGED <<hash, next, left, pc, allocations, inserted, loc, found, capacity, slots,
                      entered, finalized>>
      BY <2>3 DEF Trip, R!Trip, vars, tableVars, barrierVars
    <3>2. BuildTypeOK' /\ Owned' /\ Fetched'
      BY <3>1 DEF BInv, BuildTypeOK, Owned, Fetched
    <3>3. Progress' /\ Sizing'
      BY <3>1 DEF BInv, Progress, Inserting, Sizing
    <3>4. Counting'
      BY <3>1 DEF BInv, Counting, Counted, Adders, Mine
    <3> QED
      BY <3>2, <3>3, <3>4 DEF BInv
  <2> QED
    BY <2>1, <2>2, <2>3 DEF Next, Stop
<1> QED
  BY <1>1, <1>2, Inductive, PTL DEF Spec

-----------------------------------------------------------------------------
(***************************************************************************)
(* The chains.  What a head leads to is the least set of entries that holds *)
(* the head and what its members point at.                                 *)
(***************************************************************************)
Closed(C, nx, h) == h \in C \cup {End} /\ \A d \in C : nx[d] \in C \cup {End}
Reach(nx, h) == {e \in Rows : \A C \in SUBSET Rows : Closed(C, nx, h) => e \in C}

LEMMA ReachLeast ==
  ASSUME NEW nx, NEW h, NEW C \in SUBSET Rows, Closed(C, nx, h)
  PROVE  Reach(nx, h) \subseteq C
BY DEF Reach

LEMMA ReachClosed ==
  ASSUME NEW nx \in [Rows -> Rows \cup {End}], NEW h \in Rows \cup {End}
  PROVE  Reach(nx, h) \in SUBSET Rows /\ Closed(Reach(nx, h), nx, h)
<1>1. h \in Reach(nx, h) \cup {End}
  BY DEF Reach, Closed
<1>2. ASSUME NEW d \in Reach(nx, h)
      PROVE  nx[d] \in Reach(nx, h) \cup {End}
  BY HashBuildAssumption DEF Reach, Closed
<1> QED
  BY <1>1, <1>2 DEF Reach, Closed

\* A chain does not depend on the pointers outside of it.
LEMMA ReachFrame ==
  ASSUME NEW nx \in [Rows -> Rows \cup {End}], NEW ny \in [Rows -> Rows \cup {End}],
         NEW h \in Rows \cup {End}, \A d \in Reach(nx, h) : ny[d] = nx[d]
  PROVE  Reach(ny, h) = Reach(nx, h)
<1>1. Closed(Reach(nx, h), ny, h) /\ Reach(nx, h) \in SUBSET Rows
  BY ReachClosed DEF Closed
<1>2. Reach(ny, h) \subseteq Reach(nx, h)
  BY <1>1, ReachLeast
<1>3. Closed(Reach(ny, h), ny, h) /\ Reach(ny, h) \in SUBSET Rows
  BY ReachClosed
<1>4. Closed(Reach(ny, h), nx, h)
  BY <1>2, <1>3 DEF Closed
<1>5. Reach(nx, h) \subseteq Reach(ny, h)
  BY <1>3, <1>4, ReachLeast
<1> QED
  BY <1>2, <1>5

\* An entry put before a chain.
LEMMA ReachCons ==
  ASSUME NEW nx \in [Rows -> Rows \cup {End}], NEW e \in Rows
  PROVE  Reach(nx, e) = {e} \cup Reach(nx, nx[e])
<1> DEFINE h == nx[e]
<1>1. Reach(nx, h) \in SUBSET Rows /\ Closed(Reach(nx, h), nx, h)
  BY ReachClosed
<1>2. Reach(nx, e) \in SUBSET Rows /\ Closed(Reach(nx, e), nx, e)
  BY ReachClosed
<1>3. Reach(nx, e) \subseteq {e} \cup Reach(nx, h)
  <2>1. Closed({e} \cup Reach(nx, h), nx, e)
    BY <1>1 DEF Closed
  <2> QED
    BY <1>1, <2>1, ReachLeast
<1>4. e \in Reach(nx, e)
  BY <1>2, HashBuildAssumption DEF Closed
<1>5. Reach(nx, h) \subseteq Reach(nx, e)
  <2>1. Closed(Reach(nx, e), nx, h)
    BY <1>2, <1>4 DEF Closed
  <2> QED
    BY <1>2, <2>1, ReachLeast
<1> QED
  BY <1>3, <1>4, <1>5

LEMMA ReachEnd ==
  ASSUME NEW nx
  PROVE  Reach(nx, End) = {}
<1>1. Closed({}, nx, End)
  BY DEF Closed
<1> QED
  BY <1>1, ReachLeast

LEMMA ChainIsReach ==
  ASSUME NEW s
  PROVE  ChainOf(s) = Reach(next, slots[s].head)
BY DEF ChainOf, Reach, Closed

-----------------------------------------------------------------------------
\* The entries in the table are those that their workers have inserted: each
\* in the chain of its slot, with its tag in the slot.
Published == UNION {{allocations[w][n] : n \in 1 .. inserted[w]} : w \in Workers}
Linked == \A s \in 0 .. capacity - 1 : ChainOf(s) = {e \in Published : SlotOf(e) = s}
Tagged == \A e \in Published : Tag(hash[e]) \in slots[SlotOf(e)].tags

CInv == Linked /\ Tagged

LEMMA PublishedFacts ==
  ASSUME BInv, NEW e \in Published
  PROVE  /\ e \in Rows
         /\ finalized > 0 /\ capacity \in Nat /\ capacity > 0
         /\ SlotOf(e) \in 0 .. capacity - 1
<1>0. PICK w \in Workers : \E n \in 1 .. inserted[w] : e = allocations[w][n]
  BY DEF Published
<1>1. PICK n \in 1 .. inserted[w] : e = allocations[w][n]
  BY <1>0
<1>2. inserted[w] \in Nat /\ allocations[w] \in Seq(Rows) /\ Len(allocations[w]) \in Nat
      /\ inserted[w] <= Len(allocations[w])
  BY DEF BInv, BuildTypeOK, Owned
<1>3. e \in Rows
  BY <1>1, <1>2, ElementOfSeq
<1>4. Inserting(w)
  BY <1>1, <1>2 DEF BInv, Progress
<1>5. finalized > 0
  BY <1>4 DEF BInv, Sizing
<1> QED
  BY <1>3, <1>4, <1>5, SlotFacts

\* The steps that neither publish an entry nor touch a pointer.
LEMMA QuietStep ==
  ASSUME CInv, UNCHANGED <<hash, next, slots, capacity>>, Published' = Published
  PROVE  CInv'
BY DEF CInv, Linked, Tagged, ChainOf, SlotOf

LEMMA PublishStep ==
  ASSUME IInv, BInv, BInv', CInv, NEW w \in Workers, CompareExchange(w)
  PROVE  CInv' /\ Published \subseteq Published'
<1> DEFINE e == Entry(w)
           s == SlotOf(e)
<1>1. /\ pc[w] = "cas"
      /\ next' = [next EXCEPT ![e] = loc[w].head]
      /\ slots[s] = loc[w] => /\ slots' = [slots EXCEPT ![s] = Update(loc[w], e)]
                              /\ inserted' = [inserted EXCEPT ![w] = @ + 1]
      /\ slots[s] # loc[w] => UNCHANGED <<slots, inserted>>
      /\ UNCHANGED <<hash, allocations, capacity>>
  BY DEF CompareExchange
<1>2. Inserting(w) /\ inserted[w] < Len(allocations[w])
  BY <1>1 DEF Inserting, BInv, Progress
<1>3. /\ inserted[w] + 1 \in 1 .. Len(allocations[w]) /\ e = allocations[w][inserted[w] + 1]
      /\ e \in Rows /\ capacity \in Nat /\ capacity > 0 /\ s \in 0 .. capacity - 1
      /\ hash[e] \in Nat
  BY <1>2, EntryFacts, SlotFacts DEF Entry, BInv, BuildTypeOK
<1>0. SlotOf(e) = s
  OBVIOUS
<1> HIDE DEF e, s
<1>4. /\ next \in [Rows -> Rows \cup {End}] /\ next' \in [Rows -> Rows \cup {End}]
      /\ slots \in [0 .. capacity - 1 -> Slot] /\ loc[w] \in Slot
      /\ inserted \in [Workers -> Nat]
      /\ \A v \in Workers : Len(allocations[v]) \in Nat /\ inserted[v] <= Len(allocations[v])
  BY SMTT(30), <1>1 DEF BInv, BuildTypeOK, Owned
<1>5. e \notin Published
  <2> SUFFICES ASSUME NEW v \in Workers, NEW n \in 1 .. inserted[v], e = allocations[v][n]
               PROVE  FALSE
    BY DEF Published
  <2>1. n \in 1 .. Len(allocations[v])
    BY <1>4
  <2>2. allocations[v][n] = allocations[w][inserted[w] + 1]
    BY <1>3
  <2>3. v = w /\ n = inserted[w] + 1
    BY <1>3, <2>1, <2>2 DEF BInv, Owned
  <2> QED
    BY <1>4, <2>3
\* The entry is private: the pointer that is set belongs to no chain.
<1>6. ASSUME NEW r \in 0 .. capacity - 1
      PROVE  /\ slots[r].head \in Rows \cup {End}
             /\ Reach(next, slots[r].head) = {d \in Published : SlotOf(d) = r}
             /\ Reach(next', slots[r].head) = {d \in Published : SlotOf(d) = r}
  <2>1. slots[r].head \in Rows \cup {End}
    BY <1>4 DEF Slot
  <2>2. Reach(next, slots[r].head) = {d \in Published : SlotOf(d) = r}
    BY ChainIsReach DEF CInv, Linked
  <2>3. \A d \in Reach(next, slots[r].head) : next'[d] = next[d]
    BY <1>1, <1>4, <1>5, <2>2 DEF Reach
  <2> QED
    BY <1>4, <2>1, <2>2, <2>3, ReachFrame
<1>7. CASE slots[s] # loc[w]
  <2>1. UNCHANGED <<slots, inserted>>
    BY <1>1, <1>7
  <2>2. Published' = Published
    BY <1>1, <2>1 DEF Published
  <2>3. Linked'
    <3> SUFFICES ASSUME NEW r \in 0 .. capacity - 1
                 PROVE  ChainOf(r)' = {d \in Published : SlotOf(d) = r}
      BY <1>1, <2>2 DEF Linked, SlotOf
    <3>1. ChainOf(r)' = Reach(next', slots[r].head)
      BY <2>1 DEF ChainOf, Reach, Closed
    <3> QED
      BY <1>6, <3>1
  <2>4. Tagged'
    BY <1>1, <2>1, <2>2 DEF CInv, Tagged, SlotOf
  <2> QED
    BY <2>2, <2>3, <2>4 DEF CInv
<1>8. CASE slots[s] = loc[w]
  <2>1. /\ slots' = [slots EXCEPT ![s] = Update(loc[w], e)]
        /\ inserted' = [inserted EXCEPT ![w] = @ + 1]
    BY <1>1, <1>8
  <2>2. Published' = Published \cup {e}
    <3>1. \A v \in Workers : v # w => inserted'[v] = inserted[v]
      BY <1>4, <2>1
    <3>2. 1 .. inserted'[w] = 1 .. inserted[w] \cup {inserted[w] + 1}
      BY <1>4, <2>1
    <3>3. \A d : d \in Published' <=> d \in Published \/ d = e
      BY <1>1, <1>3, <3>1, <3>2 DEF Published
    <3> QED
      BY <3>3
  <2>3. /\ slots'[s].head = e
        /\ slots'[s].tags = slots[s].tags \cup {Tag(hash[e])}
        /\ \A r \in 0 .. capacity - 1 : r # s => slots'[r] = slots[r]
    BY <1>3, <1>4, <1>8, <2>1 DEF Update
  <2>4. next'[e] = slots[s].head
    BY <1>1, <1>3, <1>4, <1>8
  <2>5. Linked'
    <3> SUFFICES ASSUME NEW r \in 0 .. capacity - 1
                 PROVE  ChainOf(r)' = {d \in Published \cup {e} : SlotOf(d) = r}
      BY <1>1, <2>2 DEF Linked, SlotOf
    <3>1. ChainOf(r)' = Reach(next', slots'[r].head)
      BY DEF ChainOf, Reach, Closed
    <3>2. CASE r = s
      <4>1. Reach(next', e) = {e} \cup Reach(next', slots[s].head)
        BY <1>3, <1>4, <2>4, ReachCons
      <4> QED
        BY <1>0, <1>6, <2>3, <3>1, <3>2, <4>1
    <3>3. CASE r # s
      BY <1>0, <1>6, <2>3, <3>1, <3>3
    <3> QED
      BY <3>2, <3>3
  <2>6. Tagged'
    <3> SUFFICES ASSUME NEW d \in Published \cup {e}
                 PROVE  Tag(hash[d]) \in slots'[SlotOf(d)].tags
      BY <1>1, <2>2 DEF Tagged, SlotOf, Tag
    <3>1. CASE d = e
      BY <1>0, <2>3, <3>1
    <3>2. CASE d \in Published
      <4>1. Tag(hash[d]) \in slots[SlotOf(d)].tags /\ SlotOf(d) \in 0 .. capacity - 1
        BY <3>2, PublishedFacts DEF CInv, Tagged
      <4> QED
        BY <2>3, <4>1
    <3> QED
      BY <3>1, <3>2
  <2> QED
    BY <2>2, <2>5, <2>6 DEF CInv
<1> QED
  BY <1>7, <1>8

LEMMA SizeStep ==
  ASSUME IInv, BInv, CInv, Finalizer
  PROVE  CInv' /\ Published' = Published
<1>1. UNCHANGED <<hash, next, allocations, inserted>>
  BY DEF Finalizer
<1>2. Published' = Published
  BY <1>1 DEF Published
<1>3. CASE finalized = 0 /\ found > 0
  <2>1. Published = {}
    BY <1>3, PublishedFacts
  <2>2. slots' = [s \in 0 .. capacity' - 1 |-> EmptySlot]
    BY <1>3 DEF Finalizer
  <2>3. \A s \in 0 .. capacity' - 1 : ChainOf(s)' = {}
    <3> SUFFICES ASSUME NEW s \in 0 .. capacity' - 1
                 PROVE  ChainOf(s)' = {}
      OBVIOUS
    <3>1. ChainOf(s)' = Reach(next', slots'[s].head)
      BY DEF ChainOf, Reach, Closed
    <3>2. slots'[s].head = End
      BY <2>2 DEF EmptySlot
    <3> QED
      BY <3>1, <3>2, ReachEnd
  <2> QED
    BY <1>2, <2>1, <2>3 DEF CInv, Linked, Tagged
<1>4. CASE ~(finalized = 0 /\ found > 0)
  <2>1. UNCHANGED <<slots, capacity>>
    BY <1>4 DEF Finalizer, tableVars
  <2> QED
    BY <1>1, <1>2, <2>1, QuietStep
<1> QED
  BY <1>3, <1>4

\* Whatever happens, the entries that are in the table are where they belong,
\* and stay there.
LEMMA ChainStep ==
  ASSUME IInv, BInv, BInv', CInv, [Next]_vars
  PROVE  CInv' /\ Published \subseteq Published'
<1>1. ASSUME NEW w \in Workers, Materialize(w)
      PROVE  CInv' /\ Published' = Published
  <2>1. PICK e \in left : allocations' = [allocations EXCEPT ![w] = Append(@, e)]
    BY <1>1 DEF Materialize
  <2>2. UNCHANGED <<hash, next, inserted, slots, capacity>>
    BY <1>1 DEF Materialize, tableVars
  <2>3. ASSUME NEW v \in Workers, NEW n \in 1 .. inserted[v]
        PROVE  allocations'[v][n] = allocations[v][n]
    <3>1. allocations \in [Workers -> Seq(Rows)] /\ inserted \in [Workers -> Nat] /\ e \in Rows
      BY DEF BInv, BuildTypeOK
    <3>2. allocations[v] \in Seq(Rows) /\ inserted[v] \in Nat /\ Len(allocations[v]) \in Nat
      BY <3>1
    <3>3. n \in 1 .. Len(allocations[v])
      BY <3>2 DEF BInv, Owned
    <3> QED
      BY <2>1, <3>1, <3>2, <3>3, AppendProperties
  <2>4. Published' = Published
    BY <2>2, <2>3 DEF Published
  <2> QED
    BY <2>2, <2>4, QuietStep
<1>2. ASSUME NEW w \in Workers,
             BuildEnds(w) \/ AddFound(w) \/ EnterBarrier(w) \/ LeaveBarrier(w) \/ LoadSlot(w)
               \/ InsertEnds(w)
      PROVE  UNCHANGED <<hash, next, allocations, inserted, slots, capacity>>
  BY <1>2 DEF BuildEnds, AddFound, EnterBarrier, LeaveBarrier, LoadSlot, InsertEnds, tableVars
<1>3. ASSUME Trip \/ UNCHANGED vars
      PROVE  UNCHANGED <<hash, next, allocations, inserted, slots, capacity>>
  BY <1>3 DEF Trip, vars, tableVars
<1>4. CASE UNCHANGED <<hash, next, allocations, inserted, slots, capacity>>
  <2>1. Published' = Published
    BY <1>4 DEF Published
  <2> QED
    BY <1>4, <2>1, QuietStep
<1>5. ASSUME NEW w \in Workers, Worker(w)
      PROVE  CInv' /\ Published \subseteq Published'
  BY <1>1, <1>2, <1>4, <1>5, PublishStep DEF Worker
<1> QED
  BY <1>3, <1>4, <1>5, SizeStep DEF Next, Stop, vars, tableVars

\* The third inductive invariant of the build (Hashmap.hpp, insert_tagged): the
\* concurrent insertions lose neither an entry nor a tag, at every moment.
THEOREM ChainsInductive == Spec => []CInv
<1>1. Init => CInv
  <2> SUFFICES ASSUME Init
               PROVE  CInv
    OBVIOUS
  <2>1. Published = {}
    BY DEF Init, Published
  <2>2. capacity = 0
    BY DEF Init
  <2> QED
    BY <2>1, <2>2 DEF CInv, Linked, Tagged
<1>2. IInv /\ BInv /\ BInv' /\ CInv /\ [Next]_vars => CInv'
  BY ChainStep
<1> QED
  BY <1>1, <1>2, Inductive, BuildInductive, PTL DEF Spec

-----------------------------------------------------------------------------
\* Every tuple of the build side has been counted once all workers have entered
\* the first barrier.
LEMMA AllCounted ==
  ASSUME IInv, BInv, finalized > 0
  PROVE  left = {} /\ Tuples = Counted
<1>1. \A w \in Workers : pc[w] \notin {"build", "add"}
  BY DEF IInv, PlacesTypeOK, Places, Gathered
<1>2. left = {}
  BY <1>1 DEF BInv, Fetched
<1>3. \A w \in Workers : DOMAIN allocations[w] = 1 .. Len(allocations[w])
  BY LenProperties DEF BInv, BuildTypeOK
<1>4. Adders = Workers
  BY <1>1 DEF Adders
<1>5. Tuples = Counted
  BY <1>2, <1>3, <1>4 DEF Tuples, Counted, Mine
<1> QED
  BY <1>2, <1>5

\* The table is sized by the finalizer of the first barrier (Operators.cpp:760)
\* before the first insertion, for all tuples there are: insertions never meet
\* a table without slots.
THEOREM TableSizedInTime == Spec => []SizedInTime
<1>1. IInv /\ BInv => SizedInTime
  <2> SUFFICES ASSUME IInv, BInv, NEW w \in Workers, pc[w] \in {"insert", "cas"} \/ inserted[w] > 0
               PROVE  capacity >= Cardinality(Tuples) /\ left = {}
    BY DEF SizedInTime
  <2>1. Inserting(w)
    BY DEF Inserting, BInv, Progress
  <2>2. finalized > 0 /\ capacity > found
    BY <2>1 DEF BInv, Sizing
  <2>3. found = Cardinality(Tuples) /\ left = {}
    BY <2>2, AllCounted DEF BInv, Counting
  <2> QED
    BY <2>2, <2>3 DEF BInv, BuildTypeOK
<1> QED
  BY <1>1, Inductive, BuildInductive, PTL

\* A worker that probes finds each tuple of the build side by its hash, whoever
\* has inserted it (insert_tagged and find_chain_tagged, Hashmap.hpp): for any
\* number of workers and tuples, any hashes and any interleaving.
THEOREM AllFound == Spec => []LookupComplete
<1>1. IInv /\ BInv /\ CInv => LookupComplete
  <2> SUFFICES ASSUME IInv, BInv, CInv, NEW w \in Workers, pc[w] = "probe", NEW h \in Hashes
               PROVE  Lookup(h) = {e \in Tuples : hash[e] = h}
    BY DEF LookupComplete
  <2>1. entered[w] = 2 /\ tripped = 2 /\ \A v \in Workers : entered[v] >= 2
    BY DEF IInv, PlacesTypeOK, Places, Gathered
  <2>2. finalized > 0 /\ capacity > 0 /\ capacity \in Nat /\ h \in Nat
    <3>1. Inserting(w)
      BY <2>1 DEF Inserting
    <3> QED
      BY <3>1, HashBuildAssumption DEF BInv, Sizing, BuildTypeOK
  <2>3. \A v \in Workers : inserted[v] = Len(allocations[v])
    <3> SUFFICES ASSUME NEW v \in Workers
                 PROVE  inserted[v] = Len(allocations[v])
      OBVIOUS
    <3>1. entered[v] = 2
      BY <2>1 DEF IInv, PlacesTypeOK, PlaceNames, Places
    <3> QED
      BY <3>1 DEF BInv, Progress
  <2>4. Published = Tuples
    <3>1. \A v \in Workers : DOMAIN allocations[v] = 1 .. Len(allocations[v])
      BY LenProperties DEF BInv, BuildTypeOK
    <3> QED
      BY <2>2, <2>3, <3>1, AllCounted DEF Published, Tuples
  <2> DEFINE s == h % capacity
  <2>5. s \in 0 .. capacity - 1
    BY <2>2, SlotInTable
  <2>6. ChainOf(s) = {e \in Tuples : hash[e] % capacity = s}
    BY <2>4, <2>5 DEF CInv, Linked, SlotOf
  <2>7. \A e \in Tuples : hash[e] = h => Tag(h) \in slots[s].tags
    BY <2>4 DEF CInv, Tagged, SlotOf
  <2> QED
    BY <2>6, <2>7 DEF Lookup
<1> QED
  BY <1>1, Inductive, BuildInductive, ChainsInductive, PTL

\* What one worker has inserted, no insertion of another one displaces (the
\* compare-exchange of Hashmap.hpp, insert_tagged).
THEOREM InsertionsStay == Spec => NothingDisplaced
<1>1. BInv /\ CInv => InTable = Published
  <2> SUFFICES ASSUME BInv, CInv
               PROVE  InTable = Published
    OBVIOUS
  <2>1. DOMAIN slots = 0 .. capacity - 1
    BY DEF BInv, BuildTypeOK
  <2> QED
    BY <2>1, PublishedFacts DEF InTable, CInv, Linked
<1>2. BInv' /\ CInv' => (InTable = Published)'
  BY <1>1, PTL
<1>3. IInv /\ BInv /\ BInv' /\ CInv /\ CInv' /\ [Next]_vars => [InTable \subseteq InTable']_vars
  BY <1>1, <1>2, ChainStep
<1> QED
  BY <1>3, Inductive, BuildInductive, ChainsInductive, PTL DEF Spec, NothingDisplaced
=============================================================================
