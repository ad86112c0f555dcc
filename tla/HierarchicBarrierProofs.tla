----------------------- MODULE HierarchicBarrierProofs -----------------------
(***************************************************************************)
(* The tree of barriers is a barrier, for any number of threads, any fan,  *)
(* any number of phases and any wrap of the round numbers.                 *)
(*                                                                         *)
(* Neither "one leader per phase" nor the Rendezvous is inductive: they    *)
(* hold because of what IInv says of each barrier of the tree.  A thread   *)
(* that was the last one at a barrier leads it, on the way up and down,    *)
(* until it has released it; while it does, all threads below spin, and    *)
(* each barrier below is led by one of them (Follow, Represented); and the *)
(* counter of a barrier that nobody leads counts those who spin there.     *)
(***************************************************************************)
EXTENDS HierarchicBarrier, NaturalFacts

\* A thread is the last one of the barrier of its group at level l: it holds
\* the others there until it has released that barrier.
Leads(t, l) ==
  \/ l < level[t]
  \/ l = level[t] /\ pc[t] \in {"reset", "finalizer", "release"}

\* The threads below that barrier.
Group(t, l) == {u \in Threads : slot[l + 1][u] = slot[l + 1][t]}

\* The participants of that barrier.
Places(t, l) == {j \in 0 .. participants[l] - 1 : j \div Fan = slot[l + 1][t]}

\* A thread spins, and what it waits for has not happened.
Held(t) == pc[t] = "spin" /\ prevRound[t] = round[At(t)]

Current(t) == entered[t] = tripped + 1
Released(t) == entered[t] = tripped

TypeOK ==
  /\ cntr \in [Barriers -> Nat] /\ round \in [Barriers -> 0 .. RoundMod - 1]
  /\ pc \in [Threads -> {"out", "arrive", "reset", "finalizer", "release", "spin"}]
  /\ level \in [Threads -> 0 .. rootLevel]
  /\ prevRound \in [Threads -> 0 .. RoundMod - 1]
  /\ result \in [Threads -> BOOLEAN]
  /\ entered \in [Threads -> Nat] /\ won \in [Threads -> Nat]
  /\ finalized \in Nat /\ tripped \in Nat

\* Where a thread is tells which phase it is in.
Phase(t) ==
  /\ pc[t] = "out" => level[t] = 0 /\ Released(t)
  /\ pc[t] = "arrive" => Current(t) /\ prevRound[t] = round[At(t)]
  /\ pc[t] \in {"reset", "finalizer"} => Current(t)
  /\ pc[t] = "release" => IF level[t] = rootLevel THEN Current(t) /\ result[t] ELSE Released(t)
  /\ pc[t] = "spin" => Released(t) \/ (Current(t) /\ prevRound[t] = round[At(t)])

Phases == \A t \in Threads : Phase(t)

\* Under the barrier that a thread leads all others spin, in its phase.
Followed(t, l) ==
  \A u \in Group(t, l) \ {t} : Held(u) /\ entered[u] = entered[t] /\ level[u] <= l

Follow == \A t \in Threads : \A l \in 0 .. rootLevel : Leads(t, l) => Followed(t, l)

\* And each barrier below it is led by one of them.
Complete(t, l) ==
  \A u \in Group(t, l), k \in 1 .. l : \E v \in Threads : level[v] >= k /\ slot[k][v] = slot[k][u]

Represented == \A t \in Threads : \A l \in 0 .. rootLevel : Leads(t, l) => Complete(t, l)

\* Those who wait at a barrier for the end of this phase.
Here(b) == {t \in Threads : At(t) = b /\ pc[t] = "spin" /\ Current(t)}

LedNow(b) == \E t \in Threads : Current(t) /\ \E l \in 0 .. rootLevel : Leads(t, l) /\ BarrierOf(t, l) = b

\* A counter counts those who are missing.
Missing == \A b \in Barriers : ~LedNow(b) => cntr[b] + Cardinality(Here(b)) = threadCount(b)

\* The last one sets it again.
SetAgain ==
  \A t \in Threads : Current(t) => \A l \in 0 .. rootLevel : Leads(t, l) =>
    cntr[BarrierOf(t, l)] =
      IF l = level[t] /\ pc[t] = "reset" THEN 0 ELSE threadCount(BarrierOf(t, l))

AtRoot(t) == pc[t] = "release" /\ level[t] = rootLevel

FinalizedInv ==
  finalized = IF \E t \in Threads : AtRoot(t) THEN tripped + 1 ELSE tripped

\* wait() is to return true to this thread.
Winner(t) == result[t] /\ pc[t] # "out" /\ Released(t)

Wins[t \in -1 .. NThreads - 1] == IF t = -1 THEN 0 ELSE Wins[t - 1] + won[t]

Winners ==
  /\ \A t \in Threads : result[t] /\ pc[t] # "out" => Released(t) \/ AtRoot(t)
  /\ \A t, u \in Threads : Winner(t) /\ Winner(u) => t = u
  /\ Wins[NThreads - 1] + (IF \E t \in Threads : Winner(t) THEN 1 ELSE 0) = tripped

IInv == TypeOK /\ Phases /\ Follow /\ Represented /\ Missing /\ SetAgain /\ FinalizedInv /\ Winners

-----------------------------------------------------------------------------
(* The tree *)

LEMMA Division ==
  ASSUME NEW x \in Nat
  PROVE  /\ x \div Fan \in Nat
         /\ \A q \in Nat : x \div Fan = q <=> Fan * q <= x /\ x < Fan * q + Fan
BY HierarchicBarrierAssumption

\* The recursive definitions have the values that they say.
LEMMA SlotFacts ==
  ASSUME NEW t \in Threads
  PROVE  /\ slot[0][t] = t
         /\ \A l \in Nat : slot[l][t] \in Nat /\ slot[l + 1][t] = slot[l][t] \div Fan
<1> DEFINE S == [Threads -> Nat]
           a == [u \in Threads |-> u]
           h == [p \in Nat \X S |-> [u \in Threads |-> p[2][u] \div Fan]]
           Step(f) == [l \in Nat |-> [u \in Threads |-> IF l = 0 THEN u ELSE f[l - 1][u] \div Fan]]
<1>1. a \in S /\ h \in [Nat \X S -> S]
  <2>1. a \in S
    BY HierarchicBarrierAssumption DEF Threads
  <2>2. ASSUME NEW p \in Nat \X S
        PROVE  [u \in Threads |-> p[2][u] \div Fan] \in S
    BY Division
  <2> QED
    BY <2>1, <2>2
<1>p. PICK f \in [Nat -> S] : Unfolds(f, a, h)
  <2> HIDE DEF S, a, h
  <2> QED
    BY <1>1, Unfolding
<1>2. f[0] = a /\ \A n \in Nat : f[n + 1] = h[<<n, f[n]>>]
  BY <1>p DEF Unfolds
<1>3. f = Step(f)
  <2>1. ASSUME NEW l \in Nat
        PROVE  f[l] = [u \in Threads |-> IF l = 0 THEN u ELSE f[l - 1][u] \div Fan]
    <3>1. CASE l = 0
      BY <1>2, <3>1
    <3>2. CASE l # 0
      <4>1. l - 1 \in Nat /\ (l - 1) + 1 = l /\ <<l - 1, f[l - 1]>> \in Nat \X S
        BY <3>2
      <4>2. f[l] = h[<<l - 1, f[l - 1]>>]
        BY <1>2, <4>1
      <4> QED
        BY <3>2, <4>1, <4>2
    <3> QED
      BY <3>1, <3>2
  <2> QED
    BY <2>1
<1>4. slot = CHOOSE f1 : f1 = Step(f1)
  BY DEF slot
<1> HIDE DEF Step
<1>5. slot = Step(slot)
  BY <1>3, <1>4
<1>6. \A l \in Nat : slot[l] = [u \in Threads |-> IF l = 0 THEN u ELSE slot[l - 1][u] \div Fan]
  BY <1>5 DEF Step
<1>7. slot[0][t] = t
  BY <1>6
<1>8. \A l \in Nat : slot[l + 1][t] = slot[l][t] \div Fan
  <2> SUFFICES ASSUME NEW l \in Nat
               PROVE  slot[l + 1][t] = slot[l][t] \div Fan
    OBVIOUS
  <2>1. l + 1 \in Nat /\ l + 1 # 0 /\ (l + 1) - 1 = l
    OBVIOUS
  <2>2. slot[l + 1] = [u \in Threads |-> slot[l][u] \div Fan]
    BY <1>6, <2>1
  <2> QED
    BY <2>2
<1> DEFINE Num == {l \in Nat : slot[l][t] \in Nat}
<1>9. 0 \in Num /\ \A l \in Nat : l \in Num => l + 1 \in Num
  <2>1. t \in Nat
    BY HierarchicBarrierAssumption DEF Threads
  <2>2. ASSUME NEW l \in Nat, slot[l][t] \in Nat
        PROVE  slot[l + 1][t] \in Nat
    <3>1. slot[l][t] \div Fan \in Nat
      BY <2>2, Division
    <3> QED
      BY <1>8, <3>1
  <2> QED
    BY <1>7, <2>1, <2>2
<1>10. Nat \subseteq Num
  <2> HIDE DEF Num
  <2> QED
    BY <1>9, SetInduction
<1> QED
  BY <1>7, <1>8, <1>10

LEMMA CeilFacts ==
  ASSUME NEW p \in Nat \ {0}
  PROVE  /\ CeilDiv(p, Fan) \in Nat \ {0}
         /\ p > 1 => CeilDiv(p, Fan) < p
         /\ \A q \in Nat : q < CeilDiv(p, Fan) <=> Fan * q < p
<1>1. p + Fan - 1 \in Nat /\ Fan \in Nat /\ Fan >= 2
  BY HierarchicBarrierAssumption
<1>2. PICK c \in Nat : c = (p + Fan - 1) \div Fan
  BY <1>1, Division
<1>3. PICK m \in Nat : m = Fan * c
  BY <1>1
<1>4. m <= p + Fan - 1 /\ p + Fan - 1 < m + Fan
  BY <1>1, <1>2, <1>3, Division
<1>5. c >= 1
  <2>1. c = 0 => m = 0
    BY <1>1, <1>3
  <2> QED
    BY <1>1, <1>4, <2>1
<1>6. p > 1 => c < p
  <2> SUFFICES ASSUME p > 1, c >= p
               PROVE  FALSE
    OBVIOUS
  <2>1. PICK d \in Nat : c = p + d
    BY <1>2
  <2>2. m >= 2 * c
    BY <1>1, <1>3
  <2>3. PICK e \in Nat : Fan = 2 + e
    BY <1>1
  <2>4. m = 2 * c + e * c
    BY <1>3, <2>3
  <2>5. e * c >= e
    BY <1>5, <2>3
  <2> QED
    BY <1>4, <2>1, <2>3, <2>4, <2>5
<1>7. ASSUME NEW q \in Nat
      PROVE  q < c <=> Fan * q < p
  <2>1. PICK n \in Nat : n = Fan * q
    BY <1>1
  <2>2. ASSUME q < c
        PROVE  n < p
    <3>1. n + Fan <= m
      BY <1>1, <1>3, <2>1, <2>2
    <3> QED
      BY <1>1, <1>4, <3>1
  <2>3. ASSUME q >= c
        PROVE  n >= p
    <3>1. n >= m
      BY <1>1, <1>3, <2>1, <2>3
    <3> QED
      BY <1>1, <1>4, <3>1
  <2> QED
    BY <2>1, <2>2, <2>3
<1> QED
  BY <1>2, <1>5, <1>6, <1>7 DEF CeilDiv

LEMMA ParticipantsFacts ==
  /\ participants[0] = NThreads
  /\ \A l \in Nat : participants[l] \in Nat \ {0} /\ participants[l + 1] = CeilDiv(participants[l], Fan)
<1> DEFINE S == Nat \ {0}
           h == [p \in Nat \X S |-> CeilDiv(p[2], Fan)]
           Step(f) == [l \in Nat |-> IF l = 0 THEN NThreads ELSE CeilDiv(f[l - 1], Fan)]
<1>1. NThreads \in S /\ h \in [Nat \X S -> S]
  <2>1. \A p \in Nat \X S : CeilDiv(p[2], Fan) \in S
    BY CeilFacts
  <2> QED
    BY <2>1, HierarchicBarrierAssumption
<1>p. PICK f \in [Nat -> S] : Unfolds(f, NThreads, h)
  <2> HIDE DEF S, h
  <2> QED
    BY <1>1, Unfolding
<1>2. f[0] = NThreads /\ \A n \in Nat : f[n + 1] = h[<<n, f[n]>>]
  BY <1>p DEF Unfolds
<1>3. f = Step(f)
  <2>1. ASSUME NEW l \in Nat
        PROVE  f[l] = IF l = 0 THEN NThreads ELSE CeilDiv(f[l - 1], Fan)
    <3>1. CASE l = 0
      BY <1>2, <3>1
    <3>2. CASE l # 0
      <4>1. l - 1 \in Nat /\ (l - 1) + 1 = l /\ <<l - 1, f[l - 1]>> \in Nat \X S
        BY <3>2
      <4>2. f[l] = h[<<l - 1, f[l - 1]>>]
        BY <1>2, <4>1
      <4> QED
        BY <3>2, <4>1, <4>2
    <3> QED
      BY <3>1, <3>2
  <2> QED
    BY <2>1
<1>4. participants = CHOOSE f1 : f1 = Step(f1)
  BY DEF participants
<1> HIDE DEF Step
<1>5. participants = Step(participants)
  BY <1>3, <1>4
<1>6. \A l \in Nat : participants[l] = IF l = 0 THEN NThreads ELSE CeilDiv(participants[l - 1], Fan)
  BY <1>5 DEF Step
<1>7. participants[0] = NThreads
  BY <1>6
<1>8. \A l \in Nat : participants[l + 1] = CeilDiv(participants[l], Fan)
  <2> SUFFICES ASSUME NEW l \in Nat
               PROVE  participants[l + 1] = CeilDiv(participants[l], Fan)
    OBVIOUS
  <2>1. l + 1 \in Nat /\ l + 1 # 0 /\ (l + 1) - 1 = l
    OBVIOUS
  <2> QED
    BY <1>6, <2>1
<1> DEFINE Num == {l \in Nat : participants[l] \in S}
<1>9. 0 \in Num /\ \A l \in Nat : l \in Num => l + 1 \in Num
  BY SMTT(30), <1>1, <1>7, <1>8, CeilFacts
<1>10. Nat \subseteq Num
  <2> HIDE DEF Num
  <2> QED
    BY <1>9, SetInduction
<1> QED
  BY <1>7, <1>8, <1>10

\* A level that a single barrier can hold is reached.
LEMMA RootFacts == rootLevel \in Nat /\ rootLevel <= NThreads /\ participants[rootLevel] <= Fan
<1> DEFINE T == {l \in Nat : participants[l] <= Fan}
           Sinks == {l \in Nat : l \in T \/ (\E k \in 0 .. l - 1 : k \in T) \/ participants[l] <= NThreads - l}
<1>1. 0 \in Sinks
  BY ParticipantsFacts, HierarchicBarrierAssumption
<1>2. ASSUME NEW l \in Nat, l \in Sinks
      PROVE  l + 1 \in Sinks
  <2>1. CASE l \in T \/ \E k \in 0 .. l - 1 : k \in T
    <3>1. \E k \in 0 .. (l + 1) - 1 : k \in T
      BY <2>1
    <3> QED
      BY <3>1
  <2>2. CASE l \notin T /\ participants[l] <= NThreads - l
    <3>1. /\ participants[l] \in Nat \ {0} /\ participants[l] > 1
          /\ participants[l + 1] = CeilDiv(participants[l], Fan)
      BY <2>2, ParticipantsFacts, HierarchicBarrierAssumption
    <3>2. CeilDiv(participants[l], Fan) \in Nat /\ CeilDiv(participants[l], Fan) < participants[l]
      BY <3>1, CeilFacts
    <3>3. participants[l + 1] <= NThreads - (l + 1)
      BY <2>2, <3>1, <3>2, HierarchicBarrierAssumption
    <3> QED
      BY <3>3
  <2> QED
    BY <1>2, <2>1, <2>2
<1>3. Nat \subseteq Sinks
  <2> HIDE DEF Sinks
  <2> QED
    BY <1>1, <1>2, SetInduction
<1>4. NThreads \in Nat /\ NThreads \in Sinks
  BY <1>3, HierarchicBarrierAssumption
<1>5. \E k \in 0 .. NThreads : k \in T
  <2>1. participants[NThreads] \in Nat \ {0}
    BY <1>4, ParticipantsFacts
  <2>2. ~(participants[NThreads] <= NThreads - NThreads)
    BY <1>4, <2>1
  <2> QED
    BY <1>4, <2>2
<1>6. PICK k \in 0 .. NThreads : k \in T
  BY <1>5
<1>7. T \in SUBSET Nat /\ T # {}
  BY <1>6
<1>8. PICK m \in T : \A l \in T : m <= l
  <2> HIDE DEF T
  <2> QED
    BY <1>7, LeastElement
<1>9. /\ m \in 0 .. NThreads /\ participants[m] <= Fan
      /\ \A l \in 0 .. m - 1 : participants[l] > Fan
  <2>1. m \in Nat /\ m <= k /\ k <= NThreads
    BY <1>4, <1>6, <1>8
  <2>2. ASSUME NEW l \in 0 .. m - 1
        PROVE  participants[l] > Fan
    <3>1. l \notin T /\ l \in Nat
      BY <1>8, <2>1
    <3> QED
      BY <3>1, ParticipantsFacts, HierarchicBarrierAssumption
  <2> QED
    BY <1>4, <2>1, <2>2
<1>10. rootLevel \in 0 .. NThreads /\ participants[rootLevel] <= Fan
  <2> HIDE DEF T
  <2> QED
    BY <1>9 DEF rootLevel
<1> QED
  BY <1>4, <1>10

\* A thread stands for a participant of each level, and every participant has
\* a thread.
LEMMA SlotInLevel ==
  ASSUME NEW l \in Nat
  PROVE  /\ \A t \in Threads : slot[l][t] \in 0 .. participants[l] - 1
         /\ \A j \in 0 .. participants[l] - 1 : \E t \in Threads : slot[l][t] = j
<1> DEFINE Fits(k) ==
             /\ \A t \in Threads : slot[k][t] \in 0 .. participants[k] - 1
             /\ \A j \in 0 .. participants[k] - 1 : \E t \in Threads : slot[k][t] = j
           Levels == {k \in Nat : Fits(k)}
<1>1. 0 \in Levels
  <2>1. participants[0] = NThreads /\ \A t \in Threads : slot[0][t] = t
    BY SlotFacts, ParticipantsFacts
  <2> QED
    BY <2>1 DEF Threads
<1>2. ASSUME NEW k \in Nat, k \in Levels
      PROVE  k + 1 \in Levels
  <2>1. /\ participants[k] \in Nat \ {0}
        /\ participants[k + 1] = CeilDiv(participants[k], Fan)
        /\ participants[k + 1] \in Nat \ {0}
    BY ParticipantsFacts
  <2>2. \A q \in Nat : q < participants[k + 1] <=> Fan * q < participants[k]
    BY <2>1, CeilFacts
  <2>3. ASSUME NEW t \in Threads
        PROVE  slot[k + 1][t] \in 0 .. participants[k + 1] - 1
    <3>1. slot[k][t] \in Nat /\ slot[k][t] < participants[k]
      BY <1>2, <2>1
    <3>2. PICK q \in Nat : q = slot[k][t] \div Fan
      BY <3>1, Division
    <3>3. Fan * q <= slot[k][t]
      BY <3>1, <3>2, Division
    <3>4. PICK n \in Nat : n = Fan * q
      BY HierarchicBarrierAssumption
    <3>5. n < participants[k]
      BY <2>1, <3>1, <3>3, <3>4
    <3>6. q < participants[k + 1]
      BY <2>2, <3>4, <3>5
    <3>7. slot[k + 1][t] = q
      BY <3>2, SlotFacts
    <3> QED
      BY <2>1, <3>6, <3>7
  <2>4. ASSUME NEW j \in 0 .. participants[k + 1] - 1
        PROVE  \E t \in Threads : slot[k + 1][t] = j
    <3>1. j \in Nat /\ j < participants[k + 1]
      BY <2>1
    <3>2. PICK n \in Nat : n = Fan * j
      BY <3>1, HierarchicBarrierAssumption
    <3>3. n \in 0 .. participants[k] - 1
      BY <2>1, <2>2, <3>1, <3>2
    <3>4. PICK t \in Threads : slot[k][t] = n
      BY <1>2, <3>3
    <3>5. n \div Fan = j
      <4>1. Fan * j <= n /\ n < Fan * j + Fan
        BY <3>2, HierarchicBarrierAssumption
      <4> QED
        BY <3>1, <4>1, Division
    <3>6. slot[k + 1][t] = j
      BY <3>4, <3>5, SlotFacts
    <3> QED
      BY <3>6
  <2> QED
    BY <2>3, <2>4
<1>3. Nat \subseteq Levels
  <2> HIDE DEF Levels
  <2> QED
    BY <1>1, <1>2, SetInduction
<1> QED
  BY <1>3

\* Who shares a participant shares those above it.
LEMMA Nested ==
  ASSUME NEW l \in Nat, NEW k \in Nat, l <= k,
         NEW t \in Threads, NEW u \in Threads, slot[l][t] = slot[l][u]
  PROVE  slot[k][t] = slot[k][u]
<1> DEFINE Shared == {n \in Nat : n >= l => slot[n][t] = slot[n][u]}
<1>1. 0 \in Shared
  <2>1. 0 >= l => l = 0
    OBVIOUS
  <2> QED
    BY <2>1
<1>2. ASSUME NEW n \in Nat, n \in Shared
      PROVE  n + 1 \in Shared
  <2>1. CASE n >= l
    <3>1. slot[n][t] = slot[n][u]
      BY <1>2, <2>1
    <3>2. slot[n + 1][t] = slot[n + 1][u]
      BY <3>1, SlotFacts
    <3> QED
      BY <3>2
  <2>2. CASE ~(n >= l)
    <3>1. n + 1 >= l => n + 1 = l
      BY <2>2
    <3> QED
      BY <3>1
  <2> QED
    BY <2>1, <2>2
<1>3. Nat \subseteq Shared
  <2> HIDE DEF Shared
  <2> QED
    BY <1>1, <1>2, SetInduction
<1> QED
  BY <1>3

\* The root is above all threads.
LEMMA OneRoot ==
  ASSUME NEW t \in Threads
  PROVE  slot[rootLevel + 1][t] = 0
<1>1. /\ rootLevel \in Nat /\ participants[rootLevel] \in Nat \ {0}
      /\ participants[rootLevel] <= Fan
      /\ participants[rootLevel + 1] = CeilDiv(participants[rootLevel], Fan)
      /\ participants[rootLevel + 1] \in Nat \ {0}
  BY RootFacts, ParticipantsFacts
<1>2. 1 < participants[rootLevel + 1] <=> Fan * 1 < participants[rootLevel]
  BY <1>1, CeilFacts
<1>3. participants[rootLevel + 1] = 1
  BY <1>1, <1>2, HierarchicBarrierAssumption
<1>4. slot[rootLevel + 1][t] \in 0 .. participants[rootLevel + 1] - 1
  BY <1>1, SlotInLevel
<1> QED
  BY <1>3, <1>4

\* The barriers are those that the threads take part in.
LEMMA BarrierFacts ==
  /\ \A t \in Threads, l \in 0 .. rootLevel : BarrierOf(t, l) \in Barriers
  /\ \A b \in Barriers : \E t \in Threads, l \in 0 .. rootLevel : b = BarrierOf(t, l)
<1>1. \A l \in 0 .. rootLevel :
        l \in Nat /\ participants[l + 1] = CeilDiv(participants[l], Fan)
  BY RootFacts, ParticipantsFacts
<1>2. ASSUME NEW t \in Threads, NEW l \in 0 .. rootLevel
      PROVE  BarrierOf(t, l) \in Barriers
  <2>1. slot[l + 1][t] \in 0 .. CeilDiv(participants[l], Fan) - 1
    BY <1>1, SlotInLevel
  <2> QED
    BY <2>1 DEF BarrierOf, Barriers
<1>3. ASSUME NEW b \in Barriers
      PROVE  \E t \in Threads, l \in 0 .. rootLevel : b = BarrierOf(t, l)
  <2>1. PICK l \in 0 .. rootLevel : \E i \in 0 .. CeilDiv(participants[l], Fan) - 1 : b = <<l, i>>
    BY DEF Barriers
  <2>2. PICK i \in 0 .. CeilDiv(participants[l], Fan) - 1 : b = <<l, i>>
    BY <2>1
  <2>3. \E t \in Threads : slot[l + 1][t] = i
    BY <1>1, SlotInLevel
  <2> QED
    BY <2>2, <2>3 DEF BarrierOf
<1> QED
  BY <1>2, <1>3

\* A barrier counts its participants.
LEMMA Members ==
  ASSUME NEW t \in Threads, NEW l \in 0 .. rootLevel
  PROVE  /\ IsFiniteSet(Places(t, l))
         /\ Cardinality(Places(t, l)) = threadCount(BarrierOf(t, l))
         /\ threadCount(BarrierOf(t, l)) \in Nat \ {0}
         /\ \A u \in Group(t, l) : slot[l][u] \in Places(t, l)
<1>1. l \in Nat
  BY RootFacts
<1>2. PICK p \in Nat \ {0} : p = participants[l]
  BY <1>1, ParticipantsFacts
<1>3. PICK q \in Nat : q = slot[l + 1][t]
  BY <1>1, SlotFacts
<1>4. PICK n \in Nat : n = Fan * q
  BY HierarchicBarrierAssumption
<1>5. PICK c \in Int : c = IF p - n < Fan THEN p - n ELSE Fan
  BY HierarchicBarrierAssumption
<1>6. threadCount(BarrierOf(t, l)) = c
  <2>1. BarrierOf(t, l)[1] = l /\ BarrierOf(t, l)[2] = q
    BY <1>3 DEF BarrierOf
  <2>2. q * Fan = n
    BY <1>4, HierarchicBarrierAssumption
  <2> QED
    BY <1>2, <1>5, <2>1, <2>2 DEF threadCount
<1>7. n < p
  <2>1. slot[l + 1][t] \in 0 .. participants[l + 1] - 1
    BY <1>1, SlotInLevel
  <2>2. participants[l + 1] = CeilDiv(p, Fan) /\ participants[l + 1] \in Nat
    BY <1>1, <1>2, ParticipantsFacts
  <2>3. q < CeilDiv(p, Fan)
    BY <1>3, <2>1, <2>2
  <2> QED
    BY <1>4, <2>3, CeilFacts
<1>8. c \in Nat \ {0}
  BY <1>5, <1>7, HierarchicBarrierAssumption
<1>9. Places(t, l) = n .. n + c - 1
  <2>1. ASSUME NEW j \in Nat
        PROVE  j \div Fan = q <=> n <= j /\ j < n + Fan
    BY <1>4, Division
  <2>2. ASSUME NEW j \in 0 .. p - 1
        PROVE  j \div Fan = q <=> j \in n .. n + c - 1
    BY <1>5, <1>8, <2>1, HierarchicBarrierAssumption
  <2>3. n .. n + c - 1 \subseteq 0 .. p - 1
    BY <1>5, <1>7, <1>8, HierarchicBarrierAssumption
  <2> QED
    BY <1>2, <1>3, <2>2, <2>3 DEF Places
<1>10. IsFiniteSet(n .. n + c - 1) /\ Cardinality(n .. n + c - 1) = c
  <2>1. n + c - 1 \in Int /\ n <= n + c - 1 + 1 /\ (n + c - 1) - n + 1 = c
    BY <1>8
  <2> QED
    BY <2>1, <1>8, FS_Interval
<1>11. ASSUME NEW u \in Group(t, l)
       PROVE  slot[l][u] \in Places(t, l)
  <2>1. slot[l][u] \in 0 .. participants[l] - 1 /\ slot[l + 1][u] = slot[l][u] \div Fan
    BY <1>1, SlotInLevel, SlotFacts DEF Group
  <2> QED
    BY <2>1 DEF Group, Places
<1> QED
  BY <1>6, <1>8, <1>9, <1>10, <1>11

-----------------------------------------------------------------------------
(* What the invariant says of a single state *)

LEMMA LevelFacts ==
  ASSUME TypeOK, NEW t \in Threads
  PROVE  /\ level[t] \in 0 .. rootLevel /\ level[t] \in Nat
         /\ rootLevel \in Nat
         /\ At(t) \in Barriers
         /\ \A l \in 0 .. rootLevel : l \in Nat /\ BarrierOf(t, l) \in Barriers
<1>1. level[t] \in 0 .. rootLevel
  BY DEF TypeOK
<1>2. rootLevel \in Nat /\ level[t] \in Nat /\ \A l \in 0 .. rootLevel : l \in Nat
  BY <1>1, RootFacts
<1>3. \A l \in 0 .. rootLevel : BarrierOf(t, l) \in Barriers
  BY BarrierFacts
<1>4. At(t) \in Barriers
  BY <1>1, <1>3 DEF At
<1> QED
  BY <1>1, <1>2, <1>3, <1>4

\* A barrier has a single leader.
LEMMA OneLeads ==
  ASSUME TypeOK, Follow, NEW t \in Threads, NEW u \in Threads, NEW l \in 0 .. rootLevel,
         Leads(t, l), Leads(u, l), u \in Group(t, l)
  PROVE  t = u
<1> SUFFICES ASSUME t # u
             PROVE  FALSE
  OBVIOUS
<1>1. Held(u) /\ level[u] <= l
  BY DEF Follow, Followed
<1>2. level[u] \in Nat /\ l \in Nat
  BY LevelFacts
<1> QED
  BY <1>1, <1>2 DEF Leads, Held

\* A participant of a barrier is represented there by a single thread.
LEMMA OneStands ==
  ASSUME TypeOK, Follow, NEW t \in Threads, NEW u \in Threads, level[u] = level[t],
         slot[level[t]][u] = slot[level[t]][t]
  PROVE  u = t
<1> SUFFICES ASSUME u # t
             PROVE  FALSE
  OBVIOUS
<1>1. level[t] \in Nat /\ level[t] <= rootLevel /\ rootLevel \in Nat
  BY LevelFacts
<1>2. CASE level[t] = 0
  BY <1>2, SlotFacts
<1>3. CASE level[t] # 0
  <2>1. PICK l \in 0 .. rootLevel : level[t] = l + 1
    <3>1. level[t] - 1 \in 0 .. rootLevel /\ level[t] = (level[t] - 1) + 1
      BY <1>1, <1>3
    <3> QED
      BY <3>1
  <2>2. l \in Nat /\ l < level[t]
    BY <1>1, <2>1
  <2>3. Leads(t, l) /\ u \in Group(t, l)
    BY <2>1, <2>2 DEF Leads, Group
  <2>4. level[u] <= l
    BY <2>3 DEF Follow, Followed
  <2> QED
    BY <1>1, <2>1, <2>2, <2>4
<1> QED
  BY <1>2, <1>3

\* Nobody leads the barrier that a thread arrives at, nor any above it.
LEMMA NobodyLeads ==
  ASSUME TypeOK, Follow, NEW t \in Threads, ~Held(t), ~Leads(t, level[t]),
         NEW u \in Threads, NEW l \in 0 .. rootLevel, Leads(u, l)
  PROVE  BarrierOf(u, l) # At(t)
<1> SUFFICES ASSUME BarrierOf(u, l) = At(t)
             PROVE  FALSE
  OBVIOUS
<1>1. l = level[t] /\ slot[l + 1][u] = slot[l + 1][t]
  BY DEF At, BarrierOf
<1>2. t \in Group(u, l)
  BY <1>1 DEF Group
<1>3. t = u
  BY <1>2 DEF Follow, Followed
<1> QED
  BY <1>1, <1>3

\* An arriving thread joins those who wait at the barrier; when they are as many
\* as the barrier counts, every participant is there.
LEMMA Arrivals ==
  ASSUME TypeOK, Phases, Follow, Missing, NEW t \in Threads, pc[t] = "arrive"
  PROVE  /\ IsFiniteSet(Here(At(t))) /\ t \notin Here(At(t))
         /\ cntr[At(t)] + Cardinality(Here(At(t))) = threadCount(At(t))
         /\ Cardinality(Here(At(t))) \in Nat
         /\ Cardinality(Here(At(t))) + 1 <= threadCount(At(t))
         /\ threadCount(At(t)) \in Nat
         /\ cntr[At(t)] = 1 =>
              \A u \in Group(t, level[t]) :
                \E v \in Here(At(t)) \cup {t} : slot[level[t]][v] = slot[level[t]][u]
<1>1. PICK l \in 0 .. rootLevel : l = level[t]
  BY LevelFacts
<1>2. PICK b \in Barriers : b = At(t) /\ b = BarrierOf(t, l)
  BY <1>1, LevelFacts DEF At
<1>3. PICK W : W = Here(b) \cup {t}
  OBVIOUS
<1>4. \A v \in W : v \in Threads /\ level[v] = l /\ v \in Group(t, l)
  BY <1>1, <1>2, <1>3 DEF Here, At, BarrierOf, Group
<1>5. /\ IsFiniteSet(Places(t, l)) /\ Cardinality(Places(t, l)) = threadCount(b)
      /\ threadCount(b) \in Nat
      /\ \A u \in Group(t, l) : slot[l][u] \in Places(t, l)
  BY <1>2, Members
<1>6. PICK m : m = [v \in W |-> slot[l][v]]
  OBVIOUS
<1>7. m \in Injection(W, Places(t, l))
  <2>1. m \in [W -> Places(t, l)]
    BY <1>4, <1>5, <1>6
  <2>2. ASSUME NEW v \in W, NEW w \in W, m[v] = m[w]
        PROVE  v = w
    <3>1. level[v] = level[w] /\ slot[level[w]][v] = slot[level[w]][w]
      BY <1>4, <1>6, <2>2
    <3> QED
      BY <1>4, <3>1, OneStands
  <2>3. DOMAIN m = W
    BY <1>6
  <2> QED
    BY <2>1, <2>2, <2>3 DEF Injection, IsInjective
<1>8. IsFiniteSet(W) /\ Cardinality(W) <= threadCount(b)
      /\ (Cardinality(W) = threadCount(b) => m \in Surjection(W, Places(t, l)))
  BY <1>5, <1>7, FS_Injection
<1>9. t \notin Here(b)
  BY DEF Here
<1>10. IsFiniteSet(Here(b)) /\ Cardinality(Here(b)) \in Nat
       /\ Cardinality(W) = Cardinality(Here(b)) + 1
  <2>1. Here(b) \in SUBSET W
    BY <1>3
  <2>2. IsFiniteSet(Here(b))
    BY <1>8, <2>1, FS_Subset
  <2>3. Cardinality(Here(b) \cup {t}) = Cardinality(Here(b)) + 1
    BY <1>9, <2>2, FS_AddElement
  <2> QED
    BY <1>3, <2>2, <2>3, FS_CardinalityType
<1>11. ~LedNow(b)
  <2>1. ~Held(t) /\ ~Leads(t, level[t])
    BY <1>1, LevelFacts DEF Held, Leads
  <2> QED
    BY <1>2, <2>1, NobodyLeads DEF LedNow
<1>12. cntr[b] + Cardinality(Here(b)) = threadCount(b)
  BY <1>11 DEF Missing
<1>13. ASSUME cntr[b] = 1, NEW u \in Group(t, l)
       PROVE  \E v \in W : slot[l][v] = slot[l][u]
  <2>1. Cardinality(W) = threadCount(b)
    BY <1>5, <1>10, <1>12, <1>13
  <2>2. m \in Surjection(W, Places(t, l)) /\ slot[l][u] \in Places(t, l)
    BY <1>5, <1>8, <1>13, <2>1
  <2>3. \E v \in W : m[v] = slot[l][u]
    BY <2>2 DEF Surjection
  <2> QED
    BY <1>6, <2>3
<1> QED
  BY <1>1, <1>2, <1>3, <1>5, <1>8, <1>9, <1>10, <1>12, <1>13

-----------------------------------------------------------------------------
(* The sum of the wins *)

LEMMA WinsFacts ==
  TypeOK =>
    /\ Wins[-1] = 0
    /\ \A n \in 0 .. NThreads - 1 : Wins[n] = Wins[n - 1] + won[n]
    /\ \A n \in -1 .. NThreads - 1 : Wins[n] \in Nat
<1> SUFFICES ASSUME TypeOK
             PROVE  /\ Wins[-1] = 0
                    /\ \A n \in 0 .. NThreads - 1 : Wins[n] = Wins[n - 1] + won[n]
                    /\ \A n \in -1 .. NThreads - 1 : Wins[n] \in Nat
  OBVIOUS
<1>1. PICK f \in [Nat -> Nat] : /\ f[0] = 0
                               /\ \A n \in Threads : f[n + 1] = f[n] + won[n]
  <2>1. PICK h : h = [p \in Nat \X Nat |-> IF p[1] \in Threads THEN p[2] + won[p[1]] ELSE p[2]]
    OBVIOUS
  <2>2. h \in [Nat \X Nat -> Nat]
    BY <2>1 DEF TypeOK
  <2>3. PICK f \in [Nat -> Nat] : Unfolds(f, 0, h)
    BY <2>2, Unfolding
  <2>4. f[0] = 0 /\ \A n \in Nat : f[n + 1] = h[<<n, f[n]>>]
    BY <2>3 DEF Unfolds
  <2>5. ASSUME NEW n \in Threads
        PROVE  f[n + 1] = f[n] + won[n]
    <3>1. n \in Nat /\ f[n] \in Nat
      BY HierarchicBarrierAssumption DEF Threads
    <3> QED
      BY <2>1, <2>4, <3>1
  <2> QED
    BY <2>4, <2>5
<1> DEFINE Step(w) == [t \in -1 .. NThreads - 1 |-> IF t = -1 THEN 0 ELSE w[t - 1] + won[t]]
           g == [t \in -1 .. NThreads - 1 |-> f[t + 1]]
<1>2. g = Step(g)
  <2>1. ASSUME NEW t \in -1 .. NThreads - 1
        PROVE  f[t + 1] = IF t = -1 THEN 0 ELSE g[t - 1] + won[t]
    <3>1. CASE t = -1
      BY <1>1, <3>1
    <3>2. CASE t # -1
      <4>1. t \in Threads /\ t - 1 \in -1 .. NThreads - 1 /\ (t - 1) + 1 = t
        BY <3>2, HierarchicBarrierAssumption DEF Threads
      <4>2. g[t - 1] = f[t]
        BY <4>1
      <4> QED
        BY <1>1, <3>2, <4>1, <4>2
    <3> QED
      BY <3>1, <3>2
  <2> QED
    BY <2>1
<1>3. Wins = CHOOSE w : w = Step(w)
  BY DEF Wins
<1> HIDE DEF Step
<1>4. Wins = Step(Wins)
  BY <1>2, <1>3
<1> USE DEF Step
<1>5. Wins[-1] = 0
  <2>1. -1 \in -1 .. NThreads - 1
    BY HierarchicBarrierAssumption
  <2> QED
    BY <1>4, <2>1
<1>6. \A n \in 0 .. NThreads - 1 : Wins[n] = Wins[n - 1] + won[n]
  <2> SUFFICES ASSUME NEW n \in 0 .. NThreads - 1
               PROVE  Wins[n] = Wins[n - 1] + won[n]
    OBVIOUS
  <2>1. n \in -1 .. NThreads - 1 /\ n # -1
    BY HierarchicBarrierAssumption
  <2> QED
    BY <1>4, <2>1
<1> DEFINE Num == {n \in Nat : n <= NThreads => Wins[n - 1] \in Nat}
<1>7. 0 \in Num
  BY <1>5
<1>8. ASSUME NEW n \in Nat, n \in Num
      PROVE  n + 1 \in Num
  <2> SUFFICES ASSUME n + 1 <= NThreads
               PROVE  Wins[n] \in Nat
    OBVIOUS
  <2>1. n \in 0 .. NThreads - 1 /\ n <= NThreads
    BY HierarchicBarrierAssumption
  <2>2. Wins[n - 1] \in Nat /\ won[n] \in Nat
    BY <1>8, <2>1 DEF TypeOK, Threads
  <2> QED
    BY <1>6, <2>1, <2>2
<1>9. Nat \subseteq Num
  <2> HIDE DEF Num
  <2> QED
    BY <1>7, <1>8, SetInduction
<1>10. ASSUME NEW n \in -1 .. NThreads - 1
       PROVE  Wins[n] \in Nat
  <2>1. n + 1 \in Num /\ n + 1 <= NThreads /\ (n + 1) - 1 = n
    BY <1>9, HierarchicBarrierAssumption
  <2> QED
    BY <2>1
<1> QED
  BY <1>5, <1>6, <1>10

\* One more win of a thread is one more win.
LEMMA WinsGrow ==
  ASSUME TypeOK, TypeOK', NEW t \in Threads, won' = [won EXCEPT ![t] = @ + 1]
  PROVE  (Wins[NThreads - 1])' = Wins[NThreads - 1] + 1
<1>1. /\ Wins[-1] = 0
      /\ \A n \in 0 .. NThreads - 1 : Wins[n] = Wins[n - 1] + won[n]
      /\ \A n \in -1 .. NThreads - 1 : Wins[n] \in Nat
  BY WinsFacts
<1>2. TypeOK' =>
       (/\ Wins[-1] = 0
        /\ \A n \in 0 .. NThreads - 1 : Wins[n] = Wins[n - 1] + won[n]
        /\ \A n \in -1 .. NThreads - 1 : Wins[n] \in Nat)'
  BY WinsFacts, PTL
<1>3. PICK v, w : v = Wins /\ w = Wins'
  OBVIOUS
<1>4. /\ v[-1] = 0 /\ w[-1] = 0
      /\ \A n \in 0 .. NThreads - 1 :
           v[n] = v[n - 1] + won[n] /\ w[n] = w[n - 1] + won'[n]
      /\ \A n \in -1 .. NThreads - 1 : v[n] \in Nat /\ w[n] \in Nat
  BY <1>1, <1>2, <1>3
<1> DEFINE Off == {n \in Nat : n <= NThreads =>
                      w[n - 1] = v[n - 1] + (IF t <= n - 1 THEN 1 ELSE 0)}
<1>5. t \in Nat /\ t <= NThreads - 1 /\ NThreads \in Nat
  BY HierarchicBarrierAssumption DEF Threads
<1>6. 0 \in Off
  BY <1>4, <1>5
<1>7. ASSUME NEW n \in Nat, n \in Off
      PROVE  n + 1 \in Off
  <2> SUFFICES ASSUME n + 1 <= NThreads
               PROVE  w[n] = v[n] + (IF t <= n THEN 1 ELSE 0)
    OBVIOUS
  <2>1. n \in 0 .. NThreads - 1 /\ n - 1 \in -1 .. NThreads - 1 /\ n <= NThreads
    BY <1>5
  <2>2. w[n - 1] = v[n - 1] + (IF t <= n - 1 THEN 1 ELSE 0)
    BY <1>7, <2>1
  <2>3. won[n] \in Nat /\ won'[n] = won[n] + (IF n = t THEN 1 ELSE 0)
    <3>1. n \in Threads
      BY <2>1 DEF Threads
    <3>2. won \in [Threads -> Nat]
      BY DEF TypeOK
    <3>3. won[n] \in Nat /\ won'[n] = IF n = t THEN won[n] + 1 ELSE won[n]
      BY <3>1, <3>2
    <3> QED
      BY <3>3
  <2>4. PICK x, y \in Nat : x = won[n] /\ y = v[n - 1]
    BY <1>4, <2>1, <2>3
  <2>5. v[n] = y + x /\ w[n] = y + (IF t <= n - 1 THEN 1 ELSE 0) + x + (IF n = t THEN 1 ELSE 0)
    BY <1>4, <2>1, <2>2, <2>3, <2>4
  <2> QED
    BY <1>5, <2>4, <2>5
<1>8. Nat \subseteq Off
  <2> HIDE DEF Off
  <2> QED
    BY <1>6, <1>7, SetInduction
<1>9. w[NThreads - 1] = v[NThreads - 1] + 1
  <2>1. NThreads \in Off
    BY <1>5, <1>8
  <2> QED
    BY <1>5, <2>1
<1> QED
  BY <1>3, <1>9

LEMMA WinsStay ==
  ASSUME won' = won
  PROVE  (Wins[NThreads - 1])' = Wins[NThreads - 1]
BY DEF Wins

LEMMA NoWins ==
  ASSUME TypeOK, won = [t \in Threads |-> 0]
  PROVE  Wins[NThreads - 1] = 0
<1>1. /\ Wins[-1] = 0
      /\ \A n \in 0 .. NThreads - 1 : Wins[n] = Wins[n - 1] + won[n]
  BY WinsFacts
<1> DEFINE Zero == {n \in Nat : n <= NThreads => Wins[n - 1] = 0}
<1>2. 0 \in Zero
  BY <1>1
<1>3. ASSUME NEW n \in Nat, n \in Zero
      PROVE  n + 1 \in Zero
  <2> SUFFICES ASSUME n + 1 <= NThreads
               PROVE  Wins[n] = 0
    OBVIOUS
  <2>1. n \in 0 .. NThreads - 1 /\ n <= NThreads
    BY HierarchicBarrierAssumption
  <2>2. Wins[n - 1] = 0 /\ won[n] = 0
    BY <1>3, <2>1 DEF Threads
  <2> QED
    BY <1>1, <2>1, <2>2
<1>4. Nat \subseteq Zero
  <2> HIDE DEF Zero
  <2> QED
    BY <1>2, <1>3, SetInduction
<1>5. NThreads \in Zero
  BY <1>4, HierarchicBarrierAssumption
<1> QED
  BY <1>5, HierarchicBarrierAssumption

-----------------------------------------------------------------------------
(* The initial state *)

LEMMA InitIInv == Init => IInv
<1> SUFFICES ASSUME Init
             PROVE  IInv
  OBVIOUS
<1>1. /\ rootLevel \in Nat
      /\ \A b \in Barriers : threadCount(b) \in Nat
  BY RootFacts, BarrierFacts, Members
<1>2. TypeOK
  BY <1>1, HierarchicBarrierAssumption DEF Init, TypeOK
<1>3. \A t \in Threads : \A l \in 0 .. rootLevel : ~Leads(t, l)
  BY <1>1 DEF Init, Leads
<1>4. Phases
  BY DEF Init, Phases, Phase, Released
<1>5. Follow /\ Represented /\ SetAgain
  BY <1>3 DEF Follow, Represented, SetAgain
<1>6. Missing
  <2> SUFFICES ASSUME NEW b \in Barriers
               PROVE  cntr[b] + Cardinality(Here(b)) = threadCount(b)
    BY DEF Missing
  <2>1. Here(b) = {}
    BY DEF Init, Here
  <2>2. Cardinality(Here(b)) = 0
    BY <2>1, FS_EmptySet
  <2> QED
    BY <1>1, <2>2 DEF Init
<1>7. FinalizedInv
  BY DEF Init, FinalizedInv, AtRoot
<1>8. Winners
  <2>1. Wins[NThreads - 1] = 0
    BY <1>2, NoWins DEF Init
  <2> QED
    BY <2>1 DEF Init, Winners, Winner
<1> QED
  BY <1>2, <1>4, <1>5, <1>6, <1>7, <1>8 DEF IInv

-----------------------------------------------------------------------------
(* What a step of one thread leaves as it is *)

\* Who is not held is in no group but its own.
LEMMA FollowStays ==
  ASSUME Follow, NEW t \in Threads, ~Held(t),
         NEW u \in Threads, NEW l \in 0 .. rootLevel, Leads(u, l),
         entered'[u] = entered[u],
         \A v \in Threads \ {t} : level'[v] = level[v] /\ entered'[v] = entered[v],
         \A v \in Group(u, l) \ {t, u} : Held(v) => Held(v)'
  PROVE  Followed(u, l)'
<1>1. Followed(u, l)
  BY DEF Follow
<1>2. ASSUME NEW v \in Threads, slot[l + 1][v] = slot[l + 1][u], v # u
      PROVE  Held(v)' /\ entered'[v] = entered'[u] /\ level'[v] <= l
  <2>1. v \in Group(u, l) \ {u}
    BY <1>2 DEF Group
  <2>2. Held(v) /\ entered[v] = entered[u] /\ level[v] <= l
    BY <1>1, <2>1 DEF Followed
  <2>3. v # t
    BY <2>2
  <2> QED
    BY <2>1, <2>2, <2>3
<1> QED
  BY <1>2 DEF Followed, Group

LEMMA CompleteStays ==
  ASSUME TypeOK, Follow, Represented, NEW t \in Threads, ~Held(t),
         NEW u \in Threads, NEW l \in 0 .. rootLevel, Leads(u, l), Leads(u, l)',
         level'[t] \in Nat,
         \A v \in Threads \ {t} : level'[v] = level[v]
  PROVE  Complete(u, l)'
<1>1. Complete(u, l) /\ Followed(u, l)
  BY DEF Represented, Follow
<1>2. l \in Nat
  BY LevelFacts
<1>3. ASSUME NEW w \in Threads, slot[l + 1][w] = slot[l + 1][u], NEW k \in 1 .. l
      PROVE  \E v \in Threads : level'[v] >= k /\ slot[k][v] = slot[k][w]
  <2>1. w \in Group(u, l)
    BY <1>3 DEF Group
  <2>2. PICK v \in Threads : level[v] >= k /\ slot[k][v] = slot[k][w]
    BY <1>1, <2>1 DEF Complete
  <2>3. CASE v # t
    BY <2>2, <2>3
  <2>4. CASE v = t
    <3>1. k \in Nat /\ l + 1 \in Nat /\ k <= l + 1
      BY <1>2
    <3>2. slot[l + 1][v] = slot[l + 1][w]
      BY <2>2, <3>1, Nested
    <3>3. v \in Group(u, l)
      BY <1>3, <3>2 DEF Group
    <3>4. u = t
      BY <1>1, <2>4, <3>3 DEF Followed
    <3>5. level'[t] >= l
      BY <1>2, <3>4 DEF Leads
    <3>6. level'[t] >= k
      BY <1>2, <3>5
    <3> QED
      BY <2>2, <2>4, <3>6
  <2> QED
    BY <2>3, <2>4
<1> QED
  BY <1>3 DEF Complete, Group

LEMMA ResultsStay ==
  ASSUME FinalizedInv, Winners,
         finalized' = finalized, tripped' = tripped, won' = won,
         \A u \in Threads : AtRoot(u)' <=> AtRoot(u),
         \A u \in Threads : Winner(u)' <=> Winner(u),
         \A u \in Threads : result'[u] /\ pc'[u] # "out" => Released(u)' \/ AtRoot(u)'
  PROVE  FinalizedInv' /\ Winners'
<1>1. FinalizedInv'
  BY DEF FinalizedInv
<1>2. (Wins[NThreads - 1])' = Wins[NThreads - 1]
  BY WinsStay
<1>3. Winners'
  BY <1>2 DEF Winners
<1> QED
  BY <1>1, <1>3

-----------------------------------------------------------------------------
(* The steps keep the invariant *)

\* A thread that begins wait() is in nobody's group.
LEMMA EnterIInv ==
  ASSUME IInv, NEW t \in Threads, Enter(t)
  PROVE  IInv'
<1> USE DEF IInv
<1>1. TypeOK'
  <2>1. round[At(t)] \in 0 .. RoundMod - 1
    BY LevelFacts DEF TypeOK
  <2> QED
    BY <2>1 DEF Enter, Goto, TypeOK
<1>2. pc[t] = "out" /\ level[t] = 0 /\ Released(t) /\ pc'[t] = "arrive"
  BY DEF Enter, Goto, Phases, Phase, TypeOK
<1>3. \A u \in Threads, l \in 0 .. rootLevel : Leads(u, l)' <=> Leads(u, l)
  BY <1>2 DEF Enter, Goto, Leads, TypeOK
<1>4. \A l \in 0 .. rootLevel : ~Leads(t, l)
  BY <1>2, LevelFacts DEF Leads
<1>5. /\ ~Held(t) /\ level' = level /\ tripped' = tripped
      /\ \A u \in Threads : At(u)' = At(u)
      /\ \A u \in Threads \ {t} :
           /\ pc'[u] = pc[u] /\ entered'[u] = entered[u] /\ result'[u] = result[u]
           /\ prevRound'[u] = prevRound[u]
           /\ Held(u)' <=> Held(u)
           /\ Current(u)' <=> Current(u)
  BY <1>2 DEF Enter, Goto, TypeOK, Held, At, Current
<1>6. Current(t)' /\ prevRound'[t] = round[At(t)] /\ round' = round
  BY <1>2 DEF Enter, TypeOK, Current, Released
<1>7. Phases'
  BY <1>1, <1>2, <1>5, <1>6 DEF Phases, Phase, Released, Current
<1>8. Follow'
  <2>1. ASSUME NEW u \in Threads, NEW l \in 0 .. rootLevel, Leads(u, l)'
        PROVE  Followed(u, l)'
    <3>1. Leads(u, l) /\ u # t
      BY <1>3, <1>4, <2>1
    <3>2. \A v \in Group(u, l) \ {t} : Held(v) => Held(v)'
      BY <1>5 DEF Group
    <3> QED
      BY <1>5, <3>1, <3>2, FollowStays
  <2> QED
    BY <2>1 DEF Follow
<1>9. Represented'
  <2>1. ASSUME NEW u \in Threads, NEW l \in 0 .. rootLevel, Leads(u, l)'
        PROVE  Complete(u, l)'
    BY <1>3, <1>5, <2>1, LevelFacts, CompleteStays
  <2> QED
    BY <2>1 DEF Represented
<1>10. \A b \in Barriers : (LedNow(b)' <=> LedNow(b)) /\ Here(b)' = Here(b)
  BY <1>2, <1>3, <1>4, <1>5 DEF LedNow, Here, BarrierOf
<1>11. cntr' = cntr
  BY DEF Enter
<1>12. Missing'
  BY <1>10, <1>11 DEF Missing
<1>13. SetAgain'
  BY <1>3, <1>4, <1>5, <1>11 DEF SetAgain
<1>14. FinalizedInv' /\ Winners'
  <2>1. finalized' = finalized /\ won' = won
    BY DEF Enter
  <2>2. \A u \in Threads : AtRoot(u)' <=> AtRoot(u)
    BY <1>2, <1>5 DEF AtRoot
  <2>3. ~result'[t]
    BY DEF Enter, Goto, TypeOK
  <2>4. \A u \in Threads : Winner(u)' <=> Winner(u)
    BY <1>2, <1>5, <2>3 DEF Winner, Released
  <2>5. \A u \in Threads : result'[u] /\ pc'[u] # "out" => Released(u)' \/ AtRoot(u)'
    BY <1>5, <2>2, <2>3 DEF Winners, Released
  <2> QED
    BY <1>5, <2>1, <2>2, <2>4, <2>5, ResultsStay
<1> QED
  BY <1>1, <1>7, <1>8, <1>9, <1>12, <1>13, <1>14

\* An arriving thread joins those who wait, or is the last one: then the barrier
\* has a leader, and all others below it spin.
LEMMA ArriveIInv ==
  ASSUME IInv, NEW t \in Threads, Arrive(t)
  PROVE  IInv'
<1> USE DEF IInv
<1>1. /\ pc[t] = "arrive" /\ Current(t) /\ prevRound[t] = round[At(t)]
      /\ pc' = [pc EXCEPT ![t] = IF cntr[At(t)] = 1 THEN "reset" ELSE "spin"]
      /\ cntr' = [cntr EXCEPT ![At(t)] = @ - 1]
      /\ UNCHANGED <<round, level, prevRound, result, entered, won, finalized, tripped>>
  BY DEF Arrive, Goto, Phases, Phase
<1>2. PICK l \in 0 .. rootLevel : l = level[t]
  BY LevelFacts
<1>3. PICK b \in Barriers : b = At(t) /\ b = BarrierOf(t, l)
  BY <1>2, LevelFacts DEF At
<1>4. /\ IsFiniteSet(Here(b)) /\ t \notin Here(b)
      /\ cntr[b] + Cardinality(Here(b)) = threadCount(b)
      /\ Cardinality(Here(b)) \in Nat
      /\ Cardinality(Here(b)) + 1 <= threadCount(b)
      /\ threadCount(b) \in Nat
      /\ cntr[b] = 1 =>
           \A u \in Group(t, l) : \E v \in Here(b) \cup {t} : slot[l][v] = slot[l][u]
  BY ZenonT(60), <1>1, <1>2, <1>3, Arrivals
<1>5. cntr[b] \in Nat /\ cntr[b] >= 1 /\ cntr'[b] = cntr[b] - 1
  BY <1>1, <1>3, <1>4 DEF TypeOK
<1>6. TypeOK'
  <2>1. cntr' \in [Barriers -> Nat]
    BY <1>1, <1>3, <1>5 DEF TypeOK
  <2> QED
    BY <1>1, <2>1 DEF TypeOK
<1>7. /\ \A u \in Threads : At(u)' = At(u) /\ (Current(u)' <=> Current(u)) /\ (Released(u)' <=> Released(u))
      /\ \A u \in Threads \ {t} : pc'[u] = pc[u] /\ (Held(u)' <=> Held(u))
      /\ ~Held(t) /\ ~Leads(t, l) /\ pc'[t] \in {"reset", "spin"}
  BY <1>1, <1>2, LevelFacts DEF TypeOK, At, Current, Released, Held, Leads
<1>8. Phases'
  BY <1>1, <1>7 DEF Phases, Phase
<1>9. \A u \in Threads, k \in 0 .. rootLevel :
        Leads(u, k)' <=> Leads(u, k) \/ (u = t /\ k = l /\ cntr[b] = 1)
  BY <1>1, <1>2, <1>3 DEF Leads, TypeOK
<1>10. \A u \in Threads, k \in 0 .. rootLevel : Leads(u, k) => BarrierOf(u, k) # b
  BY <1>2, <1>3, <1>7, NobodyLeads
<1>11. ASSUME NEW u \in Threads, NEW k \in 0 .. rootLevel, Leads(u, k)
       PROVE  Followed(u, k)' /\ Complete(u, k)'
  <2>1. Leads(u, k)'
    BY <1>9, <1>11
  <2>2. \A v \in Group(u, k) \ {t} : Held(v) => Held(v)'
    BY <1>7 DEF Group
  <2>3. Followed(u, k)'
    BY <1>1, <1>7, <1>11, <2>2, FollowStays
  <2>4. level'[t] \in Nat
    BY <1>1, LevelFacts
  <2>5. Complete(u, k)'
    BY <1>1, <1>7, <1>11, <2>1, <2>4, CompleteStays
  <2> QED
    BY <2>3, <2>5
\* The last one: who stands for u at the barrier waits there, and leads the
\* barrier below if it is not u itself.
<1>12. ASSUME cntr[b] = 1, NEW u \in Group(t, l)
       PROVE  \E v \in (Here(b) \cup {t}) \cap Threads :
                /\ level[v] = l /\ slot[l][v] = slot[l][u] /\ entered[v] = entered[t]
                /\ v # u => l # 0 /\ Leads(v, l - 1) /\ u \in Group(v, l - 1)
  <2>1. PICK v \in Here(b) \cup {t} : slot[l][v] = slot[l][u]
    BY <1>4, <1>12
  <2>2. v \in Threads /\ Current(v) /\ At(v) = b
    BY <1>1, <1>3, <2>1 DEF Here
  <2>3. level[v] = l /\ entered[v] = entered[t]
    BY <1>1, <1>3, <2>2 DEF At, BarrierOf, Current
  <2>4. u \in Threads
    BY DEF Group
  <2>5. ASSUME v # u
        PROVE  l # 0 /\ Leads(v, l - 1) /\ u \in Group(v, l - 1)
    <3>1. l # 0
      BY <2>1, <2>2, <2>4, <2>5, SlotFacts
    <3>2. l \in Nat /\ l - 1 < l /\ (l - 1) + 1 = l
      BY <1>2, LevelFacts
    <3> QED
      BY <2>1, <2>3, <2>4, <3>1, <3>2 DEF Leads, Group
  <2> QED
    BY <2>1, <2>2, <2>3, <2>5
<1>13. l \in Nat /\ (l # 0 => l - 1 \in 0 .. rootLevel /\ l - 1 < l)
  BY LevelFacts
<1>14. ASSUME cntr[b] = 1
       PROVE  Followed(t, l)'
  <2>1. ASSUME NEW u \in Threads, slot[l + 1][u] = slot[l + 1][t], u # t
        PROVE  Held(u)' /\ entered'[u] = entered'[t] /\ level'[u] <= l
    <3>1. u \in Group(t, l)
      BY <2>1 DEF Group
    <3>2. PICK v \in (Here(b) \cup {t}) \cap Threads :
                /\ level[v] = l /\ slot[l][v] = slot[l][u] /\ entered[v] = entered[t]
                /\ v # u => l # 0 /\ Leads(v, l - 1) /\ u \in Group(v, l - 1)
      BY <1>12, <1>14, <3>1
    <3>3. CASE v = u
      <4>1. pc[u] = "spin" /\ Current(u)
        BY <2>1, <3>2, <3>3 DEF Here
      <4>2. ~Released(u)
        BY <4>1 DEF Current, Released, TypeOK
      <4>3. Held(u)
        BY <4>1, <4>2 DEF Phases, Phase, Held
      <4> QED
        BY <1>1, <1>7, <1>13, <2>1, <3>2, <3>3, <4>3
    <3>4. CASE v # u
      <4>1. Followed(v, l - 1)
        BY <1>13, <3>2, <3>4 DEF Follow
      <4>2. Held(u) /\ entered[u] = entered[v] /\ level[u] <= l - 1
        BY <3>2, <3>4, <4>1 DEF Followed
      <4>3. level[u] \in Nat
        BY LevelFacts
      <4>4. level[u] <= l
        BY <1>13, <4>2, <4>3
      <4> QED
        BY <1>1, <1>7, <2>1, <3>2, <4>2, <4>4
    <3> QED
      BY <3>3, <3>4
  <2> QED
    BY <2>1 DEF Followed, Group
<1>15. ASSUME cntr[b] = 1
       PROVE  Complete(t, l)'
  <2>1. ASSUME NEW u \in Group(t, l), NEW k \in 1 .. l
        PROVE  \E w \in Threads : level[w] >= k /\ slot[k][w] = slot[k][u]
    <3>1. PICK v \in (Here(b) \cup {t}) \cap Threads :
                /\ level[v] = l /\ slot[l][v] = slot[l][u] /\ entered[v] = entered[t]
                /\ v # u => l # 0 /\ Leads(v, l - 1) /\ u \in Group(v, l - 1)
      BY <1>12, <1>15
    <3>2. CASE v = u \/ k = l
      <4>1. slot[k][v] = slot[k][u] /\ level[v] >= k
        BY <1>13, <3>1, <3>2
      <4> QED
        BY <4>1
    <3>3. CASE v # u /\ k # l
      <4>1. k \in 1 .. l - 1
        BY <1>13, <3>3
      <4>2. Complete(v, l - 1)
        BY <1>13, <3>1, <3>3 DEF Represented
      <4> QED
        BY <3>1, <3>3, <4>1, <4>2 DEF Complete
    <3> QED
      BY <3>2, <3>3
  <2> QED
    BY <1>1, <2>1 DEF Complete, Group
<1>16. Follow' /\ Represented'
  BY <1>9, <1>11, <1>14, <1>15 DEF Follow, Represented
<1>17. Missing'
  <2>1. \A c \in Barriers : LedNow(c) => LedNow(c)'
    BY <1>7, <1>9 DEF LedNow, BarrierOf
  <2>2. cntr[b] = 1 => LedNow(b)'
    BY <1>1, <1>3, <1>7, <1>9 DEF LedNow, BarrierOf
  <2>3. ASSUME NEW c \in Barriers, c # b
        PROVE  Here(c)' = Here(c) /\ cntr'[c] = cntr[c]
    <3>1. Here(c)' = Here(c)
      BY <1>1, <1>3, <1>7, <2>3 DEF Here
    <3>2. cntr'[c] = cntr[c]
      BY <1>1, <1>3, <2>3 DEF TypeOK
    <3> QED
      BY <3>1, <3>2
  <2>4. ASSUME cntr[b] # 1
        PROVE  cntr'[b] + Cardinality(Here(b)') = threadCount(b)
    <3>1. Here(b)' = Here(b) \cup {t}
      BY <1>1, <1>3, <1>7, <2>4 DEF Here, TypeOK
    <3>2. Cardinality(Here(b) \cup {t}) = Cardinality(Here(b)) + 1
      BY <1>4, FS_AddElement
    <3>3. Cardinality(Here(b)') = Cardinality(Here(b)) + 1
      BY <3>1, <3>2
    <3> QED
      BY <1>4, <1>5, <3>3
  <2>5. ASSUME NEW c \in Barriers, ~LedNow(c)'
        PROVE  cntr'[c] + Cardinality(Here(c)') = threadCount(c)
    <3>1. CASE c = b
      BY <2>2, <2>4, <2>5, <3>1
    <3>2. CASE c # b
      BY <2>1, <2>3, <2>5, <3>2 DEF Missing
    <3> QED
      BY <3>1, <3>2
  <2> QED
    BY <2>5 DEF Missing
<1>18. SetAgain'
  <2>1. ASSUME NEW u \in Threads, Current(u), NEW k \in 0 .. rootLevel, Leads(u, k)
        PROVE  cntr'[BarrierOf(u, k)] =
                 IF k = level'[u] /\ pc'[u] = "reset" THEN 0 ELSE threadCount(BarrierOf(u, k))
    <3>1. BarrierOf(u, k) # b /\ BarrierOf(u, k) \in Barriers
      BY <1>10, <2>1, BarrierFacts
    <3>2. cntr'[BarrierOf(u, k)] = cntr[BarrierOf(u, k)]
      BY <1>1, <1>3, <3>1 DEF TypeOK
    <3>3. u # t => pc'[u] = pc[u]
      BY <1>7
    <3>4. u = t => k # level[u] /\ pc[t] # "reset"
      BY <1>1, <1>2, <1>7, <2>1
    <3> QED
      BY <1>1, <2>1, <3>2, <3>3, <3>4 DEF SetAgain
  <2>2. cntr[b] = 1 => cntr'[b] = 0 /\ pc'[t] = "reset"
    BY <1>1, <1>3, <1>5 DEF TypeOK
  <2> QED
    BY <1>1, <1>2, <1>3, <1>7, <1>9, <2>1, <2>2 DEF SetAgain, BarrierOf
<1>19. FinalizedInv' /\ Winners'
  <2>1. \A u \in Threads : AtRoot(u)' <=> AtRoot(u)
    BY <1>1, <1>7 DEF AtRoot
  <2>2. \A u \in Threads : Winner(u)' <=> Winner(u)
    BY <1>1, <1>7 DEF Winner
  <2>3. \A u \in Threads : result'[u] /\ pc'[u] # "out" => Released(u)' \/ AtRoot(u)'
    BY <1>1, <1>7, <2>1 DEF Winners
  <2> QED
    BY <1>1, <2>1, <2>2, <2>3, ResultsStay
<1> QED
  BY <1>6, <1>8, <1>16, <1>17, <1>18, <1>19

\* The leader sets the counter of its barrier again.
LEMMA ResetIInv ==
  ASSUME IInv, NEW t \in Threads, Reset(t)
  PROVE  IInv'
<1> USE DEF IInv
<1>1. /\ pc[t] = "reset" /\ Current(t)
      /\ pc' = [pc EXCEPT ![t] = "finalizer"]
      /\ cntr' = [cntr EXCEPT ![At(t)] = threadCount(At(t))]
      /\ UNCHANGED <<round, level, prevRound, result, entered, won, finalized, tripped>>
  BY DEF Reset, Goto, Phases, Phase
<1>2. PICK l \in 0 .. rootLevel : l = level[t]
  BY LevelFacts
<1>3. PICK b \in Barriers : b = At(t) /\ b = BarrierOf(t, l)
  BY <1>2, LevelFacts DEF At
<1>4. TypeOK'
  <2>1. threadCount(b) \in Nat
    BY <1>3, Members
  <2>2. cntr' \in [Barriers -> Nat]
    BY <1>1, <1>3, <2>1 DEF TypeOK
  <2> QED
    BY <1>1, <2>2 DEF TypeOK
<1>5. /\ \A u \in Threads : At(u)' = At(u) /\ (Current(u)' <=> Current(u)) /\ (Released(u)' <=> Released(u))
      /\ \A u \in Threads \ {t} : pc'[u] = pc[u] /\ (Held(u)' <=> Held(u))
      /\ ~Held(t) /\ pc'[t] = "finalizer"
  BY <1>1 DEF TypeOK, At, Current, Released, Held
<1>6. Phases'
  BY <1>1, <1>5 DEF Phases, Phase
<1>7. \A u \in Threads, k \in 0 .. rootLevel : Leads(u, k)' <=> Leads(u, k)
  BY <1>1 DEF Leads, TypeOK
<1>8. Leads(t, l)
  BY <1>1, <1>2 DEF Leads
<1>9. ASSUME NEW u \in Threads, NEW k \in 0 .. rootLevel, Leads(u, k)
      PROVE  Followed(u, k)' /\ Complete(u, k)'
  <2>1. Leads(u, k)'
    BY <1>7, <1>9
  <2>2. \A v \in Group(u, k) \ {t} : Held(v) => Held(v)'
    BY <1>5 DEF Group
  <2>3. Followed(u, k)'
    BY <1>1, <1>5, <1>9, <2>2, FollowStays
  <2>4. level'[t] \in Nat
    BY <1>1, LevelFacts
  <2>5. Complete(u, k)'
    BY <1>1, <1>5, <1>9, <2>1, <2>4, CompleteStays
  <2> QED
    BY <2>3, <2>5
<1>10. Follow' /\ Represented'
  BY <1>7, <1>9 DEF Follow, Represented
<1>11. Missing'
  <2>1. \A c \in Barriers : (LedNow(c)' <=> LedNow(c)) /\ Here(c)' = Here(c)
    BY <1>1, <1>5, <1>7 DEF LedNow, Here, BarrierOf
  <2>2. LedNow(b)
    BY <1>1, <1>3, <1>8 DEF LedNow
  <2>3. \A c \in Barriers : c # b => cntr'[c] = cntr[c]
    BY <1>1, <1>3 DEF TypeOK
  <2> QED
    BY <2>1, <2>2, <2>3 DEF Missing
<1>12. SetAgain'
  <2>1. ASSUME NEW u \in Threads, Current(u), NEW k \in 0 .. rootLevel, Leads(u, k)
        PROVE  cntr'[BarrierOf(u, k)] =
                 IF k = level'[u] /\ pc'[u] = "reset" THEN 0 ELSE threadCount(BarrierOf(u, k))
    <3>1. BarrierOf(u, k) \in Barriers
      BY BarrierFacts
    <3>2. CASE BarrierOf(u, k) # b
      <4>1. cntr'[BarrierOf(u, k)] = cntr[BarrierOf(u, k)]
        BY <1>1, <1>3, <3>1, <3>2 DEF TypeOK
      <4>2. u # t => pc'[u] = pc[u]
        BY <1>5
      <4>3. u = t => k # level[u]
        BY <1>2, <1>3, <3>2
      <4> QED
        BY <1>1, <2>1, <4>1, <4>2, <4>3 DEF SetAgain
    <3>3. CASE BarrierOf(u, k) = b
      <4>1. k = l /\ t \in Group(u, k)
        BY <1>3, <3>3 DEF BarrierOf, Group
      <4>2. u = t
        BY <1>8, <2>1, <4>1, OneLeads
      <4> QED
        BY <1>1, <1>3, <1>5, <3>3, <4>2 DEF TypeOK
    <3> QED
      BY <3>2, <3>3
  <2> QED
    BY <1>5, <1>7, <2>1 DEF SetAgain, BarrierOf
<1>13. FinalizedInv' /\ Winners'
  <2>1. \A u \in Threads : AtRoot(u)' <=> AtRoot(u)
    BY <1>1, <1>5 DEF AtRoot
  <2>2. \A u \in Threads : Winner(u)' <=> Winner(u)
    BY <1>1, <1>5 DEF Winner
  <2>3. \A u \in Threads : result'[u] /\ pc'[u] # "out" => Released(u)' \/ AtRoot(u)'
    BY <1>1, <1>5, <2>1 DEF Winners
  <2> QED
    BY <1>1, <2>1, <2>2, <2>3, ResultsStay
<1> QED
  BY <1>4, <1>6, <1>10, <1>11, <1>12, <1>13

\* The leader of a barrier arrives at the one above, and still leads the former.
LEMMA ClimbIInv ==
  ASSUME IInv, NEW t \in Threads, Climb(t)
  PROVE  IInv'
<1> USE DEF IInv
<1>1. PICK l \in 0 .. rootLevel : l = level[t]
  BY LevelFacts
<1>2. l + 1 \in 0 .. rootLevel /\ l \in Nat
  BY <1>1, LevelFacts DEF Climb
<1>3. /\ pc[t] = "finalizer" /\ Current(t)
      /\ pc' = [pc EXCEPT ![t] = "arrive"]
      /\ level' = [level EXCEPT ![t] = l + 1]
      /\ prevRound' = [prevRound EXCEPT ![t] = round[BarrierOf(t, l + 1)]]
      /\ UNCHANGED <<cntr, round, result, entered, won, finalized, tripped>>
  BY <1>1 DEF Climb, Goto, Phases, Phase
<1>4. TypeOK'
  <2>1. round[BarrierOf(t, l + 1)] \in 0 .. RoundMod - 1
    BY <1>2, BarrierFacts DEF TypeOK
  <2> QED
    BY <1>2, <1>3, <2>1 DEF TypeOK
<1>5. /\ \A u \in Threads : (Current(u)' <=> Current(u)) /\ (Released(u)' <=> Released(u))
      /\ \A u \in Threads \ {t} :
           /\ pc'[u] = pc[u] /\ level'[u] = level[u] /\ prevRound'[u] = prevRound[u]
           /\ At(u)' = At(u) /\ (Held(u)' <=> Held(u))
      /\ ~Held(t) /\ pc'[t] = "arrive" /\ level'[t] = l + 1
      /\ At(t)' = BarrierOf(t, l + 1) /\ prevRound'[t] = round[BarrierOf(t, l + 1)]
  BY <1>3 DEF TypeOK, At, Current, Released, Held, BarrierOf
<1>6. Phases'
  BY <1>3, <1>5 DEF Phases, Phase
<1>7. \A u \in Threads, k \in 0 .. rootLevel : Leads(u, k)' <=> Leads(u, k)
  <2>1. \A k \in 0 .. rootLevel : Leads(t, k)' <=> Leads(t, k)
    <3>1. \A k \in 0 .. rootLevel : k < l + 1 <=> k < l \/ k = l
      BY <1>2, RootFacts
    <3> QED
      BY <1>1, <1>3, <1>5, <3>1 DEF Leads
  <2> QED
    BY <1>5, <2>1 DEF Leads
<1>8. ASSUME NEW u \in Threads, NEW k \in 0 .. rootLevel, Leads(u, k)
      PROVE  Followed(u, k)' /\ Complete(u, k)'
  <2>1. Leads(u, k)'
    BY <1>7, <1>8
  <2>2. \A v \in Group(u, k) \ {t} : Held(v) => Held(v)'
    BY <1>5 DEF Group
  <2>3. Followed(u, k)'
    BY <1>3, <1>5, <1>8, <2>2, FollowStays
  <2>4. level'[t] \in Nat
    BY <1>2, <1>5
  <2>5. Complete(u, k)'
    BY <1>3, <1>5, <1>8, <2>1, <2>4, CompleteStays
  <2> QED
    BY <2>3, <2>5
<1>9. Follow' /\ Represented'
  BY <1>7, <1>8 DEF Follow, Represented
<1>10. Missing'
  <2>1. \A c \in Barriers : LedNow(c)' <=> LedNow(c)
    BY <1>5, <1>7 DEF LedNow, BarrierOf
  <2>2. \A c \in Barriers : Here(c)' = Here(c)
    BY <1>3, <1>5 DEF Here
  <2> QED
    BY <1>3, <2>1, <2>2 DEF Missing
<1>11. SetAgain'
  <2>1. ASSUME NEW u \in Threads, Current(u), NEW k \in 0 .. rootLevel, Leads(u, k)
        PROVE  cntr'[BarrierOf(u, k)] =
                 IF k = level'[u] /\ pc'[u] = "reset" THEN 0 ELSE threadCount(BarrierOf(u, k))
    <3>1. u # t => pc'[u] = pc[u] /\ level'[u] = level[u]
      BY <1>5
    <3>2. u = t => pc[u] = "finalizer" /\ pc'[u] = "arrive"
      BY <1>3, <1>5
    <3> QED
      BY <1>3, <2>1, <3>1, <3>2 DEF SetAgain
  <2> QED
    BY <1>5, <1>7, <2>1 DEF SetAgain, BarrierOf
<1>12. FinalizedInv' /\ Winners'
  <2>1. \A u \in Threads : AtRoot(u)' <=> AtRoot(u)
    BY <1>3, <1>5 DEF AtRoot
  <2>2. \A u \in Threads : Winner(u)' <=> Winner(u)
    BY <1>3, <1>5 DEF Winner
  <2>3. \A u \in Threads : result'[u] /\ pc'[u] # "out" => Released(u)' \/ AtRoot(u)'
    BY <1>3, <1>5, <2>1 DEF Winners
  <2> QED
    BY <1>3, <2>1, <2>2, <2>3, ResultsStay
<1> QED
  BY <1>4, <1>6, <1>9, <1>10, <1>11, <1>12

\* At the root all others wait.
LEMMA RootHolds ==
  ASSUME TypeOK, Follow, NEW t \in Threads, Leads(t, rootLevel), NEW u \in Threads, u # t
  PROVE  Held(u) /\ entered[u] = entered[t] /\ ~Leads(u, rootLevel)
<1>1. rootLevel \in 0 .. rootLevel
  BY RootFacts
<1>2. u \in Group(t, rootLevel)
  BY OneRoot DEF Group
<1>3. Held(u) /\ entered[u] = entered[t]
  BY <1>1, <1>2 DEF Follow, Followed
<1>4. ~Leads(u, rootLevel)
  BY <1>1, <1>2, OneLeads
<1> QED
  BY <1>3, <1>4

\* The finalizer of the caller runs at the root, and its thread is to win.
LEMMA FinalizeIInv ==
  ASSUME IInv, NEW t \in Threads, Finalize(t)
  PROVE  IInv'
<1> USE DEF IInv
<1>1. /\ pc[t] = "finalizer" /\ Current(t) /\ level[t] = rootLevel
      /\ pc' = [pc EXCEPT ![t] = "release"]
      /\ finalized' = finalized + 1
      /\ result' = [result EXCEPT ![t] = TRUE]
      /\ UNCHANGED <<cntr, round, level, prevRound, entered, won, tripped>>
  BY DEF Finalize, Goto, Phases, Phase
<1>2. TypeOK'
  BY <1>1 DEF TypeOK
<1>3. /\ \A u \in Threads : At(u)' = At(u) /\ (Current(u)' <=> Current(u)) /\ (Released(u)' <=> Released(u))
      /\ \A u \in Threads \ {t} :
           /\ pc'[u] = pc[u] /\ result'[u] = result[u]
           /\ (Held(u)' <=> Held(u))
      /\ ~Held(t) /\ pc'[t] = "release" /\ result'[t]
  BY <1>1 DEF TypeOK, At, Current, Released, Held
<1>4. Phases'
  BY <1>1, <1>3 DEF Phases, Phase
<1>5. \A u \in Threads, k \in 0 .. rootLevel : Leads(u, k)' <=> Leads(u, k)
  BY <1>1 DEF Leads, TypeOK
<1>6. ASSUME NEW u \in Threads, NEW k \in 0 .. rootLevel, Leads(u, k)
      PROVE  Followed(u, k)' /\ Complete(u, k)'
  <2>1. Leads(u, k)'
    BY <1>5, <1>6
  <2>2. \A v \in Group(u, k) \ {t} : Held(v) => Held(v)'
    BY <1>3 DEF Group
  <2>3. Followed(u, k)'
    BY <1>1, <1>3, <1>6, <2>2, FollowStays
  <2>4. level'[t] \in Nat
    BY <1>1, LevelFacts
  <2>5. Complete(u, k)'
    BY <1>1, <1>3, <1>6, <2>1, <2>4, CompleteStays
  <2> QED
    BY <2>3, <2>5
<1>7. Follow' /\ Represented'
  BY <1>5, <1>6 DEF Follow, Represented
<1>8. Missing'
  <2>1. \A c \in Barriers : (LedNow(c)' <=> LedNow(c)) /\ Here(c)' = Here(c)
    BY <1>1, <1>3, <1>5 DEF LedNow, Here, BarrierOf
  <2> QED
    BY <1>1, <2>1 DEF Missing
<1>9. SetAgain'
  BY <1>1, <1>3, <1>5 DEF SetAgain, BarrierOf
<1>10. Leads(t, rootLevel)
  BY <1>1 DEF Leads
<1>11. /\ \A u \in Threads : ~AtRoot(u)
       /\ AtRoot(t)'
  BY <1>1, <1>3, <1>10, RootHolds DEF AtRoot, Held
<1>12. FinalizedInv'
  BY <1>1, <1>11 DEF FinalizedInv
<1>13. Winners'
  <2>1. ~Released(t)
    BY <1>1 DEF Current, Released, TypeOK
  <2>2. \A u \in Threads : Winner(u)' <=> Winner(u)
    BY <1>3, <2>1 DEF Winner
  <2>3. \A u \in Threads : result'[u] /\ pc'[u] # "out" => Released(u)' \/ AtRoot(u)'
    BY <1>3, <1>11 DEF Winners
  <2>4. (Wins[NThreads - 1])' = Wins[NThreads - 1]
    BY <1>1, WinsStay
  <2> QED
    BY <1>1, <2>2, <2>3, <2>4 DEF Winners
<1> QED
  BY <1>2, <1>4, <1>7, <1>8, <1>9, <1>12, <1>13

-----------------------------------------------------------------------------
(* A wait() that returns *)

LEMMA ReturnFacts ==
  ASSUME TypeOK, NEW t \in Threads, Return(t), pc[t] \in {"spin", "release"}
  PROVE  /\ level' \in [Threads -> 0 .. rootLevel] /\ won' \in [Threads -> Nat]
         /\ pc' \in [Threads -> {"out", "arrive", "reset", "finalizer", "release", "spin"}]
         /\ \A u \in Threads \ {t} : pc'[u] = pc[u] /\ level'[u] = level[u]
         /\ level[t] = 0 => pc'[t] = "out" /\ level'[t] = 0
         /\ level[t] # 0 => pc'[t] = "release" /\ level'[t] = level[t] - 1
         /\ level'[t] \in Nat /\ ~AtRoot(t)'
         /\ \A k \in 0 .. rootLevel : Leads(t, k)' <=> k < level[t]
<1>1. level[t] \in Nat /\ level[t] <= rootLevel /\ rootLevel \in Nat
  BY LevelFacts
<1>2. CASE level[t] = 0
  <2>1. /\ pc' = [pc EXCEPT ![t] = "out"] /\ level' = level
        /\ won' = [won EXCEPT ![t] = @ + (IF result[t] THEN 1 ELSE 0)]
    BY <1>2 DEF Return, Goto
  <2>2. won[t] + (IF result[t] THEN 1 ELSE 0) \in Nat
    BY DEF TypeOK
  <2>3. won' \in [Threads -> Nat]
    BY <2>1, <2>2 DEF TypeOK
  <2>4. pc'[t] = "out" /\ level'[t] = 0
    BY <1>2, <2>1 DEF TypeOK
  <2>5. \A k \in 0 .. rootLevel : Leads(t, k)' <=> k < level[t]
    BY <1>1, <1>2, <2>4 DEF Leads
  <2> QED
    BY <1>1, <1>2, <2>1, <2>3, <2>4, <2>5 DEF TypeOK, AtRoot
<1>3. CASE level[t] # 0
  <2>1. /\ pc' = [pc EXCEPT ![t] = "release"] /\ won' = won
        /\ level' = [level EXCEPT ![t] = level[t] - 1]
    BY <1>3 DEF Return, Goto
  <2>2. level[t] - 1 \in 0 .. rootLevel /\ level[t] - 1 # rootLevel
    BY <1>1, <1>3
  <2>3. pc'[t] = "release" /\ level'[t] = level[t] - 1
    BY <2>1 DEF TypeOK
  <2>4. \A k \in 0 .. rootLevel : Leads(t, k)' <=> k < level[t]
    <3>1. \A k \in 0 .. rootLevel : k < level[t] <=> k < level[t] - 1 \/ k = level[t] - 1
      BY <1>1
    <3> QED
      BY <2>3, <3>1 DEF Leads
  <2> QED
    BY <1>1, <1>3, <2>1, <2>2, <2>3, <2>4 DEF TypeOK, AtRoot
<1> QED
  BY <1>2, <1>3

\* Those who are still led spin at other barriers than the released one.
LEMMA ReturnTree ==
  ASSUME IInv, NEW t \in Threads, Return(t), pc[t] \in {"spin", "release"}, ~Held(t),
         entered' = entered,
         \A u \in Threads \ {t} :
           Held(u) /\ (pc[t] = "release" => At(u) # At(t)) => Held(u)'
  PROVE  Follow' /\ Represented'
<1> USE DEF IInv
<1>1. /\ \A u \in Threads \ {t} : pc'[u] = pc[u] /\ level'[u] = level[u]
      /\ level'[t] \in Nat
      /\ \A k \in 0 .. rootLevel : Leads(t, k)' <=> k < level[t]
  BY ReturnFacts
<1>2. ASSUME NEW u \in Threads, NEW k \in 0 .. rootLevel, Leads(u, k)'
      PROVE  Followed(u, k)' /\ Complete(u, k)'
  <2>1. Leads(u, k) /\ (u = t => k < level[t])
    BY <1>1, <1>2 DEF Leads
  <2>2. ASSUME NEW v \in Group(u, k) \ {t, u}, Held(v)
        PROVE  Held(v)'
    <3> SUFFICES ASSUME pc[t] = "release", At(v) = At(t)
                 PROVE  FALSE
      BY <2>2 DEF Group
    <3>1. Followed(u, k)
      BY <2>1 DEF Follow
    <3>2. v \in Threads /\ slot[k + 1][v] = slot[k + 1][u]
      BY DEF Group
    <3>3. level[v] = level[t] /\ slot[level[t] + 1][v] = slot[level[t] + 1][t]
      BY DEF At, BarrierOf
    <3>4. level[t] <= k /\ level[t] \in Nat /\ k \in Nat
      BY <3>1, <3>2, <3>3, LevelFacts DEF Followed
    <3>5. u # t
      BY <2>1, <3>4
    <3>6. level[t] + 1 \in Nat /\ k + 1 \in Nat /\ level[t] + 1 <= k + 1
      BY <3>4
    <3>7. slot[k + 1][v] = slot[k + 1][t]
      BY <3>2, <3>3, <3>6, Nested
    <3>8. t \in Group(u, k)
      BY <3>2, <3>7 DEF Group
    <3> QED
      BY <3>1, <3>5, <3>8 DEF Followed
  <2>3. Followed(u, k)'
    BY <1>1, <2>1, <2>2, FollowStays
  <2>4. Complete(u, k)'
    BY <1>1, <1>2, <2>1, CompleteStays
  <2> QED
    BY <2>3, <2>4
<1> QED
  BY <1>2 DEF Follow, Represented

LEMMA ReturnWins ==
  ASSUME TypeOK, TypeOK', NEW t \in Threads, Return(t)
  PROVE  (Wins[NThreads - 1])' =
           Wins[NThreads - 1] + (IF level[t] = 0 /\ result[t] THEN 1 ELSE 0)
<1>1. CASE level[t] = 0 /\ result[t]
  <2>1. won' = [won EXCEPT ![t] = @ + 1]
    BY <1>1 DEF Return
  <2> QED
    BY <1>1, <2>1, WinsGrow
<1>2. CASE ~(level[t] = 0 /\ result[t])
  <2>1. won' = won
    BY <1>2 DEF Return, TypeOK
  <2>2. (Wins[NThreads - 1])' = Wins[NThreads - 1]
    BY <2>1, WinsStay
  <2>3. Wins[NThreads - 1] \in Nat
    <3>1. NThreads - 1 \in -1 .. NThreads - 1
      BY HierarchicBarrierAssumption
    <3> QED
      BY <3>1, WinsFacts
  <2> QED
    BY <1>2, <2>2, <2>3
<1> QED
  BY <1>1, <1>2

\* A thread of the phase before counts nowhere.
LEMMA ReturnCounts ==
  ASSUME IInv, TypeOK', NEW t \in Threads, Return(t), pc[t] \in {"spin", "release"},
         Released(t), ~AtRoot(t),
         UNCHANGED <<cntr, result, entered, finalized, tripped>>
  PROVE  Missing' /\ SetAgain' /\ FinalizedInv' /\ Winners'
<1> USE DEF IInv
<1>1. /\ \A u \in Threads \ {t} : pc'[u] = pc[u] /\ level'[u] = level[u]
      /\ level[t] = 0 => pc'[t] = "out"
      /\ level[t] # 0 => pc'[t] = "release"
      /\ ~AtRoot(t)'
  BY ReturnFacts
<1>2. /\ \A u \in Threads : (Current(u)' <=> Current(u)) /\ (Released(u)' <=> Released(u))
      /\ ~Current(t)
  BY DEF Current, Released, TypeOK
<1>3. /\ \A u \in Threads \ {t}, k \in 0 .. rootLevel : Leads(u, k)' <=> Leads(u, k)
      /\ \A u \in Threads \ {t} : At(u)' = At(u)
  BY <1>1 DEF Leads, At, BarrierOf
<1>4. Missing'
  <2>1. \A b \in Barriers : (LedNow(b)' <=> LedNow(b))
    BY <1>2, <1>3 DEF LedNow, BarrierOf
  <2>2. \A b \in Barriers : Here(b)' = Here(b)
    BY <1>1, <1>2, <1>3 DEF Here
  <2> QED
    BY <2>1, <2>2 DEF Missing
<1>5. SetAgain'
  <2>1. ASSUME NEW u \in Threads, Current(u)', NEW k \in 0 .. rootLevel, Leads(u, k)'
        PROVE  cntr'[BarrierOf(u, k)] =
                 IF k = level'[u] /\ pc'[u] = "reset" THEN 0 ELSE threadCount(BarrierOf(u, k))
    <3>1. Current(u) /\ u # t
      BY <1>2, <2>1
    <3>2. Leads(u, k) /\ level'[u] = level[u] /\ pc'[u] = pc[u]
      BY <1>1, <1>3, <2>1, <3>1
    <3> QED
      BY <3>1, <3>2 DEF SetAgain
  <2> QED
    BY <2>1 DEF SetAgain, BarrierOf
<1>6. \A u \in Threads : AtRoot(u)' <=> AtRoot(u)
  BY <1>1 DEF AtRoot
<1>7. FinalizedInv'
  BY <1>6 DEF FinalizedInv
<1>8. Winners'
  <2>1. \A u \in Threads \ {t} : Winner(u)' <=> Winner(u)
    BY <1>1, <1>2 DEF Winner
  <2>2. Winner(t) <=> result[t]
    BY DEF Winner
  <2>3. Winner(t)' <=> level[t] # 0 /\ result[t]
    BY <1>1, <1>2 DEF Winner
  <2>4. (Wins[NThreads - 1])' =
           Wins[NThreads - 1] + (IF level[t] = 0 /\ result[t] THEN 1 ELSE 0)
    BY ReturnWins
  <2>5. Wins[NThreads - 1] \in Nat
    <3>1. NThreads - 1 \in -1 .. NThreads - 1
      BY HierarchicBarrierAssumption
    <3> QED
      BY <3>1, WinsFacts
  <2>6. \A u \in Threads : result'[u] /\ pc'[u] # "out" => Released(u)' \/ AtRoot(u)'
    BY <1>1, <1>2, <1>6 DEF Winners
  <2>7. \A u, v \in Threads : Winner(u)' /\ Winner(v)' => u = v
    BY <2>1, <2>2, <2>3 DEF Winners
  <2>8. (Wins[NThreads - 1])' + (IF \E u \in Threads : Winner(u)' THEN 1 ELSE 0) = tripped
    <3>1. Wins[NThreads - 1] + (IF \E u \in Threads : Winner(u) THEN 1 ELSE 0) = tripped
          /\ \A u, v \in Threads : Winner(u) /\ Winner(v) => u = v
      BY DEF Winners
    <3>2. CASE level[t] = 0 /\ result[t]
      <4>1. Winner(t) /\ ~Winner(t)' /\ \A u \in Threads \ {t} : ~Winner(u)'
        BY <2>1, <2>2, <2>3, <3>1, <3>2
      <4> QED
        BY <2>4, <2>5, <3>1, <3>2, <4>1
    <3>3. CASE ~(level[t] = 0 /\ result[t])
      <4>1. \A u \in Threads : Winner(u)' <=> Winner(u)
        BY <2>1, <2>2, <2>3, <3>3
      <4> QED
        BY <2>4, <2>5, <3>1, <3>3, <4>1
    <3> QED
      BY <3>2, <3>3
  <2> QED
    BY <2>6, <2>7, <2>8 DEF Winners
<1> QED
  BY <1>4, <1>5, <1>7, <1>8

\* A thread that leaves the spin loop was released.
LEMMA LeaveIInv ==
  ASSUME IInv, NEW t \in Threads, Leave(t)
  PROVE  IInv'
<1> USE DEF IInv
<1>1. /\ pc[t] = "spin" /\ Return(t) /\ round[At(t)] # prevRound[t]
      /\ UNCHANGED <<cntr, round, prevRound, result, entered, finalized, tripped>>
  BY DEF Leave
<1>2. Released(t) /\ ~Held(t) /\ ~AtRoot(t)
  BY <1>1 DEF Phases, Phase, Held, AtRoot
<1>3. /\ level' \in [Threads -> 0 .. rootLevel] /\ won' \in [Threads -> Nat]
      /\ pc' \in [Threads -> {"out", "arrive", "reset", "finalizer", "release", "spin"}]
      /\ \A u \in Threads \ {t} : pc'[u] = pc[u] /\ level'[u] = level[u]
      /\ level[t] = 0 => pc'[t] = "out" /\ level'[t] = 0
      /\ level[t] # 0 => pc'[t] = "release" /\ level'[t] = level[t] - 1
      /\ ~AtRoot(t)'
  BY <1>1, ReturnFacts
<1>4. TypeOK'
  BY <1>1, <1>3 DEF TypeOK
<1>5. \A u \in Threads \ {t} : At(u)' = At(u) /\ (Held(u)' <=> Held(u))
  BY <1>1, <1>3 DEF At, Held
<1>6. \A u \in Threads : (Current(u)' <=> Current(u)) /\ (Released(u)' <=> Released(u))
  BY <1>1 DEF Current, Released
<1>7. Phases'
  <2>1. \A u \in Threads \ {t} : Phase(u)'
    BY <1>1, <1>3, <1>5, <1>6 DEF Phases, Phase
  <2>2. Phase(t)'
    BY <1>2, <1>3, <1>6 DEF Phase, AtRoot
  <2> QED
    BY <2>1, <2>2 DEF Phases
<1>8. Follow' /\ Represented'
  BY <1>1, <1>2, <1>5, ReturnTree
<1>9. Missing' /\ SetAgain' /\ FinalizedInv' /\ Winners'
  BY <1>1, <1>2, <1>4, ReturnCounts
<1> QED
  BY <1>4, <1>7, <1>8, <1>9

\* round++ is another round.
LEMMA NextRound ==
  ASSUME NEW r \in 0 .. RoundMod - 1
  PROVE  (r + 1) % RoundMod \in 0 .. RoundMod - 1 /\ (r + 1) % RoundMod # r
BY HierarchicBarrierAssumption

\* The release of a barrier keeps the tree in order.
LEMMA ReleaseTree ==
  ASSUME IInv, NEW t \in Threads, Release(t)
  PROVE  TypeOK' /\ Follow' /\ Represented'
<1> USE DEF IInv
<1>1. /\ pc[t] = "release" /\ Return(t) /\ At(t) \in Barriers
      /\ round' = [round EXCEPT ![At(t)] = (@ + 1) % RoundMod]
      /\ tripped' = (IF level[t] = rootLevel THEN tripped + 1 ELSE tripped)
      /\ UNCHANGED <<cntr, prevRound, result, entered, finalized>>
  BY LevelFacts DEF Release
<1>2. /\ level' \in [Threads -> 0 .. rootLevel] /\ won' \in [Threads -> Nat]
      /\ pc' \in [Threads -> {"out", "arrive", "reset", "finalizer", "release", "spin"}]
      /\ \A u \in Threads \ {t} : pc'[u] = pc[u] /\ level'[u] = level[u]
  BY <1>1, ReturnFacts
<1>3. TypeOK'
  <2>1. round' \in [Barriers -> 0 .. RoundMod - 1]
    <3>1. (round[At(t)] + 1) % RoundMod \in 0 .. RoundMod - 1
      BY <1>1, NextRound DEF TypeOK
    <3> QED
      BY <1>1, <3>1 DEF TypeOK
  <2>2. tripped' \in Nat
    BY <1>1 DEF TypeOK
  <2> QED
    BY <1>1, <1>2, <2>1, <2>2 DEF TypeOK
<1>4. \A u \in Threads \ {t} : Held(u) /\ At(u) # At(t) => Held(u)'
  <2> SUFFICES ASSUME NEW u \in Threads \ {t}, Held(u), At(u) # At(t)
               PROVE  Held(u)'
    OBVIOUS
  <2>1. At(u)' = At(u)
    BY <1>2 DEF At
  <2>2. At(u) \in Barriers
    BY LevelFacts
  <2>3. round'[At(u)] = round[At(u)]
    BY <1>1, <2>2 DEF TypeOK
  <2> QED
    BY <1>1, <1>2, <2>1, <2>3 DEF Held
<1>5. ~Held(t)
  BY <1>1 DEF Held
<1>6. Follow' /\ Represented'
  BY <1>1, <1>4, <1>5, ReturnTree
<1> QED
  BY <1>3, <1>6

\* Below the root, a release is one of the phase that the root has released.
LEMMA ReleaseBelowIInv ==
  ASSUME IInv, NEW t \in Threads, Release(t), level[t] # rootLevel
  PROVE  IInv'
<1> USE DEF IInv
<1>1. PICK l \in 0 .. rootLevel : l = level[t]
  BY LevelFacts
<1>2. /\ pc[t] = "release" /\ Return(t) /\ Released(t) /\ ~AtRoot(t)
      /\ Leads(t, l) /\ At(t) \in Barriers /\ At(t) = BarrierOf(t, l)
      /\ round' = [round EXCEPT ![At(t)] = (@ + 1) % RoundMod]
      /\ UNCHANGED <<cntr, prevRound, result, entered, finalized, tripped>>
  BY <1>1, LevelFacts DEF Release, Phases, Phase, AtRoot, Leads, At
<1>3. TypeOK' /\ Follow' /\ Represented'
  BY ReleaseTree
<1>4. /\ \A u \in Threads \ {t} : pc'[u] = pc[u] /\ level'[u] = level[u]
      /\ level[t] = 0 => pc'[t] = "out" /\ level'[t] = 0
      /\ level[t] # 0 => pc'[t] = "release" /\ level'[t] = level[t] - 1
      /\ ~AtRoot(t)'
  BY <1>2, ReturnFacts
<1>5. /\ \A u \in Threads : (Current(u)' <=> Current(u)) /\ (Released(u)' <=> Released(u))
      /\ \A u \in Threads \ {t} : At(u)' = At(u)
  BY <1>2, <1>4 DEF Current, Released, At
<1>6. Phases'
  <2>1. ASSUME NEW u \in Threads \ {t}, At(u) # At(t)
        PROVE  Phase(u)'
    <3>1. At(u) \in Barriers
      BY LevelFacts
    <3>2. round'[At(u)] = round[At(u)]
      BY <1>2, <2>1, <3>1 DEF TypeOK
    <3> QED
      BY <1>2, <1>4, <1>5, <3>2 DEF Phases, Phase
  <2>2. ASSUME NEW u \in Threads \ {t}, At(u) = At(t)
        PROVE  Phase(u)'
    <3>1. u \in Group(t, l)
      BY <1>2, <2>2 DEF At, BarrierOf, Group
    <3>2. pc[u] = "spin" /\ entered[u] = entered[t]
      BY <1>2, <3>1 DEF Follow, Followed, Held
    <3>3. Released(u)
      BY <1>2, <3>2 DEF Released
    <3> QED
      BY <1>4, <1>5, <3>2, <3>3 DEF Phase
  <2>3. Phase(t)'
    BY <1>2, <1>4, <1>5 DEF Phase, AtRoot
  <2> QED
    BY <2>1, <2>2, <2>3 DEF Phases
<1>7. Missing' /\ SetAgain' /\ FinalizedInv' /\ Winners'
  BY <1>2, <1>3, ReturnCounts
<1> QED
  BY <1>3, <1>6, <1>7

\* The release of the root ends the phase: every thread was in it, every other
\* barrier has been set again, and the winner is the thread that releases it.
LEMMA ReleaseRootIInv ==
  ASSUME IInv, NEW t \in Threads, Release(t), level[t] = rootLevel
  PROVE  IInv' /\ \A u \in Threads : entered[u] = tripped + 1
<1> USE DEF IInv
<1>1. rootLevel \in 0 .. rootLevel /\ rootLevel \in Nat
  BY RootFacts
<1>2. /\ pc[t] = "release" /\ Return(t) /\ Current(t) /\ result[t] /\ AtRoot(t)
      /\ Leads(t, rootLevel) /\ tripped' = tripped + 1
      /\ UNCHANGED <<cntr, prevRound, result, entered, finalized>>
  BY <1>1 DEF Release, Phases, Phase, AtRoot, Leads
<1>3. TypeOK' /\ Follow' /\ Represented'
  BY ReleaseTree
<1>4. /\ \A u \in Threads \ {t} : pc'[u] = pc[u] /\ level'[u] = level[u]
      /\ level[t] = 0 => pc'[t] = "out" /\ level'[t] = 0
      /\ level[t] # 0 => pc'[t] = "release" /\ level'[t] = level[t] - 1
      /\ ~AtRoot(t)'
  BY <1>2, ReturnFacts
<1>5. \A u \in Threads \ {t} : pc[u] = "spin" /\ entered[u] = entered[t]
  BY <1>2, RootHolds DEF Held
<1>6. \A u \in Threads : entered[u] = tripped + 1
  BY <1>2, <1>5 DEF Current
<1>7. \A u \in Threads : Released(u)' /\ ~Current(u)' /\ Current(u) /\ ~Released(u)
  BY <1>2, <1>6 DEF Released, Current, TypeOK
<1>8. Phases'
  BY <1>4, <1>5, <1>7 DEF Phases, Phase, AtRoot
<1>9. SetAgain'
  BY <1>7 DEF SetAgain
<1>10. ASSUME NEW b \in Barriers
       PROVE  cntr[b] = threadCount(b) /\ threadCount(b) \in Nat
  <2>1. PICK w \in Threads, k \in 0 .. rootLevel : b = BarrierOf(w, k)
    BY BarrierFacts
  <2>2. \E v \in Threads : Leads(v, k) /\ BarrierOf(v, k) = b /\ ~(k = level[v] /\ pc[v] = "reset")
    <3>1. CASE k = rootLevel
      BY <1>2, <2>1, <3>1, OneRoot DEF BarrierOf
    <3>2. CASE k # rootLevel
      <4>1. k + 1 \in 1 .. rootLevel /\ k \in Nat
        BY <1>1, <3>2
      <4>2. w \in Group(t, rootLevel)
        BY OneRoot DEF Group
      <4>3. PICK v \in Threads : level[v] >= k + 1 /\ slot[k + 1][v] = slot[k + 1][w]
        BY <1>1, <1>2, <4>1, <4>2 DEF Represented, Complete
      <4>4. k < level[v] /\ k # level[v]
        BY <4>1, <4>3, LevelFacts
      <4> QED
        BY <2>1, <4>3, <4>4 DEF Leads, BarrierOf
    <3> QED
      BY <3>1, <3>2
  <2>3. cntr[b] = threadCount(b)
    BY <1>7, <2>2 DEF SetAgain
  <2> QED
    BY <2>1, <2>3, Members
<1>11. Missing'
  <2>1. ASSUME NEW b \in Barriers
        PROVE  cntr'[b] + Cardinality(Here(b)') = threadCount(b)
    <3>1. Here(b)' = {}
      BY <1>7 DEF Here
    <3>2. Cardinality(Here(b)') = 0
      BY <3>1, FS_EmptySet
    <3> QED
      BY <1>2, <1>10, <3>2
  <2> QED
    BY <2>1 DEF Missing
<1>12. \A u \in Threads : ~AtRoot(u)'
  BY <1>4, <1>5 DEF AtRoot
<1>13. FinalizedInv'
  BY <1>2, <1>12 DEF FinalizedInv
<1>14. Winners'
  <2>1. \A u \in Threads : ~Winner(u)
    BY <1>7 DEF Winner
  <2>2. \A u \in Threads \ {t} : ~result[u]
    BY <1>5, <1>7 DEF Winners, AtRoot
  <2>3. \A u \in Threads : Winner(u)' <=> u = t /\ level[t] # 0
    BY <1>2, <1>4, <1>7, <2>2 DEF Winner
  <2>4. (Wins[NThreads - 1])' =
           Wins[NThreads - 1] + (IF level[t] = 0 /\ result[t] THEN 1 ELSE 0)
    BY <1>2, <1>3, ReturnWins
  <2>5. Wins[NThreads - 1] \in Nat
    <3>1. NThreads - 1 \in -1 .. NThreads - 1
      BY HierarchicBarrierAssumption
    <3> QED
      BY <3>1, WinsFacts
  <2>6. Wins[NThreads - 1] = tripped
    BY <2>1, <2>5 DEF Winners
  <2>7. (Wins[NThreads - 1])' + (IF \E u \in Threads : Winner(u)' THEN 1 ELSE 0) = tripped'
    BY <1>2, <2>3, <2>4, <2>5, <2>6
  <2>8. \A u \in Threads : result'[u] /\ pc'[u] # "out" => Released(u)' \/ AtRoot(u)'
    BY <1>7
  <2> QED
    BY <2>3, <2>7, <2>8 DEF Winners
<1> QED
  BY <1>3, <1>6, <1>8, <1>9, <1>11, <1>13, <1>14

LEMMA NextIInv == IInv /\ [Next]_vars => IInv'
<1> SUFFICES ASSUME IInv, [Next]_vars
             PROVE  IInv'
  OBVIOUS
<1>1. ASSUME NEW t \in Threads, Wait(t)
      PROVE  IInv'
  BY <1>1, EnterIInv, ArriveIInv, ResetIInv, ClimbIInv, FinalizeIInv,
     ReleaseBelowIInv, ReleaseRootIInv, LeaveIInv DEF Wait
<1>2. CASE UNCHANGED vars
  <2>1. TypeOK' /\ Phases'
    BY <1>2 DEF vars, IInv, TypeOK, Phases, Phase, At, Current, Released, BarrierOf
  <2>2. Follow' /\ Represented'
    BY <1>2 DEF vars, IInv, Follow, Followed, Represented, Complete, Leads, Held, At, BarrierOf, Group
  <2>3. Missing' /\ SetAgain'
    BY <1>2 DEF vars, IInv, Missing, SetAgain, LedNow, Here, Leads, Current, At, BarrierOf
  <2>4. FinalizedInv' /\ Winners'
    BY <1>2 DEF vars, IInv, FinalizedInv, Winners, Winner, Wins, AtRoot, Released
  <2> QED
    BY <2>1, <2>2, <2>3, <2>4 DEF IInv
<1> QED
  BY <1>1, <1>2 DEF Next, Stop

-----------------------------------------------------------------------------
\* The inductive invariant holds in every reachable state.
THEOREM TreeInductive == Spec => []IInv
BY InitIInv, NextIInv, PTL DEF Spec

\* `if (barrier()) ...` elects one leader for each phase (Barrier.hpp:81-92),
\* whatever the shape of the tree.
THEOREM OneLeader == Spec => []OneLeaderPerPhase
<1>1. IInv => OneLeaderPerPhase
  <2> SUFFICES ASSUME IInv, \A t \in Threads : pc[t] = "out"
               PROVE  /\ \A t \in Threads : entered[t] = tripped
                      /\ Wins[NThreads - 1] = tripped
    BY DEF OneLeaderPerPhase, Wins
  <2>1. \A t \in Threads : entered[t] = tripped /\ ~Winner(t)
    BY DEF IInv, Phases, Phase, Released, Winner
  <2>2. Wins[NThreads - 1] \in Nat
    <3>1. NThreads - 1 \in -1 .. NThreads - 1
      BY HierarchicBarrierAssumption
    <3> QED
      BY <3>1, WinsFacts DEF IInv
  <2>3. Wins[NThreads - 1] = tripped
    BY <2>1, <2>2 DEF IInv, Winners
  <2> QED
    BY <2>1, <2>3
<1> QED
  BY <1>1, TreeInductive, PTL

\* Each step of the tree is a step of Rendezvous or leaves it unchanged.
LEMMA StepRefines == IInv /\ [Next]_vars => [R!Next]_(R!vars)
<1> SUFFICES ASSUME IInv, [Next]_vars
             PROVE  [R!Next]_(R!vars)
  OBVIOUS
<1>1. ASSUME NEW t \in Threads, Enter(t)
      PROVE  R!Enter(t)
  BY <1>1 DEF IInv, Phases, Phase, Released, Enter, R!Enter
<1>2. ASSUME NEW t \in Threads, Arrive(t) \/ Reset(t) \/ Climb(t) \/ Leave(t)
      PROVE  UNCHANGED R!vars
  BY <1>2 DEF Arrive, Reset, Climb, Leave, R!vars
<1>3. ASSUME NEW t \in Threads, Finalize(t)
      PROVE  R!Finalize
  <2>1. Leads(t, rootLevel) /\ pc[t] = "finalizer" /\ Current(t)
    BY <1>3 DEF Finalize, Leads, IInv, Phases, Phase
  <2>2. \A u \in Threads \ {t} : pc[u] = "spin" /\ entered[u] = entered[t]
    BY <2>1, RootHolds DEF IInv, Held
  <2>3. \A u \in Threads : entered[u] = tripped + 1
    BY <2>1, <2>2 DEF Current
  <2>4. finalized = tripped
    BY <2>1, <2>2 DEF IInv, FinalizedInv, AtRoot
  <2> QED
    BY <1>3, <2>3, <2>4 DEF Finalize, R!Finalize
<1>4. ASSUME NEW t \in Threads, Release(t), level[t] = rootLevel
      PROVE  R!Trip
  <2>1. finalized = tripped + 1
    BY <1>4 DEF Release, IInv, FinalizedInv, AtRoot
  <2> QED
    BY <1>4, <2>1 DEF Release, R!Trip
<1>5. ASSUME NEW t \in Threads, Release(t), level[t] # rootLevel
      PROVE  UNCHANGED R!vars
  BY <1>5 DEF Release, R!vars
<1>6. CASE UNCHANGED vars
  BY <1>6 DEF vars, R!vars
<1> QED
  BY <1>1, <1>2, <1>3, <1>4, <1>5, <1>6 DEF Next, Wait, Stop, R!Next

\* The tree implements the abstract barrier, as the flat one does.
THEOREM TreeRefinesRendezvous == Spec => ImplementsRendezvous
<1>1. Init => R!Init
  BY DEF Init, R!Init
<1> QED
  BY <1>1, StepRefines, TreeInductive, PTL DEF Spec, ImplementsRendezvous, R!Spec
=============================================================================
