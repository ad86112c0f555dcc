-------------------------- MODULE HierarchicBarrier --------------------------
(***************************************************************************)
(* runtime::HierarchicBarrier (include/common/runtime/Barrier.hpp): a tree *)
(* of barriers of at most `Fan` participants each.  The last thread at a   *)
(* barrier takes part in the parent barrier for all of its group, by       *)
(* calling the parent's wait() as the finalizer; at the root the caller's  *)
(* finalizer runs.  WorkerGroup::run gives each thread its leaf.           *)
(***************************************************************************)
EXTENDS Integers, FiniteSets

CONSTANTS
  NThreads,   \* size of the worker group
  Fan,        \* HierarchicBarrier::threadsPerBarrier: 8 in the code
  RoundMod,   \* number of values of a round: 256 for the uint8_t of the code
  MaxWaits    \* bound: how often each thread calls wait()

ASSUME HierarchicBarrierAssumption ==
  /\ NThreads \in Nat /\ NThreads >= 1
  /\ Fan \in Nat /\ Fan >= 2
  /\ RoundMod \in Nat /\ RoundMod >= 2
  /\ MaxWaits \in Nat

Threads == 0 .. NThreads - 1

-----------------------------------------------------------------------------
(* The tree that create() builds, level 0 being the leaves. *)

CeilDiv(a, b) == (a + b - 1) \div b

\* How many participants the barriers of a level have between them: the
\* threads, and above them one for each barrier of the level below.
participants[l \in Nat] ==
  IF l = 0 THEN NThreads ELSE CeilDiv(participants[l - 1], Fan)

\* create() stops at the first level that a single barrier can hold.
rootLevel ==
  CHOOSE l \in 0 .. NThreads :
    /\ participants[l] <= Fan
    /\ \A k \in 0 .. l - 1 : participants[k] > Fan

Barriers ==
  UNION {{<<l, i>> : i \in 0 .. CeilDiv(participants[l], Fan) - 1} :
           l \in 0 .. rootLevel}

\* Faulty variant: the last barrier of a level is taken to be full as well.
countAlwaysFull(b) == Fan

\* All barriers are full but, possibly, the last one of a level.
threadCount(b) ==
  LET rest == participants[b[1]] - b[2] * Fan IN IF rest < Fan THEN rest ELSE Fan

\* Which participant of a level stands for a thread: run() takes the next leaf
\* every `Fan` threads, and create() the next parent every `Fan` barriers.
slot[l \in Nat] == [t \in Threads |-> IF l = 0 THEN t ELSE slot[l - 1][t] \div Fan]

\* The barrier that it takes part in.
BarrierOf(t, l) == <<l, slot[l + 1][t]>>

-----------------------------------------------------------------------------
VARIABLES
  cntr,       \* arrivals missing at each barrier
  round,      \* round number of each barrier
  pc,         \* where each thread is in wait()
  level,      \* the level of the barrier it is at
  prevRound,  \* its local prevRound at that barrier
  result,     \* what the wait() it is in will return
  entered,    \* history: calls of wait() begun by each thread
  won,        \* history: how often wait() returned true to each thread
  finalized,  \* history: runs of the caller's finalizer
  tripped     \* history: releases of the root

vars == <<cntr, round, pc, level, prevRound, result, entered, won, finalized, tripped>>

Init ==
  /\ cntr = [b \in Barriers |-> threadCount(b)]
  /\ round = [b \in Barriers |-> 0]
  /\ pc = [t \in Threads |-> "out"]
  /\ level = [t \in Threads |-> 0]
  /\ prevRound = [t \in Threads |-> 0]
  /\ result = [t \in Threads |-> FALSE]
  /\ entered = [t \in Threads |-> 0]
  /\ won = [t \in Threads |-> 0]
  /\ finalized = 0
  /\ tripped = 0

At(t) == BarrierOf(t, level[t])

Goto(t, label) == pc' = [pc EXCEPT ![t] = label]

\* Faulty variant: what the parent's wait() returns is ignored.
ClimbAsLeader(t) ==
  /\ pc[t] = "finalizer"
  /\ level[t] < rootLevel
  /\ level' = [level EXCEPT ![t] = @ + 1]
  /\ prevRound' = [prevRound EXCEPT ![t] = round[BarrierOf(t, level[t] + 1)]]
  /\ result' = [result EXCEPT ![t] = TRUE]
  /\ Goto(t, "arrive")
  /\ UNCHANGED <<cntr, round, entered, won, finalized, tripped>>

\* Faulty variant: the group is released before its leader joins the parent.
ReleaseThenClimb(t) ==
  /\ pc[t] = "finalizer"
  /\ level[t] < rootLevel
  /\ round' = [round EXCEPT ![At(t)] = (@ + 1) % RoundMod]
  /\ level' = [level EXCEPT ![t] = @ + 1]
  /\ prevRound' = [prevRound EXCEPT ![t] = round[BarrierOf(t, level[t] + 1)]]
  /\ Goto(t, "arrive")
  /\ UNCHANGED <<cntr, result, entered, won, finalized, tripped>>

\* A thread calls wait() on its leaf and loads the round of the leaf.
Enter(t) ==
  /\ pc[t] = "out"
  /\ entered[t] < MaxWaits
  /\ entered' = [entered EXCEPT ![t] = @ + 1]
  /\ prevRound' = [prevRound EXCEPT ![t] = round[At(t)]]
  /\ result' = [result EXCEPT ![t] = FALSE]
  /\ Goto(t, "arrive")
  /\ UNCHANGED <<cntr, round, level, won, finalized, tripped>>

\* cntr.fetch_sub(1) at the barrier the thread is at.
Arrive(t) ==
  /\ pc[t] = "arrive"
  /\ cntr' = [cntr EXCEPT ![At(t)] = @ - 1]
  /\ Goto(t, IF cntr[At(t)] = 1 THEN "reset" ELSE "spin")
  /\ UNCHANGED <<round, level, prevRound, result, entered, won, finalized, tripped>>

\* The last thread of a group resets the counter, then calls the finalizer.
Reset(t) ==
  /\ pc[t] = "reset"
  /\ cntr' = [cntr EXCEPT ![At(t)] = threadCount(At(t))]
  /\ Goto(t, "finalizer")
  /\ UNCHANGED <<round, level, prevRound, result, entered, won, finalized, tripped>>

\* Below the root the finalizer is the parent's wait(): load its round.
Climb(t) ==
  /\ pc[t] = "finalizer"
  /\ level[t] < rootLevel
  /\ level' = [level EXCEPT ![t] = @ + 1]
  /\ prevRound' = [prevRound EXCEPT ![t] = round[BarrierOf(t, level[t] + 1)]]
  /\ Goto(t, "arrive")
  /\ UNCHANGED <<cntr, round, result, entered, won, finalized, tripped>>

\* At the root it is the finalizer of the caller; wait() will return true.
Finalize(t) ==
  /\ pc[t] = "finalizer"
  /\ level[t] = rootLevel
  /\ finalized' = finalized + 1
  /\ result' = [result EXCEPT ![t] = TRUE]
  /\ Goto(t, "release")
  /\ UNCHANGED <<cntr, round, level, prevRound, entered, won, tripped>>

\* A wait() returns: from a leaf to the caller, from above into the wait() of
\* the level below, whose finalizer is then done.
Return(t) ==
  IF level[t] = 0
  THEN /\ Goto(t, "out")
       /\ won' = [won EXCEPT ![t] = @ + (IF result[t] THEN 1 ELSE 0)]
       /\ UNCHANGED level
  ELSE /\ Goto(t, "release")
       /\ level' = [level EXCEPT ![t] = @ - 1]
       /\ UNCHANGED won

\* round++ releases the group of the barrier.
Release(t) ==
  /\ pc[t] = "release"
  /\ round' = [round EXCEPT ![At(t)] = (@ + 1) % RoundMod]
  /\ tripped' = IF level[t] = rootLevel THEN tripped + 1 ELSE tripped
  /\ Return(t)
  /\ UNCHANGED <<cntr, prevRound, result, entered, finalized>>

\* The spin loop of a barrier ends.
Leave(t) ==
  /\ pc[t] = "spin"
  /\ round[At(t)] # prevRound[t]
  /\ Return(t)
  /\ UNCHANGED <<cntr, round, prevRound, result, entered, finalized, tripped>>

Wait(t) ==
  \/ Enter(t) \/ Arrive(t) \/ Reset(t) \/ Climb(t) \/ Finalize(t)
  \/ Release(t) \/ Leave(t)

Finished == \A t \in Threads : pc[t] = "out" /\ entered[t] = MaxWaits

\* Every thread has made its calls: the system may stop.
Stop == Finished /\ UNCHANGED vars

Next == (\E t \in Threads : Wait(t)) \/ Stop

\* Each thread keeps running: it is pinned to a core of its own.
Fairness == \A t \in Threads : WF_vars(Wait(t))

Spec == Init /\ [][Next]_vars /\ Fairness

-----------------------------------------------------------------------------


\* Whenever all threads are outside, wait() has returned true to exactly one
\* of them for each phase: `if (barrier()) ...` elects exactly one leader.
OneLeaderPerPhase ==
  (\A t \in Threads : pc[t] = "out") =>
    /\ \A t \in Threads : entered[t] = tripped
    /\ LET wins[t \in -1 .. NThreads - 1] ==
             IF t = -1 THEN 0 ELSE wins[t - 1] + won[t]
       IN  wins[NThreads - 1] = tripped

\* The tree implements the same barrier as a flat one.
R == INSTANCE Rendezvous
ImplementsRendezvous == R!Spec

\* Every call of wait() returns, up and down the tree.
AllReturn == <>Finished
=============================================================================
