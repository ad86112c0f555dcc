------------------------------ MODULE Barrier ------------------------------
(***************************************************************************)
(* runtime::Barrier (include/common/runtime/Barrier.hpp): a reusable       *)
(* barrier made of an arrival counter and a round number that wraps.  Each *)
(* action is the code between two accesses to the shared atomics `cntr`    *)
(* and `round`.                                                            *)
(***************************************************************************)
EXTENDS Naturals, FiniteSets

CONSTANTS
  Threads,    \* the threads that share the barrier
  RoundMod,   \* number of values of `round`: 256 for the uint8_t of the code
  MaxWaits    \* bound: how often each thread calls wait()

\* A barrier has at least one thread, and a round number that can change.
ASSUME BarrierAssumption ==
  /\ IsFiniteSet(Threads)
  /\ Threads # {}
  /\ RoundMod \in Nat /\ RoundMod >= 2
  /\ MaxWaits \in Nat

threadCount == Cardinality(Threads)

VARIABLES
  cntr,       \* arrivals still missing in this round
  round,      \* round number, modulo RoundMod
  pc,         \* where each thread is in wait()
  prevRound,  \* the local variable prevRound of wait()
  entered,    \* history: calls of wait() begun by each thread
  finalized,  \* history: finalizers run
  tripped     \* history: increments of `round`, not wrapped

shared == <<cntr, round>>
history == <<entered, finalized, tripped>>
vars == <<cntr, round, pc, prevRound, entered, finalized, tripped>>

Init ==
  /\ cntr = threadCount
  /\ round = 0
  /\ pc = [t \in Threads |-> "out"]
  /\ prevRound = [t \in Threads |-> 0]
  /\ entered = [t \in Threads |-> 0]
  /\ finalized = 0
  /\ tripped = 0

-----------------------------------------------------------------------------
(* Faulty variants of the code, each with one bug, that the runs must tell
   from the code. *)

\* Off by one: the last but one thread takes itself for the last.
ArriveEarly(t) ==
  /\ pc[t] = "arrive"
  /\ cntr' = cntr - 1
  /\ pc' = [pc EXCEPT ![t] = IF cntr <= 2 THEN "reset" ELSE "spin"]
  /\ UNCHANGED <<round, prevRound, entered, finalized, tripped>>

\* The spin loop tests the counter instead of the round.
LeaveOnCounter(t) ==
  /\ pc[t] = "spin"
  /\ cntr # 0
  /\ pc' = [pc EXCEPT ![t] = "out"]
  /\ UNCHANGED <<cntr, round, prevRound, entered, finalized, tripped>>

\* The round is released before the finalizer has run.
ReleaseFirst(t) ==
  /\ pc[t] = "reset"
  /\ cntr' = threadCount
  /\ pc' = [pc EXCEPT ![t] = "release"]
  /\ UNCHANGED <<round, prevRound, entered, finalized, tripped>>

\* The round number saturates instead of wrapping.
SaturatingRound(r) == IF r + 1 = RoundMod THEN r ELSE r + 1

-----------------------------------------------------------------------------
\* wait() begins: round.load(), which must happen before the fetch_sub.
Enter(t) ==
  /\ pc[t] = "out"
  /\ entered[t] < MaxWaits
  /\ entered' = [entered EXCEPT ![t] = @ + 1]
  /\ prevRound' = [prevRound EXCEPT ![t] = round]
  /\ pc' = [pc EXCEPT ![t] = "arrive"]
  /\ UNCHANGED <<cntr, round, finalized, tripped>>

\* cntr.fetch_sub(1); the thread that takes the counter to 0 is the last one.
Arrive(t) ==
  /\ pc[t] = "arrive"
  /\ cntr' = cntr - 1
  /\ pc' = [pc EXCEPT ![t] = IF cntr = 1 THEN "reset" ELSE "spin"]
  /\ UNCHANGED <<round, prevRound, entered, finalized, tripped>>

\* The last thread makes the counter ready for the next round ...
Reset(t) ==
  /\ pc[t] = "reset"
  /\ cntr' = threadCount
  /\ pc' = [pc EXCEPT ![t] = "finalize"]
  /\ UNCHANGED <<round, prevRound, entered, finalized, tripped>>

\* ... runs the finalizer ...
Finalize(t) ==
  /\ pc[t] = "finalize"
  /\ finalized' = finalized + 1
  /\ pc' = [pc EXCEPT ![t] = "release"]
  /\ UNCHANGED <<cntr, round, prevRound, entered, tripped>>

\* round++ on a uint8_t.
NextRound(r) == IF r + 1 = RoundMod THEN 0 ELSE r + 1

\* ... and releases the others, and returns what the finalizer returned.
Release(t) ==
  /\ pc[t] = "release"
  /\ round' = NextRound(round)
  /\ tripped' = tripped + 1
  /\ pc' = [pc EXCEPT ![t] = "out"]
  /\ UNCHANGED <<cntr, prevRound, entered, finalized>>

\* The spin loop ends once the thread sees another round; it returns false.
Leave(t) ==
  /\ pc[t] = "spin"
  /\ round # prevRound[t]
  /\ pc' = [pc EXCEPT ![t] = "out"]
  /\ UNCHANGED <<cntr, round, prevRound, entered, finalized, tripped>>

Wait(t) ==
  Enter(t) \/ Arrive(t) \/ Reset(t) \/ Finalize(t) \/ Release(t) \/ Leave(t)

Finished == \A t \in Threads : pc[t] = "out" /\ entered[t] = MaxWaits

\* Every thread has made its calls: the system may stop.
Stop == Finished /\ UNCHANGED vars

Next == (\E t \in Threads : Wait(t)) \/ Stop

\* Each thread keeps running: it is a thread of its own, pinned to a core.
Fairness == \A t \in Threads : WF_vars(Wait(t))

Spec == Init /\ [][Next]_vars

FairSpec == Spec /\ Fairness
-----------------------------------------------------------------------------
TypeOK ==
  /\ cntr \in 0 .. threadCount
  /\ round \in 0 .. RoundMod - 1
  /\ pc \in [Threads -> {"out", "arrive", "reset", "finalize", "release", "spin"}]
  /\ prevRound \in [Threads -> 0 .. RoundMod - 1]
  /\ entered \in [Threads -> Nat]
  /\ finalized \in Nat
  /\ tripped \in Nat

\* The thread was the last to arrive and has not released the others yet.
Leads(t) == pc[t] \in {"reset", "finalize", "release"}

\* The thread waits for the end of the current round.
Waits(t) == pc[t] = "spin" /\ prevRound[t] = round

\* While the last thread resets the counter and runs the finalizer, every
\* other thread waits in the same round: the finalizer (Barrier.hpp:27) may
\* touch what the threads share, as setSize in Hashjoin::next does.
FinalizerAlone ==
  \A t \in Threads : Leads(t) => \A u \in Threads \ {t} : Waits(u)

\* A thread is outside only if every thread has entered each phase that it
\* has left: nobody passes the barrier ahead of a thread still to arrive,
\* even when fast threads are back while slow ones still spin.
NoOvertaking ==
  \A t, u \in Threads : pc[t] = "out" => entered[t] <= entered[u]

\* The barrier implements what Rendezvous promises.  A thread that still
\* spins in a round that is over already counts as released.
R == INSTANCE Rendezvous
ImplementsRendezvous == R!Spec

\* Every call of wait() returns, although the round number wraps and the
\* counter is reused at once by threads that are already in the next phase.
AllReturn == <>Finished

=============================================================================
