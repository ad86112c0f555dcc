----------------------------- MODULE Rendezvous -----------------------------
(***************************************************************************)
(* What a barrier promises to the threads that share it, whatever it is    *)
(* built from.  Every thread calls wait() `MaxWaits` times.  A phase is    *)
(* over when each thread has entered its call of the phase; then the       *)
(* finalizer of the phase runs, once, and only after it the threads are    *)
(* released and may enter the next phase.                                  *)
(***************************************************************************)
EXTENDS Naturals

CONSTANTS
  Threads,    \* the threads that call wait()
  MaxWaits    \* bound: how often each of them calls it

VARIABLES
  entered,    \* number of calls of wait() each thread has begun
  finalized,  \* number of times a finalizer has run
  tripped     \* number of phases that have been released

vars == <<entered, finalized, tripped>>

Init ==
  /\ entered = [t \in Threads |-> 0]
  /\ finalized = 0
  /\ tripped = 0

\* A thread calls wait(): it has been released from every phase it entered.
Enter(t) ==
  /\ entered[t] = tripped
  /\ entered[t] < MaxWaits
  /\ entered' = [entered EXCEPT ![t] = @ + 1]
  /\ UNCHANGED <<finalized, tripped>>

\* The finalizer of the phase runs, with every thread inside the barrier.
Finalize ==
  /\ \A t \in Threads : entered[t] = tripped + 1
  /\ finalized = tripped
  /\ finalized' = finalized + 1
  /\ UNCHANGED <<entered, tripped>>

\* The phase is released: from here on its threads may return from wait().
Trip ==
  /\ finalized = tripped + 1
  /\ tripped' = tripped + 1
  /\ UNCHANGED <<entered, finalized>>

Next ==
  \/ \E t \in Threads : Enter(t)
  \/ Finalize
  \/ Trip

Spec == Init /\ [][Next]_vars

=============================================================================
