\* Four threads, three phases, and a round number of two values, so that it
\* wraps while slow threads still spin in the phase before.
CONSTANTS
  Threads = {t1, t2, t3, t4}
  RoundMod = 2
  MaxWaits = 3
SPECIFICATION FairSpec
INVARIANT FinalizerAlone
INVARIANT NoOvertaking
PROPERTY ImplementsRendezvous
PROPERTY AllReturn
