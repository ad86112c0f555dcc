---------------------------- MODULE RuntimeProofs ----------------------------
(***************************************************************************)
(* Two parts of common/runtime that share nothing: Barrier and Import.     *)
(*                                                                         *)
(* Barrier is correct for any finite set of threads, any number of phases  *)
(* and any wrap of the round number that can change at all.  NoOvertaking  *)
(* and FinalizerAlone are not inductive: they hold because the counter     *)
(* counts, which is what the inductive invariant IInv says.                *)
(*                                                                         *)
(* Import recovers for any tables, any number of runs and wherever each of *)
(* them is killed.  What a run finds on the disk was left by others: the   *)
(* inductive invariant CacheInv says that the columns are made in their    *)
(* order, each when those before it are exact, so that a file of zeros is  *)
(* read only when the last column was torn.                                *)
(***************************************************************************)
EXTENDS Barrier, Import, FiniteSetTheorems, SequenceTheorems, TLAPS

Waiting == {t \in Threads : Waits(t)}

\* Where a thread is tells how many phases it has entered.
PhaseInv ==
  \A t \in Threads :
    /\ pc[t] = "out" => entered[t] = tripped
    /\ pc[t] = "arrive" \/ Leads(t) =>
         entered[t] = tripped + 1 /\ prevRound[t] = round
    /\ pc[t] = "spin" =>
         entered[t] = IF prevRound[t] = round THEN tripped + 1 ELSE tripped

\* The counter is what is missing to `threadCount` waiting threads.
CountInv ==
  /\ (\A t \in Threads : ~Leads(t)) => cntr = threadCount - Cardinality(Waiting)
  /\ \A t \in Threads : pc[t] = "reset" => cntr = 0
  /\ \A t \in Threads : pc[t] \in {"finalize", "release"} => cntr = threadCount

\* The finalizer of a phase has run exactly when its leader is to release it.
FinalizedInv ==
  /\ (\E t \in Threads : pc[t] = "release") => finalized = tripped + 1
  /\ (\A t \in Threads : pc[t] # "release") => finalized = tripped

IInv == TypeOK /\ PhaseInv /\ FinalizerAlone /\ CountInv /\ FinalizedInv
-----------------------------------------------------------------------------
\* The counter is a natural number of at least one thread.
LEMMA ThreadCount == threadCount \in Nat /\ threadCount >= 1
<1>1. threadCount \in Nat /\ (threadCount = 0 <=> Threads = {})
  BY BarrierAssumption, FS_CardinalityType, FS_EmptySet DEF threadCount
<1> QED
  BY <1>1, BarrierAssumption

\* The round after a round is another one, and is a round.
LEMMA NextRoundDiffers ==
  ASSUME NEW r \in 0 .. RoundMod - 1
  PROVE  NextRound(r) \in 0 .. RoundMod - 1 /\ NextRound(r) # r
BY BarrierAssumption DEF NextRound

\* A set of threads that misses a thread is smaller than `threadCount`, and
\* by one exactly when it misses that thread only.
LEMMA MissingThread ==
  ASSUME NEW W \in SUBSET Threads, NEW t \in Threads, t \notin W
  PROVE  /\ Cardinality(W) \in Nat
         /\ Cardinality(W) < threadCount
         /\ Cardinality(W) = threadCount - 1 => W = Threads \ {t}
         /\ Cardinality(W \cup {t}) = Cardinality(W) + 1
<1>1. IsFiniteSet(W) /\ IsFiniteSet(Threads \ {t})
  BY BarrierAssumption, FS_Subset
<1>2. Cardinality(Threads \ {t}) = threadCount - 1
  BY BarrierAssumption, FS_RemoveElement DEF threadCount
<1>3. W \subseteq Threads \ {t}
  OBVIOUS
<1>4. /\ Cardinality(W) <= Cardinality(Threads \ {t})
      /\ Cardinality(W) = Cardinality(Threads \ {t}) => W = Threads \ {t}
  BY <1>1, <1>3, FS_Subset
<1>5. Cardinality(W) \in Nat
  BY <1>1, FS_CardinalityType
<1>6. Cardinality(W \cup {t}) = Cardinality(W) + 1
  BY <1>1, FS_AddElement
<1> QED
  BY <1>2, <1>4, <1>5, <1>6, ThreadCount

-----------------------------------------------------------------------------
LEMMA InitIInv == Init => IInv
<1> SUFFICES ASSUME Init PROVE IInv
  OBVIOUS
<1> USE DEF Init
<1>1. Waiting = {}
  BY DEF Waiting, Waits
<1>2. Cardinality(Waiting) = 0
  BY <1>1, FS_EmptySet
<1>3. TypeOK
  BY ThreadCount, BarrierAssumption DEF TypeOK
<1>4. PhaseInv /\ FinalizerAlone /\ FinalizedInv
  BY DEF PhaseInv, FinalizerAlone, FinalizedInv, Leads
<1>5. CountInv
  BY <1>2, ThreadCount DEF CountInv, Leads
<1> QED
  BY <1>3, <1>4, <1>5 DEF IInv

\* A thread that begins wait() takes part in no waiting yet.
LEMMA EnterIInv ==
  ASSUME IInv, NEW t \in Threads, Enter(t)
  PROVE  IInv'
<1> USE DEF Enter, IInv
<1>1. TypeOK'
  BY DEF TypeOK
<1>2. PhaseInv'
  BY DEF PhaseInv, TypeOK, Leads
<1>3. Waiting' = Waiting
  BY DEF Waiting, Waits, TypeOK
<1>4. \A u \in Threads : Leads(u)' = Leads(u)
  BY DEF Leads, TypeOK
<1>5. \A u \in Threads : ~Leads(u)
  BY DEF FinalizerAlone, Waits, Leads
<1>6. FinalizerAlone'
  BY <1>4, <1>5 DEF FinalizerAlone
<1>7. CountInv'
  BY <1>3, <1>4, <1>5 DEF CountInv, Leads, TypeOK
<1>8. FinalizedInv'
  BY DEF FinalizedInv, TypeOK
<1> QED
  BY <1>1, <1>2, <1>6, <1>7, <1>8

\* The arriving thread either joins the waiting ones or is the last of all.
LEMMA ArriveIInv ==
  ASSUME IInv, NEW t \in Threads, Arrive(t)
  PROVE  IInv'
<1> USE DEF Arrive, IInv
<1>1. \A u \in Threads : ~Leads(u)
  BY DEF FinalizerAlone, Waits, Leads
<1>2. /\ t \notin Waiting /\ Waiting \in SUBSET Threads
      /\ cntr = threadCount - Cardinality(Waiting)
  BY <1>1 DEF CountInv, Waiting, Waits
<1>3. /\ Cardinality(Waiting) \in Nat
      /\ Cardinality(Waiting) < threadCount
      /\ Cardinality(Waiting) = threadCount - 1 => Waiting = Threads \ {t}
      /\ Cardinality(Waiting \cup {t}) = Cardinality(Waiting) + 1
  BY <1>2, MissingThread
<1>4. TypeOK'
  BY <1>2, <1>3, ThreadCount DEF TypeOK
<1>5. PhaseInv'
  BY DEF PhaseInv, TypeOK, Leads
<1>6. FinalizedInv'
  BY DEF FinalizedInv, TypeOK
<1>7. CASE cntr = 1
  <2>1. Waiting = Threads \ {t}
    BY <1>2, <1>3, <1>7, ThreadCount
  <2>2. pc' = [pc EXCEPT ![t] = "reset"]
    BY <1>7
  <2>3. \A u \in Threads \ {t} : Waits(u)' /\ ~Leads(u)'
    BY <2>1, <2>2 DEF Waiting, Waits, Leads, TypeOK
  <2>4. FinalizerAlone'
    BY <2>3 DEF FinalizerAlone
  <2>5. CountInv'
    BY <2>2, <2>3, <1>7 DEF CountInv, Leads, TypeOK
  <2> QED
    BY <2>4, <2>5, <1>4, <1>5, <1>6
<1>8. CASE cntr # 1
  <2>1. pc' = [pc EXCEPT ![t] = "spin"]
    BY <1>8
  <2>2. Waiting' = Waiting \cup {t}
    BY <2>1 DEF Waiting, Waits, PhaseInv, TypeOK
  <2>3. \A u \in Threads : ~Leads(u)'
    BY <1>1, <2>1 DEF Leads, TypeOK
  <2>4. FinalizerAlone'
    BY <2>3 DEF FinalizerAlone
  <2>5. cntr' = threadCount - Cardinality(Waiting)'
    BY <1>2, <1>3, <2>2, ThreadCount
  <2>6. CountInv'
    BY <2>3, <2>5 DEF CountInv, Leads
  <2> QED
    BY <2>4, <2>6, <1>4, <1>5, <1>6
<1> QED
  BY <1>7, <1>8

\* Reset and Finalize move the leader on; all others keep waiting.
LEMMA LeaderIInv ==
  ASSUME IInv, NEW t \in Threads, Reset(t) \/ Finalize(t)
  PROVE  IInv'
<1> USE DEF Reset, Finalize, IInv
<1>1. Leads(t) /\ Leads(t)'
  BY DEF Leads, TypeOK
<1>2. \A u \in Threads \ {t} : Waits(u) /\ Waits(u)' /\ ~Leads(u)' /\ ~Leads(u)
  BY <1>1 DEF FinalizerAlone, Waits, Leads, TypeOK
<1>3. TypeOK'
  BY ThreadCount DEF TypeOK
<1>4. PhaseInv'
  BY DEF PhaseInv, TypeOK, Leads
<1>5. FinalizerAlone'
  BY <1>2 DEF FinalizerAlone
<1>6. CountInv'
  BY <1>1, <1>2 DEF CountInv, Leads, TypeOK
<1>7. FinalizedInv'
  BY <1>2 DEF FinalizedInv, Waits, TypeOK
<1> QED
  BY <1>3, <1>4, <1>5, <1>6, <1>7

\* The release empties the set of waiting threads and starts the next phase.
LEMMA ReleaseIInv ==
  ASSUME IInv, NEW t \in Threads, Release(t)
  PROVE  IInv'
<1> USE DEF Release, IInv
<1>1. round' \in 0 .. RoundMod - 1 /\ round' # round
  BY NextRoundDiffers DEF TypeOK
<1>2. \A u \in Threads \ {t} : Waits(u) /\ pc'[u] = "spin"
  BY DEF FinalizerAlone, Waits, Leads, TypeOK
<1>3. pc'[t] = "out"
  BY DEF TypeOK
<1>4. \A u \in Threads : ~Waits(u)' /\ ~Leads(u)'
  BY <1>1, <1>2, <1>3 DEF Waits, Leads
<1>5. Cardinality(Waiting)' = 0
  <2>1. Waiting' = {}
    BY <1>4 DEF Waiting
  <2> QED
    BY <2>1, FS_EmptySet
<1>6. TypeOK'
  BY <1>1 DEF TypeOK
<1>7. PhaseInv'
  BY <1>1, <1>2, <1>3, <1>4 DEF PhaseInv, Waits, TypeOK, Leads
<1>8. FinalizerAlone'
  BY <1>4 DEF FinalizerAlone
<1>9. CountInv'
  <2>1. cntr' = threadCount
    BY DEF CountInv
  <2> QED
    BY <2>1, <1>4, <1>5, ThreadCount DEF CountInv, Leads
<1>10. FinalizedInv'
  BY <1>4 DEF FinalizedInv, Leads, TypeOK
<1> QED
  BY <1>6, <1>7, <1>8, <1>9, <1>10

\* A thread that leaves the spin loop was not waiting any more.
LEMMA LeaveIInv ==
  ASSUME IInv, NEW t \in Threads, Leave(t)
  PROVE  IInv'
<1> USE DEF Leave, IInv
<1>1. \A u \in Threads : ~Leads(u)
  BY DEF FinalizerAlone, Waits, Leads
<1>2. \A u \in Threads : ~Leads(u)'
  BY <1>1 DEF Leads, TypeOK
<1>3. Waiting' = Waiting
  BY DEF Waiting, Waits, TypeOK
<1>4. TypeOK'
  BY DEF TypeOK
<1>5. PhaseInv'
  BY DEF PhaseInv, TypeOK, Leads
<1>6. FinalizerAlone' /\ CountInv'
  BY <1>1, <1>2, <1>3 DEF FinalizerAlone, CountInv, Leads
<1>7. FinalizedInv'
  BY DEF FinalizedInv, TypeOK
<1> QED
  BY <1>4, <1>5, <1>6, <1>7

LEMMA NextIInv == IInv /\ [Next]_vars => IInv'
<1> SUFFICES ASSUME IInv, [Next]_vars PROVE IInv'
  OBVIOUS
<1>1. ASSUME NEW t \in Threads, Wait(t) PROVE IInv'
  BY <1>1, EnterIInv, ArriveIInv, LeaderIInv, ReleaseIInv, LeaveIInv DEF Wait
<1>2. CASE UNCHANGED vars
  BY <1>2 DEF vars, IInv, TypeOK, PhaseInv, FinalizerAlone, CountInv,
              FinalizedInv, Waiting, Waits, Leads
<1> QED
  BY <1>1, <1>2 DEF Next, Stop

\* The inductive invariant holds in every reachable state.
THEOREM Inductive == Spec => []IInv
BY InitIInv, NextIInv, PTL DEF Spec

\* Every variable keeps its type; in particular the counter never wraps
\* below zero (Barrier.hpp:23).
THEOREM TypeCorrect == Spec => []TypeOK
<1>1. IInv => TypeOK
  BY DEF IInv
<1> QED
  BY <1>1, Inductive, PTL

\* The finalizer runs while all other threads wait (Barrier.hpp:27).
THEOREM FinalizerRunsAlone == Spec => []FinalizerAlone
<1>1. IInv => FinalizerAlone
  BY DEF IInv
<1> QED
  BY <1>1, Inductive, PTL

\* Nobody passes the barrier ahead of a thread still to arrive.
THEOREM NobodyOvertakes == Spec => []NoOvertaking
<1>1. IInv => NoOvertaking
  BY DEF IInv, NoOvertaking, PhaseInv, TypeOK, Leads
<1> QED
  BY <1>1, Inductive, PTL

-----------------------------------------------------------------------------
\* Each step of the barrier is a step of Rendezvous or leaves it unchanged.
LEMMA StepRefines == IInv /\ [Next]_vars => [R!Next]_(R!vars)
<1> SUFFICES ASSUME IInv, [Next]_vars PROVE [R!Next]_(R!vars)
  OBVIOUS
<1> USE DEF R!Next, R!vars
<1>1. ASSUME NEW t \in Threads, Enter(t) PROVE R!Enter(t)
  BY <1>1 DEF IInv, PhaseInv, Enter, R!Enter
<1>2. ASSUME NEW t \in Threads, Arrive(t) \/ Reset(t) \/ Leave(t)
      PROVE  UNCHANGED R!vars
  BY <1>2 DEF Arrive, Reset, Leave
<1>3. ASSUME NEW t \in Threads, Finalize(t) PROVE R!Finalize
  <2>1. \A u \in Threads \ {t} : Waits(u) /\ pc[u] # "release"
    BY <1>3 DEF IInv, FinalizerAlone, Finalize, Leads, Waits
  <2>2. \A u \in Threads : entered[u] = tripped + 1
    BY <1>3, <2>1 DEF IInv, PhaseInv, Finalize, Leads, Waits
  <2>3. finalized = tripped
    BY <1>3, <2>1 DEF IInv, FinalizedInv, Finalize
  <2> QED
    BY <1>3, <2>2, <2>3 DEF Finalize, R!Finalize
<1>4. ASSUME NEW t \in Threads, Release(t) PROVE R!Trip
  BY <1>4 DEF IInv, FinalizedInv, Release, R!Trip
<1>5. CASE UNCHANGED vars
  BY <1>5 DEF vars
<1> QED
  BY <1>1, <1>2, <1>3, <1>4, <1>5 DEF Next, Wait, Stop

\* The barrier of the code implements the abstract one.
THEOREM RefinesRendezvous == Spec => ImplementsRendezvous
<1>1. Init => R!Init
  BY DEF Init, R!Init
<1> QED
  BY <1>1, StepRefines, Inductive, PTL DEF Spec, ImplementsRendezvous, R!Spec
-----------------------------------------------------------------------------
(* The cache of column files: parseColumns. *)

\* The values of the text, column by column; all of them can be read.
Exact == [c \in Columns |-> [r \in Rows |-> CastString(types[c], lines[c][r]).value]]
Castable == \A c \in Columns, r \in Rows : ~CastString(types[c], lines[c][r]).thrown
Contained(c) == Contents(types[c], lines[c])
Files == UNION {Contained(c) : c \in Columns}

InputOK == \E t \in Tables : types = t.types /\ values = t.values /\ lines = t.lines

MemoryOK ==
  /\ stage \in {"mkdir", "check", "parse", "open", "allocate", "copy", "read", "loaded",
                "thrown", "ended"}
  /\ col \in Columns /\ row \in Nat \ {0}
  /\ column \in [Columns -> Files]
  /\ size \in Nat /\ diffs \in Nat

FlagsOK == writable \in BOOLEAN /\ dir \in BOOLEAN /\ torn \in BOOLEAN /\ fresh \in BOOLEAN

\* A file has a prefix of what it will have, or is what an allocation makes of it.
DiskOK ==
  /\ disk \in [Columns -> Files \cup {Absent}]
  /\ \A c \in Columns : disk[c] # Absent => disk[c] \in Contained(c) /\ Castable

\* What the run that writes has parsed, which columns it has done, and which rows of this one.
Writing == stage \in {"open", "allocate", "copy"}
WritingOK ==
  /\ Writing => Castable /\ parsed = Exact /\ \A c \in Columns : c < col => disk[c] = Exact[c]
  /\ stage \in {"allocate", "copy"} => disk[col] # Absent
  /\ stage = "copy" => /\ disk[col] # <<>>
                       /\ \A r \in Rows : r < row => disk[col][r] = Exact[col][r]

\* The files were made in the order of the columns, each when those before it were done.
InOrder ==
  \A c, d \in Columns : c < d /\ disk[d] # Absent => disk[c] = Exact[c]

\* The last one is being written, or done, or a run was killed over it.
LastDone ==
  ~torn /\ disk[LastColumn] # Absent =>
    disk[LastColumn] = Exact[LastColumn] \/ (stage \in {"allocate", "copy"} /\ col = LastColumn)

ReadOK ==
  stage = "read" =>
    /\ \A c \in Columns : disk[c] # Absent
    /\ ~torn => /\ \A c \in Columns : c < col => column[c] = Exact[c]
                /\ size = IF col = 1 THEN 0 ELSE Len(lines[1])
                /\ diffs = IF col = 1 THEN 0 ELSE 1

\* A run begins with an empty memory, and parses when a file is missing.
BegunOK ==
  /\ stage = "mkdir" => fresh = ~dir
  /\ stage \in {"mkdir", "check", "parse"} => col = 1
  /\ stage = "parse" => \E c \in Columns : disk[c] = Absent
  /\ stage \in {"mkdir", "check", "parse"} \/ Writing => size = 0 /\ diffs = 0

\* What a run leaves: a relation, or a reason why not.
LoadedParsed ==
  stage = "loaded" /\ ~torn => column = Exact /\ nrTuples = Len(lines[1])
ThrownOK ==
  stage = "thrown" /\ Castable =>
    \/ fresh \/ torn
    \/ (~writable \/ ~tblFile) /\ \E c \in Columns : disk[c] = Absent

CacheInv ==
  /\ InputOK /\ MemoryOK /\ FlagsOK /\ DiskOK /\ WritingOK /\ InOrder /\ LastDone /\ ReadOK
  /\ BegunOK /\ LoadedParsed /\ ThrownOK
-----------------------------------------------------------------------------
\* The shape of a table.
LEMMA InputFacts ==
  ASSUME InputOK
  PROVE  /\ LastColumn \in Nat \ {0} /\ Columns = 1 .. LastColumn
         /\ Len(lines[1]) \in Nat \ {0} /\ Rows = 1 .. Len(lines[1])
         /\ \A c \in Columns : /\ DOMAIN lines[c] = Rows /\ Absent \notin Contained(c)
                               /\ DOMAIN values[c] = Rows /\ Len(values[c]) = Len(lines[1])
<1>1. PICK t \in Tables : types = t.types /\ values = t.values /\ lines = t.lines
  BY DEF InputOK
<1>2. /\ Len(t.types) \in Nat \ {0} /\ DOMAIN t.types = 1 .. Len(t.types)
      /\ Len(t.lines[1]) \in Nat \ {0}
      /\ \A c \in DOMAIN t.types :
           /\ DOMAIN t.lines[c] = 1 .. Len(t.lines[1])
           /\ DOMAIN t.values[c] = 1 .. Len(t.lines[1]) /\ Len(t.values[c]) = Len(t.lines[1])
           /\ Absent \notin Contents(t.types[c], t.lines[c])
  BY ImportAssumption
<1>3. /\ LastColumn \in Nat \ {0} /\ Columns = 1 .. LastColumn /\ Len(lines[1]) \in Nat \ {0}
      /\ \A c \in Columns :
           /\ DOMAIN lines[c] = 1 .. Len(lines[1]) /\ Absent \notin Contained(c)
           /\ DOMAIN values[c] = 1 .. Len(lines[1]) /\ Len(values[c]) = Len(lines[1])
  BY <1>1, <1>2 DEF LastColumn, Columns, Contained
<1>4. 1 \in Columns
  BY <1>3
<1>5. Rows = 1 .. Len(lines[1])
  BY <1>3, <1>4 DEF Rows
<1> QED
  BY <1>3, <1>5

\* What can be in a row of a column file.
Cells(c) == {ZeroOf(types[c])} \cup Casts(types[c], lines[c])

\* A file is empty, or has a value for each row.
LEMMA FileFacts ==
  ASSUME InputOK, NEW c \in Columns, NEW f \in Contained(c)
  PROVE  /\ f # Absent
         /\ f = <<>> \/ (f \in [Rows -> Cells(c)] /\ f # <<>> /\ Len(f) = Len(lines[1]))
<1>1. f = <<>> \/ f \in [Rows -> Cells(c)]
  BY InputFacts DEF Contained, Contents, Cells
<1>2. ASSUME f \in [Rows -> Cells(c)] PROVE f # <<>> /\ Len(f) = Len(lines[1])
  <2>1. f \in [1 .. Len(lines[1]) -> Cells(c)] /\ Len(lines[1]) \in Nat \ {0}
    BY <1>2, InputFacts
  <2>2. f \in Seq(Cells(c)) /\ Len(f) = Len(lines[1])
    BY <2>1
  <2> QED
    BY <2>1, <2>2
<1> QED
  BY <1>1, <1>2, InputFacts

\* Whatever has a cell for each row can be a file, and what the text says has.
LEMMA FileOfCells ==
  ASSUME InputOK, NEW c \in Columns
  PROVE  /\ [Rows -> Cells(c)] \subseteq Contained(c) /\ <<>> \in Contained(c)
         /\ Castable => /\ Exact[c] \in [Rows -> Cells(c)]
                        /\ \A r \in Rows : Exact[c][r] \in Cells(c)
<1>1. DOMAIN lines[c] = Rows
  BY InputFacts
<1>2. ASSUME Castable PROVE \A r \in Rows : CastString(types[c], lines[c][r]).value \in Cells(c)
  BY <1>1, <1>2 DEF Castable, Cells, Casts
<1> QED
  BY <1>1, <1>2 DEF Contained, Contents, Cells, Exact

LEMMA ExactFile ==
  ASSUME InputOK, Castable, NEW c \in Columns
  PROVE  Exact[c] \in Contained(c) /\ Exact[c] # Absent /\ Exact[c] # <<>> /\ Len(Exact[c]) = Len(lines[1])
<1>1. Exact[c] \in [Rows -> Cells(c)] /\ Exact[c] \in Contained(c)
  BY FileOfCells
<1>2. 1 \in Rows
  BY InputFacts
<1> QED
  BY <1>1, <1>2, FileFacts
-----------------------------------------------------------------------------
LEMMA InitCacheInv == ImportInit => CacheInv
<1> SUFFICES ASSUME ImportInit PROVE CacheInv
  OBVIOUS
<1>1. InputOK
  BY DEF ImportInit, InputOK
<1>2. disk = [c \in Columns |-> Absent] /\ \A c \in Columns : disk[c] = Absent
  BY DEF ImportInit
<1>3. LastColumn \in Columns /\ 1 \in Columns
  BY <1>1, InputFacts
<1>4. \A c \in Columns : <<>> \in Contained(c)
  BY <1>1, FileOfCells
<1>6. FlagsOK
  BY DEF ImportInit, FlagsOK
<1>5. MemoryOK /\ DiskOK
  BY <1>2, <1>3, <1>4 DEF ImportInit, MemoryOK, DiskOK, Blank, Files
<1> QED
  BY <1>1, <1>2, <1>3, <1>5, <1>6 DEF ImportInit, CacheInv, WritingOK, Writing, InOrder,
     LastDone, ReadOK, LoadedParsed, BegunOK, ThrownOK, Blank

\* The definitions over the input keep their values in every step.
LEMMA InputStays ==
  ASSUME UNCHANGED input
  PROVE  /\ Columns' = Columns /\ Rows' = Rows /\ LastColumn' = LastColumn /\ Exact' = Exact
         /\ Castable' = Castable /\ \A c : Contained(c)' = Contained(c)
         /\ Files' = Files
         /\ InputOK' = InputOK /\ Len(lines[1])' = Len(lines[1])
BY DEF input, Columns, Rows, LastColumn, Exact, Castable, Contained, Files, InputOK

\* What holds of the files holds on when they are not touched and no column is begun.
LEMMA FilesStay ==
  ASSUME CacheInv, UNCHANGED <<input, disk>>
  PROVE  InputOK' /\ DiskOK' /\ InOrder'
<1> USE DEF CacheInv
<1>1. DiskOK'
  BY InputStays DEF DiskOK, input
<1>2. InOrder'
  BY InputStays DEF InOrder, input
<1>3. InputOK'
  BY InputStays DEF input
<1> QED
  BY <1>1, <1>2, <1>3

LEMMA StartKeeps ==
  ASSUME CacheInv, Start
  PROVE  CacheInv'
<1> USE DEF Start, files, CacheInv
<1>1. InputOK' /\ DiskOK' /\ InOrder'
  BY FilesStay
<1>2. 1 \in Columns
  BY InputFacts
<1>6. \A c \in Columns : <<>> \in Contained(c)
  BY FileOfCells
<1>3. MemoryOK'
  BY <1>2, <1>6, InputStays DEF MemoryOK, Blank, Files
<1>7. FlagsOK'
  BY DEF FlagsOK, input
<1>4. LastDone'
  BY InputStays DEF LastDone
<1>5. WritingOK' /\ ReadOK' /\ LoadedParsed' /\ BegunOK' /\ ThrownOK'
  BY DEF WritingOK, Writing, ReadOK, LoadedParsed, BegunOK, ThrownOK
<1> QED
  BY <1>1, <1>3, <1>4, <1>5, <1>7

LEMMA MakeDirKeeps ==
  ASSUME CacheInv, MakeDir
  PROVE  CacheInv'
<1> USE DEF MakeDir, memory, past, CacheInv
<1>1. InputOK' /\ DiskOK' /\ InOrder'
  BY FilesStay
<1>2. stage' \in {"thrown", "check"}
  OBVIOUS
<1>3. MemoryOK'
  BY InputStays DEF MemoryOK
<1>7. FlagsOK'
  BY DEF FlagsOK, input
<1>4. LastDone'
  BY <1>2, InputStays DEF LastDone
<1>5. WritingOK' /\ ReadOK' /\ LoadedParsed'
  BY <1>2 DEF WritingOK, Writing, ReadOK, LoadedParsed
<1>6. BegunOK' /\ ThrownOK'
  BY <1>2, InputStays DEF BegunOK, Writing, ThrownOK, MemoryOK
<1> QED
  BY <1>1, <1>3, <1>4, <1>5, <1>7, <1>6

\* When no file is missing and none was torn, the last one is done, and so are all.
LEMMA AllDone ==
  ASSUME CacheInv, ~torn, \A c \in Columns : disk[c] # Absent,
         stage \notin {"allocate", "copy"} \/ col # LastColumn
  PROVE  \A c \in Columns : disk[c] = Exact[c]
<1>1. LastColumn \in Columns /\ Columns = 1 .. LastColumn /\ LastColumn \in Nat
  BY InputFacts DEF CacheInv
<1>2. disk[LastColumn] = Exact[LastColumn]
  BY <1>1 DEF CacheInv, LastDone
<1>3. \A c \in Columns : c # LastColumn => c < LastColumn
  BY <1>1
<1> QED
  BY <1>1, <1>2, <1>3 DEF CacheInv, InOrder

LEMMA CheckFilesKeeps ==
  ASSUME CacheInv, CheckFiles
  PROVE  CacheInv'
<1> USE DEF CheckFiles, files, memory, past, CacheInv
<1>1. InputOK' /\ DiskOK' /\ InOrder'
  BY FilesStay
<1>2. stage' \in {"parse", "read"} /\ (stage' = "read" => \A c \in Columns : disk[c] # Absent)
  OBVIOUS
<1>3. MemoryOK'
  BY <1>2, InputStays DEF MemoryOK
<1>7. FlagsOK'
  BY DEF FlagsOK, input
<1>4. LastDone'
  BY <1>2, InputStays DEF LastDone
<1>5. WritingOK' /\ LoadedParsed' /\ BegunOK' /\ ThrownOK'
  BY <1>2, InputStays DEF WritingOK, Writing, LoadedParsed, BegunOK, ThrownOK
<1>6. ReadOK'
  <2>1. \A c \in Columns : ~(c < 1)
    BY InputFacts
  <2> QED
    BY <1>2, <2>1, InputStays DEF ReadOK, BegunOK
<1> QED
  BY <1>1, <1>3, <1>4, <1>5, <1>7, <1>6

LEMMA ParseKeeps ==
  ASSUME CacheInv, Parse
  PROVE  CacheInv'
<1> USE DEF files, past, CacheInv
<1>1. /\ UNCHANGED <<input, files, past, col, row, column, size, diffs, nrTuples>>
      /\ stage = "parse" /\ stage' \in {"thrown", "open"}
      /\ stage' = "thrown" => ~Castable \/ ~tblFile
      /\ stage' = "open" => Castable /\ parsed' = Exact
  BY DEF Parse, Castable, Exact
<1>2. InputOK' /\ DiskOK' /\ InOrder'
  BY <1>1, FilesStay
<1>3. MemoryOK'
  BY <1>1, InputStays DEF MemoryOK
<1>4. FlagsOK'
  BY <1>1 DEF FlagsOK, input
<1>5. LastDone'
  BY <1>1, InputStays DEF LastDone
<1>6. WritingOK'
  <2>1. \A c \in Columns : ~(c < 1)
    BY InputFacts
  <2>2. col' = 1
    BY <1>1 DEF BegunOK
  <2> QED
    BY <1>1, <2>1, <2>2, InputStays DEF WritingOK, Writing
<1>7. ReadOK' /\ LoadedParsed'
  BY <1>1 DEF ReadOK, LoadedParsed
<1>8. BegunOK' /\ ThrownOK'
  BY <1>1, InputStays DEF BegunOK, Writing, ThrownOK
<1> QED
  BY <1>2, <1>3, <1>4, <1>5, <1>6, <1>7, <1>8

\* A change of the file that is written, to something that it can be: the others stay.
LEMMA FileWritten ==
  ASSUME InputOK, MemoryOK, DiskOK, WritingOK, InOrder, Writing, UNCHANGED <<input, col>>,
         NEW f \in Contained(col), disk' = [disk EXCEPT ![col] = f],
         disk[col] = Exact[col] => f = Exact[col]
  PROVE  /\ DiskOK' /\ InOrder' /\ disk'[col] = f /\ \A c \in Columns \ {col} : disk'[c] = disk[c]
         /\ \A c \in Columns : c < col => disk'[c] = Exact[c]
<1>1. col \in Columns /\ Columns = 1 .. LastColumn /\ LastColumn \in Nat
  BY InputFacts DEF MemoryOK
<1>2. /\ disk'[col] = f /\ \A c \in Columns \ {col} : disk'[c] = disk[c]
      /\ disk' \in [Columns -> Files \cup {Absent}]
  BY <1>1 DEF DiskOK, Files
<1>3. Castable /\ \A c \in Columns : c < col => disk[c] = Exact[c]
  BY DEF WritingOK
<1>4. DiskOK'
  BY <1>1, <1>2, <1>3, InputStays DEF DiskOK
<1>5. \A c \in Columns : c < col => disk'[c] = Exact[c]
  BY <1>1, <1>2, <1>3
<1>6. InOrder'
  <2> SUFFICES ASSUME NEW c \in Columns, NEW d \in Columns, c < d, disk'[d] # Absent
               PROVE  disk'[c] = Exact[c]
    BY InputStays DEF InOrder
  <2>1. CASE d = col
    BY <1>5, <2>1
  <2>2. CASE d # col
    <3>1. disk[c] = Exact[c]
      BY <1>2, <2>2 DEF InOrder
    <3> QED
      BY <1>2, <3>1
  <2> QED
    BY <2>1, <2>2
<1> QED
  BY <1>2, <1>4, <1>5, <1>6

LEMMA OpenFileKeeps ==
  ASSUME CacheInv, OpenFile
  PROVE  CacheInv'
<1> USE DEF OpenFile, files, past, memory, CacheInv
<1>1. /\ UNCHANGED <<input, dir, tblFile, past, memory>> /\ stage = "open" /\ Writing
      /\ Castable /\ parsed = Exact /\ \A c \in Columns : c < col => disk[c] = Exact[c]
  BY DEF WritingOK, Writing
<1>2. CASE disk[col] = Absent /\ ~writable
  <2>1. stage' = "thrown" /\ UNCHANGED <<input, disk, past, memory>>
    BY <1>2
  <2>2. InputOK' /\ DiskOK' /\ InOrder'
    BY <2>1, FilesStay
  <2>3. MemoryOK'
    BY <2>1, InputStays DEF MemoryOK
  <2>4. FlagsOK'
    BY <2>1 DEF FlagsOK, input
  <2>5. LastDone'
    BY <1>1, <2>1, InputStays DEF LastDone
  <2>6. WritingOK' /\ ReadOK' /\ LoadedParsed' /\ BegunOK'
    BY <2>1 DEF WritingOK, Writing, ReadOK, LoadedParsed, BegunOK
  <2>7. ThrownOK'
    <3>1. col \in Columns
      BY DEF MemoryOK
    <3> QED
      BY <1>2, <2>1, <3>1, InputStays DEF ThrownOK, input
  <2> QED
    BY <2>2, <2>3, <2>4, <2>5, <2>6, <2>7
<1>3. CASE ~(disk[col] = Absent /\ ~writable)
  <2> DEFINE f == IF disk[col] = Absent THEN <<>> ELSE disk[col]
  <2>1. stage' = "allocate" /\ disk' = [disk EXCEPT ![col] = f]
    BY <1>3
  <2>2. col \in Columns
    BY DEF MemoryOK
  <2>3. f \in Contained(col) /\ (disk[col] = Exact[col] => f = Exact[col]) /\ f # Absent
    BY <1>1, <2>2, FileOfCells, ExactFile, FileFacts DEF DiskOK
  <2> HIDE DEF f
  <2>4. /\ DiskOK' /\ InOrder' /\ disk'[col] = f /\ \A c \in Columns \ {col} : disk'[c] = disk[c]
        /\ \A c \in Columns : c < col => disk'[c] = Exact[c]
    BY <1>1, <2>1, <2>3, FileWritten
  <2>5. MemoryOK' /\ InputOK'
    BY <1>1, <2>1, InputStays DEF MemoryOK
  <2>6. FlagsOK'
    BY <1>1 DEF FlagsOK, input
  <2>7. LastDone'
    <3>1. LastColumn \in Columns
      BY InputFacts
    <3>2. CASE col = LastColumn
      BY <1>1, <2>1, <3>2, InputStays DEF LastDone
    <3>3. CASE col # LastColumn
      BY <1>1, <2>4, <3>1, <3>3, InputStays DEF LastDone
    <3> QED
      BY <3>2, <3>3
  <2>8. WritingOK'
    BY <1>1, <2>1, <2>3, <2>4, InputStays DEF WritingOK, Writing
  <2>9. ReadOK' /\ LoadedParsed' /\ BegunOK' /\ ThrownOK'
    BY <1>1, <2>1 DEF ReadOK, LoadedParsed, BegunOK, ThrownOK, Writing
  <2> QED
    BY <2>4, <2>5, <2>6, <2>7, <2>8, <2>9
<1> QED
  BY <1>2, <1>3

\* The parts of the invariant that a write to the file leaves alone.
LEMMA WriteKeeps ==
  ASSUME CacheInv, Writing, UNCHANGED <<input, dir, tblFile, past, col, parsed, column, size, diffs, nrTuples>>,
         stage' \in {"allocate", "copy"}, row' \in Nat \ {0},
         NEW f \in Contained(col), disk' = [disk EXCEPT ![col] = f],
         disk[col] = Exact[col] => f = Exact[col], f # <<>>,
         \A r \in Rows : r < row' => f[r] = Exact[col][r]
  PROVE  CacheInv'
<1> USE DEF past, CacheInv
<1>1. /\ DiskOK' /\ InOrder' /\ disk'[col] = f /\ \A c \in Columns \ {col} : disk'[c] = disk[c]
      /\ \A c \in Columns : c < col => disk'[c] = Exact[c]
  BY FileWritten
<1>2. MemoryOK' /\ InputOK'
  BY InputStays DEF MemoryOK
<1>3. FlagsOK'
  BY DEF FlagsOK, input
<1>4. col \in Columns /\ LastColumn \in Columns /\ f # Absent
  BY InputFacts, FileFacts DEF MemoryOK
<1>5. LastDone'
  <2>1. CASE col = LastColumn
    BY <2>1, InputStays DEF LastDone
  <2>2. CASE col # LastColumn
    BY <1>1, <1>4, <2>2, InputStays DEF LastDone
  <2> QED
    BY <2>1, <2>2
<1>6. WritingOK'
  BY <1>1, <1>4, InputStays DEF WritingOK, Writing
<1>7. ReadOK' /\ LoadedParsed' /\ BegunOK' /\ ThrownOK'
  BY DEF ReadOK, LoadedParsed, BegunOK, ThrownOK, Writing
<1> QED
  BY <1>1, <1>2, <1>3, <1>5, <1>6, <1>7

LEMMA AllocateFileKeeps ==
  ASSUME CacheInv, AllocateFile
  PROVE  CacheInv'
<1> DEFINE old == disk[col]
           f == [r \in 1 .. (IF Len(old) > Len(parsed[col]) THEN Len(old) ELSE Len(parsed[col])) |->
                   IF r <= Len(old) THEN old[r] ELSE ZeroOf(types[col])]
<1>1. /\ stage = "allocate" /\ stage' = "copy" /\ row' = 1 /\ disk' = [disk EXCEPT ![col] = f]
      /\ UNCHANGED <<input, dir, tblFile, past, col, parsed, column, size, diffs, nrTuples>>
  BY DEF AllocateFile
<1>2. Writing /\ Castable /\ parsed = Exact /\ old # Absent /\ col \in Columns
  BY <1>1 DEF CacheInv, WritingOK, Writing, MemoryOK
<1>3. InputOK /\ Rows = 1 .. Len(lines[1]) /\ Len(lines[1]) \in Nat \ {0}
  BY InputFacts DEF CacheInv
<1>4. old \in Contained(col) /\ Len(parsed[col]) = Len(lines[1])
  BY <1>2, <1>3, ExactFile DEF CacheInv, DiskOK
<1>5. f \in [Rows -> Cells(col)] /\ (old # <<>> => f = old)
  <2>1. CASE old = <<>>
    <3>1. Len(old) = 0
      BY <2>1
    <3>2. f = [r \in Rows |-> ZeroOf(types[col])]
      BY <1>3, <1>4, <3>1
    <3> QED
      BY <2>1, <3>2 DEF Cells
  <2>2. CASE old # <<>>
    <3>1. old \in [Rows -> Cells(col)] /\ Len(old) = Len(lines[1])
      BY <1>2, <1>3, <1>4, <2>2, FileFacts
    <3>2. f = [r \in Rows |-> old[r]]
      BY <1>3, <1>4, <3>1
    <3> QED
      BY <3>1, <3>2
  <2> QED
    BY <2>1, <2>2
<1>6. f \in Contained(col) /\ f # <<>>
  <2>1. f \in Contained(col) /\ 1 \in Rows
    BY <1>2, <1>3, <1>5, FileOfCells
  <2> HIDE DEF f
  <2>2. f # <<>>
    BY <1>5, <2>1
  <2> QED
    BY <2>1, <2>2
<1>7. old = Exact[col] => f = Exact[col]
  BY <1>2, <1>3, <1>5, ExactFile
<1> HIDE DEF f
<1>8. \A r \in Rows : r < row' => f[r] = Exact[col][r]
  BY <1>1, <1>3
<1>9. stage' \in {"allocate", "copy"} /\ row' \in Nat \ {0}
  BY <1>1
<1> HIDE DEF old
<1>10. disk[col] = Exact[col] => f = Exact[col]
  BY <1>7 DEF old
<1> QED
  BY <1>1, <1>2, <1>6, <1>8, <1>9, <1>10, WriteKeeps

LEMMA CopyRowKeeps ==
  ASSUME CacheInv, CopyRow
  PROVE  CacheInv'
<1> DEFINE f == [disk[col] EXCEPT ![row] = parsed[col][row]]
<1>1. /\ stage = "copy" /\ row <= Len(parsed[col]) /\ row' = row + 1
      /\ UNCHANGED <<input, dir, tblFile, past, stage, col, parsed, column, size, diffs, nrTuples>>
      /\ disk' = [disk EXCEPT ![col][row] = parsed[col][row]]
  BY DEF CopyRow
<1>2. /\ Writing /\ Castable /\ parsed = Exact /\ col \in Columns /\ row \in Nat \ {0}
      /\ disk[col] # Absent /\ disk[col] # <<>> /\ \A r \in Rows : r < row => disk[col][r] = Exact[col][r]
  BY <1>1 DEF CacheInv, WritingOK, Writing, MemoryOK
<1>3. InputOK /\ Rows = 1 .. Len(lines[1]) /\ Len(lines[1]) \in Nat \ {0}
  BY InputFacts DEF CacheInv
<1>4. Len(parsed[col]) = Len(lines[1])
  BY <1>2, <1>3, ExactFile
<1>5. row \in Rows /\ 1 \in Rows
  BY <1>1, <1>2, <1>3, <1>4
<1>6. disk[col] \in [Rows -> Cells(col)]
  BY <1>2, <1>3, FileFacts DEF CacheInv, DiskOK
<1>7. Exact[col] \in [Rows -> Cells(col)] /\ parsed[col][row] \in Cells(col)
  BY <1>2, <1>3, <1>5, FileOfCells
<1>8. f \in [Rows -> Cells(col)] /\ f[row] = Exact[col][row]
      /\ \A r \in Rows : r # row => f[r] = disk[col][r]
  BY <1>2, <1>5, <1>6, <1>7
<1>9. disk' = [disk EXCEPT ![col] = f]
  BY <1>1, <1>2 DEF CacheInv, DiskOK
<1> HIDE DEF f
<1>10. f \in Contained(col) /\ f # <<>>
  BY <1>2, <1>3, <1>5, <1>8, FileOfCells
<1>11. disk[col] = Exact[col] => f = Exact[col]
  BY <1>7, <1>8
<1>12. \A r \in Rows : r < row' => f[r] = Exact[col][r]
  BY <1>1, <1>2, <1>3, <1>8
<1>13. stage' \in {"allocate", "copy"} /\ row' \in Nat \ {0}
  BY <1>1, <1>2
<1> QED
  BY <1>1, <1>2, <1>9, <1>10, <1>11, <1>12, <1>13, WriteKeeps

LEMMA CloseFileKeeps ==
  ASSUME CacheInv, CloseFile
  PROVE  CacheInv'
<1> USE DEF files, past, CacheInv
<1>1. /\ stage = "copy" /\ row > Len(parsed[col])
      /\ UNCHANGED <<input, files, past, row, parsed, column, size, diffs, nrTuples>>
      /\ \/ col < LastColumn /\ stage' = "open" /\ col' = col + 1
         \/ ~(col < LastColumn) /\ stage' = "read" /\ col' = 1
  BY DEF CloseFile
<1>2. /\ Castable /\ parsed = Exact /\ col \in Columns /\ row \in Nat \ {0}
      /\ disk[col] # Absent /\ disk[col] # <<>> /\ \A r \in Rows : r < row => disk[col][r] = Exact[col][r]
      /\ \A c \in Columns : c < col => disk[c] = Exact[c]
  BY <1>1 DEF WritingOK, Writing, MemoryOK
<1>3. /\ Rows = 1 .. Len(lines[1]) /\ Len(lines[1]) \in Nat \ {0}
      /\ LastColumn \in Nat \ {0} /\ Columns = 1 .. LastColumn
  BY InputFacts
<1>4. disk[col] = Exact[col]
  <2>1. Len(parsed[col]) = Len(lines[1]) /\ Exact[col] \in [Rows -> Cells(col)]
    BY <1>2, ExactFile, FileOfCells
  <2>2. disk[col] \in [Rows -> Cells(col)]
    BY <1>2, FileFacts DEF DiskOK
  <2>3. \A r \in Rows : disk[col][r] = Exact[col][r]
    BY <1>1, <1>2, <1>3, <2>1
  <2> QED
    BY <2>1, <2>2, <2>3
<1>5. \A c \in Columns : c <= col => disk[c] = Exact[c]
  BY <1>2, <1>3, <1>4
<1>6. InputOK' /\ DiskOK' /\ InOrder'
  BY <1>1, FilesStay
<1>7. col' \in Columns
  BY <1>1, <1>2, <1>3
<1>8. MemoryOK'
  BY <1>1, <1>7, InputStays DEF MemoryOK
<1>9. FlagsOK'
  BY <1>1 DEF FlagsOK, input
<1>10. LastDone'
  BY <1>1, <1>4, InputStays DEF LastDone
<1>11. size = 0 /\ diffs = 0
  BY <1>1 DEF BegunOK, Writing
<1>12. WritingOK' /\ ReadOK'
  <2>1. CASE col < LastColumn
    <3>1. stage' = "open" /\ col' = col + 1
      BY <1>1, <2>1
    <3>2. \A c \in Columns : c < col' => disk'[c] = Exact[c]
      BY <1>1, <1>2, <1>3, <1>5, <3>1
    <3> QED
      BY <1>1, <1>2, <3>1, <3>2, InputStays DEF WritingOK, Writing, ReadOK
  <2>2. CASE ~(col < LastColumn)
    <3>1. stage' = "read" /\ col' = 1 /\ col = LastColumn
      BY <1>1, <1>2, <1>3, <2>2
    <3>2. \A c \in Columns : disk[c] # Absent
      BY <1>2, <1>3, <1>5, <3>1, ExactFile
    <3>3. \A c \in Columns : ~(c < 1)
      BY <1>3
    <3> QED
      BY <1>1, <1>11, <3>1, <3>2, <3>3, InputStays DEF WritingOK, Writing, ReadOK
  <2> QED
    BY <2>1, <2>2
<1>13. LoadedParsed' /\ BegunOK' /\ ThrownOK'
  BY <1>1, <1>11 DEF LoadedParsed, BegunOK, ThrownOK, Writing
<1> QED
  BY <1>6, <1>8, <1>9, <1>10, <1>12, <1>13

LEMMA ReadColumnKeeps ==
  ASSUME CacheInv, ReadColumn
  PROVE  CacheInv'
<1> USE DEF files, past, CacheInv
<1> DEFINE content == disk[col]
           differs == diffs + (IF size = Len(content) THEN 0 ELSE 1)
<1>1. stage = "read" /\ UNCHANGED <<input, files, past, row, parsed>>
  BY DEF ReadColumn
<1>2. /\ content = Absent \/ content = <<>>
         => stage' = "thrown" /\ UNCHANGED <<col, column, size, diffs, nrTuples>>
      /\ ~(content = Absent \/ content = <<>>)
         => /\ column' = [column EXCEPT ![col] = content]
            /\ size' = Len(content) /\ diffs' = differs
            /\ col < LastColumn => col' = col + 1 /\ UNCHANGED <<stage, nrTuples>>
            /\ ~(col < LastColumn) =>
                 /\ col' = col
                 /\ differs > 1 => stage' = "thrown" /\ UNCHANGED nrTuples
                 /\ ~(differs > 1) => stage' = "loaded" /\ nrTuples' = Len(content)
  BY DEF ReadColumn
<1>3. /\ LastColumn \in Nat \ {0} /\ Columns = 1 .. LastColumn /\ Len(lines[1]) \in Nat \ {0}
      /\ col \in Columns /\ size \in Nat /\ diffs \in Nat
      /\ column \in [Columns -> Files]
  BY InputFacts DEF MemoryOK
<1>4. /\ \A c \in Columns : disk[c] # Absent
      /\ ~torn => /\ \A c \in Columns : c < col => column[c] = Exact[c]
                  /\ size = IF col = 1 THEN 0 ELSE Len(lines[1])
                  /\ diffs = IF col = 1 THEN 0 ELSE 1
  BY <1>1 DEF ReadOK
<1>5. content \in Contained(col) /\ Castable /\ content # Absent
  BY <1>3, <1>4 DEF DiskOK
<1>6. ~torn => content = Exact[col] /\ content # <<>> /\ Len(content) = Len(lines[1])
  BY <1>1, <1>3, <1>4, <1>5, AllDone, ExactFile
<1>7. InputOK' /\ DiskOK' /\ InOrder'
  BY <1>1, FilesStay
<1>8. FlagsOK'
  BY <1>1 DEF FlagsOK, input
<1>9. stage' \in {"thrown", "read", "loaded"}
  BY <1>1, <1>2
<1>10. LastDone'
  BY <1>1, <1>9, InputStays DEF LastDone
<1>11. CASE content = <<>>
  <2>1. stage' = "thrown" /\ UNCHANGED <<col, column, size, diffs, nrTuples>> /\ torn
    BY <1>2, <1>6, <1>11
  <2>2. MemoryOK'
    BY <1>1, <2>1, InputStays DEF MemoryOK
  <2>3. WritingOK' /\ ReadOK' /\ LoadedParsed' /\ BegunOK' /\ ThrownOK'
    BY <1>1, <2>1 DEF WritingOK, Writing, ReadOK, LoadedParsed, BegunOK, ThrownOK
  <2> QED
    BY <1>7, <1>8, <1>10, <2>2, <2>3
<1>12. CASE content # <<>>
  <2>1. Len(content) = Len(lines[1])
    BY <1>3, <1>5, <1>7, <1>12, FileFacts
  <2>2. column' = [column EXCEPT ![col] = content] /\ size' = Len(content) /\ diffs' = differs
    BY <1>2, <1>5, <1>12
  <2>3. column' \in [Columns -> Files] /\ size' \in Nat /\ diffs' \in Nat
    <3>1. content \in Files
      BY <1>3, <1>5 DEF Files
    <3>2. Len(content) \in Nat /\ differs \in Nat
      BY <1>3, <2>1
    <3> HIDE DEF content, differs
    <3> QED
      BY <1>3, <2>2, <3>1, <3>2
  <2>4. ~torn => /\ column'[col] = Exact[col] /\ \A c \in Columns : c <= col => column'[c] = Exact[c]
                 /\ size' = Len(lines[1]) /\ diffs' = 1 /\ differs = 1
    BY <1>3, <1>4, <1>6, <2>1, <2>2
  <2> HIDE DEF content, differs
  <2>5. CASE col < LastColumn
    <3>1. col' = col + 1 /\ stage' = "read" /\ col' \in Columns
      BY <1>1, <1>2, <1>3, <1>5, <1>12, <2>5
    <3>2. MemoryOK'
      BY <1>1, <2>3, <3>1, InputStays DEF MemoryOK
    <3>3. ReadOK'
      <4>1. ~torn => \A c \in Columns : c < col' => column'[c] = Exact[c]
        BY <1>3, <2>4, <3>1
      <4>2. col' # 1
        BY <1>3, <3>1
      <4> QED
        BY <1>1, <1>4, <2>4, <4>1, <4>2, InputStays DEF ReadOK
    <3>4. WritingOK' /\ LoadedParsed' /\ BegunOK' /\ ThrownOK'
      BY <3>1 DEF WritingOK, Writing, LoadedParsed, BegunOK, ThrownOK
    <3> QED
      BY <1>7, <1>8, <1>10, <3>2, <3>3, <3>4
  <2>6. CASE ~(col < LastColumn)
    <3>1. /\ col' = col /\ stage' \in {"thrown", "loaded"}
          /\ ~torn => stage' = "loaded"
          /\ stage' = "loaded" => nrTuples' = Len(content)
      BY <1>2, <1>5, <1>12, <2>4, <2>6
    <3>2. MemoryOK'
      BY <1>1, <1>3, <2>3, <3>1, InputStays DEF MemoryOK
    <3>3. ~torn => column' = Exact
      <4>1. col = LastColumn
        BY <1>3, <2>6
      <4>2. ~torn => \A c \in Columns : column'[c] = Exact[c]
        BY <1>3, <2>4, <4>1
      <4>3. Exact = [c \in Columns |-> Exact[c]]
        BY DEF Exact
      <4> QED
        BY <2>3, <4>2, <4>3
    <3>4. LoadedParsed' /\ ThrownOK'
      BY <1>1, <2>1, <3>1, <3>3, InputStays DEF LoadedParsed, ThrownOK
    <3>5. WritingOK' /\ ReadOK' /\ BegunOK'
      BY <3>1 DEF WritingOK, Writing, ReadOK, BegunOK
    <3> QED
      BY <1>7, <1>8, <1>10, <3>2, <3>4, <3>5
  <2> QED
    BY <2>5, <2>6
<1> QED
  BY <1>11, <1>12

LEMMA KillKeeps ==
  ASSUME CacheInv, Kill
  PROVE  CacheInv'
<1> USE DEF files, CacheInv
<1>1. /\ stage \notin {"ended", "thrown"} /\ stage' = "ended"
      /\ torn' = (torn \/ (stage \in {"allocate", "copy"} /\ \A c \in Columns : disk[c] # Absent))
      /\ UNCHANGED <<input, files, runs, fresh, memory>>
  BY DEF Kill
<1>2. InputOK' /\ DiskOK' /\ InOrder'
  BY <1>1, FilesStay
<1>3. MemoryOK'
  BY <1>1, InputStays DEF MemoryOK, memory
<1>4. FlagsOK'
  BY <1>1 DEF FlagsOK, input
<1>5. LastDone'
  <2> SUFFICES ASSUME ~torn', disk[LastColumn] # Absent PROVE disk[LastColumn] = Exact[LastColumn]
    BY <1>1, InputStays DEF LastDone
  <2>1. ~torn
    BY <1>1
  <2>2. CASE stage \in {"allocate", "copy"} /\ col = LastColumn
    <3>1. LastColumn \in Nat /\ Columns = 1 .. LastColumn /\ LastColumn \in Columns
      BY InputFacts
    <3>2. Castable /\ \A c \in Columns : c < LastColumn => disk[c] = Exact[c]
      BY <2>2 DEF WritingOK, Writing
    <3>3. \A c \in Columns : disk[c] # Absent
      BY <3>1, <3>2, ExactFile
    <3> QED
      BY <1>1, <2>2, <3>3
  <2> QED
    BY <2>1, <2>2 DEF LastDone
<1>6. WritingOK' /\ ReadOK' /\ LoadedParsed' /\ BegunOK' /\ ThrownOK'
  BY <1>1 DEF WritingOK, Writing, ReadOK, LoadedParsed, BegunOK, ThrownOK
<1> QED
  BY <1>2, <1>3, <1>4, <1>5, <1>6

LEMMA StillKeeps ==
  ASSUME CacheInv, UNCHANGED importVars
  PROVE  CacheInv'
<1> USE DEF importVars, files, past, memory, CacheInv
<1>1. InputOK' /\ DiskOK' /\ InOrder'
  BY FilesStay
<1>2. MemoryOK' /\ LastDone' /\ LoadedParsed' /\ ThrownOK' /\ ReadOK' /\ WritingOK'
  BY InputStays DEF MemoryOK, LastDone, LoadedParsed, ThrownOK, ReadOK, WritingOK, Writing, input
<1>3. FlagsOK' /\ BegunOK'
  BY InputStays DEF FlagsOK, BegunOK, Writing, input
<1> QED
  BY <1>1, <1>2, <1>3

LEMMA RemoveTextKeeps ==
  ASSUME CacheInv, RemoveText
  PROVE  CacheInv'
<1> USE DEF RemoveText, past, memory, CacheInv
<1>1. InputOK' /\ DiskOK' /\ InOrder'
  BY FilesStay
<1>2. MemoryOK' /\ LastDone' /\ LoadedParsed' /\ ReadOK' /\ WritingOK'
  BY InputStays DEF MemoryOK, LastDone, LoadedParsed, ReadOK, WritingOK, Writing
<1>3. FlagsOK' /\ BegunOK'
  BY DEF FlagsOK, BegunOK, Writing, input
<1>4. ThrownOK'
  BY InputStays DEF ThrownOK, input
<1> QED
  BY <1>1, <1>2, <1>3, <1>4

\* The invariant is inductive: what earlier runs left on the disk is a prefix of the
\* columns, each of them exact, and perhaps one more that was cut off.
THEOREM CacheRecovers == ImportSpec => []CacheInv
<1>1. CacheInv /\ [ImportNext]_importVars => CacheInv'
  BY StartKeeps, MakeDirKeeps, CheckFilesKeeps, ParseKeeps, OpenFileKeeps, AllocateFileKeeps,
     CopyRowKeeps, CloseFileKeeps, ReadColumnKeeps, KillKeeps, RemoveTextKeeps, StillKeeps DEF ImportNext, Running
<1> QED
  BY <1>1, InitCacheInv, PTL DEF ImportSpec

\* A relation that is loaded is what this text parses to, whichever runs were killed
\* before, unless one was over the last file: without a hypothesis on the casts.
THEOREM LoadedAsParsed == ImportSpec => []LoadedParsed
<1>1. CacheInv => LoadedParsed
  BY DEF CacheInv
<1> QED
  BY <1>1, CacheRecovers, PTL

\* A run that finds the directory loads the relation, for every table whose texts can
\* be read: parseColumns is not stopped by what earlier runs have left, and by a text
\* that is gone or a directory that cannot be written to only when a file is missing.
THEOREM RerunsSucceed ==
  ASSUME TextsCastable
  PROVE  ImportSpec => []RerunSucceeds
<1>1. CacheInv => RerunSucceeds
  <2> SUFFICES ASSUME CacheInv PROVE RerunSucceeds
    OBVIOUS
  <2>1. Castable
    BY DEF CacheInv, InputOK, TextsCastable, Castable, Columns, Rows
  <2> QED
    BY <2>1 DEF CacheInv, ThrownOK, RerunSucceeds
<1> QED
  BY <1>1, CacheRecovers, PTL

\* A relation that is loaded has the values that dbgen wrote, for every table that the
\* casts read as they should.
THEOREM LoadedAsWritten ==
  ASSUME CastsExact
  PROVE  ImportSpec => []LoadedExact
<1>1. CacheInv => LoadedExact
  <2> SUFFICES ASSUME CacheInv, stage = "loaded", ~torn,
                      NEW c \in Columns
               PROVE  /\ nrTuples = Len(values[c])
                      /\ column[c] = [r \in Rows |-> InMemory(types[c], values[c][r])]
    BY DEF LoadedExact
  <2>1. column = Exact /\ nrTuples = Len(lines[1])
    BY DEF CacheInv, LoadedParsed
  <2>2. Len(values[c]) = Len(lines[1])
    BY InputFacts DEF CacheInv
  <2>3. \A r \in Rows : CastString(types[c], lines[c][r]).value = InMemory(types[c], values[c][r])
    BY DEF CacheInv, InputOK, CastsExact, Columns, Rows
  <2>4. column[c] = [r \in Rows |-> CastString(types[c], lines[c][r]).value]
    BY <2>1 DEF Exact
  <2> QED
    BY <2>1, <2>2, <2>3, <2>4
<1> QED
  BY <1>1, CacheRecovers, PTL
=============================================================================
