----------------------------- MODULE JoinProbe -----------------------------
(***************************************************************************)
(* The join functions of Hashjoin: joinAllParallel, the default of the     *)
(* queries, the plain joinAll, the forms of both for a probe side with a   *)
(* selection vector, and joinBoncz.  `join` is the member function pointer *)
(* of the operator.  A function without a selection vector writes i where  *)
(* probeSel[i] is written here.                                            *)
(*                                                                         *)
(* joinAllSIMD and joinSelSIMD are other than the Parallel forms only with *)
(* AVX-512, in code that calls a lookup that is commented out              *)
(* (Hashmap.hpp, 144), so that it cannot be built.                         *)
(***************************************************************************)
EXTENDS ProbeSide

CONSTANT
  followupBufferSize  \* size of followupIds and followupEntries: see getPlus1

ASSUME JoinProbeAssumption == followupBufferSize = batchSize + 1

VARIABLES
  join,           \* the join function of this operator
  contCon,        \* contCon: the saved bounds of the ring of followups
  followup, followupWrite,  \* the bounds as local variables
  ring,           \* followupIds and followupEntries
  todo, more,     \* followups left in this round, and if others wait
  probeHash, buildMatch,  \* joinAll: cont, the chain that was interrupted, and where
  probing, entry                \* joinAll: the loop variables

ringVars == <<contCon, followup, followupWrite, ring, todo, more>>
allVars == <<probeHash, buildMatch, probing, entry>>
joinVars == <<probeVars, join, ringVars, allVars>>

JoinInit ==
  /\ ProbeInit
  /\ join \in IF probeSel = Dense
               THEN {"joinAllParallel", "joinBoncz", "joinAll"}
               ELSE {"joinSelParallel", "joinSel"}
  /\ contCon = [followup |-> 0, followupWrite |-> 0]
  /\ followup = 0 /\ followupWrite = 0
  /\ ring = [j \in 0 .. followupBufferSize - 1 |-> <<0, End>>]
  /\ todo = 0 /\ more = FALSE
  /\ probeHash = 0 /\ buildMatch = End
  /\ probing = 0 /\ entry = End

-----------------------------------------------------------------------------
(* joinAllParallel: the first entry of every chain in one pass, the others as
   followups, which are kept in a ring. *)

Positions == 0 .. numProbes - 1
\* Those of a set of positions, in their order.
Ordered(S) ==
  LET numbers == Chosen(numProbes, {p + 1 : p \in S})
  IN  [j \in 1 .. Len(numbers) |-> numbers[j] - 1]

\* The ring with the tuples at positions `ps` added from index `at` on.
AddFollowups(at, ps) ==
  [j \in DOMAIN ring |->
     IF at <= j /\ j < at + Len(ps)
     THEN <<ps[j - at + 1], next[ChainOf(ps[j - at + 1])]>>
     ELSE ring[j]]

FirstPass ==
  LET hits == Ordered({p \in Positions : ChainOf(p) # End /\ EntryHash(ChainOf(p)) = Hash(p)})
      rest == Ordered({p \in Positions : ChainOf(p) # End /\ next[ChainOf(p)] # End})
  IN  /\ stage = "join"
      /\ IF contCon.followup = contCon.followupWrite
         THEN /\ matches' = [j \in 1 .. Len(hits) |-> <<ChainOf(hits[j]), probeSel[hits[j]]>>]
              /\ ring' = AddFollowups(contCon.followupWrite, rest)
              /\ followupWrite' = (contCon.followupWrite + Len(rest)) % followupBufferSize
         ELSE /\ followupWrite' = contCon.followupWrite
              /\ UNCHANGED <<matches, ring>>
      /\ followup' = contCon.followup
      /\ stage' = "round"
      /\ UNCHANGED <<joinInput, join, base, nextProbe, numProbes, contCon, todo, more, pairs>>

nrFollowups ==
  IF followup <= followupWrite THEN followupWrite - followup
  ELSE followupBufferSize - (followup - followupWrite)

\* Faulty variant: a round does not look at the space that is left.
RoundTakesAll ==
  /\ stage = "round" /\ followup # followupWrite
  /\ todo' = nrFollowups /\ more' = FALSE
  /\ stage' = "followup"
  /\ UNCHANGED <<joinInput, join, base, nextProbe, numProbes, contCon, followup,
                 followupWrite, ring, matches, pairs>>

\* A round takes as many followups as there is space for.
Round ==
  /\ stage = "round" /\ followup # followupWrite
  /\ LET space == batchSize - Len(matches)
     IN  /\ todo' = IF nrFollowups < space THEN nrFollowups ELSE space
         /\ more' = (todo' < nrFollowups)
  /\ stage' = "followup"
  /\ UNCHANGED <<joinInput, join, base, nextProbe, numProbes, contCon, followup,
                 followupWrite, ring, matches, pairs>>

\* One followup: a pair if the hashes agree, and the next entry of its chain.
Followup ==
  LET p == ring[followup][1]
      e == ring[followup][2]
  IN  /\ stage = "followup" /\ todo > 0
      /\ todo' = todo - 1
      /\ followup' = IF followup + 1 = followupBufferSize THEN 0 ELSE followup + 1
      /\ matches' = IF EntryHash(e) = Hash(p) THEN Append(matches, <<e, probeSel[p]>>) ELSE matches
      /\ IF next[e] # End
         THEN /\ ring' = [ring EXCEPT ![followupWrite] = <<p, next[e]>>]
              /\ followupWrite' = (followupWrite + 1) % followupBufferSize
         ELSE UNCHANGED <<ring, followupWrite>>
      /\ UNCHANGED <<joinInput, join, stage, base, nextProbe, numProbes, contCon, more, pairs>>

\* Faulty variant: the bounds of the ring are not saved for the next call.
RoundEndForgets ==
  /\ stage = "followup" /\ todo = 0
  /\ stage' = IF more THEN "return" ELSE "round"
  /\ UNCHANGED <<joinInput, join, base, nextProbe, numProbes, ringVars, matches, pairs>>

\* The round is over; if followups are left for want of space, so is the call.
RoundEnd ==
  /\ stage = "followup" /\ todo = 0
  /\ IF more
     THEN /\ contCon' = [followup |-> followup, followupWrite |-> followupWrite]
          /\ stage' = "return"
     ELSE stage' = "round" /\ UNCHANGED contCon
  /\ UNCHANGED <<joinInput, join, base, nextProbe, numProbes, followup, followupWrite,
                 ring, todo, more, matches, pairs>>

\* Faulty variant: the vector is not marked as used up.
DrainedNotDone ==
  /\ stage = "round" /\ followup = followupWrite
  /\ contCon' = [followup |-> 0, followupWrite |-> 0]
  /\ stage' = "return"
  /\ UNCHANGED <<joinInput, join, base, nextProbe, numProbes, followup, followupWrite,
                 ring, todo, more, matches, pairs>>

\* No followups are left: the call returns, done with the vector.
Drained ==
  /\ stage = "round" /\ followup = followupWrite
  /\ nextProbe' = numProbes
  /\ contCon' = [followup |-> 0, followupWrite |-> 0]
  /\ stage' = "return"
  /\ UNCHANGED <<joinInput, join, base, numProbes, followup, followupWrite, ring, todo,
                 more, matches, pairs>>

-----------------------------------------------------------------------------
(* joinBoncz: all chains are followed one entry deeper per round, without a
   look at the hashes; the ring is used as an array of followupWrite. *)

BonczFirst ==
  LET heads == Ordered({p \in Positions : ChainOf(p) # End})
  IN  /\ stage = "join"
      /\ IF contCon.followupWrite = 0
         THEN /\ ring' = [j \in DOMAIN ring |-> IF j < Len(heads)
                            THEN <<heads[j + 1], ChainOf(heads[j + 1])>> ELSE ring[j]]
              /\ followupWrite' = Len(heads)
         ELSE followupWrite' = contCon.followupWrite /\ UNCHANGED ring
      /\ stage' = "round"
      /\ UNCHANGED <<joinInput, join, base, nextProbe, numProbes, contCon, followup,
                     todo, more, matches, pairs>>

\* The followups of this round, and those of the next.
Level == [j \in 1 .. followupWrite |-> ring[j - 1]]
NextLevel ==
  LET rest == Chosen(followupWrite, {j \in DOMAIN Level : next[Level[j][2]] # End})
  IN  [j \in 1 .. Len(rest) |-> <<Level[rest[j]][1], next[Level[rest[j]][2]]>>]

\* A round; the call ends when the chains do, or when another round could not
\* be stored.
BonczRound ==
  /\ stage = "round" /\ followupWrite > 0
  /\ matches' = matches \o [j \in 1 .. followupWrite |-> <<Level[j][2], Level[j][1]>>]
  /\ followupWrite' = Len(NextLevel)
  /\ ring' = [j \in DOMAIN ring |->
                IF j < Len(NextLevel) THEN NextLevel[j + 1] ELSE ring[j]]
  /\ IF NextLevel = <<>> \/ Len(matches') + Len(NextLevel) >= batchSize
     THEN /\ contCon' = [contCon EXCEPT !.followupWrite = Len(NextLevel)]
          /\ nextProbe' = IF NextLevel = <<>> THEN numProbes ELSE nextProbe
          /\ stage' = "return"
     ELSE UNCHANGED <<contCon, nextProbe, stage>>
  /\ UNCHANGED <<joinInput, join, base, numProbes, followup, todo, more, pairs>>

\* No chain was found for any tuple.
BonczNone ==
  /\ stage = "round" /\ followupWrite = 0
  /\ nextProbe' = numProbes
  /\ contCon' = [contCon EXCEPT !.followupWrite = 0]
  /\ stage' = "return"
  /\ UNCHANGED <<joinInput, join, base, numProbes, followup, followupWrite, ring, todo,
                 more, matches, pairs>>

-----------------------------------------------------------------------------
(* joinAll: one chain after the other. *)

\* The call begins where the last one was interrupted.
AllStart ==
  /\ stage = "join"
  /\ entry' = buildMatch
  /\ stage' = "resume"
  /\ UNCHANGED <<joinInput, base, nextProbe, numProbes, probeHash, buildMatch, probing,
                 matches, pairs>>

\* The rest of the interrupted chain.
AllResume ==
  /\ stage = "resume" /\ entry # End
  /\ entry' = next[entry]
  /\ matches' = IF EntryHash(entry) = probeHash THEN Append(matches, <<entry, probeSel[nextProbe]>>)
              ELSE matches
  /\ IF matches' # matches /\ Len(matches') = batchSize
     THEN buildMatch' = next[entry] /\ stage' = "return"
     ELSE UNCHANGED <<buildMatch, stage>>
  /\ UNCHANGED <<joinInput, base, nextProbe, numProbes, probeHash, probing, pairs>>

\* Past it: on to the next tuple, if a chain was interrupted.
AllResumed ==
  /\ stage = "resume" /\ entry = End
  /\ nextProbe' = IF buildMatch # End THEN nextProbe + 1 ELSE nextProbe
  /\ probing' = nextProbe'
  /\ entry' = IF probing' < numProbes THEN ChainOf(probing') ELSE End
  /\ stage' = "probe"
  /\ UNCHANGED <<joinInput, base, numProbes, probeHash, buildMatch, matches, pairs>>

\* An entry of the chain of a tuple; with the buffers full and more to look
\* at, the state is saved.
AllProbe ==
  /\ stage = "probe" /\ probing < numProbes /\ entry # End
  /\ entry' = next[entry]
  /\ matches' = IF EntryHash(entry) = Hash(probing) THEN Append(matches, <<entry, probeSel[probing]>>) ELSE matches
  /\ IF /\ matches' # matches /\ Len(matches') = batchSize
        /\ next[entry] # End \/ probing + 1 < numProbes
     THEN /\ buildMatch' = next[entry]
          /\ probeHash' = Hash(probing)
          /\ nextProbe' = probing
          /\ stage' = "return"
     ELSE UNCHANGED <<buildMatch, probeHash, nextProbe, stage>>
  /\ UNCHANGED <<joinInput, base, numProbes, probing, pairs>>

\* The end of the chain: on to the next tuple, or done with the vector.
AllNextProbe ==
  /\ stage = "probe" /\ probing < numProbes /\ entry = End
  /\ probing' = probing + 1
  /\ entry' = IF probing' < numProbes THEN ChainOf(probing') ELSE End
  /\ UNCHANGED <<joinInput, stage, base, nextProbe, numProbes, probeHash, buildMatch,
                 matches, pairs>>

AllDone ==
  /\ stage = "probe" /\ probing >= numProbes
  /\ buildMatch' = End
  /\ nextProbe' = numProbes
  /\ stage' = "return"
  /\ UNCHANGED <<joinInput, base, numProbes, probeHash, probing, entry, matches, pairs>>

AllStep == AllStart \/ AllResume \/ AllResumed \/ AllProbe \/ AllNextProbe \/ AllDone

-----------------------------------------------------------------------------
FollowupStep == FirstPass \/ Round \/ Followup \/ RoundEnd \/ Drained

joinAll == join = "joinAll" /\ AllStep
joinSel == join = "joinSel" /\ AllStep
joinAllParallel == join = "joinAllParallel" /\ FollowupStep
joinSelParallel == join = "joinSelParallel" /\ FollowupStep
joinBoncz == join = "joinBoncz" /\ (BonczFirst \/ BonczRound \/ BonczNone)

JoinStep ==
  \/ Operator /\ UNCHANGED <<join, ringVars, allVars>>
  \/ (joinAllParallel \/ joinSelParallel \/ joinBoncz) /\ UNCHANGED allVars
  \/ (joinAll \/ joinSel) /\ UNCHANGED <<join, ringVars>>

JoinStop == Ended /\ UNCHANGED joinVars

JoinNext == JoinStep \/ JoinStop

\* The worker keeps running.
JoinSpec == JoinInit /\ [][JoinNext]_joinVars /\ WF_joinVars(JoinStep)

-----------------------------------------------------------------------------
\* The answer of the join ("computes join result into buildMatches and
\* probeMatches, respecting selection vector probeSel for probe side",
\* Operators.hpp:254), in what the keys say and the values that are fetched:
\* each pair with equal keys is returned, whatever the number of columns, and
\* wherever the buffers fill up, and no other pair is, and none for a row that
\* is not selected.  joinAll and joinSel may return pairs again, as they forget
\* that they were interrupted when this was at the end of a chain; the others
\* return each pair once.
JoinExact ==
  /\ \A p \in Entries \X Probes :
       LET match == buildKey[p[1]] = probeKey[p[2]]
       IN  /\ pairs[p] > 0 => match
           /\ Ended /\ match => pairs[p] > 0
           /\ pairs[p] > 1 => join \in {"joinAll", "joinSel"}
  /\ \A j \in DOMAIN matches : \E p \in 0 .. numProbes - 1 : matches[j][2] = probeSel[p]

\* A join function never writes behind the batchSize elements of buildMatches
\* and probeMatches, although a chain may be longer than a vector.
BuffersHold == Len(matches) <= batchSize

\* The probe side ends: no continuation goes round in circles, but for that of
\* joinAll and joinSel.
JoinEnds == join \in {"joinAll", "joinSel"} \/ <>Ended
=============================================================================
