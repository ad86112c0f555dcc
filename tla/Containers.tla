----------------------------- MODULE Containers -----------------------------
(***************************************************************************)
(* The two containers in which a grouping keeps its entries.               *)
(*                                                                         *)
(* runtime::Stack: chunks of memory of which each is twice as large as the *)
(* one before.  It is cleared without its memory being given back, so that *)
(* a chunk may hold entries of before, behind those that count.            *)
(*                                                                         *)
(* runtime::PartitionedDeque: per value of the upper bits of a hash, a list *)
(* of chunks of equal size.                                                *)
(***************************************************************************)
EXTENDS Integers, Sequences, SequencesExt

CONSTANTS
  initialSize,   \* entries of the first chunk of a stack: 1024 in the code
  chunkSize,     \* entries of a chunk of a deque: 1024 in the code
  HashBits       \* bits of a hash_t

ASSUME ContainersAssumption ==
  initialSize \in Nat \ {0} /\ chunkSize \in Nat \ {0} /\ HashBits \in Nat \ {0}

-----------------------------------------------------------------------------
(* Stack *)

NewStack ==
  [chunks |-> <<<<>>>>, last |-> 1, chunkSize |-> initialSize, fill |-> 0, nrElements |-> 0]

ClearStack(s) ==
  [s EXCEPT !.last = 1, !.chunkSize = initialSize, !.fill = 0, !.nrElements = 0]

StackEmpty(s) == s.last = 1 /\ s.fill = 0
StackSize(s) == s.nrElements + s.fill

\* Behind the last chunk: one that is there already, or memory for a new one.
NewStackChunk(s) ==
  [s EXCEPT !.chunks = IF s.last < Len(@) THEN @ ELSE Append(@, <<>>),
            !.last = @ + 1, !.chunkSize = 2 * @, !.fill = 0, !.nrElements = @ + s.fill]

\* The entry replaces what an earlier use of the memory has left.
EmplaceBack(s, e) ==
  LET r == IF s.fill = s.chunkSize THEN NewStackChunk(s) ELSE s
      Write(c) == IF r.fill < Len(c) THEN [c EXCEPT ![r.fill + 1] = e] ELSE Append(c, e)
  IN  [r EXCEPT !.chunks[r.last] = Write(@), !.fill = @ + 1]

\* The place of the newest entry: its chunk, and where in it.
Back(s) == <<s.last, s.fill>>

\* How many entries an iterator finds in a chunk: it doubles its own size.
BlockSize(s, i) == IF i = s.last THEN s.fill ELSE initialSize * 2 ^ (i - 1)

\* The places that an iteration visits, in its order, and what it finds there.
Places(s) ==
  FlattenSeq([i \in 1 .. s.last |-> [n \in 1 .. BlockSize(s, i) |-> <<i, n>>]])
At(s, place) == s.chunks[place[1]][place[2]]
Items(s) == LET ps == Places(s) IN [n \in DOMAIN ps |-> At(s, ps[n])]

-----------------------------------------------------------------------------
(* PartitionedDeque: of a partition, the entries of each chunk. *)

\* 64 - clzll(n), the bits of n.
BitLength(n) == CHOOSE b \in 1 .. n : 2 ^ (b - 1) <= n /\ n < 2 ^ b

\* postConstruct(nrPartitions)
NewDeque(nrPartitions) ==
  [shift |-> HashBits - BitLength(nrPartitions),
   partitions |-> [p \in 0 .. 2 ^ BitLength(nrPartitions) - 1 |-> <<>>]]

\* The upper bits of a hash.
PartitionNr(d, h) == h \div 2 ^ d.shift

\* Partition::push_back
PushBack(part, e) ==
  IF part = <<>> \/ Len(Last(part)) = chunkSize
  THEN Append(part, <<e>>)
  ELSE [part EXCEPT ![Len(part)] = Append(@, e)]

\* push_back
PushBackHash(d, e, h) == [d EXCEPT !.partitions[PartitionNr(d, h)] = PushBack(@, e)]

\* Partition::size: all chunks but the last are taken to be full.
SizeOfChunk(part, n) == IF n = Len(part) THEN Len(part[n]) ELSE chunkSize

\* What a loop over the chunks of a partition finds.
PartitionItems(part) ==
  FlattenSeq([n \in DOMAIN part |-> [i \in 1 .. SizeOfChunk(part, n) |-> part[n][i]]])
=============================================================================
