---------------------------- MODULE HashmapSmall ----------------------------
(***************************************************************************)
(* runtime::HashmapSmall: the chained map that the partitioning primitives *)
(* count with.  Entries lie one after the other in `storage`; a slot of    *)
(* the directory starts a chain, newest entry first, kept here as the      *)
(* sequence of the entries' places.  The directory grows when 70 of 100    *)
(* slots' worth of entries are stored, up to the limit of the constructor. *)
(***************************************************************************)
EXTENDS Integers, Sequences, SequencesExt

CONSTANT startCapacity   \* slots of a new map, at most: 256 in the code

ASSUME HashmapSmallAssumption == startCapacity \in Nat \ {0}

\* The constructor: how many slots are allocated for a map of `size` entries.
DirectorySize(size) ==
  LET power == CHOOSE c \in {2 ^ x : x \in 1 .. size + 1} : size < c /\ c <= 2 * size
  IN  IF 7 * power < 10 * size THEN 2 * power ELSE power

EmptyChains(capacity) == [slot \in 0 .. capacity - 1 |-> <<>>]

NewMap(size) ==
  LET capacity == IF startCapacity < DirectorySize(size) THEN startCapacity
                  ELSE DirectorySize(size)
  IN  [capacity |-> capacity, storage |-> <<>>, chains |-> EmptyChains(capacity)]

\* findFirst: the place of the first entry in the chain of a hash whose key
\* the caller's comparison accepts, or 0.  The hashes are not compared.
FindFirst(map, hash, accepted) ==
  LET chain == map.chains[hash % map.capacity]
      n == SelectInSeq(chain, LAMBDA place : map.storage[place].key \in accepted)
  IN  IF n = 0 THEN 0 ELSE chain[n]

\* The chains after all entries were inserted again, in the order of storage.
Reinserted(storage, capacity) ==
  [slot \in 0 .. capacity - 1 |->
     Reverse(SelectSeq([n \in DOMAIN storage |-> n],
                       LAMBDA place : storage[place].hash % capacity = slot))]

\* insert: the new entry heads its chain; then the directory grows if need be.
Insert(map, key, hash, value) ==
  LET storage == Append(map.storage, [key |-> key, hash |-> hash, value |-> value])
      slot == hash % map.capacity
  IN  IF Len(storage) > (7 * map.capacity) \div 10
      THEN [capacity |-> 2 * map.capacity, storage |-> storage,
            chains |-> Reinserted(storage, 2 * map.capacity)]
      ELSE [map EXCEPT !.storage = storage, !.chains[slot] = <<Len(storage)>> \o @]

\* clear: slot by slot for the hashes given, unless many slots are in use.
ClearMap(map, hashes) ==
  [map EXCEPT !.storage = <<>>,
     !.chains = IF 10 * Len(map.storage) < 3 * map.capacity
                THEN [slot \in DOMAIN map.chains |->
                        IF \E h \in hashes : h % map.capacity = slot THEN <<>> ELSE map.chains[slot]]
                ELSE EmptyChains(map.capacity)]
=============================================================================
