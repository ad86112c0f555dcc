------------------------------ MODULE Hashmap ------------------------------
(* Hashmap::setSize: how large the directory of runtime::Hashmap is made. *)
EXTENDS Integers

\* A power of two above n, large enough for a load factor of 0.7.
CapacityFor(n) ==
  LET fits == {c \in {2 ^ x : x \in 1 .. n + 1} : c > n /\ 7 * c >= 10 * n}
  IN  CHOOSE c \in fits : \A d \in fits : c <= d

\* What setSize returns: the number of entries that the directory is for.
MaxFillFor(capacity) == (7 * capacity) \div 10
=============================================================================
