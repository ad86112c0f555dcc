---------------------------- MODULE NaturalFacts ----------------------------
(***************************************************************************)
(* Facts about natural numbers that the proofs about several components    *)
(* need: induction, in the form of a set that holds 0 and all successors,  *)
(* and how large Hashmap::setSize makes a table.                           *)
(*                                                                         *)
(* The least element of a set of numbers comes from the well-foundedness   *)
(* of strict inclusion: the shortest of the intervals that end in the set. *)
(***************************************************************************)
EXTENDS Hashmap, FiniteSets, FiniteSetTheorems, TLAPS

\* A set of numbers has a least element.
LEMMA LeastElement ==
  ASSUME NEW T \in SUBSET Nat, T # {}
  PROVE  \E x \in T : \A y \in T : x <= y
<1>1. PICK x \in T : TRUE
  OBVIOUS
<1>2. x \in Nat
  BY <1>1
<1> DEFINE Up == {y \in T : y <= x}
           Spans == {0 .. y : y \in Up}
<1>3. IsFiniteSet(0 .. x)
  BY <1>2, FS_Interval
<1>4. Spans \in SUBSET FiniteSubsetsOf(0 .. x)
  <2>1. FiniteSubsetsOf(0 .. x) = SUBSET (0 .. x)
    BY <1>3, FS_FiniteSubsetsOfFinite
  <2>2. \A y \in Up : 0 .. y \in SUBSET (0 .. x)
    BY <1>2
  <2> QED
    BY <2>1, <2>2
<1>5. Spans # {}
  BY <1>1, <1>2
<1>6. PICK U \in Spans : \A V \in Spans : ~(<<V, U>> \in StrictSubsetOrdering(0 .. x))
  <2> HIDE DEF Spans
  <2> QED
    BY <1>4, <1>5, FS_StrictSubsetOrderingWellFounded, WFMin
<1>7. PICK m \in Up : U = 0 .. m
  OBVIOUS
<1>8. \A y \in Up : ~(y < m)
  <2> SUFFICES ASSUME NEW y \in Up, y < m
               PROVE  FALSE
    OBVIOUS
  <2>1. 0 .. y \in Spans
    OBVIOUS
  <2>2. /\ 0 .. y \subseteq 0 .. m /\ 0 .. m \subseteq 0 .. x
        /\ m \in 0 .. m /\ m \notin 0 .. y
    BY <1>2, <1>7
  <2>3. <<0 .. y, 0 .. m>> \in StrictSubsetOrdering(0 .. x)
    BY <2>2 DEF StrictSubsetOrdering
  <2> QED
    BY <1>6, <1>7, <2>1, <2>3
<1> QED
  BY <1>2, <1>7, <1>8

\* Induction: what holds of 0 and of every successor holds of all numbers.
LEMMA SetInduction ==
  ASSUME NEW S, 0 \in S, \A n \in Nat : n \in S => n + 1 \in S
  PROVE  Nat \subseteq S
<1> SUFFICES ASSUME Nat \ S # {}
             PROVE  FALSE
  OBVIOUS
<1>1. PICK m \in Nat \ S : \A y \in Nat \ S : m <= y
  BY LeastElement
<1>2. m # 0 /\ m - 1 \in Nat
  BY <1>1
<1>3. m - 1 \in S
  BY <1>1, <1>2
<1> QED
  BY <1>1, <1>2, <1>3

\* A function that starts with `a` and goes on by `h`.
Unfolds(f, a, h) == f[0] = a /\ \A n \in Nat : f[n + 1] = h[<<n, f[n]>>]

\* A function may be defined by what follows each of its values: the recursive
\* definitions f[n] of the modules have a value, and it is what they say.
LEMMA Unfolding ==
  ASSUME NEW S, NEW a \in S, NEW h \in [Nat \X S -> S]
  PROVE  \E f \in [Nat -> S] : Unfolds(f, a, h)
<1> DEFINE Steps(g, n) == g[0] = a /\ \A k \in 0 .. n - 1 : g[k + 1] = h[<<k, g[k]>>]
           Reached == {n \in Nat : \E g \in [0 .. n -> S] : Steps(g, n)}
<1>1. 0 \in Reached
  <2> DEFINE g == [k \in 0 .. 0 |-> a]
  <2>1. g \in [0 .. 0 -> S] /\ Steps(g, 0)
    OBVIOUS
  <2> QED
    BY <2>1
<1>2. ASSUME NEW n \in Nat, n \in Reached
      PROVE  n + 1 \in Reached
  <2>1. PICK g \in [0 .. n -> S] : Steps(g, n)
    BY <1>2
  <2> DEFINE e == [k \in 0 .. n + 1 |-> IF k <= n THEN g[k] ELSE h[<<n, g[n]>>]]
  <2>2. h[<<n, g[n]>>] \in S
    OBVIOUS
  <2>3. e \in [0 .. n + 1 -> S]
    BY <2>2
  <2>4. /\ \A k \in 0 .. n : e[k] = g[k]
        /\ e[n + 1] = h[<<n, g[n]>>]
    OBVIOUS
  <2> HIDE DEF e
  <2>5. Steps(e, n + 1)
    <3>1. e[0] = a
      BY <2>1, <2>4
    <3>2. ASSUME NEW k \in 0 .. n
          PROVE  e[k + 1] = h[<<k, e[k]>>]
      <4>1. CASE k = n
        BY <2>4, <4>1
      <4>2. CASE k # n
        <5>1. k \in 0 .. n - 1 /\ k + 1 \in 0 .. n
          BY <4>2
        <5> QED
          BY <2>1, <2>4, <5>1
      <4> QED
        BY <4>1, <4>2
    <3> QED
      BY <3>1, <3>2
  <2> QED
    BY <2>3, <2>5
<1>3. Nat \subseteq Reached
  <2> HIDE DEF Reached
  <2> QED
    BY <1>1, <1>2, SetInduction
\* Two of them are the same as far as they go.
<1>4. ASSUME NEW m \in Nat, NEW n \in Nat, NEW e, NEW g, Steps(e, m), Steps(g, n)
      PROVE  \A k \in Nat : k <= m /\ k <= n => e[k] = g[k]
  <2> DEFINE Same == {k \in Nat : k <= m /\ k <= n => e[k] = g[k]}
  <2>1. 0 \in Same
    BY <1>4
  <2>2. ASSUME NEW k \in Nat, k \in Same
        PROVE  k + 1 \in Same
    <3> SUFFICES ASSUME k + 1 <= m, k + 1 <= n
                 PROVE  e[k + 1] = g[k + 1]
      OBVIOUS
    <3>1. k \in 0 .. m - 1 /\ k \in 0 .. n - 1
      OBVIOUS
    <3>2. e[k] = g[k]
      BY <2>2, <3>1
    <3> QED
      BY <1>4, <3>1, <3>2
  <2>3. Nat \subseteq Same
    <3> HIDE DEF Same
    <3> QED
      BY <2>1, <2>2, SetInduction
  <2> QED
    BY <2>3
<1> DEFINE G(n) == CHOOSE g \in [0 .. n -> S] : Steps(g, n)
           f == [n \in Nat |-> G(n)[n]]
<1>5. \A n \in Nat : G(n) \in [0 .. n -> S] /\ Steps(G(n), n)
  BY <1>3
<1> HIDE DEF G
<1>6. f \in [Nat -> S]
  BY <1>5
<1>7. f[0] = a
  BY <1>5
<1>8. ASSUME NEW n \in Nat
      PROVE  f[n + 1] = h[<<n, f[n]>>]
  <2>1. G(n + 1)[n + 1] = h[<<n, G(n + 1)[n]>>]
    BY <1>5
  <2>2. G(n + 1)[n] = G(n)[n]
    <3>1. Steps(G(n + 1), n + 1) /\ Steps(G(n), n)
      BY <1>5
    <3> HIDE DEF Steps
    <3>2. n + 1 \in Nat /\ n <= n + 1
      OBVIOUS
    <3> QED
      BY <1>4, <3>1, <3>2
  <2> QED
    BY <2>1, <2>2
<1> QED
  BY <1>6, <1>7, <1>8 DEF Unfolds

\* A power of two outgrows its exponent, as there are 2 ^ n subsets of 1 .. n: for
\* each k one subset 1 .. k without n + 1, and one with it.
LEMMA TwiceBelowPower ==
  ASSUME NEW n \in Nat
  PROVE  2 ^ (n + 1) \in Nat /\ 2 * n + 2 <= 2 ^ (n + 1)
<1> DEFINE All == 1 .. n + 1
           f == [k \in 0 .. 2 * n + 1 |-> IF k <= n THEN 1 .. k ELSE (1 .. k - n - 1) \cup {n + 1}]
<1>1. IsFiniteSet(All) /\ Cardinality(All) = n + 1
  BY FS_Interval
<1>2. IsFiniteSet(SUBSET All) /\ Cardinality(SUBSET All) = 2 ^ (n + 1)
  BY <1>1, FS_SUBSET
<1>3. f \in Injection(0 .. 2 * n + 1, SUBSET All)
  <2>1. f \in [0 .. 2 * n + 1 -> SUBSET All]
    OBVIOUS
  <2>2. ASSUME NEW j \in 0 .. 2 * n + 1, NEW k \in 0 .. 2 * n + 1, j < k
        PROVE  f[j] # f[k]
    <3>1. CASE k <= n
      BY <2>2, <3>1
    <3>2. CASE j <= n /\ k > n
      BY SMTT(30), <2>2, <3>2
    <3>3. CASE j > n
      <4>1. k - n - 1 \in f[k] /\ k - n - 1 \notin f[j]
        BY <2>2, <3>3
      <4> QED
        BY <4>1
    <3> QED
      BY <3>1, <3>2, <3>3
  <2>3. ASSUME NEW j \in 0 .. 2 * n + 1, NEW k \in 0 .. 2 * n + 1, f[j] = f[k]
        PROVE  j = k
    <3> HIDE DEF f
    <3>1. j \in Int /\ k \in Int
      OBVIOUS
    <3>2. ~(j < k) /\ ~(k < j)
      BY <2>2, <2>3
    <3> QED
      BY <3>1, <3>2
  <2> QED
    BY <2>1, <2>3 DEF Injection, IsInjective
<1>4. Cardinality(0 .. 2 * n + 1) = 2 * n + 2
  BY FS_Interval
<1> HIDE DEF f, All
<1>5. Cardinality(0 .. 2 * n + 1) <= Cardinality(SUBSET All)
  BY <1>2, <1>3, FS_Injection
<1>6. Cardinality(SUBSET All) \in Nat
  BY <1>2, FS_CardinalityType
<1> QED
  BY <1>2, <1>4, <1>5, <1>6
\* Hashmap::setSize (Hashmap.hpp) leaves room for one more entry than it is asked
\* for, whatever the number.
LEMMA CapacityAbove ==
  ASSUME NEW n \in Nat \ {0}
  PROVE  CapacityFor(n) \in Nat /\ CapacityFor(n) > n
<1> DEFINE fits == {c \in {2 ^ x : x \in 1 .. n + 1} : c > n /\ 7 * c >= 10 * n}
<1>1. 2 ^ (n + 1) \in fits
  BY TwiceBelowPower
<1>2. fits \in SUBSET Nat
  <2> SUFFICES ASSUME NEW x \in 1 .. n + 1
               PROVE  2 ^ x \in Nat
    OBVIOUS
  <2>1. x - 1 \in Nat /\ (x - 1) + 1 = x
    OBVIOUS
  <2> QED
    BY <2>1, TwiceBelowPower
<1>3. PICK c \in fits : \A d \in fits : c <= d
  <2> HIDE DEF fits
  <2> QED
    BY <1>1, <1>2, LeastElement
<1>4. CapacityFor(n) = CHOOSE e \in fits : \A d \in fits : e <= d
  BY DEF CapacityFor
<1>5. CapacityFor(n) \in fits
  BY <1>3, <1>4
<1> QED
  BY <1>2, <1>5

-----------------------------------------------------------------------------
(* Powers of two *)

\* Twice as many subsets with one more element: those without it, and with it.
LEMMA PowerDoubles ==
  ASSUME NEW n \in Nat
  PROVE  2 ^ 0 = 1 /\ 2 ^ n \in Nat \ {0} /\ 2 ^ (n + 1) = 2 * 2 ^ n
<1> DEFINE A == SUBSET (1 .. n)
           B == {T \cup {n + 1} : T \in A}
           f == [T \in A |-> T \cup {n + 1}]
<1>1. IsFiniteSet(1 .. n) /\ Cardinality(1 .. n) = n
  BY FS_Interval
<1>2. IsFiniteSet(A) /\ Cardinality(A) = 2 ^ n
  BY <1>1, FS_SUBSET
<1>3. f \in Bijection(A, B)
  <2>1. f \in [A -> B]
    OBVIOUS
  <2>2. ASSUME NEW T \in A, NEW U \in A, f[T] = f[U]
        PROVE  T = U
    <3>1. T \cup {n + 1} = U \cup {n + 1}
      BY <2>2
    <3>2. n + 1 \notin T /\ n + 1 \notin U
      OBVIOUS
    <3> QED
      BY <3>1, <3>2
  <2>3. \A b \in B : \E T \in A : f[T] = b
    OBVIOUS
  <2> QED
    BY <2>1, <2>2, <2>3 DEF Bijection, Injection, IsInjective, Surjection
<1>4. IsFiniteSet(B) /\ Cardinality(B) = 2 ^ n
  BY <1>2, <1>3, FS_Bijection DEF ExistsBijection
<1>5. A \cap B = {} /\ SUBSET (1 .. n + 1) = A \cup B
  <2>1. \A b \in B : n + 1 \in b
    OBVIOUS
  <2>2. \A a \in A : n + 1 \notin a
    OBVIOUS
  <2>3. ASSUME NEW T \in SUBSET (1 .. n + 1)
        PROVE  T \in A \cup B
    <3>1. CASE n + 1 \in T
      <4>1. T \ {n + 1} \in A /\ T = (T \ {n + 1}) \cup {n + 1}
        BY <3>1
      <4> QED
        BY <4>1
    <3>2. CASE n + 1 \notin T
      BY <3>2
    <3> QED
      BY <3>1, <3>2
  <2>4. A \subseteq SUBSET (1 .. n + 1) /\ B \subseteq SUBSET (1 .. n + 1)
    <3>1. 1 .. n \subseteq 1 .. n + 1 /\ n + 1 \in 1 .. n + 1
      OBVIOUS
    <3> QED
      BY <3>1
  <2> HIDE DEF A, B
  <2> QED
    BY <2>1, <2>2, <2>3, <2>4
<1>6. Cardinality(SUBSET (1 .. n + 1)) = 2 ^ (n + 1)
  <2>1. IsFiniteSet(1 .. n + 1) /\ Cardinality(1 .. n + 1) = n + 1
    BY FS_Interval
  <2> QED
    BY <2>1, FS_SUBSET
<1>7. 2 ^ n \in Nat \ {0}
  <2>1. {} \in A
    OBVIOUS
  <2> QED
    BY <1>2, <2>1, FS_CardinalityType, FS_EmptySet
<1>8. 2 ^ (n + 1) = 2 ^ n + 2 ^ n
  <2> HIDE DEF A, B
  <2>1. Cardinality(A \cup B) = Cardinality(A) + Cardinality(B) - Cardinality(A \cap B)
    BY <1>2, <1>4, FS_Union
  <2>2. Cardinality(A \cap B) = 0
    BY <1>5, FS_EmptySet
  <2>3. 2 ^ (n + 1) = Cardinality(A \cup B)
    BY <1>5, <1>6
  <2> QED
    BY <1>2, <1>4, <1>7, <2>1, <2>2, <2>3
<1>9. 2 ^ 0 = 1
  <2>1. Cardinality(SUBSET {}) = 2 ^ Cardinality({})
    BY FS_EmptySet, FS_SUBSET
  <2>2. SUBSET {} = {{}}
    OBVIOUS
  <2> QED
    BY <2>1, <2>2, FS_EmptySet, FS_Singleton
<1> QED
  BY <1>7, <1>8, <1>9

\* The exponents of a product add up.
LEMMA PowerAdds ==
  ASSUME NEW m \in Nat, NEW n \in Nat
  PROVE  2 ^ (m + n) = 2 ^ m * 2 ^ n
<1> DEFINE S == {k \in Nat : 2 ^ (m + k) = 2 ^ m * 2 ^ k}
<1>1. 0 \in S
  BY PowerDoubles
<1>2. ASSUME NEW k \in Nat, k \in S
      PROVE  k + 1 \in S
  <2>1. /\ 2 ^ k \in Nat /\ 2 ^ (k + 1) = 2 * 2 ^ k
        /\ 2 ^ m \in Nat
        /\ 2 ^ ((m + k) + 1) = 2 * 2 ^ (m + k)
    BY PowerDoubles
  <2>2. (m + k) + 1 = m + (k + 1)
    OBVIOUS
  <2>3. \A x, y, z \in Nat : z = x * y => 2 * z = x * (2 * y)
    OBVIOUS
  <2>4. 2 ^ (m + k) = 2 ^ m * 2 ^ k
    BY <1>2
  <2>5. 2 ^ (m + k) \in Nat
    BY PowerDoubles
  <2> QED
    BY <2>1, <2>2, <2>3, <2>4, <2>5
<1>3. Nat \subseteq S
  <2> HIDE DEF S
  <2> QED
    BY <1>1, <1>2, SetInduction
<1> QED
  BY <1>3

-----------------------------------------------------------------------------
(* Sums of numbers f[1], f[2], ... *)

Sums(f) ==
  LET sum[n \in Nat] == IF n = 0 THEN 0 ELSE sum[n - 1] + f[n]
  IN  sum

LEMMA SumsFacts ==
  ASSUME NEW f \in [Nat -> Nat]
  PROVE  /\ Sums(f) \in [Nat -> Nat] /\ Sums(f)[0] = 0
         /\ \A n \in Nat : Sums(f)[n + 1] = Sums(f)[n] + f[n + 1]
<1> DEFINE Body(s) == [n \in Nat |-> IF n = 0 THEN 0 ELSE s[n - 1] + f[n]]
           h == [x \in Nat \X Nat |-> x[2] + f[x[1] + 1]]
<1>1. PICK s \in [Nat -> Nat] : Unfolds(s, 0, h)
  <2>1. h \in [Nat \X Nat -> Nat]
    OBVIOUS
  <2> QED
    BY <2>1, Unfolding
<1>2. s = Body(s)
  <2>1. s[0] = 0 /\ \A n \in Nat : s[n + 1] = s[n] + f[n + 1]
    BY <1>1 DEF Unfolds
  <2>2. ASSUME NEW n \in Nat
        PROVE  s[n] = Body(s)[n]
    <3>1. CASE n = 0
      BY <2>1, <3>1
    <3>2. CASE n # 0
      <4>1. n - 1 \in Nat /\ (n - 1) + 1 = n
        BY <3>2
      <4> QED
        BY <2>1, <3>2, <4>1
    <3> QED
      BY <3>1, <3>2
  <2> QED
    BY <2>2
<1>3. Sums(f) = Body(Sums(f))
  <2>1. Sums(f) = CHOOSE e : e = Body(e)
    BY DEF Sums
  <2> HIDE DEF Body
  <2> QED
    BY <1>2, <2>1
<1>4. Sums(f)[0] = 0
  BY <1>3
<1>5. ASSUME NEW n \in Nat
      PROVE  Sums(f)[n + 1] = Sums(f)[n] + f[n + 1]
  <2>1. n + 1 \in Nat /\ n + 1 # 0 /\ (n + 1) - 1 = n
    OBVIOUS
  <2> QED
    BY <1>3, <2>1
<1>6. \A n \in Nat : Sums(f)[n] \in Nat
  <2> DEFINE S == {n \in Nat : Sums(f)[n] \in Nat}
  <2>1. 0 \in S
    BY <1>4
  <2>2. \A n \in Nat : n \in S => n + 1 \in S
    BY <1>5
  <2>3. Nat \subseteq S
    <3> HIDE DEF S
    <3> QED
      BY <2>1, <2>2, SetInduction
  <2> QED
    BY <2>3
<1>7. Sums(f) \in [Nat -> Nat]
  <2>1. Sums(f) = [n \in Nat |-> Sums(f)[n]]
    BY <1>3
  <2> QED
    BY <1>6, <2>1
<1> QED
  BY <1>4, <1>5, <1>7

\* Only the first n numbers count.
LEMMA SumsSame ==
  ASSUME NEW f \in [Nat -> Nat], NEW g \in [Nat -> Nat], NEW n \in Nat,
         \A k \in 1 .. n : f[k] = g[k]
  PROVE  Sums(f)[n] = Sums(g)[n]
<1> DEFINE S == {k \in Nat : k <= n => Sums(f)[k] = Sums(g)[k]}
<1>1. 0 \in S
  BY SumsFacts
<1>2. ASSUME NEW k \in Nat, k \in S
      PROVE  k + 1 \in S
  <2> SUFFICES ASSUME k + 1 <= n
               PROVE  Sums(f)[k + 1] = Sums(g)[k + 1]
    OBVIOUS
  <2>1. Sums(f)[k] = Sums(g)[k] /\ f[k + 1] = g[k + 1]
    BY <1>2
  <2>2. Sums(f)[k + 1] = Sums(f)[k] + f[k + 1]
    BY SumsFacts
  <2>3. Sums(g)[k + 1] = Sums(g)[k] + g[k + 1]
    BY SumsFacts
  <2> QED
    BY <2>1, <2>2, <2>3
<1>3. Nat \subseteq S
  <2> HIDE DEF S
  <2> QED
    BY <1>1, <1>2, SetInduction
<1> QED
  BY <1>3

\* Two sums add up.
LEMMA SumsPlus ==
  ASSUME NEW e \in [Nat -> Nat], NEW f \in [Nat -> Nat], NEW g \in [Nat -> Nat], NEW n \in Nat,
         \A k \in 1 .. n : e[k] = f[k] + g[k]
  PROVE  Sums(e)[n] = Sums(f)[n] + Sums(g)[n]
<1> DEFINE S == {k \in Nat : k <= n => Sums(e)[k] = Sums(f)[k] + Sums(g)[k]}
<1>1. 0 \in S
  <2>1. Sums(e)[0] = 0
    BY SumsFacts
  <2>2. Sums(f)[0] = 0
    BY SumsFacts
  <2>3. Sums(g)[0] = 0
    BY SumsFacts
  <2> QED
    BY <2>1, <2>2, <2>3
<1>2. ASSUME NEW k \in Nat, k \in S
      PROVE  k + 1 \in S
  <2> SUFFICES ASSUME k + 1 <= n
               PROVE  Sums(e)[k + 1] = Sums(f)[k + 1] + Sums(g)[k + 1]
    OBVIOUS
  <2>1. Sums(e)[k] = Sums(f)[k] + Sums(g)[k] /\ e[k + 1] = f[k + 1] + g[k + 1]
    BY <1>2
  <2>2. Sums(e)[k + 1] = Sums(e)[k] + e[k + 1]
    BY SumsFacts
  <2>3. Sums(f)[k + 1] = Sums(f)[k] + f[k + 1] /\ Sums(f)[k] \in Nat
    BY SumsFacts
  <2>4. Sums(g)[k + 1] = Sums(g)[k] + g[k + 1] /\ Sums(g)[k] \in Nat
    BY SumsFacts
  <2>5. f[k + 1] \in Nat /\ g[k + 1] \in Nat
    OBVIOUS
  <2> QED
    BY <2>1, <2>2, <2>3, <2>4, <2>5
<1>3. Nat \subseteq S
  <2> HIDE DEF S
  <2> QED
    BY <1>1, <1>2, SetInduction
<1> QED
  BY <1>3

\* A sum of numbers of which at most one is not 0.
LEMMA SumsOne ==
  ASSUME NEW f \in [Nat -> Nat], NEW n \in Nat, NEW i \in Nat \ {0},
         \A k \in 1 .. n : k # i => f[k] = 0
  PROVE  Sums(f)[n] = IF i <= n THEN f[i] ELSE 0
<1> DEFINE S == {k \in Nat : k <= n => Sums(f)[k] = IF i <= k THEN f[i] ELSE 0}
<1>1. 0 \in S
  BY SumsFacts
<1>2. ASSUME NEW k \in Nat, k \in S
      PROVE  k + 1 \in S
  <2> SUFFICES ASSUME k + 1 <= n
               PROVE  Sums(f)[k + 1] = IF i <= k + 1 THEN f[i] ELSE 0
    OBVIOUS
  <2>1. Sums(f)[k] = IF i <= k THEN f[i] ELSE 0
    BY <1>2
  <2>2. k + 1 # i => f[k + 1] = 0
    OBVIOUS
  <2>3. Sums(f)[k + 1] = Sums(f)[k] + f[k + 1] /\ f[k + 1] \in Nat /\ f[i] \in Nat
    BY SumsFacts
  <2> QED
    BY <2>1, <2>2, <2>3
<1>3. Nat \subseteq S
  <2> HIDE DEF S
  <2> QED
    BY <1>1, <1>2, SetInduction
<1> QED
  BY <1>3

\* A sum is not less than any of its numbers.
LEMMA SumsAbove ==
  ASSUME NEW f \in [Nat -> Nat], NEW n \in Nat, NEW i \in 1 .. n
  PROVE  f[i] <= Sums(f)[n]
<1> DEFINE S == {k \in Nat : i <= k => f[i] <= Sums(f)[k]}
<1>1. 0 \in S
  OBVIOUS
<1>2. ASSUME NEW k \in Nat, k \in S
      PROVE  k + 1 \in S
  <2> SUFFICES ASSUME i <= k + 1
               PROVE  f[i] <= Sums(f)[k + 1]
    OBVIOUS
  <2>1. /\ Sums(f)[k + 1] = Sums(f)[k] + f[k + 1] /\ Sums(f)[k] \in Nat
        /\ f[k + 1] \in Nat /\ f[i] \in Nat
    BY SMTT(30), SumsFacts
  <2>2. i <= k => f[i] <= Sums(f)[k]
    BY <1>2
  <2>3. i <= k \/ i = k + 1
    OBVIOUS
  <2> QED
    BY <2>1, <2>2, <2>3
<1>3. Nat \subseteq S
  <2> HIDE DEF S
  <2> QED
    BY <1>1, <1>2, SetInduction
<1> QED
  BY <1>3

LEMMA SumsChange ==
  ASSUME NEW a \in [Nat -> Nat], NEW b \in [Nat -> Nat], NEW n \in Nat, NEW i \in 1 .. n,
         \A j \in 1 .. n : j # i => a[j] = b[j]
  PROVE  Sums(b)[n] + a[i] = Sums(a)[n] + b[i]
<1>1. PICK u : u = [j \in Nat |-> IF j = i THEN b[i] ELSE 0]
  OBVIOUS
<1>2. PICK v : v = [j \in Nat |-> IF j = i THEN a[i] ELSE 0]
  OBVIOUS
<1>3. PICK w : w = [j \in Nat |-> b[j] + v[j]]
  OBVIOUS
<1>4. i \in Nat \ {0} /\ i <= n /\ a[i] \in Nat /\ b[i] \in Nat
  OBVIOUS
<1>5. /\ u \in [Nat -> Nat] /\ u[i] = b[i] /\ \A j \in 1 .. n : j # i => u[j] = 0
  BY <1>1, <1>4
<1>6. /\ v \in [Nat -> Nat] /\ v[i] = a[i] /\ \A j \in 1 .. n : j # i => v[j] = 0
  BY <1>2, <1>4
<1>7. w \in [Nat -> Nat]
  BY <1>3, <1>6
<1>8. \A j \in 1 .. n : w[j] = b[j] + v[j]
  BY <1>3
<1>9. \A j \in 1 .. n : w[j] = a[j] + u[j]
  <2>1. ASSUME NEW j \in 1 .. n
        PROVE  w[j] = a[j] + u[j]
    <3>1. a[j] \in Nat /\ b[j] \in Nat
      OBVIOUS
    <3>2. CASE j = i
      BY <1>4, <1>5, <1>6, <1>8, <3>2
    <3>3. CASE j # i
      <4>1. w[j] = b[j] + v[j] /\ u[j] = 0 /\ v[j] = 0 /\ a[j] = b[j]
        BY <1>5, <1>6, <1>8, <3>3
      <4> QED
        BY <3>1, <4>1
    <3> QED
      BY <3>2, <3>3
  <2> QED
    BY <2>1
<1>10. Sums(w)[n] = Sums(b)[n] + Sums(v)[n]
  BY <1>6, <1>7, <1>8, SumsPlus
<1>11. Sums(w)[n] = Sums(a)[n] + Sums(u)[n]
  BY <1>5, <1>7, <1>9, SumsPlus
<1>12. Sums(u)[n] = b[i]
  BY <1>4, <1>5, SumsOne
<1>13. Sums(v)[n] = a[i]
  BY <1>4, <1>6, SumsOne
<1> QED
  BY <1>10, <1>11, <1>12, <1>13
=============================================================================
