--------------------------- MODULE GroupByProofs ---------------------------
(***************************************************************************)
(* Proofs about module GroupBy: the answer has each row of each group once *)
(* (AnswerExact), a table finds what its stack holds (EntriesHeld), and the *)
(* last loop finds a spill storage (DequeThere).                           *)
(*                                                                         *)
(* The argument is one of conservation.  A row adds a power of its own to  *)
(* the sum of its group.  What has been added is in the table of a thread, *)
(* in a spill storage, in a task that merges a partition, or in a table of *)
(* the vectorized half whose partition no task has got yet; the rest is in *)
(* rows that no task has got.  These sum up to the whole of the group in   *)
(* every state (Conserved), and at the end all of it is in the spill       *)
(* storages, from which each partition is aggregated once (Done).          *)
(*                                                                         *)
(* Most of the module is what the containers do with values: the first     *)
(* part is about sequences of entries and the sum that they hold for a     *)
(* group (Amount), then come the sums of rows (SumOver), the Stack by      *)
(* chunks (StackOK), sums over threads (Total), the PartitionedDeque       *)
(* (DequeType, InDeque), and the table that aggregates a partition         *)
(* (MergeLoop).  Then there is, for each action, that it keeps the types   *)
(* (...Type), keeps the tables apart (...Apart) and loses no value         *)
(* (...Conserved).                                                         *)
(*                                                                         *)
(* Tables are apart, and values conserved, as long as no two threads have  *)
(* merged into one table at a time (shared); TypeOK holds in any case.     *)
(***************************************************************************)
EXTENDS GroupBy, NaturalFacts, SequenceTheorems, FiniteSetTheorems

-----------------------------------------------------------------------------
(* FlattenSeq *)

\* A function that joins the sequences of s one by one has the result.
LEMMA FlattenIs ==
  ASSUME NEW A, NEW s \in Seq(Seq(A)), NEW g \in [Nat -> Seq(A)],
         g[0] = <<>>, \A i \in 1 .. Len(s) : g[i] = g[i - 1] \o s[i]
  PROVE  FlattenSeq(s) = g[Len(s)]
<1> DEFINE Body(f) == [i \in 1 .. Len(s) |-> IF i = 1 THEN s[i] ELSE f[i - 1] \o s[i]]
           e == [i \in 1 .. Len(s) |-> g[i]]
           f == CHOOSE f : f = Body(f)
<1>1. CASE Len(s) = 0
  <2>1. s = <<>>
    BY <1>1, EmptySeq
  <2> QED
    BY <1>1, <2>1 DEF FlattenSeq
<1>2. CASE Len(s) # 0
  <2>1. Len(s) \in Nat /\ 1 \in 1 .. Len(s) /\ Len(s) \in 1 .. Len(s)
    BY <1>2, LenProperties
  <2>0. g[1] = <<>> \o s[1] /\ s[1] \in Seq(A)
    <3>1. g[1] = g[1 - 1] \o s[1]
      BY <2>1
    <3>2. 1 - 1 = 0
      OBVIOUS
    <3>3. s[1] \in Seq(A)
      BY <2>1, ElementOfSeq
    <3> QED
      BY <3>1, <3>2, <3>3
  <2>2. e = Body(e)
    <3>1. ASSUME NEW i \in 1 .. Len(s)
          PROVE  e[i] = Body(e)[i]
      <4>1. CASE i = 1
        BY <2>0, <4>1, ConcatEmptySeq
      <4>2. CASE i # 1
        <5>1. i - 1 \in 1 .. Len(s)
          BY <4>2
        <5> QED
          BY <4>2, <5>1
      <4> QED
        BY <4>1, <4>2
    <3> QED
      BY <3>1
  <2>3. f = Body(f)
    <3> HIDE DEF Body, e
    <3> QED
      BY <2>2
  <2>4. FlattenSeq(s) = f[Len(s)]
    BY <1>2 DEF FlattenSeq
  <2> DEFINE S == {i \in Nat : i + 1 <= Len(s) => f[i + 1] = g[i + 1]}
  <2>5. 0 \in S
    <3> HIDE DEF f
    <3>1. f[1] = s[1]
      BY <2>1, <2>3
    <3>2. f[1] = g[1]
      BY <2>0, <3>1, ConcatEmptySeq
    <3> QED
      BY <3>2
  <2>6. ASSUME NEW i \in Nat, i \in S
        PROVE  i + 1 \in S
    <3> SUFFICES ASSUME (i + 1) + 1 <= Len(s)
                 PROVE  f[(i + 1) + 1] = g[(i + 1) + 1]
      OBVIOUS
    <3> DEFINE j == (i + 1) + 1
    <3>1. j \in 1 .. Len(s) /\ j # 1 /\ j - 1 = i + 1
      BY <2>1
    <3>2. f[j] = f[j - 1] \o s[j]
      <4> HIDE DEF f, j
      <4> QED
        BY <2>3, <3>1
    <3>3. f[i + 1] = g[i + 1]
      BY <2>1, <2>6
    <3>4. g[j] = g[j - 1] \o s[j]
      BY <3>1
    <3> HIDE DEF f, j
    <3>5. f[j] = g[j]
      BY <3>1, <3>2, <3>3, <3>4
    <3> QED
      BY <3>5 DEF j
  <2>7. Nat \subseteq S
    <3> HIDE DEF S
    <3> QED
      BY <2>5, <2>6, SetInduction
  <2>8. Len(s) - 1 \in Nat /\ (Len(s) - 1) + 1 = Len(s)
    BY <2>1
  <2> HIDE DEF f
  <2>9. f[(Len(s) - 1) + 1] = g[(Len(s) - 1) + 1]
    <3>1. Len(s) - 1 \in S
      BY <2>7, <2>8
    <3> QED
      BY <2>1, <2>8, <3>1
  <2> QED
    BY <2>4, <2>8, <2>9
<1> QED
  BY <1>1, <1>2

LEMMA FlattenFacts ==
  ASSUME NEW A, NEW s \in Seq(Seq(A)), NEW t \in Seq(A)
  PROVE  /\ FlattenSeq(s) \in Seq(A)
         /\ FlattenSeq(Append(s, t)) = FlattenSeq(s) \o t
<1> DEFINE u == Append(s, t)
           h == [x \in Nat \X Seq(A) |->
                   IF x[1] + 1 \in 1 .. Len(u) THEN x[2] \o u[x[1] + 1] ELSE x[2]]
<1>1. u \in Seq(Seq(A)) /\ Len(u) = Len(s) + 1 /\ Len(s) \in Nat
  BY AppendProperties, LenProperties
<1>2. /\ u[Len(s) + 1] = t
      /\ \A i \in 1 .. Len(s) : u[i] = s[i]
  BY AppendProperties
<1> HIDE DEF u
<1>3. h \in [Nat \X Seq(A) -> Seq(A)]
  <2>1. ASSUME NEW x \in Nat \X Seq(A)
        PROVE  h[x] \in Seq(A)
    <3>1. CASE x[1] + 1 \in 1 .. Len(u)
      <4>1. u[x[1] + 1] \in Seq(A) /\ x[2] \in Seq(A)
        BY <1>1, <3>1, ElementOfSeq
      <4> QED
        BY <3>1, <4>1, ConcatProperties
    <3>2. CASE x[1] + 1 \notin 1 .. Len(u)
      BY <3>2
    <3> QED
      BY <3>1, <3>2
  <2> QED
    BY <2>1
<1>4. PICK g \in [Nat -> Seq(A)] : Unfolds(g, <<>>, h)
  BY <1>3, Unfolding, EmptySeq
<1>5. g[0] = <<>>
  BY <1>4 DEF Unfolds
<1>6. ASSUME NEW i \in 1 .. Len(u)
      PROVE  g[i] = g[i - 1] \o u[i]
  <2>1. i - 1 \in Nat /\ (i - 1) + 1 = i
    BY <1>1
  <2>2. g[(i - 1) + 1] = h[<<i - 1, g[i - 1]>>]
    BY <1>4, <2>1 DEF Unfolds
  <2>3. <<i - 1, g[i - 1]>> \in Nat \X Seq(A)
    BY <2>1
  <2> QED
    BY <2>1, <2>2, <2>3
<1>7. FlattenSeq(u) = g[Len(u)]
  BY <1>1, <1>5, <1>6, FlattenIs
<1>8. FlattenSeq(s) = g[Len(s)]
  <2>1. ASSUME NEW i \in 1 .. Len(s)
        PROVE  g[i] = g[i - 1] \o s[i]
    <3>1. i \in 1 .. Len(u) /\ u[i] = s[i]
      BY <1>1, <1>2
    <3>2. g[i] = g[i - 1] \o u[i]
      BY <1>6, <3>1
    <3> QED
      BY <3>1, <3>2
  <2> QED
    BY <1>5, <2>1, FlattenIs
<1>9. FlattenSeq(s) \in Seq(A)
  BY <1>1, <1>8
<1>10. g[Len(u)] = g[Len(s)] \o t
  <2>1. Len(u) \in 1 .. Len(u) /\ Len(u) - 1 = Len(s)
    BY <1>1
  <2> QED
    BY <1>1, <1>2, <1>6, <2>1
<1> QED
  BY <1>7, <1>8, <1>9, <1>10 DEF u

LEMMA FlattenEmpty == FlattenSeq(<<>>) = <<>>
BY DEF FlattenSeq

-----------------------------------------------------------------------------
(* What the entries of a sequence add up to for a group *)

EntryType == [k : Groups, v : Nat \ {0}]

ValuesFor(es, g) == [i \in Nat |-> IF i \in 1 .. Len(es) /\ es[i].k = g THEN es[i].v ELSE 0]
Amount(es, g) == Sums(ValuesFor(es, g))[Len(es)]

\* What one entry adds.
Share(e, g) == IF e.k = g THEN e.v ELSE 0

LEMMA AmountType ==
  ASSUME NEW es \in Seq(EntryType), NEW g
  PROVE  ValuesFor(es, g) \in [Nat -> Nat] /\ Amount(es, g) \in Nat /\ Len(es) \in Nat
<1>1. Len(es) \in Nat
  BY LenProperties
<1>2. ASSUME NEW i \in 1 .. Len(es)
      PROVE  es[i].v \in Nat
  <2>1. es[i] \in EntryType
    BY ElementOfSeq
  <2> QED
    BY <2>1 DEF EntryType
<1>3. ValuesFor(es, g) \in [Nat -> Nat]
  BY <1>2 DEF ValuesFor
<1> QED
  BY <1>1, <1>3, SumsFacts DEF Amount

LEMMA AmountEmpty ==
  ASSUME NEW g
  PROVE  Amount(<<>>, g) = 0
<1>1. <<>> \in Seq(EntryType) /\ Len(<<>>) = 0
  BY EmptySeq
<1>2. Sums(ValuesFor(<<>>, g))[0] = 0
  BY <1>1, AmountType, SumsFacts
<1> QED
  BY <1>1, <1>2 DEF Amount

LEMMA AmountConcat ==
  ASSUME NEW s \in Seq(EntryType), NEW t \in Seq(EntryType), NEW g
  PROVE  Amount(s \o t, g) = Amount(s, g) + Amount(t, g)
<1> DEFINE u == s \o t
           a == ValuesFor(s, g)
           b == ValuesFor(t, g)
           c == ValuesFor(u, g)
           S == {k \in Nat : k <= Len(t) => Sums(c)[Len(s) + k] = Amount(s, g) + Sums(b)[k]}
<1>1. /\ u \in Seq(EntryType) /\ Len(u) = Len(s) + Len(t)
      /\ Len(s) \in Nat /\ Len(t) \in Nat
      /\ \A i \in 1 .. Len(s) : u[i] = s[i]
      /\ \A i \in 1 .. Len(t) : u[Len(s) + i] = t[i]
  BY ConcatProperties, LenProperties
<1>2. /\ a \in [Nat -> Nat] /\ b \in [Nat -> Nat] /\ c \in [Nat -> Nat]
      /\ Amount(s, g) \in Nat
  BY <1>1, AmountType
<1> HIDE DEF u
<1>3. \A i \in 1 .. Len(s) : c[i] = a[i]
  BY <1>1 DEF ValuesFor
<1>4. \A i \in 1 .. Len(t) : c[Len(s) + i] = b[i]
  BY <1>1 DEF ValuesFor
<1> HIDE DEF a, b, c
<1>5. 0 \in S
  <2>1. Sums(c)[Len(s)] = Sums(a)[Len(s)]
    BY <1>1, <1>2, <1>3, SumsSame
  <2>2. Sums(b)[0] = 0
    BY <1>2, SumsFacts
  <2>3. Len(s) + 0 = Len(s) /\ Amount(s, g) + 0 = Amount(s, g)
    BY <1>1, <1>2
  <2>4. Amount(s, g) = Sums(a)[Len(s)]
    BY DEF Amount, a
  <2> QED
    BY <2>1, <2>2, <2>3, <2>4
<1>6. ASSUME NEW k \in Nat, k \in S
      PROVE  k + 1 \in S
  <2> SUFFICES ASSUME k + 1 <= Len(t)
               PROVE  Sums(c)[Len(s) + (k + 1)] = Amount(s, g) + Sums(b)[k + 1]
    OBVIOUS
  <2>1. Len(s) + k \in Nat /\ Len(s) + (k + 1) = (Len(s) + k) + 1
    BY <1>1
  <2>2. Sums(c)[(Len(s) + k) + 1] = Sums(c)[Len(s) + k] + c[(Len(s) + k) + 1]
    BY <1>2, <2>1, SumsFacts
  <2>3. Sums(b)[k + 1] = Sums(b)[k] + b[k + 1] /\ Sums(b)[k] \in Nat
    BY <1>2, SumsFacts
  <2>4. c[(Len(s) + k) + 1] = b[k + 1] /\ b[k + 1] \in Nat
    BY <1>1, <1>2, <1>4, <2>1
  <2>5. Sums(c)[Len(s) + k] = Amount(s, g) + Sums(b)[k]
    BY <1>1, <1>6
  <2>6. Sums(c)[(Len(s) + k) + 1] = Amount(s, g) + Sums(b)[k + 1]
    <3>1. Amount(s, g) \in Nat
      BY <1>2
    <3> QED
      BY <2>2, <2>3, <2>4, <2>5, <3>1
  <2> QED
    BY <2>1, <2>6
<1>7. Nat \subseteq S
  <2> HIDE DEF S
  <2> QED
    BY <1>5, <1>6, SetInduction
<1>8. Sums(c)[Len(s) + Len(t)] = Amount(s, g) + Sums(b)[Len(t)]
  <2>1. Len(t) \in S
    BY <1>1, <1>7
  <2> QED
    BY <1>1, <2>1
<1> QED
  BY <1>1, <1>8 DEF Amount, b, c, u

LEMMA AmountOne ==
  ASSUME NEW e \in EntryType, NEW g
  PROVE  Amount(<<e>>, g) = Share(e, g)
<1> DEFINE f == ValuesFor(<<e>>, g)
<1>1. <<e>> \in Seq(EntryType) /\ Len(<<e>>) = 1 /\ <<e>>[1] = e
  OBVIOUS
<1>2. f \in [Nat -> Nat]
  BY <1>1, AmountType
<1>3. f[1] = Share(e, g)
  BY <1>1 DEF ValuesFor, Share
<1>4. Sums(f)[0] = 0 /\ Sums(f)[0 + 1] = Sums(f)[0] + f[0 + 1]
  BY <1>2, SumsFacts
<1> HIDE DEF f
<1>5. Sums(f)[1] = f[1]
  BY <1>2, <1>4
<1> QED
  BY <1>1, <1>3, <1>5 DEF Amount, f

LEMMA AmountAppend ==
  ASSUME NEW es \in Seq(EntryType), NEW e \in EntryType, NEW g
  PROVE  Amount(Append(es, e), g) = Amount(es, g) + Share(e, g)
<1>1. Append(es, e) = es \o <<e>>
  BY AppendIsConcat
<1>2. <<e>> \in Seq(EntryType)
  OBVIOUS
<1>3. Amount(es \o <<e>>, g) = Amount(es, g) + Amount(<<e>>, g)
  BY <1>2, AmountConcat
<1> QED
  BY <1>1, <1>3, AmountOne

LEMMA AmountTail ==
  ASSUME NEW es \in Seq(EntryType), es # <<>>, NEW g
  PROVE  Amount(es, g) = Share(Head(es), g) + Amount(Tail(es), g)
<1>1. /\ Head(es) \in EntryType /\ Tail(es) \in Seq(EntryType)
      /\ Len(Tail(es)) = Len(es) - 1 /\ Head(es) = es[1] /\ Len(es) \in Nat
      /\ \A i \in 1 .. Len(Tail(es)) : Tail(es)[i] = es[i + 1]
  BY HeadTailProperties, LenProperties
<1> DEFINE h == <<Head(es)>>
<1>2. h \in Seq(EntryType) /\ Len(h) = 1 /\ h[1] = Head(es)
  BY <1>1
<1> HIDE DEF h
<1>3. es = h \o Tail(es)
  <2> DEFINE t == Tail(es)
             u == h \o t
  <2>0. h \in Seq(EntryType) /\ t \in Seq(EntryType)
    BY <1>1, <1>2
  <2> HIDE DEF t
  <2>1. /\ u \in Seq(EntryType) /\ Len(u) = Len(h) + Len(t)
        /\ \A i \in 1 .. Len(h) + Len(t) : u[i] = IF i <= Len(h) THEN h[i] ELSE t[i - Len(h)]
    BY <2>0, ConcatProperties
  <2> USE DEF t
  <2> HIDE DEF u
  <2>2. Len(u) = Len(es)
    BY <1>1, <1>2, <2>1
  <2>3. ASSUME NEW i \in 1 .. Len(es)
        PROVE  es[i] = u[i]
    <3>1. CASE i = 1
      BY <1>1, <1>2, <2>1, <2>2, <3>1
    <3>2. CASE i # 1
      <4>1. i - 1 \in 1 .. Len(t) /\ (i - 1) + 1 = i /\ ~(i <= Len(h))
        BY <1>1, <1>2, <3>2
      <4>2. u[i] = t[i - 1]
        BY <1>2, <2>1, <2>2, <4>1
      <4> QED
        BY <1>1, <4>1, <4>2
    <3> QED
      BY <3>1, <3>2
  <2> QED
    BY <2>1, <2>2, <2>3, SeqEqual DEF u
<1>4. Amount(h \o Tail(es), g) = Amount(h, g) + Amount(Tail(es), g)
  BY <1>1, <1>2, AmountConcat
<1> QED
  BY <1>1, <1>3, <1>4, AmountOne DEF h

\* An entry that is updated adds more to its group.
LEMMA AmountChanged ==
  ASSUME NEW es \in Seq(EntryType), NEW ds \in Seq(EntryType), NEW i \in 1 .. Len(es),
         NEW v \in Nat, NEW g, Len(ds) = Len(es),
         \A j \in 1 .. Len(es) : j # i => ds[j] = es[j],
         ds[i] = Entry(es[i].k, es[i].v + v)
  PROVE  Amount(ds, g) = Amount(es, g) + (IF es[i].k = g THEN v ELSE 0)
<1> DEFINE a == ValuesFor(es, g)
           b == ValuesFor(ds, g)
           w == IF es[i].k = g THEN v ELSE 0
           c == [j \in Nat |-> IF j = i THEN w ELSE 0]
<1>1. /\ a \in [Nat -> Nat] /\ b \in [Nat -> Nat] /\ Len(es) \in Nat
  BY AmountType
<1>2. c \in [Nat -> Nat] /\ \A j \in Nat : c[j] = IF j = i THEN w ELSE 0
  OBVIOUS
<1>3. es[i] \in EntryType
  BY ElementOfSeq
<1>4. ASSUME NEW j \in 1 .. Len(es)
      PROVE  b[j] = a[j] + c[j]
  <2>1. CASE j # i
    <3>1. b[j] = a[j] /\ c[j] = 0 /\ a[j] \in Nat
      BY <1>1, <2>1 DEF ValuesFor
    <3> QED
      BY <3>1
  <2>2. CASE j = i
    <3>1. ds[i].k = es[i].k /\ ds[i].v = es[i].v + v
      BY DEF Entry
    <3>2. /\ b[i] = IF es[i].k = g THEN es[i].v + v ELSE 0
          /\ a[i] = IF es[i].k = g THEN es[i].v ELSE 0
          /\ c[i] = w
      BY <3>1 DEF ValuesFor
    <3> QED
      BY <2>2, <3>2
  <2> QED
    BY <2>1, <2>2
<1> HIDE DEF a, b, c
<1>5. Sums(b)[Len(es)] = Sums(a)[Len(es)] + Sums(c)[Len(es)]
  BY ZenonT(60), <1>1, <1>2, <1>4, SumsPlus
<1>6. Sums(c)[Len(es)] = IF i <= Len(es) THEN c[i] ELSE 0
  <2>1. i \in Nat \ {0}
    BY <1>1
  <2>2. \A j \in 1 .. Len(es) : j # i => c[j] = 0
    BY <1>1, <1>2
  <2> QED
    BY <1>1, <1>2, <2>1, <2>2, SumsOne
<1>7. i <= Len(es) /\ c[i] = w
  <2>1. i \in Nat /\ i <= Len(es)
    BY <1>1
  <2> QED
    BY <1>2, <2>1
<1> QED
  BY <1>5, <1>6, <1>7 DEF Amount, a, b

\* No two entries are for the same group.
KeysApart(es) == \A i, j \in 1 .. Len(es) : es[i].k = es[j].k => i = j

LEMMA AmountApart ==
  ASSUME NEW es \in Seq(EntryType), NEW i \in 1 .. Len(es), KeysApart(es)
  PROVE  Amount(es, es[i].k) = es[i].v
<1> DEFINE f == ValuesFor(es, es[i].k)
<1>1. f \in [Nat -> Nat] /\ Len(es) \in Nat
  BY AmountType
<1>2. i \in Nat \ {0} /\ i <= Len(es)
  BY <1>1
<1>3. \A j \in 1 .. Len(es) : j # i => f[j] = 0
  BY DEF ValuesFor, KeysApart
<1>4. f[i] = es[i].v
  BY DEF ValuesFor
<1> HIDE DEF f
<1>5. Sums(f)[Len(es)] = IF i <= Len(es) THEN f[i] ELSE 0
  BY <1>1, <1>2, <1>3, SumsOne
<1> QED
  BY <1>2, <1>4, <1>5 DEF Amount, f

\* What is not 0 has an entry, and what has an entry is not 0.
LEMMA AmountPresent ==
  ASSUME NEW es \in Seq(EntryType), NEW g
  PROVE  Amount(es, g) # 0 <=> \E i \in 1 .. Len(es) : es[i].k = g
<1> DEFINE f == ValuesFor(es, g)
<1>1. f \in [Nat -> Nat] /\ Len(es) \in Nat
  BY AmountType
<1>2. ASSUME NEW i \in 1 .. Len(es), es[i].k = g
      PROVE  Amount(es, g) # 0
  <2>1. f[i] = es[i].v
    BY <1>2 DEF ValuesFor
  <2>2. es[i] \in EntryType
    BY ElementOfSeq
  <2>3. f[i] # 0 /\ f[i] \in Nat
    BY <2>1, <2>2 DEF EntryType
  <2> HIDE DEF f
  <2>4. f[i] <= Sums(f)[Len(es)]
    BY <1>1, SumsAbove
  <2>5. Sums(f)[Len(es)] \in Nat
    BY <1>1, SumsFacts
  <2> QED
    BY <2>3, <2>4, <2>5 DEF Amount, f
<1>3. ASSUME \A i \in 1 .. Len(es) : es[i].k # g
      PROVE  Amount(es, g) = 0
  <2>1. \A j \in 1 .. Len(es) : f[j] = 0
    BY <1>3 DEF ValuesFor
  <2>2. f[Len(es) + 1] = 0
    BY <1>1 DEF ValuesFor
  <2> HIDE DEF f
  <2>3. Len(es) + 1 \in Nat \ {0} /\ ~(Len(es) + 1 <= Len(es))
    BY <1>1
  <2>4. Sums(f)[Len(es)] = IF Len(es) + 1 <= Len(es) THEN f[Len(es) + 1] ELSE 0
    BY <1>1, <2>1, <2>3, SumsOne
  <2> QED
    BY <2>3, <2>4 DEF Amount, f
<1> QED
  BY <1>2, <1>3

-----------------------------------------------------------------------------
(* SumOver *)

ValuesOf(S) == [n \in Nat |-> IF n \in 1 .. nrTuples /\ n - 1 \in S THEN Value(n - 1) ELSE 0]

LEMMA ValueType ==
  ASSUME NEW r \in Nat
  PROVE  Value(r) \in Nat \ {0}
<1>1. 2 * r \in Nat
  OBVIOUS
<1> QED
  BY <1>1, PowerDoubles DEF Value

LEMMA ValuesOfType ==
  ASSUME NEW S
  PROVE  ValuesOf(S) \in [Nat -> Nat]
<1>1. nrTuples \in Nat
  BY GroupByAssumption
<1>2. \A n \in 1 .. nrTuples : Value(n - 1) \in Nat
  BY <1>1, ValueType
<1> QED
  BY <1>1, <1>2 DEF ValuesOf

LEMMA SumOverIs ==
  ASSUME NEW S
  PROVE  SumOver(S) = Sums(ValuesOf(S))[nrTuples]
<1> DEFINE Body(f) == [n \in 0 .. nrTuples |->
                         IF n = 0 THEN 0 ELSE f[n - 1] + (IF n - 1 \in S THEN Value(n - 1) ELSE 0)]
           v == ValuesOf(S)
           e == [n \in 0 .. nrTuples |-> Sums(v)[n]]
           f == CHOOSE f : f = Body(f)
<1>1. nrTuples \in Nat
  BY GroupByAssumption
<1>2. /\ Sums(v) \in [Nat -> Nat] /\ Sums(v)[0] = 0
      /\ \A n \in Nat : Sums(v)[n + 1] = Sums(v)[n] + v[n + 1]
  BY ValuesOfType, SumsFacts
<1>3. \A n \in 1 .. nrTuples : v[n] = IF n - 1 \in S THEN Value(n - 1) ELSE 0
  BY <1>1 DEF ValuesOf
<1> HIDE DEF v
<1>4. e = Body(e)
  <2>1. ASSUME NEW n \in 0 .. nrTuples
        PROVE  e[n] = Body(e)[n]
    <3>1. CASE n = 0
      BY <1>2, <3>1
    <3>2. CASE n # 0
      <4>1. n - 1 \in Nat /\ n - 1 \in 0 .. nrTuples /\ (n - 1) + 1 = n /\ n \in 1 .. nrTuples
        BY <1>1, <3>2
      <4>2. Sums(v)[(n - 1) + 1] = Sums(v)[n - 1] + v[(n - 1) + 1]
        BY <1>2, <4>1
      <4> QED
        BY <1>3, <3>2, <4>1, <4>2
    <3> QED
      BY <3>1, <3>2
  <2> QED
    BY <2>1
<1>5. f = Body(f)
  <2> HIDE DEF Body, e
  <2> QED
    BY <1>4
<1>6. SumOver(S) = f[nrTuples]
  BY DEF SumOver
<1> DEFINE T == {n \in Nat : n <= nrTuples => f[n] = Sums(v)[n]}
<1> HIDE DEF f
<1>7. 0 \in T
  BY <1>1, <1>2, <1>5
<1>8. ASSUME NEW n \in Nat, n \in T
      PROVE  n + 1 \in T
  <2> SUFFICES ASSUME n + 1 <= nrTuples
               PROVE  f[n + 1] = Sums(v)[n + 1]
    OBVIOUS
  <2>1. n + 1 \in 1 .. nrTuples /\ n + 1 # 0 /\ (n + 1) - 1 = n /\ n + 1 \in 0 .. nrTuples
    BY <1>1
  <2>2. f[n + 1] = f[(n + 1) - 1] + (IF (n + 1) - 1 \in S THEN Value((n + 1) - 1) ELSE 0)
    BY <1>5, <2>1
  <2>3. f[n] = Sums(v)[n]
    BY <1>1, <1>8
  <2>4. v[n + 1] = IF (n + 1) - 1 \in S THEN Value((n + 1) - 1) ELSE 0
    BY <1>3, <2>1
  <2> QED
    BY <1>2, <2>1, <2>2, <2>3, <2>4
<1>9. Nat \subseteq T
  <2> HIDE DEF T
  <2> QED
    BY <1>7, <1>8, SetInduction
<1>10. nrTuples \in T
  BY <1>1, <1>9
<1> QED
  BY <1>1, <1>6, <1>10 DEF v

LEMMA SumOverType ==
  ASSUME NEW S
  PROVE  SumOver(S) \in Nat
BY SumOverIs, ValuesOfType, SumsFacts, GroupByAssumption

LEMMA SumOverUnion ==
  ASSUME NEW S, NEW T, S \cap T = {}
  PROVE  SumOver(S \cup T) = SumOver(S) + SumOver(T)
<1>1. nrTuples \in Nat
  BY GroupByAssumption
<1>2. ASSUME NEW k \in 1 .. nrTuples
      PROVE  ValuesOf(S \cup T)[k] = ValuesOf(S)[k] + ValuesOf(T)[k]
  <2>1. Value(k - 1) \in Nat
    BY <1>1, ValueType
  <2> QED
    BY <1>1, <2>1 DEF ValuesOf
<1>3. ASSUME NEW a \in [Nat -> Nat], NEW b \in [Nat -> Nat], NEW c \in [Nat -> Nat],
             a = ValuesOf(S), b = ValuesOf(T), c = ValuesOf(S \cup T)
      PROVE  Sums(c)[nrTuples] = Sums(a)[nrTuples] + Sums(b)[nrTuples]
  <2>1. \A k \in 1 .. nrTuples : c[k] = a[k] + b[k]
    BY <1>2, <1>3
  <2> QED
    BY ONLY <1>1, <2>1, SumsPlus
<1> QED
  BY <1>3, ValuesOfType, SumOverIs

LEMMA SumOverOne ==
  ASSUME NEW r \in Rows
  PROVE  SumOver({r}) = Value(r)
<1> DEFINE f == ValuesOf({r})
<1>1. f \in [Nat -> Nat] /\ nrTuples \in Nat
  BY ValuesOfType, GroupByAssumption
<1>2. r + 1 \in Nat \ {0} /\ r + 1 <= nrTuples /\ (r + 1) - 1 = r /\ r + 1 \in 1 .. nrTuples
  BY <1>1 DEF Rows
<1>3. \A n \in 1 .. nrTuples : n # r + 1 => f[n] = 0
  <2>1. \A n \in 1 .. nrTuples : n # r + 1 => n - 1 # r
    BY <1>1, <1>2
  <2> QED
    BY <1>1, <2>1 DEF ValuesOf
<1>4. f[r + 1] = Value(r)
  BY <1>2 DEF ValuesOf
<1> HIDE DEF f
<1>5. Sums(f)[nrTuples] = IF r + 1 <= nrTuples THEN f[r + 1] ELSE 0
  BY <1>1, <1>2, <1>3, SumsOne
<1> QED
  BY <1>2, <1>4, <1>5, SumOverIs DEF f

LEMMA SumOverEmpty == SumOver({}) = 0
<1>1. SumOver({} \cup {}) = SumOver({}) + SumOver({})
  BY SumOverUnion
<1>2. SumOver({}) \in Nat
  BY SumOverType
<1>3. {} \cup {} = {}
  OBVIOUS
<1>4. SumOver({}) = SumOver({}) + SumOver({})
  BY <1>1, <1>3
<1>5. \A x \in Nat : x = x + x => x = 0
  OBVIOUS
<1> QED
  BY <1>2, <1>4, <1>5

LEMMA SumOverPresent ==
  ASSUME NEW S \in SUBSET Rows
  PROVE  SumOver(S) # 0 <=> S # {}
<1>1. ASSUME NEW r \in S
      PROVE  SumOver(S) # 0
  <2>1. SumOver({r} \cup (S \ {r})) = SumOver({r}) + SumOver(S \ {r})
    BY SumOverUnion
  <2>2. {r} \cup (S \ {r}) = S
    OBVIOUS
  <2>3. SumOver({r}) \in Nat \ {0}
    <3>1. r \in Rows /\ r \in Nat
      BY GroupByAssumption DEF Rows
    <3> QED
      BY <3>1, SumOverOne, ValueType
  <2>4. SumOver(S \ {r}) \in Nat
    BY SumOverType
  <2>5. SumOver(S) = SumOver({r}) + SumOver(S \ {r})
    BY <2>1, <2>2
  <2> QED
    BY <2>3, <2>4, <2>5
<1> QED
  BY <1>1, SumOverEmpty

-----------------------------------------------------------------------------
(* Stack *)

StackType ==
  [chunks : Seq(Seq(EntryType)), last : Nat \ {0}, chunkSize : Nat \ {0}, fill : Nat,
   nrElements : Nat]

\* Memory that the stack has: a place that it may write.
Owned(s, pl) == pl[1] \in 1 .. Len(s.chunks) /\ pl[2] \in 1 .. Len(s.chunks[pl[1]])

\* The chunks up to the last are full but for the last, and have the memory for it.
Chunked(s) ==
  /\ s.last <= Len(s.chunks) /\ s.fill <= s.chunkSize
  /\ s.chunkSize = initialSize * 2 ^ (s.last - 1)
  /\ s.last > 1 => s.fill > 0
  /\ \A i \in 1 .. s.last : BlockSize(s, i) \in Nat /\ BlockSize(s, i) <= Len(s.chunks[i])

\* An iteration visits each place that counts, once.
Visited(s) ==
  /\ Len(Places(s)) = StackSize(s)
  /\ \A j \in 1 .. Len(Places(s)) :
       Places(s)[j][1] \in 1 .. s.last /\ Places(s)[j][2] \in 1 .. BlockSize(s, Places(s)[j][1])
  /\ \A i, j \in 1 .. Len(Places(s)) : Places(s)[i] = Places(s)[j] => i = j

StackOK(s) == s \in StackType /\ Chunked(s) /\ Visited(s)

PlacesUpTo(s, m) == [i \in 1 .. m |-> [n \in 1 .. BlockSize(s, i) |-> <<i, n>>]]

LEMMA PlacesType ==
  ASSUME NEW s, NEW m \in Nat, \A i \in 1 .. m : BlockSize(s, i) \in Nat
  PROVE  PlacesUpTo(s, m) \in Seq(Seq(Nat \X Nat)) /\ Len(PlacesUpTo(s, m)) = m
<1>1. ASSUME NEW i \in 1 .. m
      PROVE  [n \in 1 .. BlockSize(s, i) |-> <<i, n>>] \in Seq(Nat \X Nat)
  <2>1. BlockSize(s, i) \in Nat /\ i \in Nat
    OBVIOUS
  <2>2. \A n \in 1 .. BlockSize(s, i) : <<i, n>> \in Nat \X Nat
    BY <2>1
  <2> QED
    BY <2>1, <2>2
<1> QED
  BY <1>1 DEF PlacesUpTo

LEMMA PlacesOf ==
  ASSUME NEW s, s.last \in Nat \ {0}, \A i \in 1 .. s.last : BlockSize(s, i) \in Nat
  PROVE  Places(s) = FlattenSeq(PlacesUpTo(s, s.last)) /\ Places(s) \in Seq(Nat \X Nat)
<1>1. PlacesUpTo(s, s.last) \in Seq(Seq(Nat \X Nat))
  BY PlacesType
<1>2. Places(s) = FlattenSeq(PlacesUpTo(s, s.last))
  BY DEF Places, PlacesUpTo
<1>3. <<>> \in Seq(Nat \X Nat)
  BY EmptySeq
<1>4. FlattenSeq(PlacesUpTo(s, s.last)) \in Seq(Nat \X Nat)
  BY <1>1, <1>3, FlattenFacts
<1> QED
  BY <1>2, <1>4

LEMMA StackPlaces ==
  ASSUME NEW s, StackOK(s)
  PROVE  /\ Places(s) \in Seq(Nat \X Nat) /\ Len(Places(s)) \in Nat
         /\ DOMAIN Places(s) = 1 .. Len(Places(s))
         /\ \A j \in 1 .. Len(Places(s)) : Owned(s, Places(s)[j])
<1>1. Places(s) \in Seq(Nat \X Nat)
  BY PlacesOf DEF StackOK, StackType, Chunked
<1>2. Len(Places(s)) \in Nat /\ DOMAIN Places(s) = 1 .. Len(Places(s))
  BY <1>1, LenProperties
<1>3. ASSUME NEW j \in 1 .. Len(Places(s))
      PROVE  Owned(s, Places(s)[j])
  <2> DEFINE pl == Places(s)[j]
  <2>1. pl[1] \in 1 .. s.last /\ pl[2] \in 1 .. BlockSize(s, pl[1])
    BY DEF StackOK, Visited
  <2> HIDE DEF pl
  <2>2. BlockSize(s, pl[1]) \in Nat /\ BlockSize(s, pl[1]) <= Len(s.chunks[pl[1]])
    BY <2>1 DEF StackOK, Chunked
  <2>3. s.last \in Nat /\ s.last <= Len(s.chunks) /\ s.chunks \in Seq(Seq(EntryType))
    BY DEF StackOK, StackType, Chunked
  <2>4. pl[1] \in 1 .. Len(s.chunks)
    BY <2>1, <2>3, LenProperties
  <2>5. Len(s.chunks[pl[1]]) \in Nat
    BY <2>3, <2>4, ElementOfSeq, LenProperties
  <2> QED
    BY <2>1, <2>2, <2>4, <2>5 DEF Owned, pl
<1> QED
  BY <1>1, <1>2, <1>3

LEMMA OwnedEntry ==
  ASSUME NEW s \in StackType, NEW pl, Owned(s, pl)
  PROVE  At(s, pl) \in EntryType
<1>1. s.chunks[pl[1]] \in Seq(EntryType)
  BY ElementOfSeq DEF StackType, Owned
<1> QED
  BY <1>1, ElementOfSeq DEF Owned, At

LEMMA StackItems ==
  ASSUME NEW s, StackOK(s)
  PROVE  /\ Items(s) \in Seq(EntryType) /\ Len(Items(s)) = Len(Places(s))
         /\ \A j \in 1 .. Len(Items(s)) : Items(s)[j] = At(s, Places(s)[j])
<1>1. /\ Len(Places(s)) \in Nat /\ DOMAIN Places(s) = 1 .. Len(Places(s))
      /\ \A j \in 1 .. Len(Places(s)) : At(s, Places(s)[j]) \in EntryType
  BY StackPlaces, OwnedEntry DEF StackOK
<1>2. Items(s) = [j \in 1 .. Len(Places(s)) |-> At(s, Places(s)[j])]
  BY <1>1 DEF Items
<1> QED
  BY <1>1, <1>2

\* A stack whose first chunk is not used yet has nothing, whatever its memory holds.
LEMMA StackClear ==
  ASSUME NEW s \in StackType, Len(s.chunks) > 0,
         s.last = 1, s.chunkSize = initialSize, s.fill = 0, s.nrElements = 0
  PROVE  StackOK(s) /\ Places(s) = <<>> /\ Items(s) = <<>>
<1>1. BlockSize(s, 1) = 0
  BY DEF BlockSize
<1>2. Len(s.chunks) \in Nat /\ Len(s.chunks[1]) \in Nat
  <2>1. s.chunks \in Seq(Seq(EntryType))
    BY DEF StackType
  <2>2. Len(s.chunks) \in Nat
    BY <2>1, LenProperties
  <2>3. s.chunks[1] \in Seq(EntryType)
    BY <2>1, <2>2, ElementOfSeq
  <2> QED
    BY <2>2, <2>3, LenProperties
<1>3. Chunked(s)
  <2>1. 2 ^ (s.last - 1) = 1
    <3>1. s.last - 1 = 0
      OBVIOUS
    <3> QED
      BY <3>1, PowerDoubles
  <2>2. initialSize \in Nat /\ initialSize * 1 = initialSize
    BY ContainersAssumption
  <2>3. \A i \in 1 .. s.last : i = 1
    OBVIOUS
  <2> QED
    BY <1>1, <1>2, <2>1, <2>2, <2>3 DEF Chunked
<1>4. Places(s) = <<>>
  <2>1. PlacesUpTo(s, 1) = <<<<>>>>
    <3>1. PlacesUpTo(s, 1) = [i \in 1 .. 1 |-> [n \in 1 .. BlockSize(s, i) |-> <<i, n>>]]
      BY DEF PlacesUpTo
    <3>2. [n \in 1 .. BlockSize(s, 1) |-> <<1, n>>] = <<>>
      BY <1>1
    <3> DEFINE u == PlacesUpTo(s, 1)
               e == <<>>
    <3>3. u \in Seq(Seq(Nat \X Nat)) /\ Len(u) = 1
      <4>1. \A i \in 1 .. 1 : BlockSize(s, i) \in Nat
        BY <1>1
      <4>2. 1 \in Nat
        OBVIOUS
      <4> QED
        BY <4>1, <4>2, PlacesType
    <3>4. u[1] = e
      <4>1. u[1] = [n \in 1 .. BlockSize(s, 1) |-> <<1, n>>]
        <5> DEFINE line(i) == [n \in 1 .. BlockSize(s, i) |-> <<i, n>>]
        <5>1. u = [i \in 1 .. 1 |-> line(i)] /\ 1 \in 1 .. 1
          BY <3>1
        <5> HIDE DEF line
        <5>2. u[1] = line(1)
          BY <5>1
        <5> QED
          BY <5>2 DEF line
      <4> QED
        BY <3>2, <4>1
    <3>5. <<e>> \in Seq(Seq(Nat \X Nat)) /\ Len(<<e>>) = 1 /\ <<e>>[1] = e
      OBVIOUS
    <3> HIDE DEF u, e
    <3>6. \A i \in 1 .. Len(u) : u[i] = <<e>>[i]
      BY <3>3, <3>4, <3>5
    <3>7. u = <<e>>
      BY <3>3, <3>5, <3>6, SeqEqual
    <3> QED
      BY <3>7 DEF u, e
  <2>2. <<>> \in Seq(Seq(Nat \X Nat)) /\ <<>> \in Seq(Nat \X Nat)
    BY EmptySeq
  <2>3. FlattenSeq(Append(<<>>, <<>>)) = FlattenSeq(<<>>) \o <<>>
    BY <2>2, FlattenFacts
  <2>4. Append(<<>>, <<>>) = <<<<>>>>
    OBVIOUS
  <2>5. FlattenSeq(<<>>) \o <<>> = <<>>
    BY <2>2, FlattenEmpty, ConcatEmptySeq
  <2>6. Places(s) = FlattenSeq(PlacesUpTo(s, s.last))
    BY <1>3, PlacesOf DEF Chunked
  <2> QED
    BY <2>1, <2>3, <2>4, <2>5, <2>6
<1>5. Len(<<>>) = 0
  OBVIOUS
<1>6. Visited(s)
  BY <1>4, <1>5 DEF Visited, StackSize
<1>7. Items(s) = <<>>
  BY <1>4 DEF Items
<1> QED
  BY <1>3, <1>4, <1>6, <1>7 DEF StackOK

Line(i, k) == [n \in 1 .. k |-> <<i, n>>]

LEMMA LineFacts ==
  ASSUME NEW i \in Nat, NEW k \in Nat
  PROVE  /\ Line(i, k) \in Seq(Nat \X Nat) /\ Line(i, 0) = <<>>
         /\ Line(i, k + 1) = Line(i, k) \o <<<<i, k + 1>>>>
<1>1. \A m \in Nat : Line(i, m) \in Seq(Nat \X Nat) /\ Len(Line(i, m)) = m
  BY DEF Line
<1>2. Line(i, 0) = <<>>
  BY DEF Line
<1> DEFINE x == <<i, k + 1>>
           u == Line(i, k) \o <<x>>
<1>3. x \in Nat \X Nat
  OBVIOUS
<1> HIDE DEF x
<1>4. <<x>> \in Seq(Nat \X Nat) /\ Len(<<x>>) = 1 /\ <<x>>[1] = x
  BY <1>3
<1>5. /\ u \in Seq(Nat \X Nat) /\ Len(u) = k + 1
      /\ \A j \in 1 .. k + 1 : u[j] = IF j <= k THEN Line(i, k)[j] ELSE <<x>>[j - k]
  <2>1. Line(i, k) \in Seq(Nat \X Nat) /\ Len(Line(i, k)) = k
    BY <1>1
  <2> QED
    BY <1>4, <2>1, ConcatProperties
<1> HIDE DEF u
<1>6. ASSUME NEW j \in 1 .. k + 1
      PROVE  Line(i, k + 1)[j] = u[j]
  <2>1. CASE j <= k
    <3>1. j \in 1 .. k /\ j \in 1 .. k + 1
      BY <2>1
    <3>2. Line(i, k + 1)[j] = Line(i, k)[j]
      BY <3>1 DEF Line
    <3>3. u[j] = Line(i, k)[j]
      BY <1>5, <2>1
    <3> QED
      BY <3>2, <3>3
  <2>2. CASE j = k + 1
    <3>1. j - k = 1 /\ ~(j <= k)
      BY <2>2
    <3>2. u[j] = x
      BY <1>4, <1>5, <3>1
    <3> QED
      BY <2>2, <3>2 DEF Line, x
  <2> QED
    BY <2>1, <2>2
<1>7. Line(i, k + 1) = u
  <2>1. Line(i, k + 1) \in Seq(Nat \X Nat) /\ Len(Line(i, k + 1)) = k + 1
    BY <1>1
  <2> QED
    BY <1>5, <1>6, <2>1, SeqEqual
<1> QED
  BY <1>1, <1>2, <1>7 DEF u, x

LEMMA PlacesSplit ==
  ASSUME NEW s, NEW m \in Nat, \A i \in 1 .. m + 1 : BlockSize(s, i) \in Nat
  PROVE  /\ FlattenSeq(PlacesUpTo(s, m)) \in Seq(Nat \X Nat)
         /\ FlattenSeq(PlacesUpTo(s, m + 1)) =
              FlattenSeq(PlacesUpTo(s, m)) \o Line(m + 1, BlockSize(s, m + 1))
<1> DEFINE line == Line(m + 1, BlockSize(s, m + 1))
           p == PlacesUpTo(s, m)
           q == PlacesUpTo(s, m + 1)
           u == Append(p, line)
<1>1. line \in Seq(Nat \X Nat)
  <2>1. m + 1 \in Nat /\ BlockSize(s, m + 1) \in Nat
    OBVIOUS
  <2> QED
    BY <2>1, LineFacts
<1>2. p \in Seq(Seq(Nat \X Nat)) /\ Len(p) = m
  <2>1. \A i \in 1 .. m : BlockSize(s, i) \in Nat
    OBVIOUS
  <2> QED
    BY <2>1, PlacesType
<1>3. q \in Seq(Seq(Nat \X Nat)) /\ Len(q) = m + 1
  <2>1. m + 1 \in Nat
    OBVIOUS
  <2> QED
    BY <2>1, PlacesType
<1>4. /\ \A i \in 1 .. m : q[i] = p[i]
      /\ q[m + 1] = line
  <2>1. /\ p = [i \in 1 .. m |-> Line(i, BlockSize(s, i))]
        /\ q = [i \in 1 .. m + 1 |-> Line(i, BlockSize(s, i))]
    BY DEF PlacesUpTo, Line
  <2> QED
    BY <2>1
<1> HIDE DEF line, p, q
<1>5. /\ u \in Seq(Seq(Nat \X Nat)) /\ Len(u) = m + 1
      /\ \A i \in 1 .. m : u[i] = p[i]
      /\ u[m + 1] = line
  <2>1. /\ u \in Seq(Seq(Nat \X Nat)) /\ Len(u) = Len(p) + 1
        /\ \A i \in 1 .. Len(p) : u[i] = p[i]
        /\ u[Len(p) + 1] = line
    <3> DEFINE T == Seq(Nat \X Nat)
    <3>1. p \in Seq(T) /\ line \in T
      BY <1>1, <1>2
    <3> HIDE DEF T
    <3>2. /\ u \in Seq(T) /\ Len(u) = Len(p) + 1
          /\ \A i \in 1 .. Len(p) : u[i] = p[i]
          /\ u[Len(p) + 1] = line
      BY <3>1, AppendProperties
    <3> QED
      BY <3>2 DEF T
  <2> HIDE DEF u
  <2> QED
    BY <1>2, <2>1
<1> HIDE DEF u
<1>6. q = u
  <2>1. ASSUME NEW i \in 1 .. m + 1
        PROVE  q[i] = u[i]
    <3>1. i \in 1 .. m \/ i = m + 1
      OBVIOUS
    <3> QED
      BY <1>4, <1>5, <3>1
  <2> QED
    BY <1>3, <1>5, <2>1, SeqEqual
<1>7. FlattenSeq(p) \in Seq(Nat \X Nat) /\ FlattenSeq(u) = FlattenSeq(p) \o line
  BY <1>1, <1>2, FlattenFacts DEF u
<1> QED
  BY <1>6, <1>7 DEF p, q, line

\* A stack in which there is room in the last chunk, for the same places.
LEMMA StackRoom ==
  ASSUME NEW s, StackOK(s), NEW r,
         r = IF s.fill = s.chunkSize THEN NewStackChunk(s) ELSE s
  PROVE  /\ r \in StackType /\ r.last <= Len(r.chunks) /\ s.last <= r.last
         /\ Len(s.chunks) <= Len(r.chunks)
         /\ r.fill < r.chunkSize /\ r.fill <= Len(r.chunks[r.last])
         /\ r.chunkSize = initialSize * 2 ^ (r.last - 1)
         /\ r.nrElements + r.fill = s.nrElements + s.fill
         /\ \A i \in 1 .. Len(s.chunks) : r.chunks[i] = s.chunks[i]
         /\ \A i \in 1 .. r.last - 1 :
              /\ i <= s.last /\ BlockSize(s, i) = initialSize * 2 ^ (i - 1)
              /\ BlockSize(s, i) \in Nat
         /\ Places(s) = FlattenSeq(PlacesUpTo(s, r.last - 1)) \o Line(r.last, r.fill)
         /\ FlattenSeq(PlacesUpTo(s, r.last - 1)) \in Seq(Nat \X Nat)
<1>1. /\ s.chunks \in Seq(Seq(EntryType)) /\ s.last \in Nat \ {0} /\ s.chunkSize \in Nat \ {0}
      /\ s.fill \in Nat /\ s.nrElements \in Nat /\ s \in StackType
      /\ s.last <= Len(s.chunks) /\ s.fill <= s.chunkSize
      /\ s.chunkSize = initialSize * 2 ^ (s.last - 1)
      /\ \A i \in 1 .. s.last : BlockSize(s, i) \in Nat /\ BlockSize(s, i) <= Len(s.chunks[i])
      /\ Len(s.chunks) \in Nat
  <2>1. s.chunks \in Seq(Seq(EntryType))
    BY DEF StackOK, StackType
  <2>2. Len(s.chunks) \in Nat
    BY <2>1, LenProperties
  <2> QED
    BY <2>1, <2>2 DEF StackOK, StackType, Chunked
<1>2. /\ Places(s) = FlattenSeq(PlacesUpTo(s, s.last))
      /\ Places(s) \in Seq(Nat \X Nat)
  BY <1>1, PlacesOf
<1>3. CASE s.fill # s.chunkSize
  <2>1. r = s
    BY <1>3
  <2>2. s.fill < s.chunkSize /\ s.fill <= Len(s.chunks[s.last])
    <3>1. BlockSize(s, s.last) = s.fill
      BY DEF BlockSize
    <3> QED
      BY SMTT(30), <1>1, <1>3, <3>1
  <2>3. \A i \in 1 .. s.last - 1 : BlockSize(s, i) = initialSize * 2 ^ (i - 1)
    BY <1>1 DEF BlockSize
  <2>4. /\ FlattenSeq(PlacesUpTo(s, s.last - 1)) \in Seq(Nat \X Nat)
        /\ Places(s) = FlattenSeq(PlacesUpTo(s, s.last - 1)) \o Line(s.last, s.fill)
    <3> DEFINE m == s.last - 1
    <3>1. m \in Nat /\ m + 1 = s.last
      BY SMTT(30), <1>1
    <3> HIDE DEF m
    <3>2. \A i \in 1 .. m + 1 : BlockSize(s, i) \in Nat
      BY <1>1, <3>1
    <3>3. /\ FlattenSeq(PlacesUpTo(s, m)) \in Seq(Nat \X Nat)
          /\ FlattenSeq(PlacesUpTo(s, m + 1)) =
               FlattenSeq(PlacesUpTo(s, m)) \o Line(m + 1, BlockSize(s, m + 1))
      BY <3>1, <3>2, PlacesSplit
    <3>4. BlockSize(s, s.last) = s.fill
      BY DEF BlockSize
    <3> QED
      BY <1>2, <3>1, <3>3, <3>4 DEF m
  <2>5. \A i \in 1 .. s.last - 1 : i <= s.last /\ BlockSize(s, i) \in Nat
    BY SMTT(30), <1>1
  <2>6. /\ s \in StackType /\ s.last <= Len(s.chunks) /\ s.last <= s.last
        /\ Len(s.chunks) <= Len(s.chunks)
        /\ s.chunkSize = initialSize * 2 ^ (s.last - 1)
    BY <1>1
  <2> QED
    BY <2>1, <2>2, <2>3, <2>4, <2>5, <2>6, Zenon
<1>4. CASE s.fill = s.chunkSize
  <2> DEFINE c == IF s.last < Len(s.chunks) THEN s.chunks ELSE Append(s.chunks, <<>>)
  <2>1. r = [s EXCEPT !.chunks = c, !.last = s.last + 1, !.chunkSize = 2 * s.chunkSize,
                      !.fill = 0, !.nrElements = s.nrElements + s.fill]
    BY <1>4 DEF NewStackChunk
  <2>2. /\ c \in Seq(Seq(EntryType)) /\ s.last + 1 <= Len(c) /\ Len(s.chunks) <= Len(c)
        /\ Len(c) \in Nat
        /\ \A i \in 1 .. Len(s.chunks) : c[i] = s.chunks[i]
    <3>1. CASE s.last < Len(s.chunks)
      BY <1>1, <3>1
    <3>2. CASE ~(s.last < Len(s.chunks))
      <4>1. <<>> \in Seq(EntryType)
        BY EmptySeq
      <4> DEFINE a == Append(s.chunks, <<>>)
      <4>2. /\ a \in Seq(Seq(EntryType)) /\ Len(a) = Len(s.chunks) + 1
            /\ \A i \in 1 .. Len(s.chunks) : a[i] = s.chunks[i]
        BY <1>1, <4>1, AppendProperties
      <4>3. c = a
        BY <3>2
      <4> HIDE DEF a, c
      <4> QED
        BY <1>1, <3>2, <4>2, <4>3
    <3> QED
      BY <3>1, <3>2
  <2> HIDE DEF c
  <2>3. /\ r \in StackType /\ r.chunks = c /\ r.last = s.last + 1 /\ r.fill = 0
        /\ r.chunkSize = 2 * s.chunkSize /\ r.nrElements = s.nrElements + s.fill
    <3>1. s.last + 1 \in Nat \ {0} /\ 2 * s.chunkSize \in Nat \ {0}
          /\ s.nrElements + s.fill \in Nat /\ c \in Seq(Seq(EntryType))
      <4>1. \A x, y \in Nat : x + 1 \in Nat \ {0} /\ x + y \in Nat
        OBVIOUS
      <4>2. \A x \in Nat \ {0} : 2 * x \in Nat \ {0}
        OBVIOUS
      <4> QED
        BY <1>1, <2>2, <4>1, <4>2
    <3>2. s = [chunks |-> s.chunks, last |-> s.last, chunkSize |-> s.chunkSize,
               fill |-> s.fill, nrElements |-> s.nrElements]
      BY <1>1 DEF StackType
    <3>3. r = [chunks |-> c, last |-> s.last + 1, chunkSize |-> 2 * s.chunkSize,
               fill |-> 0, nrElements |-> s.nrElements + s.fill]
      BY <2>1, <3>2
    <3> QED
      BY <3>1, <3>3 DEF StackType
  <2>4. r.last - 1 = s.last
    <3>1. \A x \in Nat : (x + 1) - 1 = x
      OBVIOUS
    <3> QED
      BY <1>1, <2>3, <3>1
  <2>5. r.chunkSize = initialSize * 2 ^ (r.last - 1)
    <3> DEFINE m == s.last - 1
    <3>1. m \in Nat /\ m + 1 = s.last
      BY SMTT(30), <1>1
    <3> HIDE DEF m
    <3>2. 2 ^ (m + 1) = 2 * 2 ^ m /\ 2 ^ m \in Nat
      BY <3>1, PowerDoubles
    <3>3. s.chunkSize = initialSize * 2 ^ m /\ initialSize \in Nat
      BY <1>1, ContainersAssumption DEF m
    <3>4. \A x, y \in Nat : 2 * (x * y) = x * (2 * y)
      OBVIOUS
    <3>5. 2 * s.chunkSize = initialSize * 2 ^ (m + 1)
      BY <3>2, <3>3, <3>4
    <3> QED
      BY <2>3, <2>4, <3>1, <3>5
  <2>6. 0 <= Len(r.chunks[r.last])
    <3>1. s.last + 1 \in 1 .. Len(c)
      BY SMTT(30), <1>1, <2>2
    <3>2. c[s.last + 1] \in Seq(EntryType)
      BY <2>2, <3>1, ElementOfSeq
    <3>3. Len(c[s.last + 1]) \in Nat
      BY <3>2, LenProperties
    <3> QED
      BY <2>3, <3>3
  <2>7. \A i \in 1 .. s.last : BlockSize(s, i) = initialSize * 2 ^ (i - 1)
    BY <1>1, <1>4 DEF BlockSize
  <2>8. Places(s) = FlattenSeq(PlacesUpTo(s, r.last - 1)) \o Line(r.last, r.fill)
    <3>1. Line(r.last, 0) = <<>>
      BY DEF Line
    <3>2. Places(s) \o <<>> = Places(s)
      BY <1>2, ConcatEmptySeq
    <3> QED
      BY <1>2, <2>3, <2>4, <3>1, <3>2
  <2>9. 0 < r.chunkSize /\ r.nrElements + 0 = s.nrElements + s.fill
    BY <1>1, <2>3
  <2>10. \A i \in 1 .. s.last : i <= s.last /\ BlockSize(s, i) \in Nat
    BY <1>1
  <2>11. s.last <= r.last
    BY <1>1, <2>3
  <2> QED
    BY ZenonT(60), <1>2, <2>2, <2>3, <2>4, <2>5, <2>6, <2>7, <2>8, <2>9, <2>10, <2>11
<1> QED
  BY <1>3, <1>4

LEMMA StackEmplace ==
  ASSUME NEW s, StackOK(s), NEW e \in EntryType, NEW t, t = EmplaceBack(s, e)
  PROVE  /\ StackOK(t) /\ Items(t) = Append(Items(s), e)
         /\ Places(t) = Append(Places(s), Back(t)) /\ Back(t) \in Nat \X Nat
         /\ Len(s.chunks) <= Len(t.chunks)
         /\ \A i \in 1 .. Len(s.chunks) : Len(s.chunks[i]) <= Len(t.chunks[i])
<1> DEFINE r == IF s.fill = s.chunkSize THEN NewStackChunk(s) ELSE s
           l == r.last
           c == r.chunks[l]
           n == r.fill + 1
           d == IF r.fill < Len(c) THEN [c EXCEPT ![n] = e] ELSE Append(c, e)
           x == <<l, n>>
           P == Places(s)
           Q == Places(t)
           F == FlattenSeq(PlacesUpTo(s, l - 1))
<1>0. /\ r \in StackType /\ l <= Len(r.chunks) /\ s.last <= l
      /\ Len(s.chunks) <= Len(r.chunks)
      /\ r.fill < r.chunkSize /\ r.fill <= Len(c)
      /\ r.chunkSize = initialSize * 2 ^ (l - 1)
      /\ r.nrElements + r.fill = s.nrElements + s.fill
      /\ \A i \in 1 .. Len(s.chunks) : r.chunks[i] = s.chunks[i]
      /\ \A i \in 1 .. l - 1 :
              /\ i <= s.last /\ BlockSize(s, i) = initialSize * 2 ^ (i - 1)
              /\ BlockSize(s, i) \in Nat
      /\ P = F \o Line(l, r.fill)
      /\ F \in Seq(Nat \X Nat)
  BY StackRoom
<1>2. t = [r EXCEPT !.chunks = [r.chunks EXCEPT ![l] = d], !.fill = n]
  BY DEF EmplaceBack
<1> HIDE DEF r, F
<1>1. /\ l <= Len(r.chunks) /\ s.last <= l /\ Len(s.chunks) <= Len(r.chunks)
      /\ r.fill < r.chunkSize /\ r.fill <= Len(c)
      /\ r.nrElements + r.fill = s.nrElements + s.fill
  BY <1>0
<1>3. /\ r.chunks \in Seq(Seq(EntryType)) /\ l \in Nat \ {0} /\ r.fill \in Nat
      /\ r.chunkSize \in Nat \ {0} /\ r.nrElements \in Nat /\ Len(r.chunks) \in Nat
  <2>1. r.chunks \in Seq(Seq(EntryType))
    BY <1>0 DEF StackType
  <2>2. Len(r.chunks) \in Nat
    BY <2>1, LenProperties
  <2> QED
    BY <1>0, <2>1, <2>2 DEF StackType
<1>4. l \in 1 .. Len(r.chunks) /\ c \in Seq(EntryType) /\ Len(c) \in Nat
  <2>1. l \in 1 .. Len(r.chunks)
    BY <1>1, <1>3
  <2>2. c \in Seq(EntryType)
    BY <1>3, <2>1, ElementOfSeq
  <2> QED
    BY <2>1, <2>2, LenProperties
<1>5. n \in Nat \ {0} /\ n <= r.chunkSize
  BY <1>1, <1>3
\* The chunk into which the entry is written.
<1>6. /\ d \in Seq(EntryType) /\ n <= Len(d) /\ Len(c) <= Len(d) /\ d[n] = e
      /\ \A i \in 1 .. r.fill : d[i] = c[i]
      /\ Len(d) \in Nat
  <2>1. CASE r.fill < Len(c)
    <3>1. n \in 1 .. Len(c)
      <4>1. \A a, b \in Nat : a < b => a + 1 \in 1 .. b
        OBVIOUS
      <4> QED
        BY <1>3, <1>4, <2>1, <4>1
    <3> DEFINE a == [c EXCEPT ![n] = e]
    <3>2. /\ a \in Seq(EntryType) /\ Len(a) = Len(c)
          /\ \A j \in 1 .. Len(c) : a[j] = IF j = n THEN e ELSE c[j]
      BY <1>4, <3>1, ExceptSeq
    <3>3. d = a
      BY <2>1
    <3> HIDE DEF a, d
    <3>4. \A i \in 1 .. r.fill : i # n /\ i \in 1 .. Len(c)
      BY SMTT(30), <1>3, <1>4, <2>1
    <3> QED
      BY <1>4, <3>1, <3>2, <3>3, <3>4
  <2>2. CASE ~(r.fill < Len(c))
    <3> DEFINE a == Append(c, e)
    <3>1. Len(c) = r.fill
      BY <1>1, <1>3, <1>4, <2>2
    <3>2. /\ a \in Seq(EntryType) /\ Len(a) = Len(c) + 1
          /\ \A i \in 1 .. Len(c) : a[i] = c[i]
          /\ a[Len(c) + 1] = e
      BY <1>4, AppendProperties
    <3>3. d = a
      BY <2>2
    <3> HIDE DEF a, d
    <3> QED
      BY SMTT(30), <1>4, <3>1, <3>2, <3>3
  <2> QED
    BY <2>1, <2>2
<1> HIDE DEF c, d
<1> DEFINE k == [r.chunks EXCEPT ![l] = d]
<1>7. /\ k \in Seq(Seq(EntryType)) /\ Len(k) = Len(r.chunks)
      /\ \A j \in 1 .. Len(r.chunks) : k[j] = IF j = l THEN d ELSE r.chunks[j]
  <2> DEFINE T == Seq(EntryType)
  <2>1. r.chunks \in Seq(T) /\ l \in 1 .. Len(r.chunks) /\ d \in T
    BY <1>3, <1>4, <1>6
  <2> HIDE DEF T
  <2>2. /\ k \in Seq(T) /\ Len(k) = Len(r.chunks)
        /\ \A j \in 1 .. Len(r.chunks) : k[j] = IF j = l THEN d ELSE r.chunks[j]
    BY <2>1, ExceptSeq
  <2> QED
    BY <2>2 DEF T
<1> HIDE DEF k
<1>8. /\ t \in StackType /\ t.chunks = k /\ t.last = l /\ t.fill = n
      /\ t.chunkSize = r.chunkSize /\ t.nrElements = r.nrElements
  <2>1. t = [r EXCEPT !.chunks = k, !.fill = n]
    BY <1>2 DEF k
  <2>2. r = [chunks |-> r.chunks, last |-> l, chunkSize |-> r.chunkSize,
             fill |-> r.fill, nrElements |-> r.nrElements]
    BY <1>0 DEF StackType
  <2>3. t = [chunks |-> k, last |-> l, chunkSize |-> r.chunkSize,
             fill |-> n, nrElements |-> r.nrElements]
    BY <2>1, <2>2
  <2>4. n \in Nat
    BY <1>3
  <2> HIDE DEF n
  <2> QED
    BY <1>3, <1>7, <2>3, <2>4 DEF StackType
<1>9. /\ BlockSize(t, l) = n
      /\ \A i \in 1 .. l - 1 : BlockSize(t, i) = BlockSize(s, i)
  <2>1. BlockSize(t, l) = n
    BY <1>8 DEF BlockSize
  <2>2. ASSUME NEW i \in 1 .. l - 1
        PROVE  BlockSize(t, i) = BlockSize(s, i)
    <3>1. i # l
      BY <1>3
    <3> QED
      BY <1>0, <1>8, <3>1 DEF BlockSize
  <2> QED
    BY <2>1, <2>2
<1>10. \A i \in 1 .. l : BlockSize(t, i) \in Nat
  <2>1. ASSUME NEW i \in 1 .. l
        PROVE  BlockSize(t, i) \in Nat
    <3>1. i = l \/ i \in 1 .. l - 1
      BY <1>3
    <3> QED
      BY <1>0, <1>5, <1>9, <3>1
  <2> QED
    BY <2>1
\* The places are those of before, and one more.
<1>11. P \in Seq(Nat \X Nat) /\ Len(P) \in Nat
  BY StackPlaces
<1>12. Q = P \o <<x>> /\ x \in Nat \X Nat /\ Q = Append(P, x)
  <2> DEFINE m == l - 1
  <2>1. m \in Nat /\ m + 1 = l
    BY <1>3
  <2>2. \A i \in 1 .. m : BlockSize(t, i) = BlockSize(s, i)
    BY <1>9
  <2>3. PlacesUpTo(t, m) = PlacesUpTo(s, m)
    BY <2>2 DEF PlacesUpTo
  <2>4. Q = FlattenSeq(PlacesUpTo(t, l))
    BY <1>3, <1>8, <1>10, PlacesOf
  <2>5. FlattenSeq(PlacesUpTo(t, m + 1)) =
          FlattenSeq(PlacesUpTo(t, m)) \o Line(m + 1, BlockSize(t, m + 1))
    <3> HIDE DEF m
    <3>1. \A i \in 1 .. m + 1 : BlockSize(t, i) \in Nat
      BY <1>10, <2>1
    <3> QED
      BY <2>1, <3>1, PlacesSplit
  <2>6. Q = F \o Line(l, n)
    <3>1. FlattenSeq(PlacesUpTo(t, m)) = F
      BY <2>3 DEF F
    <3> HIDE DEF m
    <3> QED
      BY <1>9, <2>1, <2>4, <2>5, <3>1
  <2>7. Line(l, n) = Line(l, r.fill) \o <<x>> /\ Line(l, r.fill) \in Seq(Nat \X Nat)
    BY <1>3, LineFacts
  <2>8. x \in Nat \X Nat /\ <<x>> \in Seq(Nat \X Nat)
    BY <1>3
  <2> HIDE DEF x, n, l
  <2>9. (F \o Line(l, r.fill)) \o <<x>> = F \o (Line(l, r.fill) \o <<x>>)
    <3> DEFINE A == Nat \X Nat
               L == Line(l, r.fill)
    <3>1. F \in Seq(A) /\ L \in Seq(A) /\ <<x>> \in Seq(A)
      BY <1>0, <2>7, <2>8
    <3> HIDE DEF A, L
    <3>2. (F \o L) \o <<x>> = F \o (L \o <<x>>)
      BY <3>1, ConcatAssociative
    <3> QED
      BY <3>2 DEF L
  <2>10. Append(P, x) = P \o <<x>>
    BY <1>11, <2>8, AppendIsConcat
  <2> QED
    BY <1>0, <2>6, <2>7, <2>8, <2>9, <2>10
<1>13. Back(t) = x
  BY <1>8 DEF Back
<1>14. /\ Len(Q) = Len(P) + 1 /\ Q[Len(P) + 1] = x
       /\ \A j \in 1 .. Len(P) : Q[j] = P[j]
  BY <1>11, <1>12, AppendProperties
\* Where the places of before are.
<1>15. ASSUME NEW j \in 1 .. Len(P)
       PROVE  /\ P[j][1] \in 1 .. l /\ P[j][2] \in 1 .. BlockSize(t, P[j][1])
              /\ P[j] # x /\ At(t, P[j]) = At(s, P[j])
  <2> DEFINE i == P[j][1]
             b == P[j][2]
  <2>1. /\ i \in 1 .. s.last /\ b \in 1 .. BlockSize(s, i)
        /\ i \in 1 .. Len(s.chunks)
    BY StackPlaces DEF StackOK, Visited, Owned
  <2> HIDE DEF i, b
  <2>2. s.last \in Nat
    BY DEF StackOK, StackType
  <2>3. i \in Nat \ {0} /\ i <= l
    <3>1. \A u, w \in Nat : \A z \in 1 .. u : u <= w => z \in Nat \ {0} /\ z <= w
      OBVIOUS
    <3>2. s.last <= l /\ l \in Nat
      BY <1>1, <1>3
    <3> QED
      BY <2>1, <2>2, <3>1, <3>2
  <2>4. r.chunks[i] = s.chunks[i]
    BY <1>0, <2>1
  <2>5. CASE i # l
    <3>1. i \in 1 .. l - 1
      BY <1>3, <2>3, <2>5
    <3>2. BlockSize(t, i) = BlockSize(s, i)
      BY <1>9, <3>1
    <3>3. i \in 1 .. Len(r.chunks)
      BY <1>1, <1>3, <2>3
    <3>4. k[i] = s.chunks[i]
      BY <1>7, <2>4, <2>5, <3>3
    <3>5. P[j] # x
      BY <2>5 DEF i
    <3> QED
      BY <1>8, <2>1, <2>3, <3>2, <3>4, <3>5, <1>3 DEF At, i, b
  <2>6. CASE i = l
    <3>1. i = s.last /\ s.last = l
      BY <1>1, <1>3, <2>1, <2>2, <2>6
    <3>2. r = s
      <4>1. s.fill = s.chunkSize => r.last = s.last + 1
        BY DEF r, NewStackChunk, StackOK, StackType
      <4> QED
        BY <2>2, <3>1, <4>1 DEF r
    <3>3. BlockSize(s, i) = r.fill
      BY <3>1, <3>2 DEF BlockSize
    <3>4. b \in 1 .. r.fill
      BY <2>1, <3>3
    <3>5. b # n /\ b \in 1 .. n
      BY <1>3, <3>4
    <3>6. k[i] = d /\ d[b] = c[b] /\ c = s.chunks[i]
      BY <1>4, <1>6, <1>7, <2>4, <2>6, <3>4 DEF c
    <3>7. P[j] # x
      BY <3>5 DEF b
    <3> QED
      BY <1>8, <1>9, <2>3, <2>6, <3>5, <3>6, <3>7, <1>3 DEF At, i, b
  <2> QED
    BY <2>5, <2>6
<1>16. At(t, x) = e
  BY <1>4, <1>6, <1>7, <1>8 DEF At
<1>17. Chunked(t)
  <2>1. ASSUME NEW i \in 1 .. l
        PROVE  BlockSize(t, i) <= Len(t.chunks[i])
    <3>1. i \in 1 .. Len(r.chunks)
      BY <1>1, <1>3
    <3>2. CASE i = l
      BY <1>6, <1>7, <1>8, <1>9, <3>1, <3>2
    <3>3. CASE i # l
      <4>1. i \in 1 .. l - 1 /\ i <= s.last
        <5>1. i \in 1 .. l - 1
          BY <1>3, <3>3
        <5> QED
          BY <1>0, <5>1
      <4>2. i \in 1 .. s.last /\ BlockSize(s, i) <= Len(s.chunks[i])
        BY <4>1 DEF StackOK, StackType, Chunked
      <4>3. i \in 1 .. Len(s.chunks)
        <5>1. s.last <= Len(s.chunks) /\ s.last \in Nat /\ Len(s.chunks) \in Nat
          BY LenProperties DEF StackOK, StackType, Chunked
        <5> QED
          BY <4>2, <5>1
      <4>4. t.chunks[i] = s.chunks[i]
        BY <1>0, <1>7, <1>8, <3>1, <3>3, <4>3
      <4> QED
        BY <1>9, <4>1, <4>2, <4>4
    <3> QED
      BY <3>2, <3>3
  <2>2. t.last > 1 => t.fill > 0
    BY <1>5, <1>8
  <2>3. t.last <= Len(t.chunks) /\ t.fill <= t.chunkSize
    BY <1>1, <1>5, <1>7, <1>8
  <2>4. t.chunkSize = initialSize * 2 ^ (t.last - 1)
    BY <1>0, <1>8
  <2>5. \A i \in 1 .. t.last : BlockSize(t, i) \in Nat /\ BlockSize(t, i) <= Len(t.chunks[i])
    BY <1>8, <1>10, <2>1
  <2> QED
    BY <2>2, <2>3, <2>4, <2>5 DEF Chunked
<1>18. Visited(t)
  <2>1. Len(Q) = StackSize(t)
    <3>1. Len(P) = s.nrElements + s.fill
      BY DEF StackOK, Visited, StackSize
    <3>2. StackSize(t) = r.nrElements + (r.fill + 1)
      BY <1>8 DEF StackSize
    <3> QED
      BY <1>1, <1>3, <1>14, <3>1, <3>2
  <2>2. ASSUME NEW j \in 1 .. Len(Q)
        PROVE  (j \in 1 .. Len(P) /\ Q[j] = P[j]) \/ (j = Len(P) + 1 /\ Q[j] = x)
    <3>1. j \in 1 .. Len(P) \/ j = Len(P) + 1
      BY <1>11, <1>14
    <3>2. j \in 1 .. Len(P) => Q[j] = P[j]
      BY <1>14
    <3>3. j = Len(P) + 1 => Q[j] = x
      BY <1>14
    <3> HIDE DEF P, Q, x
    <3> QED
      BY <3>1, <3>2, <3>3
  <2>3. ASSUME NEW j \in 1 .. Len(Q)
        PROVE  Q[j][1] \in 1 .. t.last /\ Q[j][2] \in 1 .. BlockSize(t, Q[j][1])
    <3>1. CASE j \in 1 .. Len(P) /\ Q[j] = P[j]
      BY <1>8, <1>15, <3>1
    <3>2. CASE Q[j] = x
      <4>1. x[1] = l /\ x[2] = n /\ l \in 1 .. l /\ n \in 1 .. n
        BY <1>3, <1>5
      <4> QED
        BY <1>8, <1>9, <3>2, <4>1
    <3> QED
      BY <2>2, <3>1, <3>2
  <2>4. ASSUME NEW i \in 1 .. Len(Q), NEW j \in 1 .. Len(Q), Q[i] = Q[j]
        PROVE  i = j
    <3>1. \A a, b \in 1 .. Len(P) : P[a] = P[b] => a = b
      BY DEF StackOK, Visited
    <3>2. \A a \in 1 .. Len(P) : P[a] # x
      BY <1>15
    <3> HIDE DEF P, Q, x
    <3> QED
      BY <2>2, <2>4, <3>1, <3>2
  <2> QED
    BY <2>1, <2>3, <2>4 DEF Visited
<1>19. StackOK(t)
  BY <1>8, <1>17, <1>18 DEF StackOK
<1>20. Items(t) = Append(Items(s), e)
  <2> DEFINE I == Items(s)
             J == Items(t)
             A == Append(I, e)
  <2>1. /\ I \in Seq(EntryType) /\ Len(I) = Len(P)
        /\ \A j \in 1 .. Len(I) : I[j] = At(s, P[j])
    BY StackItems
  <2>2. /\ J \in Seq(EntryType) /\ Len(J) = Len(Q)
        /\ \A j \in 1 .. Len(J) : J[j] = At(t, Q[j])
    BY <1>19, StackItems
  <2>3. /\ A \in Seq(EntryType) /\ Len(A) = Len(I) + 1
        /\ \A i \in 1 .. Len(I) : A[i] = I[i]
        /\ A[Len(I) + 1] = e
    BY <2>1, AppendProperties
  <2> HIDE DEF I, J, A
  <2>4. ASSUME NEW j \in 1 .. Len(J)
        PROVE  J[j] = A[j]
    <3>1. j \in 1 .. Len(P) \/ j = Len(P) + 1
      BY <1>11, <1>14, <2>2
    <3>2. CASE j \in 1 .. Len(P)
      BY <1>14, <1>15, <2>1, <2>2, <2>3, <3>2
    <3>3. CASE j = Len(P) + 1
      BY <1>14, <1>16, <2>1, <2>2, <2>3, <3>3
    <3> QED
      BY <3>1, <3>2, <3>3
  <2>5. J = A
    <3>1. Len(J) = Len(A)
      BY <1>14, <2>1, <2>2, <2>3
    <3> QED
      BY <2>2, <2>3, <2>4, <3>1, SeqEqual
  <2> QED
    BY <2>5 DEF I, J, A
<1>21. ASSUME NEW i \in 1 .. Len(s.chunks)
       PROVE  Len(s.chunks[i]) <= Len(t.chunks[i])
  <2>1. s.chunks[i] = r.chunks[i] /\ i \in 1 .. Len(r.chunks)
    <3>1. Len(s.chunks) \in Nat
      BY LenProperties DEF StackOK, StackType
    <3> QED
      BY <1>0, <1>3, <3>1
  <2>2. Len(s.chunks[i]) \in Nat
    <3>1. s.chunks[i] \in Seq(EntryType)
      BY ElementOfSeq DEF StackOK, StackType
    <3> QED
      BY <3>1, LenProperties
  <2>3. CASE i = l
    BY <1>6, <1>7, <1>8, <2>1, <2>3 DEF c
  <2>4. CASE i # l
    <3>1. t.chunks[i] = s.chunks[i]
      BY <1>7, <1>8, <2>1, <2>4
    <3> QED
      BY <2>2, <3>1
  <2> QED
    BY <2>3, <2>4
<1>22. Len(s.chunks) <= Len(t.chunks)
  BY <1>1, <1>7, <1>8
<1> QED
  BY <1>12, <1>13, <1>19, <1>20, <1>21, <1>22

\* A value is written, wherever in the memory of the stack.
Written(s, pl, v) == [s EXCEPT !.chunks[pl[1]][pl[2]].v = v]

LEMMA AddToWrites ==
  ASSUME NEW s, NEW pl, NEW v
  PROVE  AddTo(s, pl, v) = Written(s, pl, At(s, pl).v + v)
BY DEF AddTo, Written, At

Rewritten(t, s, pl, v) ==
  /\ StackOK(t) /\ Places(t) = Places(s)
  /\ Len(t.chunks) = Len(s.chunks)
  /\ \A i \in 1 .. Len(s.chunks) : Len(t.chunks[i]) = Len(s.chunks[i])
  /\ At(t, pl) = Entry(At(s, pl).k, v)
  /\ \A q \in Nat \X Nat : Owned(s, q) /\ q # pl => At(t, q) = At(s, q)

LEMMA StackWrite ==
  ASSUME NEW s, StackOK(s), NEW pl \in Nat \X Nat, Owned(s, pl), NEW v \in Nat \ {0},
         NEW t, t = Written(s, pl, v)
  PROVE  Rewritten(t, s, pl, v)
<1> DEFINE c == s.chunks[pl[1]]
           e == c[pl[2]]
           f == Entry(e.k, v)
           d == [c EXCEPT ![pl[2]] = f]
           k == [s.chunks EXCEPT ![pl[1]] = d]
<1>1. s \in StackType /\ s.chunks \in Seq(Seq(EntryType)) /\ Len(s.chunks) \in Nat
  <2>1. s \in StackType /\ s.chunks \in Seq(Seq(EntryType))
    BY DEF StackOK, StackType
  <2> QED
    BY <2>1, LenProperties
<1>2. pl[1] \in 1 .. Len(s.chunks) /\ pl[2] \in 1 .. Len(c) /\ c \in Seq(EntryType)
  <2>1. pl[1] \in 1 .. Len(s.chunks) /\ pl[2] \in 1 .. Len(c)
    BY DEF Owned
  <2> QED
    BY <1>1, <2>1, ElementOfSeq
<1>3. e \in EntryType /\ f \in EntryType
  <2>1. e \in EntryType
    BY <1>2, ElementOfSeq
  <2> QED
    BY <2>1 DEF Entry, EntryType
<1>4. t = [s EXCEPT !.chunks = k]
  <2>1. f = [e EXCEPT !.v = v]
    BY <1>3 DEF Entry, EntryType
  <2> HIDE DEF e, f
  <2>2. Written(s, pl, v) =
          [s EXCEPT !.chunks = [s.chunks EXCEPT ![pl[1]] = [c EXCEPT ![pl[2]] = [e EXCEPT !.v = v]]]]
    BY DEF e, Written
  <2> QED
    BY <2>1, <2>2
<1> HIDE DEF e, f
<1>5. /\ d \in Seq(EntryType) /\ Len(d) = Len(c)
      /\ \A j \in 1 .. Len(c) : d[j] = IF j = pl[2] THEN f ELSE c[j]
  BY <1>2, <1>3, ExceptSeq
<1> HIDE DEF d
<1>6. /\ k \in Seq(Seq(EntryType)) /\ Len(k) = Len(s.chunks)
      /\ \A j \in 1 .. Len(s.chunks) : k[j] = IF j = pl[1] THEN d ELSE s.chunks[j]
  <2> DEFINE T == Seq(EntryType)
  <2>1. s.chunks \in Seq(T) /\ pl[1] \in 1 .. Len(s.chunks) /\ d \in T
    BY <1>1, <1>2, <1>5
  <2> HIDE DEF T
  <2>2. /\ k \in Seq(T) /\ Len(k) = Len(s.chunks)
        /\ \A j \in 1 .. Len(s.chunks) : k[j] = IF j = pl[1] THEN d ELSE s.chunks[j]
    BY <2>1, ExceptSeq
  <2> QED
    BY <2>2 DEF T
<1> HIDE DEF k
<1>7. /\ t \in StackType /\ t.chunks = k /\ t.last = s.last /\ t.fill = s.fill
      /\ t.chunkSize = s.chunkSize /\ t.nrElements = s.nrElements
  <2>1. s = [chunks |-> s.chunks, last |-> s.last, chunkSize |-> s.chunkSize,
             fill |-> s.fill, nrElements |-> s.nrElements]
    BY <1>1 DEF StackType
  <2>2. t = [chunks |-> k, last |-> s.last, chunkSize |-> s.chunkSize,
             fill |-> s.fill, nrElements |-> s.nrElements]
    BY <1>4, <2>1
  <2>3. /\ s.last \in Nat \ {0} /\ s.chunkSize \in Nat \ {0} /\ s.fill \in Nat
        /\ s.nrElements \in Nat
    BY <1>1 DEF StackType
  <2>4. k \in Seq(Seq(EntryType))
    BY <1>6
  <2>5. \A a, b, m, g, w :
          /\ a \in Seq(Seq(EntryType)) /\ b \in Nat \ {0} /\ m \in Nat \ {0}
          /\ g \in Nat /\ w \in Nat
          => [chunks |-> a, last |-> b, chunkSize |-> m, fill |-> g, nrElements |-> w]
               \in StackType
    BY DEF StackType
  <2>6. t \in StackType
    BY <2>2, <2>3, <2>4, <2>5
  <2>7. /\ t.chunks = k /\ t.last = s.last /\ t.fill = s.fill
        /\ t.chunkSize = s.chunkSize /\ t.nrElements = s.nrElements
    BY <2>2
  <2> QED
    BY <2>6, <2>7
<1>8. \A i \in 1 .. Len(s.chunks) : Len(t.chunks[i]) = Len(s.chunks[i])
  BY <1>5, <1>6, <1>7 DEF c
<1>9. \A i : BlockSize(t, i) = BlockSize(s, i)
  BY <1>7 DEF BlockSize
<1>10. Places(t) = Places(s)
  BY <1>7, <1>9 DEF Places
<1>11. StackOK(t)
  <2>1. \A i \in 1 .. s.last : i \in 1 .. Len(s.chunks)
    BY <1>1 DEF StackOK, StackType, Chunked
  <2>2. Chunked(t)
    <3>1. /\ s.last <= Len(s.chunks) /\ s.fill <= s.chunkSize
          /\ s.chunkSize = initialSize * 2 ^ (s.last - 1)
          /\ s.last > 1 => s.fill > 0
      BY DEF StackOK, Chunked
    <3>2. \A i \in 1 .. s.last : BlockSize(s, i) \in Nat /\ BlockSize(s, i) <= Len(s.chunks[i])
      BY DEF StackOK, Chunked
    <3>3. \A i \in 1 .. t.last : BlockSize(t, i) \in Nat /\ BlockSize(t, i) <= Len(t.chunks[i])
      BY <1>7, <1>8, <1>9, <2>1, <3>2
    <3>4. Len(t.chunks) = Len(s.chunks)
      BY <1>6, <1>7
    <3> QED
      BY <1>7, <3>1, <3>3, <3>4 DEF Chunked
  <2>3. Visited(t)
    <3>1. StackSize(t) = StackSize(s)
      BY <1>7 DEF StackSize
    <3>2. Visited(s)
      BY DEF StackOK
    <3> QED
      BY <1>7, <1>9, <1>10, <3>1, <3>2 DEF Visited
  <2> QED
    BY <1>7, <2>2, <2>3 DEF StackOK
<1>12. At(t, pl) = Entry(At(s, pl).k, v)
  BY <1>2, <1>5, <1>6, <1>7 DEF At, f, e, c
<1>13. ASSUME NEW q \in Nat \X Nat, Owned(s, q), q # pl
       PROVE  At(t, q) = At(s, q)
  <2>1. q[1] \in 1 .. Len(s.chunks) /\ q[2] \in 1 .. Len(s.chunks[q[1]])
    BY <1>13 DEF Owned
  <2>2. CASE q[1] # pl[1]
    BY <1>6, <1>7, <2>1, <2>2 DEF At
  <2>3. CASE q[1] = pl[1]
    <3>1. q[2] # pl[2]
      BY <1>13, <2>3
    <3> QED
      BY <1>2, <1>5, <1>6, <1>7, <2>1, <2>3, <3>1 DEF At, c
  <2> QED
    BY <2>2, <2>3
<1>14. Len(t.chunks) = Len(s.chunks)
  BY <1>6, <1>7
<1> QED
  BY <1>8, <1>10, <1>11, <1>12, <1>13, <1>14 DEF Rewritten

\* update(): the value of an entry that an iteration finds.
Updated(t, s, i, v) ==
  /\ StackOK(t) /\ Places(t) = Places(s) /\ Len(Items(t)) = Len(Items(s))
  /\ Items(t)[i] = Entry(Items(s)[i].k, v)
  /\ \A j \in 1 .. Len(Items(s)) : j # i => Items(t)[j] = Items(s)[j]

LEMMA StackUpdate ==
  ASSUME NEW s, StackOK(s), NEW i \in 1 .. Len(Items(s)), NEW v \in Nat \ {0},
         NEW t, t = Written(s, Places(s)[i], v)
  PROVE  Updated(t, s, i, v)
<1>0. PICK P : P = Places(s)
  OBVIOUS
<1>1. /\ P \in Seq(Nat \X Nat) /\ Len(P) \in Nat /\ Len(Items(s)) = Len(P)
      /\ \A j \in 1 .. Len(P) : Owned(s, P[j]) /\ Items(s)[j] = At(s, P[j])
  BY <1>0, StackPlaces, StackItems
<1>2. \A j \in 1 .. Len(P) : P[j] \in Nat \X Nat
  BY <1>1, ElementOfSeq
<1>7. PICK pl : pl = P[i]
  OBVIOUS
<1>3. pl \in Nat \X Nat /\ Owned(s, pl)
  BY <1>1, <1>2, <1>7
<1>4. /\ StackOK(t) /\ Places(t) = P
      /\ At(t, pl) = Entry(At(s, pl).k, v)
      /\ \A q \in Nat \X Nat : Owned(s, q) /\ q # pl => At(t, q) = At(s, q)
  <2>1. t = Written(s, pl, v)
    BY <1>0, <1>7
  <2>2. Rewritten(t, s, pl, v)
    BY <1>3, <2>1, StackWrite
  <2> QED
    BY <1>0, <2>2 DEF Rewritten
<1>5. Len(Items(t)) = Len(P) /\ \A j \in 1 .. Len(P) : Items(t)[j] = At(t, P[j])
  <2>1. Len(Items(t)) = Len(Places(t)) /\ \A j \in 1 .. Len(Items(t)) : Items(t)[j] = At(t, Places(t)[j])
    BY <1>4, StackItems
  <2> QED
    BY <1>4, <2>1
<1>6. \A j \in 1 .. Len(P) : j # i => P[j] # pl
  BY <1>0, <1>1, <1>7 DEF StackOK, Visited
<1>8. \A j \in 1 .. Len(P) : j # i => At(t, P[j]) = At(s, P[j])
  BY <1>1, <1>2, <1>4, <1>6
<1> QED
  BY <1>0, <1>1, <1>4, <1>5, <1>7, <1>8 DEF Updated

-----------------------------------------------------------------------------
(* Sums over the elements of a finite set *)

LEMMA SetToSeqFacts ==
  ASSUME NEW S, IsFiniteSet(S)
  PROVE  /\ SetToSeq(S) \in Seq(S) /\ Len(SetToSeq(S)) \in Nat
         /\ DOMAIN SetToSeq(S) = 1 .. Len(SetToSeq(S))
         /\ \A i, j \in 1 .. Len(SetToSeq(S)) : SetToSeq(S)[i] = SetToSeq(S)[j] => i = j
         /\ \A x \in S : \E i \in 1 .. Len(SetToSeq(S)) : SetToSeq(S)[i] = x
<1> DEFINE c == Cardinality(S)
           q == SetToSeq(S)
<1>1. c \in Nat /\ ExistsBijection(1 .. c, S)
  BY FS_CardinalityType
<1>2. PICK b \in Bijection(1 .. c, S) : TRUE
  BY <1>1 DEF ExistsBijection
<1>3. b \in [1 .. c -> S] /\ IsInjective(b)
  BY <1>2 DEF Bijection, Injection
<1>4. q \in [1 .. c -> S] /\ IsInjective(q)
  BY <1>3 DEF SetToSeq
<1> HIDE DEF q
<1>5. q \in Seq(S) /\ Len(q) = c /\ DOMAIN q = 1 .. c
  <2> HIDE DEF c
  <2> QED
    BY <1>1, <1>4
<1>6. q \in Surjection(1 .. c, S)
  <2>1. IsFiniteSet(1 .. c) /\ Cardinality(1 .. c) = c
    <3>1. 1 \in Int /\ c \in Int
      BY <1>1
    <3>2. Cardinality(1 .. c) = IF 1 > c THEN 0 ELSE c - 1 + 1
      BY <3>1, FS_Interval
    <3> HIDE DEF c
    <3>3. IsFiniteSet(1 .. c)
      BY <3>1, FS_Interval
    <3> QED
      BY <1>1, <3>2, <3>3
  <2>2. q \in Injection(1 .. c, S)
    BY <1>4 DEF Injection
  <2>3. Cardinality(1 .. c) = Cardinality(S)
    BY <2>1
  <2> HIDE DEF c
  <2> QED
    BY <2>2, <2>3, FS_Injection
<1>7. \A x \in S : \E i \in 1 .. c : q[i] = x
  BY <1>6 DEF Surjection
<1> QED
  BY <1>1, <1>4, <1>5, <1>7 DEF IsInjective, q

\* What a function is for the elements of a set, one by one.
Listed(S, f) == [i \in Nat |-> IF i \in 1 .. Len(SetToSeq(S)) THEN f[SetToSeq(S)[i]] ELSE 0]
Total(S, f) == Sums(Listed(S, f))[Len(SetToSeq(S))]

LEMMA TotalType ==
  ASSUME NEW S, IsFiniteSet(S), NEW f \in [S -> Nat]
  PROVE  Listed(S, f) \in [Nat -> Nat] /\ Total(S, f) \in Nat /\ Len(SetToSeq(S)) \in Nat
<1>1. Len(SetToSeq(S)) \in Nat /\ SetToSeq(S) \in Seq(S)
  BY SetToSeqFacts
<1>2. \A i \in 1 .. Len(SetToSeq(S)) : f[SetToSeq(S)[i]] \in Nat
  BY <1>1, ElementOfSeq
<1>3. Listed(S, f) \in [Nat -> Nat]
  BY <1>2 DEF Listed
<1> QED
  BY <1>1, <1>3, SumsFacts DEF Total

\* A function that differs for one element.
LEMMA TotalChange ==
  ASSUME NEW S, IsFiniteSet(S), NEW f \in [S -> Nat], NEW g \in [S -> Nat], NEW x \in S,
         \A y \in S : y # x => g[y] = f[y]
  PROVE  Total(S, g) + f[x] = Total(S, f) + g[x]
<1> DEFINE q == SetToSeq(S)
<1>1. /\ q \in Seq(S) /\ Len(q) \in Nat
      /\ \A i, j \in 1 .. Len(q) : q[i] = q[j] => i = j
  BY SetToSeqFacts
<1>2. PICK i \in 1 .. Len(q) : q[i] = x
  BY SetToSeqFacts
<1> DEFINE a == Listed(S, f)
           b == Listed(S, g)
<1>3. a \in [Nat -> Nat] /\ b \in [Nat -> Nat]
  BY TotalType
<1>4. \A j \in 1 .. Len(q) : a[j] = f[q[j]] /\ b[j] = g[q[j]] /\ q[j] \in S
  BY <1>1, ElementOfSeq DEF Listed
<1>5. \A j \in 1 .. Len(q) : j # i => a[j] = b[j]
  <2>1. ASSUME NEW j \in 1 .. Len(q), j # i
        PROVE  a[j] = b[j]
    <3>1. q[j] # x
      BY <1>1, <1>2, <2>1
    <3> QED
      BY <1>4, <3>1
  <2> QED
    BY <2>1
<1>6. a[i] = f[x] /\ b[i] = g[x]
  BY <1>2, <1>4
<1> HIDE DEF a, b, q
<1>7. Sums(b)[Len(q)] + a[i] = Sums(a)[Len(q)] + b[i]
  BY <1>1, <1>3, <1>5, SumsChange
<1> QED
  BY <1>6, <1>7 DEF Total, a, b, q

LEMMA TotalZero ==
  ASSUME NEW S, IsFiniteSet(S), NEW f \in [S -> Nat], \A x \in S : f[x] = 0
  PROVE  Total(S, f) = 0
<1> DEFINE a == Listed(S, f)
           n == Len(SetToSeq(S))
<1>1. a \in [Nat -> Nat] /\ n \in Nat /\ SetToSeq(S) \in Seq(S)
  BY TotalType, SetToSeqFacts
<1>2. \A i \in 1 .. n : a[i] = 0
  <2>1. ASSUME NEW i \in 1 .. n
        PROVE  a[i] = 0
    <3>1. SetToSeq(S)[i] \in S
      BY <1>1, ElementOfSeq
    <3> QED
      BY <1>1, <3>1 DEF Listed
  <2> QED
    BY <2>1
<1> HIDE DEF a, n
<1>3. CASE n = 0
  BY <1>1, <1>3, SumsFacts DEF Total, a, n
<1>4. CASE n # 0
  <2>1. n \in Nat \ {0} /\ n <= n /\ n \in 1 .. n
    BY <1>1, <1>4
  <2>2. Sums(a)[n] = IF n <= n THEN a[n] ELSE 0
    BY <1>1, <1>2, <2>1, SumsOne
  <2> QED
    BY <1>2, <2>1, <2>2 DEF Total, a, n
<1> QED
  BY <1>3, <1>4

LEMMA TotalSame ==
  ASSUME NEW S, IsFiniteSet(S), NEW f \in [S -> Nat], NEW g \in [S -> Nat],
         \A x \in S : f[x] = g[x]
  PROVE  Total(S, f) = Total(S, g)
<1>1. f = g
  OBVIOUS
<1> QED
  BY <1>1

\* The elements for which the function is not 0 are enough.
LEMMA TotalSubset ==
  ASSUME NEW S, IsFiniteSet(S), NEW T \in SUBSET S, NEW f \in [S -> Nat],
         \A x \in S \ T : f[x] = 0,
         NEW h \in [T -> Nat], \A x \in T : h[x] = f[x]
  PROVE  Total(S, f) = Total(T, h)
<1>0. IsFiniteSet(T)
  BY FS_Subset
<1>9. ASSUME NEW u \in [S -> Nat], NEW w \in [S -> Nat], NEW z \in S,
             \A y \in S : y # z => w[y] = u[y]
      PROVE  Total(S, w) + u[z] = Total(S, u) + w[z]
  BY <1>9, TotalChange
<1> DEFINE q == SetToSeq(T)
           a == Listed(T, h)
           F(k) == {q[i] : i \in 1 .. k}
           g(k) == [x \in S |-> IF x \in F(k) THEN f[x] ELSE 0]
           P == {k \in Nat : k <= Len(q) => Total(S, g(k)) = Sums(a)[k]}
<1>1. /\ q \in Seq(T) /\ Len(q) \in Nat
      /\ \A i, j \in 1 .. Len(q) : q[i] = q[j] => i = j
      /\ \A x \in T : \E i \in 1 .. Len(q) : q[i] = x
  BY <1>0, SetToSeqFacts
<1>2. a \in [Nat -> Nat]
  BY <1>0, TotalType
<1>3. \A k : g(k) \in [S -> Nat]
  OBVIOUS
<1>4. 0 \in P
  <2>1. \A x \in S : g(0)[x] = 0
    OBVIOUS
  <2>2. Total(S, g(0)) = 0
    <3> DEFINE z == g(0)
    <3>1. z \in [S -> Nat] /\ \A x \in S : z[x] = 0
      OBVIOUS
    <3> HIDE DEF z
    <3>2. Total(S, z) = 0
      BY <3>1, TotalZero
    <3> QED
      BY <3>2 DEF z
  <2> HIDE DEF g, a
  <2> QED
    BY <1>2, <2>2, SumsFacts
<1>5. ASSUME NEW k \in Nat, k \in P
      PROVE  k + 1 \in P
  <2> SUFFICES ASSUME k + 1 <= Len(q)
               PROVE  Total(S, g(k + 1)) = Sums(a)[k + 1]
    OBVIOUS
  <2> DEFINE x == q[k + 1]
  <2>1. k + 1 \in 1 .. Len(q) /\ k <= Len(q)
    BY <1>1
  <2>2. x \in T /\ x \in S
    BY <1>1, <2>1, ElementOfSeq
  <2>3. a[k + 1] = f[x]
    BY <2>1, <2>2 DEF Listed
  <2>4. x \notin F(k)
    <3> SUFFICES ASSUME NEW i \in 1 .. k, q[k + 1] = q[i]
                 PROVE  FALSE
      OBVIOUS
    <3>1. i \in 1 .. Len(q) /\ i # k + 1
      BY <1>1, <2>1
    <3> QED
      BY <1>1, <2>1, <3>1
  <2>5. x \in F(k + 1) /\ \A y \in S : y # x => (y \in F(k + 1) <=> y \in F(k))
    <3>1. ASSUME NEW y \in S, y # x, y \in F(k + 1)
          PROVE  y \in F(k)
      <4>1. PICK i \in 1 .. k + 1 : y = q[i]
        BY <3>1
      <4>2. i # k + 1
        BY <3>1, <4>1
      <4>3. i \in 1 .. k
        BY <4>2
      <4> QED
        BY <4>1, <4>3
    <3>2. \A i \in 1 .. k : i \in 1 .. k + 1
      OBVIOUS
    <3>3. k + 1 \in 1 .. k + 1
      OBVIOUS
    <3> QED
      BY <3>1, <3>2, <3>3
  <2>6. Sums(a)[k + 1] = Sums(a)[k] + a[k + 1] /\ Sums(a)[k] \in Nat
    <3> HIDE DEF a
    <3> QED
      BY <1>2, SumsFacts
  <2>7. \A y \in S : y # x => g(k + 1)[y] = g(k)[y]
    BY <2>5
  <2>8. g(k)[x] = 0 /\ g(k + 1)[x] = f[x]
    BY <2>2, <2>4, <2>5
  <2>9. Total(S, g(k + 1)) + g(k)[x] = Total(S, g(k)) + g(k + 1)[x]
    <3> HIDE DEF g, x
    <3> QED
      BY ZenonT(60), <1>3, <1>9, <2>2, <2>7
  <2>10. Total(S, g(k)) = Sums(a)[k]
    BY <1>5, <2>1
  <2>11. Total(S, g(k + 1)) \in Nat
    <3> HIDE DEF g
    <3> QED
      BY <1>3, TotalType
  <2>12. f[x] \in Nat
    BY <2>2
  <2> HIDE DEF g, a, x
  <2> QED
    BY <2>3, <2>6, <2>8, <2>9, <2>10, <2>11, <2>12
<1>6. Nat \subseteq P
  <2> HIDE DEF P
  <2> QED
    BY <1>4, <1>5, SetInduction
<1>7. Total(S, g(Len(q))) = Sums(a)[Len(q)]
  <2>1. Len(q) \in P
    BY <1>1, <1>6
  <2> HIDE DEF g, a, q
  <2> QED
    BY <1>1, <2>1
<1>8. g(Len(q)) = f
  <2>0. \A i \in 1 .. Len(q) : q[i] \in T
    BY <1>1, ElementOfSeq
  <2>1. \A x \in S : x \in F(Len(q)) <=> x \in T
    <3>1. \A x \in T : x \in F(Len(q))
      <4> HIDE DEF q
      <4> QED
        BY <1>1
    <3> HIDE DEF q
    <3> QED
      BY <2>0, <3>1
  <2>2. \A x \in S : g(Len(q))[x] = f[x]
    BY <2>1
  <2> QED
    BY <2>2
<1> QED
  BY <1>7, <1>8 DEF Total

\* Rows that are given to the elements of a set, each to one.
Given(of, R, x) == {r \in R : of[r] = x}

LEMMA TotalOfRows ==
  ASSUME NEW S, IsFiniteSet(S), NEW of, NEW R,
         NEW f \in [S -> Nat], \A x \in S : f[x] = SumOver(Given(of, R, x)),
         \A r \in R : of[r] \in S
  PROVE  Total(S, f) = SumOver(R)
<1> DEFINE q == SetToSeq(S)
           a == Listed(S, f)
           F(k) == {r \in R : \E i \in 1 .. k : of[r] = q[i]}
           P == {k \in Nat : k <= Len(q) => SumOver(F(k)) = Sums(a)[k]}
<1>1. /\ q \in Seq(S) /\ Len(q) \in Nat
      /\ \A i, j \in 1 .. Len(q) : q[i] = q[j] => i = j
      /\ \A x \in S : \E i \in 1 .. Len(q) : q[i] = x
  BY SetToSeqFacts
<1>2. a \in [Nat -> Nat]
  BY TotalType
<1>3. 0 \in P
  <2>1. F(0) = {}
    OBVIOUS
  <2> HIDE DEF F, a
  <2> QED
    BY <1>2, <2>1, SumOverEmpty, SumsFacts
<1>4. ASSUME NEW k \in Nat, k \in P
      PROVE  k + 1 \in P
  <2> SUFFICES ASSUME k + 1 <= Len(q)
               PROVE  SumOver(F(k + 1)) = Sums(a)[k + 1]
    <3> HIDE DEF F, a, q
    <3> QED
      OBVIOUS
  <2> DEFINE x == q[k + 1]
             X == Given(of, R, x)
  <2>1. k + 1 \in 1 .. Len(q) /\ k <= Len(q)
    BY <1>1
  <2>2. x \in S
    BY <1>1, <2>1, ElementOfSeq
  <2>3. a[k + 1] = SumOver(X)
    <3>1. a[k + 1] = f[x]
      BY <2>1 DEF Listed
    <3> QED
      BY <2>2, <3>1
  <2>4. F(k) \cap X = {}
    <3> SUFFICES ASSUME NEW i \in 1 .. k, q[k + 1] = q[i]
                 PROVE  FALSE
      BY DEF Given
    <3>1. i \in 1 .. Len(q) /\ i # k + 1
      BY <1>1, <2>1
    <3> QED
      BY <1>1, <2>1, <3>1
  <2>5. F(k + 1) = F(k) \cup X
    <3>1. \A i : i \in 1 .. k + 1 <=> (i \in 1 .. k \/ i = k + 1)
      OBVIOUS
    <3> HIDE DEF q
    <3> QED
      BY <3>1 DEF Given
  <2>6. Sums(a)[k + 1] = Sums(a)[k] + a[k + 1]
    <3> HIDE DEF a
    <3> QED
      BY <1>2, SumsFacts
  <2>7. SumOver(F(k)) = Sums(a)[k]
    BY <1>4, <2>1
  <2> HIDE DEF F, X, a
  <2>8. SumOver(F(k) \cup X) = SumOver(F(k)) + SumOver(X)
    BY <2>4, SumOverUnion
  <2> QED
    BY <2>3, <2>5, <2>6, <2>7, <2>8
<1>5. Nat \subseteq P
  <2> HIDE DEF P
  <2> QED
    BY <1>3, <1>4, SetInduction
<1>6. SumOver(F(Len(q))) = Sums(a)[Len(q)]
  <2>1. Len(q) \in P
    BY <1>1, <1>5
  <2> HIDE DEF F, a, q
  <2> QED
    BY <1>1, <2>1
<1>7. F(Len(q)) = R
  <2>1. \A r \in R : r \in F(Len(q))
    <3> HIDE DEF q
    <3> QED
      BY <1>1
  <2> QED
    BY <2>1
<1> QED
  BY <1>6, <1>7 DEF Total

-----------------------------------------------------------------------------
(* What a table finds, and what it creates *)

\* The places and the items of a stack, by their numbers.
LEMMA Found ==
  ASSUME NEW s, StackOK(s), NEW places, places = ToSet(Places(s)), NEW g
  PROVE  \/ /\ FindIn(places, s, g) = Absent
            /\ \A i \in 1 .. Len(Items(s)) : Items(s)[i].k # g
         \/ \E i \in 1 .. Len(Items(s)) :
              /\ FindIn(places, s, g) = Places(s)[i] /\ Items(s)[i].k = g
              /\ Places(s)[i] \notin {Absent, Unknown}
              /\ Places(s)[i] \in Nat \X Nat /\ Owned(s, Places(s)[i])
<1>1. PICK P : P = Places(s)
  OBVIOUS
<1>2. PICK I : I = Items(s)
  OBVIOUS
<1>3. /\ P \in Seq(Nat \X Nat) /\ DOMAIN P = 1 .. Len(P) /\ Len(I) = Len(P)
      /\ \A j \in 1 .. Len(P) : Owned(s, P[j]) /\ I[j] = At(s, P[j])
  BY <1>1, <1>2, StackPlaces, StackItems
<1>4. \A j \in 1 .. Len(P) : P[j] \in Nat \X Nat
  BY <1>3, ElementOfSeq
<1>5. \A j \in 1 .. Len(P) : P[j] \notin {Absent, Unknown}
  <2>1. ASSUME NEW j \in 1 .. Len(P)
        PROVE  P[j][1] # 0
    BY <1>3 DEF Owned
  <2>2. Absent[1] = 0 /\ Unknown[1] = 0
    BY DEF Absent, Unknown
  <2> QED
    BY <2>1, <2>2
<1>6. places = {P[j] : j \in 1 .. Len(P)}
  BY <1>1, <1>3 DEF ToSet
<1> DEFINE found == {pl \in places : At(s, pl).k = g}
<1>7. CASE found = {}
  <2>1. FindIn(places, s, g) = Absent
    BY <1>7 DEF FindIn
  <2>2. \A i \in 1 .. Len(I) : I[i].k # g
    BY <1>3, <1>6, <1>7
  <2> QED
    BY <1>2, <2>1, <2>2
<1>8. CASE found # {}
  <2>1. FindIn(places, s, g) \in found
    BY <1>8 DEF FindIn
  <2>2. PICK j \in 1 .. Len(P) : FindIn(places, s, g) = P[j]
    BY <1>6, <2>1
  <2>3. At(s, P[j]).k = g
    BY <2>1, <2>2
  <2> QED
    BY <1>1, <1>2, <1>3, <1>4, <1>5, <2>2, <2>3
<1> QED
  BY <1>7, <1>8

\* A stack does not lose memory.
Extends(t, s) ==
  /\ Len(s.chunks) <= Len(t.chunks)
  /\ \A i \in 1 .. Len(s.chunks) : Len(s.chunks[i]) <= Len(t.chunks[i])

LEMMA ExtendsOwned ==
  ASSUME NEW s, StackOK(s), NEW t, StackOK(t), Extends(t, s), NEW pl, Owned(s, pl)
  PROVE  Owned(t, pl)
<1>1. s.chunks \in Seq(Seq(EntryType)) /\ t.chunks \in Seq(Seq(EntryType))
  BY DEF StackOK, StackType
<1>2. Len(s.chunks) \in Nat /\ Len(t.chunks) \in Nat
  BY <1>1, LenProperties
<1>3. pl[1] \in 1 .. Len(s.chunks) /\ pl[2] \in 1 .. Len(s.chunks[pl[1]])
  BY DEF Owned
<1>4. pl[1] \in 1 .. Len(t.chunks)
  BY <1>2, <1>3 DEF Extends
<1>5. s.chunks[pl[1]] \in Seq(EntryType) /\ t.chunks[pl[1]] \in Seq(EntryType)
  BY <1>1, <1>3, <1>4, ElementOfSeq
<1>6. Len(s.chunks[pl[1]]) \in Nat /\ Len(t.chunks[pl[1]]) \in Nat
  BY <1>5, LenProperties
<1>7. Len(s.chunks[pl[1]]) <= Len(t.chunks[pl[1]])
  BY <1>3 DEF Extends
<1> QED
  BY SMTT(30), <1>3, <1>4, <1>6, <1>7 DEF Owned

LEMMA Cleared ==
  ASSUME NEW s, StackOK(s)
  PROVE  /\ StackOK(ClearStack(s)) /\ Places(ClearStack(s)) = <<>> /\ Items(ClearStack(s)) = <<>>
         /\ ClearStack(s).chunks = s.chunks
<1>1. PICK t : t = ClearStack(s)
  OBVIOUS
<1>2. s \in StackType
  BY DEF StackOK
<1>3. t = [chunks |-> s.chunks, last |-> 1, chunkSize |-> initialSize, fill |-> 0,
           nrElements |-> 0]
  BY <1>1, <1>2 DEF ClearStack, StackType
<1>4. t \in StackType
  BY <1>2, <1>3, ContainersAssumption DEF StackType
<1>5. Len(t.chunks) > 0
  <2>1. s.last \in Nat \ {0} /\ s.last <= Len(s.chunks) /\ Len(s.chunks) \in Nat
    BY LenProperties DEF StackOK, StackType, Chunked
  <2> QED
    BY <1>3, <2>1
<1>6. t.last = 1 /\ t.chunkSize = initialSize /\ t.fill = 0 /\ t.nrElements = 0
      /\ t.chunks = s.chunks
  BY <1>3
<1>7. StackOK(t) /\ Places(t) = <<>> /\ Items(t) = <<>>
  BY <1>4, <1>5, <1>6, StackClear
<1> QED
  BY <1>1, <1>6, <1>7

\* A new entry in a table, which may first have been cleared.
LEMMA Created ==
  ASSUME NEW s, StackOK(s), NEW places, places = ToSet(Places(s)), NEW e \in EntryType,
         NEW full \in BOOLEAN,
         NEW t, t = EmplaceBack(IF full THEN ClearStack(s) ELSE s, e)
  PROVE  /\ StackOK(t) /\ Extends(t, s)
         /\ (IF full THEN {} ELSE places) \cup {Back(t)} = ToSet(Places(t))
         /\ Items(t) = Append(IF full THEN <<>> ELSE Items(s), e)
<1>1. PICK u : u = IF full THEN ClearStack(s) ELSE s
  OBVIOUS
<1>2. /\ StackOK(u) /\ u.chunks = s.chunks
      /\ Places(u) = IF full THEN <<>> ELSE Places(s)
      /\ Items(u) = IF full THEN <<>> ELSE Items(s)
  BY <1>1, Cleared
<1>3. /\ StackOK(t) /\ Items(t) = Append(Items(u), e)
      /\ Places(t) = Append(Places(u), Back(t)) /\ Back(t) \in Nat \X Nat
      /\ Len(u.chunks) <= Len(t.chunks)
      /\ \A i \in 1 .. Len(u.chunks) : Len(u.chunks[i]) <= Len(t.chunks[i])
  <2>1. t = EmplaceBack(u, e)
    BY <1>1
  <2> QED
    BY <1>2, <2>1, StackEmplace
<1>4. Extends(t, s)
  BY <1>2, <1>3 DEF Extends
<1>5. ToSet(Places(t)) = ToSet(Places(u)) \cup {Back(t)}
  <2>1. Places(u) \in Seq(Nat \X Nat)
    BY <1>2, StackPlaces
  <2> HIDE DEF Places
  <2>2. PICK p : p = Places(u)
    OBVIOUS
  <2>3. PICK b : b = Back(t)
    OBVIOUS
  <2>4. PICK q : q = Append(p, b)
    OBVIOUS
  <2>5. /\ q \in Seq(Nat \X Nat) /\ Len(q) = Len(p) + 1
        /\ \A i \in 1 .. Len(p) : q[i] = p[i]
        /\ q[Len(p) + 1] = b
    BY <1>3, <2>1, <2>2, <2>3, <2>4, AppendProperties
  <2>6. Len(p) \in Nat /\ DOMAIN p = 1 .. Len(p) /\ DOMAIN q = 1 .. Len(q)
    BY <2>1, <2>2, <2>5, LenProperties
  <2>7. \A i : i \in 1 .. Len(q) <=> (i \in 1 .. Len(p) \/ i = Len(p) + 1)
    BY <2>5, <2>6
  <2>8. {q[i] : i \in 1 .. Len(q)} = {p[i] : i \in 1 .. Len(p)} \cup {b}
    BY <2>5, <2>7
  <2>9. Places(t) = q
    BY <1>3, <2>2, <2>3, <2>4
  <2>10. ToSet(q) = ToSet(p) \cup {b}
    BY <2>6, <2>8 DEF ToSet
  <2> QED
    BY <2>2, <2>3, <2>9, <2>10
<1>6. ToSet(Places(u)) = IF full THEN {} ELSE places
  <2>1. ToSet(<<>>) = {}
    BY DEF ToSet
  <2> QED
    BY <1>2, <2>1
<1> QED
  BY <1>2, <1>3, <1>4, <1>5, <1>6

-----------------------------------------------------------------------------
(* Partitions of a hash *)

LEMMA PowerAbove ==
  ASSUME NEW n \in Nat
  PROVE  n < 2 ^ n
<1> DEFINE P == {k \in Nat : k < 2 ^ k}
<1>1. 0 \in P
  BY PowerDoubles
<1>2. ASSUME NEW k \in Nat, k \in P
      PROVE  k + 1 \in P
  <2>1. 2 ^ (k + 1) = 2 * 2 ^ k /\ 2 ^ k \in Nat
    BY PowerDoubles
  <2>2. k < 2 ^ k
    BY <1>2
  <2>3. \A x, y, z \in Nat : x < y /\ z = 2 * y => x + 1 < z
    OBVIOUS
  <2>4. k + 1 < 2 ^ (k + 1)
    BY <2>1, <2>2, <2>3
  <2> QED
    BY <2>4
<1>3. Nat \subseteq P
  <2> HIDE DEF P
  <2> QED
    BY <1>1, <1>2, SetInduction
<1> QED
  BY <1>3

LEMMA PowerGrows ==
  ASSUME NEW m \in Nat, NEW n \in Nat, m <= n
  PROVE  2 ^ m <= 2 ^ n
<1>1. n - m \in Nat /\ m + (n - m) = n
  OBVIOUS
<1>2. PICK k \in Nat : k = n - m
  BY <1>1
<1>3. 2 ^ (m + k) = 2 ^ m * 2 ^ k
  BY PowerAdds
<1>4. 2 ^ m \in Nat \ {0} /\ 2 ^ k \in Nat \ {0}
  BY PowerDoubles
<1>5. \A x, y \in Nat \ {0} : x <= x * y
  OBVIOUS
<1>6. 2 ^ m <= 2 ^ m * 2 ^ k
  BY <1>4, <1>5
<1>7. m + k = n
  BY <1>1, <1>2
<1> QED
  BY <1>3, <1>6, <1>7

Bits == BitLength(nrPartitions)
Shift == HashBits - Bits
Parts == 0 .. 2 ^ Bits - 1
\* The partition of a group.
PartNr(g) == HashOf(g) \div 2 ^ Shift

LEMMA BitsFacts == Bits \in Nat /\ Shift \in Nat /\ Shift + Bits = HashBits
<1>1. PICK n : n = nrPartitions
  OBVIOUS
<1>2. n \in Nat \ {0} /\ n < 2 ^ HashBits /\ HashBits \in Nat
  <2>1. n \in 1 .. 2 ^ HashBits - 1 /\ HashBits \in Nat
    BY <1>1, GroupByAssumption, ContainersAssumption
  <2>2. 2 ^ HashBits \in Nat
    BY <2>1, PowerDoubles
  <2>3. \A x \in Nat : \A y \in 1 .. x - 1 : y \in Nat \ {0} /\ y < x
    OBVIOUS
  <2> QED
    BY <2>1, <2>2, <2>3
<1> DEFINE T == {b \in Nat : n < 2 ^ b}
<1>3. n \in T
  BY <1>2, PowerAbove
<1>4. PICK b \in T : \A c \in T : b <= c
  BY <1>3, LeastElement
<1>5. b \in Nat /\ n < 2 ^ b /\ b <= n
  BY <1>3, <1>4
<1>6. b # 0
  <2> SUFFICES ASSUME b = 0
               PROVE  FALSE
    OBVIOUS
  <2>1. 2 ^ b = 1
    BY PowerDoubles
  <2>2. n < 1
    BY <1>5, <2>1
  <2> QED
    BY <1>2, <2>2
<1>7. 2 ^ (b - 1) <= n
  <2>1. b - 1 \in Nat /\ ~(b <= b - 1)
    BY <1>5, <1>6
  <2>2. b - 1 \notin T
    BY <1>4, <2>1
  <2>3. 2 ^ (b - 1) \in Nat
    BY <2>1, PowerDoubles
  <2>4. ~(n < 2 ^ (b - 1))
    BY <2>1, <2>2
  <2> QED
    BY <1>2, <2>3, <2>4
<1>8. b \in 1 .. n
  BY <1>2, <1>5, <1>6
<1>9. \E c \in 1 .. n : 2 ^ (c - 1) <= n /\ n < 2 ^ c
  BY <1>5, <1>7, <1>8
<1>10. PICK c : c = BitLength(n)
  OBVIOUS
<1>11. c \in 1 .. n /\ 2 ^ (c - 1) <= n /\ n < 2 ^ c
  BY <1>9, <1>10 DEF BitLength
<1>12. c \in Nat /\ c - 1 \in Nat
  BY <1>2, <1>11
<1>13. c - 1 < HashBits
  <2> SUFFICES ASSUME HashBits <= c - 1
               PROVE  FALSE
    BY <1>2, <1>12
  <2>1. 2 ^ HashBits <= 2 ^ (c - 1)
    BY <1>2, <1>12, PowerGrows
  <2>2. 2 ^ HashBits \in Nat /\ 2 ^ (c - 1) \in Nat
    BY <1>2, <1>12, PowerDoubles
  <2>3. \A x, y, z \in Nat : ~(x <= y /\ y <= z /\ z < x)
    OBVIOUS
  <2> QED
    BY <1>2, <1>11, <2>1, <2>2, <2>3
<1>14. Bits = c
  BY <1>1, <1>10 DEF Bits
<1> QED
  BY <1>2, <1>12, <1>13, <1>14 DEF Shift

LEMMA PartsFacts ==
  /\ 0 \in Parts
  /\ \A g \in Groups : HashOf(g) \in Nat /\ PartNr(g) \in Parts
<1>1. PICK a : a = 2 ^ Shift
  OBVIOUS
<1>2. PICK b : b = 2 ^ Bits
  OBVIOUS
<1>3. PICK h : h = 2 ^ HashBits
  OBVIOUS
<1>4. a \in Nat \ {0} /\ b \in Nat \ {0} /\ h = a * b
  <2>1. Shift \in Nat /\ Bits \in Nat /\ Shift + Bits = HashBits
    BY BitsFacts
  <2>2. 2 ^ (Shift + Bits) = 2 ^ Shift * 2 ^ Bits
    BY <2>1, PowerAdds
  <2>3. 2 ^ Shift \in Nat \ {0} /\ 2 ^ Bits \in Nat \ {0}
    BY <2>1, PowerDoubles
  <2> QED
    BY <1>1, <1>2, <1>3, <2>1, <2>2, <2>3
<1>5. h \in Nat \ {0}
  <2>1. \A x, y \in Nat \ {0} : x * y \in Nat \ {0}
    OBVIOUS
  <2> QED
    BY <1>4, <2>1
<1>6. 0 \in Parts
  BY <1>2, <1>4 DEF Parts
<1>7. ASSUME NEW g \in Groups
      PROVE  HashOf(g) \in Nat /\ PartNr(g) \in Parts
  <2>1. g \in Nat
    BY GroupByAssumption DEF Groups
  <2>2. PICK x : x = g % h
    OBVIOUS
  <2>3. x \in Nat /\ x < h
    BY <1>5, <2>1, <2>2
  <2>4. HashOf(g) = x /\ PartNr(g) = x \div a
    BY <1>1, <1>3, <2>2 DEF HashOf, PartNr
  <2>5. PICK q : q = x \div a
    OBVIOUS
  <2>6. q \in Nat /\ a * q <= x
    BY <1>4, <2>3, <2>5
  <2>7. q < b
    <3> SUFFICES ASSUME b <= q
                 PROVE  FALSE
      BY <1>4, <2>6
    <3>1. \A u, v, w \in Nat : v <= w => u * v <= u * w
      OBVIOUS
    <3>2. a * b <= a * q /\ a * b \in Nat /\ a * q \in Nat
      BY <1>4, <2>6, <3>1
    <3>3. \A u, v, w \in Nat : ~(u <= v /\ v <= w /\ w < u)
      OBVIOUS
    <3> QED
      BY <1>4, <2>3, <2>6, <3>2, <3>3
  <2>8. q \in 0 .. b - 1
    BY <1>4, <2>6, <2>7
  <2> QED
    BY <1>2, <2>3, <2>4, <2>5, <2>8 DEF Parts
<1> QED
  BY <1>6, <1>7

-----------------------------------------------------------------------------
(* PartitionedDeque *)

\* All chunks but the last are full.
PartOK(part) ==
  /\ \A n \in 1 .. Len(part) : Len(part[n]) \in 1 .. chunkSize
  /\ \A n \in 1 .. Len(part) : n # Len(part) => Len(part[n]) = chunkSize

DequeType ==
  {d \in [shift : {Shift}, partitions : [Parts -> Seq(Seq(EntryType))]] :
     \A p \in Parts :
       /\ PartOK(d.partitions[p])
       /\ \A i \in 1 .. Len(FlattenSeq(d.partitions[p])) :
            PartNr(FlattenSeq(d.partitions[p])[i].k) = p}

LEMMA PartitionFlat ==
  ASSUME NEW part \in Seq(Seq(EntryType)), PartOK(part)
  PROVE  PartitionItems(part) = FlattenSeq(part) /\ PartitionItems(part) \in Seq(EntryType)
<1>1. part \in [1 .. Len(part) -> Seq(EntryType)] /\ DOMAIN part = 1 .. Len(part)
  BY LenProperties
<1>2. ASSUME NEW n \in 1 .. Len(part)
      PROVE  [i \in 1 .. SizeOfChunk(part, n) |-> part[n][i]] = part[n]
  <2>1. SizeOfChunk(part, n) = Len(part[n])
    BY DEF SizeOfChunk, PartOK
  <2>2. part[n] \in Seq(EntryType)
    BY <1>1
  <2>3. part[n] \in [1 .. Len(part[n]) -> EntryType]
    BY <2>2, LenProperties
  <2> QED
    BY <2>1, <2>3
<1>3. [n \in DOMAIN part |-> [i \in 1 .. SizeOfChunk(part, n) |-> part[n][i]]] = part
  BY <1>1, <1>2
<1>4. <<>> \in Seq(EntryType)
  BY EmptySeq
<1>5. FlattenSeq(part) \in Seq(EntryType)
  BY <1>4, FlattenFacts
<1> QED
  BY <1>3, <1>5 DEF PartitionItems

LEMMA Pushed ==
  ASSUME NEW part \in Seq(Seq(EntryType)), PartOK(part), NEW e \in EntryType,
         NEW t, t = PushBack(part, e)
  PROVE  t \in Seq(Seq(EntryType)) /\ PartOK(t) /\ FlattenSeq(t) = Append(FlattenSeq(part), e)
<1>1. Len(part) \in Nat /\ chunkSize \in Nat \ {0}
  BY LenProperties, ContainersAssumption
<1>2. <<e>> \in Seq(EntryType) /\ Len(<<e>>) = 1
  OBVIOUS
<1>3. FlattenSeq(part) \in Seq(EntryType)
  BY <1>2, FlattenFacts
<1>4. FlattenSeq(part) \o <<e>> = Append(FlattenSeq(part), e)
  BY <1>3, AppendIsConcat
<1>5. CASE part = <<>> \/ Len(Last(part)) = chunkSize
  <2>1. PICK c : c = <<e>>
    OBVIOUS
  <2>2. t = Append(part, c)
    BY <1>5, <2>1 DEF PushBack
  <2>3. /\ t \in Seq(Seq(EntryType)) /\ Len(t) = Len(part) + 1
        /\ \A i \in 1 .. Len(part) : t[i] = part[i]
        /\ t[Len(part) + 1] = c
    <3> DEFINE T == Seq(EntryType)
    <3>1. part \in Seq(T) /\ c \in T
      BY <1>2, <2>1
    <3> HIDE DEF T
    <3>2. /\ t \in Seq(T) /\ Len(t) = Len(part) + 1
          /\ \A i \in 1 .. Len(part) : t[i] = part[i]
          /\ t[Len(part) + 1] = c
      BY <2>2, <3>1, AppendProperties
    <3> QED
      BY <3>2 DEF T
  <2>4. FlattenSeq(t) = FlattenSeq(part) \o c
    BY <1>2, <2>1, <2>2, FlattenFacts
  <2>5. \A n \in 1 .. Len(part) : Len(part[n]) = chunkSize
    <3>1. ASSUME NEW n \in 1 .. Len(part)
          PROVE  Len(part[n]) = chunkSize
      <4>1. part # <<>>
        BY <1>1, EmptySeq
      <4>2. Len(part[Len(part)]) = chunkSize
        BY <1>5, <4>1 DEF Last
      <4> QED
        BY <4>2 DEF PartOK
    <3> QED
      BY <3>1
  <2>6. ASSUME NEW n \in 1 .. Len(t)
        PROVE  Len(t[n]) \in 1 .. chunkSize /\ (n # Len(t) => Len(t[n]) = chunkSize)
    <3>1. n \in 1 .. Len(part) \/ n = Len(part) + 1
      BY <1>1, <2>3
    <3>2. chunkSize \in 1 .. chunkSize /\ 1 \in 1 .. chunkSize
      BY <1>1
    <3>3. CASE n \in 1 .. Len(part)
      <4>1. Len(t[n]) = chunkSize
        BY <2>3, <2>5, <3>3
      <4> QED
        BY <3>2, <4>1
    <3>4. CASE n = Len(part) + 1
      <4>1. Len(t[n]) = 1 /\ n = Len(t)
        BY <1>2, <2>1, <2>3, <3>4
      <4> QED
        BY <3>2, <4>1
    <3> QED
      BY <3>1, <3>3, <3>4
  <2>7. PartOK(t)
    BY <2>6 DEF PartOK
  <2> QED
    BY <1>4, <2>1, <2>3, <2>4, <2>7
<1>6. CASE ~(part = <<>> \/ Len(Last(part)) = chunkSize)
  <2>1. PICK f \in Seq(Seq(EntryType)), l \in Seq(EntryType) : part = Append(f, l)
    <3> DEFINE T == Seq(EntryType)
    <3>1. part \in Seq(T)
      OBVIOUS
    <3> HIDE DEF T
    <3>2. \E f \in Seq(T), l \in T : part = Append(f, l)
      BY <1>6, <3>1, SequenceEmptyOrAppend
    <3> QED
      BY <3>2 DEF T
  <2>2. PICK m : m = Append(l, e)
    OBVIOUS
  <2>3. m \in Seq(EntryType) /\ Len(m) = Len(l) + 1 /\ m = l \o <<e>>
    BY <2>2, AppendProperties, AppendIsConcat
  <2>4. /\ Len(part) = Len(f) + 1 /\ Len(f) \in Nat
        /\ \A i \in 1 .. Len(f) : part[i] = f[i]
        /\ part[Len(f) + 1] = l
    <3> DEFINE T == Seq(EntryType)
    <3>1. f \in Seq(T) /\ l \in T
      OBVIOUS
    <3> HIDE DEF T
    <3> QED
      BY <2>1, <3>1, AppendProperties, LenProperties
  <2>5. Last(part) = l /\ Len(l) # chunkSize
    BY <1>6, <2>4 DEF Last
  <2>6. t = [part EXCEPT ![Len(part)] = m]
    <3>1. part[Len(part)] = l
      BY <2>4
    <3> QED
      BY <1>6, <2>2, <3>1 DEF PushBack
  <2>7. /\ t \in Seq(Seq(EntryType)) /\ Len(t) = Len(part)
        /\ \A j \in 1 .. Len(part) : t[j] = IF j = Len(part) THEN m ELSE part[j]
    <3> DEFINE T == Seq(EntryType)
    <3>1. part \in Seq(T) /\ m \in T /\ Len(part) \in 1 .. Len(part)
      BY <1>1, <2>3, <2>4
    <3> HIDE DEF T
    <3>2. /\ t \in Seq(T) /\ Len(t) = Len(part)
          /\ \A j \in 1 .. Len(part) : t[j] = IF j = Len(part) THEN m ELSE part[j]
      BY <2>6, <3>1, ExceptSeq
    <3> QED
      BY <3>2 DEF T
  <2>8. t = Append(f, m)
    <3> DEFINE T == Seq(EntryType)
    <3>1. f \in Seq(T) /\ m \in T /\ t \in Seq(T)
      BY <2>3, <2>7
    <3> HIDE DEF T
    <3>2. PICK a : a = Append(f, m)
      OBVIOUS
    <3>3. /\ a \in Seq(T) /\ Len(a) = Len(f) + 1
          /\ \A i \in 1 .. Len(f) : a[i] = f[i]
          /\ a[Len(f) + 1] = m
      BY <3>1, <3>2, AppendProperties
    <3>4. Len(t) = Len(a)
      BY <2>4, <2>7, <3>3
    <3>5. ASSUME NEW i \in 1 .. Len(t)
          PROVE  t[i] = a[i]
      <4>1. i \in 1 .. Len(f) \/ i = Len(f) + 1
        BY <2>4, <2>7
      <4>2. i \in 1 .. Len(f) => i # Len(part) /\ i \in 1 .. Len(part)
        BY <2>4
      <4>3. Len(f) + 1 = Len(part) /\ Len(part) \in 1 .. Len(part)
        BY <2>4
      <4> QED
        BY <2>4, <2>7, <3>3, <4>1, <4>2, <4>3
    <3> QED
      BY <3>1, <3>2, <3>3, <3>4, <3>5, SeqEqual
  <2>9. /\ FlattenSeq(t) = FlattenSeq(f) \o m /\ FlattenSeq(part) = FlattenSeq(f) \o l
        /\ FlattenSeq(f) \in Seq(EntryType)
    BY <2>1, <2>3, <2>8, FlattenFacts
  <2>10. FlattenSeq(t) = FlattenSeq(part) \o <<e>>
    <3>1. PICK F : F = FlattenSeq(f)
      OBVIOUS
    <3>2. PICK c : c = <<e>>
      OBVIOUS
    <3>3. F \in Seq(EntryType) /\ c \in Seq(EntryType)
      BY <1>2, <2>9, <3>1, <3>2
    <3>4. (F \o l) \o c = F \o (l \o c)
      BY SMTT(30), <3>3, ConcatAssociative
    <3> QED
      BY <2>3, <2>9, <3>1, <3>2, <3>4
  <2>11. Len(m) \in 1 .. chunkSize
    <3>1. Len(part) \in 1 .. Len(part)
      BY <2>4
    <3>2. Len(l) \in 1 .. chunkSize
      BY <2>4, <3>1 DEF PartOK
    <3> QED
      BY <1>1, <2>3, <2>5, <3>2
  <2>12. PartOK(t)
    <3>1. ASSUME NEW n \in 1 .. Len(t)
          PROVE  Len(t[n]) \in 1 .. chunkSize /\ (n # Len(t) => Len(t[n]) = chunkSize)
      <4>1. n \in 1 .. Len(part)
        BY <2>7
      <4>2. CASE n = Len(part)
        BY <2>7, <2>11, <4>1, <4>2
      <4>3. CASE n # Len(part)
        BY <2>7, <4>1, <4>3 DEF PartOK
      <4> QED
        BY <4>2, <4>3
    <3> QED
      BY <3>1 DEF PartOK
  <2> QED
    BY <1>4, <2>7, <2>10, <2>12
<1> QED
  BY <1>5, <1>6

\* What a spill storage holds for a group.
InDeque(d, g) ==
  IF d = NoDeque THEN 0 ELSE Amount(PartitionItems(d.partitions[PartNr(g)]), g)

LEMMA DequeFacts ==
  ASSUME NEW d \in DequeType
  PROVE  /\ d # NoDeque /\ DOMAIN d.partitions = Parts /\ d.shift = Shift
         /\ d.partitions \in [Parts -> Seq(Seq(EntryType))]
         /\ d = [shift |-> Shift, partitions |-> d.partitions]
         /\ \A p \in Parts :
              /\ PartOK(d.partitions[p])
              /\ PartitionItems(d.partitions[p]) = FlattenSeq(d.partitions[p])
              /\ PartitionItems(d.partitions[p]) \in Seq(EntryType)
              /\ \A i \in 1 .. Len(PartitionItems(d.partitions[p])) :
                   PartNr(PartitionItems(d.partitions[p])[i].k) = p
<1>1. /\ d.partitions \in [Parts -> Seq(Seq(EntryType))] /\ d.shift = Shift
      /\ d = [shift |-> Shift, partitions |-> d.partitions]
      /\ \A p \in Parts :
           /\ PartOK(d.partitions[p])
           /\ \A i \in 1 .. Len(FlattenSeq(d.partitions[p])) :
                PartNr(FlattenSeq(d.partitions[p])[i].k) = p
  BY DEF DequeType
<1>2. d # NoDeque
  <2>1. DOMAIN NoDeque.partitions = {}
    BY DEF NoDeque
  <2>2. DOMAIN d.partitions = Parts /\ 0 \in Parts
    BY <1>1, PartsFacts
  <2> QED
    BY <2>1, <2>2
<1>3. ASSUME NEW p \in Parts
      PROVE  /\ PartOK(d.partitions[p])
             /\ PartitionItems(d.partitions[p]) = FlattenSeq(d.partitions[p])
             /\ PartitionItems(d.partitions[p]) \in Seq(EntryType)
             /\ \A i \in 1 .. Len(PartitionItems(d.partitions[p])) :
                  PartNr(PartitionItems(d.partitions[p])[i].k) = p
  <2>1. PartOK(d.partitions[p]) /\ d.partitions[p] \in Seq(Seq(EntryType))
    BY <1>1
  <2>2. /\ PartitionItems(d.partitions[p]) = FlattenSeq(d.partitions[p])
        /\ PartitionItems(d.partitions[p]) \in Seq(EntryType)
    BY <2>1, PartitionFlat
  <2> QED
    BY <1>1, <2>1, <2>2
<1> QED
  BY <1>1, <1>2, <1>3

LEMMA InDequeType ==
  ASSUME NEW d \in DequeType \cup {NoDeque}, NEW g \in Groups
  PROVE  InDeque(d, g) \in Nat
<1>1. CASE d = NoDeque
  BY <1>1 DEF InDeque
<1>2. CASE d # NoDeque
  <2>1. PartNr(g) \in Parts /\ d \in DequeType
    BY <1>2, PartsFacts
  <2>2. PartitionItems(d.partitions[PartNr(g)]) \in Seq(EntryType)
    BY <2>1, DequeFacts
  <2> QED
    BY <1>2, <2>2, AmountType DEF InDeque
<1> QED
  BY <1>1, <1>2

LEMMA DequeEmpty ==
  /\ NewDeque(nrPartitions) \in DequeType
  /\ \A g \in Groups : InDeque(NewDeque(nrPartitions), g) = 0
<1> DEFINE d == NewDeque(nrPartitions)
<1>1. d = [shift |-> Shift, partitions |-> [p \in Parts |-> <<>>]]
  BY DEF NewDeque, Shift, Parts, Bits
<1>2. <<>> \in Seq(Seq(EntryType)) /\ Len(<<>>) = 0
  BY EmptySeq
<1>3. PartOK(<<>>)
  BY <1>2 DEF PartOK
<1> HIDE DEF d
<1>4. d \in DequeType
  <2>1. d.partitions \in [Parts -> Seq(Seq(EntryType))]
    BY <1>1, <1>2
  <2>2. \A p \in Parts : d.partitions[p] = <<>> /\ FlattenSeq(d.partitions[p]) = <<>>
    BY <1>1, FlattenEmpty
  <2> QED
    BY <1>1, <1>2, <1>3, <2>1, <2>2 DEF DequeType
<1>5. ASSUME NEW g \in Groups
      PROVE  InDeque(d, g) = 0
  <2>1. PartNr(g) \in Parts
    BY PartsFacts
  <2>2. PartitionItems(d.partitions[PartNr(g)]) = FlattenSeq(d.partitions[PartNr(g)])
    BY <1>4, <2>1, DequeFacts
  <2>3. d.partitions[PartNr(g)] = <<>>
    BY <1>1, <2>1
  <2> QED
    BY <2>2, <2>3, FlattenEmpty, AmountEmpty DEF InDeque
<1> QED
  BY <1>4, <1>5 DEF d

LEMMA PushedHash ==
  ASSUME NEW d \in DequeType, NEW e \in EntryType,
         NEW t, t = PushBackHash(d, e, HashOf(e.k))
  PROVE  /\ t \in DequeType
         /\ \A g \in Groups : InDeque(t, g) = InDeque(d, g) + Share(e, g)
<1>1. PICK ps : ps = d.partitions
  OBVIOUS
<1>2. PICK q : q = PartNr(e.k)
  OBVIOUS
<1>3. e.k \in Groups /\ q \in Parts
  BY <1>2, PartsFacts DEF EntryType
<1>4. /\ ps \in [Parts -> Seq(Seq(EntryType))] /\ d.shift = Shift
      /\ d = [shift |-> Shift, partitions |-> ps]
  BY <1>1, DequeFacts
<1>5. PICK b : b = PushBack(ps[q], e)
  OBVIOUS
<1>6. ps[q] \in Seq(Seq(EntryType)) /\ PartOK(ps[q])
  BY <1>1, <1>3, <1>4, DequeFacts
<1>7. b \in Seq(Seq(EntryType)) /\ PartOK(b) /\ FlattenSeq(b) = Append(FlattenSeq(ps[q]), e)
  BY <1>5, <1>6, Pushed
<1>8. PICK r : r = [ps EXCEPT ![q] = b]
  OBVIOUS
<1>9. t = [shift |-> Shift, partitions |-> r]
  <2>1. PartitionNr(d, HashOf(e.k)) = q
    BY <1>2, <1>4 DEF PartitionNr, PartNr
  <2>2. t = [d EXCEPT !.partitions = [d.partitions EXCEPT ![q] = PushBack(d.partitions[q], e)]]
    BY <2>1 DEF PushBackHash
  <2>3. t = [d EXCEPT !.partitions = r]
    BY <1>1, <1>5, <1>8, <2>2
  <2> QED
    BY <1>4, <2>3
<1>10. r \in [Parts -> Seq(Seq(EntryType))] /\ \A p \in Parts : r[p] = IF p = q THEN b ELSE ps[p]
  BY <1>3, <1>4, <1>7, <1>8
<1>11. ASSUME NEW p \in Parts
       PROVE  /\ PartOK(r[p])
              /\ \A i \in 1 .. Len(FlattenSeq(r[p])) : PartNr(FlattenSeq(r[p])[i].k) = p
  <2>1. /\ PartOK(ps[p])
        /\ FlattenSeq(ps[p]) \in Seq(EntryType)
        /\ \A i \in 1 .. Len(FlattenSeq(ps[p])) : PartNr(FlattenSeq(ps[p])[i].k) = p
    BY <1>1, DequeFacts
  <2>2. CASE p # q
    BY <1>10, <2>1, <2>2
  <2>3. CASE p = q
    <3>1. PICK f : f = FlattenSeq(ps[p])
      OBVIOUS
    <3>2. PICK a : a = Append(f, e)
      OBVIOUS
    <3>3. Len(a) = Len(f) + 1 /\ a[Len(f) + 1] = e /\ \A i \in 1 .. Len(f) : a[i] = f[i]
      BY <2>1, <3>1, <3>2, AppendProperties
    <3>4. Len(f) \in Nat
      BY <2>1, <3>1, LenProperties
    <3>5. \A i \in 1 .. Len(a) : i \in 1 .. Len(f) \/ i = Len(f) + 1
      BY <3>3, <3>4
    <3>6. \A i \in 1 .. Len(a) : PartNr(a[i].k) = p
      BY <1>2, <2>1, <2>3, <3>1, <3>3, <3>5
    <3>7. FlattenSeq(r[p]) = a /\ PartOK(r[p])
      BY <1>7, <1>10, <2>3, <3>1, <3>2
    <3> QED
      BY <3>6, <3>7
  <2> QED
    BY <2>2, <2>3
<1>12. t \in DequeType
  <2>1. t.partitions = r
    BY <1>9
  <2>2. t \in [shift : {Shift}, partitions : [Parts -> Seq(Seq(EntryType))]]
    BY <1>9, <1>10
  <2> QED
    BY <1>11, <2>1, <2>2 DEF DequeType
<1>13. ASSUME NEW g \in Groups
       PROVE  InDeque(t, g) = InDeque(d, g) + Share(e, g)
  <2>1. PICK p : p = PartNr(g)
    OBVIOUS
  <2>2. p \in Parts
    BY <2>1, PartsFacts
  <2>3. t.partitions = r
    BY <1>9
  <2>4. InDeque(t, g) = Amount(FlattenSeq(r[p]), g)
    BY <1>12, <2>1, <2>2, <2>3, DequeFacts DEF InDeque
  <2>5. InDeque(d, g) = Amount(FlattenSeq(ps[p]), g) /\ FlattenSeq(ps[p]) \in Seq(EntryType)
    BY <1>1, <2>1, <2>2, DequeFacts DEF InDeque
  <2>6. CASE p = q
    <3>1. FlattenSeq(r[p]) = Append(FlattenSeq(ps[p]), e)
      BY <1>7, <1>10, <2>2, <2>6
    <3>2. Amount(Append(FlattenSeq(ps[p]), e), g) = Amount(FlattenSeq(ps[p]), g) + Share(e, g)
      BY <2>5, AmountAppend
    <3> QED
      BY <2>4, <2>5, <3>1, <3>2
  <2>7. CASE p # q
    <3>1. FlattenSeq(r[p]) = FlattenSeq(ps[p])
      BY <1>10, <2>2, <2>7
    <3>2. Share(e, g) = 0
      BY <1>2, <2>1, <2>7 DEF Share
    <3>3. Amount(FlattenSeq(ps[p]), g) \in Nat
      BY <2>5, AmountType
    <3> QED
      BY <2>4, <2>5, <3>1, <3>2, <3>3
  <2> QED
    BY <2>6, <2>7
<1> QED
  BY <1>12, <1>13

LEMMA SpilledFacts ==
  ASSUME NEW d \in DequeType, NEW es \in Seq(EntryType)
  PROVE  /\ Spilled(d, es) \in DequeType
         /\ \A g \in Groups : InDeque(Spilled(d, es), g) = InDeque(d, g) + Amount(es, g)
<1> DEFINE N == Len(es)
           Body(f) == [n \in 0 .. N |->
                         IF n = 0 THEN d ELSE PushBackHash(f[n - 1], es[n], HashOf(es[n].k))]
           h == [x \in Nat \X DequeType |->
                   IF x[1] + 1 \in 1 .. N
                   THEN PushBackHash(x[2], es[x[1] + 1], HashOf(es[x[1] + 1].k)) ELSE x[2]]
           f == CHOOSE f : f = Body(f)
<1>1. N \in Nat
  BY LenProperties
<1>2. \A n \in 1 .. N : es[n] \in EntryType
  BY ElementOfSeq
<1>3. h \in [Nat \X DequeType -> DequeType]
  <2>1. ASSUME NEW x \in Nat \X DequeType
        PROVE  h[x] \in DequeType
    <3>1. CASE x[1] + 1 \in 1 .. N
      <4>1. PICK e : e = es[x[1] + 1]
        OBVIOUS
      <4>2. e \in EntryType /\ x[2] \in DequeType
        BY <1>2, <3>1, <4>1
      <4>3. PushBackHash(x[2], e, HashOf(e.k)) \in DequeType
        BY <4>2, PushedHash
      <4> QED
        BY <3>1, <4>1, <4>3
    <3>2. CASE x[1] + 1 \notin 1 .. N
      BY <3>2
    <3> QED
      BY <3>1, <3>2
  <2> QED
    BY <2>1
<1>4. PICK g \in [Nat -> DequeType] : Unfolds(g, d, h)
  BY <1>3, Unfolding
<1> DEFINE e == [n \in 0 .. N |-> g[n]]
<1>5. e = Body(e)
  <2>1. ASSUME NEW n \in 0 .. N
        PROVE  e[n] = Body(e)[n]
    <3>1. CASE n = 0
      BY <1>1, <1>4, <3>1 DEF Unfolds
    <3>2. CASE n # 0
      <4>1. n - 1 \in Nat /\ (n - 1) + 1 = n /\ n \in 1 .. N /\ n - 1 \in 0 .. N
        BY <1>1, <3>2
      <4>2. g[(n - 1) + 1] = h[<<n - 1, g[n - 1]>>]
        BY <1>4, <4>1 DEF Unfolds
      <4>3. h[<<n - 1, g[n - 1]>>] = PushBackHash(g[n - 1], es[n], HashOf(es[n].k))
        BY <4>1
      <4>4. e[n] = PushBackHash(e[n - 1], es[n], HashOf(es[n].k))
        BY <4>1, <4>2, <4>3
      <4> HIDE DEF e
      <4> QED
        BY <3>2, <4>4
    <3> QED
      BY <3>1, <3>2
  <2> HIDE DEF h
  <2> QED
    BY <2>1
<1>6. f = Body(f)
  <2> HIDE DEF Body, e
  <2> QED
    BY <1>5
<1>7. Spilled(d, es) = f[N]
  BY DEF Spilled
<1> HIDE DEF f, h, e
<1>8. f[0] = d /\ \A n \in 1 .. N : f[n] = PushBackHash(f[n - 1], es[n], HashOf(es[n].k))
  <2>1. 0 \in 0 .. N /\ \A n \in 1 .. N : n \in 0 .. N /\ n # 0
    BY <1>1
  <2> QED
    BY <1>6, <2>1
<1> DEFINE P == {n \in Nat : n <= N =>
                   /\ f[n] \in DequeType
                   /\ \A k \in Groups : InDeque(f[n], k) = InDeque(d, k) + Sums(ValuesFor(es, k))[n]}
<1>9. \A k \in Groups : InDeque(d, k) \in Nat /\ ValuesFor(es, k) \in [Nat -> Nat]
  BY InDequeType, AmountType
<1>10. 0 \in P
  <2>1. ASSUME NEW k \in Groups
        PROVE  InDeque(d, k) = InDeque(d, k) + Sums(ValuesFor(es, k))[0]
    <3>1. PICK v : v = ValuesFor(es, k)
      OBVIOUS
    <3>2. v \in [Nat -> Nat] /\ InDeque(d, k) \in Nat
      BY <1>9, <3>1
    <3>3. Sums(v)[0] = 0
      BY <3>2, SumsFacts
    <3> QED
      BY <3>1, <3>2, <3>3
  <2> QED
    BY <1>8, <2>1
<1>11. ASSUME NEW n \in Nat, n \in P
       PROVE  n + 1 \in P
  <2> SUFFICES ASSUME n + 1 <= N
               PROVE  /\ f[n + 1] \in DequeType
                      /\ \A k \in Groups :
                           InDeque(f[n + 1], k) = InDeque(d, k) + Sums(ValuesFor(es, k))[n + 1]
    OBVIOUS
  <2>1. n + 1 \in 1 .. N /\ (n + 1) - 1 = n /\ n <= N
    BY <1>1
  <2>2. PICK b : b = es[n + 1]
    OBVIOUS
  <2>3. b \in EntryType
    BY <1>2, <2>1, <2>2
  <2>4. f[n + 1] = PushBackHash(f[n], b, HashOf(b.k))
    BY <1>8, <2>1, <2>2
  <2>5. f[n] \in DequeType
    BY <1>11, <2>1
  <2>6. /\ f[n + 1] \in DequeType
        /\ \A k \in Groups : InDeque(f[n + 1], k) = InDeque(f[n], k) + Share(b, k)
    BY <2>3, <2>4, <2>5, PushedHash
  <2>7. ASSUME NEW k \in Groups
        PROVE  InDeque(f[n + 1], k) = InDeque(d, k) + Sums(ValuesFor(es, k))[n + 1]
    <3>1. InDeque(f[n], k) = InDeque(d, k) + Sums(ValuesFor(es, k))[n]
      BY <1>11, <2>1
    <3>2. PICK v : v = ValuesFor(es, k)
      OBVIOUS
    <3>3. v \in [Nat -> Nat]
      BY <1>9, <3>2
    <3>4. Sums(v)[n + 1] = Sums(v)[n] + v[n + 1] /\ Sums(v)[n] \in Nat
      BY <3>3, SumsFacts
    <3>5. v[n + 1] = Share(b, k) /\ v[n + 1] \in Nat
      BY <2>1, <2>2, <3>2, <3>3 DEF ValuesFor, Share
    <3>6. InDeque(d, k) \in Nat
      BY <1>9
    <3>7. InDeque(f[n + 1], k) = InDeque(f[n], k) + Share(b, k)
      BY <2>6
    <3> QED
      BY <3>1, <3>2, <3>4, <3>5, <3>6, <3>7
  <2> QED
    BY <2>6, <2>7
<1>12. Nat \subseteq P
  <2> HIDE DEF P
  <2> QED
    BY <1>10, <1>11, SetInduction
<1>13. /\ f[N] \in DequeType
       /\ \A k \in Groups : InDeque(f[N], k) = InDeque(d, k) + Sums(ValuesFor(es, k))[N]
  <2>1. N \in P
    BY <1>1, <1>12
  <2> QED
    BY <1>1, <2>1
<1> QED
  BY <1>7, <1>13 DEF Amount

\* The entries of a table that a thread of the vectorized half has spilled.
LEMMA EntriesFacts ==
  ASSUME NEW table \in [Groups -> Nat]
  PROVE  /\ Entries(table) \in Seq(EntryType)
         /\ \A g \in Groups : Amount(Entries(table), g) = table[g]
<1> DEFINE G == {g \in Groups : table[g] # 0}
           gs == SetToSeq(G)
           es == Entries(table)
<1>1. IsFiniteSet(G)
  <2>1. 1 \in Int /\ NGroups \in Int
    BY GroupByAssumption
  <2>2. IsFiniteSet(1 .. NGroups)
    BY <2>1, FS_Interval
  <2>3. G \in SUBSET (1 .. NGroups)
    BY DEF Groups
  <2> QED
    BY <2>2, <2>3, FS_Subset
<1> HIDE DEF G
<1>2. /\ gs \in Seq(G) /\ Len(gs) \in Nat /\ DOMAIN gs = 1 .. Len(gs)
      /\ \A i, j \in 1 .. Len(gs) : gs[i] = gs[j] => i = j
      /\ \A x \in G : \E i \in 1 .. Len(gs) : gs[i] = x
  BY <1>1, SetToSeqFacts
<1>3. \A i \in 1 .. Len(gs) : gs[i] \in Groups /\ table[gs[i]] \in Nat \ {0}
  <2>1. \A i \in 1 .. Len(gs) : gs[i] \in G
    BY <1>2, ElementOfSeq
  <2> QED
    BY <2>1 DEF G
<1>4. es = [n \in 1 .. Len(gs) |-> Entry(gs[n], table[gs[n]])]
  BY <1>2 DEF Entries, G
<1> HIDE DEF gs, es
<1>5. /\ es \in Seq(EntryType) /\ Len(es) = Len(gs)
      /\ \A i \in 1 .. Len(gs) : es[i] = Entry(gs[i], table[gs[i]])
  <2>1. \A i \in 1 .. Len(gs) : Entry(gs[i], table[gs[i]]) \in EntryType
    BY <1>3 DEF Entry, EntryType
  <2>2. /\ es \in [1 .. Len(gs) -> EntryType]
        /\ \A i \in 1 .. Len(gs) : es[i] = Entry(gs[i], table[gs[i]])
    BY <1>4, <2>1
  <2>3. PICK n \in Nat : n = Len(gs)
    BY <1>2
  <2>4. es \in Seq(EntryType) /\ Len(es) = n
    BY <2>2, <2>3
  <2> QED
    BY <2>2, <2>3, <2>4
<1>6. \A i \in 1 .. Len(gs) : es[i].k = gs[i] /\ es[i].v = table[gs[i]]
  <2>1. \A x, y : Entry(x, y).k = x /\ Entry(x, y).v = y
    BY DEF Entry
  <2> QED
    BY <1>5, <2>1
<1>7. KeysApart(es)
  BY <1>2, <1>5, <1>6 DEF KeysApart
<1>8. ASSUME NEW g \in Groups
      PROVE  Amount(es, g) = table[g]
  <2>1. CASE g \in G
    <3>1. PICK i \in 1 .. Len(es) : gs[i] = g
      BY <1>2, <1>5, <2>1
    <3>2. Amount(es, es[i].k) = es[i].v
      BY <1>5, <1>7, AmountApart
    <3> QED
      BY <1>5, <1>6, <3>1, <3>2
  <2>2. CASE g \notin G
    <3>1. \A i \in 1 .. Len(es) : es[i].k # g
      BY <1>2, <1>5, <1>6, <2>2, ElementOfSeq
    <3>2. Amount(es, g) = 0
      BY <1>5, <3>1, AmountPresent
    <3> QED
      BY <2>2, <3>2 DEF G
  <2> QED
    BY <2>1, <2>2
<1> QED
  BY <1>5, <1>8 DEF es

\* Entries that are all of one partition.
OfPart(es, p) == \A i \in 1 .. Len(es) : PartNr(es[i].k) = p

LEMMA OfPartConcat ==
  ASSUME NEW s \in Seq(EntryType), NEW t \in Seq(EntryType), NEW p, OfPart(s, p), OfPart(t, p)
  PROVE  OfPart(s \o t, p)
<1>1. PICK u : u = s \o t
  OBVIOUS
<1>2. /\ Len(u) = Len(s) + Len(t)
      /\ \A i \in 1 .. Len(s) + Len(t) : u[i] = IF i <= Len(s) THEN s[i] ELSE t[i - Len(s)]
  BY <1>1, ConcatProperties
<1>3. Len(s) \in Nat /\ Len(t) \in Nat
  BY LenProperties
<1>4. ASSUME NEW i \in 1 .. Len(u)
      PROVE  PartNr(u[i].k) = p
  <2>1. CASE i <= Len(s)
    <3>1. i \in 1 .. Len(s) /\ u[i] = s[i]
      BY <1>2, <1>3, <2>1
    <3> QED
      BY <3>1 DEF OfPart
  <2>2. CASE ~(i <= Len(s))
    <3>1. i - Len(s) \in 1 .. Len(t) /\ u[i] = t[i - Len(s)]
      BY <1>2, <1>3, <2>2
    <3> QED
      BY <3>1 DEF OfPart
  <2> QED
    BY <2>1, <2>2
<1> QED
  BY <1>1, <1>4 DEF OfPart

Amounts(s, g) == [i \in Nat |-> IF i \in 1 .. Len(s) THEN Amount(s[i], g) ELSE 0]

LEMMA AmountFlatten ==
  ASSUME NEW s \in Seq(Seq(EntryType)), NEW g
  PROVE  /\ Amounts(s, g) \in [Nat -> Nat]
         /\ Amount(FlattenSeq(s), g) = Sums(Amounts(s, g))[Len(s)]
         /\ \A p : (\A i \in 1 .. Len(s) : OfPart(s[i], p)) => OfPart(FlattenSeq(s), p)
<1> DEFINE N == Len(s)
           h == [x \in Nat \X Seq(EntryType) |-> IF x[1] + 1 \in 1 .. N THEN x[2] \o s[x[1] + 1] ELSE x[2]]
           a == Amounts(s, g)
<1>1. N \in Nat /\ <<>> \in Seq(EntryType)
  BY LenProperties, EmptySeq
<1>2. \A i \in 1 .. N : s[i] \in Seq(EntryType)
  BY ElementOfSeq
<1>3. a \in [Nat -> Nat] /\ \A i \in 1 .. N : a[i] = Amount(s[i], g)
  <2>1. \A i \in 1 .. N : Amount(s[i], g) \in Nat
    BY <1>2, AmountType
  <2> QED
    BY <2>1 DEF Amounts
<1>4. h \in [Nat \X Seq(EntryType) -> Seq(EntryType)]
  <2>1. ASSUME NEW x \in Nat \X Seq(EntryType)
        PROVE  h[x] \in Seq(EntryType)
    <3>1. CASE x[1] + 1 \in 1 .. N
      <4>1. x[2] \o s[x[1] + 1] \in Seq(EntryType)
        BY <1>2, <3>1, ConcatProperties
      <4> QED
        BY <3>1, <4>1
    <3>2. CASE x[1] + 1 \notin 1 .. N
      BY <3>2
    <3> QED
      BY <3>1, <3>2
  <2> QED
    BY <2>1
<1>5. PICK f \in [Nat -> Seq(EntryType)] : Unfolds(f, <<>>, h)
  BY <1>1, <1>4, Unfolding
<1>6. f[0] = <<>> /\ \A i \in 1 .. N : f[i] = f[i - 1] \o s[i]
  <2>1. ASSUME NEW i \in 1 .. N
        PROVE  f[i] = f[i - 1] \o s[i]
    <3>1. i - 1 \in Nat /\ (i - 1) + 1 = i
      BY <1>1
    <3>2. f[(i - 1) + 1] = h[<<i - 1, f[i - 1]>>]
      BY <1>5, <3>1 DEF Unfolds
    <3> QED
      BY <3>1, <3>2
  <2> QED
    BY <1>5, <2>1 DEF Unfolds
<1> HIDE DEF h
<1>7. FlattenSeq(s) = f[N]
  BY <1>6, FlattenIs
<1> DEFINE P == {k \in Nat : k <= N =>
                   /\ Amount(f[k], g) = Sums(a)[k]
                   /\ \A p : (\A i \in 1 .. N : OfPart(s[i], p)) => OfPart(f[k], p)}
<1> HIDE DEF a
<1>8. 0 \in P
  <2>1. Amount(f[0], g) = 0 /\ Sums(a)[0] = 0
    BY <1>3, <1>6, AmountEmpty, SumsFacts
  <2>2. \A p : OfPart(f[0], p)
    BY <1>6 DEF OfPart
  <2> QED
    BY <2>1, <2>2
<1>9. ASSUME NEW k \in Nat, k \in P
      PROVE  k + 1 \in P
  <2> SUFFICES ASSUME k + 1 <= N
               PROVE  /\ Amount(f[k + 1], g) = Sums(a)[k + 1]
                      /\ \A p : (\A i \in 1 .. N : OfPart(s[i], p)) => OfPart(f[k + 1], p)
    OBVIOUS
  <2>1. k + 1 \in 1 .. N /\ (k + 1) - 1 = k /\ k <= N
    BY <1>1
  <2>2. f[k + 1] = f[k] \o s[k + 1] /\ f[k] \in Seq(EntryType) /\ s[k + 1] \in Seq(EntryType)
    <3>1. f[k + 1] = f[(k + 1) - 1] \o s[k + 1]
      BY <1>6, <2>1
    <3>2. s[k + 1] \in Seq(EntryType)
      BY <1>2, <2>1
    <3>3. f[k] \in Seq(EntryType)
      OBVIOUS
    <3> QED
      BY <2>1, <3>1, <3>2, <3>3
  <2>3. Amount(f[k + 1], g) = Amount(f[k], g) + Amount(s[k + 1], g)
    <3>1. \A x, y \in Seq(EntryType) : Amount(x \o y, g) = Amount(x, g) + Amount(y, g)
      BY AmountConcat
    <3> QED
      BY <2>2, <3>1
  <2>4. Sums(a)[k + 1] = Sums(a)[k] + a[k + 1]
    BY <1>3, SumsFacts
  <2>5. Amount(f[k], g) = Sums(a)[k]
    BY <1>9, <2>1
  <2>6. ASSUME NEW p, \A i \in 1 .. N : OfPart(s[i], p)
        PROVE  OfPart(f[k + 1], p)
    <3>1. OfPart(f[k], p)
      BY <1>9, <2>1, <2>6
    <3>2. OfPart(s[k + 1], p)
      BY <2>1, <2>6
    <3> QED
      BY <2>2, <3>1, <3>2, OfPartConcat
  <2> QED
    BY <1>3, <2>1, <2>3, <2>4, <2>5, <2>6
<1>10. Nat \subseteq P
  <2> HIDE DEF P
  <2> QED
    BY <1>8, <1>9, SetInduction
<1>11. /\ Amount(f[N], g) = Sums(a)[N]
       /\ \A p : (\A i \in 1 .. N : OfPart(s[i], p)) => OfPart(f[N], p)
  <2>1. N \in P
    BY <1>1, <1>10
  <2> QED
    BY <1>1, <2>1
<1> QED
  BY <1>3, <1>7, <1>11 DEF a

\* What the deques hold of a partition, as one sequence.
LEMMA ValuesFacts ==
  ASSUME deques \in [Threads -> DequeType \cup {NoDeque}], NEW p \in Parts
  PROVE  /\ Values(p) \in Seq(EntryType) /\ OfPart(Values(p), p)
         /\ \A g \in Groups : PartNr(g) = p =>
              Amount(Values(p), g) = Total(Threads, [t \in Threads |-> InDeque(deques[t], g)])
<1> DEFINE us == SetToSeq(Spillers)
           s == [n \in DOMAIN us |-> PartitionItems(deques[us[n]].partitions[p])]
<1>1. Spillers \in SUBSET Threads /\ IsFiniteSet(Threads) /\ IsFiniteSet(Spillers)
  <2>1. Spillers \in SUBSET Threads /\ IsFiniteSet(Threads)
    BY GroupByAssumption DEF Spillers
  <2> QED
    BY <2>1, FS_Subset
<1>2. us \in Seq(Spillers) /\ Len(us) \in Nat /\ DOMAIN us = 1 .. Len(us)
  BY <1>1, SetToSeqFacts
<1>3. \A n \in 1 .. Len(us) : us[n] \in Spillers /\ us[n] \in Threads /\ deques[us[n]] \in DequeType
  <2>1. \A n \in 1 .. Len(us) : us[n] \in Spillers
    BY <1>2, ElementOfSeq
  <2> QED
    BY <2>1 DEF Spillers
<1>4. Values(p) = FlattenSeq(s)
  BY DEF Values
<1> HIDE DEF us
<1>5. \A n \in 1 .. Len(us) :
        /\ PartitionItems(deques[us[n]].partitions[p]) \in Seq(EntryType)
        /\ OfPart(PartitionItems(deques[us[n]].partitions[p]), p)
  BY <1>3, DequeFacts DEF OfPart
<1>6. /\ s \in Seq(Seq(EntryType)) /\ Len(s) = Len(us)
      /\ \A n \in 1 .. Len(us) : s[n] = PartitionItems(deques[us[n]].partitions[p])
  BY <1>2, <1>5
<1> HIDE DEF s
<1>7. Values(p) \in Seq(EntryType)
  <2>1. <<>> \in Seq(EntryType)
    BY EmptySeq
  <2> QED
    BY <1>4, <1>6, <2>1, FlattenFacts
<1>8. OfPart(Values(p), p)
  BY <1>4, <1>5, <1>6, AmountFlatten
<1>9. ASSUME NEW g \in Groups, PartNr(g) = p
      PROVE  Amount(Values(p), g) = Total(Threads, [t \in Threads |-> InDeque(deques[t], g)])
  <2>1. PICK f : f = [t \in Threads |-> InDeque(deques[t], g)]
    OBVIOUS
  <2>2. PICK h : h = [t \in Spillers |-> InDeque(deques[t], g)]
    OBVIOUS
  <2>3. \A t \in Threads : InDeque(deques[t], g) \in Nat
    BY InDequeType
  <2>4. f \in [Threads -> Nat] /\ h \in [Spillers -> Nat] /\ \A t \in Spillers : h[t] = f[t]
    BY <1>1, <2>1, <2>2, <2>3
  <2>5. \A t \in Threads \ Spillers : f[t] = 0
    BY <2>1 DEF Spillers, InDeque
  <2>6. Total(Threads, f) = Total(Spillers, h)
    BY <1>1, <2>4, <2>5, TotalSubset
  <2>7. Amount(Values(p), g) = Sums(Amounts(s, g))[Len(s)]
    BY <1>4, <1>6, AmountFlatten
  <2>8. ASSUME NEW n \in 1 .. Len(us)
        PROVE  Amount(s[n], g) = h[us[n]]
    <3>1. deques[us[n]] # NoDeque /\ us[n] \in Spillers
      BY <1>3 DEF Spillers
    <3> QED
      BY <1>6, <1>9, <2>2, <3>1 DEF InDeque
  <2>9. Amounts(s, g) = Listed(Spillers, h)
    BY <1>6, <2>8 DEF Amounts, Listed, us
  <2> QED
    BY <1>6, <2>1, <2>6, <2>7, <2>9 DEF Total, us
<1> QED
  BY <1>7, <1>8, <1>9

\* The value of an entry that an iteration finds is increased.
Increased(t, s, i, w) ==
  /\ StackOK(t) /\ Places(t) = Places(s) /\ Extends(t, s)
  /\ \A g : Amount(Items(t), g) = Amount(Items(s), g) + (IF Items(s)[i].k = g THEN w ELSE 0)
  /\ KeysApart(Items(s)) => KeysApart(Items(t))
  /\ \A g : (\E j \in 1 .. Len(Items(t)) : Items(t)[j].k = g)
              <=> (\E j \in 1 .. Len(Items(s)) : Items(s)[j].k = g)

LEMMA Added ==
  ASSUME NEW s, StackOK(s), NEW i \in 1 .. Len(Items(s)), NEW w \in Nat,
         NEW a, a = Items(s)[i].v + w,
         NEW t, t = Written(s, Places(s)[i], a)
  PROVE  Increased(t, s, i, w)
<1>1. PICK I : I = Items(s)
  OBVIOUS
<1>2. PICK J : J = Items(t)
  OBVIOUS
<1>3. I \in Seq(EntryType) /\ Len(I) \in Nat /\ I[i] \in EntryType
  <2>1. I \in Seq(EntryType)
    BY <1>1, StackItems
  <2> QED
    BY <1>1, <2>1, LenProperties, ElementOfSeq
<1>4. a = I[i].v + w
  BY <1>1
<1>5. a \in Nat \ {0}
  <2>1. I[i].v \in Nat \ {0}
    BY <1>3 DEF EntryType
  <2> QED
    BY <1>4, <2>1
<1>7. /\ StackOK(t) /\ Places(t) = Places(s) /\ Len(J) = Len(I)
      /\ J[i] = Entry(I[i].k, a)
      /\ \A j \in 1 .. Len(I) : j # i => J[j] = I[j]
  <2>1. Updated(t, s, i, a)
    BY <1>5, StackUpdate
  <2> QED
    BY <1>1, <1>2, <2>1 DEF Updated
<1>8. Extends(t, s)
  <2>1. /\ Places(s)[i] \in Nat \X Nat /\ Owned(s, Places(s)[i])
    <3>1. i \in 1 .. Len(Places(s)) /\ Places(s) \in Seq(Nat \X Nat)
      BY StackItems, StackPlaces
    <3>2. Owned(s, Places(s)[i])
      BY <3>1, StackPlaces
    <3>3. Places(s)[i] \in Nat \X Nat
      BY <3>1, ElementOfSeq
    <3> QED
      BY <3>2, <3>3
  <2>2. PICK pl : pl = Places(s)[i]
    OBVIOUS
  <2>3. /\ Len(t.chunks) = Len(s.chunks)
        /\ \A n \in 1 .. Len(s.chunks) : Len(t.chunks[n]) = Len(s.chunks[n])
    <3>1. pl \in Nat \X Nat /\ Owned(s, pl) /\ t = Written(s, pl, a)
      BY <2>1, <2>2
    <3>2. Rewritten(t, s, pl, a)
      BY <1>5, <3>1, StackWrite
    <3> QED
      BY <3>2 DEF Rewritten
  <2>4. Len(s.chunks) \in Nat /\ \A n \in 1 .. Len(s.chunks) : Len(s.chunks[n]) \in Nat
    <3>1. s.chunks \in Seq(Seq(EntryType))
      BY DEF StackOK, StackType
    <3>2. \A n \in 1 .. Len(s.chunks) : s.chunks[n] \in Seq(EntryType)
      BY <3>1, ElementOfSeq
    <3>3. \A n \in 1 .. Len(s.chunks) : Len(s.chunks[n]) \in Nat
      BY <3>2, LenProperties
    <3> QED
      BY <3>1, <3>3, LenProperties
  <2> QED
    BY <2>3, <2>4 DEF Extends
<1>9. J \in Seq(EntryType)
  BY <1>2, <1>7, StackItems
<1>10. \A g : Amount(J, g) = Amount(I, g) + (IF I[i].k = g THEN w ELSE 0)
  <2>1. J[i] = Entry(I[i].k, I[i].v + w)
    BY <1>4, <1>7
  <2>2. i \in 1 .. Len(I)
    BY <1>1
  <2> QED
    BY <1>3, <1>7, <1>9, <2>1, <2>2, AmountChanged
<1>11. \A j \in 1 .. Len(I) : J[j].k = I[j].k
  BY <1>7 DEF Entry
<1>12. KeysApart(I) => KeysApart(J)
  BY <1>7, <1>11 DEF KeysApart
<1>13. \A g : (\E j \in 1 .. Len(J) : J[j].k = g) <=> (\E j \in 1 .. Len(I) : I[j].k = g)
  BY <1>7, <1>11
<1> QED
  BY <1>1, <1>2, <1>7, <1>8, <1>10, <1>12, <1>13 DEF Increased

LEMMA AddedTo ==
  ASSUME NEW s, StackOK(s), NEW i \in 1 .. Len(Items(s)), NEW w
  PROVE  AddTo(s, Places(s)[i], w) = Written(s, Places(s)[i], Items(s)[i].v + w)
<1>1. Items(s)[i] = At(s, Places(s)[i])
  BY StackItems
<1> QED
  BY <1>1, AddToWrites

\* A new entry in a table that has none for its group.
LEMMA ApartAppend ==
  ASSUME NEW es \in Seq(EntryType), NEW e \in EntryType, KeysApart(es),
         \A i \in 1 .. Len(es) : es[i].k # e.k
  PROVE  KeysApart(Append(es, e))
<1>1. PICK a : a = Append(es, e)
  OBVIOUS
<1>2. /\ Len(a) = Len(es) + 1 /\ Len(es) \in Nat
      /\ \A i \in 1 .. Len(es) : a[i] = es[i]
      /\ a[Len(es) + 1] = e
  BY <1>1, AppendProperties, LenProperties
<1>3. \A i \in 1 .. Len(a) : i \in 1 .. Len(es) \/ i = Len(es) + 1
  BY <1>2
<1>4. ASSUME NEW i \in 1 .. Len(a), NEW j \in 1 .. Len(a), a[i].k = a[j].k
      PROVE  i = j
  <2>1. CASE i \in 1 .. Len(es) /\ j \in 1 .. Len(es)
    BY <1>2, <1>4, <2>1 DEF KeysApart
  <2>2. CASE i \in 1 .. Len(es) /\ j = Len(es) + 1
    BY <1>2, <1>4, <2>2
  <2>3. CASE i = Len(es) + 1 /\ j \in 1 .. Len(es)
    BY <1>2, <1>4, <2>3
  <2> QED
    BY <1>3, <2>1, <2>2, <2>3
<1> QED
  BY <1>1, <1>4 DEF KeysApart

LEMMA OneApart == KeysApart(<<>>)
BY DEF KeysApart

-----------------------------------------------------------------------------
(* The aggregation of a partition *)

TableOK(tb) ==
  /\ StackOK(tb.stack) /\ tb.places = ToSet(Places(tb.stack)) /\ tb.max \in Nat
  /\ KeysApart(Items(tb.stack))

TableType == {tb \in [places : SUBSET (Nat \X Nat), stack : StackType, max : Nat] : TableOK(tb)}

LEMMA PlacesSet ==
  ASSUME NEW s, StackOK(s)
  PROVE  ToSet(Places(s)) \in SUBSET (Nat \X Nat)
<1>1. Places(s) \in Seq(Nat \X Nat) /\ DOMAIN Places(s) = 1 .. Len(Places(s))
  BY StackPlaces
<1>2. \A i \in 1 .. Len(Places(s)) : Places(s)[i] \in Nat \X Nat
  BY <1>1, ElementOfSeq
<1> QED
  BY <1>1, <1>2 DEF ToSet

LEMMA TableIs ==
  ASSUME NEW p, NEW s, NEW m \in Nat, StackOK(s), p = ToSet(Places(s)), KeysApart(Items(s))
  PROVE  [places |-> p, stack |-> s, max |-> m] \in TableType
<1>1. p \in SUBSET (Nat \X Nat) /\ s \in StackType
  BY PlacesSet DEF StackOK
<1>2. PICK tb : tb = [places |-> p, stack |-> s, max |-> m]
  OBVIOUS
<1>3. tb.places = p /\ tb.stack = s /\ tb.max = m
  BY <1>2
<1>4. tb \in [places : SUBSET (Nat \X Nat), stack : StackType, max : Nat]
  BY <1>1, <1>2
<1> QED
  BY <1>2, <1>3, <1>4 DEF TableType, TableOK

LEMMA MergedFacts ==
  ASSUME NEW tb \in TableType, NEW e \in EntryType, NEW u, u = Merged(tb, e)
  PROVE  /\ u \in TableType
         /\ \A g : Amount(Items(u.stack), g) = Amount(Items(tb.stack), g) + Share(e, g)
         /\ Extends(u.stack, tb.stack)
         /\ \A p : OfPart(Items(tb.stack), p) /\ PartNr(e.k) = p => OfPart(Items(u.stack), p)
<1>1. PICK s : s = tb.stack
  OBVIOUS
<1>2. PICK I : I = Items(s)
  OBVIOUS
<1>3. PICK pl : pl = FindIn(tb.places, s, e.k)
  OBVIOUS
<1>4. /\ StackOK(s) /\ tb.places = ToSet(Places(s)) /\ tb.max \in Nat /\ KeysApart(I)
      /\ tb = [places |-> tb.places, stack |-> s, max |-> tb.max]
  BY <1>1, <1>2 DEF TableType, TableOK
<1>5. I \in Seq(EntryType) /\ Len(I) \in Nat
  <2>1. I \in Seq(EntryType)
    BY <1>2, <1>4, StackItems
  <2> QED
    BY <2>1, LenProperties
<1>6. \/ pl = Absent /\ \A i \in 1 .. Len(I) : I[i].k # e.k
      \/ \E i \in 1 .. Len(I) : pl = Places(s)[i] /\ I[i].k = e.k /\ pl # Absent
  BY <1>2, <1>3, <1>4, Found
<1>7. CASE pl # Absent
  <2>1. PICK i \in 1 .. Len(I) : pl = Places(s)[i] /\ I[i].k = e.k
    BY <1>6, <1>7
  <2>2. PICK t : t = AddTo(s, pl, e.v)
    OBVIOUS
  <2>3. u = [places |-> tb.places, stack |-> t, max |-> tb.max]
    <3>1. u = [tb EXCEPT !.stack = AddTo(tb.stack, pl, e.v)]
      BY <1>1, <1>3, <1>7 DEF Merged
    <3> QED
      BY <1>1, <1>4, <2>2, <3>1
  <2>4. t = Written(s, Places(s)[i], I[i].v + e.v)
    BY <1>2, <1>4, <2>1, <2>2, AddedTo
  <2>5. e.v \in Nat
    BY DEF EntryType
  <2>6. PICK J : J = Items(t)
    OBVIOUS
  <2>7. /\ StackOK(t) /\ Places(t) = Places(s) /\ Extends(t, s)
        /\ \A g : Amount(J, g) = Amount(I, g) + (IF I[i].k = g THEN e.v ELSE 0)
        /\ KeysApart(I) => KeysApart(J)
        /\ \A g : (\E j \in 1 .. Len(J) : J[j].k = g) <=> (\E j \in 1 .. Len(I) : I[j].k = g)
    <3>0. PICK a : a = Items(s)[i].v + e.v
      OBVIOUS
    <3>1. i \in 1 .. Len(Items(s)) /\ t = Written(s, Places(s)[i], a)
      BY <1>2, <2>4, <3>0
    <3>2. Increased(t, s, i, e.v)
      BY <1>4, <2>5, <3>0, <3>1, Added
    <3> QED
      BY <1>2, <2>6, <3>2 DEF Increased
  <2>8. u \in TableType
    BY <1>4, <2>3, <2>6, <2>7, TableIs
  <2>9. u.stack = t
    BY <2>3
  <2>10. \A g : Share(e, g) = IF I[i].k = g THEN e.v ELSE 0
    BY <2>1 DEF Share
  <2>11. ASSUME NEW p, OfPart(I, p)
         PROVE  OfPart(J, p)
    <3>1. ASSUME NEW j \in 1 .. Len(J)
          PROVE  PartNr(J[j].k) = p
      <4>1. PICK n \in 1 .. Len(I) : I[n].k = J[j].k
        BY <2>7
      <4> QED
        BY <2>11, <4>1 DEF OfPart
    <3> QED
      BY <3>1 DEF OfPart
  <2> QED
    BY <1>1, <1>2, <2>6, <2>7, <2>8, <2>9, <2>10, <2>11
<1>8. CASE pl = Absent
  <2>1. PICK t : t = EmplaceBack(s, e)
    OBVIOUS
  <2>2. PICK m \in Nat : u = [places |-> tb.places \cup {Back(t)}, stack |-> t, max |-> m]
    <3>1. CASE Cardinality(tb.places) >= tb.max
      <4>1. u = [Grow(tb) EXCEPT !.stack = t, !.places = Grow(tb).places \cup {Back(t)}]
        BY <1>1, <1>3, <1>8, <2>1, <3>1 DEF Merged
      <4>2. Grow(tb) = [places |-> tb.places, stack |-> s, max |-> 2 * tb.max]
        <5>1. Grow(tb) = [tb EXCEPT !.places = ToSet(Places(tb.stack)), !.max = 2 * tb.max]
          BY DEF Grow, InsertAll
        <5>2. PICK m : m = 2 * tb.max
          OBVIOUS
        <5>3. Grow(tb) = [tb EXCEPT !.places = tb.places, !.max = m]
          BY <1>1, <1>4, <5>1, <5>2
        <5>4. Grow(tb) = [places |-> tb.places, stack |-> s, max |-> m]
          <6>1. DOMAIN tb = {"places", "stack", "max"} /\ tb.stack = s
            BY <1>4
          <6> QED
            BY <5>3, <6>1
        <5> QED
          BY <5>2, <5>4
      <4>3. u = [places |-> tb.places \cup {Back(t)}, stack |-> t, max |-> 2 * tb.max]
        <5>1. PICK m : m = 2 * tb.max
          OBVIOUS
        <5>2. PICK l : l = Grow(tb)
          OBVIOUS
        <5>3. l = [places |-> tb.places, stack |-> s, max |-> m]
          BY <4>2, <5>1, <5>2
        <5>4. u = [l EXCEPT !.stack = t, !.places = l.places \cup {Back(t)}]
          BY <4>1, <5>2
        <5>5. u = [places |-> tb.places \cup {Back(t)}, stack |-> t, max |-> m]
          BY <5>3, <5>4
        <5> QED
          BY <5>1, <5>5
      <4>4. 2 * tb.max \in Nat
        BY <1>4
      <4> QED
        BY <4>3, <4>4
    <3>2. CASE ~(Cardinality(tb.places) >= tb.max)
      <4>1. u = [tb EXCEPT !.stack = t, !.places = tb.places \cup {Back(t)}]
        BY <1>1, <1>3, <1>8, <2>1, <3>2 DEF Merged
      <4>2. u = [places |-> tb.places \cup {Back(t)}, stack |-> t, max |-> tb.max]
        BY <1>4, <4>1
      <4> QED
        BY <1>4, <4>2
    <3> QED
      BY <3>1, <3>2
  <2>3. PICK J : J = Items(t)
    OBVIOUS
  <2>4. /\ StackOK(t) /\ Extends(t, s)
        /\ tb.places \cup {Back(t)} = ToSet(Places(t))
        /\ J = Append(I, e)
    <3>0. PICK full \in BOOLEAN : full = FALSE
      OBVIOUS
    <3>1. t = EmplaceBack(IF full THEN ClearStack(s) ELSE s, e)
      BY <2>1, <3>0
    <3>2. PICK places : places = ToSet(Places(s))
      OBVIOUS
    <3>3. /\ StackOK(t) /\ Extends(t, s)
          /\ (IF full THEN {} ELSE places) \cup {Back(t)} = ToSet(Places(t))
          /\ Items(t) = Append(IF full THEN <<>> ELSE Items(s), e)
      BY <1>4, <3>1, <3>2, Created
    <3> QED
      BY <1>2, <1>4, <2>3, <3>0, <3>2, <3>3
  <2>5. KeysApart(J)
    BY <1>4, <1>5, <1>6, <1>8, <2>4, ApartAppend
  <2>6. u \in TableType
    BY <2>2, <2>3, <2>4, <2>5, TableIs
  <2>7. u.stack = t
    BY <2>2
  <2>8. \A g : Amount(J, g) = Amount(I, g) + Share(e, g)
    BY <1>5, <2>4, AmountAppend
  <2>9. /\ Len(J) = Len(I) + 1 /\ J[Len(I) + 1] = e
        /\ \A j \in 1 .. Len(I) : J[j] = I[j]
    BY <1>5, <2>4, AppendProperties
  <2>10. ASSUME NEW p, OfPart(I, p), PartNr(e.k) = p
         PROVE  OfPart(J, p)
    <3>1. \A j \in 1 .. Len(J) : j \in 1 .. Len(I) \/ j = Len(I) + 1
      BY <1>5, <2>9
    <3> QED
      BY <2>9, <2>10, <3>1 DEF OfPart
  <2> QED
    BY <1>1, <1>2, <2>3, <2>4, <2>6, <2>7, <2>8, <2>10
<1> QED
  BY <1>7, <1>8

\* The loop over the values of a partition, from a table tb on.
MergedAll(tb, values) ==
  LET merge[n \in 0 .. Len(values)] ==
        IF n = 0 THEN {tb} ELSE {Merged(table, values[n]) : table \in merge[n - 1]}
  IN  merge[Len(values)]

LEMMA MergeLoop ==
  ASSUME NEW tb \in TableType, NEW values \in Seq(EntryType)
  PROVE  \E u \in TableType :
           /\ MergedAll(tb, values) = {u}
           /\ \A g : Amount(Items(u.stack), g) = Amount(Items(tb.stack), g) + Amount(values, g)
           /\ \A p : OfPart(Items(tb.stack), p) /\ OfPart(values, p) => OfPart(Items(u.stack), p)
<1> DEFINE N == Len(values)
           Body(f) == [n \in 0 .. N |->
                         IF n = 0 THEN {tb} ELSE {Merged(table, values[n]) : table \in f[n - 1]}]
           h == [x \in Nat \X TableType |->
                   IF x[1] + 1 \in 1 .. N THEN Merged(x[2], values[x[1] + 1]) ELSE x[2]]
           f == CHOOSE f : f = Body(f)
<1>1. N \in Nat
  BY LenProperties
<1>2. \A n \in 1 .. N : values[n] \in EntryType
  BY ElementOfSeq
<1>3. h \in [Nat \X TableType -> TableType]
  <2>1. ASSUME NEW x \in Nat \X TableType
        PROVE  h[x] \in TableType
    <3>1. CASE x[1] + 1 \in 1 .. N
      <4>1. PICK e : e = values[x[1] + 1]
        OBVIOUS
      <4>2. e \in EntryType /\ x[2] \in TableType
        BY <1>2, <3>1, <4>1
      <4>3. Merged(x[2], e) \in TableType
        BY <4>2, MergedFacts
      <4> QED
        BY <3>1, <4>1, <4>3
    <3>2. CASE x[1] + 1 \notin 1 .. N
      BY <3>2
    <3> QED
      BY <3>1, <3>2
  <2> QED
    BY <2>1
<1>4. PICK g \in [Nat -> TableType] : Unfolds(g, tb, h)
  BY <1>3, Unfolding
<1>5. g[0] = tb /\ \A n \in 1 .. N : g[n] = Merged(g[n - 1], values[n])
  <2>1. ASSUME NEW n \in 1 .. N
        PROVE  g[n] = Merged(g[n - 1], values[n])
    <3>1. n - 1 \in Nat /\ (n - 1) + 1 = n
      BY <1>1
    <3>2. g[(n - 1) + 1] = h[<<n - 1, g[n - 1]>>]
      BY <1>4, <3>1 DEF Unfolds
    <3>3. h[<<n - 1, g[n - 1]>>] = Merged(g[n - 1], values[n])
      BY <3>1
    <3> QED
      BY <3>1, <3>2, <3>3
  <2> QED
    BY <1>4, <2>1 DEF Unfolds
<1> HIDE DEF h
<1> DEFINE e == [n \in 0 .. N |-> {g[n]}]
<1>6. e = Body(e)
  <2>1. ASSUME NEW n \in 0 .. N
        PROVE  e[n] = Body(e)[n]
    <3>1. CASE n = 0
      BY <1>1, <1>5, <3>1
    <3>2. CASE n # 0
      <4>1. n \in 1 .. N /\ n - 1 \in 0 .. N
        BY <1>1, <3>2
      <4>2. e[n - 1] = {g[n - 1]} /\ e[n] = {g[n]}
        BY <4>1
      <4>3. g[n] = Merged(g[n - 1], values[n])
        BY <1>5, <4>1
      <4> HIDE DEF e
      <4>4. e[n] = {Merged(table, values[n]) : table \in e[n - 1]}
        BY <4>2, <4>3
      <4> QED
        BY <3>2, <4>4
    <3> QED
      BY <3>1, <3>2
  <2> QED
    BY <2>1
<1>7. f = Body(f)
  <2> HIDE DEF Body, e
  <2> QED
    BY <1>6
<1>8. MergedAll(tb, values) = f[N]
  BY DEF MergedAll
<1> HIDE DEF f, e
<1>9. f[0] = {tb} /\ \A n \in 1 .. N : f[n] = {Merged(table, values[n]) : table \in f[n - 1]}
  <2>1. 0 \in 0 .. N /\ \A n \in 1 .. N : n \in 0 .. N /\ n # 0
    BY <1>1
  <2> QED
    BY <1>7, <2>1
<1> DEFINE P == {n \in Nat : n <= N =>
                   /\ f[n] = {g[n]}
                   /\ \A k : Amount(Items(g[n].stack), k) =
                               Amount(Items(tb.stack), k) + Sums(ValuesFor(values, k))[n]
                   /\ \A p : OfPart(Items(tb.stack), p) /\ OfPart(values, p)
                               => OfPart(Items(g[n].stack), p)}
<1>10. \A k : ValuesFor(values, k) \in [Nat -> Nat]
  BY AmountType
<1>11. \A u \in TableType : \A k : Amount(Items(u.stack), k) \in Nat
  <2>1. ASSUME NEW u \in TableType, NEW k
        PROVE  Amount(Items(u.stack), k) \in Nat
    <3>1. StackOK(u.stack)
      BY DEF TableType, TableOK
    <3>2. Items(u.stack) \in Seq(EntryType)
      BY <3>1, StackItems
    <3> QED
      BY <3>2, AmountType
  <2> QED
    BY <2>1
<1>12. 0 \in P
  <2>1. ASSUME NEW k
        PROVE  Amount(Items(tb.stack), k) = Amount(Items(tb.stack), k) + Sums(ValuesFor(values, k))[0]
    <3>1. PICK w : w = ValuesFor(values, k)
      OBVIOUS
    <3>2. Sums(w)[0] = 0
      BY <1>10, <3>1, SumsFacts
    <3>3. PICK m : m = Amount(Items(tb.stack), k)
      OBVIOUS
    <3>4. m \in Nat
      BY <1>11, <3>3
    <3>5. m = m + Sums(w)[0]
      BY <3>2, <3>4
    <3> QED
      BY <3>1, <3>3, <3>5
  <2>2. g[0].stack = tb.stack /\ f[0] = {g[0]}
    BY <1>5, <1>9
  <2> QED
    BY <2>1, <2>2
<1>13. ASSUME NEW n \in Nat, n \in P
       PROVE  n + 1 \in P
  <2> SUFFICES ASSUME n + 1 <= N
               PROVE  /\ f[n + 1] = {g[n + 1]}
                      /\ \A k : Amount(Items(g[n + 1].stack), k) =
                                  Amount(Items(tb.stack), k) + Sums(ValuesFor(values, k))[n + 1]
                      /\ \A p : OfPart(Items(tb.stack), p) /\ OfPart(values, p)
                                  => OfPart(Items(g[n + 1].stack), p)
    OBVIOUS
  <2>1. n + 1 \in 1 .. N /\ (n + 1) - 1 = n /\ n <= N
    BY <1>1
  <2>2. PICK b : b = values[n + 1]
    OBVIOUS
  <2>3. b \in EntryType
    BY <1>2, <2>1, <2>2
  <2>4. g[n + 1] = Merged(g[n], b) /\ g[n] \in TableType
    <3>1. g[n + 1] = Merged(g[(n + 1) - 1], values[n + 1])
      BY <1>5, <2>1
    <3> QED
      BY <2>1, <2>2, <3>1
  <2>5. /\ \A k : Amount(Items(g[n + 1].stack), k) = Amount(Items(g[n].stack), k) + Share(b, k)
        /\ \A p : OfPart(Items(g[n].stack), p) /\ PartNr(b.k) = p => OfPart(Items(g[n + 1].stack), p)
    BY <2>3, <2>4, MergedFacts
  <2>6. f[n + 1] = {g[n + 1]}
    <3>1. f[n] = {g[n]}
      BY <1>13, <2>1
    <3>2. f[n + 1] = {Merged(table, values[n + 1]) : table \in f[(n + 1) - 1]}
      BY <1>9, <2>1
    <3>3. f[n + 1] = {Merged(table, b) : table \in {g[n]}}
      BY <2>1, <2>2, <3>1, <3>2
    <3> QED
      BY <2>4, <3>3
  <2>7. ASSUME NEW k
        PROVE  Amount(Items(g[n + 1].stack), k) =
                 Amount(Items(tb.stack), k) + Sums(ValuesFor(values, k))[n + 1]
    <3>1. Amount(Items(g[n].stack), k) =
            Amount(Items(tb.stack), k) + Sums(ValuesFor(values, k))[n]
      BY <1>13, <2>1
    <3>2. PICK w : w = ValuesFor(values, k)
      OBVIOUS
    <3>3. w \in [Nat -> Nat]
      BY <1>10, <3>2
    <3>4. Sums(w)[n + 1] = Sums(w)[n] + w[n + 1] /\ Sums(w)[n] \in Nat
      BY <3>3, SumsFacts
    <3>5. w[n + 1] = Share(b, k) /\ w[n + 1] \in Nat
      BY <2>1, <2>2, <3>2, <3>3 DEF ValuesFor, Share
    <3>6. Amount(Items(g[n + 1].stack), k) = Amount(Items(g[n].stack), k) + Share(b, k)
      BY <2>5
    <3>7. Amount(Items(tb.stack), k) \in Nat
      BY <1>11
    <3> QED
      BY <3>1, <3>2, <3>4, <3>5, <3>6, <3>7
  <2>8. ASSUME NEW p, OfPart(Items(tb.stack), p), OfPart(values, p)
        PROVE  OfPart(Items(g[n + 1].stack), p)
    <3>1. OfPart(Items(g[n].stack), p)
      BY <1>13, <2>1, <2>8
    <3>2. PartNr(b.k) = p
      BY <2>1, <2>2, <2>8 DEF OfPart
    <3> QED
      BY <2>5, <3>1, <3>2
  <2> QED
    BY <2>6, <2>7, <2>8
<1>14. Nat \subseteq P
  <2> HIDE DEF P
  <2> QED
    BY <1>12, <1>13, SetInduction
<1>15. /\ f[N] = {g[N]}
       /\ \A k : Amount(Items(g[N].stack), k) =
                   Amount(Items(tb.stack), k) + Sums(ValuesFor(values, k))[N]
       /\ \A p : OfPart(Items(tb.stack), p) /\ OfPart(values, p) => OfPart(Items(g[N].stack), p)
  <2>1. N \in P
    BY <1>1, <1>14
  <2> QED
    BY <1>1, <2>1
<1>16. \A k : Amount(values, k) = Sums(ValuesFor(values, k))[N]
  BY DEF Amount
<1>17. g[N] \in TableType
  BY <1>1
<1> HIDE DEF N
<1> QED
  BY <1>8, <1>15, <1>16, <1>17

\* What a block of groups adds to the result.
HandedOn(block) ==
  LET Of(g) == {n \in DOMAIN block : block[n].k = g}
  IN  /\ rows' = [g \in Groups |-> rows[g] + Cardinality(Of(g))]
      /\ result' = [g \in Groups |->
                      IF Of(g) = {} THEN result[g]
                      ELSE block[CHOOSE n \in Of(g) : TRUE].v]

\* What the groups of a table add to the result.
LEMMA Emitted ==
  ASSUME NEW s, StackOK(s), KeysApart(Items(s)), Emit(s),
         rows \in [Groups -> Nat], result \in [Groups -> Nat]
  PROVE  /\ rows' = [g \in Groups |-> rows[g] + (IF Amount(Items(s), g) = 0 THEN 0 ELSE 1)]
         /\ result' = [g \in Groups |->
                         IF Amount(Items(s), g) = 0 THEN result[g] ELSE Amount(Items(s), g)]
<1>1. PICK I : I = Items(s)
  OBVIOUS
<1>2. I \in Seq(EntryType) /\ Len(I) = Len(Places(s)) /\ DOMAIN I = 1 .. Len(I)
  <2>1. I \in Seq(EntryType) /\ Len(I) = Len(Places(s))
    BY <1>1, StackItems
  <2> QED
    BY <2>1, LenProperties
<1>3. CASE StackEmpty(s)
  <2>1. s.last = 1 /\ s.fill = 0 /\ s.nrElements \in Nat
    BY <1>3 DEF StackEmpty, StackOK, StackType
  <2>2. BlockSize(s, 1) = 0
    BY <2>1 DEF BlockSize
  <2>3. Places(s) = <<>>
    <3>1. Places(s) = FlattenSeq(PlacesUpTo(s, 1))
      <4>1. s.last \in Nat \ {0} /\ \A i \in 1 .. s.last : BlockSize(s, i) \in Nat
        BY DEF StackOK, StackType, Chunked
      <4> QED
        BY <2>1, <4>1, PlacesOf
    <3>2. /\ FlattenSeq(PlacesUpTo(s, 0)) \in Seq(Nat \X Nat)
          /\ FlattenSeq(PlacesUpTo(s, 0 + 1)) =
               FlattenSeq(PlacesUpTo(s, 0)) \o Line(0 + 1, BlockSize(s, 0 + 1))
      <4>1. \A i \in 1 .. 0 + 1 : BlockSize(s, i) \in Nat
        BY <2>2
      <4> QED
        BY <4>1, PlacesSplit
    <3>3. PlacesUpTo(s, 0) = <<>>
      BY DEF PlacesUpTo
    <3>4. Line(1, 0) = <<>>
      BY DEF Line
    <3>5. FlattenSeq(PlacesUpTo(s, 1)) = <<>> \o <<>>
      BY <2>2, <3>2, <3>3, <3>4, FlattenEmpty
    <3>6. <<>> \o <<>> = <<>>
      BY EmptySeq, ConcatEmptySeq
    <3> QED
      BY <3>1, <3>5, <3>6
  <2>4. I = <<>>
    BY <1>2, <2>3, EmptySeq
  <2>5. \A g : Amount(I, g) = 0
    BY <2>4, AmountEmpty
  <2>6. rows' = rows /\ result' = result
    BY <1>3 DEF Emit
  <2> QED
    BY <1>1, <2>5, <2>6
<1>4. CASE ~StackEmpty(s)
  <2> DEFINE Of(g) == {n \in DOMAIN I : I[n].k = g}
  <2>1. SubSeq(I, 1, StackSize(s)) = I
    <3>1. StackSize(s) = Len(I)
      BY <1>2 DEF StackOK, Visited
    <3> QED
      BY <1>2, <3>1, SubSeqFull
  <2>2. /\ rows' = [g \in Groups |-> rows[g] + Cardinality(Of(g))]
        /\ result' = [g \in Groups |->
                        IF Of(g) = {} THEN result[g] ELSE I[CHOOSE n \in Of(g) : TRUE].v]
    <3>1. \E block \in {SubSeq(Items(s), 1, StackSize(s))} : HandedOn(block)
      BY <1>4 DEF Emit, HandedOn
    <3>2. SubSeq(Items(s), 1, StackSize(s)) = I
      BY <1>1, <2>1
    <3>3. HandedOn(I)
      BY <3>1, <3>2
    <3> QED
      BY <3>3 DEF HandedOn
  <2>3. ASSUME NEW g \in Groups, Of(g) = {}
        PROVE  Amount(I, g) = 0 /\ Cardinality(Of(g)) = 0
    <3>1. ~\E i \in 1 .. Len(I) : I[i].k = g
      BY <1>2, <2>3
    <3>2. Amount(I, g) = 0
      BY <1>2, <3>1, AmountPresent
    <3> QED
      BY <2>3, <3>2, FS_EmptySet
  <2>4. ASSUME NEW g \in Groups, NEW i \in Of(g)
        PROVE  Amount(I, g) # 0 /\ Amount(I, g) = I[i].v /\ Of(g) = {i}
    <3>1. i \in 1 .. Len(I) /\ I[i].k = g
      BY <1>2, <2>4
    <3>2. KeysApart(I)
      BY <1>1
    <3>3. Amount(I, I[i].k) = I[i].v
      BY <1>2, <3>1, <3>2, AmountApart
    <3>4. I[i].v # 0
      <4>1. I[i] \in EntryType
        BY <1>2, <3>1, ElementOfSeq
      <4> QED
        BY <4>1 DEF EntryType
    <3>5. Of(g) = {i}
      BY <1>2, <3>1, <3>2 DEF KeysApart
    <3> QED
      BY <3>1, <3>3, <3>4, <3>5
  <2>5. ASSUME NEW g \in Groups
        PROVE  /\ Cardinality(Of(g)) = IF Amount(I, g) = 0 THEN 0 ELSE 1
               /\ (IF Of(g) = {} THEN result[g] ELSE I[CHOOSE n \in Of(g) : TRUE].v) =
                    IF Amount(I, g) = 0 THEN result[g] ELSE Amount(I, g)
    <3>1. CASE Of(g) = {}
      BY <2>3, <3>1
    <3>2. CASE Of(g) # {}
      <4>1. PICK i \in Of(g) : TRUE
        BY <3>2
      <4>2. Amount(I, g) # 0 /\ Amount(I, g) = I[i].v /\ Of(g) = {i}
        BY <2>4
      <4>3. Cardinality({i}) = 1
        BY FS_Singleton
      <4>4. PICK O : O = Of(g)
        OBVIOUS
      <4>5. O = {i} /\ (CHOOSE n \in O : TRUE) = i
        BY <4>2, <4>4
      <4> HIDE DEF Of
      <4> QED
        BY <4>2, <4>3, <4>4, <4>5
    <3> QED
      BY <3>1, <3>2
  <2> HIDE DEF Of
  <2> QED
    BY <1>1, <2>2, <2>5
<1> QED
  BY <1>3, <1>4

-----------------------------------------------------------------------------
(* The invariant *)

RowsOK ==
  /\ key \in [Rows -> 0 .. NGroups] /\ left \in SUBSET Rows
  /\ data \in [twTables -> DequeType]

\* A table finds what its stack holds; a thread that is not ready holds nothing.
LocalsOK ==
  /\ ready \in SUBSET Threads /\ limit \in [Threads -> Nat]
  /\ linked \in [Threads -> SUBSET (Nat \X Nat)]
  /\ entries \in [Threads -> StackType]
  /\ deques \in [Threads -> DequeType \cup {NoDeque}]
  /\ \A t \in Threads :
       /\ StackOK(entries[t]) /\ linked[t] = ToSet(Places(entries[t]))
       /\ t \notin ready => Items(entries[t]) = <<>>
       /\ t \in ready /\ phase \in {"scan", "merge", "spill"} => deques[t] # NoDeque

\* The entry that a task has found is memory of the table, whatever it now holds.
TaskType == [left : Seq(EntryType), of : Threads \cup {0}, slot : Nat \X Nat, acc : Nat]
TaskOK(t) ==
  /\ task[t].left = <<>> => task[t] = NoTask
  /\ task[t].left # <<>> =>
       /\ phase = "merge" /\ task[t].of \in ready
       /\ task[t].slot \notin {Unknown, Absent} => Owned(entries[task[t].of], task[t].slot)

MergeOK ==
  /\ DOMAIN owner \in SUBSET twTables /\ \A x \in DOMAIN owner : owner[x] \in ready
  /\ todo \in [twTables -> SUBSET Parts]
  /\ task \in [Threads -> TaskType] /\ \A t \in Threads : TaskOK(t)
  /\ shared \in BOOLEAN

PhaseOK ==
  /\ phase \in {"scan", "merge", "spill", "aggregate", "returned"}
  /\ phase # "scan" => left = {}
  /\ phase \notin {"scan", "merge"} =>
       DOMAIN owner = twTables /\ \A x \in twTables : todo[x] = {}
  /\ phase = "spill" => tasks \in SUBSET Threads
  /\ phase = "aggregate" => tasks \in SUBSET Parts
  /\ phase = "returned" => tasks = {}

\* There are rows, or tables that hold them, or a thread that has got them.
SomeThread ==
  /\ phase \in {"scan", "merge"} => left # {} \/ ready # {} \/ twTables # {}
  /\ phase = "spill" => ready # {}
  /\ phase \in {"aggregate", "returned"} => Spillers # {}

TypeOK == RowsOK /\ LocalsOK /\ MergeOK /\ PhaseOK /\ SomeThread

\* What a task has found in a table that no other task writes is still there.
SlotOK(t) ==
  LET I == Items(entries[task[t].of])
  IN  \/ task[t].left = <<>>
      \/ task[t].slot = Unknown
      \/ task[t].slot = Absent /\ \A i \in 1 .. Len(I) : I[i].k # Head(task[t].left).k
      \/ \E i \in 1 .. Len(I) :
           /\ task[t].slot = Places(entries[task[t].of])[i]
           /\ task[t].slot \notin {Unknown, Absent}
           /\ I[i].k = Head(task[t].left).k /\ I[i].v = task[t].acc

Apart ==
  /\ \A t \in Threads : KeysApart(Items(entries[t]))
  /\ \A t, u \in Threads :
       task[t].left # <<>> /\ task[u].left # <<>> /\ task[t].of = task[u].of => t = u
  /\ \A t \in Threads : SlotOK(t)

\* Where the values of a group are: in the tables of threads, unless they have been
\* spilled; in spill storages; in tasks that merge; in tables of the vectorized half
\* whose partition no task has got; and in rows that no task has got.
InTable(g) ==
  [t \in Threads |->
     IF phase \in {"scan", "merge"} \/ (phase = "spill" /\ t \in tasks)
     THEN Amount(Items(entries[t]), g) ELSE 0]
InDeques(g) == [t \in Threads |-> InDeque(deques[t], g)]
InTask(g) == [t \in Threads |-> Amount(task[t].left, g)]
InData(g) ==
  [x \in twTables |->
     IF x \notin DOMAIN owner \/ PartNr(g) \in todo[x] THEN InDeque(data[x], g) ELSE 0]
InRows(g) == SumOver({r \in left : key[r] = g})
Whole(g) == SumOver({r \in Rows : key[r] = g})

Conserved ==
  \A g \in Groups :
    Total(Threads, InTable(g)) + Total(Threads, InDeques(g)) + Total(Threads, InTask(g))
      + Total(twTables, InData(g)) + InRows(g) = Whole(g)

\* A partition that is done has its groups in the result, and no other has.
Done ==
  /\ rows \in [Groups -> Nat] /\ result \in [Groups -> Nat]
  /\ \A g \in Groups :
       IF phase \in {"aggregate", "returned"} /\ PartNr(g) \notin tasks
       THEN /\ rows[g] = IF Total(Threads, InDeques(g)) = 0 THEN 0 ELSE 1
            /\ result[g] = Total(Threads, InDeques(g))
       ELSE rows[g] = 0 /\ result[g] = 0

Inv == TypeOK /\ Done /\ (~shared => Apart /\ Conserved)

-----------------------------------------------------------------------------
(* What a thread does to its table, or to one that is lent to it *)

\* The table of a thread is still one, and has the memory that it had.
Kept(o, s, d) ==
  /\ StackOK(s) /\ Extends(s, entries[o]) /\ d \in DequeType
  /\ entries' = [entries EXCEPT ![o] = s]
  /\ linked' = [linked EXCEPT ![o] = ToSet(Places(s))]
  /\ deques' = [deques EXCEPT ![o] = d]

\* The value of an entry is in the table, or all of the table in the spill storage.
Took(o, s, d, e) ==
  /\ KeysApart(Items(s))
  /\ \A g \in Groups :
       Amount(Items(s), g) + InDeque(d, g) =
         Amount(Items(entries[o]), g) + InDeque(deques[o], g) + Share(e, g)

LEMMA CreateFacts ==
  ASSUME LocalsOK, NEW o \in Threads, deques[o] # NoDeque, NEW e \in EntryType,
         CreateGroup(o, e.k, e.v)
  PROVE  \E s, d :
           /\ Kept(o, s, d)
           /\ /\ KeysApart(Items(entries[o]))
              /\ \A i \in 1 .. Len(Items(entries[o])) : Items(entries[o])[i].k # e.k
              => Took(o, s, d, e)
<1>1. PICK u : u = entries[o]
  OBVIOUS
<1>2. PICK I : I = Items(u)
  OBVIOUS
<1>3. PICK full \in BOOLEAN : full <=> (Cardinality(linked[o]) >= limit[o])
  OBVIOUS
<1>4. PICK s : s = EmplaceBack(IF full THEN ClearStack(u) ELSE u, e)
  OBVIOUS
<1>5. PICK d : d = IF full THEN Spilled(deques[o], I) ELSE deques[o]
  OBVIOUS
<1>6. Entry(e.k, e.v) = e
  BY DEF Entry, EntryType
<1>7. StackOK(u) /\ linked[o] = ToSet(Places(u)) /\ deques[o] \in DequeType
  BY <1>1 DEF LocalsOK
<1>8. I \in Seq(EntryType)
  BY <1>2, <1>7, StackItems
<1>9. /\ StackOK(s) /\ Extends(s, u)
      /\ (IF full THEN {} ELSE linked[o]) \cup {Back(s)} = ToSet(Places(s))
      /\ Items(s) = Append(IF full THEN <<>> ELSE Items(u), e)
  BY <1>4, <1>7, Created
<1>10. /\ entries' = [entries EXCEPT ![o] = s]
       /\ linked' = [linked EXCEPT ![o] = (IF full THEN {} ELSE linked[o]) \cup {Back(s)}]
       /\ deques' = [deques EXCEPT ![o] = d]
  BY <1>1, <1>2, <1>3, <1>4, <1>5, <1>6 DEF CreateGroup
<1>11. /\ Spilled(deques[o], I) \in DequeType
       /\ \A g \in Groups : InDeque(Spilled(deques[o], I), g) = InDeque(deques[o], g) + Amount(I, g)
  BY <1>7, <1>8, SpilledFacts
<1>12. Kept(o, s, d)
  BY <1>1, <1>5, <1>7, <1>9, <1>10, <1>11 DEF Kept
<1>13. ASSUME KeysApart(I), \A i \in 1 .. Len(I) : I[i].k # e.k
       PROVE  Took(o, s, d, e)
  <2>1. PICK J : J = IF full THEN <<>> ELSE I
    OBVIOUS
  <2>2. <<>> \in Seq(EntryType) /\ Len(<<>>) = 0
    BY EmptySeq
  <2>3. J \in Seq(EntryType) /\ KeysApart(J) /\ \A i \in 1 .. Len(J) : J[i].k # e.k
    BY <1>8, <1>13, <2>1, <2>2, OneApart
  <2>4. Items(s) = Append(J, e)
    BY <1>2, <1>9, <2>1
  <2>5. KeysApart(Items(s))
    BY <2>3, <2>4, ApartAppend
  <2>6. ASSUME NEW g \in Groups
        PROVE  Amount(Items(s), g) + InDeque(d, g) =
                 Amount(I, g) + InDeque(deques[o], g) + Share(e, g)
    <3>1. Amount(Items(s), g) = Amount(J, g) + Share(e, g)
      BY <2>3, <2>4, AmountAppend
    <3>2. Amount(J, g) + InDeque(d, g) = Amount(I, g) + InDeque(deques[o], g)
      <4>1. Amount(<<>>, g) = 0
        BY AmountEmpty
      <4>2. InDeque(deques[o], g) \in Nat /\ Amount(I, g) \in Nat
        BY <1>7, <1>8, InDequeType, AmountType
      <4>3. CASE full
        BY <1>5, <1>11, <2>1, <4>1, <4>2, <4>3
      <4>4. CASE ~full
        BY <1>5, <2>1, <4>4
      <4> QED
        BY <4>3, <4>4
    <3>3. /\ Amount(J, g) \in Nat /\ InDeque(d, g) \in Nat /\ Share(e, g) \in Nat
          /\ Amount(I, g) \in Nat /\ InDeque(deques[o], g) \in Nat
      <4>1. Share(e, g) \in Nat
        BY DEF Share, EntryType
      <4>2. d \in DequeType
        BY <1>5, <1>7, <1>11
      <4> QED
        BY <1>7, <1>8, <2>3, <4>1, <4>2, AmountType, InDequeType
    <3>4. \A a, j, x, y, z, b \in Nat : j + x = z + y => (j + b) + x = z + y + b
      OBVIOUS
    <3> QED
      BY <3>1, <3>2, <3>3
  <2> QED
    BY <1>1, <1>2, <2>5, <2>6 DEF Took
<1> QED
  BY <1>1, <1>2, <1>12, <1>13

LEMMA WriteFacts ==
  ASSUME LocalsOK, NEW o \in Threads, deques[o] # NoDeque, NEW pl \in Nat \X Nat,
         Owned(entries[o], pl), NEW v \in Nat \ {0},
         NEW s, s = Written(entries[o], pl, v),
         entries' = [entries EXCEPT ![o] = s], linked' = linked, deques' = deques
  PROVE  /\ Kept(o, s, deques[o])
         /\ \A e \in EntryType : \A i \in 1 .. Len(Items(entries[o])) :
              /\ KeysApart(Items(entries[o])) /\ pl = Places(entries[o])[i]
              /\ Items(entries[o])[i].k = e.k /\ v = Items(entries[o])[i].v + e.v
              => Took(o, s, deques[o], e)
<1>1. PICK u : u = entries[o]
  OBVIOUS
<1>2. StackOK(u) /\ linked[o] = ToSet(Places(u)) /\ deques[o] \in DequeType
  BY <1>1 DEF LocalsOK
<1>3. Rewritten(s, u, pl, v)
  BY <1>1, <1>2, StackWrite
<1>4. Extends(s, u)
  <2>1. Len(u.chunks) \in Nat /\ \A n \in 1 .. Len(u.chunks) : Len(u.chunks[n]) \in Nat
    <3>1. u.chunks \in Seq(Seq(EntryType))
      BY <1>2 DEF StackOK, StackType
    <3>2. \A n \in 1 .. Len(u.chunks) : u.chunks[n] \in Seq(EntryType)
      BY <3>1, ElementOfSeq
    <3>3. \A n \in 1 .. Len(u.chunks) : Len(u.chunks[n]) \in Nat
      BY <3>2, LenProperties
    <3> QED
      BY <3>1, <3>3, LenProperties
  <2> QED
    BY <1>3, <2>1 DEF Extends, Rewritten
<1>5. StackOK(s) /\ Places(s) = Places(u)
  BY <1>3 DEF Rewritten
<1>6. Kept(o, s, deques[o])
  <2>1. linked' = [linked EXCEPT ![o] = ToSet(Places(s))]
    BY <1>2, <1>5 DEF LocalsOK
  <2>2. deques' = [deques EXCEPT ![o] = deques[o]]
    BY DEF LocalsOK
  <2> QED
    BY <1>1, <1>2, <1>4, <1>5, <2>1, <2>2 DEF Kept
<1>7. ASSUME NEW e \in EntryType, NEW i \in 1 .. Len(Items(u)),
             KeysApart(Items(u)), pl = Places(u)[i], Items(u)[i].k = e.k,
             v = Items(u)[i].v + e.v
      PROVE  Took(o, s, deques[o], e)
  <2>1. e.v \in Nat
    BY DEF EntryType
  <2>2. Increased(s, u, i, e.v)
    BY <1>1, <1>2, <1>7, <2>1, Added
  <2>3. KeysApart(Items(s))
    BY <1>7, <2>2 DEF Increased
  <2>4. ASSUME NEW g \in Groups
        PROVE  Amount(Items(s), g) + InDeque(deques[o], g) =
                 Amount(Items(u), g) + InDeque(deques[o], g) + Share(e, g)
    <3>1. Amount(Items(s), g) = Amount(Items(u), g) + (IF Items(u)[i].k = g THEN e.v ELSE 0)
      BY <2>2 DEF Increased
    <3>2. Share(e, g) = (IF Items(u)[i].k = g THEN e.v ELSE 0) /\ Share(e, g) \in Nat
      BY <1>7, <2>1 DEF Share
    <3>3. Amount(Items(u), g) \in Nat /\ InDeque(deques[o], g) \in Nat
      <4>1. Items(u) \in Seq(EntryType)
        BY <1>2, StackItems
      <4> QED
        BY <1>2, <4>1, AmountType, InDequeType
    <3>4. PICK a \in Nat : a = Amount(Items(u), g)
      BY <3>3
    <3>5. PICK b \in Nat : b = Share(e, g)
      BY <3>2
    <3>6. PICK c \in Nat : c = InDeque(deques[o], g)
      BY <3>3
    <3>7. Amount(Items(s), g) = a + b
      BY <3>1, <3>2, <3>4, <3>5
    <3> QED
      BY <3>4, <3>5, <3>6, <3>7
  <2> QED
    BY <1>1, <2>3, <2>4 DEF Took
<1> QED
  BY <1>1, <1>6, <1>7

-----------------------------------------------------------------------------
(* Types *)

LEMMA LocalsKept ==
  ASSUME LocalsOK, NEW o \in ready, NEW s, NEW d, Kept(o, s, d),
         ready' = ready, limit' = limit, phase' = phase
  PROVE  LocalsOK'
<1>1. o \in Threads /\ StackOK(s) /\ d \in DequeType /\ d # NoDeque
  BY DequeFacts DEF LocalsOK, Kept
<1>2. entries' = [entries EXCEPT ![o] = s] /\ linked' = [linked EXCEPT ![o] = ToSet(Places(s))]
      /\ deques' = [deques EXCEPT ![o] = d]
  BY DEF Kept
<1>3. s \in StackType /\ ToSet(Places(s)) \in SUBSET (Nat \X Nat)
  BY <1>1, PlacesSet DEF StackOK
<1>4. /\ entries' \in [Threads -> StackType] /\ linked' \in [Threads -> SUBSET (Nat \X Nat)]
      /\ deques' \in [Threads -> DequeType \cup {NoDeque}]
  BY <1>1, <1>2, <1>3 DEF LocalsOK
<1>5. ASSUME NEW t \in Threads
      PROVE  /\ StackOK(entries'[t]) /\ linked'[t] = ToSet(Places(entries'[t]))
             /\ t \notin ready' => Items(entries'[t]) = <<>>
             /\ t \in ready' /\ phase' \in {"scan", "merge", "spill"} => deques'[t] # NoDeque
  <2>1. CASE t = o
    <3>1. entries'[t] = s /\ linked'[t] = ToSet(Places(s)) /\ deques'[t] = d
      BY <1>1, <1>2, <2>1 DEF LocalsOK
    <3> QED
      BY <1>1, <2>1, <3>1
  <2>2. CASE t # o
    <3>1. entries'[t] = entries[t] /\ linked'[t] = linked[t] /\ deques'[t] = deques[t]
      BY <1>1, <1>2, <2>2 DEF LocalsOK
    <3> QED
      BY <3>1 DEF LocalsOK
  <2> QED
    BY <2>1, <2>2
<1> QED
  BY <1>4, <1>5 DEF LocalsOK

LEMMA LocalsReady ==
  ASSUME LocalsOK, NEW t \in Threads, PreAggLocals(t), UNCHANGED <<phase, linked, limit, entries>>
  PROVE  LocalsOK' /\ t \in ready' /\ ready \subseteq ready'
<1>1. ready' = ready \cup {t}
  BY DEF PreAggLocals
<1>2. deques' = [deques EXCEPT ![t] = IF deques[t] = NoDeque THEN NewDeque(nrPartitions) ELSE deques[t]]
  BY DEF PreAggLocals
<1>3. NewDeque(nrPartitions) \in DequeType /\ NewDeque(nrPartitions) # NoDeque
  BY DequeEmpty, DequeFacts
<1>4. deques' \in [Threads -> DequeType \cup {NoDeque}]
  BY <1>2, <1>3 DEF LocalsOK
<1>5. ASSUME NEW u \in Threads
      PROVE  /\ u \notin ready' => Items(entries'[u]) = <<>>
             /\ u \in ready' /\ phase' \in {"scan", "merge", "spill"} => deques'[u] # NoDeque
  <2>1. CASE u = t
    BY <1>1, <1>2, <1>3, <2>1 DEF LocalsOK
  <2>2. CASE u # t
    BY <1>1, <1>2, <2>2 DEF LocalsOK
  <2> QED
    BY <2>1, <2>2
<1>6. ready' \in SUBSET Threads
  BY <1>1 DEF LocalsOK
<1> QED
  BY <1>1, <1>4, <1>5, <1>6 DEF LocalsOK

LEMMA LocalsSame ==
  ASSUME LocalsOK, UNCHANGED localVars,
         phase' \in {"scan", "merge", "spill"} => phase \in {"scan", "merge", "spill"}
  PROVE  LocalsOK'
<1>1. /\ ready' = ready /\ linked' = linked /\ limit' = limit /\ entries' = entries
      /\ deques' = deques
  BY DEF localVars
<1> QED
  BY <1>1 DEF LocalsOK

LEMMA TaskKept ==
  ASSUME MergeOK, LocalsOK, LocalsOK', NEW t \in Threads, task'[t] = task[t], phase' = phase,
         ready \subseteq ready',
         \A o \in Threads : entries'[o] = entries[o] \/ Extends(entries'[o], entries[o])
  PROVE  TaskOK(t)'
<1>1. CASE task[t].left = <<>>
  BY <1>1 DEF MergeOK, TaskOK
<1>2. CASE task[t].left # <<>>
  <2>1. PICK o : o = task[t].of
    OBVIOUS
  <2>2. PICK pl : pl = task[t].slot
    OBVIOUS
  <2>3. /\ phase = "merge" /\ o \in ready /\ o \in Threads
        /\ pl \notin {Unknown, Absent} => Owned(entries[o], pl)
    BY <1>2, <2>1, <2>2 DEF MergeOK, TaskOK, LocalsOK
  <2>4. StackOK(entries[o]) /\ StackOK(entries'[o])
    BY <2>3 DEF LocalsOK
  <2>5. pl \notin {Unknown, Absent} => Owned(entries'[o], pl)
    <3>1. CASE entries'[o] = entries[o]
      BY <2>3, <3>1
    <3>2. CASE Extends(entries'[o], entries[o])
      BY <2>3, <2>4, <3>2, ExtendsOwned
    <3> QED
      BY <2>3, <3>1, <3>2
  <2>6. task'[t].left = task[t].left /\ task'[t].of = o /\ task'[t].slot = pl
    BY <2>1, <2>2
  <2> QED
    BY <1>2, <2>3, <2>5, <2>6 DEF TaskOK
<1> QED
  BY <1>1, <1>2

LEMMA MergeKept ==
  ASSUME MergeOK, LocalsOK, LocalsOK', UNCHANGED mergeVars, phase' = phase, ready \subseteq ready',
         \A o \in Threads : entries'[o] = entries[o] \/ Extends(entries'[o], entries[o])
  PROVE  MergeOK'
<1>1. owner' = owner /\ todo' = todo /\ task' = task /\ shared' = shared
  BY DEF mergeVars
<1>2. \A t \in Threads : TaskOK(t)'
  BY <1>1, TaskKept
<1> QED
  BY <1>1, <1>2 DEF MergeOK

\* When no task merges, its place may be anything.
LEMMA MergeIdle ==
  ASSUME MergeOK, UNCHANGED mergeVars, \A t \in Threads : task[t] = NoTask, ready \subseteq ready'
  PROVE  MergeOK'
<1>1. owner' = owner /\ todo' = todo /\ task' = task /\ shared' = shared
  BY DEF mergeVars
<1>2. \A t \in Threads : task'[t].left = <<>> /\ task'[t] = NoTask
  BY <1>1 DEF NoTask
<1>3. \A t \in Threads : TaskOK(t)'
  BY <1>2 DEF TaskOK
<1> QED
  BY <1>1, <1>3 DEF MergeOK

LEMMA Idle ==
  ASSUME MergeOK, phase # "merge"
  PROVE  \A t \in Threads : task[t] = NoTask
BY DEF MergeOK, TaskOK

LEMMA KeptExtends ==
  ASSUME LocalsOK, NEW o \in Threads, NEW s, NEW d, Kept(o, s, d)
  PROVE  \A u \in Threads : entries'[u] = entries[u] \/ Extends(entries'[u], entries[u])
<1>1. entries' = [entries EXCEPT ![o] = s] /\ Extends(s, entries[o])
  BY DEF Kept
<1>2. entries'[o] = s /\ \A u \in Threads \ {o} : entries'[u] = entries[u]
  BY <1>1 DEF LocalsOK
<1> QED
  BY <1>1, <1>2

LEMMA RowEntry ==
  ASSUME RowsOK, NEW r \in left, key[r] # 0
  PROVE  key[r] \in Groups /\ Value(r) \in Nat \ {0} /\ Entry(key[r], Value(r)) \in EntryType
<1>1. r \in Rows /\ r \in Nat
  BY GroupByAssumption DEF RowsOK, Rows
<1>2. key[r] \in 1 .. NGroups
  BY <1>1, GroupByAssumption DEF RowsOK
<1>3. Value(r) \in Nat \ {0}
  BY <1>1, ValueType
<1> QED
  BY <1>2, <1>3 DEF Entry, EntryType, Groups

\* getGroup(): the entry is found and written, or created.
LEMMA GetGroupFacts ==
  ASSUME LocalsOK, NEW t \in Threads, deques[t] # NoDeque, NEW e \in EntryType,
         GetGroup(t, e.k, e.v)
  PROVE  \E s, d :
           /\ Kept(t, s, d)
           /\ KeysApart(Items(entries[t])) => Took(t, s, d, e)
<1>1. PICK u : u = entries[t]
  OBVIOUS
<1>2. PICK pl : pl = FindIn(linked[t], u, e.k)
  OBVIOUS
<1>3. StackOK(u) /\ linked[t] = ToSet(Places(u))
  BY <1>1 DEF LocalsOK
<1>4. \/ pl = Absent /\ \A i \in 1 .. Len(Items(u)) : Items(u)[i].k # e.k
      \/ \E i \in 1 .. Len(Items(u)) :
           /\ pl = Places(u)[i] /\ Items(u)[i].k = e.k
           /\ pl # Absent /\ pl \in Nat \X Nat /\ Owned(u, pl)
  BY <1>2, <1>3, Found
<1>5. CASE pl = Absent
  <2>1. \A i \in 1 .. Len(Items(u)) : Items(u)[i].k # e.k
    BY <1>4, <1>5
  <2>2. CreateGroup(t, e.k, e.v)
    BY <1>1, <1>2, <1>5 DEF GetGroup
  <2>3. PICK s, d :
          /\ Kept(t, s, d)
          /\ /\ KeysApart(Items(entries[t]))
             /\ \A i \in 1 .. Len(Items(entries[t])) : Items(entries[t])[i].k # e.k
             => Took(t, s, d, e)
    BY <2>2, CreateFacts
  <2> QED
    BY <1>1, <2>1, <2>3
<1>6. CASE pl # Absent
  <2>1. PICK i \in 1 .. Len(Items(u)) :
          pl = Places(u)[i] /\ Items(u)[i].k = e.k /\ pl \in Nat \X Nat /\ Owned(u, pl)
    BY <1>4, <1>6
  <2>2. PICK v : v = Items(u)[i].v + e.v
    OBVIOUS
  <2>3. v \in Nat \ {0}
    <3>1. Items(u) \in Seq(EntryType)
      BY <1>3, StackItems
    <3>2. Items(u)[i] \in EntryType
      BY <2>1, <3>1, ElementOfSeq
    <3>3. Items(u)[i].v \in Nat \ {0} /\ e.v \in Nat \ {0}
      BY <3>2 DEF EntryType
    <3> QED
      BY <2>2, <3>3
  <2>4. PICK s : s = Written(u, pl, v)
    OBVIOUS
  <2>5. AddTo(u, pl, e.v) = s
    BY <1>3, <2>1, <2>2, <2>4, AddedTo
  <2>6. entries' = [entries EXCEPT ![t] = s] /\ linked' = linked /\ deques' = deques
    BY <1>1, <1>2, <1>6, <2>5 DEF GetGroup
  <2>7. /\ Kept(t, s, deques[t])
        /\ \A f \in EntryType : \A j \in 1 .. Len(Items(entries[t])) :
             /\ KeysApart(Items(entries[t])) /\ pl = Places(entries[t])[j]
             /\ Items(entries[t])[j].k = f.k /\ v = Items(entries[t])[j].v + f.v
             => Took(t, s, deques[t], f)
    BY <1>1, <2>1, <2>3, <2>4, <2>6, WriteFacts
  <2>8. KeysApart(Items(entries[t])) => Took(t, s, deques[t], e)
    BY <1>1, <2>1, <2>2, <2>7
  <2> QED
    BY <2>7, <2>8
<1> QED
  BY <1>5, <1>6

LEMMA ScanTaskType ==
  ASSUME TypeOK, NEW t \in Threads, ScanTask(t)
  PROVE  TypeOK'
<1>1. /\ PreAggLocals(t) /\ phase = "scan" /\ left # {}
      /\ UNCHANGED <<key, data, left, phase, linked, limit, entries, mergeVars, tasks>>
  BY DEF ScanTask, rowVars, outVars
<1>2. LocalsOK' /\ ready \subseteq ready'
  BY <1>1, LocalsReady DEF TypeOK
<1>3. MergeOK'
  BY <1>1, <1>2, MergeKept DEF TypeOK
<1>4. RowsOK' /\ PhaseOK' /\ SomeThread'
  <2>1. owner' = owner /\ todo' = todo
    BY <1>1 DEF mergeVars
  <2> QED
    BY <1>1, <1>2, <2>1 DEF TypeOK, RowsOK, PhaseOK, SomeThread
<1> QED
  BY <1>2, <1>3, <1>4 DEF TypeOK

LEMMA ScanRowType ==
  ASSUME TypeOK, NEW t \in Threads, ScanRow(t)
  PROVE  TypeOK'
<1>1. /\ phase = "scan" /\ t \in ready
      /\ UNCHANGED <<key, data, phase, ready, limit, mergeVars, tasks>>
  BY DEF ScanRow, outVars
<1>2. PICK r \in left :
        /\ left' = left \ {r}
        /\ IF key[r] = 0 THEN UNCHANGED <<linked, entries, deques>> ELSE GetGroup(t, key[r], Value(r))
  BY DEF ScanRow
<1>3. deques[t] # NoDeque
  BY <1>1 DEF TypeOK, LocalsOK
<1>4. LocalsOK' /\ \A u \in Threads : entries'[u] = entries[u] \/ Extends(entries'[u], entries[u])
  <2>1. CASE key[r] = 0
    BY <1>1, <1>2, <2>1, LocalsSame DEF TypeOK, localVars
  <2>2. CASE key[r] # 0
    <3>1. PICK e : e = Entry(key[r], Value(r))
      OBVIOUS
    <3>2. e \in EntryType /\ e.k = key[r] /\ e.v = Value(r)
      BY <2>2, <3>1, RowEntry DEF TypeOK, Entry
    <3>3. GetGroup(t, e.k, e.v)
      BY <1>2, <2>2, <3>2
    <3>4. PICK s, d : Kept(t, s, d)
      BY <1>3, <3>2, <3>3, GetGroupFacts DEF TypeOK
    <3> QED
      BY <1>1, <3>4, LocalsKept, KeptExtends DEF TypeOK
  <2> QED
    BY <2>1, <2>2
<1>5. MergeOK'
  BY <1>1, <1>4, MergeKept DEF TypeOK
<1>6. RowsOK' /\ PhaseOK' /\ SomeThread'
  <2>1. owner' = owner /\ todo' = todo
    BY <1>1 DEF mergeVars
  <2> QED
    BY <1>1, <1>2, <2>1 DEF TypeOK, RowsOK, PhaseOK, SomeThread
<1> QED
  BY <1>4, <1>5, <1>6 DEF TypeOK

LEMMA MergeTableType ==
  ASSUME TypeOK, NEW t \in Threads, MergeTable(t)
  PROVE  TypeOK'
<1>1. /\ PreAggLocals(t) /\ phase = "merge" /\ task[t] = NoTask
      /\ UNCHANGED <<key, data, left, phase, linked, limit, entries, task, shared, tasks>>
  BY DEF MergeTable, rowVars, outVars
<1>2. PICK x \in twTables \ DOMAIN owner :
        /\ owner' = [y \in DOMAIN owner \cup {x} |-> IF y = x THEN t ELSE owner[y]]
        /\ todo' = [todo EXCEPT ![x] = DOMAIN data[x].partitions]
  BY DEF MergeTable
<1>3. LocalsOK' /\ t \in ready' /\ ready \subseteq ready'
  BY <1>1, LocalsReady DEF TypeOK
<1>4. MergeOK'
  <2>1. \A u \in Threads : TaskOK(u)'
    BY <1>1, <1>3, TaskKept DEF TypeOK
  <2>2. DOMAIN data[x].partitions = Parts
    BY DequeFacts DEF TypeOK, RowsOK
  <2>3. todo' \in [twTables -> SUBSET Parts]
    BY <1>2, <2>2 DEF TypeOK, MergeOK
  <2>4. DOMAIN owner' = DOMAIN owner \cup {x} /\ \A y \in DOMAIN owner' : owner'[y] \in ready'
    BY <1>2, <1>3 DEF TypeOK, MergeOK
  <2> QED
    BY <1>1, <2>1, <2>3, <2>4 DEF TypeOK, MergeOK
<1>5. RowsOK' /\ PhaseOK' /\ SomeThread'
  BY <1>1, <1>3 DEF TypeOK, RowsOK, PhaseOK, SomeThread
<1> QED
  BY <1>3, <1>4, <1>5 DEF TypeOK

\* The entries of a partition that a task is to merge.
LEMMA PartOfTable ==
  ASSUME RowsOK, MergeOK, NEW x \in DOMAIN owner, NEW p \in todo[x]
  PROVE  /\ p \in Parts /\ x \in twTables /\ data[x] \in DequeType
         /\ PartitionItems(data[x].partitions[p]) \in Seq(EntryType)
         /\ OfPart(PartitionItems(data[x].partitions[p]), p)
<1>1. p \in Parts /\ x \in twTables /\ data[x] \in DequeType
  BY DEF RowsOK, MergeOK
<1> QED
  BY <1>1, DequeFacts DEF OfPart

LEMMA NoTaskType == NoTask \in TaskType /\ NoTask.left = <<>>
<1>1. <<>> \in Seq(EntryType)
  BY EmptySeq
<1> QED
  BY <1>1 DEF NoTask, TaskType, Unknown

LEMMA MergePartitionType ==
  ASSUME TypeOK, NEW t \in Threads, MergePartition(t)
  PROVE  TypeOK'
<1>1. /\ phase = "merge" /\ task[t] = NoTask
      /\ UNCHANGED <<key, data, left, phase, ready, linked, limit, entries, deques, owner, tasks>>
  BY DEF MergePartition, rowVars, localVars, outVars
<1>2. PICK x, p :
        LET part == PartitionItems(data[x].partitions[p])
        IN  /\ x \in DOMAIN owner /\ p \in todo[x]
            /\ todo' = [todo EXCEPT ![x] = @ \ {p}]
            /\ task' = [task EXCEPT ![t] =
                          IF part = <<>> THEN @ ELSE [NoTask EXCEPT !.left = part, !.of = owner[x]]]
            /\ shared' = (shared \/ (part # <<>> /\ \E u \in Threads : task[u].of = owner[x]))
  BY DEF MergePartition
<1>3. PICK part : part = PartitionItems(data[x].partitions[p])
  OBVIOUS
<1>4. part \in Seq(EntryType) /\ p \in Parts /\ x \in twTables /\ owner[x] \in ready /\ ready \subseteq Threads
  BY <1>2, <1>3, PartOfTable DEF TypeOK, MergeOK, LocalsOK
<1>5. PICK k : k = [NoTask EXCEPT !.left = part, !.of = owner[x]]
  OBVIOUS
<1>6. k = [left |-> part, of |-> owner[x], slot |-> Unknown, acc |-> 0]
  BY <1>5 DEF NoTask
<1>7. k \in TaskType
  BY <1>4, <1>6 DEF TaskType, Unknown
<1>8. LocalsOK'
  BY <1>1, LocalsSame DEF TypeOK, localVars
<1>9. /\ \A u \in Threads \ {t} : task'[u] = task[u]
      /\ task'[t] = IF part = <<>> THEN task[t] ELSE k
      /\ task' \in [Threads -> TaskType]
  BY <1>2, <1>3, <1>5, <1>7 DEF TypeOK, MergeOK
<1>10. \A u \in Threads : TaskOK(u)'
  <2>1. ASSUME NEW u \in Threads, task'[u] = task[u]
        PROVE  TaskOK(u)'
    BY <1>1, <1>8, <2>1, TaskKept DEF TypeOK
  <2>2. CASE part # <<>>
    <3>1. task'[t] = k
      BY <1>9, <2>2
    <3>2. TaskOK(t)'
      BY <1>1, <1>4, <1>6, <2>2, <3>1 DEF TaskOK
    <3> QED
      BY <1>9, <2>1, <3>2
  <2>3. CASE part = <<>>
    BY <1>9, <2>1, <2>3
  <2> QED
    BY <2>2, <2>3
<1>11. MergeOK'
  <2>1. todo' \in [twTables -> SUBSET Parts]
    BY <1>2 DEF TypeOK, MergeOK
  <2>2. shared' \in BOOLEAN
    BY <1>2
  <2> QED
    BY <1>1, <1>9, <1>10, <2>1, <2>2 DEF TypeOK, MergeOK
<1>12. RowsOK' /\ PhaseOK' /\ SomeThread'
  BY <1>1 DEF TypeOK, RowsOK, PhaseOK, SomeThread
<1> QED
  BY <1>8, <1>11, <1>12 DEF TypeOK

LEMMA FindType ==
  ASSUME TypeOK, NEW t \in Threads, Find(t)
  PROVE  TypeOK'
<1>1. /\ task[t].left # <<>>
      /\ UNCHANGED <<key, data, left, phase, ready, linked, limit, entries, deques, owner, todo,
                     shared, tasks>>
  BY DEF Find, rowVars, localVars, outVars
<1>2. PICK o : o = task[t].of
  OBVIOUS
<1>3. PICK pl : pl = FindIn(linked[o], entries[o], Head(task[t].left).k)
  OBVIOUS
<1>4. PICK a : a = IF pl = Absent THEN 0 ELSE At(entries[o], pl).v
  OBVIOUS
<1>5. task' = [task EXCEPT ![t].slot = pl, ![t].acc = a]
  BY <1>2, <1>3, <1>4 DEF Find
<1>6. /\ phase = "merge" /\ o \in ready /\ o \in Threads
      /\ StackOK(entries[o]) /\ linked[o] = ToSet(Places(entries[o]))
  BY <1>1, <1>2 DEF TypeOK, MergeOK, TaskOK, LocalsOK
<1>7. pl = Absent \/ (pl \in Nat \X Nat /\ Owned(entries[o], pl))
  BY <1>3, <1>6, Found
<1>8. a \in Nat /\ pl \in Nat \X Nat
  <2>1. CASE pl = Absent
    BY <1>4, <2>1 DEF Absent
  <2>2. CASE pl # Absent
    <3>1. At(entries[o], pl) \in EntryType
      BY <1>6, <1>7, <2>2, OwnedEntry DEF StackOK
    <3> QED
      BY <1>4, <1>7, <2>2, <3>1 DEF EntryType
  <2> QED
    BY <2>1, <2>2
<1>9. LocalsOK'
  BY <1>1, LocalsSame DEF TypeOK, localVars
<1>10. /\ \A u \in Threads \ {t} : task'[u] = task[u]
       /\ task'[t].left = task[t].left /\ task'[t].of = o /\ task'[t].slot = pl
       /\ task' \in [Threads -> TaskType]
  BY ZenonT(60), <1>2, <1>5, <1>8 DEF TypeOK, MergeOK, TaskType
<1>11. \A u \in Threads : TaskOK(u)'
  <2>1. ASSUME NEW u \in Threads \ {t}
        PROVE  TaskOK(u)'
    BY <1>1, <1>9, <1>10, TaskKept DEF TypeOK
  <2>2. TaskOK(t)'
    BY <1>1, <1>6, <1>7, <1>10 DEF TaskOK
  <2> QED
    BY <2>1, <2>2
<1>12. MergeOK'
  BY <1>1, <1>10, <1>11 DEF TypeOK, MergeOK
<1>13. RowsOK' /\ PhaseOK' /\ SomeThread'
  BY <1>1, <1>6 DEF TypeOK, RowsOK, PhaseOK, SomeThread
<1> QED
  BY <1>9, <1>12, <1>13 DEF TypeOK

\* What follows an entry that a task has merged.
After(k) == IF Len(k.left) = 1 THEN NoTask
            ELSE [NoTask EXCEPT !.left = Tail(k.left), !.of = k.of]

LEMMA AfterFacts ==
  ASSUME NEW k \in TaskType, k.left # <<>>
  PROVE  /\ After(k) \in TaskType /\ After(k).slot = Unknown
         /\ After(k).left = Tail(k.left) /\ Head(k.left) \in EntryType
         /\ After(k).left = <<>> => After(k) = NoTask
         /\ After(k).left # <<>> => After(k).of = k.of
<1>1. PICK es : es = k.left
  OBVIOUS
<1>2. es \in Seq(EntryType) /\ es # <<>> /\ k.of \in Threads \cup {0}
  BY <1>1 DEF TaskType
<1>3. /\ Head(es) \in EntryType /\ Tail(es) \in Seq(EntryType)
      /\ Len(Tail(es)) = Len(es) - 1 /\ Len(es) \in Nat
  BY <1>2, HeadTailProperties, LenProperties
<1>4. Tail(es) = <<>> <=> Len(es) = 1
  <2>1. PICK h : h = Tail(es)
    OBVIOUS
  <2>2. h \in Seq(EntryType) /\ Len(h) = Len(es) - 1
    BY <1>3, <2>1
  <2>3. h = <<>> <=> Len(h) = 0
    BY <2>2, EmptySeq
  <2> QED
    BY <1>3, <2>1, <2>2, <2>3
<1>5. CASE Len(es) = 1
  BY <1>1, <1>3, <1>4, <1>5, NoTaskType DEF After, NoTask
<1>6. CASE Len(es) # 1
  <2>2. Unknown \in Nat \X Nat
    BY DEF Unknown
  <2>3. After(k) = [left |-> Tail(es), of |-> k.of, slot |-> Unknown, acc |-> 0]
    BY <1>1, <1>6 DEF After, NoTask
  <2>4. PICK h : h = Tail(es)
    OBVIOUS
  <2>5. h \in Seq(EntryType) /\ h # <<>>
    BY <1>3, <1>4, <1>6, <2>4
  <2>6. After(k) = [left |-> h, of |-> k.of, slot |-> Unknown, acc |-> 0]
    BY <2>3, <2>4
  <2>7. After(k) \in TaskType
    BY <1>2, <2>2, <2>5, <2>6 DEF TaskType
  <2> QED
    BY <1>1, <1>3, <2>4, <2>5, <2>6, <2>7
<1> QED
  BY <1>5, <1>6

\* consume(): the entry is written where it was found, or created; if the table
\* is only this task's, its value is then in the table once more.
LEMMA UpdateFacts ==
  ASSUME TypeOK, NEW t \in Threads, Update(t), NEW o, o = task[t].of
  PROVE  /\ o \in ready /\ o \in Threads /\ phase = "merge"
         /\ \E s, d : /\ Kept(o, s, d)
                      /\ Apart => Took(o, s, d, Head(task[t].left))
<1>1. /\ task[t].left # <<>> /\ task[t].slot # Unknown
  BY DEF Update
<1>2. /\ phase = "merge" /\ o \in ready /\ o \in Threads /\ deques[o] # NoDeque
      /\ task[t] \in TaskType
  BY <1>1 DEF TypeOK, MergeOK, TaskOK, LocalsOK
<1>3. PICK e : e = Head(task[t].left)
  OBVIOUS
<1>4. e \in EntryType
  BY <1>1, <1>2, <1>3, AfterFacts
<1>5. PICK pl : pl = task[t].slot
  OBVIOUS
<1>6. PICK u : u = entries[o]
  OBVIOUS
<1>7. PICK a \in Nat : a = task[t].acc
  BY <1>2 DEF TaskType
<1>8. Apart => \/ pl = Absent /\ \A i \in 1 .. Len(Items(u)) : Items(u)[i].k # e.k
               \/ \E i \in 1 .. Len(Items(u)) :
                    pl = Places(u)[i] /\ pl # Absent /\ Items(u)[i].k = e.k /\ Items(u)[i].v = a
  BY <1>1, <1>3, <1>5, <1>6, <1>7 DEF Apart, SlotOK
<1>9. CASE pl = Absent
  <2>1. CreateGroup(o, e.k, e.v)
    BY <1>3, <1>5, <1>9 DEF Update
  <2>2. PICK s, d :
          /\ Kept(o, s, d)
          /\ /\ KeysApart(Items(entries[o]))
             /\ \A i \in 1 .. Len(Items(entries[o])) : Items(entries[o])[i].k # e.k
             => Took(o, s, d, e)
    BY <1>2, <1>4, <2>1, CreateFacts DEF TypeOK
  <2>3. Apart => Took(o, s, d, e)
    BY <1>2, <1>6, <1>8, <1>9, <2>2 DEF Apart
  <2> QED
    BY <1>2, <1>3, <2>2, <2>3
<1>10. CASE pl # Absent
  <2>1. PICK v : v = a + e.v
    OBVIOUS
  <2>2. v \in Nat \ {0}
    BY <1>4, <2>1 DEF EntryType
  <2>3. pl \in Nat \X Nat /\ Owned(u, pl)
    BY <1>1, <1>2, <1>5, <1>6, <1>10 DEF TypeOK, MergeOK, TaskOK, TaskType
  <2>4. PICK s : s = Written(u, pl, v)
    OBVIOUS
  <2>5. entries' = [entries EXCEPT ![o] = s] /\ linked' = linked /\ deques' = deques
    BY <1>3, <1>5, <1>6, <1>7, <1>10, <2>1, <2>4 DEF Update, Written
  <2>6. /\ Kept(o, s, deques[o])
        /\ \A f \in EntryType : \A j \in 1 .. Len(Items(entries[o])) :
             /\ KeysApart(Items(entries[o])) /\ pl = Places(entries[o])[j]
             /\ Items(entries[o])[j].k = f.k /\ v = Items(entries[o])[j].v + f.v
             => Took(o, s, deques[o], f)
    BY <1>2, <1>6, <2>2, <2>3, <2>4, <2>5, WriteFacts DEF TypeOK
  <2>7. Apart => Took(o, s, deques[o], e)
    BY <1>2, <1>4, <1>6, <1>8, <1>10, <2>1, <2>6 DEF Apart
  <2> QED
    BY <1>2, <1>3, <2>6, <2>7
<1> QED
  BY <1>9, <1>10

LEMMA UpdateType ==
  ASSUME TypeOK, NEW t \in Threads, Update(t)
  PROVE  TypeOK'
<1>1. /\ task[t].left # <<>>
      /\ UNCHANGED <<key, data, left, phase, ready, limit, owner, todo, shared, tasks>>
  BY DEF Update, rowVars, outVars
<1>2. PICK o : o = task[t].of
  OBVIOUS
<1>3. /\ o \in ready /\ o \in Threads /\ phase = "merge"
      /\ \E s, d : Kept(o, s, d)
  BY <1>2, UpdateFacts
<1>4. LocalsOK' /\ \A u \in Threads : entries'[u] = entries[u] \/ Extends(entries'[u], entries[u])
  BY <1>1, <1>3, LocalsKept, KeptExtends DEF TypeOK
<1>5. PICK k : k = After(task[t])
  OBVIOUS
<1>6. task' = [task EXCEPT ![t] = k]
  BY <1>5 DEF Update, After
<1>7. /\ k \in TaskType /\ k.slot = Unknown
      /\ k.left = <<>> => k = NoTask
      /\ k.left # <<>> => k.of = o
  BY <1>1, <1>2, <1>5, AfterFacts DEF TypeOK, MergeOK
<1>8. /\ task'[t] = k /\ \A u \in Threads \ {t} : task'[u] = task[u]
      /\ task' \in [Threads -> TaskType]
  BY <1>6, <1>7 DEF TypeOK, MergeOK
<1>9. \A u \in Threads : TaskOK(u)'
  <2>1. ASSUME NEW u \in Threads \ {t}
        PROVE  TaskOK(u)'
    BY <1>1, <1>4, <1>8, <2>1, TaskKept DEF TypeOK
  <2>2. TaskOK(t)'
    BY <1>1, <1>3, <1>7, <1>8 DEF TaskOK
  <2> QED
    BY <2>1, <2>2
<1>10. MergeOK'
  BY <1>1, <1>8, <1>9 DEF TypeOK, MergeOK
<1>11. RowsOK' /\ PhaseOK' /\ SomeThread'
  BY <1>1, <1>3 DEF TypeOK, RowsOK, PhaseOK, SomeThread
<1> QED
  BY <1>4, <1>10, <1>11 DEF TypeOK

LEMMA EndScanType ==
  ASSUME TypeOK, EndScan
  PROVE  TypeOK'
<1>1. /\ phase = "scan" /\ left = {} /\ phase' = "merge"
      /\ UNCHANGED <<key, data, left, localVars, mergeVars, tasks>>
  BY DEF EndScan, rowVars, outVars
<1>2. LocalsOK'
  BY <1>1, LocalsSame DEF TypeOK
<1>3. ready' = ready /\ owner' = owner /\ todo' = todo
  BY <1>1 DEF localVars, mergeVars
<1>4. MergeOK'
  BY <1>1, <1>3, Idle, MergeIdle DEF TypeOK
<1>5. RowsOK' /\ PhaseOK' /\ SomeThread'
  BY <1>1, <1>3 DEF TypeOK, RowsOK, PhaseOK, SomeThread
<1> QED
  BY <1>2, <1>4, <1>5 DEF TypeOK

LEMMA EndMergeType ==
  ASSUME TypeOK, EndMerge
  PROVE  TypeOK'
<1>1. /\ phase = "merge" /\ DOMAIN owner = twTables /\ \A x \in twTables : todo[x] = {}
      /\ \A t \in Threads : task[t] = NoTask
      /\ phase' = "spill" /\ tasks' = ready
      /\ UNCHANGED <<key, data, left, localVars, mergeVars>>
  BY DEF EndMerge, rowVars
<1>2. LocalsOK'
  BY <1>1, LocalsSame DEF TypeOK
<1>3. ready' = ready /\ owner' = owner /\ todo' = todo
  BY <1>1 DEF localVars, mergeVars
<1>4. MergeOK'
  BY <1>1, <1>3, MergeIdle DEF TypeOK
<1>5. ready # {} /\ ready \in SUBSET Threads
  BY <1>1 DEF TypeOK, LocalsOK, PhaseOK, SomeThread, MergeOK
<1>6. RowsOK' /\ PhaseOK' /\ SomeThread'
  BY <1>1, <1>3, <1>5 DEF TypeOK, RowsOK, PhaseOK, SomeThread
<1> QED
  BY <1>2, <1>4, <1>6 DEF TypeOK

\* The storage of whoever has the task, with the entries of a thread.
LEMMA SpillAllFacts ==
  ASSUME TypeOK, NEW t \in Threads, SpillAll(t)
  PROVE  \E u \in tasks : \E d \in DequeType :
           /\ u \in Threads /\ tasks' = tasks \ {u} /\ deques' = [deques EXCEPT ![t] = d]
           /\ \A g \in Groups :
                InDeque(d, g) = InDeque(deques[t], g) + Amount(Items(entries[u]), g)
<1>1. PICK u \in tasks :
        /\ tasks' = tasks \ {u}
        /\ deques' = [deques EXCEPT ![t] =
                        Spilled(IF deques[t] = NoDeque THEN NewDeque(nrPartitions) ELSE deques[t],
                                Items(entries[u]))]
  BY DEF SpillAll
<1>2. u \in Threads
  BY DEF TypeOK, PhaseOK, SpillAll
<1>3. PICK c : c = IF deques[t] = NoDeque THEN NewDeque(nrPartitions) ELSE deques[t]
  OBVIOUS
<1>4. c \in DequeType /\ \A g \in Groups : InDeque(c, g) = InDeque(deques[t], g)
  <2>1. CASE deques[t] = NoDeque
    <3>1. \A g \in Groups : InDeque(deques[t], g) = 0
      BY <2>1 DEF InDeque
    <3> QED
      BY <1>3, <2>1, <3>1, DequeEmpty
  <2>2. CASE deques[t] # NoDeque
    BY <1>3, <2>2 DEF TypeOK, LocalsOK
  <2> QED
    BY <2>1, <2>2
<1>5. Items(entries[u]) \in Seq(EntryType)
  BY <1>2, StackItems DEF TypeOK, LocalsOK
<1>6. PICK d : d = Spilled(c, Items(entries[u]))
  OBVIOUS
<1>7. d \in DequeType /\ \A g \in Groups : InDeque(d, g) = InDeque(c, g) + Amount(Items(entries[u]), g)
  BY <1>4, <1>5, <1>6, SpilledFacts
<1>8. deques' = [deques EXCEPT ![t] = d]
  BY <1>1, <1>3, <1>6
<1>9. \A g \in Groups : InDeque(d, g) = InDeque(deques[t], g) + Amount(Items(entries[u]), g)
  BY <1>4, <1>7
<1> QED
  BY <1>1, <1>2, <1>7, <1>8, <1>9

LEMMA SpillAllType ==
  ASSUME TypeOK, NEW t \in Threads, SpillAll(t)
  PROVE  TypeOK'
<1>1. /\ phase = "spill"
      /\ UNCHANGED <<key, data, left, phase, ready, linked, limit, entries, mergeVars>>
  BY DEF SpillAll, rowVars
<1>2. PICK u \in tasks, d \in DequeType :
        tasks' = tasks \ {u} /\ deques' = [deques EXCEPT ![t] = d]
  BY SpillAllFacts
<1>3. /\ deques' \in [Threads -> DequeType \cup {NoDeque}]
      /\ \A v \in Threads : deques[v] # NoDeque => deques'[v] # NoDeque
  BY <1>2, DequeFacts DEF TypeOK, LocalsOK
<1>4. LocalsOK'
  BY <1>1, <1>3 DEF TypeOK, LocalsOK
<1>5. MergeOK'
  BY <1>1, Idle, MergeIdle DEF TypeOK
<1>6. owner' = owner /\ todo' = todo
  BY <1>1 DEF mergeVars
<1>7. RowsOK' /\ PhaseOK' /\ SomeThread'
  BY <1>1, <1>2, <1>6 DEF TypeOK, RowsOK, PhaseOK, SomeThread
<1> QED
  BY <1>4, <1>5, <1>7 DEF TypeOK

LEMMA EndSpillType ==
  ASSUME TypeOK, EndSpill
  PROVE  TypeOK'
<1>1. /\ phase = "spill" /\ phase' = "aggregate"
      /\ tasks' = UNION {DOMAIN deques[t].partitions : t \in Spillers}
      /\ UNCHANGED <<key, data, left, localVars, mergeVars>>
  BY DEF EndSpill, rowVars
<1>2. LocalsOK'
  BY <1>1, LocalsSame DEF TypeOK
<1>3. ready' = ready /\ deques' = deques /\ owner' = owner /\ todo' = todo
  BY <1>1 DEF localVars, mergeVars
<1>4. MergeOK'
  BY <1>1, <1>3, Idle, MergeIdle DEF TypeOK
<1>5. Spillers # {} /\ Spillers' = Spillers
  BY <1>1, <1>3 DEF TypeOK, LocalsOK, SomeThread, Spillers
<1>6. tasks' = Parts
  <2>1. \A t \in Spillers : DOMAIN deques[t].partitions = Parts
    BY DequeFacts DEF TypeOK, LocalsOK, Spillers
  <2> QED
    BY <1>1, <1>5, <2>1
<1>7. RowsOK' /\ PhaseOK' /\ SomeThread'
  BY <1>1, <1>3, <1>5, <1>6 DEF TypeOK, RowsOK, PhaseOK, SomeThread
<1> QED
  BY <1>2, <1>4, <1>7 DEF TypeOK

LEMMA ReturnType ==
  ASSUME TypeOK, Return
  PROVE  TypeOK'
<1>1. /\ phase = "aggregate" /\ tasks = {} /\ phase' = "returned"
      /\ UNCHANGED <<key, data, left, localVars, mergeVars, tasks>>
  BY DEF Return, rowVars, outVars
<1>2. LocalsOK'
  BY <1>1, LocalsSame DEF TypeOK
<1>3. ready' = ready /\ deques' = deques /\ owner' = owner /\ todo' = todo
  BY <1>1 DEF localVars, mergeVars
<1>4. MergeOK'
  BY <1>1, <1>3, Idle, MergeIdle DEF TypeOK
<1>5. RowsOK' /\ PhaseOK' /\ SomeThread'
  BY <1>1, <1>3 DEF TypeOK, RowsOK, PhaseOK, SomeThread, Spillers
<1> QED
  BY <1>2, <1>4, <1>5 DEF TypeOK

ClearedTable(t) == [places |-> {}, stack |-> ClearStack(entries[t]), max |-> limit[t]]

\* The table of a thread, after a partition, holds what the deques hold of it.
AggregatedTo(t, p, u) ==
  /\ u \in TableType
  /\ tasks' = tasks \ {p}
  /\ linked' = [linked EXCEPT ![t] = u.places]
  /\ limit' = [limit EXCEPT ![t] = u.max]
  /\ entries' = [entries EXCEPT ![t] = u.stack]
  /\ Emit(u.stack)
  /\ \A g \in Groups :
       Amount(Items(u.stack), g) = IF PartNr(g) = p THEN Total(Threads, InDeques(g)) ELSE 0

LEMMA AggregateFacts ==
  ASSUME TypeOK, NEW t \in Threads, Aggregate(t)
  PROVE  /\ phase = "aggregate"
         /\ \E p \in tasks : p \in Parts /\ \E u : AggregatedTo(t, p, u)
<1>1. phase = "aggregate" /\ tasks \in SUBSET Parts
  BY DEF Aggregate, TypeOK, PhaseOK
<1>2. PICK p \in tasks :
        \E values \in {Values(p)} :
          /\ tasks' = tasks \ {p}
          /\ \E table \in MergedAll(ClearedTable(t), values) :
               /\ linked' = [linked EXCEPT ![t] = table.places]
               /\ limit' = [limit EXCEPT ![t] = table.max]
               /\ entries' = [entries EXCEPT ![t] = table.stack]
               /\ Emit(table.stack)
  BY Zenon DEF Aggregate, MergedAll, ClearedTable
<1>3. PICK values : values = Values(p)
  OBVIOUS
<1>4. /\ p \in Parts /\ values \in Seq(EntryType) /\ OfPart(values, p)
      /\ \A g \in Groups : PartNr(g) = p => Amount(values, g) = Total(Threads, InDeques(g))
  BY <1>1, <1>3, ValuesFacts DEF TypeOK, LocalsOK, InDeques
<1>5. PICK tb : tb = ClearedTable(t)
  OBVIOUS
<1>6. StackOK(entries[t]) /\ limit[t] \in Nat
  BY DEF TypeOK, LocalsOK
<1>7. PICK s : s = ClearStack(entries[t])
  OBVIOUS
<1>8. StackOK(s) /\ Places(s) = <<>> /\ Items(s) = <<>>
  BY <1>6, <1>7, Cleared
<1>9. tb = [places |-> {}, stack |-> s, max |-> limit[t]]
  BY <1>5, <1>7 DEF ClearedTable
<1>10. tb \in TableType
  <2>1. ToSet(Places(s)) = {}
    BY <1>8 DEF ToSet
  <2> QED
    BY <1>6, <1>8, <1>9, <2>1, TableIs, OneApart
<1>11. PICK u \in TableType :
         /\ MergedAll(tb, values) = {u}
         /\ \A g : Amount(Items(u.stack), g) = Amount(Items(tb.stack), g) + Amount(values, g)
         /\ \A q : OfPart(Items(tb.stack), q) /\ OfPart(values, q) => OfPart(Items(u.stack), q)
  BY <1>4, <1>10, MergeLoop
<1>12. /\ tasks' = tasks \ {p}
       /\ linked' = [linked EXCEPT ![t] = u.places]
       /\ limit' = [limit EXCEPT ![t] = u.max]
       /\ entries' = [entries EXCEPT ![t] = u.stack]
       /\ Emit(u.stack)
  BY <1>2, <1>3, <1>5, <1>11
<1>13. ASSUME NEW g \in Groups
       PROVE  Amount(Items(u.stack), g) =
                IF PartNr(g) = p THEN Total(Threads, InDeques(g)) ELSE 0
  <2>1. tb.stack = s
    BY <1>9
  <2>2. Amount(<<>>, g) = 0
    BY AmountEmpty
  <2>3. PICK a \in Nat : a = Amount(values, g)
    BY <1>4, AmountType
  <2>4. Amount(Items(u.stack), g) = a
    <3>1. Amount(Items(u.stack), g) = Amount(Items(tb.stack), g) + Amount(values, g)
      BY <1>11
    <3>2. Amount(Items(tb.stack), g) = 0
      BY <1>8, <2>1, <2>2
    <3> QED
      BY <2>3, <3>1, <3>2
  <2>5. CASE PartNr(g) = p
    BY <1>4, <2>3, <2>4, <2>5
  <2>6. CASE PartNr(g) # p
    <3>1. ~\E i \in 1 .. Len(values) : values[i].k = g
      BY <1>4, <2>6 DEF OfPart
    <3>2. Amount(values, g) = 0
      BY <1>4, <3>1, AmountPresent
    <3> QED
      BY <2>3, <2>4, <2>6, <3>2
  <2> QED
    BY <2>5, <2>6
<1>14. AggregatedTo(t, p, u)
  BY <1>11, <1>12, <1>13 DEF AggregatedTo
<1> QED
  BY <1>1, <1>4, <1>14

LEMMA AggregateType ==
  ASSUME TypeOK, NEW t \in Threads, Aggregate(t)
  PROVE  TypeOK'
<1>1. /\ phase = "aggregate" /\ ready' = ready \cup {t}
      /\ UNCHANGED <<key, data, left, phase, deques, mergeVars>>
  BY DEF Aggregate, rowVars
<1>2. PICK p, u : p \in tasks /\ AggregatedTo(t, p, u)
  BY AggregateFacts
<1>3. /\ u \in TableType /\ tasks' = tasks \ {p}
      /\ linked' = [linked EXCEPT ![t] = u.places]
      /\ limit' = [limit EXCEPT ![t] = u.max]
      /\ entries' = [entries EXCEPT ![t] = u.stack]
  BY <1>2 DEF AggregatedTo
<1>4. /\ StackOK(u.stack) /\ u.places = ToSet(Places(u.stack)) /\ u.max \in Nat
      /\ u.stack \in StackType /\ u.places \in SUBSET (Nat \X Nat)
  BY <1>3 DEF TableType, TableOK, StackOK
<1>5. /\ linked' \in [Threads -> SUBSET (Nat \X Nat)] /\ limit' \in [Threads -> Nat]
      /\ entries' \in [Threads -> StackType]
  BY <1>3, <1>4 DEF TypeOK, LocalsOK
<1>6. ASSUME NEW v \in Threads
      PROVE  /\ StackOK(entries'[v]) /\ linked'[v] = ToSet(Places(entries'[v]))
             /\ v \notin ready' => Items(entries'[v]) = <<>>
  <2>1. CASE v = t
    <3>1. entries'[v] = u.stack /\ linked'[v] = u.places
      BY <1>3, <2>1 DEF TypeOK, LocalsOK
    <3> QED
      BY <1>1, <1>4, <2>1, <3>1
  <2>2. CASE v # t
    <3>1. entries'[v] = entries[v] /\ linked'[v] = linked[v]
      BY <1>3, <2>2 DEF TypeOK, LocalsOK
    <3> QED
      BY <1>1, <3>1 DEF TypeOK, LocalsOK
  <2> QED
    BY <2>1, <2>2
<1>7. LocalsOK'
  BY <1>1, <1>5, <1>6 DEF TypeOK, LocalsOK
<1>8. MergeOK'
  BY <1>1, Idle, MergeIdle DEF TypeOK
<1>9. owner' = owner /\ todo' = todo
  BY <1>1 DEF mergeVars
<1>10. RowsOK' /\ PhaseOK' /\ SomeThread'
  BY <1>1, <1>3, <1>9 DEF TypeOK, RowsOK, PhaseOK, SomeThread, Spillers
<1> QED
  BY <1>7, <1>8, <1>10 DEF TypeOK

-----------------------------------------------------------------------------
(* The initial states *)

\* What the vectorized half has left: rows before the first, in tables.
LEMMA TwDataFacts ==
  ASSUME key \in [Rows -> 0 .. NGroups], NEW first \in 0 .. nrTuples,
         NEW d \in TwData(key, first)
  PROVE  /\ d \in [twTables -> DequeType]
         /\ \A g \in Groups :
              Total(twTables, [x \in twTables |-> InDeque(d[x], g)]) =
                SumOver({r \in 0 .. first - 1 : key[r] = g})
<1> DEFINE table(in, x) == [g \in Groups |-> SumOver({r \in 0 .. first - 1 : in[r] = x /\ key[r] = g})]
<1>1. PICK in \in [0 .. first - 1 -> twTables] :
        d = [x \in twTables |-> Spilled(NewDeque(nrPartitions), Entries(table(in, x)))]
  BY DEF TwData
<1>2. ASSUME NEW x \in twTables
      PROVE  /\ d[x] \in DequeType
             /\ \A g \in Groups :
                  InDeque(d[x], g) = SumOver({r \in 0 .. first - 1 : in[r] = x /\ key[r] = g})
  <2>1. PICK tb : tb = table(in, x)
    OBVIOUS
  <2>2. /\ tb \in [Groups -> Nat]
        /\ \A g \in Groups : tb[g] = SumOver({r \in 0 .. first - 1 : in[r] = x /\ key[r] = g})
    BY <2>1, SumOverType
  <2> HIDE DEF table
  <2>3. /\ Entries(tb) \in Seq(EntryType)
        /\ \A g \in Groups : Amount(Entries(tb), g) = tb[g]
    BY <2>2, EntriesFacts
  <2>4. PICK n : n = NewDeque(nrPartitions)
    OBVIOUS
  <2>5. n \in DequeType /\ \A g \in Groups : InDeque(n, g) = 0
    BY <2>4, DequeEmpty
  <2>6. d[x] = Spilled(n, Entries(tb))
    BY <1>1, <2>1, <2>4
  <2>7. d[x] \in DequeType /\ \A g \in Groups : InDeque(d[x], g) = InDeque(n, g) + Amount(Entries(tb), g)
    BY <2>3, <2>5, <2>6, SpilledFacts
  <2>8. \A g \in Groups : InDeque(d[x], g) = tb[g]
    BY <2>2, <2>3, <2>5, <2>7
  <2> QED
    BY <2>2, <2>7, <2>8
<1> HIDE DEF table
<1>3. d \in [twTables -> DequeType]
  BY <1>1, <1>2
<1>4. ASSUME NEW g \in Groups
      PROVE  Total(twTables, [x \in twTables |-> InDeque(d[x], g)]) =
               SumOver({r \in 0 .. first - 1 : key[r] = g})
  <2>1. PICK R : R = {r \in 0 .. first - 1 : key[r] = g}
    OBVIOUS
  <2>2. PICK f : f = [x \in twTables |-> InDeque(d[x], g)]
    OBVIOUS
  <2>3. f \in [twTables -> Nat]
    BY <1>3, <2>2, InDequeType
  <2>4. ASSUME NEW x \in twTables
        PROVE  f[x] = SumOver(Given(in, R, x))
    <3>1. Given(in, R, x) = {r \in 0 .. first - 1 : in[r] = x /\ key[r] = g}
      BY <2>1 DEF Given
    <3> QED
      BY <1>2, <2>2, <3>1
  <2>5. \A r \in R : in[r] \in twTables
    BY <2>1
  <2>6. IsFiniteSet(twTables)
    BY GroupByAssumption
  <2>7. Total(twTables, f) = SumOver(R)
    BY SMTT(30), <2>3, <2>4, <2>5, <2>6, TotalOfRows
  <2> QED
    BY <2>1, <2>2, <2>7
<1> QED
  BY <1>3, <1>4

LEMMA NewStackFacts == StackOK(NewStack) /\ Places(NewStack) = <<>> /\ Items(NewStack) = <<>>
<1>1. PICK t : t = NewStack
  OBVIOUS
<1>2. t = [chunks |-> <<<<>>>>, last |-> 1, chunkSize |-> initialSize, fill |-> 0, nrElements |-> 0]
  BY <1>1 DEF NewStack
<1>3. <<>> \in Seq(EntryType)
  BY EmptySeq
<1>4. <<<<>>>> \in Seq(Seq(EntryType)) /\ Len(<<<<>>>>) = 1
  BY <1>3
<1>5. t \in StackType
  BY <1>2, <1>4, ContainersAssumption DEF StackType
<1>6. Len(t.chunks) > 0
  BY <1>2, <1>4
<1>7. t.last = 1 /\ t.chunkSize = initialSize /\ t.fill = 0 /\ t.nrElements = 0
  BY <1>2
<1> QED
  BY <1>1, <1>5, <1>6, <1>7, StackClear

\* The parts of an initial state.
LEMMA InitFacts ==
  ASSUME Init
  PROVE  /\ key \in [Rows -> 0 .. NGroups]
         /\ \E first \in Firsts :
              /\ first \in 0 .. nrTuples /\ data \in TwData(key, first)
              /\ left = first .. nrTuples - 1
         /\ phase = "scan" /\ ready = {} /\ linked = [t \in Threads |-> {}]
         /\ limit = [t \in Threads |-> maxFill] /\ entries = [t \in Threads |-> NewStack]
         /\ deques = [t \in Threads |-> NoDeque]
         /\ DOMAIN owner = {} /\ todo = [x \in twTables |-> {}]
         /\ task = [t \in Threads |-> NoTask] /\ shared = FALSE /\ tasks = {}
         /\ rows = [g \in Groups |-> 0] /\ result = [g \in Groups |-> 0]
<1>1. key \in [Rows -> 0 .. NGroups]
  BY GroupByAssumption DEF Init
<1>2. \E first \in Firsts :
        /\ first \in 0 .. nrTuples /\ data \in TwData(key, first)
        /\ left = first .. nrTuples - 1
  BY GroupByAssumption DEF Init
<1> QED
  BY <1>1, <1>2 DEF Init

LEMMA InitType ==
  ASSUME Init
  PROVE  TypeOK
<1>1. PICK first \in Firsts :
        /\ first \in 0 .. nrTuples /\ data \in TwData(key, first)
        /\ left = first .. nrTuples - 1
  BY InitFacts
<1>2. key \in [Rows -> 0 .. NGroups] /\ nrTuples \in Nat \ {0}
  BY InitFacts, GroupByAssumption
<1>3. RowsOK
  <2>1. data \in [twTables -> DequeType]
    BY <1>1, <1>2, TwDataFacts
  <2>2. left \in SUBSET Rows
    BY <1>1, <1>2 DEF Rows
  <2> QED
    BY <1>2, <2>1, <2>2 DEF RowsOK
<1>4. LocalsOK
  <2>1. /\ ready = {} /\ linked = [t \in Threads |-> {}]
        /\ limit = [t \in Threads |-> maxFill] /\ entries = [t \in Threads |-> NewStack]
        /\ deques = [t \in Threads |-> NoDeque]
    BY InitFacts
  <2>2. PICK s : s = NewStack
    OBVIOUS
  <2>3. StackOK(s) /\ Places(s) = <<>> /\ Items(s) = <<>> /\ s \in StackType
    BY <2>2, NewStackFacts DEF StackOK
  <2>4. ToSet(<<>>) = {}
    BY DEF ToSet
  <2>5. maxFill \in Nat
    BY GroupByAssumption
  <2> QED
    BY <2>1, <2>2, <2>3, <2>4, <2>5 DEF LocalsOK
<1>5. MergeOK
  <2>1. /\ DOMAIN owner = {} /\ todo = [x \in twTables |-> {}]
        /\ task = [t \in Threads |-> NoTask] /\ shared = FALSE
    BY InitFacts
  <2>2. NoTask \in TaskType /\ NoTask.left = <<>>
    BY NoTaskType
  <2> QED
    BY <2>1, <2>2 DEF MergeOK, TaskOK
<1>6. PhaseOK
  BY InitFacts DEF PhaseOK
<1>7. SomeThread
  <2>1. twTables = {} => first = 0
    BY GroupByAssumption
  <2>2. first = 0 => 0 \in left
    BY <1>1, <1>2
  <2> QED
    BY <2>1, <2>2, InitFacts DEF SomeThread
<1> QED
  BY <1>3, <1>4, <1>5, <1>6, <1>7 DEF TypeOK

LEMMA StutterType ==
  ASSUME TypeOK, UNCHANGED vars
  PROVE  TypeOK'
<1>1. /\ UNCHANGED <<key, data, left, phase, localVars, mergeVars, tasks>>
      /\ ready' = ready /\ deques' = deques /\ entries' = entries
      /\ owner' = owner /\ todo' = todo /\ task' = task /\ shared' = shared
  BY DEF vars, rowVars, localVars, mergeVars, outVars
<1>2. LocalsOK'
  BY <1>1, LocalsSame DEF TypeOK
<1>3. MergeOK'
  BY <1>1, <1>2, MergeKept DEF TypeOK
<1>4. RowsOK' /\ PhaseOK' /\ SomeThread'
  BY <1>1 DEF TypeOK, RowsOK, PhaseOK, SomeThread, Spillers
<1> QED
  BY <1>2, <1>3, <1>4 DEF TypeOK

LEMMA NextType ==
  ASSUME TypeOK, [Next]_vars
  PROVE  TypeOK'
<1>1. CASE UNCHANGED vars
  BY <1>1, StutterType
<1>2. ASSUME NEW t \in Threads, Thread(t)
      PROVE  TypeOK'
  BY <1>2, ScanTaskType, ScanRowType, MergeTableType, MergePartitionType, FindType, UpdateType,
     SpillAllType, AggregateType DEF Thread
<1>3. ASSUME Main
      PROVE  TypeOK'
  BY <1>3, EndScanType, EndMergeType, EndSpillType, ReturnType DEF Main
<1> QED
  BY <1>1, <1>2, <1>3 DEF Next, Stop

-----------------------------------------------------------------------------
(* A table that no two threads write *)

LEMMA ApartIdle ==
  ASSUME \A t \in Threads : task'[t] = NoTask, \A t \in Threads : KeysApart(Items(entries'[t]))
  PROVE  Apart'
<1>1. \A t \in Threads : task'[t].left = <<>>
  BY DEF NoTask
<1> QED
  BY <1>1 DEF Apart, SlotOK

LEMMA ApartSame ==
  ASSUME Apart, task' = task, entries' = entries
  PROVE  Apart'
BY DEF Apart, SlotOK

LEMMA InitApart ==
  ASSUME Init
  PROVE  Apart
<1>1. entries = [t \in Threads |-> NewStack] /\ task = [t \in Threads |-> NoTask]
  BY InitFacts
<1>2. PICK s : s = NewStack
  OBVIOUS
<1>3. KeysApart(Items(s))
  BY <1>2, NewStackFacts, OneApart
<1>4. \A t \in Threads : entries[t] = s /\ task[t] = NoTask
  BY <1>1, <1>2
<1> QED
  BY <1>3, <1>4 DEF Apart, SlotOK, NoTask

LEMMA ScanRowApart ==
  ASSUME TypeOK, Apart, NEW t \in Threads, ScanRow(t)
  PROVE  Apart'
<1>1. phase = "scan" /\ t \in ready /\ UNCHANGED mergeVars
  BY DEF ScanRow
<1>2. task' = task /\ \A u \in Threads : task[u] = NoTask
  BY <1>1, Idle DEF TypeOK, mergeVars
<1>3. PICK r \in left :
        IF key[r] = 0 THEN UNCHANGED <<linked, entries, deques>> ELSE GetGroup(t, key[r], Value(r))
  BY DEF ScanRow
<1>4. CASE key[r] = 0
  BY <1>2, <1>3, <1>4, ApartSame
<1>5. CASE key[r] # 0
  <2>1. PICK e : e = Entry(key[r], Value(r))
    OBVIOUS
  <2>2. e \in EntryType /\ e.k = key[r] /\ e.v = Value(r)
    BY <1>5, <2>1, RowEntry DEF TypeOK, Entry
  <2>3. GetGroup(t, e.k, e.v) /\ deques[t] # NoDeque
    BY <1>1, <1>3, <1>5, <2>2 DEF TypeOK, LocalsOK
  <2>4. PICK s, d : Kept(t, s, d) /\ Took(t, s, d, e)
    BY <2>2, <2>3, GetGroupFacts DEF TypeOK, Apart
  <2>5. entries' = [entries EXCEPT ![t] = s] /\ KeysApart(Items(s))
    BY <2>4 DEF Kept, Took
  <2>6. ASSUME NEW u \in Threads
        PROVE  KeysApart(Items(entries'[u]))
    <3>1. entries'[u] = IF u = t THEN s ELSE entries[u]
      BY <2>5 DEF TypeOK, LocalsOK
    <3> QED
      BY <2>5, <3>1 DEF Apart
  <2>7. \A u \in Threads : task'[u] = NoTask
    BY <1>2
  <2> QED
    BY <2>6, <2>7, ApartIdle
<1> QED
  BY <1>4, <1>5

\* A task that is not changed, with a table that is not changed.
LEMMA SlotKept ==
  ASSUME NEW t \in Threads, SlotOK(t), task'[t] = task[t],
         task[t].left # <<>> => entries'[task[t].of] = entries[task[t].of]
  PROVE  SlotOK(t)'
<1>1. CASE task[t].left = <<>>
  BY <1>1 DEF SlotOK
<1>2. CASE task[t].left # <<>>
  <2>1. PICK s : s = entries[task[t].of]
    OBVIOUS
  <2>2. s = entries'[task'[t].of]
    BY <1>2, <2>1
  <2> QED
    BY <1>2, <2>1, <2>2 DEF SlotOK
<1> QED
  BY <1>1, <1>2

LEMMA MergePartitionApart ==
  ASSUME TypeOK, Apart, NEW t \in Threads, MergePartition(t), ~shared'
  PROVE  Apart'
<1>1. task[t] = NoTask /\ entries' = entries
  BY DEF MergePartition, localVars
<1>2. PICK x, p :
        LET part == PartitionItems(data[x].partitions[p])
        IN  /\ x \in DOMAIN owner /\ p \in todo[x]
            /\ task' = [task EXCEPT ![t] =
                          IF part = <<>> THEN @ ELSE [NoTask EXCEPT !.left = part, !.of = owner[x]]]
            /\ shared' = (shared \/ (part # <<>> /\ \E u \in Threads : task[u].of = owner[x]))
  BY DEF MergePartition
<1>3. PICK part : part = PartitionItems(data[x].partitions[p])
  OBVIOUS
<1>4. PICK k : k = [NoTask EXCEPT !.left = part, !.of = owner[x]]
  OBVIOUS
<1>5. task' = [task EXCEPT ![t] = IF part = <<>> THEN task[t] ELSE k]
  BY <1>2, <1>3, <1>4
<1>6. part # <<>> => \A u \in Threads : task[u].of # owner[x]
  BY <1>2, <1>3
<1>7. k.left = part /\ k.of = owner[x] /\ k.slot = Unknown
  BY <1>4 DEF NoTask
<1>8. task \in [Threads -> TaskType]
  BY DEF TypeOK, MergeOK
<1>9. CASE part = <<>>
  BY <1>1, <1>5, <1>8, <1>9, ApartSame
<1>10. CASE part # <<>>
  <2>1. task'[t] = k /\ \A u \in Threads \ {t} : task'[u] = task[u]
    BY <1>5, <1>8, <1>10
  <2>2. ASSUME NEW u \in Threads, NEW v \in Threads,
               task'[u].left # <<>>, task'[v].left # <<>>, task'[u].of = task'[v].of
        PROVE  u = v
    BY <1>6, <1>7, <1>10, <2>1, <2>2 DEF Apart
  <2>3. ASSUME NEW u \in Threads
        PROVE  SlotOK(u)'
    <3>1. CASE u = t
      BY <1>7, <2>1, <3>1 DEF SlotOK
    <3>2. CASE u # t
      BY <1>1, <2>1, <3>2, SlotKept DEF Apart
    <3> QED
      BY <3>1, <3>2
  <2> QED
    BY <1>1, <2>2, <2>3 DEF Apart
<1> QED
  BY <1>9, <1>10

LEMMA FindApart ==
  ASSUME TypeOK, Apart, NEW t \in Threads, Find(t)
  PROVE  Apart'
<1>1. task[t].left # <<>> /\ entries' = entries
  BY DEF Find, localVars
<1>2. PICK o : o = task[t].of
  OBVIOUS
<1>3. PICK s : s = entries[o]
  OBVIOUS
<1>4. PICK h : h = Head(task[t].left).k
  OBVIOUS
<1>5. PICK pl : pl = FindIn(linked[o], s, h)
  OBVIOUS
<1>6. PICK a : a = IF pl = Absent THEN 0 ELSE At(s, pl).v
  OBVIOUS
<1>7. task' = [task EXCEPT ![t].slot = pl, ![t].acc = a]
  BY <1>2, <1>3, <1>4, <1>5, <1>6 DEF Find
<1>8. o \in Threads /\ StackOK(s) /\ linked[o] = ToSet(Places(s))
  BY <1>1, <1>2, <1>3 DEF TypeOK, MergeOK, TaskOK, LocalsOK
<1>9. \/ pl = Absent /\ \A i \in 1 .. Len(Items(s)) : Items(s)[i].k # h
      \/ \E i \in 1 .. Len(Items(s)) :
           pl = Places(s)[i] /\ Items(s)[i].k = h /\ pl \notin {Absent, Unknown}
  BY <1>5, <1>8, Found
<1>10. \A i \in 1 .. Len(Items(s)) : Items(s)[i] = At(s, Places(s)[i])
  BY <1>8, StackItems
<1>11. task \in [Threads -> TaskType]
  BY DEF TypeOK, MergeOK
<1>12. /\ \A u \in Threads \ {t} : task'[u] = task[u]
       /\ task'[t].left = task[t].left /\ task'[t].of = o
       /\ task'[t].slot = pl /\ task'[t].acc = a
  BY <1>2, <1>7, <1>11 DEF TaskType
<1>13. \A u \in Threads : task'[u].left = task[u].left /\ task'[u].of = task[u].of
  BY <1>2, <1>12
<1>14. SlotOK(t)'
  <2>1. CASE pl = Absent
    <3>1. \A i \in 1 .. Len(Items(s)) : Items(s)[i].k # h
      BY <1>9, <2>1
    <3> QED
      BY <1>1, <1>3, <1>4, <1>12, <2>1, <3>1 DEF SlotOK
  <2>2. CASE pl # Absent
    <3>1. PICK i \in 1 .. Len(Items(s)) :
            pl = Places(s)[i] /\ Items(s)[i].k = h /\ pl \notin {Absent, Unknown}
      BY <1>9, <2>2
    <3>2. Items(s)[i].v = a
      BY <1>6, <1>10, <2>2, <3>1
    <3> QED
      BY <1>1, <1>3, <1>4, <1>12, <3>1, <3>2 DEF SlotOK
  <2> QED
    BY <2>1, <2>2
<1>15. \A u \in Threads \ {t} : SlotOK(u)'
  BY <1>1, <1>12, SlotKept DEF Apart
<1> QED
  BY <1>1, <1>13, <1>14, <1>15 DEF Apart

LEMMA UpdateApart ==
  ASSUME TypeOK, Apart, NEW t \in Threads, Update(t)
  PROVE  Apart'
<1>1. task[t].left # <<>>
  BY DEF Update
<1>2. PICK o : o = task[t].of
  OBVIOUS
<1>3. /\ o \in Threads
      /\ \E s, d : Kept(o, s, d) /\ Took(o, s, d, Head(task[t].left))
  BY <1>2, UpdateFacts
<1>4. PICK s : entries' = [entries EXCEPT ![o] = s] /\ KeysApart(Items(s))
  BY <1>3 DEF Kept, Took
<1>5. PICK k : k = After(task[t])
  OBVIOUS
<1>6. task' = [task EXCEPT ![t] = k]
  BY <1>5 DEF Update, After
<1>7. k.slot = Unknown /\ (k.left # <<>> => k.of = o)
  BY <1>1, <1>2, <1>5, AfterFacts DEF TypeOK, MergeOK
<1>8. task'[t] = k /\ \A u \in Threads \ {t} : task'[u] = task[u]
  BY <1>6 DEF TypeOK, MergeOK
<1>9. entries'[o] = s /\ \A u \in Threads \ {o} : entries'[u] = entries[u]
  BY <1>3, <1>4 DEF TypeOK, LocalsOK
<1>10. \A u \in Threads : KeysApart(Items(entries'[u]))
  BY <1>4, <1>9 DEF Apart
<1>11. ASSUME NEW u \in Threads, NEW v \in Threads,
              task'[u].left # <<>>, task'[v].left # <<>>, task'[u].of = task'[v].of
       PROVE  u = v
  <2>1. task[u].left # <<>> /\ task[u].of = task'[u].of
    BY <1>1, <1>2, <1>7, <1>8, <1>11
  <2>2. task[v].left # <<>> /\ task[v].of = task'[v].of
    BY <1>1, <1>2, <1>7, <1>8, <1>11
  <2> QED
    BY <1>11, <2>1, <2>2 DEF Apart
<1>12. ASSUME NEW u \in Threads
       PROVE  SlotOK(u)'
  <2>1. CASE u = t
    BY <1>7, <1>8, <2>1 DEF SlotOK
  <2>2. CASE u # t
    <3>1. task[u].left # <<>> => task[u].of \in Threads /\ task[u].of # o
      BY <1>1, <1>2, <2>2 DEF Apart, TypeOK, MergeOK, TaskOK, LocalsOK
    <3> QED
      BY <1>8, <1>9, <2>2, <3>1, SlotKept DEF Apart
  <2> QED
    BY <2>1, <2>2
<1> QED
  BY <1>10, <1>11, <1>12 DEF Apart

LEMMA AggregateApart ==
  ASSUME TypeOK, Apart, NEW t \in Threads, Aggregate(t)
  PROVE  Apart'
<1>1. PICK p, u : p \in tasks /\ AggregatedTo(t, p, u)
  BY AggregateFacts
<1>2. entries' = [entries EXCEPT ![t] = u.stack] /\ KeysApart(Items(u.stack))
  BY <1>1 DEF AggregatedTo, TableType, TableOK
<1>3. task' = task /\ \A v \in Threads : task[v] = NoTask
  BY Idle DEF TypeOK, Aggregate, mergeVars
<1>4. ASSUME NEW v \in Threads
      PROVE  KeysApart(Items(entries'[v]))
  <2>1. entries'[v] = IF v = t THEN u.stack ELSE entries[v]
    BY <1>2 DEF TypeOK, LocalsOK
  <2> QED
    BY <1>2, <2>1 DEF Apart
<1>5. \A v \in Threads : task'[v] = NoTask
  BY <1>3
<1> QED
  BY <1>4, <1>5, ApartIdle

-----------------------------------------------------------------------------
(* No value is lost, and none is counted twice *)

TotalsOK ==
  \A g \in Groups :
    /\ InTable(g) \in [Threads -> Nat] /\ InDeques(g) \in [Threads -> Nat]
    /\ InTask(g) \in [Threads -> Nat] /\ InData(g) \in [twTables -> Nat]
    /\ Total(Threads, InTable(g)) \in Nat /\ Total(Threads, InDeques(g)) \in Nat
    /\ Total(Threads, InTask(g)) \in Nat /\ Total(twTables, InData(g)) \in Nat
    /\ InRows(g) \in Nat /\ Whole(g) \in Nat

LEMMA TotalsType == TypeOK => TotalsOK
<1> SUFFICES ASSUME TypeOK, NEW g \in Groups
             PROVE  /\ InTable(g) \in [Threads -> Nat] /\ InDeques(g) \in [Threads -> Nat]
                    /\ InTask(g) \in [Threads -> Nat] /\ InData(g) \in [twTables -> Nat]
                    /\ Total(Threads, InTable(g)) \in Nat /\ Total(Threads, InDeques(g)) \in Nat
                    /\ Total(Threads, InTask(g)) \in Nat /\ Total(twTables, InData(g)) \in Nat
                    /\ InRows(g) \in Nat /\ Whole(g) \in Nat
  BY DEF TotalsOK
<1>1. IsFiniteSet(Threads) /\ IsFiniteSet(twTables)
  BY GroupByAssumption
<1>2. InTable(g) \in [Threads -> Nat]
  <2>1. \A t \in Threads : Items(entries[t]) \in Seq(EntryType)
    BY StackItems DEF TypeOK, LocalsOK
  <2>2. \A t \in Threads : Amount(Items(entries[t]), g) \in Nat
    BY <2>1, AmountType
  <2> QED
    BY <2>2 DEF InTable
<1>3. InDeques(g) \in [Threads -> Nat]
  BY InDequeType DEF InDeques, TypeOK, LocalsOK
<1>4. InTask(g) \in [Threads -> Nat]
  <2>1. \A t \in Threads : task[t].left \in Seq(EntryType)
    BY DEF TypeOK, MergeOK, TaskType
  <2>2. \A t \in Threads : Amount(task[t].left, g) \in Nat
    BY <2>1, AmountType
  <2> QED
    BY <2>2 DEF InTask
<1>5. InData(g) \in [twTables -> Nat]
  BY InDequeType DEF InData, TypeOK, RowsOK
<1> QED
  BY <1>1, <1>2, <1>3, <1>4, <1>5, TotalType, SumOverType DEF InRows, Whole

LEMMA TotalsNext ==
  ASSUME TypeOK'
  PROVE  TotalsOK'
BY TotalsType, PTL

\* What an action does not touch.
LEMMA TableSame ==
  ASSUME UNCHANGED <<phase, tasks, entries>>
  PROVE  \A g : InTable(g)' = InTable(g)
BY DEF InTable

LEMMA DequesSame ==
  ASSUME UNCHANGED deques
  PROVE  \A g : InDeques(g)' = InDeques(g)
BY DEF InDeques

LEMMA TaskSame ==
  ASSUME UNCHANGED task
  PROVE  \A g : InTask(g)' = InTask(g)
BY DEF InTask

LEMMA DataSame ==
  ASSUME UNCHANGED <<data, owner, todo>>
  PROVE  \A g : InData(g)' = InData(g)
BY DEF InData

LEMMA RowsSame ==
  ASSUME UNCHANGED <<key, left>>
  PROVE  \A g : InRows(g)' = InRows(g) /\ Whole(g)' = Whole(g)
BY DEF InRows, Whole

LEMMA ReadyDeques ==
  ASSUME TypeOK, NEW t \in Threads, PreAggLocals(t)
  PROVE  \A g \in Groups : InDeques(g)' = InDeques(g)
<1>1. PICK n : n = NewDeque(nrPartitions)
  OBVIOUS
<1>2. deques' = [deques EXCEPT ![t] = IF deques[t] = NoDeque THEN n ELSE deques[t]]
  BY <1>1 DEF PreAggLocals
<1>3. \A g \in Groups : InDeque(n, g) = 0 /\ InDeque(NoDeque, g) = 0
  BY <1>1, DequeEmpty DEF InDeque
<1>4. ASSUME NEW g \in Groups, NEW u \in Threads
      PROVE  InDeque(deques'[u], g) = InDeque(deques[u], g)
  BY <1>2, <1>3 DEF TypeOK, LocalsOK
<1> QED
  BY <1>4 DEF InDeques

\* A value that a table has taken is there, or in the spill storage of its thread.
LEMMA TookTotals ==
  ASSUME TypeOK, TypeOK', NEW o \in Threads, NEW s, NEW d, NEW e \in EntryType,
         Kept(o, s, d), Took(o, s, d, e), phase \in {"scan", "merge"}, phase' = phase,
         NEW g \in Groups
  PROVE  Total(Threads, InTable(g)') + Total(Threads, InDeques(g)') =
           Total(Threads, InTable(g)) + Total(Threads, InDeques(g)) + Share(e, g)
<1>1. PICK a : a = InTable(g)
  OBVIOUS
<1>2. PICK b : b = InTable(g)'
  OBVIOUS
<1>3. PICK c : c = InDeques(g)
  OBVIOUS
<1>4. PICK f : f = InDeques(g)'
  OBVIOUS
<1>5. TotalsOK /\ TotalsOK'
  BY TotalsType, TotalsNext
<1>6. /\ a \in [Threads -> Nat] /\ b \in [Threads -> Nat]
      /\ c \in [Threads -> Nat] /\ f \in [Threads -> Nat]
  BY <1>1, <1>2, <1>3, <1>4, <1>5 DEF TotalsOK
<1>7. /\ entries' = [entries EXCEPT ![o] = s] /\ deques' = [deques EXCEPT ![o] = d]
  BY DEF Kept
<1>8. /\ entries'[o] = s /\ deques'[o] = d
      /\ \A t \in Threads \ {o} : entries'[t] = entries[t] /\ deques'[t] = deques[t]
  BY <1>7 DEF TypeOK, LocalsOK
<1>9. \A t \in Threads : t # o => b[t] = a[t] /\ f[t] = c[t]
  BY <1>1, <1>2, <1>3, <1>4, <1>8 DEF InTable, InDeques
<1>10. b[o] + f[o] = a[o] + c[o] + Share(e, g)
  <2>1. /\ a[o] = Amount(Items(entries[o]), g) /\ b[o] = Amount(Items(s), g)
        /\ c[o] = InDeque(deques[o], g) /\ f[o] = InDeque(d, g)
    BY <1>1, <1>2, <1>3, <1>4, <1>8 DEF InTable, InDeques
  <2> QED
    BY <2>1 DEF Took
<1>11. Total(Threads, b) + a[o] = Total(Threads, a) + b[o]
  BY <1>6, <1>9, GroupByAssumption, TotalChange
<1>12. Total(Threads, f) + c[o] = Total(Threads, c) + f[o]
  BY <1>6, <1>9, GroupByAssumption, TotalChange
<1>13. /\ Total(Threads, a) \in Nat /\ Total(Threads, b) \in Nat
       /\ Total(Threads, c) \in Nat /\ Total(Threads, f) \in Nat
  BY <1>6, GroupByAssumption, TotalType
<1>14. Share(e, g) \in Nat /\ a[o] \in Nat /\ b[o] \in Nat /\ c[o] \in Nat /\ f[o] \in Nat
  BY <1>6 DEF Share, EntryType
<1>15. Total(Threads, b) + Total(Threads, f) = Total(Threads, a) + Total(Threads, c) + Share(e, g)
  BY <1>10, <1>11, <1>12, <1>13, <1>14
<1> QED
  BY <1>1, <1>2, <1>3, <1>4, <1>15

LEMMA ScanTaskConserved ==
  ASSUME TypeOK, Conserved, NEW t \in Threads, ScanTask(t)
  PROVE  Conserved'
<1>1. /\ PreAggLocals(t)
      /\ UNCHANGED <<phase, tasks, entries, task, data, owner, todo, key, left>>
  BY DEF ScanTask, rowVars, mergeVars, outVars
<1>2. \A g \in Groups :
        /\ InTable(g)' = InTable(g) /\ InDeques(g)' = InDeques(g) /\ InTask(g)' = InTask(g)
        /\ InData(g)' = InData(g) /\ InRows(g)' = InRows(g) /\ Whole(g)' = Whole(g)
  BY <1>1, TableSame, ReadyDeques, TaskSame, DataSame, RowsSame
<1> QED
  BY <1>2 DEF Conserved

LEMMA RowLeaves ==
  ASSUME RowsOK, NEW r \in left, key' = key, left' = left \ {r}, NEW g \in Groups
  PROVE  InRows(g) = InRows(g)' + (IF key[r] = g THEN Value(r) ELSE 0) /\ Whole(g)' = Whole(g)
<1>1. PICK R : R = {q \in left' : key[q] = g}
  OBVIOUS
<1>2. InRows(g)' = SumOver(R)
  BY <1>1 DEF InRows
<1>3. Whole(g)' = Whole(g)
  BY DEF Whole
<1>4. CASE key[r] = g
  <2>1. {q \in left : key[q] = g} = R \cup {r} /\ R \cap {r} = {}
    BY <1>1, <1>4
  <2>2. SumOver(R \cup {r}) = SumOver(R) + SumOver({r})
    BY <2>1, SumOverUnion
  <2>3. SumOver({r}) = Value(r)
    BY SumOverOne DEF RowsOK
  <2> QED
    BY <1>2, <1>3, <1>4, <2>1, <2>2, <2>3 DEF InRows
<1>5. CASE key[r] # g
  <2>1. {q \in left : key[q] = g} = R
    BY <1>1, <1>5
  <2>2. SumOver(R) \in Nat
    BY SumOverType
  <2> QED
    BY <1>2, <1>3, <1>5, <2>1, <2>2 DEF InRows
<1> QED
  BY <1>4, <1>5

LEMMA ScanRowConserved ==
  ASSUME TypeOK, TypeOK', Apart, Conserved, NEW t \in Threads, ScanRow(t)
  PROVE  Conserved'
<1>1. /\ phase = "scan" /\ t \in ready /\ t \in Threads /\ deques[t] # NoDeque
      /\ UNCHANGED <<phase, tasks, task, data, owner, todo, key>>
  BY DEF ScanRow, mergeVars, outVars, TypeOK, LocalsOK
<1>2. PICK r \in left :
        /\ left' = left \ {r}
        /\ IF key[r] = 0 THEN UNCHANGED <<linked, entries, deques>> ELSE GetGroup(t, key[r], Value(r))
  BY DEF ScanRow
<1>3. \A g \in Groups : InTask(g)' = InTask(g) /\ InData(g)' = InData(g)
  BY <1>1, TaskSame, DataSame
<1>4. TotalsOK /\ TotalsOK'
  BY TotalsType, TotalsNext
<1>5. CASE key[r] = 0
  <2>1. \A g \in Groups : InTable(g)' = InTable(g) /\ InDeques(g)' = InDeques(g)
    BY <1>1, <1>2, <1>5, TableSame, DequesSame
  <2>2. \A g \in Groups : InRows(g)' = InRows(g) /\ Whole(g)' = Whole(g)
    <3>1. ASSUME NEW g \in Groups
          PROVE  InRows(g)' = InRows(g) /\ Whole(g)' = Whole(g)
      <4>1. key[r] # g
        BY <1>5 DEF Groups
      <4>2. InRows(g) = InRows(g)' + 0 /\ Whole(g)' = Whole(g)
        BY <1>1, <1>2, <4>1, RowLeaves DEF TypeOK
      <4> QED
        BY <1>4, <4>2 DEF TotalsOK
    <3> QED
      BY <3>1
  <2> QED
    BY <1>3, <2>1, <2>2 DEF Conserved
<1>6. CASE key[r] # 0
  <2>1. PICK e : e = Entry(key[r], Value(r))
    OBVIOUS
  <2>2. e \in EntryType /\ e.k = key[r] /\ e.v = Value(r)
    BY <1>6, <2>1, RowEntry DEF TypeOK, Entry
  <2>3. GetGroup(t, e.k, e.v)
    BY <1>2, <1>6, <2>2
  <2>4. PICK s, d : Kept(t, s, d) /\ Took(t, s, d, e)
    BY <1>1, <2>2, <2>3, GetGroupFacts DEF TypeOK, Apart
  <2>5. ASSUME NEW g \in Groups
        PROVE  Total(Threads, InTable(g)') + Total(Threads, InDeques(g)') + Total(Threads, InTask(g)')
                 + Total(twTables, InData(g)') + InRows(g)' = Whole(g)'
    <3>1. Total(Threads, InTable(g)') + Total(Threads, InDeques(g)') =
            Total(Threads, InTable(g)) + Total(Threads, InDeques(g)) + Share(e, g)
      BY <1>1, <2>2, <2>4, TookTotals
    <3>2. InRows(g) = InRows(g)' + Share(e, g) /\ Whole(g)' = Whole(g)
      BY <1>1, <1>2, <2>2, RowLeaves DEF Share, TypeOK
    <3>3. Share(e, g) \in Nat
      BY <2>2 DEF Share, EntryType
    <3>4. Total(Threads, InTable(g)) + Total(Threads, InDeques(g)) + Total(Threads, InTask(g))
            + Total(twTables, InData(g)) + InRows(g) = Whole(g)
      BY DEF Conserved
    <3>5. InTask(g)' = InTask(g) /\ InData(g)' = InData(g)
      BY <1>3
    <3>6. /\ Total(Threads, InTable(g)) \in Nat /\ Total(Threads, InDeques(g)) \in Nat
          /\ Total(Threads, InTask(g)) \in Nat /\ Total(twTables, InData(g)) \in Nat
          /\ InRows(g) \in Nat /\ InRows(g)' \in Nat
          /\ Total(Threads, InTable(g)') \in Nat /\ Total(Threads, InDeques(g)') \in Nat
      BY <1>4 DEF TotalsOK
    <3> QED
      BY <3>1, <3>2, <3>3, <3>4, <3>5, <3>6
  <2> QED
    BY <2>5 DEF Conserved
<1> QED
  BY <1>5, <1>6

LEMMA EndScanConserved ==
  ASSUME TypeOK, Conserved, EndScan
  PROVE  Conserved'
<1>1. /\ phase = "scan" /\ phase' = "merge"
      /\ UNCHANGED <<tasks, entries, deques, task, data, owner, todo, key, left>>
  BY DEF EndScan, rowVars, localVars, mergeVars, outVars
<1>2. \A g \in Groups : InTable(g)' = InTable(g)
  BY <1>1 DEF InTable
<1>3. \A g \in Groups :
        /\ InDeques(g)' = InDeques(g) /\ InTask(g)' = InTask(g)
        /\ InData(g)' = InData(g) /\ InRows(g)' = InRows(g) /\ Whole(g)' = Whole(g)
  BY <1>1, DequesSame, TaskSame, DataSame, RowsSame
<1> QED
  BY <1>2, <1>3 DEF Conserved

LEMMA MergeTableConserved ==
  ASSUME TypeOK, Conserved, NEW t \in Threads, MergeTable(t)
  PROVE  Conserved'
<1>1. /\ PreAggLocals(t)
      /\ UNCHANGED <<phase, tasks, entries, task, data, key, left>>
  BY DEF MergeTable, rowVars, outVars
<1>2. PICK x \in twTables \ DOMAIN owner :
        /\ owner' = [y \in DOMAIN owner \cup {x} |-> IF y = x THEN t ELSE owner[y]]
        /\ todo' = [todo EXCEPT ![x] = DOMAIN data[x].partitions]
  BY DEF MergeTable
<1>3. DOMAIN data[x].partitions = Parts
  BY DequeFacts DEF TypeOK, RowsOK
<1>4. ASSUME NEW g \in Groups
      PROVE  InData(g)' = InData(g)
  <2>1. PartNr(g) \in Parts
    BY PartsFacts
  <2>2. todo'[x] = Parts /\ \A y \in twTables \ {x} : todo'[y] = todo[y]
    BY <1>2, <1>3 DEF TypeOK, MergeOK
  <2>3. DOMAIN owner' = DOMAIN owner \cup {x}
    BY <1>2
  <2> QED
    BY <1>1, <1>2, <2>1, <2>2, <2>3 DEF InData
<1>5. \A g \in Groups :
        /\ InTable(g)' = InTable(g) /\ InDeques(g)' = InDeques(g) /\ InTask(g)' = InTask(g)
        /\ InRows(g)' = InRows(g) /\ Whole(g)' = Whole(g)
  BY <1>1, TableSame, ReadyDeques, TaskSame, RowsSame
<1> QED
  BY <1>4, <1>5 DEF Conserved

LEMMA MergePartitionConserved ==
  ASSUME TypeOK, TypeOK', Conserved, NEW t \in Threads, MergePartition(t)
  PROVE  Conserved'
<1>1. /\ task[t] = NoTask
      /\ UNCHANGED <<phase, tasks, entries, deques, owner, data, key, left>>
  BY DEF MergePartition, rowVars, localVars, outVars
<1>2. PICK x, p :
        LET part == PartitionItems(data[x].partitions[p])
        IN  /\ x \in DOMAIN owner /\ p \in todo[x]
            /\ todo' = [todo EXCEPT ![x] = @ \ {p}]
            /\ task' = [task EXCEPT ![t] =
                          IF part = <<>> THEN @ ELSE [NoTask EXCEPT !.left = part, !.of = owner[x]]]
  BY DEF MergePartition
<1>3. PICK part : part = PartitionItems(data[x].partitions[p])
  OBVIOUS
<1>4. p \in Parts /\ x \in twTables /\ data[x] \in DequeType /\ part \in Seq(EntryType) /\ OfPart(part, p)
  BY <1>2, <1>3, PartOfTable DEF TypeOK
<1>5. task'[t].left = part /\ \A u \in Threads \ {t} : task'[u] = task[u]
  <2>1. task' = [task EXCEPT ![t] =
                   IF part = <<>> THEN task[t] ELSE [NoTask EXCEPT !.left = part, !.of = owner[x]]]
    BY <1>2, <1>3
  <2> QED
    BY <1>1, <2>1 DEF TypeOK, MergeOK, NoTask
<1>6. todo'[x] = todo[x] \ {p} /\ \A y \in twTables \ {x} : todo'[y] = todo[y]
  BY <1>2, <1>4 DEF TypeOK, MergeOK
<1>7. ASSUME NEW g \in Groups
      PROVE  Total(Threads, InTable(g)') + Total(Threads, InDeques(g)') + Total(Threads, InTask(g)')
               + Total(twTables, InData(g)') + InRows(g)' = Whole(g)'
  <2>1. PICK a : a = InTask(g)
    OBVIOUS
  <2>2. PICK b : b = InTask(g)'
    OBVIOUS
  <2>3. PICK c : c = InData(g)
    OBVIOUS
  <2>4. PICK f : f = InData(g)'
    OBVIOUS
  <2>5. TotalsOK /\ TotalsOK'
    BY TotalsType, TotalsNext
  <2>6. /\ a \in [Threads -> Nat] /\ b \in [Threads -> Nat]
        /\ c \in [twTables -> Nat] /\ f \in [twTables -> Nat]
    BY <2>1, <2>2, <2>3, <2>4, <2>5 DEF TotalsOK
  <2>7. a[t] = 0 /\ b[t] = Amount(part, g)
    <3>1. task[t].left = <<>>
      BY <1>1 DEF NoTask
    <3>2. Amount(<<>>, g) = 0
      BY AmountEmpty
    <3> QED
      BY <1>5, <2>1, <2>2, <3>1, <3>2 DEF InTask
  <2>8. c[x] = f[x] + Amount(part, g)
    <3>1. CASE PartNr(g) = p
      <4>1. c[x] = InDeque(data[x], g)
        BY <1>2, <1>4, <2>3, <3>1 DEF InData
      <4>2. InDeque(data[x], g) = Amount(part, g)
        BY <1>3, <1>4, <3>1, DequeFacts DEF InDeque
      <4>3. f[x] = 0
        BY <1>1, <1>2, <1>4, <1>6, <2>4, <3>1 DEF InData
      <4> QED
        BY <2>6, <1>4, <4>1, <4>2, <4>3
    <3>2. CASE PartNr(g) # p
      <4>1. ~\E i \in 1 .. Len(part) : part[i].k = g
        BY <1>4, <3>2 DEF OfPart
      <4>2. Amount(part, g) = 0
        BY <1>4, <4>1, AmountPresent
      <4>3. f[x] = c[x]
        BY <1>1, <1>2, <1>4, <1>6, <2>3, <2>4, <3>2 DEF InData
      <4> QED
        BY <1>4, <2>6, <4>2, <4>3
    <3> QED
      BY <3>1, <3>2
  <2>9. \A u \in Threads : u # t => b[u] = a[u]
    BY <1>5, <2>1, <2>2 DEF InTask
  <2>10. \A y \in twTables : y # x => f[y] = c[y]
    BY <1>1, <1>6, <2>3, <2>4 DEF InData
  <2>11. Total(Threads, b) + a[t] = Total(Threads, a) + b[t]
    BY <2>6, <2>9, GroupByAssumption, TotalChange
  <2>12. Total(twTables, f) + c[x] = Total(twTables, c) + f[x]
    <3>1. IsFiniteSet(twTables) /\ x \in twTables
      BY <1>4, GroupByAssumption
    <3>2. c \in [twTables -> Nat] /\ f \in [twTables -> Nat]
      BY <2>6
    <3> QED
      BY <2>10, <3>1, <3>2, TotalChange
  <2>13. /\ Total(Threads, a) \in Nat /\ Total(Threads, b) \in Nat
         /\ Total(twTables, c) \in Nat /\ Total(twTables, f) \in Nat
    BY <2>6, GroupByAssumption, TotalType
  <2>14. PICK n \in Nat : n = Amount(part, g)
    BY <1>4, AmountType
  <2>15. f[x] \in Nat /\ c[x] \in Nat
    BY <1>4, <2>6
  <2>16. Total(Threads, b) + Total(twTables, f) = Total(Threads, a) + Total(twTables, c)
    BY <2>7, <2>8, <2>11, <2>12, <2>13, <2>14, <2>15
  <2>17. /\ InTable(g)' = InTable(g) /\ InDeques(g)' = InDeques(g)
         /\ InRows(g)' = InRows(g) /\ Whole(g)' = Whole(g)
    BY <1>1, TableSame, DequesSame, RowsSame
  <2>18. Total(Threads, InTable(g)) + Total(Threads, InDeques(g)) + Total(Threads, a)
           + Total(twTables, c) + InRows(g) = Whole(g)
    BY <2>1, <2>3 DEF Conserved
  <2>19. /\ Total(Threads, InTable(g)) \in Nat /\ Total(Threads, InDeques(g)) \in Nat
         /\ InRows(g) \in Nat
    BY <2>5 DEF TotalsOK
  <2>20. Total(Threads, InTable(g)) + Total(Threads, InDeques(g)) + Total(Threads, b)
           + Total(twTables, f) + InRows(g) = Whole(g)
    BY <2>13, <2>16, <2>18, <2>19
  <2> QED
    BY <2>2, <2>4, <2>17, <2>20
<1> QED
  BY <1>7 DEF Conserved

LEMMA FindConserved ==
  ASSUME TypeOK, Conserved, NEW t \in Threads, Find(t)
  PROVE  Conserved'
<1>1. UNCHANGED <<phase, tasks, entries, deques, owner, todo, data, key, left>>
  BY DEF Find, rowVars, localVars, outVars
<1>2. \A u \in Threads : task'[u].left = task[u].left
  BY DEF Find, TypeOK, MergeOK, TaskType
<1>3. \A g \in Groups : InTask(g)' = InTask(g)
  BY <1>2 DEF InTask
<1>4. \A g \in Groups :
        /\ InTable(g)' = InTable(g) /\ InDeques(g)' = InDeques(g)
        /\ InData(g)' = InData(g) /\ InRows(g)' = InRows(g) /\ Whole(g)' = Whole(g)
  BY <1>1, TableSame, DequesSame, DataSame, RowsSame
<1> QED
  BY <1>3, <1>4 DEF Conserved

LEMMA UpdateConserved ==
  ASSUME TypeOK, TypeOK', Apart, Conserved, NEW t \in Threads, Update(t)
  PROVE  Conserved'
<1>1. /\ task[t].left # <<>>
      /\ UNCHANGED <<phase, tasks, owner, todo, data, key, left>>
  BY DEF Update, rowVars, outVars
<1>2. PICK o : o = task[t].of
  OBVIOUS
<1>3. PICK e : e = Head(task[t].left)
  OBVIOUS
<1>4. o \in Threads /\ phase = "merge" /\ \E s, d : Kept(o, s, d) /\ Took(o, s, d, e)
  BY <1>2, <1>3, UpdateFacts
<1>5. PICK s, d : Kept(o, s, d) /\ Took(o, s, d, e)
  BY <1>4
<1>6. PICK es : es = task[t].left
  OBVIOUS
<1>7. task[t] \in TaskType /\ es \in Seq(EntryType) /\ es # <<>>
  BY <1>1, <1>6 DEF TypeOK, MergeOK, TaskType
<1>8. e \in EntryType /\ After(task[t]).left = Tail(es)
  BY <1>1, <1>3, <1>6, <1>7, AfterFacts
<1>9. task'[t].left = Tail(es) /\ \A u \in Threads \ {t} : task'[u] = task[u]
  <2>1. task' = [task EXCEPT ![t] = After(task[t])]
    BY DEF Update, After
  <2> QED
    BY <1>8, <2>1 DEF TypeOK, MergeOK
<1>10. ASSUME NEW g \in Groups
       PROVE  Total(Threads, InTable(g)') + Total(Threads, InDeques(g)') + Total(Threads, InTask(g)')
                + Total(twTables, InData(g)') + InRows(g)' = Whole(g)'
  <2>1. Total(Threads, InTable(g)') + Total(Threads, InDeques(g)') =
          Total(Threads, InTable(g)) + Total(Threads, InDeques(g)) + Share(e, g)
    BY <1>1, <1>4, <1>5, <1>8, TookTotals
  <2>2. PICK a : a = InTask(g)
    OBVIOUS
  <2>3. PICK b : b = InTask(g)'
    OBVIOUS
  <2>4. TotalsOK /\ TotalsOK'
    BY TotalsType, TotalsNext
  <2>5. a \in [Threads -> Nat] /\ b \in [Threads -> Nat]
    BY <2>2, <2>3, <2>4 DEF TotalsOK
  <2>6. a[t] = b[t] + Share(e, g)
    <3>1. a[t] = Amount(es, g) /\ b[t] = Amount(Tail(es), g)
      BY <1>6, <1>9, <2>2, <2>3 DEF InTask
    <3>2. Amount(es, g) = Share(Head(es), g) + Amount(Tail(es), g)
      BY <1>7, AmountTail
    <3>3. a[t] = Share(e, g) + b[t]
      BY <1>3, <1>6, <3>1, <3>2
    <3>4. b[t] \in Nat /\ Share(e, g) \in Nat
      BY <1>8, <2>5 DEF Share, EntryType
    <3> QED
      BY <3>3, <3>4
  <2>7. \A u \in Threads : u # t => b[u] = a[u]
    BY <1>9, <2>2, <2>3 DEF InTask
  <2>8. Total(Threads, b) + a[t] = Total(Threads, a) + b[t]
    BY <2>5, <2>7, GroupByAssumption, TotalChange
  <2>9. Total(Threads, a) \in Nat /\ Total(Threads, b) \in Nat /\ b[t] \in Nat /\ Share(e, g) \in Nat
    BY <1>8, <2>5, GroupByAssumption, TotalType DEF Share, EntryType
  <2>10. Total(Threads, a) = Total(Threads, b) + Share(e, g)
    BY <2>6, <2>8, <2>9
  <2>11. InData(g)' = InData(g) /\ InRows(g)' = InRows(g) /\ Whole(g)' = Whole(g)
    BY <1>1, DataSame, RowsSame
  <2>12. Total(Threads, InTable(g)) + Total(Threads, InDeques(g)) + Total(Threads, a)
           + Total(twTables, InData(g)) + InRows(g) = Whole(g)
    BY <2>2 DEF Conserved
  <2>13. /\ Total(Threads, InTable(g)) \in Nat /\ Total(Threads, InDeques(g)) \in Nat
         /\ Total(twTables, InData(g)) \in Nat /\ InRows(g) \in Nat
         /\ Total(Threads, InTable(g)') \in Nat /\ Total(Threads, InDeques(g)') \in Nat
    BY <2>4 DEF TotalsOK
  <2>14. Total(Threads, InTable(g)') + Total(Threads, InDeques(g)') + Total(Threads, b)
           + Total(twTables, InData(g)) + InRows(g) = Whole(g)
    BY <2>1, <2>9, <2>10, <2>12, <2>13
  <2> QED
    BY <2>3, <2>11, <2>14
<1> QED
  BY <1>10 DEF Conserved

LEMMA EndMergeConserved ==
  ASSUME TypeOK, Conserved, EndMerge
  PROVE  Conserved'
<1>1. /\ phase = "merge" /\ phase' = "spill" /\ tasks' = ready
      /\ UNCHANGED <<entries, deques, task, data, owner, todo, key, left>>
  BY DEF EndMerge, rowVars, localVars, mergeVars
<1>2. ASSUME NEW g \in Groups
      PROVE  InTable(g)' = InTable(g)
  <2>1. \A t \in Threads : t \notin ready => Amount(Items(entries[t]), g) = 0
    BY AmountEmpty DEF TypeOK, LocalsOK
  <2> QED
    BY <1>1, <2>1 DEF InTable
<1>3. \A g \in Groups :
        /\ InDeques(g)' = InDeques(g) /\ InTask(g)' = InTask(g)
        /\ InData(g)' = InData(g) /\ InRows(g)' = InRows(g) /\ Whole(g)' = Whole(g)
  BY <1>1, DequesSame, TaskSame, DataSame, RowsSame
<1> QED
  BY <1>2, <1>3 DEF Conserved

LEMMA SpillAllConserved ==
  ASSUME TypeOK, TypeOK', Conserved, NEW t \in Threads, SpillAll(t)
  PROVE  Conserved'
<1>1. /\ phase = "spill"
      /\ UNCHANGED <<phase, entries, task, data, owner, todo, key, left>>
  BY DEF SpillAll, rowVars, mergeVars
<1>2. PICK u \in tasks, d \in DequeType :
        /\ u \in Threads /\ tasks' = tasks \ {u} /\ deques' = [deques EXCEPT ![t] = d]
        /\ \A g \in Groups : InDeque(d, g) = InDeque(deques[t], g) + Amount(Items(entries[u]), g)
  BY SpillAllFacts
<1>3. deques'[t] = d /\ \A v \in Threads \ {t} : deques'[v] = deques[v]
  BY <1>2 DEF TypeOK, LocalsOK
<1>4. ASSUME NEW g \in Groups
      PROVE  Total(Threads, InTable(g)') + Total(Threads, InDeques(g)') + Total(Threads, InTask(g)')
               + Total(twTables, InData(g)') + InRows(g)' = Whole(g)'
  <2>1. PICK a : a = InTable(g)
    OBVIOUS
  <2>2. PICK b : b = InTable(g)'
    OBVIOUS
  <2>3. PICK c : c = InDeques(g)
    OBVIOUS
  <2>4. PICK f : f = InDeques(g)'
    OBVIOUS
  <2>5. TotalsOK /\ TotalsOK'
    BY TotalsType, TotalsNext
  <2>6. /\ a \in [Threads -> Nat] /\ b \in [Threads -> Nat]
        /\ c \in [Threads -> Nat] /\ f \in [Threads -> Nat]
    BY <2>1, <2>2, <2>3, <2>4, <2>5 DEF TotalsOK
  <2>7. a[u] = Amount(Items(entries[u]), g) /\ b[u] = 0
    BY <1>1, <1>2, <2>1, <2>2 DEF InTable
  <2>8. f[t] = c[t] + a[u]
    BY <1>2, <1>3, <2>3, <2>4, <2>7 DEF InDeques
  <2>9. \A v \in Threads : v # u => b[v] = a[v]
    BY <1>1, <1>2, <2>1, <2>2 DEF InTable
  <2>10. \A v \in Threads : v # t => f[v] = c[v]
    BY <1>3, <2>3, <2>4 DEF InDeques
  <2>11. Total(Threads, b) + a[u] = Total(Threads, a) + b[u]
    BY <1>2, <2>6, <2>9, GroupByAssumption, TotalChange
  <2>12. Total(Threads, f) + c[t] = Total(Threads, c) + f[t]
    BY <2>6, <2>10, GroupByAssumption, TotalChange
  <2>13. /\ Total(Threads, a) \in Nat /\ Total(Threads, b) \in Nat
         /\ Total(Threads, c) \in Nat /\ Total(Threads, f) \in Nat
    BY <2>6, GroupByAssumption, TotalType
  <2>14. a[u] \in Nat /\ b[u] \in Nat /\ c[t] \in Nat /\ f[t] \in Nat
    BY <1>2, <2>6
  <2>15. Total(Threads, b) + Total(Threads, f) = Total(Threads, a) + Total(Threads, c)
    BY <2>7, <2>8, <2>11, <2>12, <2>13, <2>14
  <2>16. /\ InTask(g)' = InTask(g) /\ InData(g)' = InData(g)
         /\ InRows(g)' = InRows(g) /\ Whole(g)' = Whole(g)
    BY <1>1, TaskSame, DataSame, RowsSame
  <2>17. Total(Threads, a) + Total(Threads, c) + Total(Threads, InTask(g))
           + Total(twTables, InData(g)) + InRows(g) = Whole(g)
    BY <2>1, <2>3 DEF Conserved
  <2>18. /\ Total(Threads, InTask(g)) \in Nat /\ Total(twTables, InData(g)) \in Nat
         /\ InRows(g) \in Nat
    BY <2>5 DEF TotalsOK
  <2>19. Total(Threads, b) + Total(Threads, f) + Total(Threads, InTask(g))
           + Total(twTables, InData(g)) + InRows(g) = Whole(g)
    BY <2>15, <2>17
  <2> QED
    BY <2>2, <2>4, <2>16, <2>19
<1> QED
  BY <1>4 DEF Conserved

LEMMA EndSpillConserved ==
  ASSUME TypeOK, Conserved, EndSpill
  PROVE  Conserved'
<1>1. /\ phase = "spill" /\ phase' = "aggregate" /\ tasks = {}
      /\ UNCHANGED <<entries, deques, task, data, owner, todo, key, left>>
  BY DEF EndSpill, rowVars, localVars, mergeVars
<1>2. \A g \in Groups : InTable(g)' = InTable(g)
  BY <1>1 DEF InTable
<1>3. \A g \in Groups :
        /\ InDeques(g)' = InDeques(g) /\ InTask(g)' = InTask(g)
        /\ InData(g)' = InData(g) /\ InRows(g)' = InRows(g) /\ Whole(g)' = Whole(g)
  BY <1>1, DequesSame, TaskSame, DataSame, RowsSame
<1> QED
  BY <1>2, <1>3 DEF Conserved

LEMMA AggregateConserved ==
  ASSUME Conserved, NEW t \in Threads, Aggregate(t)
  PROVE  Conserved'
<1>1. /\ phase = "aggregate" /\ phase' = "aggregate"
      /\ UNCHANGED <<deques, task, data, owner, todo, key, left>>
  BY DEF Aggregate, rowVars, mergeVars
<1>2. \A g \in Groups : InTable(g)' = InTable(g)
  BY <1>1 DEF InTable
<1>3. \A g \in Groups :
        /\ InDeques(g)' = InDeques(g) /\ InTask(g)' = InTask(g)
        /\ InData(g)' = InData(g) /\ InRows(g)' = InRows(g) /\ Whole(g)' = Whole(g)
  BY <1>1, DequesSame, TaskSame, DataSame, RowsSame
<1> QED
  BY <1>2, <1>3 DEF Conserved

LEMMA ReturnConserved ==
  ASSUME Conserved, Return
  PROVE  Conserved'
<1>1. /\ phase = "aggregate" /\ phase' = "returned"
      /\ UNCHANGED <<deques, task, data, owner, todo, key, left>>
  BY DEF Return, rowVars, localVars, mergeVars
<1>2. \A g \in Groups : InTable(g)' = InTable(g)
  BY <1>1 DEF InTable
<1>3. \A g \in Groups :
        /\ InDeques(g)' = InDeques(g) /\ InTask(g)' = InTask(g)
        /\ InData(g)' = InData(g) /\ InRows(g)' = InRows(g) /\ Whole(g)' = Whole(g)
  BY <1>1, DequesSame, TaskSame, DataSame, RowsSame
<1> QED
  BY <1>2, <1>3 DEF Conserved

LEMMA InitConserved ==
  ASSUME Init
  PROVE  Conserved
<1>1. PICK first \in Firsts :
        /\ first \in 0 .. nrTuples /\ data \in TwData(key, first)
        /\ left = first .. nrTuples - 1
  BY InitFacts
<1>2. /\ key \in [Rows -> 0 .. NGroups] /\ nrTuples \in Nat \ {0}
      /\ phase = "scan" /\ entries = [t \in Threads |-> NewStack]
      /\ deques = [t \in Threads |-> NoDeque] /\ DOMAIN owner = {}
      /\ task = [t \in Threads |-> NoTask]
  BY InitFacts, GroupByAssumption
<1>3. TotalsOK
  BY InitType, TotalsType
<1>4. ASSUME NEW g \in Groups
      PROVE  Total(Threads, InTable(g)) + Total(Threads, InDeques(g)) + Total(Threads, InTask(g))
               + Total(twTables, InData(g)) + InRows(g) = Whole(g)
  <2>1. Amount(<<>>, g) = 0
    BY AmountEmpty
  <2>2. IsFiniteSet(Threads) /\ IsFiniteSet(twTables)
    BY GroupByAssumption
  <2>3. Total(Threads, InTable(g)) = 0
    <3>1. PICK s : s = NewStack
      OBVIOUS
    <3>2. Items(s) = <<>>
      BY <3>1, NewStackFacts
    <3>3. \A t \in Threads : InTable(g)[t] = 0
      BY <1>2, <2>1, <3>1, <3>2 DEF InTable
    <3> QED
      BY <1>3, <2>2, <3>3, TotalZero DEF TotalsOK
  <2>4. Total(Threads, InDeques(g)) = 0
    <3>1. \A t \in Threads : InDeques(g)[t] = 0
      BY <1>2 DEF InDeques, InDeque
    <3> QED
      BY <1>3, <2>2, <3>1, TotalZero DEF TotalsOK
  <2>5. Total(Threads, InTask(g)) = 0
    <3>1. \A t \in Threads : InTask(g)[t] = 0
      BY <1>2, <2>1 DEF InTask, NoTask
    <3> QED
      BY <1>3, <2>2, <3>1, TotalZero DEF TotalsOK
  <2>6. Total(twTables, InData(g)) = SumOver({r \in 0 .. first - 1 : key[r] = g})
    <3>1. InData(g) = [x \in twTables |-> InDeque(data[x], g)]
      BY <1>2 DEF InData
    <3>2. Total(twTables, [x \in twTables |-> InDeque(data[x], g)]) =
            SumOver({r \in 0 .. first - 1 : key[r] = g})
      BY <1>1, <1>2, TwDataFacts
    <3> QED
      BY <3>1, <3>2
  <2>7. PICK S : S = {r \in 0 .. first - 1 : key[r] = g}
    OBVIOUS
  <2>8. PICK T : T = {r \in left : key[r] = g}
    OBVIOUS
  <2>9. S \cap T = {} /\ {r \in Rows : key[r] = g} = S \cup T
    <3>1. \A r : r \in Rows <=> (r \in 0 .. first - 1 \/ r \in left)
      BY <1>1, <1>2 DEF Rows
    <3>2. \A r : ~(r \in 0 .. first - 1 /\ r \in left)
      BY <1>1, <1>2
    <3> QED
      BY <2>7, <2>8, <3>1, <3>2
  <2>10. Whole(g) = SumOver(S) + SumOver(T)
    BY <2>9, SumOverUnion DEF Whole
  <2>11. InRows(g) = SumOver(T)
    BY <2>8 DEF InRows
  <2>12. SumOver(S) \in Nat /\ SumOver(T) \in Nat
    BY SumOverType
  <2>13. Total(twTables, InData(g)) = SumOver(S)
    BY <2>6, <2>7
  <2> QED
    BY <2>3, <2>4, <2>5, <2>10, <2>11, <2>12, <2>13
<1> QED
  BY <1>4 DEF Conserved

-----------------------------------------------------------------------------
(* The result *)

\* Before the last loop there are no result rows.
LEMMA EarlyDone ==
  ASSUME Done, phase \in {"scan", "merge", "spill"}, phase' \in {"scan", "merge", "spill"},
         UNCHANGED <<rows, result>>
  PROVE  Done'
BY DEF Done

LEMMA WorkersDone ==
  ASSUME TypeOK, Done, NEW t \in Threads, Thread(t), ~Aggregate(t)
  PROVE  Done'
<1>1. CASE ScanTask(t)
  BY <1>1, EarlyDone DEF ScanTask, outVars
<1>2. CASE ScanRow(t)
  BY <1>2, EarlyDone DEF ScanRow, outVars
<1>3. CASE MergeTable(t)
  BY <1>3, EarlyDone DEF MergeTable, outVars
<1>4. CASE MergePartition(t)
  BY <1>4, EarlyDone DEF MergePartition, outVars
<1>5. CASE Find(t)
  <2>1. task[t].left # <<>> /\ UNCHANGED <<phase, rows, result>>
    BY <1>5 DEF Find, outVars
  <2>2. phase = "merge"
    BY <2>1 DEF TypeOK, MergeOK, TaskOK
  <2> QED
    BY <2>1, <2>2, EarlyDone
<1>6. CASE Update(t)
  <2>1. task[t].left # <<>> /\ UNCHANGED <<phase, rows, result>>
    BY <1>6 DEF Update, outVars
  <2>2. phase = "merge"
    BY <2>1 DEF TypeOK, MergeOK, TaskOK
  <2> QED
    BY <2>1, <2>2, EarlyDone
<1>7. CASE SpillAll(t)
  BY <1>7, EarlyDone DEF SpillAll
<1> QED
  BY <1>1, <1>2, <1>3, <1>4, <1>5, <1>6, <1>7 DEF Thread

LEMMA EndSpillDone ==
  ASSUME TypeOK, Done, EndSpill
  PROVE  Done'
<1>1. /\ phase = "spill" /\ UNCHANGED <<rows, result>>
      /\ tasks' = UNION {DOMAIN deques[t].partitions : t \in Spillers}
  BY DEF EndSpill
<1>2. Spillers # {}
  BY <1>1 DEF TypeOK, LocalsOK, SomeThread, Spillers
<1>3. \A t \in Spillers : DOMAIN deques[t].partitions = Parts
  BY DequeFacts DEF TypeOK, LocalsOK, Spillers
<1>4. \A g \in Groups : PartNr(g) \in tasks'
  BY <1>1, <1>2, <1>3, PartsFacts
<1> QED
  BY <1>1, <1>4 DEF Done

\* What the result is of a group whose partition is done.
LEMMA AggregateDone ==
  ASSUME TypeOK, Done, NEW t \in Threads, Aggregate(t)
  PROVE  Done'
<1>1. PICK p, u : p \in tasks /\ AggregatedTo(t, p, u)
  BY AggregateFacts
<1>2. /\ phase = "aggregate" /\ phase' = "aggregate" /\ deques' = deques
      /\ tasks' = tasks \ {p}
  BY <1>1 DEF Aggregate, AggregatedTo
<1>3. PICK s : s = u.stack
  OBVIOUS
<1>4. /\ StackOK(s) /\ KeysApart(Items(s)) /\ Emit(s)
      /\ \A g \in Groups :
           Amount(Items(s), g) = IF PartNr(g) = p THEN Total(Threads, InDeques(g)) ELSE 0
  BY <1>1, <1>3 DEF AggregatedTo, TableType, TableOK
<1>5. /\ rows \in [Groups -> Nat] /\ result \in [Groups -> Nat]
      /\ \A g \in Groups : Total(Threads, InDeques(g)) \in Nat
  BY TotalsType DEF Done, TotalsOK
<1>6. /\ rows' = [g \in Groups |-> rows[g] + (IF Amount(Items(s), g) = 0 THEN 0 ELSE 1)]
      /\ result' = [g \in Groups |->
                      IF Amount(Items(s), g) = 0 THEN result[g] ELSE Amount(Items(s), g)]
  BY <1>4, <1>5, Emitted
<1>7. \A g \in Groups : InDeques(g)' = InDeques(g)
  BY <1>2, DequesSame
<1>8. ASSUME NEW g \in Groups
      PROVE  /\ rows'[g] \in Nat /\ result'[g] \in Nat
             /\ IF PartNr(g) \notin tasks'
                THEN /\ rows'[g] = IF Total(Threads, InDeques(g)) = 0 THEN 0 ELSE 1
                     /\ result'[g] = Total(Threads, InDeques(g))
                ELSE rows'[g] = 0 /\ result'[g] = 0
  <2>1. PICK n \in Nat : n = Total(Threads, InDeques(g))
    BY <1>5
  <2>2. PICK a : a = Amount(Items(s), g)
    OBVIOUS
  <2>3. /\ rows'[g] = rows[g] + (IF a = 0 THEN 0 ELSE 1)
        /\ result'[g] = IF a = 0 THEN result[g] ELSE a
    BY <1>6, <2>2
  <2>4. a = IF PartNr(g) = p THEN n ELSE 0
    BY <1>4, <2>1, <2>2
  <2>5. IF PartNr(g) \notin tasks
        THEN rows[g] = (IF n = 0 THEN 0 ELSE 1) /\ result[g] = n
        ELSE rows[g] = 0 /\ result[g] = 0
    BY <1>2, <2>1 DEF Done
  <2>6. PartNr(g) \in tasks' <=> PartNr(g) \in tasks /\ PartNr(g) # p
    BY <1>2
  <2>7. rows[g] \in Nat /\ result[g] \in Nat
    BY <1>5
  <2>8. CASE PartNr(g) = p
    BY <1>1, <2>1, <2>3, <2>4, <2>5, <2>6, <2>8
  <2>9. CASE PartNr(g) # p
    BY <2>1, <2>3, <2>4, <2>5, <2>6, <2>7, <2>9
  <2> QED
    BY <2>8, <2>9
<1>9. rows' \in [Groups -> Nat] /\ result' \in [Groups -> Nat]
  BY <1>6, <1>8
<1> QED
  BY <1>2, <1>7, <1>8, <1>9 DEF Done

\* Nothing of the result, nor of what it says, changes.
LEMMA QuietDone ==
  ASSUME Done, EndScan \/ EndMerge \/ Return \/ UNCHANGED vars
  PROVE  Done'
<1>1. CASE EndScan
  BY <1>1, EarlyDone DEF EndScan, outVars
<1>2. CASE EndMerge
  BY <1>2, EarlyDone DEF EndMerge
<1>3. CASE Return
  <2>1. /\ phase = "aggregate" /\ phase' = "returned"
        /\ UNCHANGED <<tasks, rows, result, deques>>
    BY <1>3 DEF Return, localVars, outVars
  <2>2. \A g : InDeques(g)' = InDeques(g)
    BY <2>1, DequesSame
  <2> QED
    BY <2>1, <2>2 DEF Done
<1>4. CASE UNCHANGED vars
  <2>1. UNCHANGED <<phase, tasks, rows, result, deques>>
    BY <1>4 DEF vars, localVars, outVars
  <2>2. \A g : InDeques(g)' = InDeques(g)
    BY <2>1, DequesSame
  <2> QED
    BY <2>1, <2>2 DEF Done
<1> QED
  BY <1>1, <1>2, <1>3, <1>4

LEMMA InitDone ==
  ASSUME Init
  PROVE  Done
<1>1. /\ phase = "scan"
      /\ rows = [g \in Groups |-> 0] /\ result = [g \in Groups |-> 0]
  BY InitFacts
<1> QED
  BY <1>1 DEF Done

LEMMA NextDone ==
  ASSUME TypeOK, Done, [Next]_vars
  PROVE  Done'
<1>1. ASSUME NEW t \in Threads, Thread(t)
      PROVE  Done'
  BY <1>1, WorkersDone, AggregateDone
<1>2. CASE Main
  BY <1>2, EndSpillDone, QuietDone DEF Main
<1>3. CASE UNCHANGED vars
  BY <1>3, QuietDone
<1> QED
  BY <1>1, <1>2, <1>3 DEF Next, Stop

-----------------------------------------------------------------------------
(* The invariant holds *)

\* Two threads that have merged into one table have done so for good.
LEMMA SharedStays ==
  ASSUME TypeOK, [Next]_vars, ~shared'
  PROVE  ~shared
<1>1. ASSUME NEW t \in Threads, Thread(t)
      PROVE  ~shared
  <2>1. CASE MergePartition(t)
    <3>1. \E x, p : shared' = (shared \/ (PartitionItems(data[x].partitions[p]) # <<>>
                                            /\ \E u \in Threads : task[u].of = owner[x]))
      BY <2>1 DEF MergePartition
    <3> QED
      BY <3>1
  <2>2. CASE ~MergePartition(t)
    <3>1. shared' = shared
      BY <1>1, <2>2 DEF Thread, ScanTask, ScanRow, MergeTable, Find, Update, SpillAll, Aggregate,
                        mergeVars
    <3> QED
      BY <3>1
  <2> QED
    BY <2>1, <2>2
<1>2. CASE Main \/ UNCHANGED vars
  <2>1. shared' = shared
    BY <1>2 DEF Main, EndScan, EndMerge, EndSpill, Return, mergeVars, vars
  <2> QED
    BY <2>1
<1> QED
  BY <1>1, <1>2 DEF Next, Stop

LEMMA NextApart ==
  ASSUME TypeOK, Apart, [Next]_vars, ~shared'
  PROVE  Apart'
<1>1. ASSUME NEW t \in Threads, Thread(t)
      PROVE  Apart'
  <2>1. CASE ScanTask(t) \/ MergeTable(t) \/ SpillAll(t)
    BY <2>1, ApartSame DEF ScanTask, MergeTable, SpillAll, mergeVars
  <2>2. CASE ScanRow(t) \/ MergePartition(t) \/ Find(t) \/ Update(t) \/ Aggregate(t)
    BY <2>2, ScanRowApart, MergePartitionApart, FindApart, UpdateApart, AggregateApart
  <2> QED
    BY <1>1, <2>1, <2>2 DEF Thread
<1>2. CASE Main \/ UNCHANGED vars
  <2>1. task' = task /\ entries' = entries
    BY <1>2 DEF Main, EndScan, EndMerge, EndSpill, Return, localVars, mergeVars, vars
  <2> QED
    BY <2>1, ApartSame
<1> QED
  BY <1>1, <1>2 DEF Next, Stop

LEMMA NextConserved ==
  ASSUME TypeOK, TypeOK', Apart, Apart', Conserved, [Next]_vars
  PROVE  Conserved'
<1>1. ASSUME NEW t \in Threads, Thread(t)
      PROVE  Conserved'
  BY <1>1, ScanTaskConserved, ScanRowConserved, MergeTableConserved, MergePartitionConserved,
     FindConserved, UpdateConserved, SpillAllConserved, AggregateConserved DEF Thread
<1>2. CASE Main
  BY <1>2, EndScanConserved, EndMergeConserved, EndSpillConserved, ReturnConserved DEF Main
<1>3. CASE UNCHANGED vars
  <2>1. UNCHANGED <<phase, tasks, entries, deques, task, data, owner, todo, key, left>>
    BY <1>3 DEF vars, rowVars, localVars, mergeVars, outVars
  <2>2. \A g \in Groups :
          /\ InTable(g)' = InTable(g) /\ InDeques(g)' = InDeques(g) /\ InTask(g)' = InTask(g)
          /\ InData(g)' = InData(g) /\ InRows(g)' = InRows(g) /\ Whole(g)' = Whole(g)
    BY <2>1, TableSame, DequesSame, TaskSame, DataSame, RowsSame
  <2> QED
    BY <2>2 DEF Conserved
<1> QED
  BY <1>1, <1>2, <1>3 DEF Next, Stop

\* The tables and containers are well-formed in every state, also if threads
\* merge into one table at a time: a stack's chunks are full but for the last,
\* an entry of a spill storage is in the partition of its hash, and a place that
\* a task has found is memory of the table, even after that was spilled.
THEOREM TypeCorrect == Spec => []TypeOK
<1>1. Init => TypeOK
  BY InitType
<1>2. TypeOK /\ [Next]_vars => TypeOK'
  BY NextType
<1> QED
  BY <1>1, <1>2, PTL DEF Spec

\* The inductive invariant: as long as no two threads have merged into one
\* table, no value of a row is lost or counted twice on its way from the scan
\* (getGroup) by the merge (findOrCreate) and spillAll to the result.
THEOREM Inductive == Spec => []Inv
<1>1. Init => Inv
  BY InitType, InitDone, InitApart, InitConserved DEF Inv
<1>2. Inv /\ [Next]_vars => Inv'
  <2> SUFFICES ASSUME Inv, [Next]_vars
               PROVE  Inv'
    OBVIOUS
  <2>1. TypeOK' /\ Done'
    BY NextType, NextDone DEF Inv
  <2>2. ASSUME ~shared'
        PROVE  Apart' /\ Conserved'
    <3>1. TypeOK /\ Apart /\ Conserved
      BY <2>2, SharedStays DEF Inv
    <3>2. Apart'
      BY <2>2, <3>1, NextApart
    <3> QED
      BY <2>1, <3>1, <3>2, NextConserved
  <2> QED
    BY <2>1, <2>2 DEF Inv
<1> QED
  BY <1>1, <1>2, PTL DEF Spec

\* forallGroups reads the number of partitions from the first spill storage
\* (GroupBy.hpp): there is one, because the thread that has got a row, or a
\* table of the vectorized half, has made one.
THEOREM DequeThere == Spec => []SomeDeque
<1>1. TypeOK => SomeDeque
  BY DEF TypeOK, SomeThread, SomeDeque
<1> QED
  BY <1>1, TypeCorrect, PTL

LEMMA VisitedOnce ==
  ASSUME NEW s, StackOK(s)
  PROVE  Cardinality(ToSet(Places(s))) = StackSize(s)
<1>1. PICK P : P = Places(s)
  OBVIOUS
<1>2. /\ Len(P) \in Nat /\ DOMAIN P = 1 .. Len(P) /\ Len(P) = StackSize(s)
      /\ \A i, j \in 1 .. Len(P) : P[i] = P[j] => i = j
  BY <1>1, StackPlaces DEF StackOK, Visited
<1>3. ToSet(P) = {P[i] : i \in 1 .. Len(P)}
  BY <1>2 DEF ToSet
<1> DEFINE f == [i \in 1 .. Len(P) |-> P[i]]
<1>4. f \in Bijection(1 .. Len(P), ToSet(P))
  <2>1. f \in [1 .. Len(P) -> ToSet(P)]
    BY <1>3
  <2>2. \A i, j \in 1 .. Len(P) : f[i] = f[j] => i = j
    BY <1>2
  <2>3. \A x \in ToSet(P) : \E i \in 1 .. Len(P) : f[i] = x
    BY <1>3
  <2> HIDE DEF f
  <2> QED
    BY <2>1, <2>2, <2>3 DEF Bijection, Injection, Surjection, IsInjective
<1>5. IsFiniteSet(1 .. Len(P)) /\ Cardinality(1 .. Len(P)) = Len(P)
  BY <1>2, FS_Interval
<1>6. Cardinality(ToSet(P)) = Cardinality(1 .. Len(P))
  BY <1>4, <1>5, FS_Bijection DEF ExistsBijection
<1> QED
  BY <1>1, <1>2, <1>5, <1>6

\* A hash table finds every entry of its stack once, and nothing else: after a
\* full table was spilled and cleared, and after grow has inserted the entries
\* of the stack again (GroupBy::grow, GroupBy.hpp).
THEOREM EntriesHeld == Spec => []TableHoldsEntries
<1>1. Inv => TableHoldsEntries
  <2> SUFFICES ASSUME Inv, ~shared, NEW t \in Threads
               PROVE  /\ linked[t] = ToSet(Places(entries[t]))
                      /\ Cardinality(linked[t]) = StackSize(entries[t])
                      /\ \A p, q \in linked[t] :
                           At(entries[t], p).k = At(entries[t], q).k => p = q
    BY DEF TableHoldsEntries
  <2>1. PICK s : s = entries[t]
    OBVIOUS
  <2>2. StackOK(s) /\ linked[t] = ToSet(Places(s)) /\ KeysApart(Items(s))
    BY <2>1 DEF Inv, TypeOK, LocalsOK, Apart
  <2>3. ASSUME NEW p \in linked[t], NEW q \in linked[t], At(s, p).k = At(s, q).k
        PROVE  p = q
    <3>1. /\ Len(Items(s)) = Len(Places(s)) /\ DOMAIN Places(s) = 1 .. Len(Places(s))
          /\ \A j \in 1 .. Len(Items(s)) : Items(s)[j] = At(s, Places(s)[j])
      BY <2>2, StackItems, StackPlaces
    <3>2. PICK i \in 1 .. Len(Places(s)) : p = Places(s)[i]
      BY <2>2, <3>1 DEF ToSet
    <3>3. PICK j \in 1 .. Len(Places(s)) : q = Places(s)[j]
      BY <2>2, <3>1 DEF ToSet
    <3>4. Items(s)[i].k = Items(s)[j].k
      BY <2>3, <3>1, <3>2, <3>3
    <3>5. i = j
      BY <2>2, <3>1, <3>4 DEF KeysApart
    <3> QED
      BY <3>2, <3>3, <3>5
  <2> QED
    BY <2>1, <2>2, <2>3, VisitedOnce
<1> QED
  BY <1>1, Inductive, PTL

\* The last loop has taken everything from the spill storages.
LEMMA AllInDeques ==
  ASSUME TypeOK, Conserved, phase = "returned", NEW g \in Groups
  PROVE  Total(Threads, InDeques(g)) = Whole(g)
<1>1. IsFiniteSet(Threads) /\ IsFiniteSet(twTables)
  BY GroupByAssumption
<1>2. TotalsOK
  BY TotalsType
<1>3. Total(Threads, InTable(g)) = 0
  <2>1. \A t \in Threads : InTable(g)[t] = 0
    BY DEF InTable
  <2> QED
    BY <1>1, <1>2, <2>1, TotalZero DEF TotalsOK
<1>4. Total(Threads, InTask(g)) = 0
  <2>1. \A t \in Threads : task[t].left = <<>>
    BY Idle DEF TypeOK, NoTask
  <2>2. Amount(<<>>, g) = 0
    BY AmountEmpty
  <2>3. \A t \in Threads : InTask(g)[t] = 0
    BY <2>1, <2>2 DEF InTask
  <2> QED
    BY <1>1, <1>2, <2>3, TotalZero DEF TotalsOK
<1>5. Total(twTables, InData(g)) = 0
  <2>1. \A x \in twTables : x \in DOMAIN owner /\ todo[x] = {}
    BY DEF TypeOK, PhaseOK
  <2>2. \A x \in twTables : InData(g)[x] = 0
    BY <2>1 DEF InData
  <2> QED
    BY <1>1, <1>2, <2>2, TotalZero DEF TotalsOK
<1>6. InRows(g) = 0
  <2>1. {r \in left : key[r] = g} = {}
    BY DEF TypeOK, PhaseOK
  <2> QED
    BY <2>1, SumOverEmpty DEF InRows
<1>7. Total(Threads, InTable(g)) + Total(Threads, InDeques(g)) + Total(Threads, InTask(g))
        + Total(twTables, InData(g)) + InRows(g) = Whole(g)
  BY DEF Conserved
<1>8. Total(Threads, InDeques(g)) \in Nat
  BY <1>2 DEF TotalsOK
<1> QED
  BY <1>3, <1>4, <1>5, <1>6, <1>7, <1>8

\* The answer is exact, for any number of threads, rows and groups, however
\* tasks are given to threads, whenever tables are spilled, and whatever the
\* sizes of chunks, unless two threads have merged into one table (consume,
\* spillAll and forallGroups of GroupBy.hpp).
THEOREM AnswerExact == Spec => []GroupsExact
<1>1. Inv => GroupsExact
  <2> SUFFICES ASSUME Inv, phase = "returned", ~shared, NEW g \in Groups
               PROVE  /\ rows[g] = IF \E r \in Rows : key[r] = g THEN 1 ELSE 0
                      /\ result[g] = SumOver({r \in Rows : key[r] = g})
    BY DEF GroupsExact
  <2>1. PICK S : S = {r \in Rows : key[r] = g}
    OBVIOUS
  <2>2. Total(Threads, InDeques(g)) = SumOver(S)
    BY <2>1, AllInDeques DEF Inv, Whole
  <2>3. PartNr(g) \notin tasks
    BY DEF Inv, TypeOK, PhaseOK
  <2>4. rows[g] = (IF SumOver(S) = 0 THEN 0 ELSE 1) /\ result[g] = SumOver(S)
    BY <2>2, <2>3 DEF Inv, Done
  <2>5. SumOver(S) # 0 <=> \E r \in Rows : key[r] = g
    BY <2>1, SumOverPresent
  <2> QED
    BY <2>1, <2>4, <2>5
<1> QED
  BY <1>1, Inductive, PTL
=============================================================================
