----------------------------- MODULE DataLemmas -----------------------------
(***************************************************************************)
(* Lemmas about natural numbers and sequences that the proofs about        *)
(* several components rest on.                                             *)
(***************************************************************************)
EXTENDS Integers, Sequences, FiniteSets, SequencesExt, FiniteSetsExt,
        FiniteSetTheorems, SequenceTheorems, NaturalsInduction, TLAPS

---------------------------------------------------------------------------
(* Natural numbers.                                                         *)

\* A set of natural numbers has a least one.
LEMMA LeastOf ==
  ASSUME NEW T \in SUBSET Nat, T # {}
  PROVE  \E x \in T : \A y \in T : x <= y
<1> DEFINE R == OpToRel(<, Nat)
<1>1. \A x, y \in Nat : x < y => <<x, y>> \in R
  BY DEF OpToRel
<1>2. PICK x \in T : \A y \in T : ~(<<y, x>> \in R)
  <2> HIDE DEF R
  <2> QED BY WFMin, NatLessThanWellFounded DEF R
<1>3. \A y \in T : ~(y < x)
  BY <1>1, <1>2
<1> QED BY <1>3

\* Induction, for a set of natural numbers.
LEMMA AllNaturals ==
  ASSUME NEW T, 0 \in T, \A n \in Nat : n \in T => n + 1 \in T
  PROVE  Nat \subseteq T
<1> SUFFICES ASSUME Nat \ T # {} PROVE FALSE
  OBVIOUS
<1>1. PICK x \in Nat \ T : \A y \in Nat \ T : x <= y
  BY LeastOf
<1>2. x - 1 \in Nat /\ x - 1 \notin Nat \ T /\ (x - 1) + 1 = x
  BY <1>1
<1> QED BY <1>1, <1>2

\* The places of a queue have a last one: Max is that.
LEMMA MaxOfPlaces ==
  ASSUME NEW n \in Nat, NEW I \in SUBSET (1..n), I # {}
  PROVE  Max(I) \in I /\ \A j \in I : j <= Max(I)
<1> DEFINE T == {k \in Nat : n - k \in I}
<1>1. T # {}
  <2>1. PICK i \in I : TRUE
    OBVIOUS
  <2>2. n - i \in Nat /\ n - (n - i) = i
    BY <2>1
  <2> QED BY <2>1, <2>2
<1>2. PICK x \in T : \A y \in T : x <= y
  <2> HIDE DEF T
  <2>1. T \in SUBSET Nat
    BY DEF T
  <2> QED BY <1>1, <2>1, LeastOf
<1>3. ASSUME NEW j \in I PROVE j <= n - x
  <2>1. n - j \in T
    OBVIOUS
  <2> QED BY <1>2, <2>1
<1>4. n - x \in I /\ \A j \in I : n - x >= j
  BY <1>3
<1> QED BY <1>4 DEF Max

---------------------------------------------------------------------------
(* Sequences.                                                               *)

\* The least of some places: Min is that.
LEMMA MinOfPlaces ==
  ASSUME NEW I \in SUBSET Nat, I # {}
  PROVE  Min(I) \in I /\ \A j \in I : Min(I) <= j
<1>1. PICK x \in I : \A y \in I : x <= y
  BY LeastOf
<1> QED BY <1>1 DEF Min

\* A sequence of different elements is as long as its set.
LEMMA DifferentElements ==
  ASSUME NEW S, NEW s \in Seq(S), \A i, j \in 1..Len(s) : s[i] = s[j] => i = j
  PROVE  Cardinality(ToSet(s)) = Len(s)
<1>1. Len(s) \in Nat /\ s \in [1..Len(s) -> S] /\ DOMAIN s = 1..Len(s)
  BY LenProperties
<1>2. s \in [1..Len(s) -> ToSet(s)]
  BY <1>1 DEF ToSet
<1>3. s \in Bijection(1..Len(s), ToSet(s))
  BY <1>1, <1>2 DEF Bijection, Injection, Surjection, IsInjective, ToSet
<1>4. ExistsBijection(1..Len(s), ToSet(s))
  BY <1>3 DEF ExistsBijection
<1> QED BY <1>1, <1>4, FS_CountingElements

LEMMA Inserted ==
  ASSUME NEW S, NEW s \in Seq(S), NEW e \in S, NEW i \in 1..Len(s) + 1,
         NEW q, q = InsertAt(s, i, e)
  PROVE  /\ q \in Seq(S) /\ Len(q) = Len(s) + 1
         /\ \A k \in 1..i - 1 : q[k] = s[k]
         /\ q[i] = e
         /\ \A k \in i + 1..Len(s) + 1 : q[k] = s[k - 1]
<1> DEFINE a == SubSeq(s, 1, i - 1)
           b == SubSeq(s, i, Len(s))
<1>1. /\ a \in Seq(S) /\ Len(a) = i - 1 /\ \A k \in 1..i - 1 : a[k] = s[k]
      /\ b \in Seq(S) /\ Len(b) = Len(s) - i + 1
      /\ \A k \in 1..Len(s) - i + 1 : b[k] = s[i + k - 1]
  OBVIOUS
<1>2. q = (a \o <<e>>) \o b
  BY DEF InsertAt
<1> HIDE DEF a, b
<1>3. /\ a \o <<e>> \in Seq(S) /\ Len(a \o <<e>>) = i
      /\ \A k \in 1..i - 1 : (a \o <<e>>)[k] = s[k]
      /\ (a \o <<e>>)[i] = e
  BY <1>1
<1> DEFINE c == a \o <<e>>
<1> HIDE DEF c
<1>4. /\ c \in Seq(S) /\ Len(c) = i /\ q = c \o b
      /\ \A k \in 1..i - 1 : c[k] = s[k]
      /\ c[i] = e
  BY <1>2, <1>3 DEF c
<1>5. /\ q \in Seq(S) /\ Len(q) = Len(s) + 1
      /\ \A k \in 1..i : q[k] = c[k]
      /\ \A k \in i + 1..Len(s) + 1 : q[k] = b[k - i]
  BY <1>1, <1>4
<1>6. \A k \in i + 1..Len(s) + 1 : b[k - i] = s[k - 1]
  BY <1>1
<1> QED BY <1>4, <1>5, <1>6

LEMMA Removed ==
  ASSUME NEW S, NEW s \in Seq(S), NEW i \in 1..Len(s), NEW q, q = RemoveAt(s, i)
  PROVE  /\ q \in Seq(S) /\ Len(q) = Len(s) - 1
         /\ \A k \in 1..i - 1 : q[k] = s[k]
         /\ \A k \in i..Len(s) - 1 : q[k] = s[k + 1]
<1> DEFINE a == SubSeq(s, 1, i - 1)
           b == SubSeq(s, i + 1, Len(s))
<1>1. /\ a \in Seq(S) /\ Len(a) = i - 1 /\ \A k \in 1..i - 1 : a[k] = s[k]
      /\ b \in Seq(S) /\ Len(b) = Len(s) - i
      /\ \A k \in 1..Len(s) - i : b[k] = s[i + k]
  OBVIOUS
<1>2. q = a \o b
  BY DEF RemoveAt
<1> HIDE DEF a, b
<1>3. /\ q \in Seq(S) /\ Len(q) = Len(s) - 1
      /\ \A k \in 1..i - 1 : q[k] = a[k]
      /\ \A k \in i..Len(s) - 1 : q[k] = b[k - i + 1]
  <2>1. q \in Seq(S) /\ Len(q) = Len(a) + Len(b) /\ Len(q) = Len(s) - 1
    <3>1. q \in Seq(S) /\ Len(q) = Len(a) + Len(b)
      BY <1>1, <1>2, ConcatProperties
    <3>2. Len(s) \in Nat /\ i \in Int
      OBVIOUS
    <3> QED BY <1>1, <3>1, <3>2
  <2>2. ASSUME NEW k \in 1..i - 1
        PROVE  q[k] = a[k]
    BY <1>1, <1>2
  <2>3. ASSUME NEW k \in i..Len(s) - 1
        PROVE  q[k] = b[k - i + 1]
    <3>1. k \in Len(a) + 1..Len(a) + Len(b) /\ k - Len(a) = k - i + 1
      BY <1>1
    <3>2. q[k] = b[k - Len(a)]
      BY <1>1, <1>2, <3>1
    <3> QED BY <3>1, <3>2
  <2> QED BY <2>1, <2>2, <2>3
<1>4. \A k \in i..Len(s) - 1 : b[k - i + 1] = s[k + 1]
  BY <1>1
<1> QED BY <1>1, <1>3, <1>4

---------------------------------------------------------------------------
(* Sums along a sequence.                                                   *)

\* A recursive sum over the first n numbers has a value.
LEMMA SumsExist ==
  ASSUME NEW e, NEW n \in Nat
  PROVE  \E sum : sum = [i \in 1..n |-> IF i = 1 THEN 0 ELSE sum[i - 1] + e[i]]
<1> DEFINE T == {m \in Nat : \E sum : sum = [i \in 1..m |-> IF i = 1 THEN 0 ELSE sum[i - 1] + e[i]]}
<1>1. 0 \in T
  <2> DEFINE z == [i \in 1..0 |-> 0]
  <2>1. z = [i \in 1..0 |-> IF i = 1 THEN 0 ELSE z[i - 1] + e[i]]
    OBVIOUS
  <2> QED BY <2>1
<1>2. ASSUME NEW m \in Nat, m \in T
      PROVE  m + 1 \in T
  <2>1. PICK sum : sum = [i \in 1..m |-> IF i = 1 THEN 0 ELSE sum[i - 1] + e[i]]
    BY <1>2
  <2> DEFINE z == [i \in 1..m + 1 |-> IF i = 1 THEN 0 ELSE sum[i - 1] + e[i]]
  <2>2. \A i \in 1..m : z[i] = sum[i]
    BY <2>1
  <2>3. \A i \in 1..m + 1 : z[i] = (IF i = 1 THEN 0 ELSE z[i - 1] + e[i])
    <3>1. \A i \in 1..m + 1 : i # 1 => i - 1 \in 1..m
      OBVIOUS
    <3> QED BY <2>2, <3>1
  <2>4. z = [i \in 1..m + 1 |-> IF i = 1 THEN 0 ELSE z[i - 1] + e[i]]
    <3>1. z = [i \in 1..m + 1 |-> z[i]]
      OBVIOUS
    <3> HIDE DEF z
    <3> QED BY <2>3, <3>1
  <2> HIDE DEF z
  <2> QED BY <2>4
<1> HIDE DEF T
<1>3. n \in T
  BY <1>1, <1>2, AllNaturals
<1> QED BY <1>3 DEF T

---------------------------------------------------------------------------
(* Lists without doublets.                                                  *)

Distinct(s) == \A i, j \in 1..Len(s) : s[i] = s[j] => i = j

\* q is a list of the elements of s and e, or of those of s but e.
Adds(q, s, e) == \A x : x \in ToSet(q) <=> x \in ToSet(s) \/ x = e
Drops(q, s, e) == \A x : x \in ToSet(q) <=> x \in ToSet(s) /\ x # e

LEMMA ElementsOf ==
  ASSUME NEW S, NEW s \in Seq(S)
  PROVE  /\ \A x : x \in ToSet(s) <=> \E i \in 1..Len(s) : s[i] = x
         /\ ToSet(s) \subseteq S
  BY DEF ToSet

LEMMA Prepended ==
  ASSUME NEW S, NEW s \in Seq(S), Distinct(s), NEW e \in S, e \notin ToSet(s),
         NEW q, q = <<e>> \o s
  PROVE  /\ q \in Seq(S) /\ Len(q) = Len(s) + 1 /\ q # <<>>
         /\ q[1] = e /\ \A k \in 2..Len(s) + 1 : q[k] = s[k - 1]
         /\ Distinct(q) /\ Adds(q, s, e)
<1>1. /\ q \in Seq(S) /\ Len(q) = Len(s) + 1 /\ q # <<>>
      /\ q[1] = e /\ \A k \in 2..Len(s) + 1 : q[k] = s[k - 1]
  OBVIOUS
<1>2. \A i \in 1..Len(s) : s[i] # e
  BY ElementsOf
<1>3. Distinct(q)
  <2> SUFFICES ASSUME NEW i \in 1..Len(q), NEW j \in 1..Len(q), q[i] = q[j] PROVE i = j
    BY DEF Distinct
  <2>1. CASE i = 1 /\ j = 1
    BY <2>1
  <2>2. CASE i = 1 /\ j # 1
    <3>1. q[i] = e /\ q[j] = s[j - 1] /\ j - 1 \in 1..Len(s)
      BY <1>1, <2>2
    <3> QED BY <1>2, <3>1
  <2>3. CASE i # 1 /\ j = 1
    <3>1. q[j] = e /\ q[i] = s[i - 1] /\ i - 1 \in 1..Len(s)
      BY <1>1, <2>3
    <3> QED BY <1>2, <3>1
  <2>4. CASE i # 1 /\ j # 1
    <3>1. /\ q[i] = s[i - 1] /\ q[j] = s[j - 1]
          /\ i - 1 \in 1..Len(s) /\ j - 1 \in 1..Len(s)
      BY <1>1, <2>4
    <3>2. i - 1 = j - 1
      BY <3>1 DEF Distinct
    <3> QED BY <3>2
  <2> QED BY <2>1, <2>2, <2>3, <2>4
<1>4. ASSUME NEW x
      PROVE  x \in ToSet(q) <=> x \in ToSet(s) \/ x = e
  <2>1. ASSUME NEW i \in 1..Len(q) PROVE q[i] \in ToSet(s) \/ q[i] = e
    BY <1>1, ElementsOf
  <2>2. ASSUME NEW i \in 1..Len(s) PROVE s[i] \in ToSet(q)
    <3>1. i + 1 \in 1..Len(q) /\ q[i + 1] = s[i]
      BY <1>1
    <3> QED BY <1>1, <3>1, ElementsOf
  <2>3. e \in ToSet(q)
    <3>1. 1 \in 1..Len(q) /\ q[1] = e /\ q \in Seq(S)
      BY <1>1
    <3> QED BY <3>1, ElementsOf
  <2>4. x \in ToSet(q) <=> \E i \in 1..Len(q) : q[i] = x
    <3>1. q \in Seq(S)
      BY <1>1
    <3> QED BY <3>1, ElementsOf, Zenon
  <2>5. x \in ToSet(s) <=> \E i \in 1..Len(s) : s[i] = x
    BY ElementsOf, Zenon
  <2> QED BY <2>1, <2>2, <2>3, <2>4, <2>5
<1> QED BY <1>1, <1>3, <1>4 DEF Adds

LEMMA InsertedInto ==
  ASSUME NEW S, NEW s \in Seq(S), Distinct(s), NEW e \in S, e \notin ToSet(s),
         NEW i \in 1..Len(s) + 1, NEW q, q = InsertAt(s, i, e)
  PROVE  Distinct(q) /\ Adds(q, s, e)
<1>1. /\ q \in Seq(S) /\ Len(q) = Len(s) + 1
      /\ \A k \in 1..i - 1 : q[k] = s[k]
      /\ q[i] = e
      /\ \A k \in i + 1..Len(s) + 1 : q[k] = s[k - 1]
  BY Inserted, SMTT(30)
<1>2. \A j \in 1..Len(s) : s[j] # e
  BY ElementsOf
\* Where an element of q comes from.
<1> DEFINE from(k) == IF k < i THEN k ELSE k - 1
<1>3. ASSUME NEW k \in 1..Len(q), k # i
      PROVE  from(k) \in 1..Len(s) /\ q[k] = s[from(k)]
  <2>1. CASE k < i
    <3>1. k \in 1..i - 1 /\ k \in 1..Len(s)
      BY <2>1
    <3> QED BY <1>1, <2>1, <3>1
  <2>2. CASE k > i
    <3>1. k \in i + 1..Len(s) + 1 /\ k - 1 \in 1..Len(s) /\ ~(k < i)
      BY <1>1, <2>2
    <3> QED BY <1>1, <3>1
  <2> QED BY <1>3, <2>1, <2>2
<1>4. Distinct(q)
  <2> SUFFICES ASSUME NEW k \in 1..Len(q), NEW j \in 1..Len(q), q[k] = q[j] PROVE k = j
    BY DEF Distinct
  <2>1. ASSUME NEW m \in 1..Len(q), m # i PROVE q[m] # e
    <3> HIDE DEF from
    <3> QED BY <1>2, <1>3, <2>1
  <2>3. CASE k = i \/ j = i
    BY <1>1, <2>1, <2>3
  <2>2. CASE k # i /\ j # i
    <3>1. from(k) = from(j)
      <4> HIDE DEF from
      <4> QED BY <1>3, <2>2 DEF Distinct
    <3> QED BY <2>2, <3>1
  <2> QED BY <2>2, <2>3
<1>5. ASSUME NEW x
      PROVE  x \in ToSet(q) <=> x \in ToSet(s) \/ x = e
  <2>1. ASSUME NEW k \in 1..Len(q) PROVE q[k] \in ToSet(s) \/ q[k] = e
    <3> HIDE DEF from
    <3> QED BY <1>1, <1>3, ElementsOf
  <2>2. ASSUME NEW k \in 1..Len(s) PROVE s[k] \in ToSet(q)
    <3>1. \/ k \in 1..i - 1 /\ k \in 1..Len(q)
          \/ k + 1 \in i + 1..Len(s) + 1 /\ k + 1 \in 1..Len(q) /\ (k + 1) - 1 = k
      BY <1>1
    <3>2. \/ q[k] = s[k] /\ k \in 1..Len(q)
          \/ q[k + 1] = s[k] /\ k + 1 \in 1..Len(q)
      BY <1>1, <3>1
    <3> QED BY <1>1, <3>2, ElementsOf, SMTT(30)
  <2>3. e \in ToSet(q)
    <3>1. i \in 1..Len(q) /\ q[i] = e /\ q \in Seq(S)
      BY <1>1
    <3> QED BY <3>1, ElementsOf
  <2>4. x \in ToSet(q) <=> \E k \in 1..Len(q) : q[k] = x
    <3>1. q \in Seq(S)
      BY <1>1
    <3> QED BY <3>1, ElementsOf, Zenon
  <2>5. x \in ToSet(s) <=> \E k \in 1..Len(s) : s[k] = x
    BY ElementsOf, Zenon
  <2> QED BY <2>1, <2>2, <2>3, <2>4, <2>5
<1> QED BY <1>4, <1>5 DEF Adds

LEMMA RemovedFrom ==
  ASSUME NEW S, NEW s \in Seq(S), Distinct(s), NEW i \in 1..Len(s),
         NEW q, q = RemoveAt(s, i)
  PROVE  Distinct(q) /\ Drops(q, s, s[i])
<1>1. /\ q \in Seq(S) /\ Len(q) = Len(s) - 1
      /\ \A k \in 1..i - 1 : q[k] = s[k]
      /\ \A k \in i..Len(s) - 1 : q[k] = s[k + 1]
  BY Removed
\* Where an element of q comes from.
<1> DEFINE from(k) == IF k < i THEN k ELSE k + 1
<1>2. ASSUME NEW k \in 1..Len(q)
      PROVE  from(k) \in 1..Len(s) /\ from(k) # i /\ q[k] = s[from(k)]
  <2>1. CASE k < i
    <3>1. k \in 1..i - 1 /\ k \in 1..Len(s)
      BY <2>1
    <3> QED BY <1>1, <2>1, <3>1
  <2>2. CASE ~(k < i)
    <3>1. k \in i..Len(s) - 1 /\ k + 1 \in 1..Len(s) /\ k + 1 # i
      BY <1>1, <2>2
    <3> QED BY <1>1, <2>2, <3>1
  <2> QED BY <2>1, <2>2
<1>3. Distinct(q)
  <2> SUFFICES ASSUME NEW k \in 1..Len(q), NEW j \in 1..Len(q), q[k] = q[j] PROVE k = j
    BY DEF Distinct
  <2>1. from(k) = from(j)
    <3> HIDE DEF from
    <3> QED BY <1>2 DEF Distinct
  <2> QED BY <2>1
<1>4. ASSUME NEW x
      PROVE  x \in ToSet(q) <=> x \in ToSet(s) /\ x # s[i]
  <2>1. ASSUME NEW k \in 1..Len(q) PROVE q[k] \in ToSet(s) /\ q[k] # s[i]
    <3> DEFINE f == from(k)
    <3>1. f \in 1..Len(s) /\ f # i /\ q[k] = s[f]
      BY <1>2
    <3> HIDE DEF f
    <3>2. s[f] # s[i]
      BY <3>1 DEF Distinct
    <3>3. s[f] \in ToSet(s)
      BY <3>1, ElementsOf
    <3> QED BY <3>1, <3>2, <3>3, Zenon
  <2>2. ASSUME NEW k \in 1..Len(s), k # i PROVE s[k] \in ToSet(q)
    <3>1. \/ k \in 1..i - 1 /\ k \in 1..Len(q)
          \/ k - 1 \in i..Len(s) - 1 /\ k - 1 \in 1..Len(q) /\ (k - 1) + 1 = k
      BY <1>1, <2>2
    <3>2. \/ q[k] = s[k] /\ k \in 1..Len(q)
          \/ q[k - 1] = s[k] /\ k - 1 \in 1..Len(q)
      BY <1>1, <3>1
    <3> QED BY <1>1, <3>2, ElementsOf
  <2>3. x \in ToSet(q) <=> \E k \in 1..Len(q) : q[k] = x
    <3>1. q \in Seq(S)
      BY <1>1
    <3> QED BY <3>1, ElementsOf, Zenon
  <2>4. x \in ToSet(s) <=> \E k \in 1..Len(s) : s[k] = x
    BY ElementsOf, Zenon
  <2> QED BY <2>1, <2>2, <2>3, <2>4
<1> QED BY <1>3, <1>4 DEF Drops

Spans(q, s, i, j) == \A x : x \in ToSet(q) <=> \E k \in i..j : s[k] = x

\* The part of a list from place n + 1 to place n + m.
LEMMA PartOf ==
  ASSUME NEW S, NEW s \in Seq(S), Distinct(s), NEW n \in Nat, NEW m \in Nat, n + m <= Len(s),
         NEW q \in Seq(S), Len(q) = m, \A k \in 1..m : q[k] = s[n + k]
  PROVE  Distinct(q) /\ Spans(q, s, n + 1, n + m)
<1>1. Distinct(q)
  <2> SUFFICES ASSUME NEW k \in 1..m, NEW j \in 1..m, q[k] = q[j] PROVE k = j
    BY DEF Distinct
  <2>1. n + k \in 1..Len(s) /\ n + j \in 1..Len(s) /\ s[n + k] = s[n + j]
    OBVIOUS
  <2>2. n + k = n + j
    BY <2>1 DEF Distinct
  <2> QED BY <2>2
<1>2. ASSUME NEW x
      PROVE  x \in ToSet(q) <=> \E k \in n + 1..n + m : s[k] = x
  <2>1. x \in ToSet(q) <=> \E k \in 1..m : q[k] = x
    BY ElementsOf, Zenon
  <2>2. ASSUME NEW k \in 1..m, q[k] = x PROVE \E j \in n + 1..n + m : s[j] = x
    <3>1. n + k \in n + 1..n + m /\ s[n + k] = x
      BY <2>2
    <3> QED BY <3>1
  <2>3. ASSUME NEW k \in n + 1..n + m, s[k] = x PROVE \E j \in 1..m : q[j] = x
    <3>1. k - n \in 1..m /\ n + (k - n) = k
      OBVIOUS
    <3>2. q[k - n] = x
      BY <2>3, <3>1
    <3> QED BY <3>1, <3>2
  <2> QED BY <2>1, <2>2, <2>3
<1> QED BY <1>1, <1>2 DEF Spans

LEMMA TailOf ==
  ASSUME NEW S, NEW s \in Seq(S), Distinct(s), s # <<>>, NEW q, q = Tail(s)
  PROVE  /\ q \in Seq(S) /\ Len(q) = Len(s) - 1 /\ \A k \in 1..Len(q) : q[k] = s[k + 1]
         /\ Distinct(q) /\ Drops(q, s, s[1])
<1>1. /\ q \in Seq(S) /\ Len(q) = Len(s) - 1 /\ Len(s) \in Nat \ {0}
      /\ \A k \in 1..Len(q) : q[k] = s[k + 1] /\ q[k] = s[1 + k]
  OBVIOUS
<1>2. Distinct(q) /\ \A x : x \in ToSet(q) <=> \E k \in 2..Len(s) : s[k] = x
  <2> DEFINE n == 1
             m == Len(q)
  <2>1. n \in Nat /\ m \in Nat /\ n + m <= Len(s) /\ Len(q) = m
        /\ q \in Seq(S) /\ \A k \in 1..m : q[k] = s[n + k]
    BY <1>1
  <2>2. n + 1 = 2 /\ n + m = Len(s)
    BY <1>1
  <2> HIDE DEF n, m
  <2>3. Distinct(q) /\ Spans(q, s, n + 1, n + m)
    BY <2>1, PartOf
  <2> QED BY <2>2, <2>3, Zenon DEF Spans
<1>3. ASSUME NEW x
      PROVE  x \in ToSet(q) <=> x \in ToSet(s) /\ x # s[1]
  <2>1. x \in ToSet(s) <=> \E k \in 1..Len(s) : s[k] = x
    BY ElementsOf, Zenon
  <2>2. \A k \in 1..Len(s) : k \in 2..Len(s) <=> s[k] # s[1]
    BY <1>1 DEF Distinct
  <2>3. 2..Len(s) \subseteq 1..Len(s)
    OBVIOUS
  <2>4. ASSUME x \in ToSet(q) PROVE x \in ToSet(s) /\ x # s[1]
    <3>1. PICK k \in 2..Len(s) : s[k] = x
      BY <1>2, <2>4, Zenon
    <3>2. k \in 1..Len(s)
      BY <2>3, <3>1, Zenon
    <3>3. s[k] # s[1]
      BY <2>2, <3>2
    <3> QED BY <2>1, <3>1, <3>2, <3>3
  <2>5. ASSUME x \in ToSet(s), x # s[1] PROVE x \in ToSet(q)
    <3>1. PICK k \in 1..Len(s) : s[k] = x
      BY <2>1, <2>5, Zenon
    <3>2. k \in 2..Len(s)
      BY <2>2, <2>5, <3>1
    <3> QED BY <1>2, <3>1, <3>2, Zenon
  <2> QED BY <2>4, <2>5
<1> QED BY <1>1, <1>2, <1>3 DEF Drops
=============================================================================
