------------------------ MODULE NorflashReads_proofs ------------------------
(***************************************************************************)
(* Proofs about what NorflashApi keeps in its queues: the nodes and        *)
(* buffers it counts, and the contents its readers see.                    *)
(***************************************************************************)
EXTENDS NorflashApi_proofs, DataLemmas

-----------------------------------------------------------------------------
(***************************************************************************)
(* A list without one of its nodes.                                        *)
(***************************************************************************)

\* The places of the other nodes, in the list they are left in and before.
Back(i, k) == IF k < i THEN k ELSE k + 1

IsWithout(r, q, i) ==
  /\ r \in Seq(Nodes) /\ Len(r) = Len(q) - 1
  /\ \A k \in 1..Len(r) : r[k] = q[Back(i, k)]

\* _opera_del takes out one node.
LEMMA RemoveIndexIs ==
  ASSUME NEW q \in Seq(Nodes), NEW i \in 1..Len(q), NEW r, r = RemoveIndex(q, i)
  PROVE  IsWithout(r, q, i)
<1>1. r = RemoveAt(q, i)
  BY DEF RemoveIndex, RemoveAt
<1>2. /\ r \in Seq(Nodes) /\ Len(r) = Len(q) - 1
      /\ \A k \in 1..i - 1 : r[k] = q[k]
      /\ \A k \in i..Len(q) - 1 : r[k] = q[k + 1]
  BY ONLY <1>1, q \in Seq(Nodes), i \in 1..Len(q), Removed
<1>3. \A k \in 1..Len(r) : r[k] = q[Back(i, k)]
  <2>1. Len(q) \in Nat /\ i \in Nat
    OBVIOUS
  <2> QED BY <1>2, <2>1 DEF Back
<1> QED BY <1>2, <1>3 DEF IsWithout

\* Of the oldest node.
LEMMA TailIs ==
  ASSUME NEW q \in Seq(Nodes), q # <<>>, NEW r, r = Tail(q)
  PROVE  IsWithout(r, q, 1)
BY DEF IsWithout, Back

LEMMA BackIs ==
  ASSUME NEW n \in Nat, NEW i \in 1..n, NEW p, p = n - 1
  PROVE  /\ \A k \in 1..p : Back(i, k) \in 1..n /\ Back(i, k) # i
         /\ \A j, k \in 1..p : j < k <=> Back(i, j) < Back(i, k)
         /\ \A l \in 1..n : l # i => \E k \in 1..p : Back(i, k) = l
<1>1. /\ \A k \in 1..p : Back(i, k) \in 1..n /\ Back(i, k) # i
      /\ \A j, k \in 1..p : j < k <=> Back(i, j) < Back(i, k)
  BY DEF Back
<1>2. ASSUME NEW l \in 1..n, l # i PROVE \E k \in 1..p : Back(i, k) = l
  <2>1. CASE l < i
    BY <2>1 DEF Back
  <2>2. CASE l > i
    <3>1. l - 1 \in 1..p /\ Back(i, l - 1) = l
      BY <2>2 DEF Back
    <3> QED BY <3>1
  <2> QED BY <1>2, <2>1, <2>2
<1> QED BY <1>1, <1>2

\* The write buffers of a list.
LEMMA WritesFinite ==
  ASSUME NEW q \in Seq(Nodes)
  PROVE  IsFiniteSet(Writes(q)) /\ Cardinality(Writes(q)) \in Nat
<1>1. IsFiniteSet(1..Len(q))
  BY FS_Interval
<1>2. Writes(q) \in SUBSET (1..Len(q))
  BY DEF Writes
<1> QED BY <1>1, <1>2, FS_Subset, FS_CardinalityType

\* A list without a node has one write buffer less if it was a write.
LEMMA WithoutWrites ==
  ASSUME NEW q \in Seq(Nodes), NEW i \in 1..Len(q), NEW r, IsWithout(r, q, i)
  PROVE  Cardinality(Writes(r)) =
           Cardinality(Writes(q)) - (IF q[i].type = "WRITTING" THEN 1 ELSE 0)
<1>1. /\ r \in Seq(Nodes) /\ Len(r) = Len(q) - 1 /\ Len(q) \in Nat
      /\ \A k \in 1..Len(r) : r[k] = q[Back(i, k)]
  BY DEF IsWithout
<1>2. /\ \A k \in 1..Len(r) : Back(i, k) \in 1..Len(q) /\ Back(i, k) # i
      /\ \A j, k \in 1..Len(r) : j < k <=> Back(i, j) < Back(i, k)
      /\ \A l \in 1..Len(q) : l # i => \E k \in 1..Len(r) : Back(i, k) = l
  BY ONLY <1>1, i \in 1..Len(q), BackIs
<1> DEFINE V == Writes(r)
           W == Writes(q) \ {i}
           f == [k \in V |-> Back(i, k)]
<1>3. \A k \in 1..Len(r) : k \in V <=> Back(i, k) \in W
  BY <1>1, <1>2 DEF Writes
<1>4. V \subseteq 1..Len(r) /\ W \subseteq 1..Len(q) /\ i \notin W
  BY DEF Writes
<1>5. f \in Bijection(V, W)
  <2>1. f \in [V -> W]
    BY <1>3, <1>4
  <2>2. \A j, k \in V : f[j] = f[k] => j = k
    <3>1. ASSUME NEW j \in V, NEW k \in V, Back(i, j) = Back(i, k) PROVE j = k
      <4>1. j \in 1..Len(r) /\ k \in 1..Len(r)
        BY <1>4
      <4> QED BY <1>1, <1>2, <3>1, <4>1 DEF Back
    <3> QED BY <3>1
  <2>3. \A l \in W : \E k \in V : f[k] = l
    BY <1>2, <1>3, <1>4
  <2> HIDE DEF V, W, f
  <2> QED BY <2>1, <2>2, <2>3 DEF Bijection, Injection, Surjection, IsInjective
<1>6. IsFiniteSet(V)
  BY <1>1, WritesFinite
<1>7. Cardinality(W) = Cardinality(V)
  <2> HIDE DEF V, W, f
  <2> QED BY <1>5, <1>6, FS_Bijection DEF ExistsBijection
<1>8. Cardinality(W) = IF i \in Writes(q) THEN Cardinality(Writes(q)) - 1
                       ELSE Cardinality(Writes(q))
  BY WritesFinite, FS_RemoveElement
<1>9. i \in Writes(q) <=> q[i].type = "WRITTING"
  BY DEF Writes
<1> QED BY <1>7, <1>8, <1>9, WritesFinite

\* A list with one more node.
IsWith(r, q, n) ==
  /\ r \in Seq(Nodes) /\ Len(r) = Len(q) + 1
  /\ \A k \in 1..Len(q) : r[k] = q[k]
  /\ r[Len(q) + 1] = n

LEMMA AppendWrites ==
  ASSUME NEW q \in Seq(Nodes), NEW n \in Nodes, NEW r, r = Append(q, n)
  PROVE  /\ IsWith(r, q, n)
         /\ Cardinality(Writes(r)) =
              Cardinality(Writes(q)) + (IF n.type = "WRITTING" THEN 1 ELSE 0)
<1>1. /\ r \in Seq(Nodes) /\ Len(r) = Len(q) + 1 /\ Len(q) \in Nat
      /\ \A k \in 1..Len(q) : r[k] = q[k]
      /\ r[Len(q) + 1] = n
  OBVIOUS
<1>2. IsWith(r, q, n)
  BY <1>1 DEF IsWith
<1>3. Len(q) + 1 \notin Writes(q)
  BY <1>1 DEF Writes
<1>4. CASE n.type = "WRITTING"
  <2>1. Writes(r) = Writes(q) \cup {Len(q) + 1}
    BY <1>1, <1>4 DEF Writes
  <2> HIDE DEF IsWith
  <2> QED BY <1>2, <1>3, <1>4, <2>1, WritesFinite, FS_AddElement
<1>5. CASE n.type # "WRITTING"
  <2>1. Writes(r) = Writes(q)
    BY <1>1, <1>5 DEF Writes
  <2> QED BY <1>2, <1>5, <2>1, WritesFinite
<1> QED BY <1>4, <1>5

-----------------------------------------------------------------------------
(***************************************************************************)
(* Counting over all lists.  Only one list changes in a step.              *)
(***************************************************************************)
Places(Q) == UNION {{m} \X (1..Len(Q[m])) : m \in Mods}
WritePlaces(Q) == {n \in Places(Q) : n[2] \in Writes(Q[n[1]])}

\* The places of the other modules.
Others(Q, m) == {n \in Places(Q) : n[1] # m}
OtherWrites(Q, m) == {n \in WritePlaces(Q) : n[1] # m}

LEMMA PlacesFinite ==
  ASSUME NEW Q \in [Mods -> Seq(Nodes)]
  PROVE  IsFiniteSet(Places(Q))
<1> DEFINE Of == {{m} \X (1..Len(Q[m])) : m \in Mods}
           f == [m \in Mods |-> {m} \X (1..Len(Q[m]))]
<1>1. IsFiniteSet(Mods)
  BY FS_Interval, ModAssumption DEF Mods
<1>2. IsFiniteSet(Of)
  <2>1. f \in Surjection(Mods, Of)
    BY DEF Surjection
  <2> HIDE DEF Of, f
  <2> QED BY <1>1, <2>1, FS_Surjection
<1>3. ASSUME NEW m \in Mods PROVE IsFiniteSet({m} \X (1..Len(Q[m])))
  <2> DEFINE S == {m}
             T == 1..Len(Q[m])
  <2>1. IsFiniteSet(S)
    BY FS_Singleton
  <2>2. IsFiniteSet(T)
    <3>1. 1 \in Int /\ Len(Q[m]) \in Int
      OBVIOUS
    <3> QED BY <3>1, FS_Interval
  <2> HIDE DEF S, T
  <2>3. IsFiniteSet(S \X T)
    BY <2>1, <2>2, FS_Product
  <2> QED BY <2>3 DEF S, T
<1>4. \A T \in Of : IsFiniteSet(T)
  BY <1>3
<1>5. Places(Q) = UNION Of
  BY DEF Places
<1> HIDE DEF Of
<1> QED BY <1>2, <1>4, <1>5, FS_UNION

\* A module's share of a count.
LEMMA ShareOf ==
  ASSUME NEW P, IsFiniteSet(P), NEW m, NEW I, IsFiniteSet(I),
         NEW O, \A n : n \in O <=> n \in P /\ n[1] # m,
         \A n : n \in P /\ n[1] = m <=> n \in {m} \X I
  PROVE  /\ Cardinality(P) = Cardinality(O) + Cardinality(I)
         /\ Cardinality(O) \in Nat
<1> DEFINE f == [i \in I |-> <<m, i>>]
           S == {m} \X I
<1>1. f \in Bijection(I, S)
  <2>1. f \in [I -> S]
    OBVIOUS
  <2>2. \A i, j \in I : f[i] = f[j] => i = j
    OBVIOUS
  <2>3. \A n \in S : \E i \in I : f[i] = n
    OBVIOUS
  <2> HIDE DEF f, S
  <2> QED BY <2>1, <2>2, <2>3 DEF Bijection, Injection, Surjection, IsInjective
<1>2. IsFiniteSet(S) /\ Cardinality(S) = Cardinality(I)
  <2> HIDE DEF S, f
  <2> QED BY <1>1, FS_Bijection DEF ExistsBijection
<1>3. P = O \cup S /\ O \cap S = {}
  OBVIOUS
<1>4. IsFiniteSet(O) /\ Cardinality(O) \in Nat /\ Cardinality(I) \in Nat
  <2>1. O \in SUBSET P
    OBVIOUS
  <2> QED BY <2>1, FS_Subset, FS_CardinalityType
<1> HIDE DEF S
<1>5. Cardinality(P) = Cardinality(O) + Cardinality(S) - Cardinality(O \cap S)
  BY <1>2, <1>3, <1>4, FS_Union
<1>6. Cardinality(O \cap S) = 0
  BY <1>3, FS_EmptySet
<1> QED BY <1>2, <1>4, <1>5, <1>6

LEMMA CountsSplit ==
  ASSUME NEW Q \in [Mods -> Seq(Nodes)], NEW m \in Mods
  PROVE  /\ Cardinality(Places(Q)) = Cardinality(Others(Q, m)) + Len(Q[m])
         /\ Cardinality(Others(Q, m)) \in Nat
         /\ Cardinality(WritePlaces(Q)) =
              Cardinality(OtherWrites(Q, m)) + Cardinality(Writes(Q[m]))
         /\ Cardinality(OtherWrites(Q, m)) \in Nat
<1>1. IsFiniteSet(Places(Q)) /\ IsFiniteSet(WritePlaces(Q))
  <2>1. WritePlaces(Q) \in SUBSET Places(Q)
    BY DEF WritePlaces
  <2> QED BY <2>1, PlacesFinite, FS_Subset
<1>2. Q[m] \in Seq(Nodes) /\ Len(Q[m]) \in Nat
  OBVIOUS
<1>3. {n \in Places(Q) : n[1] = m} = {m} \X (1..Len(Q[m]))
  BY DEF Places
<1>4. {n \in WritePlaces(Q) : n[1] = m} = {m} \X Writes(Q[m])
  <2>1. \A n : n \in WritePlaces(Q) /\ n[1] = m <=>
               n \in {m} \X (1..Len(Q[m])) /\ n[2] \in Writes(Q[m])
    BY <1>3 DEF WritePlaces
  <2>2. \A n : n \in {m} \X (1..Len(Q[m])) /\ n[2] \in Writes(Q[m]) <=>
               n \in {m} \X Writes(Q[m])
    BY DEF Writes
  <2> QED BY <2>1, <2>2
<1>5. IsFiniteSet(1..Len(Q[m])) /\ Cardinality(1..Len(Q[m])) = Len(Q[m])
  <2>1. 1 \in Int /\ Len(Q[m]) \in Int /\ Len(Q[m]) >= 0
    BY <1>2
  <2> DEFINE n == Len(Q[m])
  <2> HIDE DEF n
  <2>2. n \in Int /\ n >= 0
    BY <2>1 DEF n
  <2>3. IsFiniteSet(1..n) /\ Cardinality(1..n) = IF 1 > n THEN 0 ELSE n - 1 + 1
    BY ONLY <2>2, FS_Interval
  <2> QED BY <2>2, <2>3 DEF n
<1>6. IsFiniteSet(Writes(Q[m]))
  BY <1>2, WritesFinite
<1>7. /\ Cardinality(Places(Q)) = Cardinality(Others(Q, m)) + Len(Q[m])
      /\ Cardinality(Others(Q, m)) \in Nat
  <2> DEFINE P == Places(Q)
             I == 1..Len(Q[m])
             O == Others(Q, m)
  <2>1. /\ \A n : n \in O <=> n \in P /\ n[1] # m
        /\ \A n : n \in P /\ n[1] = m <=> n \in {m} \X I
    BY <1>3 DEF Others
  <2>2. IsFiniteSet(P) /\ IsFiniteSet(I) /\ Cardinality(I) = Len(Q[m])
    BY <1>1, <1>5
  <2> HIDE DEF P, I, O
  <2>3. Cardinality(P) = Cardinality(O) + Cardinality(I) /\ Cardinality(O) \in Nat
    BY ONLY <2>1, <2>2, ShareOf
  <2> QED BY <2>2, <2>3 DEF P, O
<1>8. /\ Cardinality(WritePlaces(Q)) =
           Cardinality(OtherWrites(Q, m)) + Cardinality(Writes(Q[m]))
      /\ Cardinality(OtherWrites(Q, m)) \in Nat
  <2> DEFINE P == WritePlaces(Q)
             I == Writes(Q[m])
             O == OtherWrites(Q, m)
  <2>1. /\ \A n : n \in O <=> n \in P /\ n[1] # m
        /\ \A n : n \in P /\ n[1] = m <=> n \in {m} \X I
    BY <1>4 DEF OtherWrites
  <2>2. IsFiniteSet(P) /\ IsFiniteSet(I)
    BY <1>1, <1>6
  <2> HIDE DEF P, I, O
  <2>3. Cardinality(P) = Cardinality(O) + Cardinality(I) /\ Cardinality(O) \in Nat
    BY ONLY <2>1, <2>2, ShareOf
  <2> QED BY <2>3 DEF P, I, O
<1> QED BY <1>7, <1>8

\* One list changes, and with it the counts.
LEMMA CountsChange ==
  ASSUME NEW Q \in [Mods -> Seq(Nodes)], NEW m \in Mods, NEW r \in Seq(Nodes),
         NEW R, R = [Q EXCEPT ![m] = r]
  PROVE  /\ Cardinality(Places(R)) = Cardinality(Places(Q)) + (Len(r) - Len(Q[m]))
         /\ Cardinality(WritePlaces(R)) =
              Cardinality(WritePlaces(Q)) + (Cardinality(Writes(r)) - Cardinality(Writes(Q[m])))
<1>1. R \in [Mods -> Seq(Nodes)] /\ R[m] = r /\ \A o \in Mods : o # m => R[o] = Q[o]
  OBVIOUS
<1>2. Others(R, m) = Others(Q, m)
  BY <1>1 DEF Others, Places
<1>3. OtherWrites(R, m) = OtherWrites(Q, m)
  <2>1. ASSUME NEW n, n[1] # m PROVE n \in WritePlaces(R) <=> n \in WritePlaces(Q)
    <3>1. n \in Places(R) <=> n \in Places(Q)
      BY <1>2, <2>1 DEF Others
    <3>2. n \in Places(Q) => R[n[1]] = Q[n[1]]
      BY <1>1, <2>1 DEF Places
    <3> QED BY <3>1, <3>2 DEF WritePlaces
  <2> QED BY <2>1 DEF OtherWrites
<1>4. /\ Cardinality(Places(Q)) = Cardinality(Others(Q, m)) + Len(Q[m])
      /\ Cardinality(Others(Q, m)) \in Nat
      /\ Cardinality(WritePlaces(Q)) =
           Cardinality(OtherWrites(Q, m)) + Cardinality(Writes(Q[m]))
      /\ Cardinality(OtherWrites(Q, m)) \in Nat
  BY CountsSplit
<1>5. /\ Cardinality(Places(R)) = Cardinality(Others(R, m)) + Len(r)
      /\ Cardinality(WritePlaces(R)) =
           Cardinality(OtherWrites(R, m)) + Cardinality(Writes(r))
  BY <1>1, CountsSplit
<1>6. /\ Len(r) \in Nat /\ Len(Q[m]) \in Nat
      /\ Cardinality(Writes(r)) \in Nat /\ Cardinality(Writes(Q[m])) \in Nat
  BY WritesFinite
<1> QED BY <1>2, <1>3, <1>4, <1>5, <1>6

-----------------------------------------------------------------------------
(***************************************************************************)
(* What the unlocked nodes of a sector look like: an erase, a write, or an *)
(* erase and then a write; behind an erase that is being performed there   *)
(* is at most a write.  It is why the walk of _e_opera_add has nothing     *)
(* left to delete after two nodes, of which one has a buffer.              *)
(***************************************************************************)
Shape(q, locked, s) ==
  /\ \A i, j \in Unlocked(q, locked, s) :
       i < j => q[i].type = "ERASING" /\ q[j].type = "WRITTING"
  /\ locked /\ q[1].sec = s /\ q[1].type = "ERASING" =>
       \A i \in Unlocked(q, locked, s) : q[i].type = "WRITTING"

ShapeInv == \A m \in Mods, s \in Sectors : Shape(queue[m], cur[m], s)

\* i is the place of the newest node of sector s.
IsTop(q, s, i) == i \in On(q, s) /\ \A j \in On(q, s) : j <= i

LEMMA NewestIsTop ==
  ASSUME NEW q \in Seq(Nodes), NEW s, On(q, s) # {}
  PROVE  IsTop(q, s, Newest(On(q, s)))
<1>1. On(q, s) \in SUBSET (1..Len(q)) /\ Len(q) \in Nat
  BY DEF On
<1> QED BY <1>1, NewestIsMax DEF IsTop

LEMMA OneTop ==
  ASSUME NEW q \in Seq(Nodes), NEW s, NEW i, IsTop(q, s, i)
  PROVE  On(q, s) # {} /\ Newest(On(q, s)) = i
<1>1. On(q, s) \in SUBSET (1..Len(q)) /\ On(q, s) # {}
  BY DEF On, IsTop
<1>2. IsTop(q, s, Newest(On(q, s)))
  BY <1>1, NewestIsTop
<1>3. Newest(On(q, s)) <= i /\ i <= Newest(On(q, s)) /\ i \in Nat /\ Newest(On(q, s)) \in Nat
  BY <1>1, <1>2 DEF IsTop
<1> QED BY <1>1, <1>3

\* What is left of a sector in a list without an unlocked node.
LEMMA WithoutOn ==
  ASSUME NEW q \in Seq(Nodes), NEW locked \in BOOLEAN, NEW i \in 1..Len(q),
         locked => i # 1, NEW r, IsWithout(r, q, i), NEW t
  PROVE  /\ \A k \in 1..Len(r) : k \in On(r, t) <=> Back(i, k) \in On(q, t)
         /\ \A k \in 1..Len(r) : k \in Unlocked(r, locked, t) <=>
                                 Back(i, k) \in Unlocked(q, locked, t)
         /\ locked => Back(i, 1) = 1
<1>1. /\ r \in Seq(Nodes) /\ Len(r) = Len(q) - 1 /\ Len(q) \in Nat
      /\ \A k \in 1..Len(r) : r[k] = q[Back(i, k)]
  BY DEF IsWithout
<1>2. \A k \in 1..Len(r) : Back(i, k) \in 1..Len(q) /\ Back(i, k) # i
  BY ONLY <1>1, i \in 1..Len(q), BackIs
<1>3. \A k \in 1..Len(r) : k \in On(r, t) <=> Back(i, k) \in On(q, t)
  BY <1>1, <1>2 DEF On
<1>4. ASSUME locked PROVE \A k \in 1..Len(r) : k = 1 <=> Back(i, k) = 1
  BY <1>1, <1>4 DEF Back
<1>5. locked => Back(i, 1) = 1
  <2>1. locked => i > 1
    OBVIOUS
  <2> QED BY <2>1 DEF Back
<1> QED BY <1>3, <1>4, <1>5 DEF Unlocked

LEMMA WithoutShape ==
  ASSUME NEW q \in Seq(Nodes), NEW locked \in BOOLEAN, NEW i \in 1..Len(q),
         locked => i # 1, NEW r, IsWithout(r, q, i), NEW t, Shape(q, locked, t)
  PROVE  Shape(r, locked, t)
<1>1. /\ r \in Seq(Nodes) /\ Len(r) = Len(q) - 1 /\ Len(q) \in Nat
      /\ \A k \in 1..Len(r) : r[k] = q[Back(i, k)]
  BY DEF IsWithout
<1>2. \A j, k \in 1..Len(r) : j < k <=> Back(i, j) < Back(i, k)
  BY ONLY <1>1, i \in 1..Len(q), BackIs
<1>3. /\ \A k \in Unlocked(r, locked, t) :
           /\ k \in 1..Len(r)
           /\ Back(i, k) \in Unlocked(q, locked, t)
      /\ locked => Back(i, 1) = 1
  <2>1. \A k \in Unlocked(r, locked, t) : k \in 1..Len(r)
    BY DEF Unlocked, On
  <2> QED BY <2>1, WithoutOn
<1>4. \A j, k \in Unlocked(r, locked, t) :
        j < k => r[j].type = "ERASING" /\ r[k].type = "WRITTING"
  BY <1>1, <1>2, <1>3 DEF Shape
<1>5. ASSUME locked, r[1].sec = t, r[1].type = "ERASING", NEW k \in Unlocked(r, locked, t)
      PROVE  r[k].type = "WRITTING"
  <2>1. 1 \in 1..Len(r)
    BY <1>1, <1>3
  <2>2. q[1].sec = t /\ q[1].type = "ERASING"
    BY <1>1, <1>3, <1>5, <2>1
  <2>3. q[Back(i, k)].type = "WRITTING"
    BY <1>3, <1>5, <2>2 DEF Shape
  <2> QED BY <1>1, <1>3, <2>3
<1> QED BY <1>4, <1>5 DEF Shape

\* An operation is started: its node is locked.
LEMMA LockShape ==
  ASSUME NEW q \in Seq(Nodes), q # <<>>, NEW locked \in BOOLEAN, NEW t, Shape(q, locked, t)
  PROVE  Shape(q, TRUE, t)
<1>1. \A i \in Unlocked(q, TRUE, t) : i \in Unlocked(q, locked, t) /\ i \in Nat /\ i > 1
  BY DEF Unlocked, On
<1>2. 1 \in 1..Len(q)
  OBVIOUS
<1>3. ASSUME q[1].sec = t, q[1].type = "ERASING", NEW i \in Unlocked(q, TRUE, t)
      PROVE  q[i].type = "WRITTING"
  <2>1. CASE locked
    BY <1>1, <1>3, <2>1 DEF Shape
  <2>2. CASE ~locked
    <3>1. 1 \in Unlocked(q, locked, t)
      BY <1>2, <1>3, <2>2 DEF Unlocked, On
    <3> QED BY <1>1, <1>3, <3>1 DEF Shape
  <2> QED BY <2>1, <2>2
<1> QED BY <1>1, <1>3 DEF Shape

\* An operation is completed: its node is gone and none is locked.
LEMMA TailShape ==
  ASSUME NEW q \in Seq(Nodes), q # <<>>, NEW locked \in BOOLEAN, NEW t,
         Shape(q, locked, t), NEW r, r = Tail(q)
  PROVE  Shape(r, FALSE, t)
<1>1. IsWithout(r, q, 1)
  BY TailIs
<1>2. /\ r \in Seq(Nodes) /\ Len(r) = Len(q) - 1 /\ Len(q) \in Nat
      /\ \A k \in 1..Len(r) : r[k] = q[k + 1]
  BY <1>1 DEF IsWithout, Back
<1>3. ASSUME NEW k \in Unlocked(r, FALSE, t)
      PROVE  k \in Nat /\ k + 1 \in Unlocked(q, locked, t) /\ r[k] = q[k + 1]
  <2>1. k \in 1..Len(r) /\ r[k].sec = t
    BY DEF Unlocked, On
  <2>2. k \in Nat /\ k + 1 \in 1..Len(q) /\ k + 1 # 1 /\ r[k] = q[k + 1]
    BY <1>2, <2>1
  <2> QED BY <2>1, <2>2 DEF Unlocked, On
<1>4. ASSUME NEW i \in Unlocked(r, FALSE, t), NEW j \in Unlocked(r, FALSE, t), i < j
      PROVE  r[i].type = "ERASING" /\ r[j].type = "WRITTING"
  <2>1. /\ i \in Nat /\ i + 1 \in Unlocked(q, locked, t) /\ r[i] = q[i + 1]
        /\ j \in Nat /\ j + 1 \in Unlocked(q, locked, t) /\ r[j] = q[j + 1]
    BY <1>3
  <2>2. i + 1 < j + 1
    BY <2>1, <1>4
  <2> QED BY <2>1, <2>2 DEF Shape
<1> QED BY <1>4 DEF Shape

\* Nodes that keep their sectors and their types.
Alike(r, q) ==
  /\ r \in Seq(Nodes) /\ Len(r) = Len(q)
  /\ \A k \in 1..Len(q) : r[k].type = q[k].type /\ r[k].sec = q[k].sec

LEMMA AlikeShape ==
  ASSUME NEW q \in Seq(Nodes), NEW locked \in BOOLEAN, locked => q # <<>>, NEW t,
         Shape(q, locked, t), NEW r, Alike(r, q)
  PROVE  Shape(r, locked, t) /\ Writes(r) = Writes(q) /\ On(r, t) = On(q, t)
<1>1. Writes(r) = Writes(q) /\ On(r, t) = On(q, t)
  BY DEF Alike, Writes, On
<1>2. /\ Unlocked(r, locked, t) = Unlocked(q, locked, t)
      /\ \A i \in Unlocked(q, locked, t) : i \in 1..Len(q)
  BY <1>1 DEF Unlocked, On
<1>3. locked => 1 \in 1..Len(q)
  OBVIOUS
<1> QED BY <1>1, <1>2, <1>3 DEF Shape, Alike

-----------------------------------------------------------------------------
(***************************************************************************)
(* The walk of _e_opera_add.                                               *)
(***************************************************************************)

\* r is q without its newest unlocked node of sector s, at i.
Deletes(r, q, locked, s, i) ==
  /\ i \in Unlocked(q, locked, s)
  /\ \A j \in Unlocked(q, locked, s) : j <= i
  /\ i \in 1..Len(q) /\ (locked => i # 1)
  /\ IsWithout(r, q, i)

LEMMA DeleteNewestIs ==
  ASSUME NEW q \in Seq(Nodes), NEW locked \in BOOLEAN, NEW s,
         NEW r, r = DeleteNewest(q, locked, s)
  PROVE  \/ Unlocked(q, locked, s) = {} /\ r = q
         \/ \E i : Deletes(r, q, locked, s, i)
<1> DEFINE U == Unlocked(q, locked, s)
           i == Newest(U)
<1>1. U \in SUBSET (1..Len(q)) /\ Len(q) \in Nat /\ (locked => 1 \notin U)
  BY DEF Unlocked, On
<1>2. CASE U = {}
  BY <1>2 DEF DeleteNewest
<1>3. CASE U # {}
  <2>1. i \in U /\ \A j \in U : j <= i
    <3> HIDE DEF U
    <3> QED BY <1>1, <1>3, NewestIsMax
  <2>2. r = RemoveIndex(q, i)
    BY <1>3 DEF DeleteNewest
  <2>3. i \in 1..Len(q) /\ (locked => i # 1)
    BY <1>1, <2>1
  <2>4. IsWithout(r, q, i)
    <3> HIDE DEF i
    <3> QED BY <2>2, <2>3, RemoveIndexIs
  <2>5. Deletes(r, q, locked, s, i)
    BY <2>1, <2>3, <2>4 DEF Deletes
  <2> QED BY <2>5
<1> QED BY <1>2, <1>3

\* One deletion.
LEMMA DeletesOne ==
  ASSUME NEW q \in Seq(Nodes), NEW locked \in BOOLEAN, NEW s, NEW r, NEW i,
         Deletes(r, q, locked, s, i)
  PROVE  /\ r \in Seq(Nodes) /\ Len(r) = Len(q) - 1
         /\ Cardinality(Writes(r)) =
              Cardinality(Writes(q)) - (IF q[i].type = "WRITTING" THEN 1 ELSE 0)
         /\ \A k \in Unlocked(r, locked, s) :
              k \in 1..Len(r) /\ Back(i, k) \in Unlocked(q, locked, s) /\ Back(i, k) < i
         /\ \A k \in 1..Len(r) : r[k] = q[Back(i, k)]
         /\ \A j \in Unlocked(q, locked, s) :
              j # i => \E k \in Unlocked(r, locked, s) : Back(i, k) = j
<1>1. /\ r \in Seq(Nodes) /\ Len(r) = Len(q) - 1 /\ Len(q) \in Nat
      /\ \A k \in 1..Len(r) : r[k] = q[Back(i, k)]
      /\ i \in 1..Len(q)
  BY DEF Deletes, IsWithout
<1>2. /\ \A k \in 1..Len(r) : Back(i, k) \in 1..Len(q) /\ Back(i, k) # i
      /\ \A l \in 1..Len(q) : l # i => \E k \in 1..Len(r) : Back(i, k) = l
  BY ONLY <1>1, BackIs, ZenonT(30)
<1>3. Cardinality(Writes(r)) =
        Cardinality(Writes(q)) - (IF q[i].type = "WRITTING" THEN 1 ELSE 0)
  BY WithoutWrites DEF Deletes
<1>4. \A k \in 1..Len(r) : k \in Unlocked(r, locked, s) <=>
                           Back(i, k) \in Unlocked(q, locked, s)
  BY WithoutOn DEF Deletes
<1>5. ASSUME NEW k \in Unlocked(r, locked, s)
      PROVE  k \in 1..Len(r) /\ Back(i, k) \in Unlocked(q, locked, s) /\ Back(i, k) < i
  <2>1. k \in 1..Len(r)
    BY DEF Unlocked, On
  <2>2. Back(i, k) \in Unlocked(q, locked, s) /\ Back(i, k) # i /\ Back(i, k) \in 1..Len(q)
    BY <1>2, <1>4, <2>1
  <2>3. Back(i, k) <= i
    BY <2>2 DEF Deletes
  <2> QED BY <1>1, <2>1, <2>2, <2>3
<1>6. \A j \in Unlocked(q, locked, s) :
        j # i => \E k \in Unlocked(r, locked, s) : Back(i, k) = j
  <2>1. \A j \in Unlocked(q, locked, s) : j \in 1..Len(q)
    BY DEF Unlocked, On
  <2> QED BY <1>2, <1>4, <2>1
<1> QED BY <1>1, <1>3, <1>5, <1>6

\* The whole walk leaves no unlocked node of the sector and gives back one buffer if
\* it meets a write.
LEMMA DeletePendingIs ==
  ASSUME NEW q \in Seq(Nodes), NEW locked \in BOOLEAN, NEW s, Shape(q, locked, s),
         NEW r, r = DeletePending(q, locked, s)
  PROVE  /\ r \in Seq(Nodes)
         /\ Unlocked(r, locked, s) = {}
         /\ Cardinality(Writes(r)) = Cardinality(Writes(q)) - BuffersOf(q, locked, s)
         /\ \A t : Shape(q, locked, t) => Shape(r, locked, t)
<1> DEFINE o == DeleteNewest(q, locked, s)
<1>1. Cardinality(Writes(q)) \in Nat
  BY WritesFinite
<1>2. \/ Unlocked(q, locked, s) = {} /\ o = q
      \/ \E i : Deletes(o, q, locked, s, i)
  <2> HIDE DEF o
  <2> QED BY DeleteNewestIs DEF o
<1>3. r = DeleteNewest(o, locked, s)
  BY DEF DeletePending
<1> HIDE DEF o
<1>4. CASE Unlocked(q, locked, s) = {} /\ o = q
  <2>1. r = q
    BY <1>3, <1>4 DEF DeleteNewest
  <2>2. BuffersOf(q, locked, s) = 0
    BY <1>4 DEF BuffersOf
  <2> QED BY <1>1, <1>4, <2>1, <2>2
<1>5. ASSUME NEW i, Deletes(o, q, locked, s, i) PROVE r \in Seq(Nodes) /\ Unlocked(r, locked, s) = {}
         /\ Cardinality(Writes(r)) = Cardinality(Writes(q)) - BuffersOf(q, locked, s)
         /\ \A t : Shape(q, locked, t) => Shape(r, locked, t)
  <2>1. /\ o \in Seq(Nodes) /\ Len(o) = Len(q) - 1
        /\ Cardinality(Writes(o)) =
             Cardinality(Writes(q)) - (IF q[i].type = "WRITTING" THEN 1 ELSE 0)
        /\ \A k \in Unlocked(o, locked, s) :
             k \in 1..Len(o) /\ Back(i, k) \in Unlocked(q, locked, s) /\ Back(i, k) < i
        /\ \A k \in 1..Len(o) : o[k] = q[Back(i, k)]
        /\ \A j \in Unlocked(q, locked, s) :
             j # i => \E k \in Unlocked(o, locked, s) : Back(i, k) = j
    BY <1>5, DeletesOne
  <2>2. \A t : Shape(q, locked, t) => Shape(o, locked, t)
    BY <1>5, WithoutShape DEF Deletes
  <2>3. i \in Unlocked(q, locked, s)
    BY <1>5 DEF Deletes
  <2>4. CASE Unlocked(o, locked, s) = {} /\ r = o
    <3>1. \A j \in Unlocked(q, locked, s) : j = i
      BY <2>1, <2>4
    <3>2. BuffersOf(q, locked, s) = IF q[i].type = "WRITTING" THEN 1 ELSE 0
      BY <2>3, <3>1 DEF BuffersOf
    <3> QED BY <2>1, <2>2, <2>4, <3>2
  <2>5. ASSUME NEW j, Deletes(r, o, locked, s, j) PROVE r \in Seq(Nodes) /\ Unlocked(r, locked, s) = {}
         /\ Cardinality(Writes(r)) = Cardinality(Writes(q)) - BuffersOf(q, locked, s)
         /\ \A t : Shape(q, locked, t) => Shape(r, locked, t)
    <3>1. /\ r \in Seq(Nodes)
          /\ Cardinality(Writes(r)) =
               Cardinality(Writes(o)) - (IF o[j].type = "WRITTING" THEN 1 ELSE 0)
          /\ \A k \in Unlocked(r, locked, s) :
               Back(j, k) \in Unlocked(o, locked, s) /\ Back(j, k) < j
      BY <2>1, <2>5, DeletesOne
    <3>2. j \in Unlocked(o, locked, s)
      BY <2>5 DEF Deletes
    <3>3. o[j].type = "ERASING" /\ q[i].type = "WRITTING"
      BY <2>1, <2>3, <3>2 DEF Shape
    <3>4. BuffersOf(q, locked, s) = 1
      BY <2>3, <3>3 DEF BuffersOf
    <3>5. Unlocked(r, locked, s) = {}
      <4> SUFFICES ASSUME NEW k \in Unlocked(r, locked, s) PROVE FALSE
        OBVIOUS
      <4>1. Shape(o, locked, s)
        BY <2>2
      <4> QED BY <3>1, <3>2, <3>3, <4>1 DEF Shape
    <3>6. \A t : Shape(q, locked, t) => Shape(r, locked, t)
      BY <2>1, <2>2, <2>5, WithoutShape DEF Deletes
    <3> QED BY <1>1, <2>1, <3>1, <3>3, <3>4, <3>5, <3>6
  <2> QED BY <1>3, <2>1, <2>4, <2>5, DeleteNewestIs
<1> QED BY <1>2, <1>4, <1>5

-----------------------------------------------------------------------------
(***************************************************************************)
(* The ends of a list.                                                     *)
(***************************************************************************)

\* The nodes of a sector once one more has been queued.
Extended(I, k) == I \cup {k}

LEMMA AppendOn ==
  ASSUME NEW q \in Seq(Nodes), NEW locked \in BOOLEAN, NEW n \in Nodes,
         locked => q # <<>>, NEW r, IsWith(r, q, n), NEW t
  PROVE  /\ n.sec = t => /\ On(r, t) = Extended(On(q, t), Len(q) + 1)
                        /\ Unlocked(r, locked, t) = Extended(Unlocked(q, locked, t), Len(q) + 1)
         /\ n.sec # t => /\ On(r, t) = On(q, t)
                        /\ Unlocked(r, locked, t) = Unlocked(q, locked, t)
<1>1. /\ r \in Seq(Nodes) /\ Len(r) = Len(q) + 1 /\ Len(q) \in Nat
      /\ \A k \in 1..Len(q) : r[k] = q[k]
      /\ r[Len(q) + 1] = n
  BY DEF IsWith
<1>2. \A k : k \in 1..Len(r) <=> k \in 1..Len(q) \/ k = Len(q) + 1
  BY <1>1
<1>3. /\ n.sec = t => On(r, t) = Extended(On(q, t), Len(q) + 1)
      /\ n.sec # t => On(r, t) = On(q, t)
  BY <1>1, <1>2 DEF On, Extended
<1>4. locked => Len(q) + 1 # 1
  BY <1>1
<1> QED BY <1>3, <1>4 DEF Unlocked, Extended

\* _e_opera_add queues an erase that it did not merge.
LEMMA EraseShape ==
  ASSUME NEW q \in Seq(Nodes), NEW locked \in BOOLEAN, NEW n \in Nodes,
         locked => q # <<>>, n.type = "ERASING", Unlocked(q, locked, n.sec) = {},
         ~(locked /\ q[1].sec = n.sec /\ q[1].type = "ERASING"),
         NEW t, Shape(q, locked, t), NEW r, IsWith(r, q, n)
  PROVE  Shape(r, locked, t)
<1>1. /\ Len(q) \in Nat
      /\ \A k \in 1..Len(q) : r[k] = q[k]
      /\ r[Len(q) + 1] = n
  BY DEF IsWith
<1>2. locked => 1 \in 1..Len(q)
  OBVIOUS
<1>3. /\ n.sec = t => Unlocked(r, locked, t) = Extended(Unlocked(q, locked, t), Len(q) + 1)
      /\ n.sec # t => Unlocked(r, locked, t) = Unlocked(q, locked, t)
  BY AppendOn
<1>4. \A k \in Unlocked(q, locked, t) : k \in 1..Len(q)
  BY DEF Unlocked, On
<1>5. CASE n.sec = t
  <2>1. Unlocked(r, locked, t) = {Len(q) + 1}
    BY <1>3, <1>5 DEF Extended
  <2> QED BY <1>1, <1>2, <1>5, <2>1 DEF Shape
<1>6. CASE n.sec # t
  <2>1. Unlocked(r, locked, t) = Unlocked(q, locked, t)
    BY <1>3, <1>6
  <2> QED BY <1>1, <1>2, <1>4, <2>1 DEF Shape
<1> QED BY <1>5, <1>6

\* The node at which the walk of _w_opera_add stops.
LEMMA StopIs ==
  ASSUME NEW q \in Seq(Nodes), NEW locked \in BOOLEAN, NEW s, Stops(q, locked, s) # {}
  PROVE  LET e == Newest(Stops(q, locked, s))
         IN  /\ e \in Stops(q, locked, s) /\ e \in 1..Len(q) /\ q[e].sec = s
             /\ \A j \in Stops(q, locked, s) : j <= e
<1>1. Stops(q, locked, s) \in SUBSET (1..Len(q)) /\ Len(q) \in Nat
  BY DEF Stops, On
<1>2. \A j \in Stops(q, locked, s) : j \in 1..Len(q) /\ q[j].sec = s
  BY DEF Stops, On
<1> QED BY <1>1, <1>2, NewestIsMax

\* _w_opera_add queues a write that it did not merge: no node of the sector, or an
\* erase, comes before it.
LEMMA WriteShape ==
  ASSUME NEW q \in Seq(Nodes), NEW locked \in BOOLEAN, NEW n \in Nodes,
         locked => q # <<>>, n.type = "WRITTING", ~WriteMerged(q, locked, n.sec),
         NEW t, Shape(q, locked, t), NEW r, IsWith(r, q, n)
  PROVE  Shape(r, locked, t)
<1>1. /\ Len(q) \in Nat
      /\ \A k \in 1..Len(q) : r[k] = q[k]
      /\ r[Len(q) + 1] = n
  BY DEF IsWith
<1>2. locked => 1 \in 1..Len(q)
  OBVIOUS
<1>3. /\ n.sec = t => Unlocked(r, locked, t) = Extended(Unlocked(q, locked, t), Len(q) + 1)
      /\ n.sec # t => Unlocked(r, locked, t) = Unlocked(q, locked, t)
  BY AppendOn
<1>4. \A k \in Unlocked(q, locked, t) : k \in 1..Len(q) /\ k \in Stops(q, locked, t)
  BY DEF Unlocked, Stops, On
<1>5. CASE n.sec # t
  <2>1. Unlocked(r, locked, t) = Unlocked(q, locked, t)
    BY <1>3, <1>5 DEF Extended
  <2> QED BY <1>1, <1>2, <1>4, <2>1 DEF Shape
<1>6. CASE n.sec = t /\ Stops(q, locked, t) = {}
  <2>1. Unlocked(r, locked, t) = {Len(q) + 1}
    BY <1>3, <1>4, <1>6 DEF Extended
  <2> QED BY <1>1, <1>2, <1>6, <2>1 DEF Shape
<1>7. CASE n.sec = t /\ Stops(q, locked, t) # {}
  <2> DEFINE e == Newest(Stops(q, locked, t))
  <2>1. /\ e \in Stops(q, locked, t) /\ e \in 1..Len(q) /\ q[e].sec = t
        /\ \A j \in Stops(q, locked, t) : j <= e
    BY <1>7, StopIs
  <2>2. q[e].type = "ERASING"
    <3>1. q[e].type # "WRITTING" /\ q[e] \in Nodes
      BY <1>7, <2>1 DEF WriteMerged
    <3> QED BY <3>1 DEF Nodes
  <2> HIDE DEF e
  <2>3. \A j \in Unlocked(q, locked, t) : j = e
    <3> SUFFICES ASSUME NEW j \in Unlocked(q, locked, t), j # e PROVE FALSE
      OBVIOUS
    <3>1. j < e /\ j \in 1..Len(q)
      BY <1>4, <2>1
    <3>2. e \in Unlocked(q, locked, t)
      BY <2>1, <3>1 DEF Unlocked, On
    <3> QED BY <2>2, <3>1, <3>2 DEF Shape
  <2>4. ASSUME NEW i \in Unlocked(r, locked, t), NEW j \in Unlocked(r, locked, t), i < j
        PROVE  r[i].type = "ERASING" /\ r[j].type = "WRITTING"
    <3>1. i = e /\ j = Len(q) + 1
      BY <1>1, <1>3, <2>1, <2>3, <2>4 DEF Extended
    <3> QED BY <1>1, <2>1, <2>2, <3>1
  <2>5. ASSUME locked, r[1].sec = t, r[1].type = "ERASING", NEW i \in Unlocked(r, locked, t)
        PROVE  r[i].type = "WRITTING"
    <3>1. q[1].sec = t /\ q[1].type = "ERASING"
      BY <1>1, <1>2, <2>5
    <3>2. \A j \in Unlocked(q, locked, t) : FALSE
      BY <2>2, <2>3, <2>5, <3>1 DEF Shape
    <3>3. i = Len(q) + 1
      BY <1>3, <1>7, <2>5, <3>2 DEF Extended
    <3> QED BY <1>1, <3>3
  <2> QED BY <2>4, <2>5 DEF Shape
<1> QED BY <1>5, <1>6, <1>7

-----------------------------------------------------------------------------
(***************************************************************************)
(* The books of the two pools.                                             *)
(***************************************************************************)

\* A step that makes r the list of module m, locked or not, and counts what it adds
\* and takes.
Books(m, locked, r) ==
  /\ r \in Seq(Nodes)
  /\ locked \in BOOLEAN
  /\ queue' = [queue EXCEPT ![m] = r]
  /\ cur' = [cur EXCEPT ![m] = locked]
  /\ opera_used' = opera_used + (Len(r) - Len(queue[m]))
  /\ data_used' = data_used + (Cardinality(Writes(r)) - Cardinality(Writes(queue[m])))
  /\ \A s \in Sectors : Shape(r, locked, s)

LEMMA BooksKept ==
  ASSUME TypeOK, PoolsMatchLists, ShapeInv, NEW m \in Mods, NEW locked, NEW r,
         Books(m, locked, r)
  PROVE  PoolsMatchLists' /\ ShapeInv'
<1>1. queue \in [Mods -> Seq(Nodes)] /\ cur \in [Mods -> BOOLEAN]
  BY DEF TypeOK, ApiTypeOK
<1>2. r \in Seq(Nodes) /\ queue' = [queue EXCEPT ![m] = r] /\ cur' = [cur EXCEPT ![m] = locked]
  BY DEF Books
<1>3. /\ opera_used = Cardinality(Places(queue))
      /\ data_used = Cardinality(WritePlaces(queue))
  BY DEF PoolsMatchLists, Places, WritePlaces
<1>4. /\ Cardinality(Places(queue')) = Cardinality(Places(queue)) + (Len(r) - Len(queue[m]))
      /\ Cardinality(WritePlaces(queue')) =
           Cardinality(WritePlaces(queue)) +
             (Cardinality(Writes(r)) - Cardinality(Writes(queue[m])))
  <2> DEFINE Q == queue
             R == queue'
  <2>1. Q \in [Mods -> Seq(Nodes)] /\ R = [Q EXCEPT ![m] = r]
    BY <1>1, <1>2
  <2> HIDE DEF Q, R
  <2>2. /\ Cardinality(Places(R)) = Cardinality(Places(Q)) + (Len(r) - Len(Q[m]))
        /\ Cardinality(WritePlaces(R)) =
             Cardinality(WritePlaces(Q)) + (Cardinality(Writes(r)) - Cardinality(Writes(Q[m])))
    BY ONLY <2>1, <1>2, m \in Mods, CountsChange
  <2> QED BY <2>2 DEF Q, R
<1>5. /\ opera_used' = Cardinality(Places(queue'))
      /\ data_used' = Cardinality(WritePlaces(queue'))
  BY <1>3, <1>4 DEF Books
<1>6. PoolsMatchLists'
  BY <1>5 DEF PoolsMatchLists, Places, WritePlaces
<1>7. ASSUME NEW o \in Mods, NEW s \in Sectors PROVE Shape(queue'[o], cur'[o], s)
  <2>1. CASE o = m
    <3>1. queue'[o] = r /\ cur'[o] = locked
      BY <1>1, <1>2, <2>1
    <3> QED BY <3>1 DEF Books
  <2>2. CASE o # m
    <3>1. queue'[o] = queue[o] /\ cur'[o] = cur[o]
      BY <1>1, <1>2, <2>2
    <3> QED BY <3>1 DEF ShapeInv
  <2> QED BY <2>1, <2>2
<1> QED BY <1>6, <1>7 DEF ShapeInv

\* The books of a state in which no list changes.
LEMMA BooksUnchanged ==
  ASSUME PoolsMatchLists, ShapeInv, UNCHANGED <<queue, cur, opera_used, data_used>>
  PROVE  PoolsMatchLists' /\ ShapeInv'
<1>1. PoolsMatchLists'
  BY DEF PoolsMatchLists
<1>2. ShapeInv'
  BY DEF ShapeInv
<1> QED BY <1>1, <1>2

\* What is known of a module's list.
LEMMA ListOf ==
  ASSUME IInv, NEW m \in Mods
  PROVE  /\ queue[m] \in Seq(Nodes) /\ Len(queue[m]) \in Nat
         /\ cur[m] \in BOOLEAN
         /\ cur[m] => queue[m] # <<>>
         /\ opera_used \in Int /\ data_used \in Int
BY DEF IInv, TypeOK, ApiTypeOK, CurIsListed

\* An operation is started, suspended, resumed or completed.
LEMMA FlushBooks ==
  ASSUME IInv, PoolsMatchLists, ShapeInv, NEW m \in Mods, Registered(m), ~OtherSuspended(m),
         NEW suspend \in BOOLEAN, Opera_flush(m, suspend)
  PROVE  PoolsMatchLists' /\ ShapeInv'
<1>1. /\ queue[m] # <<>>
      /\ \/ cur' = [cur EXCEPT ![m] = FALSE] /\ Opera_del(m)
         \/ cur' = [cur EXCEPT ![m] = TRUE] /\ UNCHANGED <<queue, opera_used, data_used>>
  BY OperaFlushSteps DEF IInv
<1> DEFINE q == queue[m]
<1>2. /\ q \in Seq(Nodes) /\ Len(q) \in Nat /\ cur[m] \in BOOLEAN
      /\ opera_used \in Int /\ data_used \in Int
      /\ Cardinality(Writes(q)) \in Nat
  BY ListOf, WritesFinite
<1>3. \A s \in Sectors : Shape(q, cur[m], s)
  BY DEF ShapeInv
<1>4. TypeOK
  BY DEF IInv
<1>5. CASE cur' = [cur EXCEPT ![m] = FALSE] /\ Opera_del(m)
  <2> DEFINE r == Tail(q)
  <2>1. r \in Seq(Nodes) /\ Len(r) = Len(q) - 1
    BY <1>1, <1>2
  <2>2. \A s \in Sectors : Shape(r, FALSE, s)
    <3> HIDE DEF q
    <3> QED BY <1>1, <1>2, <1>3, TailShape DEF q
  <2>3. Cardinality(Writes(r)) =
          Cardinality(Writes(q)) - (IF q[1].type = "WRITTING" THEN 1 ELSE 0)
    <3>1. IsWithout(r, q, 1) /\ 1 \in 1..Len(q)
      <4> HIDE DEF q
      <4>1. q # <<>>
        BY <1>1 DEF q
      <4>2. 1 \in 1..Len(q)
        BY <1>2, <4>1
      <4> QED BY <1>2, <4>1, <4>2, TailIs
    <3> HIDE DEF q, r
    <3> QED BY <1>2, <3>1, WithoutWrites
  <2>4. /\ queue' = [queue EXCEPT ![m] = r]
        /\ opera_used' = opera_used - 1
        /\ data_used' = IF q[1].type = "WRITTING" THEN data_used - 1 ELSE data_used
    BY <1>4, <1>5 DEF Opera_del, TypeOK, ApiTypeOK
  <2>5. Books(m, FALSE, r)
    <3> HIDE DEF q, r
    <3>1. opera_used' = opera_used + (Len(r) - Len(q))
      BY <1>2, <2>1, <2>4
    <3>2. data_used' = data_used + (Cardinality(Writes(r)) - Cardinality(Writes(q)))
      BY <1>2, <2>3, <2>4
    <3> QED BY <1>5, <2>1, <2>2, <2>4, <3>1, <3>2, Zenon DEF Books, q
  <2> HIDE DEF r
  <2> QED BY <1>4, <2>5, BooksKept
<1>6. CASE cur' = [cur EXCEPT ![m] = TRUE] /\ UNCHANGED <<queue, opera_used, data_used>>
  <2>1. \A s \in Sectors : Shape(q, TRUE, s)
    <3> HIDE DEF q
    <3> QED BY <1>1, <1>2, <1>3, LockShape DEF q
  <2>2. queue' = [queue EXCEPT ![m] = q]
    BY <1>4, <1>6 DEF TypeOK, ApiTypeOK
  <2>3. Books(m, TRUE, q)
    <3> HIDE DEF q
    <3>1. opera_used' = opera_used + (Len(q) - Len(q))
      BY <1>2, <1>6
    <3>2. data_used' = data_used + (Cardinality(Writes(q)) - Cardinality(Writes(q)))
      BY <1>2, <1>6
    <3> QED BY <1>2, <1>6, <2>1, <2>2, <3>1, <3>2, Zenon DEF Books, q
  <2> HIDE DEF q
  <2> QED BY <1>4, <2>3, BooksKept
<1> QED BY <1>1, <1>5, <1>6

\* What an asynchronous erase does to its list: the walk's deletions, and the erase
\* behind what is left, unless it is merged or no node is free.
ErasesTo(m, q, locked, s, kept) ==
  /\ m \in Mods /\ q \in Seq(Nodes) /\ Len(q) \in Nat /\ locked \in BOOLEAN
  /\ kept \in Seq(Nodes) /\ Len(kept) \in Nat /\ Len(kept) <= Len(q)
  /\ Unlocked(kept, locked, s) = {}
  /\ Cardinality(Writes(kept)) = Cardinality(Writes(q)) - BuffersOf(q, locked, s)
  /\ \A t \in Sectors : Shape(kept, locked, t)
  /\ locked => q # <<>> /\ kept # <<>> /\ kept[1] = q[1]
  /\ data_used' = data_used - BuffersOf(q, locked, s)
  /\ UNCHANGED cur /\ UNCHANGED halVars
  /\ \/ /\ \/ EraseMerged(q, locked, s)
           \/ opera_used - (Len(q) - Len(kept)) = OpraLen
        /\ queue' = [queue EXCEPT ![m] = kept]
        /\ opera_used' = opera_used - (Len(q) - Len(kept))
     \/ /\ ~EraseMerged(q, locked, s)
        /\ queue' = [queue EXCEPT ![m] = Append(kept, ErasingNode(s))]
        /\ opera_used' = opera_used - (Len(q) - Len(kept)) + 1

LEMMA EraseIs ==
  ASSUME IInv, ShapeInv, NEW s \in Sectors, NEW m, m = Owner[s], norflash_api_erase(s),
         NEW q, q = queue[m], NEW locked, locked = cur[m],
         NEW kept, kept = DeletePending(q, locked, s)
  PROVE  ErasesTo(m, q, locked, s, kept)
<1>1. /\ m \in Mods /\ q \in Seq(Nodes) /\ Len(q) \in Nat /\ locked \in BOOLEAN
      /\ locked => q # <<>>
  BY ListOf, ModAssumption
<1>2. \A t \in Sectors : Shape(q, locked, t)
  BY <1>1 DEF ShapeInv
<1>3. /\ kept \in Seq(Nodes)
      /\ Unlocked(kept, locked, s) = {}
      /\ Cardinality(Writes(kept)) = Cardinality(Writes(q)) - BuffersOf(q, locked, s)
      /\ \A t : Shape(q, locked, t) => Shape(kept, locked, t)
  BY <1>1, <1>2, DeletePendingIs
<1>4. /\ Len(kept) <= Len(q)
      /\ locked /\ q # <<>> => kept # <<>> /\ kept[1] = q[1]
  BY <1>1, DeletePendingProperties
<1>5. E_opera_add(m, s) /\ UNCHANGED cur /\ UNCHANGED halVars
  BY DEF norflash_api_erase
<1>6. Len(kept) \in Nat
  BY <1>3
<1> QED BY <1>1, <1>2, <1>3, <1>4, <1>5, <1>6 DEF E_opera_add, ErasesTo

LEMMA ErasingNodeIs ==
  ASSUME NEW s \in Sectors
  PROVE  /\ ErasingNode(s) \in Nodes /\ ErasingNode(s).type = "ERASING"
         /\ ErasingNode(s).sec = s /\ ErasingNode(s).buf = ErasedImage
BY CellsAssumption DEF ErasingNode, Nodes, ErasedImage, Images, Contents

\* An asynchronous erase gives back what it deletes.
LEMMA EraseBooks ==
  ASSUME IInv, PoolsMatchLists, ShapeInv, NEW s \in Sectors, norflash_api_erase(s)
  PROVE  PoolsMatchLists' /\ ShapeInv'
<1>1. PICK m : m = Owner[s]
  OBVIOUS
<1>2. PICK q : q = queue[m]
  OBVIOUS
<1>3. PICK locked : locked = cur[m]
  OBVIOUS
<1>4. PICK kept : kept = DeletePending(q, locked, s)
  OBVIOUS
<1>5. /\ m \in Mods /\ q \in Seq(Nodes) /\ Len(q) \in Nat /\ locked \in BOOLEAN
      /\ kept \in Seq(Nodes) /\ Len(kept) \in Nat /\ Len(kept) <= Len(q)
      /\ Unlocked(kept, locked, s) = {}
      /\ Cardinality(Writes(kept)) = Cardinality(Writes(q)) - BuffersOf(q, locked, s)
      /\ \A t \in Sectors : Shape(kept, locked, t)
      /\ locked => q # <<>> /\ kept # <<>> /\ kept[1] = q[1]
      /\ data_used' = data_used - BuffersOf(q, locked, s)
      /\ UNCHANGED cur
      /\ \/ /\ queue' = [queue EXCEPT ![m] = kept]
            /\ opera_used' = opera_used - (Len(q) - Len(kept))
         \/ /\ ~EraseMerged(q, locked, s)
            /\ queue' = [queue EXCEPT ![m] = Append(kept, ErasingNode(s))]
            /\ opera_used' = opera_used - (Len(q) - Len(kept)) + 1
  <2>1. ErasesTo(m, q, locked, s, kept)
    BY <1>1, <1>2, <1>3, <1>4, EraseIs
  <2> QED BY <2>1 DEF ErasesTo
<1>6. opera_used \in Int /\ data_used \in Int /\ TypeOK
  BY DEF IInv, TypeOK, ApiTypeOK
<1>7. Cardinality(Writes(q)) \in Nat /\ BuffersOf(q, locked, s) \in Nat
  BY <1>5, WritesFinite DEF BuffersOf
<1>8. cur' = [cur EXCEPT ![m] = locked]
  BY <1>3, <1>5, <1>6 DEF TypeOK, ApiTypeOK
<1>9. data_used' = data_used + (Cardinality(Writes(kept)) - Cardinality(Writes(q)))
  BY <1>5, <1>6, <1>7
<1>10. CASE /\ queue' = [queue EXCEPT ![m] = kept]
            /\ opera_used' = opera_used - (Len(q) - Len(kept))
  <2>1. opera_used' = opera_used + (Len(kept) - Len(q))
    BY <1>5, <1>6, <1>10
  <2>2. Books(m, locked, kept)
    BY <1>2, <1>5, <1>8, <1>9, <1>10, <2>1, Zenon DEF Books
  <2> QED BY <1>5, <1>6, <2>2, BooksKept
<1>11. CASE /\ ~EraseMerged(q, locked, s)
            /\ queue' = [queue EXCEPT ![m] = Append(kept, ErasingNode(s))]
            /\ opera_used' = opera_used - (Len(q) - Len(kept)) + 1
  <2>1. PICK n : n = ErasingNode(s)
    OBVIOUS
  <2>2. n \in Nodes /\ n.type = "ERASING" /\ n.sec = s
    BY <2>1, ErasingNodeIs
  <2>3. PICK r : r = Append(kept, n)
    OBVIOUS
  <2>4. /\ IsWith(r, kept, n)
        /\ Cardinality(Writes(r)) = Cardinality(Writes(kept)) + 0
    BY <1>5, <2>2, <2>3, AppendWrites
  <2>5. r \in Seq(Nodes) /\ Len(r) = Len(kept) + 1
    BY <2>4 DEF IsWith
  <2>6. opera_used' = opera_used + (Len(r) - Len(q))
    BY <1>5, <1>6, <1>11, <2>5
  <2>7. Cardinality(Writes(r)) = Cardinality(Writes(kept))
    BY <1>5, <1>7, <2>4
  <2>8. ~(locked /\ kept[1].sec = n.sec /\ kept[1].type = "ERASING")
    <3>1. locked => Len(q) > 0
      BY <1>5
    <3> QED BY <1>5, <1>11, <2>2, <3>1 DEF EraseMerged
  <2>9. \A t \in Sectors : Shape(r, locked, t)
    BY <1>5, <2>2, <2>4, <2>8, EraseShape
  <2>10. Books(m, locked, r)
    BY <1>2, <1>5, <1>8, <1>9, <1>11, <2>1, <2>3, <2>5, <2>6, <2>7, <2>9, Zenon DEF Books
  <2> QED BY <1>5, <1>6, <2>10, BooksKept
<1> QED BY <1>5, <1>10, <1>11

\* r is q with a write merged into node i.
MergesInto(r, q, i, lo, hi, v) ==
  /\ r \in Seq(Nodes) /\ Len(r) = Len(q)
  /\ \A k \in 1..Len(q) : k # i => r[k] = q[k]
  /\ r[i] = MergedNode(q[i], lo, hi, v)

\* What the buffer of a new write is filled with first.
BaseOf(q, locked, s) == IF Stops(q, locked, s) = {} THEN flash[s] ELSE ErasedImage

NewWrite(q, locked, s, lo, hi, v) == WrittingNode(s, lo, hi, Fill(BaseOf(q, locked, s), lo, hi, v))

\* What an asynchronous write does to its list: a merge, nothing, or one more node.
WritesTo(m, q, locked, s, lo, hi, v) ==
  /\ m \in Mods /\ q \in Seq(Nodes) /\ Len(q) \in Nat /\ locked \in BOOLEAN
  /\ locked => q # <<>>
  /\ UNCHANGED cur /\ UNCHANGED halVars
  /\ NewWrite(q, locked, s, lo, hi, v) \in Nodes
  /\ \/ /\ WriteMerged(q, locked, s)
        /\ \E r : /\ MergesInto(r, q, Newest(Stops(q, locked, s)), lo, hi, v)
                  /\ queue' = [queue EXCEPT ![m] = r]
        /\ UNCHANGED <<opera_used, data_used>>
     \/ /\ ~WriteMerged(q, locked, s)
        /\ opera_used = OpraLen \/ data_used = BuffLen
        /\ UNCHANGED <<queue, opera_used, data_used>>
     \/ /\ ~WriteMerged(q, locked, s)
        /\ opera_used # OpraLen /\ data_used # BuffLen
        /\ queue' = [queue EXCEPT ![m] = Append(q, NewWrite(q, locked, s, lo, hi, v))]
        /\ opera_used' = opera_used + 1
        /\ data_used' = data_used + 1

LEMMA FillImage ==
  ASSUME NEW buf \in Images, NEW lo \in Cells, NEW hi \in Cells, NEW v \in Values
  PROVE  Fill(buf, lo, hi, v) \in Images
BY DEF Fill, Images, Contents

LEMMA MergedNodeIs ==
  ASSUME NEW n \in Nodes, NEW lo \in Cells, NEW hi \in Cells, NEW v \in Values,
         NEW o, o = MergedNode(n, lo, hi, v)
  PROVE  /\ o \in Nodes /\ o.type = n.type /\ o.sec = n.sec
         /\ o.lo = MinOf(n.lo, lo) /\ o.hi = MaxOf(n.hi, hi)
         /\ o.buf = Fill(n.buf, lo, hi, v)
<1>1. MinOf(n.lo, lo) \in 1..NumCells /\ MaxOf(n.hi, hi) \in 0..NumCells
  BY CellsAssumption DEF Nodes, MinOf, MaxOf, Cells
<1>2. Fill(n.buf, lo, hi, v) \in Images
  BY FillImage DEF Nodes
<1> QED BY <1>1, <1>2 DEF MergedNode, Nodes

LEMMA NewWriteIs ==
  ASSUME IInv, NEW s \in Sectors, NEW lo \in Cells, NEW hi \in Cells, NEW v \in Values,
         NEW q, NEW locked, NEW n, n = NewWrite(q, locked, s, lo, hi, v)
  PROVE  /\ n \in Nodes /\ n.type = "WRITTING" /\ n.sec = s /\ n.lo = lo /\ n.hi = hi
         /\ n.buf = Fill(BaseOf(q, locked, s), lo, hi, v)
<1>1. BaseOf(q, locked, s) \in Images
  BY DEF BaseOf, IInv, TypeOK, ApiTypeOK, HalTypeOK, ErasedImage, Images, Contents
<1>2. Fill(BaseOf(q, locked, s), lo, hi, v) \in Images
  BY <1>1, FillImage
<1> QED BY <1>2, CellsAssumption DEF NewWrite, WrittingNode, Nodes, Cells

LEMMA WriteIs ==
  ASSUME IInv, NEW s \in Sectors, NEW lo \in Cells, NEW hi \in Cells, NEW v \in Values,
         norflash_api_write(s, lo, hi, v), NEW m, m = Owner[s],
         NEW q, q = queue[m], NEW locked, locked = cur[m]
  PROVE  WritesTo(m, q, locked, s, lo, hi, v)
<1>1. /\ m \in Mods /\ q \in Seq(Nodes) /\ Len(q) \in Nat /\ locked \in BOOLEAN
      /\ locked => q # <<>>
  BY ListOf, ModAssumption
<1>2. W_opera_add(m, s, lo, hi, v) /\ UNCHANGED cur /\ UNCHANGED halVars
  BY DEF norflash_api_write
<1>3. NewWrite(q, locked, s, lo, hi, v) \in Nodes
  BY NewWriteIs
<1>4. CASE WriteMerged(q, locked, s)
  <2> DEFINE i == Newest(Stops(q, locked, s))
             r == [q EXCEPT ![i] = MergedNode(q[i], lo, hi, v)]
  <2>1. i \in 1..Len(q)
    BY <1>1, <1>4, StopIs DEF WriteMerged
  <2>2. MergeWrite(m, i, lo, hi, v)
    BY <1>2, <1>4 DEF W_opera_add
  <2> HIDE DEF i
  <2>3. q[i] \in Nodes
    BY <1>1, <2>1
  <2>4. MergedNode(q[i], lo, hi, v) \in Nodes
    <3> DEFINE n == q[i]
    <3>1. n \in Nodes
      BY <2>3
    <3> HIDE DEF n
    <3> QED BY <3>1, MergedNodeIs DEF n
  <2>5. MergesInto(r, q, i, lo, hi, v)
    <3> DEFINE n == MergedNode(q[i], lo, hi, v)
    <3>1. n \in Nodes
      BY <2>4
    <3> HIDE DEF n
    <3>2. r = [q EXCEPT ![i] = n]
      BY DEF n
    <3>3. r \in Seq(Nodes) /\ Len(r) = Len(q) /\ r[i] = n
          /\ \A k \in 1..Len(q) : k # i => r[k] = q[k]
      <4> HIDE DEF r
      <4> QED BY <1>1, <2>1, <3>1, <3>2, ExceptSeq
    <3> QED BY <3>3 DEF MergesInto, n
  <2>6. queue' = [queue EXCEPT ![m] = r] /\ UNCHANGED <<opera_used, data_used>>
    BY <1>1, <2>1, <2>2 DEF MergeWrite, IInv, TypeOK, ApiTypeOK
  <2> HIDE DEF r
  <2> QED BY <1>1, <1>2, <1>3, <1>4, <2>5, <2>6 DEF WritesTo, i
<1>5. CASE ~WriteMerged(q, locked, s)
  <2>1. AddWrite(m, s, lo, hi, v)
    BY <1>2, <1>5 DEF W_opera_add
  <2>2. \/ /\ opera_used = OpraLen \/ data_used = BuffLen
           /\ UNCHANGED <<queue, opera_used, data_used>>
        \/ /\ opera_used # OpraLen /\ data_used # BuffLen
           /\ queue' = [queue EXCEPT ![m] = Append(q, NewWrite(q, locked, s, lo, hi, v))]
           /\ opera_used' = opera_used + 1
           /\ data_used' = data_used + 1
    BY <1>1, <2>1 DEF AddWrite, NewWrite, BaseOf, IInv, TypeOK, ApiTypeOK
  <2> QED BY <1>1, <1>2, <1>3, <1>5, <2>2 DEF WritesTo
<1> QED BY <1>4, <1>5

\* A merge changes a write of the same sector.
LEMMA MergedAlike ==
  ASSUME NEW q \in Seq(Nodes), NEW i \in 1..Len(q),
         NEW lo \in Cells, NEW hi \in Cells, NEW v \in Values,
         NEW r, MergesInto(r, q, i, lo, hi, v)
  PROVE  Alike(r, q)
<1>1. \A k \in 1..Len(q) : k # i => r[k] = q[k]
  BY DEF MergesInto
<1>2. r[i].type = q[i].type /\ r[i].sec = q[i].sec
  <2>1. PICK n : n = q[i]
    OBVIOUS
  <2>2. n \in Nodes /\ r[i] = MergedNode(n, lo, hi, v)
    BY <2>1 DEF MergesInto
  <2> QED BY <2>1, <2>2, MergedNodeIs
<1>3. r \in Seq(Nodes) /\ Len(r) = Len(q)
  BY DEF MergesInto
<1> QED BY <1>1, <1>2, <1>3 DEF Alike

\* An asynchronous write takes a node and a buffer, or neither.
LEMMA WriteBooks ==
  ASSUME IInv, PoolsMatchLists, ShapeInv,
         NEW s \in Sectors, NEW lo \in Cells, NEW hi \in Cells, NEW v \in Values,
         norflash_api_write(s, lo, hi, v)
  PROVE  PoolsMatchLists' /\ ShapeInv'
<1>1. PICK m : m = Owner[s]
  OBVIOUS
<1>2. PICK q : q = queue[m]
  OBVIOUS
<1>3. PICK locked : locked = cur[m]
  OBVIOUS
<1>4. WritesTo(m, q, locked, s, lo, hi, v)
  BY <1>1, <1>2, <1>3, WriteIs
<1>5. /\ m \in Mods /\ q \in Seq(Nodes) /\ Len(q) \in Nat /\ locked \in BOOLEAN
      /\ locked => q # <<>>
      /\ UNCHANGED cur
  BY <1>4 DEF WritesTo
<1>6. opera_used \in Int /\ data_used \in Int /\ TypeOK
  BY DEF IInv, TypeOK, ApiTypeOK
<1>7. Cardinality(Writes(q)) \in Nat
  BY <1>5, WritesFinite
<1>8. cur' = [cur EXCEPT ![m] = locked]
  BY <1>3, <1>5, <1>6 DEF TypeOK, ApiTypeOK
<1>9. \A t \in Sectors : Shape(q, locked, t)
  BY <1>2, <1>3, <1>5 DEF ShapeInv
<1>10. CASE UNCHANGED <<queue, opera_used, data_used>>
  BY <1>5, <1>10, BooksUnchanged
<1>11. CASE /\ WriteMerged(q, locked, s)
            /\ \E r : /\ MergesInto(r, q, Newest(Stops(q, locked, s)), lo, hi, v)
                      /\ queue' = [queue EXCEPT ![m] = r]
            /\ UNCHANGED <<opera_used, data_used>>
  <2>1. PICK i : i = Newest(Stops(q, locked, s))
    OBVIOUS
  <2>2. i \in 1..Len(q)
    BY <1>5, <1>11, <2>1, StopIs DEF WriteMerged
  <2>3. PICK r : MergesInto(r, q, i, lo, hi, v) /\ queue' = [queue EXCEPT ![m] = r]
    BY <1>11, <2>1
  <2>4. Alike(r, q)
    BY <1>5, <2>2, <2>3, MergedAlike
  <2>5. r \in Seq(Nodes) /\ Len(r) = Len(q)
    BY <2>4 DEF Alike
  <2>6. /\ \A t \in Sectors : Shape(r, locked, t)
        /\ Writes(r) = Writes(q)
    BY <1>5, <1>9, <2>4, AlikeShape, <1>1, ModAssumption
  <2>7. opera_used' = opera_used + (Len(r) - Len(q))
    BY <1>5, <1>6, <1>11, <2>5
  <2>8. data_used' = data_used + (Cardinality(Writes(r)) - Cardinality(Writes(q)))
    BY <1>6, <1>7, <1>11, <2>6
  <2>9. Books(m, locked, r)
    BY <1>2, <1>5, <1>8, <2>3, <2>5, <2>6, <2>7, <2>8, Zenon DEF Books
  <2> QED BY <1>5, <1>6, <2>9, BooksKept
<1>12. CASE /\ ~WriteMerged(q, locked, s)
            /\ data_used # BuffLen
            /\ queue' = [queue EXCEPT ![m] = Append(q, NewWrite(q, locked, s, lo, hi, v))]
            /\ opera_used' = opera_used + 1
            /\ data_used' = data_used + 1
  <2>1. PICK n : n = NewWrite(q, locked, s, lo, hi, v)
    OBVIOUS
  <2>2. n \in Nodes /\ n.type = "WRITTING" /\ n.sec = s
    BY <2>1, NewWriteIs
  <2>3. PICK r : r = Append(q, n)
    OBVIOUS
  <2>4. IsWith(r, q, n) /\ Cardinality(Writes(r)) = Cardinality(Writes(q)) + 1
    BY <1>5, <2>2, <2>3, AppendWrites
  <2>5. r \in Seq(Nodes) /\ Len(r) = Len(q) + 1
    BY <2>4 DEF IsWith
  <2>6. opera_used' = opera_used + (Len(r) - Len(q))
    BY <1>5, <1>6, <1>12, <2>5
  <2>7. data_used' = data_used + (Cardinality(Writes(r)) - Cardinality(Writes(q)))
    BY <1>6, <1>7, <1>12, <2>4
  <2>8. ~WriteMerged(q, locked, n.sec)
    BY <1>12, <2>2
  <2>9. \A t \in Sectors : Shape(r, locked, t)
    BY <1>5, <1>9, <2>2, <2>4, <2>8, WriteShape
  <2>10. Books(m, locked, r)
    BY <1>2, <1>5, <1>8, <1>12, <2>1, <2>3, <2>5, <2>6, <2>7, <2>9, Zenon DEF Books
  <2> QED BY <1>5, <1>6, <2>10, BooksKept
<1> QED BY <1>4, <1>10, <1>11, <1>12 DEF WritesTo

\* The other steps perform an operation or leave the lists alone.
LEMMA NextBooks ==
  ASSUME IInv, PoolsMatchLists, ShapeInv, [Next]_vars
  PROVE  PoolsMatchLists' /\ ShapeInv'
<1>1. CASE Client
  <2>1. ASSUME NEW s \in Sectors, norflash_api_erase(s) PROVE PoolsMatchLists' /\ ShapeInv'
    BY <2>1, EraseBooks
  <2>2. ASSUME NEW s \in Sectors, NEW lo \in Cells, NEW hi \in Cells, NEW v \in Values,
               norflash_api_write(s, lo, hi, v)
        PROVE  PoolsMatchLists' /\ ShapeInv'
    BY <2>2, WriteBooks
  <2>3. ASSUME NEW n, SyncStart(n) PROVE PoolsMatchLists' /\ ShapeInv'
    BY <2>3, BooksUnchanged DEF SyncStart, apiVars
  <2>4. CASE FlushAllStart \/ \E m \in Mods : Register(m)
    BY <2>4, BooksUnchanged DEF FlushAllStart, Register, apiVars
  <2> QED BY <1>1, <2>1, <2>2, <2>3, <2>4 DEF Client, SyncErase, SyncWrite
<1>2. ASSUME Flush PROVE PoolsMatchLists' /\ ShapeInv'
  <2>1. CASE UNCHANGED <<halVars, apiVars, asserted>>
    BY <2>1, BooksUnchanged DEF apiVars
  <2>2. ASSUME NEW m \in Mods, FlushStep(m) PROVE PoolsMatchLists' /\ ShapeInv'
    <3>1. CASE Opera_flush(m, TRUE)
      <4>1. Registered(m) /\ ~OtherSuspended(m)
        BY <2>2 DEF FlushStep, IsCurMod, Pending, OtherSuspended, IInv, CurIsListed
      <4> QED BY <3>1, <4>1, FlushBooks
    <3>2. CASE UNCHANGED <<queue, cur, opera_used, data_used>>
      BY <3>2, BooksUnchanged
    <3> QED BY <2>2, <3>1, <3>2 DEF FlushStep
  <2> QED BY <1>2, <2>1, <2>2 DEF Flush
<1>3. CASE SyncFlushOther
  <2>1. cur_mod \in Mods /\ Registered(cur_mod) /\ ~OtherSuspended(cur_mod)
    BY <1>3 DEF SyncFlushOther, NoSync, IInv, SyncKeepsProgress, OtherSuspended,
                TypeOK, ApiTypeOK, CurIsListed
  <2> QED BY <1>3, <2>1, FlushBooks DEF SyncFlushOther
<1>4. CASE SyncFlushOwn
  <2> DEFINE m == Owner[sync.node.sec]
  <2>1. m \in Mods
    BY <1>4, SyncType DEF SyncFlushOwn, NoSync, IInv
  <2>2. Registered(m) /\ ~OtherSuspended(m)
    BY <1>4 DEF SyncFlushOwn, NoSync, IInv, SyncKeepsProgress
  <2>3. Opera_flush(m, FALSE)
    BY <1>4 DEF SyncFlushOwn
  <2> HIDE DEF m
  <2> QED BY <2>1, <2>2, <2>3, FlushBooks
<1>5. CASE SyncDrained \/ SyncHal
  BY <1>5, BooksUnchanged DEF SyncDrained, SyncHal, apiVars
<1>6. CASE CpNext
  BY <1>6, BooksUnchanged
     DEF CpNext, FlushDisable, CpOpen, CpInitDone, FlushEnable, CpClose, apiVars
<1>7. CASE UNCHANGED vars
  BY <1>7, BooksUnchanged DEF vars, apiVars
<1>8. CASE norflash_api_flush \/ FlushAllStep
  BY <1>2, <1>8 DEF norflash_api_flush, FlushAllStep
<1> QED BY <1>1, <1>3, <1>4, <1>5, <1>6, <1>7, <1>8 DEF Next, SyncNext

\* No node is in use at first.
LEMMA InitBooks == Init => PoolsMatchLists /\ ShapeInv
<1> SUFFICES ASSUME Init PROVE PoolsMatchLists /\ ShapeInv
  OBVIOUS
<1>1. \A m \in Mods : queue[m] = <<>> /\ Len(queue[m]) = 0
  BY DEF Init
<1>2. Places(queue) = {} /\ WritePlaces(queue) = {}
  BY <1>1 DEF Places, WritePlaces
<1>3. PoolsMatchLists
  BY <1>2, FS_EmptySet DEF Init, PoolsMatchLists, Places, WritePlaces
<1>4. \A m \in Mods, s \in Sectors : On(queue[m], s) = {}
  BY <1>1 DEF On
<1>5. \A m \in Mods : ~cur[m]
  BY DEF Init
<1> QED BY <1>3, <1>4, <1>5 DEF ShapeInv, Shape, Unlocked

\* A sector's unlocked nodes are an erase, a write, or both in this order, so that the
\* walk of _e_opera_add, which deletes them all, finds at most one buffer.
THEOREM SectorsHaveTwoNodes == Spec => [](IInv /\ PoolsMatchLists /\ ShapeInv)
<1>1. Init => IInv /\ PoolsMatchLists /\ ShapeInv
  BY InitIInv, InitBooks
<1>2. (IInv /\ PoolsMatchLists /\ ShapeInv) /\ [Next]_vars => (IInv /\ PoolsMatchLists /\ ShapeInv)'
  BY NextIInv, NextBooks
<1> QED BY <1>1, <1>2, PTL DEF Spec

\* Nodes and buffers are neither leaked nor freed twice: the pools count exactly the
\* nodes and buffers on the modules' lists.
THEOREM PoolsAreCounted == Spec => []PoolsMatchLists
BY SectorsHaveTwoNodes, PTL

-----------------------------------------------------------------------------
(***************************************************************************)
(* What the buffers hold.  With one buffer, which is how the flash is      *)
(* configured (FLASH_API_NORMAL), there is at most one write in all lists. *)
(***************************************************************************)
ErasedBefore(q, i) == \E e \in 1..i - 1 : q[e].sec = q[i].sec /\ q[e].type = "ERASING"

\* The buffer of write n fits the image of its sector: behind an erase it is blank
\* outside of the range that is written; otherwise it agrees with the flash there,
\* and in the range the flash is still blank or programmed from the buffer.
Buffered(n, image, erased) ==
  \A c \in Cells :
    IF erased THEN c \notin n.lo..n.hi => n.buf[c] = Blank
    ELSE IF c \in n.lo..n.hi THEN image[c] \in {Blank, n.buf[c]} ELSE image[c] = n.buf[c]

NodeFits(m, q, f, i) ==
  /\ Owner[q[i].sec] = m
  /\ q[i].type = "ERASING" => q[i].buf = ErasedImage
  /\ q[i].type = "WRITTING" => Buffered(q[i], f[q[i].sec], ErasedBefore(q, i))

ListFits(m, q, f) == \A i \in 1..Len(q) : NodeFits(m, q, f, i)

BufInv == \A m \in Mods : ListFits(m, queue[m], flash)

\* What a suspended write has programmed is what its buffer holds.
DoneInv ==
  hal.state = "PROGRAM" =>
    LET n == Head(queue[cur_mod]) IN \A c \in n.lo..hal.next - 1 : flash[n.sec][c] = n.buf[c]

\* A synchronous operation that was called with erased pages still finds them so.
SyncInv ==
  sync # NoSync =>
    LET n == sync.node
    IN  n.type = "WRITTING" =>
          /\ n.lo \in Cells /\ n.hi \in Cells
          /\ IsErased(n.sec, n.lo, n.hi)
          /\ \E v \in Values : n.buf = Fill(ErasedImage, n.lo, n.hi, v)

LEMMA OneBuffer ==
  ASSUME IInv, PoolsMatchLists, BuffLen <= 1,
         NEW m \in Mods, NEW i \in 1..Len(queue[m]), queue[m][i].type = "WRITTING"
  PROVE  /\ data_used = BuffLen
         /\ \A o \in Mods : \A j \in 1..Len(queue[o]) :
              queue[o][j].type = "WRITTING" => o = m /\ j = i
<1> DEFINE P == WritePlaces(queue)
           a == <<m, i>>
<1>1. queue \in [Mods -> Seq(Nodes)] /\ data_used \in Int /\ data_used <= BuffLen
  BY DEF IInv, TypeOK, ApiTypeOK
<1>2. IsFiniteSet(P)
  <2>1. P \in SUBSET Places(queue)
    BY DEF WritePlaces
  <2> HIDE DEF P
  <2> QED BY <1>1, <2>1, PlacesFinite, FS_Subset
<1>3. data_used = Cardinality(P)
  BY DEF PoolsMatchLists, Places, WritePlaces
<1>4. \A o \in Mods : \A j \in 1..Len(queue[o]) :
        queue[o][j].type = "WRITTING" => <<o, j>> \in P
  BY DEF WritePlaces, Places, Writes
<1>5. a \in P
  BY <1>4
<1> HIDE DEF P
<1>6. Cardinality(P) \in Nat /\ (Cardinality(P) = 0 <=> P = {})
  BY <1>2, FS_CardinalityType, FS_EmptySet
<1>7. Cardinality(P) = 1 /\ BuffLen = 1
  BY <1>1, <1>3, <1>5, <1>6, PoolAssumption
<1>8. P \ {a} = {}
  <2> HIDE DEF a
  <2>1. IsFiniteSet(P \ {a}) /\ Cardinality(P \ {a}) = Cardinality(P) - 1
    BY <1>2, <1>5, FS_RemoveElement
  <2>2. Cardinality(P \ {a}) = 0
    BY <1>7, <2>1
  <2> QED BY <2>1, <2>2, FS_EmptySet
<1>9. ASSUME NEW o \in Mods, NEW j \in 1..Len(queue[o]), queue[o][j].type = "WRITTING"
      PROVE  o = m /\ j = i
  <2>1. <<o, j>> = <<m, i>>
    BY <1>4, <1>8, <1>9
  <2> QED BY <2>1
<1>10. data_used = BuffLen
  BY <1>3, <1>7
<1> QED BY <1>9, <1>10

\* Programming a page that is blank, or holds the same already.
LEMMA WiredIs ==
  ASSUME NEW x \in Contents, NEW y \in {Blank, x}
  PROVE  Wired({y, x}) = x /\ Wired({x, y}) = x /\ Wired({x}) = x
<1>1. ASSUME NEW K, K = {y, x} \/ K = {x} PROVE Wired(K) = x
  <2>1. CASE x = Blank
    <3>1. K \ {Blank} = {}
      BY <1>1, <2>1
    <3> QED BY <2>1, <3>1 DEF Wired
  <2>2. CASE x # Blank
    <3>1. K \ {Blank} = {x}
      BY <1>1, <2>2
    <3>2. CASE x \in Values
      <4>1. \E v \in Values : {x} = {v}
        BY <3>2
      <4>2. (CHOOSE v \in Values : {x} = {v}) = x
        BY <3>2
      <4> QED BY <3>1, <4>1, <4>2 DEF Wired
    <3>3. CASE x \notin Values
      <4>1. x = Mixed
        BY <2>2, <3>3 DEF Contents
      <4>2. ~ \E v \in Values : {x} = {v}
        BY <3>3
      <4> QED BY <3>1, <4>1, <4>2 DEF Wired
    <3> QED BY <3>2, <3>3
  <2> QED BY <2>1, <2>2
<1>2. {x, y} = {y, x}
  OBVIOUS
<1> QED BY <1>1, <1>2

\* Programming on from page a.
LEMMA ProgramIs ==
  ASSUME NEW n \in Nodes, NEW image \in Images, Buffered(n, image, FALSE),
         NEW a \in Nat, n.lo <= a, \A c \in n.lo..a - 1 : image[c] = n.buf[c],
         NEW b \in Int, b <= n.hi,
         NEW done, done = Program(image, n.buf, a, b)
  PROVE  /\ Buffered(n, done, FALSE)
         /\ \A c \in n.lo..b : done[c] = n.buf[c]
<1>1. n.buf \in Images /\ n.lo \in 1..NumCells /\ n.hi \in 0..NumCells
  BY DEF Nodes
<1>2. ASSUME NEW c \in Cells, c \in n.lo..n.hi
      PROVE  done[c] = IF c <= b THEN n.buf[c] ELSE image[c]
  <2>1. PICK x : x = n.buf[c]
    OBVIOUS
  <2>2. PICK y : y = image[c]
    OBVIOUS
  <2>3. x \in Contents /\ y \in {Blank, x}
    <3>1. n.buf[c] \in Contents
      BY <1>1 DEF Images
    <3>2. image[c] \in {Blank, n.buf[c]}
      BY <1>2 DEF Buffered
    <3> QED BY <2>1, <2>2, <3>1, <3>2
  <2>4. CASE c \in a..b
    <3>1. done[c] = Wired({y, x})
      BY <2>1, <2>2, <2>4 DEF Program
    <3>2. done[c] = x
      BY <2>3, <3>1, WiredIs
    <3> QED BY <2>1, <2>4, <3>2
  <2>5. CASE c \notin a..b
    <3>1. done[c] = image[c]
      BY <2>5 DEF Program
    <3>2. c <= b => c \in n.lo..a - 1
      BY <1>1, <1>2, <2>5 DEF Cells
    <3> QED BY <3>1, <3>2
  <2> QED BY <2>4, <2>5
<1>3. ASSUME NEW c \in Cells, c \notin n.lo..n.hi PROVE done[c] = n.buf[c]
  <2>1. c \notin a..b
    BY <1>1, <1>3 DEF Cells
  <2> QED BY <1>3, <2>1 DEF Program, Buffered
<1>4. Buffered(n, done, FALSE)
  BY <1>2, <1>3 DEF Buffered
<1>5. ASSUME NEW c \in n.lo..b PROVE done[c] = n.buf[c]
  <2>1. c \in Cells /\ c \in n.lo..n.hi /\ c <= b
    BY <1>1, CellsAssumption DEF Cells
  <2> QED BY <1>2, <2>1
<1> QED BY <1>4, <1>5

-----------------------------------------------------------------------------
(***************************************************************************)
(* What a reader of a sector sees in a list, image being its flash.        *)
(***************************************************************************)
Seen(q, image, t) == IF On(q, t) = {} THEN image ELSE q[Newest(On(q, t))].buf

LEMMA SeenTop ==
  ASSUME NEW q \in Seq(Nodes), NEW t, NEW i, IsTop(q, t, i), NEW image
  PROVE  Seen(q, image, t) = q[i].buf
BY OneTop DEF Seen

LEMMA TopExists ==
  ASSUME NEW q \in Seq(Nodes), NEW t, On(q, t) # {}
  PROVE  \E i \in 1..Len(q) : IsTop(q, t, i) /\ q[i].sec = t
<1>1. IsTop(q, t, Newest(On(q, t)))
  BY NewestIsTop
<1> QED BY <1>1 DEF IsTop, On

\* A node that is gone was not the one to be read.
LEMMA WithoutSeen ==
  ASSUME NEW q \in Seq(Nodes), NEW i \in 1..Len(q), NEW r, IsWithout(r, q, i), NEW t,
         q[i].sec # t \/ \E j \in On(q, t) : i < j, NEW image
  PROVE  Seen(r, image, t) = Seen(q, image, t)
<1>1. /\ r \in Seq(Nodes) /\ Len(r) = Len(q) - 1 /\ Len(q) \in Nat
      /\ \A k \in 1..Len(r) : r[k] = q[Back(i, k)]
  BY DEF IsWithout
<1>2. /\ \A k \in 1..Len(r) : Back(i, k) \in 1..Len(q) /\ Back(i, k) # i
      /\ \A j, k \in 1..Len(r) : j < k <=> Back(i, j) < Back(i, k)
      /\ \A l \in 1..Len(q) : l # i => \E k \in 1..Len(r) : Back(i, k) = l
  BY ONLY <1>1, i \in 1..Len(q), BackIs
<1>3. \A k \in 1..Len(r) : k \in On(r, t) <=> Back(i, k) \in On(q, t)
  BY <1>1, <1>2 DEF On
<1>4. \A k \in On(r, t) : k \in 1..Len(r)
  BY DEF On
<1>5. \A k \in On(q, t) : k \in 1..Len(q)
  BY DEF On
<1>6. CASE On(q, t) = {}
  <2>1. On(r, t) = {}
    BY <1>3, <1>4, <1>6
  <2> QED BY <1>6, <2>1 DEF Seen
<1>7. CASE On(q, t) # {}
  <2>1. PICK j \in 1..Len(q) : IsTop(q, t, j) /\ q[j].sec = t
    BY <1>7, TopExists
  <2>2. j # i
    BY <2>1, <1>5 DEF IsTop
  <2>3. PICK k \in 1..Len(r) : Back(i, k) = j
    BY <1>2, <2>2
  <2>4. IsTop(r, t, k)
    <3>1. k \in On(r, t)
      BY <1>3, <2>1, <2>3 DEF IsTop
    <3>2. ASSUME NEW l \in On(r, t) PROVE l <= k
      <4>1. l \in 1..Len(r) /\ Back(i, l) \in 1..Len(q) /\ Back(i, l) <= Back(i, k)
        BY <1>2, <1>3, <1>4, <2>1, <2>3 DEF IsTop
      <4>2. ~(Back(i, k) < Back(i, l))
        BY <4>1, <1>2
      <4>3. ~(k < l)
        BY <4>1, <4>2, <1>2
      <4> QED BY <4>1, <4>3
    <3> QED BY <3>1, <3>2 DEF IsTop
  <2>5. Seen(q, image, t) = q[j].buf
    BY <2>1, SeenTop
  <2>6. Seen(r, image, t) = r[k].buf
    BY <1>1, <2>4, SeenTop
  <2> QED BY <1>1, <2>3, <2>5, <2>6
<1> QED BY <1>6, <1>7

\* A node at the end is the one to be read.
LEMMA WithSeen ==
  ASSUME NEW q \in Seq(Nodes), NEW n \in Nodes, NEW r, IsWith(r, q, n), NEW t, NEW image
  PROVE  Seen(r, image, t) = IF n.sec = t THEN n.buf ELSE Seen(q, image, t)
<1>1. /\ r \in Seq(Nodes) /\ Len(r) = Len(q) + 1 /\ Len(q) \in Nat
      /\ \A k \in 1..Len(q) : r[k] = q[k]
      /\ r[Len(q) + 1] = n
  BY DEF IsWith
<1>2. /\ n.sec = t => On(r, t) = Extended(On(q, t), Len(q) + 1)
      /\ n.sec # t => On(r, t) = On(q, t)
  <2>1. \E locked \in BOOLEAN : ~locked
    BY Zenon
  <2> QED BY <2>1, AppendOn
<1>3. \A k \in On(q, t) : k \in 1..Len(q)
  BY DEF On
<1>4. CASE n.sec = t
  <2>1. IsTop(r, t, Len(q) + 1)
    BY <1>1, <1>2, <1>3, <1>4 DEF IsTop, Extended
  <2> QED BY <1>1, <1>4, <2>1, SeenTop
<1>5. CASE n.sec # t
  <2>1. CASE On(q, t) = {}
    BY <1>2, <1>5, <2>1 DEF Seen
  <2>2. CASE On(q, t) # {}
    <3>1. PICK j \in 1..Len(q) : IsTop(q, t, j)
      BY <2>2, TopExists
    <3>2. IsTop(r, t, j)
      BY <1>2, <1>5, <3>1 DEF IsTop
    <3>3. Seen(q, image, t) = q[j].buf
      BY <3>1, SeenTop
    <3>4. Seen(r, image, t) = r[j].buf
      BY <1>1, <3>2, SeenTop
    <3> QED BY <1>1, <1>5, <3>3, <3>4
  <2> QED BY <2>1, <2>2
<1> QED BY <1>4, <1>5

-----------------------------------------------------------------------------
(***************************************************************************)
(* The buffers of a list that changes.                                     *)
(***************************************************************************)

\* The newest node of its sector is gone.
LEMMA WithoutFits ==
  ASSUME NEW q \in Seq(Nodes), NEW i \in 1..Len(q), NEW r, IsWithout(r, q, i),
         \A l \in 1..Len(q) : l # i /\ q[l].sec = q[i].sec => l < i,
         NEW m, NEW f, ListFits(m, q, f)
  PROVE  ListFits(m, r, f)
<1>1. /\ r \in Seq(Nodes) /\ Len(r) = Len(q) - 1 /\ Len(q) \in Nat
      /\ \A k \in 1..Len(r) : r[k] = q[Back(i, k)]
  BY DEF IsWithout
<1>2. /\ \A k \in 1..Len(r) : Back(i, k) \in 1..Len(q) /\ Back(i, k) # i
      /\ \A j, k \in 1..Len(r) : j < k <=> Back(i, j) < Back(i, k)
      /\ \A l \in 1..Len(q) : l # i => \E k \in 1..Len(r) : Back(i, k) = l
  BY ONLY <1>1, i \in 1..Len(q), BackIs
<1>3. ASSUME NEW k \in 1..Len(r)
      PROVE  ErasedBefore(r, k) = ErasedBefore(q, Back(i, k))
  <2>1. ASSUME NEW e \in 1..k - 1, r[e].sec = r[k].sec, r[e].type = "ERASING"
        PROVE  ErasedBefore(q, Back(i, k))
    <3>1. e \in 1..Len(r) /\ e < k
      BY <1>1
    <3>2. Back(i, e) \in 1..Len(q) /\ Back(i, e) < Back(i, k) /\ Back(i, k) \in 1..Len(q)
      BY <1>2, <3>1
    <3>3. Back(i, e) \in 1..Back(i, k) - 1
      BY <1>1, <3>2
    <3> QED BY <1>1, <2>1, <3>1, <3>3 DEF ErasedBefore
  <2>2. ASSUME NEW e \in 1..Back(i, k) - 1, q[e].sec = q[Back(i, k)].sec, q[e].type = "ERASING"
        PROVE  ErasedBefore(r, k)
    <3>1. Back(i, k) \in 1..Len(q) /\ Back(i, k) # i
      BY <1>2
    <3>2. e \in 1..Len(q) /\ e < Back(i, k)
      BY <1>1, <3>1
    <3>3. e # i
      BY <2>2, <3>1, <3>2
    <3>4. PICK d \in 1..Len(r) : Back(i, d) = e
      BY <1>2, <3>2, <3>3
    <3>5. d \in 1..k - 1
      BY <1>1, <1>2, <3>2, <3>4
    <3> QED BY <1>1, <2>2, <3>4, <3>5 DEF ErasedBefore
  <2>3. ErasedBefore(r, k) <=> ErasedBefore(q, Back(i, k))
    BY <2>1, <2>2 DEF ErasedBefore
  <2> QED BY <2>3, Zenon DEF ErasedBefore
<1>4. ASSUME NEW k \in 1..Len(r) PROVE NodeFits(m, r, f, k)
  <2>1. PICK l \in 1..Len(q) : l = Back(i, k)
    BY <1>2
  <2>2. NodeFits(m, q, f, l) /\ r[k] = q[l]
    BY <1>1, <2>1 DEF ListFits
  <2>3. ErasedBefore(r, k) = ErasedBefore(q, l)
    BY <1>3, <2>1
  <2> QED BY <2>2, <2>3, Zenon DEF NodeFits
<1> QED BY <1>4 DEF ListFits

LEMMA WithFits ==
  ASSUME NEW q \in Seq(Nodes), NEW n \in Nodes, NEW r, IsWith(r, q, n),
         NEW m, NEW f, ListFits(m, q, f), Owner[n.sec] = m,
         n.type = "ERASING" => n.buf = ErasedImage,
         NEW erased \in BOOLEAN,
         erased <=> \E e \in 1..Len(q) : q[e].sec = n.sec /\ q[e].type = "ERASING",
         n.type = "WRITTING" => Buffered(n, f[n.sec], erased)
  PROVE  ListFits(m, r, f)
<1>1. /\ r \in Seq(Nodes) /\ Len(r) = Len(q) + 1 /\ Len(q) \in Nat
      /\ \A k \in 1..Len(q) : r[k] = q[k]
      /\ r[Len(q) + 1] = n
  BY DEF IsWith
<1>2. ASSUME NEW k \in 1..Len(q) PROVE NodeFits(m, r, f, k)
  <2>1. r[k] = q[k] /\ \A e \in 1..k - 1 : r[e] = q[e]
    BY <1>1
  <2>2. ErasedBefore(r, k) = ErasedBefore(q, k)
    BY <2>1, Zenon DEF ErasedBefore
  <2>3. NodeFits(m, q, f, k)
    BY DEF ListFits
  <2> QED BY <2>1, <2>2, <2>3, Zenon DEF NodeFits
<1>3. NodeFits(m, r, f, Len(q) + 1)
  <2>1. Len(q) + 1 - 1 = Len(q)
    BY <1>1
  <2>2. ErasedBefore(r, Len(q) + 1) <=> erased
    BY <1>1, <2>1 DEF ErasedBefore
  <2>3. ErasedBefore(r, Len(q) + 1) = erased
    BY <2>2, Zenon DEF ErasedBefore
  <2> QED BY <1>1, <2>3, Zenon DEF NodeFits
<1>4. \A k \in 1..Len(r) : k \in 1..Len(q) \/ k = Len(q) + 1
  BY <1>1
<1> QED BY <1>2, <1>3, <1>4 DEF ListFits

\* r is what is left of q after deletions of unlocked nodes of sector s.
Walked(r, q, s, m, f) ==
  /\ r \in Seq(Nodes) /\ Len(r) <= Len(q) /\ (Len(r) = Len(q) => r = q)
  /\ ListFits(m, q, f) => ListFits(m, r, f)
  /\ \A t \in Sectors : t # s => Seen(r, f[t], t) = Seen(q, f[t], t)

LEMMA DeletionFits ==
  ASSUME NEW q \in Seq(Nodes), NEW locked \in BOOLEAN, NEW s,
         NEW r, r = DeleteNewest(q, locked, s), NEW m, NEW f
  PROVE  Walked(r, q, s, m, f)
<1>1. CASE r = q
  BY <1>1 DEF Walked
<1>2. ASSUME NEW i, Deletes(r, q, locked, s, i) PROVE Walked(r, q, s, m, f)
  <2>1. /\ i \in Unlocked(q, locked, s) /\ i \in 1..Len(q) /\ IsWithout(r, q, i)
        /\ \A j \in Unlocked(q, locked, s) : j <= i
        /\ locked => i # 1
    BY <1>2 DEF Deletes
  <2>2. q[i].sec = s
    BY <2>1 DEF Unlocked, On
  <2>3. r \in Seq(Nodes) /\ Len(r) = Len(q) - 1 /\ Len(q) \in Nat
    BY <2>1 DEF IsWithout
  <2>4. ASSUME NEW l \in 1..Len(q), l # i, q[l].sec = q[i].sec PROVE l < i
    <3>1. CASE l \in Unlocked(q, locked, s)
      BY <2>1, <2>4, <3>1
    <3>2. CASE l \notin Unlocked(q, locked, s)
      <4>1. locked /\ l = 1
        BY <2>2, <2>4, <3>2 DEF Unlocked, On
      <4> QED BY <2>1, <2>3, <4>1
    <3> QED BY <3>1, <3>2
  <2>5. ListFits(m, q, f) => ListFits(m, r, f)
    BY <2>1, <2>4, WithoutFits
  <2>6. \A t \in Sectors : t # s => Seen(r, f[t], t) = Seen(q, f[t], t)
    BY <2>1, <2>2, WithoutSeen
  <2> QED BY <2>3, <2>5, <2>6 DEF Walked
<1> QED BY <1>1, <1>2, DeleteNewestIs

LEMMA PendingFits ==
  ASSUME NEW q \in Seq(Nodes), NEW locked \in BOOLEAN, NEW s,
         NEW r, r = DeletePending(q, locked, s), NEW m, NEW f
  PROVE  Walked(r, q, s, m, f)
<1>1. PICK o : o = DeleteNewest(q, locked, s)
  OBVIOUS
<1>2. Walked(o, q, s, m, f)
  BY <1>1, DeletionFits
<1>3. o \in Seq(Nodes)
  BY <1>2 DEF Walked
<1>4. r = DeleteNewest(o, locked, s)
  BY <1>1 DEF DeletePending
<1>5. Walked(r, o, s, m, f)
  BY <1>3, <1>4, DeletionFits
<1>6. Len(q) \in Nat /\ Len(o) \in Nat /\ Len(r) \in Nat
  BY <1>3, <1>5 DEF Walked
<1> QED BY <1>2, <1>5, <1>6 DEF Walked

\* Pages lo..hi, which a reader saw blank, are merged into write n.
LEMMA MergedBuffered ==
  ASSUME NEW n \in Nodes, NEW lo \in Cells, NEW hi \in Cells, lo <= hi, NEW v \in Values,
         NEW image, NEW erased \in BOOLEAN, Buffered(n, image, erased),
         \A c \in lo..hi : n.buf[c] = Blank,
         NEW o, o = MergedNode(n, lo, hi, v)
  PROVE  Buffered(o, image, erased)
<1>1. /\ o.lo = MinOf(n.lo, lo) /\ o.hi = MaxOf(n.hi, hi)
      /\ o.buf = Fill(n.buf, lo, hi, v)
  BY MergedNodeIs
<1>2. n.lo \in Int /\ n.hi \in Int /\ lo \in Int /\ hi \in Int
  BY DEF Nodes, Cells
<1>3. ASSUME NEW c \in Cells, c \in lo..hi \/ c \in n.lo..n.hi
      PROVE  c \in o.lo..o.hi
  BY <1>1, <1>2, <1>3 DEF MinOf, MaxOf, Cells
<1>4. ASSUME NEW c \in Cells, c \notin lo..hi PROVE o.buf[c] = n.buf[c]
  BY <1>1, <1>4 DEF Fill
<1>5. CASE erased
  <2>1. ASSUME NEW c \in Cells, c \notin o.lo..o.hi PROVE o.buf[c] = Blank
    <3>1. c \notin lo..hi /\ c \notin n.lo..n.hi
      BY <1>3, <2>1
    <3> QED BY <1>4, <1>5, <3>1 DEF Buffered
  <2> QED BY <1>5, <2>1 DEF Buffered
<1>6. CASE ~erased
  <2>1. ASSUME NEW c \in Cells, c \in lo..hi PROVE image[c] = Blank
    <3>1. n.buf[c] = Blank
      BY <2>1
    <3>2. CASE c \in n.lo..n.hi
      BY <1>6, <3>1, <3>2 DEF Buffered
    <3>3. CASE c \notin n.lo..n.hi
      BY <1>6, <3>1, <3>3 DEF Buffered
    <3> QED BY <3>2, <3>3
  <2>2. ASSUME NEW c \in Cells, c \in o.lo..o.hi PROVE image[c] \in {Blank, o.buf[c]}
    <3>1. CASE c \in lo..hi
      BY <2>1, <3>1
    <3>2. CASE c \notin lo..hi
      <4>1. o.buf[c] = n.buf[c]
        BY <1>4, <3>2
      <4> QED BY <1>6, <4>1 DEF Buffered
    <3> QED BY <3>1, <3>2
  <2>3. ASSUME NEW c \in Cells, c \notin o.lo..o.hi PROVE image[c] = o.buf[c]
    <3>1. c \notin lo..hi /\ c \notin n.lo..n.hi
      BY <1>3, <2>3
    <3> QED BY <1>4, <1>6, <3>1 DEF Buffered
  <2> QED BY <1>6, <2>2, <2>3 DEF Buffered
<1> QED BY <1>5, <1>6

LEMMA MergeFits ==
  ASSUME NEW q \in Seq(Nodes), NEW i \in 1..Len(q), q[i].type = "WRITTING",
         NEW lo \in Cells, NEW hi \in Cells, lo <= hi, NEW v \in Values,
         \A c \in lo..hi : q[i].buf[c] = Blank,
         NEW r, MergesInto(r, q, i, lo, hi, v),
         NEW m, NEW f, ListFits(m, q, f)
  PROVE  ListFits(m, r, f)
<1>1. Alike(r, q)
  BY MergedAlike
<1>2. /\ r \in Seq(Nodes) /\ Len(r) = Len(q) /\ Len(q) \in Nat
      /\ \A k \in 1..Len(q) : r[k].type = q[k].type /\ r[k].sec = q[k].sec
      /\ \A k \in 1..Len(q) : k # i => r[k] = q[k]
  BY <1>1 DEF Alike, MergesInto
<1>3. ASSUME NEW k \in 1..Len(q) PROVE ErasedBefore(r, k) = ErasedBefore(q, k)
  <2>1. \A e \in 1..k - 1 : e \in 1..Len(q)
    BY <1>2
  <2>2. ErasedBefore(r, k) <=> ErasedBefore(q, k)
    BY <1>2, <2>1 DEF ErasedBefore
  <2> QED BY <2>2, Zenon DEF ErasedBefore
<1>4. NodeFits(m, r, f, i)
  <2>1. NodeFits(m, q, f, i)
    BY DEF ListFits
  <2>2. PICK n : n = q[i]
    OBVIOUS
  <2>3. PICK o : o = r[i]
    OBVIOUS
  <2>4. n \in Nodes /\ o = MergedNode(n, lo, hi, v)
    BY <2>2, <2>3 DEF MergesInto
  <2>5. o.type = "WRITTING" /\ o.sec = n.sec
    BY <1>2, <2>2, <2>3
  <2>6. PICK erased \in BOOLEAN : erased = ErasedBefore(q, i)
    BY Zenon DEF ErasedBefore
  <2>7. Buffered(n, f[n.sec], erased)
    BY <2>1, <2>2, <2>6, Zenon DEF NodeFits
  <2>8. \A c \in lo..hi : n.buf[c] = Blank
    BY <2>2
  <2>9. Buffered(o, f[n.sec], erased)
    BY <2>4, <2>7, <2>8, MergedBuffered
  <2>10. Owner[o.sec] = m /\ o.type # "ERASING"
    BY <2>1, <2>2, <2>5 DEF NodeFits
  <2> QED BY <1>3, <2>3, <2>5, <2>6, <2>9, <2>10, Zenon DEF NodeFits
<1>5. ASSUME NEW k \in 1..Len(q), k # i PROVE NodeFits(m, r, f, k)
  <2>1. NodeFits(m, q, f, k) /\ r[k] = q[k]
    BY <1>2, <1>5 DEF ListFits
  <2> QED BY <1>3, <2>1, Zenon DEF NodeFits
<1> QED BY <1>2, <1>4, <1>5 DEF ListFits

-----------------------------------------------------------------------------
(***************************************************************************)
(* What a reader sees after a step.                                        *)
(***************************************************************************)
ViewsStay == \A t \in Sectors : View(t)' = View(t)

ViewChanges(s, image) ==
  View(s)' = image /\ \A t \in Sectors : t # s => View(t)' = View(t)

LEMMA ViewIs ==
  ASSUME NEW t
  PROVE  /\ View(t) = Seen(queue[Owner[t]], flash[t], t)
         /\ View(t)' = Seen(queue'[Owner[t]], flash'[t], t)
BY DEF View, Seen, On, Newest

\* A client call changes one list and no flash.
LEMMA ListViews ==
  ASSUME IInv, NEW m \in Mods, NEW r, queue' = [queue EXCEPT ![m] = r],
         UNCHANGED halVars, NEW t \in Sectors
  PROVE  View(t)' = IF Owner[t] = m THEN Seen(r, flash[t], t) ELSE View(t)
<1>1. queue \in [Mods -> Seq(Nodes)] /\ Owner[t] \in Mods /\ flash' = flash
  BY ModAssumption DEF IInv, TypeOK, ApiTypeOK, halVars
<1>2. CASE Owner[t] = m
  <2>1. queue'[Owner[t]] = r
    BY <1>1, <1>2
  <2> QED BY <1>1, <1>2, <2>1, ViewIs
<1>3. CASE Owner[t] # m
  <2>1. queue'[Owner[t]] = queue[Owner[t]]
    BY <1>1, <1>3
  <2> QED BY <1>1, <1>3, <2>1, ViewIs
<1> QED BY <1>2, <1>3

\* The node being performed is not touched, so the driver's side of it stays.
LEMMA ListStep ==
  ASSUME IInv, BufInv, DoneInv, NEW m \in Mods, NEW r, queue' = [queue EXCEPT ![m] = r],
         UNCHANGED <<halVars, cur, cur_mod>>, LockedNodeStays, ListFits(m, r, flash)
  PROVE  BufInv' /\ DoneInv'
<1>1. queue \in [Mods -> Seq(Nodes)] /\ flash' = flash /\ hal' = hal
  BY DEF IInv, TypeOK, ApiTypeOK, halVars
<1>2. ASSUME NEW o \in Mods PROVE ListFits(o, queue'[o], flash')
  <2>1. CASE o = m
    BY <1>1, <2>1
  <2>2. CASE o # m
    <3>1. queue'[o] = queue[o]
      BY <1>1, <2>2
    <3> QED BY <1>1, <3>1 DEF BufInv
  <2> QED BY <2>1, <2>2
<1>3. BufInv'
  BY <1>2 DEF BufInv, ListFits, NodeFits, Buffered, ErasedBefore
<1>4. ASSUME hal.state = "PROGRAM" PROVE Head(queue'[cur_mod]) = Head(queue[cur_mod])
  <2>1. cur_mod \in Mods /\ cur[cur_mod]
    BY <1>4 DEF IInv, DriverMatchesQueue, SuspendedIsCurrent
  <2> QED BY <2>1 DEF LockedNodeStays
<1>5. DoneInv'
  BY <1>1, <1>4 DEF DoneInv
<1> QED BY <1>3, <1>5

LEMMA EraseIsLocked ==
  ASSUME IInv, NEW s \in Sectors, norflash_api_erase(s)
  PROVE  LockedNodeStays /\ UNCHANGED <<halVars, cur, cur_mod>>
<1>1. Core
  BY DEF IInv, Core, TypeOK
<1>2. PICK q : QueueChange(Owner[s], q)
  BY <1>1, EraseChange
<1> QED BY <1>1, <1>2, QueueCore, ModAssumption DEF QueueChange

LEMMA WriteIsLocked ==
  ASSUME IInv, NEW s \in Sectors, NEW lo \in Cells, NEW hi \in Cells, NEW v \in Values,
         norflash_api_write(s, lo, hi, v)
  PROVE  LockedNodeStays /\ UNCHANGED <<halVars, cur, cur_mod>>
<1>1. Core
  BY DEF IInv, Core, TypeOK
<1>2. PICK q : QueueChange(Owner[s], q)
  BY <1>1, WriteChange
<1> QED BY <1>1, <1>2, QueueCore, ModAssumption DEF QueueChange

\* An asynchronous erase is seen at once, or refused.
LEMMA EraseReads ==
  ASSUME IInv, ShapeInv, BufInv, DoneInv, NEW s \in Sectors, norflash_api_erase(s)
  PROVE  /\ BufInv' /\ DoneInv'
         /\ ViewsStay \/ ViewChanges(s, ErasedImage)
<1>1. PICK m : m = Owner[s]
  OBVIOUS
<1>2. PICK q : q = queue[m]
  OBVIOUS
<1>3. PICK locked : locked = cur[m]
  OBVIOUS
<1>4. PICK kept : kept = DeletePending(q, locked, s)
  OBVIOUS
<1>5. ErasesTo(m, q, locked, s, kept)
  BY <1>1, <1>2, <1>3, <1>4, EraseIs
<1>6. /\ m \in Mods /\ q \in Seq(Nodes) /\ Len(q) \in Nat /\ locked \in BOOLEAN
      /\ kept \in Seq(Nodes) /\ Len(kept) \in Nat /\ Len(kept) <= Len(q)
      /\ Unlocked(kept, locked, s) = {}
      /\ locked => q # <<>> /\ kept # <<>> /\ kept[1] = q[1]
  BY <1>5 DEF ErasesTo
<1>7. /\ LockedNodeStays /\ UNCHANGED <<halVars, cur, cur_mod>>
      /\ UNCHANGED halVars
  BY EraseIsLocked
<1>8. ListFits(m, q, flash)
  BY <1>2, <1>6 DEF BufInv
<1>9. Walked(kept, q, s, m, flash)
  BY <1>4, <1>6, PendingFits
<1>10. /\ ListFits(m, kept, flash)
       /\ \A t \in Sectors : t # s => Seen(kept, flash[t], t) = Seen(q, flash[t], t)
       /\ Len(kept) = Len(q) => kept = q
  BY <1>8, <1>9 DEF Walked
<1>11. \A t \in Sectors : Owner[t] = m => View(t) = Seen(q, flash[t], t)
  BY <1>2, ViewIs
<1>12. CASE EraseMerged(q, locked, s) /\ queue' = [queue EXCEPT ![m] = kept]
  <2>1. BufInv' /\ DoneInv'
    BY <1>6, <1>7, <1>10, <1>12, ListStep
  <2>2. locked /\ q[1].sec = s /\ q[1].type = "ERASING" /\ 1 \in 1..Len(kept) /\ 1 \in 1..Len(q)
    BY <1>6, <1>12 DEF EraseMerged
  <2>3. IsTop(kept, s, 1)
    <3>1. 1 \in On(kept, s)
      BY <1>6, <2>2 DEF On
    <3>2. \A j \in On(kept, s) : j = 1
      BY <1>6 DEF Unlocked
    <3> QED BY <3>1, <3>2 DEF IsTop
  <2>4. kept[1].buf = ErasedImage
    BY <1>6, <1>8, <2>2 DEF ListFits, NodeFits
  <2>5. Seen(kept, flash[s], s) = ErasedImage
    BY <1>6, <2>3, <2>4, SeenTop
  <2>6. View(s)' = ErasedImage
    BY <1>1, <1>6, <1>7, <1>12, <2>5, ListViews
  <2>7. ASSUME NEW t \in Sectors, t # s PROVE View(t)' = View(t)
    BY <1>6, <1>7, <1>10, <1>11, <1>12, <2>7, ListViews
  <2> QED BY <2>1, <2>6, <2>7 DEF ViewChanges
<1>13. CASE /\ opera_used - (Len(q) - Len(kept)) = OpraLen
            /\ queue' = [queue EXCEPT ![m] = kept]
  <2>1. Len(kept) = Len(q)
    BY <1>6, <1>13, PoolAssumption DEF IInv, TypeOK, ApiTypeOK
  <2>2. kept = q
    BY <1>10, <2>1
  <2>3. BufInv' /\ DoneInv'
    BY <1>6, <1>7, <1>10, <1>13, ListStep
  <2>4. ASSUME NEW t \in Sectors PROVE View(t)' = View(t)
    BY <1>6, <1>7, <1>11, <1>13, <2>2, ListViews
  <2> QED BY <2>3, <2>4 DEF ViewsStay
<1>14. CASE queue' = [queue EXCEPT ![m] = Append(kept, ErasingNode(s))]
  <2>1. PICK n : n = ErasingNode(s)
    OBVIOUS
  <2>2. n \in Nodes /\ n.type = "ERASING" /\ n.sec = s /\ n.buf = ErasedImage
    BY <2>1, ErasingNodeIs
  <2>3. PICK r : r = Append(kept, n)
    OBVIOUS
  <2>4. IsWith(r, kept, n)
    BY <1>6, <2>2, <2>3, AppendWrites
  <2>5. queue' = [queue EXCEPT ![m] = r]
    BY <1>14, <2>1, <2>3
  <2>6. ListFits(m, r, flash)
    <3>1. PICK erased \in BOOLEAN :
            erased = \E e \in 1..Len(kept) : kept[e].sec = n.sec /\ kept[e].type = "ERASING"
      BY Zenon
    <3>2. n.type # "WRITTING" /\ Owner[n.sec] = m
      BY <1>1, <2>2
    <3> QED BY <1>6, <1>10, <2>2, <2>4, <3>1, <3>2, WithFits
  <2>7. BufInv' /\ DoneInv'
    BY <1>6, <1>7, <2>5, <2>6, ListStep
  <2>8. \A t \in Sectors : Seen(r, flash[t], t) =
                           IF s = t THEN ErasedImage ELSE Seen(kept, flash[t], t)
    BY <1>6, <2>2, <2>4, WithSeen
  <2>9. View(s)' = ErasedImage
    BY <1>1, <1>6, <1>7, <2>5, <2>8, ListViews
  <2>10. ASSUME NEW t \in Sectors, t # s PROVE View(t)' = View(t)
    BY <1>6, <1>7, <1>10, <1>11, <2>5, <2>8, <2>10, ListViews
  <2> QED BY <2>7, <2>9, <2>10 DEF ViewChanges
<1> QED BY <1>5, <1>12, <1>13, <1>14 DEF ErasesTo

\* A merge is seen by the readers of the write's sector.
LEMMA MergeSeen ==
  ASSUME NEW q \in Seq(Nodes), NEW i \in 1..Len(q),
         NEW lo \in Cells, NEW hi \in Cells, NEW v \in Values,
         NEW r, MergesInto(r, q, i, lo, hi, v), NEW t, NEW image
  PROVE  /\ IsTop(q, t, i) => Seen(r, image, t) = Fill(q[i].buf, lo, hi, v)
         /\ q[i].sec # t => Seen(r, image, t) = Seen(q, image, t)
<1>1. Alike(r, q)
  BY MergedAlike
<1>2. r \in Seq(Nodes) /\ Len(r) = Len(q) /\ \A k \in 1..Len(q) : k # i => r[k] = q[k]
  BY <1>1 DEF Alike, MergesInto
<1>3. On(r, t) = On(q, t)
  BY <1>1 DEF Alike, On
<1>4. ASSUME IsTop(q, t, i) PROVE Seen(r, image, t) = Fill(q[i].buf, lo, hi, v)
  <2>1. IsTop(r, t, i)
    BY <1>3, <1>4 DEF IsTop
  <2>2. Seen(r, image, t) = r[i].buf
    BY <1>2, <2>1, SeenTop
  <2>3. PICK n : n = q[i]
    OBVIOUS
  <2>4. n \in Nodes /\ r[i] = MergedNode(n, lo, hi, v)
    BY <2>3 DEF MergesInto
  <2>5. r[i].buf = Fill(n.buf, lo, hi, v)
    BY <2>4, MergedNodeIs
  <2> QED BY <2>2, <2>3, <2>5
<1>5. ASSUME q[i].sec # t PROVE Seen(r, image, t) = Seen(q, image, t)
  <2>1. CASE On(q, t) = {}
    BY <1>3, <2>1 DEF Seen
  <2>2. CASE On(q, t) # {}
    <3>1. PICK j \in 1..Len(q) : IsTop(q, t, j) /\ q[j].sec = t
      BY <2>2, TopExists
    <3>2. r[j] = q[j] /\ IsTop(r, t, j)
      BY <1>2, <1>3, <1>5, <3>1 DEF IsTop
    <3> QED BY <1>2, <3>1, <3>2, SeenTop
  <2> QED BY <2>1, <2>2
<1> QED BY <1>4, <1>5

\* The walk of _w_opera_add stops at the sector's newest node if that is a write it may
\* change.
LEMMA StopIsTop ==
  ASSUME NEW q \in Seq(Nodes), NEW locked \in BOOLEAN, NEW s, WriteMerged(q, locked, s),
         NEW i, i = Newest(Stops(q, locked, s))
  PROVE  i \in 1..Len(q) /\ q[i].type = "WRITTING" /\ q[i].sec = s /\ IsTop(q, s, i)
<1>1. /\ i \in Stops(q, locked, s) /\ i \in 1..Len(q) /\ q[i].sec = s
      /\ \A j \in Stops(q, locked, s) : j <= i
  BY StopIs DEF WriteMerged
<1>2. q[i].type = "WRITTING"
  BY DEF WriteMerged
<1>3. ASSUME NEW j \in On(q, s) PROVE j <= i
  <2>1. CASE j \in Stops(q, locked, s)
    BY <1>1, <2>1
  <2>2. CASE j \notin Stops(q, locked, s)
    BY <1>1, <2>2 DEF Stops, Unlocked
  <2> QED BY <2>1, <2>2
<1> QED BY <1>1, <1>2, <1>3 DEF IsTop, On

\* In a list without writes the walk stops at the sector's newest erase, if it has one.
LEMMA NoWriteBase ==
  ASSUME NEW q \in Seq(Nodes), NEW locked \in BOOLEAN, NEW s \in Sectors, NEW m,
         \A j \in 1..Len(q) : q[j].type # "WRITTING", ListFits(m, q, flash)
  PROVE  /\ Seen(q, flash[s], s) = BaseOf(q, locked, s)
         /\ Stops(q, locked, s) # {} <=>
              \E e \in 1..Len(q) : q[e].sec = s /\ q[e].type = "ERASING"
<1>1. \A j \in 1..Len(q) : q[j].type = "ERASING"
  <2> SUFFICES ASSUME NEW j \in 1..Len(q) PROVE q[j].type = "ERASING"
    OBVIOUS
  <2>1. q[j] \in Nodes /\ q[j].type # "WRITTING"
    OBVIOUS
  <2> QED BY <2>1 DEF Nodes
<1>2. Stops(q, locked, s) = On(q, s)
  BY <1>1 DEF Stops, On
<1>3. ASSUME On(q, s) # {} PROVE Seen(q, flash[s], s) = ErasedImage
  <2>1. PICK j \in 1..Len(q) : IsTop(q, s, j)
    BY <1>3, TopExists
  <2>2. q[j].buf = ErasedImage
    BY <1>1 DEF ListFits, NodeFits
  <2> QED BY <2>1, <2>2, SeenTop
<1>4. Seen(q, flash[s], s) = BaseOf(q, locked, s)
  BY <1>2, <1>3 DEF BaseOf, Seen
<1> QED BY <1>1, <1>2, <1>4 DEF On

\* An asynchronous write is seen at once, or refused.
LEMMA WriteReads ==
  ASSUME IInv, PoolsMatchLists, BufInv, DoneInv, BuffLen <= 1,
         NEW s \in Sectors, NEW lo \in Cells, NEW hi \in Cells, lo <= hi, NEW v \in Values,
         norflash_api_write(s, lo, hi, v)
  PROVE  /\ BufInv' /\ DoneInv'
         /\ ViewsStay \/ ViewChanges(s, Fill(View(s), lo, hi, v))
<1>1. PICK m : m = Owner[s]
  OBVIOUS
<1>2. PICK q : q = queue[m]
  OBVIOUS
<1>3. PICK locked : locked = cur[m]
  OBVIOUS
<1>4. WritesTo(m, q, locked, s, lo, hi, v)
  BY <1>1, <1>2, <1>3, WriteIs
<1>5. m \in Mods /\ q \in Seq(Nodes) /\ Len(q) \in Nat /\ locked \in BOOLEAN
  BY <1>4 DEF WritesTo
<1>6. /\ LockedNodeStays /\ UNCHANGED <<halVars, cur, cur_mod>>
      /\ UNCHANGED halVars
  BY WriteIsLocked
<1>7. ListFits(m, q, flash)
  BY <1>2, <1>5 DEF BufInv
<1>8. \A t \in Sectors : Owner[t] = m => View(t) = Seen(q, flash[t], t)
  BY <1>2, ViewIs
<1>9. \A c \in lo..hi : View(s)[c] = Blank
  BY DEF norflash_api_write, IsErased
<1>10. CASE /\ WriteMerged(q, locked, s)
            /\ \E r : /\ MergesInto(r, q, Newest(Stops(q, locked, s)), lo, hi, v)
                      /\ queue' = [queue EXCEPT ![m] = r]
  <2>1. PICK i : i = Newest(Stops(q, locked, s))
    OBVIOUS
  <2>2. i \in 1..Len(q) /\ q[i].type = "WRITTING" /\ q[i].sec = s /\ IsTop(q, s, i)
    BY <1>5, <1>10, <2>1, StopIsTop
  <2>3. PICK r : MergesInto(r, q, i, lo, hi, v) /\ queue' = [queue EXCEPT ![m] = r]
    BY <1>10, <2>1
  <2>4. View(s) = q[i].buf
    BY <1>1, <1>5, <1>8, <2>2, SeenTop
  <2>5. \A c \in lo..hi : q[i].buf[c] = Blank
    BY <1>9, <2>4
  <2>6. ListFits(m, r, flash)
    BY <1>5, <1>7, <2>2, <2>3, <2>5, MergeFits
  <2>7. BufInv' /\ DoneInv'
    BY <1>5, <1>6, <2>3, <2>6, ListStep
  <2>8. Seen(r, flash[s], s) = Fill(q[i].buf, lo, hi, v)
    BY <1>5, <2>2, <2>3, MergeSeen
  <2>9. View(s)' = Fill(View(s), lo, hi, v)
    BY <1>1, <1>5, <1>6, <2>3, <2>4, <2>8, ListViews
  <2>10. ASSUME NEW t \in Sectors, t # s PROVE View(t)' = View(t)
    <3>1. Seen(r, flash[t], t) = Seen(q, flash[t], t)
      BY <1>5, <2>2, <2>3, <2>10, MergeSeen
    <3> QED BY <1>5, <1>6, <1>8, <2>3, <3>1, ListViews
  <2> QED BY <2>7, <2>9, <2>10 DEF ViewChanges
<1>11. CASE UNCHANGED <<queue, opera_used, data_used>>
  <2>1. queue' = [queue EXCEPT ![m] = q]
    BY <1>2, <1>5, <1>11 DEF IInv, TypeOK, ApiTypeOK
  <2>2. BufInv' /\ DoneInv'
    BY <1>5, <1>6, <1>7, <2>1, ListStep
  <2>3. ASSUME NEW t \in Sectors PROVE View(t)' = View(t)
    BY <1>5, <1>6, <1>8, <2>1, ListViews
  <2> QED BY <2>2, <2>3 DEF ViewsStay
<1>12. CASE /\ data_used # BuffLen
            /\ queue' = [queue EXCEPT ![m] = Append(q, NewWrite(q, locked, s, lo, hi, v))]
  <2>1. PICK n : n = NewWrite(q, locked, s, lo, hi, v)
    OBVIOUS
  <2>2. /\ n \in Nodes /\ n.type = "WRITTING" /\ n.sec = s /\ n.lo = lo /\ n.hi = hi
        /\ n.buf = Fill(BaseOf(q, locked, s), lo, hi, v)
    BY <2>1, NewWriteIs
  <2>3. PICK r : r = Append(q, n)
    OBVIOUS
  <2>4. IsWith(r, q, n)
    BY <1>5, <2>2, <2>3, AppendWrites
  <2>5. queue' = [queue EXCEPT ![m] = r]
    BY <1>12, <2>1, <2>3
  <2>6. \A j \in 1..Len(q) : q[j].type # "WRITTING"
    BY <1>2, <1>5, <1>12, OneBuffer
  <2>7. /\ View(s) = BaseOf(q, locked, s)
        /\ Stops(q, locked, s) # {} <=>
             \E e \in 1..Len(q) : q[e].sec = s /\ q[e].type = "ERASING"
    BY <1>1, <1>5, <1>7, <1>8, <2>6, NoWriteBase
  <2>8. PICK erased \in BOOLEAN : erased <=> Stops(q, locked, s) # {}
    BY Zenon
  <2>9. Buffered(n, flash[n.sec], erased)
    <3>1. ASSUME NEW c \in Cells, c \notin lo..hi PROVE n.buf[c] = View(s)[c]
      BY <2>2, <2>7, <3>1 DEF Fill
    <3>2. CASE erased
      <4>1. View(s) = ErasedImage
        BY <2>7, <2>8, <3>2 DEF BaseOf
      <4> QED BY <2>2, <3>1, <3>2, <4>1 DEF Buffered, ErasedImage
    <3>3. CASE ~erased
      <4>1. View(s) = flash[s]
        BY <2>7, <2>8, <3>3 DEF BaseOf
      <4> QED BY <1>9, <2>2, <3>1, <3>3, <4>1 DEF Buffered
    <3> QED BY <3>2, <3>3
  <2>10. erased <=> \E e \in 1..Len(q) : q[e].sec = n.sec /\ q[e].type = "ERASING"
    BY <2>2, <2>7, <2>8
  <2>11. ListFits(m, r, flash)
    BY <1>1, <1>5, <1>7, <2>2, <2>4, <2>9, <2>10, WithFits
  <2>12. BufInv' /\ DoneInv'
    BY <1>5, <1>6, <2>5, <2>11, ListStep
  <2>13. \A t \in Sectors : Seen(r, flash[t], t) = IF s = t THEN n.buf ELSE Seen(q, flash[t], t)
    BY <1>5, <2>2, <2>4, WithSeen
  <2>14. View(s)' = Fill(View(s), lo, hi, v)
    BY <1>1, <1>5, <1>6, <2>2, <2>5, <2>7, <2>13, ListViews
  <2>15. ASSUME NEW t \in Sectors, t # s PROVE View(t)' = View(t)
    BY <1>5, <1>6, <1>8, <2>5, <2>13, <2>15, ListViews
  <2> QED BY <2>12, <2>14, <2>15 DEF ViewChanges
<1> QED BY <1>4, <1>10, <1>11, <1>12 DEF WritesTo

-----------------------------------------------------------------------------
(***************************************************************************)
(* What performing the oldest node does to the flash.                      *)
(***************************************************************************)

\* Only sector s may differ.
SameBut(f, g, s) == \A t \in Sectors : t # s => g[t] = f[t]

\* No list holds two writes.
OneWrite(q) == \A i, j \in 1..Len(q) : q[i].type = "WRITTING" /\ q[j].type = "WRITTING" => i = j

\* The other modules' sectors are not touched.
LEMMA OtherFits ==
  ASSUME NEW q \in Seq(Nodes), NEW m, NEW f, NEW g, NEW s, SameBut(f, g, s),
         Owner[s] # m, ListFits(m, q, f)
  PROVE  ListFits(m, q, g)
<1> SUFFICES ASSUME NEW i \in 1..Len(q) PROVE NodeFits(m, q, g, i)
  BY DEF ListFits
<1>1. NodeFits(m, q, f, i) /\ q[i] \in Nodes
  BY DEF ListFits
<1>2. g[q[i].sec] = f[q[i].sec]
  <2>1. q[i].sec \in Sectors /\ Owner[q[i].sec] = m
    BY <1>1 DEF Nodes, NodeFits
  <2> QED BY <2>1 DEF SameBut
<1> QED BY <1>1, <1>2, Zenon DEF NodeFits

\* The oldest node is suspended: the erase left anything, the write what it says.
LEMMA SuspendedFits ==
  ASSUME NEW q \in Seq(Nodes), q # <<>>, OneWrite(q), NEW m, NEW f, ListFits(m, q, f),
         NEW g, SameBut(f, g, q[1].sec),
         q[1].type = "WRITTING" => Buffered(q[1], g[q[1].sec], FALSE)
  PROVE  ListFits(m, q, g)
<1> SUFFICES ASSUME NEW i \in 1..Len(q) PROVE NodeFits(m, q, g, i)
  BY DEF ListFits
<1>1. NodeFits(m, q, f, i) /\ q[i] \in Nodes /\ q[1] \in Nodes /\ 1 \in 1..Len(q)
  BY DEF ListFits
<1>2. CASE q[i].sec # q[1].sec
  <2>1. g[q[i].sec] = f[q[i].sec]
    BY <1>1, <1>2 DEF SameBut, Nodes
  <2> QED BY <1>1, <2>1, Zenon DEF NodeFits
<1>3. CASE q[i].type # "WRITTING"
  BY <1>1, <1>3 DEF NodeFits
<1>4. CASE q[i].sec = q[1].sec /\ q[i].type = "WRITTING" /\ q[1].type = "WRITTING"
  <2>1. i = 1
    BY <1>1, <1>4 DEF OneWrite
  <2>2. ErasedBefore(q, i) = FALSE
    BY <2>1 DEF ErasedBefore
  <2>3. Buffered(q[i], g[q[i].sec], ErasedBefore(q, i))
    BY <1>4, <2>1, <2>2
  <2> QED BY <1>1, <1>4, <2>3, Zenon DEF NodeFits
<1>5. CASE q[i].sec = q[1].sec /\ q[i].type = "WRITTING" /\ q[1].type # "WRITTING"
  <2>1. q[1].type = "ERASING" /\ i # 1
    BY <1>1, <1>5 DEF Nodes
  <2>2. 1 \in 1..i - 1
    BY <2>1
  <2>3. ErasedBefore(q, i) = TRUE
    BY <1>5, <2>1, <2>2 DEF ErasedBefore
  <2>4. Buffered(q[i], f[q[i].sec], TRUE)
    BY <1>1, <1>5, <2>3 DEF NodeFits
  <2>5. Buffered(q[i], g[q[i].sec], TRUE)
    BY <2>4 DEF Buffered
  <2> QED BY <1>1, <1>5, <2>3, <2>5, Zenon DEF NodeFits
<1> QED BY <1>2, <1>3, <1>4, <1>5

\* The oldest node is completed: its buffer is the sector's image now.
LEMMA CompletedFits ==
  ASSUME NEW q \in Seq(Nodes), q # <<>>, OneWrite(q), NEW m, NEW f, ListFits(m, q, f),
         NEW g, SameBut(f, g, q[1].sec), g[q[1].sec] = q[1].buf,
         NEW r, r = Tail(q)
  PROVE  ListFits(m, r, g)
<1>1. /\ r \in Seq(Nodes) /\ Len(r) = Len(q) - 1 /\ Len(q) \in Nat
      /\ \A k \in 1..Len(r) : r[k] = q[k + 1] /\ k + 1 \in 1..Len(q)
  OBVIOUS
<1> SUFFICES ASSUME NEW k \in 1..Len(r) PROVE NodeFits(m, r, g, k)
  BY DEF ListFits
<1>2. PICK l \in 1..Len(q) : l = k + 1
  BY <1>1
<1>3. r[k] = q[l] /\ NodeFits(m, q, f, l) /\ q[l] \in Nodes
  BY <1>1, <1>2 DEF ListFits
<1>4. q[1] \in Nodes /\ 1 \in 1..Len(q) /\ NodeFits(m, q, f, 1)
  BY DEF ListFits
<1>5. CASE q[l].type # "WRITTING"
  BY <1>3, <1>5 DEF NodeFits
<1>6. CASE q[l].sec # q[1].sec
  <2>1. g[q[l].sec] = f[q[l].sec]
    BY <1>3, <1>6 DEF SameBut, Nodes
  <2>2. ErasedBefore(r, k) <=> ErasedBefore(q, l)
    <3>1. ASSUME NEW e \in 1..k - 1, r[e].sec = r[k].sec, r[e].type = "ERASING"
          PROVE  ErasedBefore(q, l)
      <4>1. e + 1 \in 1..l - 1 /\ r[e] = q[e + 1]
        BY <1>1, <1>2
      <4> QED BY <1>3, <3>1, <4>1 DEF ErasedBefore
    <3>2. ASSUME NEW e \in 1..l - 1, q[e].sec = q[l].sec, q[e].type = "ERASING"
          PROVE  ErasedBefore(r, k)
      <4>1. e # 1
        BY <1>6, <3>2
      <4>2. PICK d \in 1..k - 1 : e = d + 1
        <5>1. e - 1 \in 1..k - 1 /\ e = (e - 1) + 1
          BY <1>2, <4>1
        <5> QED BY <5>1
      <4>3. r[d] = q[e]
        BY <1>1, <4>2
      <4> QED BY <1>3, <3>2, <4>2, <4>3 DEF ErasedBefore
    <3> QED BY <3>1, <3>2 DEF ErasedBefore
  <2>3. ErasedBefore(r, k) = ErasedBefore(q, l)
    BY <2>2, Zenon DEF ErasedBefore
  <2> QED BY <1>3, <2>1, <2>3, Zenon DEF NodeFits
<1>7. CASE q[l].type = "WRITTING" /\ q[l].sec = q[1].sec
  <2>1. q[1].type = "ERASING"
    <3>1. q[1].type # "WRITTING"
      BY <1>1, <1>2, <1>4, <1>7 DEF OneWrite
    <3> QED BY <1>4, <3>1 DEF Nodes
  <2>2. 1 \in 1..l - 1
    BY <1>1, <1>2
  <2>3. ErasedBefore(q, l) = TRUE
    BY <1>7, <2>1, <2>2 DEF ErasedBefore
  <2>4. Buffered(q[l], f[q[l].sec], TRUE)
    BY <1>3, <1>7, <2>3 DEF NodeFits
  <2>5. g[q[l].sec] = ErasedImage
    BY <1>4, <1>7, <2>1 DEF NodeFits
  <2>6. ASSUME NEW erased \in BOOLEAN PROVE Buffered(q[l], g[q[l].sec], erased)
    BY <2>4, <2>5 DEF Buffered, ErasedImage
  <2>7. Buffered(q[l], g[q[l].sec], ErasedBefore(r, k))
    <3>1. ErasedBefore(r, k) \in BOOLEAN
      BY Zenon DEF ErasedBefore
    <3> QED BY <2>6, <3>1
  <2> QED BY <1>3, <1>7, <2>7, Zenon DEF NodeFits
<1> QED BY <1>5, <1>6, <1>7

\* The readers see the same before and after it.
SeenAlike(r, g, q, f) == \A t \in Sectors : Seen(r, g[t], t) = Seen(q, f[t], t)

LEMMA CompletedSeen ==
  ASSUME NEW q \in Seq(Nodes), q # <<>>, NEW f, NEW g, SameBut(f, g, q[1].sec),
         g[q[1].sec] = q[1].buf, NEW r, r = Tail(q)
  PROVE  SeenAlike(r, g, q, f)
<1> SUFFICES ASSUME NEW t \in Sectors PROVE Seen(r, g[t], t) = Seen(q, f[t], t)
  BY DEF SeenAlike
<1>1. IsWithout(r, q, 1) /\ 1 \in 1..Len(q)
  <2>1. 1 \in 1..Len(q)
    OBVIOUS
  <2> QED BY <2>1, TailIs
<1>2. CASE t # q[1].sec
  <2>1. Seen(r, g[t], t) = Seen(q, g[t], t)
    BY <1>1, <1>2, WithoutSeen
  <2> QED BY <1>2, <2>1 DEF SameBut
<1>3. CASE t = q[1].sec /\ \E j \in On(q, t) : 1 < j
  <2>1. Seen(r, g[t], t) = Seen(q, g[t], t)
    BY <1>1, <1>3, WithoutSeen
  <2> QED BY <1>3, <2>1 DEF Seen
<1>4. CASE t = q[1].sec /\ ~ \E j \in On(q, t) : 1 < j
  <2>1. \A j \in On(q, t) : j = 1
    BY <1>4 DEF On
  <2>2. IsTop(q, t, 1)
    BY <1>1, <1>4, <2>1 DEF IsTop, On
  <2>3. On(r, t) = {}
    <3>1. /\ Len(r) = Len(q) - 1 /\ Len(q) \in Nat
          /\ \A k \in 1..Len(r) : r[k] = q[k + 1] /\ k + 1 \in 1..Len(q) /\ k + 1 # 1
      BY <1>1 DEF IsWithout, Back
    <3> QED BY <2>1, <3>1 DEF On
  <2>4. Seen(q, f[t], t) = q[1].buf
    BY <2>2, SeenTop
  <2>5. Seen(r, g[t], t) = g[t]
    BY <2>3 DEF Seen
  <2> QED BY <1>4, <2>4, <2>5
<1> QED BY <1>2, <1>3, <1>4

\* The page a write starts or goes on with.
From(n) == IF hal.state = "NONE" THEN n.lo ELSE hal.next

Completed(n) ==
  /\ hal'.state = "NONE"
  /\ flash' = [flash EXCEPT ![n.sec] =
       IF n.type = "ERASING" THEN ErasedImage ELSE Program(flash[n.sec], n.buf, From(n), n.hi)]

SuspendedAt(n, k) ==
  /\ hal'.state = "PROGRAM" /\ hal'.next = k
  /\ k \in From(n)..n.hi
  /\ flash' = [flash EXCEPT ![n.sec] = Program(flash[n.sec], n.buf, From(n), k - 1)]

Suspended(n) ==
  \/ /\ n.type = "ERASING"
     /\ hal'.state = "ERASE"
     /\ flash' = [flash EXCEPT ![n.sec] = TornImage]
  \/ n.type = "WRITTING" /\ \E k : SuspendedAt(n, k)

\* The driver works on the sector of the node it is called for.
LEMMA HalCallIs ==
  ASSUME HalTypeOK, NEW n \in Nodes, NEW st, NEW suspend \in BOOLEAN, NEW result,
         HalCall(n, st, suspend, result),
         \/ st = "IDLE" /\ hal.state = "NONE"
         \/ st = SuspendedState(n) /\ Keeps(hal, n)
  PROVE  \/ result = "OK" /\ Completed(n)
         \/ suspend /\ result = "SUSPENDED" /\ Suspended(n)
<1>1. n.type \in {"WRITTING", "ERASING"}
  BY DEF Nodes
<1>2. CASE n.type = "WRITTING"
  <2>1. WriteInt(n.sec, n.buf, From(n), n.hi, suspend, result)
    <3>1. CASE st = "IDLE" /\ hal.state = "NONE"
      BY <1>2, <3>1 DEF HalCall, HalWrite, From
    <3>2. CASE st = SuspendedState(n) /\ Keeps(hal, n)
      BY <1>2, <3>2 DEF HalCall, HalWriteResume, SuspendedState, Keeps, From
    <3> QED BY <3>1, <3>2
  <2>2. CASE result = "OK"
    BY <1>2, <2>1, <2>2 DEF WriteInt, Completed, NotSuspended
  <2>3. CASE result # "OK"
    <3>1. suspend /\ result = "SUSPENDED" /\ \E k : SuspendedAt(n, k)
      BY <2>1, <2>3 DEF WriteInt, SuspendedAt
    <3> QED BY <1>2, <3>1 DEF Suspended
  <2> QED BY <2>2, <2>3
<1>3. CASE n.type = "ERASING"
  <2>1. EraseInt(n.sec, suspend, result)
    <3>1. CASE st = "IDLE" /\ hal.state = "NONE"
      BY <1>3, <3>1 DEF HalCall, HalErase
    <3>2. CASE st = SuspendedState(n) /\ Keeps(hal, n)
      BY <1>3, <3>2 DEF HalCall, HalEraseResume, SuspendedState, Keeps
    <3> QED BY <3>1, <3>2
  <2> QED BY <1>3, <2>1 DEF EraseInt, Completed, Suspended, NotSuspended
<1> QED BY <1>1, <1>2, <1>3

\* A flush completes the oldest node or suspends it.
LEMMA FlushIs ==
  ASSUME IInv, NEW m \in Mods, Registered(m), ~OtherSuspended(m),
         NEW suspend \in BOOLEAN, Opera_flush(m, suspend),
         NEW q, q = queue[m], NEW n, n = q[1]
  PROVE  /\ q \in Seq(Nodes) /\ q # <<>> /\ n \in Nodes
         /\ \/ Completed(n) /\ queue' = [queue EXCEPT ![m] = Tail(q)]
            \/ suspend /\ Suspended(n) /\ UNCHANGED queue
<1>1. q \in Seq(Nodes) /\ q # <<>> /\ n = Head(q) /\ n \in Nodes
  BY ListOf DEF Opera_flush
<1>2. \/ state[m] = "IDLE" /\ hal.state = "NONE"
      \/ state[m] = SuspendedState(n) /\ Keeps(hal, n)
  BY <1>1, ReadyToFlush DEF IInv
<1>3. HalTypeOK
  BY DEF IInv, TypeOK, ApiTypeOK
<1>4. ASSUME NEW result, HalCall(n, state[m], suspend, result)
      PROVE  \/ result = "OK" /\ Completed(n)
             \/ suspend /\ result = "SUSPENDED" /\ Suspended(n)
  BY <1>1, <1>2, <1>3, <1>4, HalCallIs
<1>5. CASE HalCall(n, state[m], suspend, "OK") /\ Opera_del(m)
  <2>1. Completed(n)
    BY <1>4, <1>5
  <2>2. queue' = [queue EXCEPT ![m] = Tail(q)]
    BY <1>5 DEF Opera_del
  <2> QED BY <1>1, <2>1, <2>2
<1>6. CASE HalCall(n, state[m], suspend, "SUSPENDED") /\ UNCHANGED queue
  <2>1. suspend /\ Suspended(n)
    BY <1>4, <1>6
  <2> QED BY <1>1, <1>6, <2>1
<1>7. CASE \E result \in {"BAD_OP", "BAD_STATE"} : HalCall(n, state[m], suspend, result)
  BY <1>4, <1>7
<1> QED BY <1>1, <1>5, <1>6, <1>7 DEF Opera_flush

\* Up to where write n has been programmed, its pages hold what its buffer does.
DoneSoFar(n) ==
  /\ Buffered(n, flash[n.sec], FALSE)
  /\ From(n) \in Nat /\ n.lo <= From(n)
  /\ \A c \in n.lo..From(n) - 1 : flash[n.sec][c] = n.buf[c]

LEMMA Programmed ==
  ASSUME IInv, BufInv, DoneInv, NEW m \in Mods, Registered(m), ~OtherSuspended(m),
         NEW q, q = queue[m], q # <<>>, NEW n, n = q[1], n.type = "WRITTING"
  PROVE  DoneSoFar(n)
<1>1. q \in Seq(Nodes) /\ n = Head(q) /\ n \in Nodes /\ 1 \in 1..Len(q)
  BY ListOf
<1>2. Buffered(n, flash[n.sec], FALSE)
  <2>1. NodeFits(m, q, flash, 1)
    BY <1>1 DEF BufInv, ListFits
  <2>2. ErasedBefore(q, 1) = FALSE
    BY DEF ErasedBefore
  <2> QED BY <2>1, <2>2 DEF NodeFits
<1>3. n.lo \in Nat /\ n.hi \in Nat
  BY <1>1, CellsAssumption DEF Nodes
<1>4. \/ state[m] = "IDLE" /\ hal.state = "NONE"
      \/ state[m] = SuspendedState(n) /\ Keeps(hal, n)
  BY <1>1, ReadyToFlush DEF IInv
<1>5. CASE hal.state = "NONE"
  <2>1. From(n) = n.lo
    BY <1>5 DEF From
  <2>2. \A c \in n.lo..From(n) - 1 : flash[n.sec][c] = n.buf[c]
    BY <1>3, <2>1
  <2>3. From(n) \in Nat /\ n.lo <= From(n)
    BY <1>3, <2>1
  <2> QED BY <1>2, <2>2, <2>3, Zenon DEF DoneSoFar
<1>6. CASE state[m] = SuspendedState(n) /\ Keeps(hal, n)
  <2>1. state[m] = "WRITTING_SUSPEND" /\ hal.state = "PROGRAM" /\ hal.next \in n.lo..n.hi
    BY <1>6 DEF SuspendedState, Keeps
  <2>2. m = cur_mod
    BY <2>1 DEF IInv, SuspendedIsCurrent
  <2>3. From(n) = hal.next
    BY <2>1 DEF From
  <2>4. \A c \in n.lo..hal.next - 1 : flash[n.sec][c] = n.buf[c]
    BY <1>1, <2>1, <2>2 DEF DoneInv
  <2>5. From(n) \in Nat /\ n.lo <= From(n)
    BY <1>3, <2>1, <2>3
  <2>6. \A c \in n.lo..From(n) - 1 : flash[n.sec][c] = n.buf[c]
    BY <2>3, <2>4
  <2> QED BY <1>2, <2>5, <2>6, Zenon DEF DoneSoFar
<1> QED BY <1>4, <1>5, <1>6

\* A flush leaves what the readers see, whether it completes its operation or is cut
\* short.
LEMMA FlushReads ==
  ASSUME IInv, PoolsMatchLists, BufInv, DoneInv, BuffLen <= 1,
         NEW m \in Mods, Registered(m), ~OtherSuspended(m),
         NEW suspend \in BOOLEAN, Opera_flush(m, suspend), suspend => cur_mod' = m
  PROVE  BufInv' /\ DoneInv' /\ ViewsStay
<1>1. PICK q : q = queue[m]
  OBVIOUS
<1>2. PICK n : n = q[1]
  OBVIOUS
<1>3. /\ q \in Seq(Nodes) /\ q # <<>> /\ n \in Nodes
      /\ \/ Completed(n) /\ queue' = [queue EXCEPT ![m] = Tail(q)]
         \/ suspend /\ Suspended(n) /\ UNCHANGED queue
  BY <1>1, <1>2, FlushIs
<1>4. 1 \in 1..Len(q) /\ ListFits(m, q, flash) /\ NodeFits(m, q, flash, 1)
  BY <1>1, <1>3 DEF BufInv, ListFits
<1>5. Owner[n.sec] = m /\ n.sec \in Sectors
  BY <1>2, <1>3, <1>4 DEF NodeFits, Nodes
<1>6. OneWrite(q)
  BY <1>1, OneBuffer DEF OneWrite
<1>7. /\ queue \in [Mods -> Seq(Nodes)] /\ flash \in [Sectors -> Images]
      /\ n.buf \in Images /\ n.hi \in Int /\ n.lo \in Nat
      /\ \A t \in Sectors : Owner[t] \in Mods
  BY <1>3, ModAssumption, CellsAssumption
     DEF IInv, TypeOK, ApiTypeOK, HalTypeOK, Nodes
<1>8. SameBut(flash, flash', n.sec)
  BY <1>3, <1>7 DEF SameBut, Completed, Suspended, SuspendedAt
<1>9. n.type = "WRITTING" => DoneSoFar(n)
  BY <1>1, <1>2, <1>3, Programmed
<1>10. \A o \in Mods : o # m => ListFits(o, queue[o], flash')
  <2> SUFFICES ASSUME NEW o \in Mods, o # m PROVE ListFits(o, queue[o], flash')
    OBVIOUS
  <2>1. PICK p : p = queue[o]
    OBVIOUS
  <2>2. p \in Seq(Nodes) /\ ListFits(o, p, flash)
    BY <1>7, <2>1 DEF BufInv
  <2>3. ListFits(o, p, flash')
    BY <1>5, <1>8, <2>2, OtherFits
  <2> QED BY <2>1, <2>3
<1>11. \A t \in Sectors : Owner[t] # m => flash'[t] = flash[t]
  BY <1>5, <1>8 DEF SameBut
<1>12. CASE Completed(n) /\ queue' = [queue EXCEPT ![m] = Tail(q)]
  <2>1. PICK r : r = Tail(q)
    OBVIOUS
  <2>2. flash'[n.sec] = n.buf
    <3>1. CASE n.type = "ERASING"
      BY <1>2, <1>4, <1>5, <1>7, <1>12, <3>1 DEF Completed, NodeFits
    <3>2. CASE n.type # "ERASING"
      <4>1. n.type = "WRITTING"
        BY <1>3, <3>2 DEF Nodes
      <4>2. PICK image : image = flash[n.sec]
        OBVIOUS
      <4>3. PICK done : done = Program(image, n.buf, From(n), n.hi)
        OBVIOUS
      <4>4. flash'[n.sec] = done
        BY <1>5, <1>7, <1>12, <3>2, <4>2, <4>3 DEF Completed
      <4>5. image \in Images /\ Buffered(n, image, FALSE)
        BY <1>5, <1>7, <1>9, <4>1, <4>2, Zenon DEF DoneSoFar
      <4>6. /\ Buffered(n, done, FALSE)
            /\ \A c \in n.lo..n.hi : done[c] = n.buf[c]
        <5>1. PICK a : a = From(n)
          OBVIOUS
        <5>2. a \in Nat /\ n.lo <= a /\ \A c \in n.lo..a - 1 : image[c] = n.buf[c]
          BY <1>9, <4>1, <4>2, <5>1 DEF DoneSoFar
        <5>3. done = Program(image, n.buf, a, n.hi)
          BY <4>3, <5>1
        <5>4. n.hi \in Int /\ n.hi <= n.hi
          BY <1>7
        <5> QED BY ONLY <1>3, <4>5, <5>2, <5>3, <5>4, ProgramIs
      <4>7. \A c \in Cells : done[c] = n.buf[c]
        BY <4>6 DEF Buffered
      <4>8. done \in Images
        BY <1>7, <4>3, <4>5, ProgramType
      <4>9. done = n.buf
        BY <1>7, <4>7, <4>8 DEF Images
      <4> QED BY <4>4, <4>9
    <3> QED BY <3>1, <3>2
  <2>3. PICK g : g = flash'
    OBVIOUS
  <2>4. SameBut(flash, g, q[1].sec) /\ g[q[1].sec] = q[1].buf
    BY <1>2, <1>8, <2>2, <2>3
  <2>5. ListFits(m, r, g)
    BY <1>3, <1>4, <1>6, <2>1, <2>4, CompletedFits
  <2>6. ASSUME NEW o \in Mods PROVE ListFits(o, queue'[o], flash')
    <3>1. CASE o = m
      <4>1. queue'[o] = r
        BY <1>7, <1>12, <2>1, <3>1
      <4> QED BY <2>3, <2>5, <3>1, <4>1
    <3>2. CASE o # m
      <4>1. queue'[o] = queue[o]
        BY <1>7, <1>12, <3>2
      <4> QED BY <1>10, <3>2, <4>1
    <3> QED BY <3>1, <3>2
  <2>7. BufInv'
    BY <2>6 DEF BufInv, ListFits, NodeFits, Buffered, ErasedBefore
  <2>8. DoneInv'
    BY <1>12 DEF DoneInv, Completed
  <2>9. ASSUME NEW t \in Sectors PROVE View(t)' = View(t)
    <3>1. CASE Owner[t] = m
      <4>1. Seen(r, g[t], t) = Seen(q, flash[t], t)
        <5>1. SeenAlike(r, g, q, flash)
          BY <1>3, <2>1, <2>4, CompletedSeen
        <5> QED BY <5>1 DEF SeenAlike
      <4>2. queue'[Owner[t]] = r /\ queue[Owner[t]] = q
        BY <1>1, <1>7, <1>12, <2>1, <3>1
      <4> QED BY <2>3, <4>1, <4>2, ViewIs
    <3>2. CASE Owner[t] # m
      <4>1. queue'[Owner[t]] = queue[Owner[t]]
        BY <1>7, <1>12, <3>2
      <4> QED BY <1>11, <3>2, <4>1, ViewIs
    <3> QED BY <3>1, <3>2
  <2> QED BY <2>7, <2>8, <2>9 DEF ViewsStay
<1>13. CASE suspend /\ Suspended(n) /\ UNCHANGED queue
  <2>1. n.type = "WRITTING" =>
          /\ Buffered(n, flash'[n.sec], FALSE)
          /\ hal'.state = "PROGRAM"
          /\ \A c \in n.lo..hal'.next - 1 : flash'[n.sec][c] = n.buf[c]
    <3> SUFFICES ASSUME n.type = "WRITTING"
                 PROVE  /\ Buffered(n, flash'[n.sec], FALSE)
                        /\ hal'.state = "PROGRAM"
                        /\ \A c \in n.lo..hal'.next - 1 : flash'[n.sec][c] = n.buf[c]
      OBVIOUS
    <3>1. PICK k : SuspendedAt(n, k)
      BY <1>13 DEF Suspended
    <3>2. PICK a : a = From(n)
      OBVIOUS
    <3>3. PICK image : image = flash[n.sec]
      OBVIOUS
    <3>4. PICK b : b = k - 1
      OBVIOUS
    <3>5. PICK done : done = Program(image, n.buf, a, b)
      OBVIOUS
    <3>6. /\ image \in Images /\ Buffered(n, image, FALSE)
          /\ a \in Nat /\ n.lo <= a /\ \A c \in n.lo..a - 1 : image[c] = n.buf[c]
      BY <1>5, <1>7, <1>9, <3>2, <3>3 DEF DoneSoFar
    <3>7. b \in Int /\ b <= n.hi
      BY <1>7, <3>1, <3>2, <3>4, <3>6 DEF SuspendedAt
    <3>8. /\ Buffered(n, done, FALSE)
          /\ \A c \in n.lo..b : done[c] = n.buf[c]
      BY ONLY <1>3, <3>5, <3>6, <3>7, ProgramIs
    <3>9. flash'[n.sec] = done /\ hal'.state = "PROGRAM" /\ hal'.next = k
      BY <1>5, <1>7, <3>1, <3>2, <3>3, <3>4, <3>5 DEF SuspendedAt
    <3> QED BY <3>4, <3>8, <3>9, Zenon
  <2>2. PICK g : g = flash'
    OBVIOUS
  <2>3. SameBut(flash, g, q[1].sec) /\ (q[1].type = "WRITTING" => Buffered(q[1], g[q[1].sec], FALSE))
    BY <1>2, <1>8, <2>1, <2>2
  <2>4. ListFits(m, q, g)
    BY <1>3, <1>4, <1>6, <2>3, SuspendedFits
  <2>5. ASSUME NEW o \in Mods PROVE ListFits(o, queue'[o], flash')
    BY <1>1, <1>10, <1>13, <2>2, <2>4
  <2>6. BufInv'
    BY <2>5 DEF BufInv, ListFits, NodeFits, Buffered, ErasedBefore
  <2>7. DoneInv'
    <3>1. Head(queue'[cur_mod']) = n
      BY <1>1, <1>2, <1>3, <1>13
    <3>2. hal'.state = "PROGRAM" => n.type = "WRITTING"
      BY <1>13 DEF Suspended
    <3> QED BY <2>1, <3>1, <3>2 DEF DoneInv
  <2>8. ASSUME NEW t \in Sectors PROVE View(t)' = View(t)
    <3>1. queue'[Owner[t]] = queue[Owner[t]]
      BY <1>13
    <3>2. CASE t = n.sec
      <4>1. 1 \in On(queue[Owner[t]], t)
        BY <1>1, <1>2, <1>4, <1>5, <3>2 DEF On
      <4>2. Seen(queue[Owner[t]], flash'[t], t) = Seen(queue[Owner[t]], flash[t], t)
        BY <4>1 DEF Seen
      <4> QED BY <3>1, <4>2, ViewIs
    <3>3. CASE t # n.sec
      <4>1. flash'[t] = flash[t]
        BY <1>8, <3>3 DEF SameBut
      <4> QED BY <3>1, <4>1, ViewIs
    <3> QED BY <3>2, <3>3
  <2> QED BY <2>6, <2>7, <2>8 DEF ViewsStay
<1> QED BY <1>3, <1>12, <1>13

\* A step that touches no list, no flash and nothing suspended.
LEMMA NothingRead ==
  ASSUME BufInv, DoneInv, UNCHANGED halVars, UNCHANGED queue,
         hal.state = "PROGRAM" => cur_mod' = cur_mod
  PROVE  BufInv' /\ DoneInv' /\ ViewsStay
<1>1. UNCHANGED <<flash, hal>>
  BY DEF halVars
<1>2. BufInv'
  BY <1>1 DEF BufInv, ListFits, NodeFits, Buffered, ErasedBefore
<1>3. DoneInv'
  BY <1>1 DEF DoneInv
<1>4. ViewsStay
  BY <1>1, ViewIs DEF ViewsStay
<1> QED BY <1>2, <1>3, <1>4

\* Programming blank pages with one value.
LEMMA BlankProgrammed ==
  ASSUME NEW image \in Images, NEW lo \in Cells, NEW hi \in Cells, NEW v \in Values,
         \A c \in lo..hi : image[c] = Blank
  PROVE  Program(image, Fill(ErasedImage, lo, hi, v), lo, hi) = Fill(image, lo, hi, v)
<1>1. Wired({Blank, v}) = v
  BY WiredIs DEF Contents
<1>2. ASSUME NEW c \in Cells, c \in lo..hi
      PROVE  Wired({image[c], Fill(ErasedImage, lo, hi, v)[c]}) = v
  BY <1>1, <1>2 DEF Fill
<1> QED BY <1>2 DEF Program, Fill

\* A synchronous operation, which finds its module's list empty and the driver free,
\* is seen at once.
LEMMA SyncHalReads ==
  ASSUME IInv, BufInv, DoneInv, SyncInv, ~SyncDuringCpBoot, SyncHal,
         NEW n, n = sync.node, NEW s, s = n.sec
  PROVE  /\ BufInv' /\ DoneInv' /\ s \in Sectors
         /\ \/ ViewChanges(s, ErasedImage)
            \/ \E lo, hi \in Cells, v \in Values :
                 IsErased(s, lo, hi) /\ ViewChanges(s, Fill(View(s), lo, hi, v))
<1>1. sync # NoSync /\ sync.pc = "hal"
  BY DEF SyncHal, NoSync
<1>2. n \in Nodes /\ s \in Sectors
  BY <1>1 DEF IInv, TypeOK, SyncCalls, Nodes
<1>3. PICK m \in Mods : m = Owner[s]
  BY <1>2, ModAssumption
<1>4. queue[m] = <<>> /\ hal.state = "NONE"
  BY <1>1, <1>3, SyncOrder DEF SyncDrainsQueue, SyncFindsDriverFree
<1>5. UNCHANGED queue
  BY DEF SyncHal, apiVars
<1>6. Completed(n)
  <2>1. PICK result : HalCall(n, "IDLE", FALSE, result)
    BY DEF SyncHal
  <2>2. HalTypeOK
    BY DEF IInv, TypeOK, ApiTypeOK
  <2> QED BY <1>2, <1>4, <2>1, <2>2, HalCallIs
<1>7. /\ queue \in [Mods -> Seq(Nodes)] /\ flash \in [Sectors -> Images]
      /\ \A t \in Sectors : Owner[t] \in Mods
  BY ModAssumption DEF IInv, TypeOK, ApiTypeOK, HalTypeOK
<1>8. SameBut(flash, flash', s)
  BY <1>2, <1>6, <1>7 DEF SameBut, Completed
<1>9. ASSUME NEW o \in Mods PROVE ListFits(o, queue'[o], flash')
  <2>1. PICK q : q = queue[o]
    OBVIOUS
  <2>2. q \in Seq(Nodes) /\ ListFits(o, q, flash) /\ queue'[o] = q
    BY <1>5, <1>7, <2>1 DEF BufInv
  <2>3. CASE o = m
    <3>1. Len(q) = 0
      BY <1>4, <2>1, <2>3
    <3> QED BY <2>2, <3>1 DEF ListFits
  <2>4. CASE o # m
    <3>1. ListFits(o, q, flash')
      BY <1>3, <1>8, <2>2, <2>4, OtherFits
    <3> QED BY <2>2, <3>1
  <2> QED BY <2>3, <2>4
<1>10. BufInv'
  BY <1>9 DEF BufInv, ListFits, NodeFits, Buffered, ErasedBefore
<1>11. DoneInv'
  BY <1>6 DEF DoneInv, Completed
<1>12. ASSUME NEW t \in Sectors, t # s PROVE View(t)' = View(t)
  <2>1. flash'[t] = flash[t]
    BY <1>8, <1>12 DEF SameBut
  <2> QED BY <1>5, <2>1, ViewIs
<1>13. View(s) = flash[s] /\ View(s)' = flash'[s]
  <2>1. On(queue[m], s) = {}
    BY <1>4 DEF On
  <2>2. \A image : Seen(queue[m], image, s) = image
    BY <2>1 DEF Seen
  <2> QED BY <1>3, <1>5, <2>2, ViewIs
<1>14. CASE n.type = "ERASING"
  <2>1. View(s)' = ErasedImage
    BY <1>2, <1>6, <1>7, <1>13, <1>14 DEF Completed
  <2> QED BY <1>2, <1>10, <1>11, <1>12, <2>1 DEF ViewChanges
<1>15. CASE n.type # "ERASING"
  <2>1. n.type = "WRITTING"
    BY <1>2, <1>15 DEF Nodes
  <2>2. PICK lo \in Cells, hi \in Cells, v \in Values :
          lo = n.lo /\ hi = n.hi /\ n.buf = Fill(ErasedImage, lo, hi, v)
    BY <1>1, <2>1 DEF SyncInv
  <2>3. IsErased(s, lo, hi)
    BY <1>1, <2>1, <2>2 DEF SyncInv
  <2>4. PICK image : image = flash[s]
    OBVIOUS
  <2>5. image \in Images /\ \A c \in lo..hi : image[c] = Blank
    BY <1>2, <1>7, <1>13, <2>3, <2>4 DEF IsErased
  <2>6. flash'[s] = Program(image, n.buf, n.lo, n.hi)
    BY <1>2, <1>4, <1>6, <1>7, <1>15, <2>4 DEF Completed, From
  <2>7. Program(image, n.buf, n.lo, n.hi) = Fill(image, lo, hi, v)
    BY <2>2, <2>5, BlankProgrammed
  <2>8. View(s)' = Fill(View(s), lo, hi, v)
    BY <1>13, <2>4, <2>6, <2>7
  <2>9. ViewChanges(s, Fill(View(s), lo, hi, v))
    BY <1>12, <2>8 DEF ViewChanges
  <2> QED BY <1>2, <1>10, <1>11, <2>3, <2>9
<1> QED BY <1>14, <1>15

-----------------------------------------------------------------------------
(***************************************************************************)
(* Every step, with one buffer and no synchronous call that meets the boot *)
(* of the CP.                                                              *)
(***************************************************************************)
ReadInv == IInv /\ PoolsMatchLists /\ ShapeInv /\ BufInv /\ DoneInv /\ SyncInv

SeesErase(s) == ViewChanges(s, ErasedImage)

SeesWrite(s) ==
  \E lo, hi \in Cells, v \in Values :
    IsErased(s, lo, hi) /\ ViewChanges(s, Fill(View(s), lo, hi, v))

\* What a step may do to what the readers see.
ReadStep == ViewsStay \/ \E s \in Sectors : SeesErase(s) \/ SeesWrite(s)

\* norflash_api_flush is not seen.
LEMMA FlushNextReads ==
  ASSUME IInv, PoolsMatchLists, BufInv, DoneInv, BuffLen <= 1, Flush
  PROVE  BufInv' /\ DoneInv' /\ ViewsStay
<1>1. CASE UNCHANGED <<halVars, apiVars, asserted>>
  BY <1>1, NothingRead DEF apiVars
<1>2. ASSUME NEW m \in Mods, FlushStep(m) PROVE BufInv' /\ DoneInv' /\ ViewsStay
  <2>1. CASE Opera_flush(m, TRUE) /\ cur_mod' = m
    <3>1. Registered(m) /\ ~OtherSuspended(m)
      BY <1>2 DEF FlushStep, IsCurMod, Pending, OtherSuspended, IInv, CurIsListed
    <3> QED BY <2>1, <3>1, FlushReads
  <2>2. CASE queue[m] = <<>> /\ UNCHANGED <<halVars, state, queue, cur>>
    <3>1. hal.state # "PROGRAM"
      <4> SUFFICES ASSUME hal.state = "PROGRAM" PROVE FALSE
        OBVIOUS
      <4>1. cur_mod \in Mods /\ queue[cur_mod] # <<>>
        BY DEF IInv, DriverMatchesQueue, SuspendedIsCurrent
      <4>2. m = cur_mod
        BY <1>2, <4>1, ModAssumption DEF FlushStep, IsCurMod
      <4> QED BY <2>2, <4>1, <4>2
    <3> QED BY <2>2, <3>1, NothingRead
  <2> QED BY <1>2, <2>1, <2>2 DEF FlushStep
<1> QED BY <1>1, <1>2 DEF Flush

\* A synchronous call that is going on, in a step that is not seen.
LEMMA SyncGoesOn ==
  ASSUME IInv, SyncInv, ViewsStay, sync # NoSync, UNCHANGED sync.node
  PROVE  SyncInv'
<1>1. PICK n : n = sync.node
  OBVIOUS
<1>2. n.sec \in Sectors
  BY <1>1, SyncType DEF IInv
<1>3. View(n.sec)' = View(n.sec)
  BY <1>2 DEF ViewsStay
<1>4. n.type = "WRITTING" =>
        /\ n.lo \in Cells /\ n.hi \in Cells
        /\ IsErased(n.sec, n.lo, n.hi)
        /\ \E v \in Values : n.buf = Fill(ErasedImage, n.lo, n.hi, v)
  BY <1>1 DEF SyncInv
<1>5. n.type = "WRITTING" => IsErased(n.sec, n.lo, n.hi)'
  BY <1>3, <1>4 DEF IsErased
<1>6. sync'.node = n
  BY <1>1
<1> QED BY <1>4, <1>5, <1>6 DEF SyncInv

\* A client's calls.
LEMMA ClientReads ==
  ASSUME ReadInv, BuffLen <= 1, Client
  PROVE  BufInv' /\ DoneInv' /\ SyncInv' /\ ReadStep
<1>1. IInv /\ PoolsMatchLists /\ ShapeInv /\ BufInv /\ DoneInv /\ SyncInv
  BY DEF ReadInv
<1>2. ASSUME NEW s \in Sectors, norflash_api_erase(s)
      PROVE  BufInv' /\ DoneInv' /\ SyncInv' /\ ReadStep
  <2>1. /\ BufInv' /\ DoneInv'
        /\ ViewsStay \/ ViewChanges(s, ErasedImage)
    BY <1>1, <1>2, EraseReads
  <2>2. SyncInv'
    BY <1>2 DEF norflash_api_erase, Unmasked, SyncInv
  <2> QED BY <2>1, <2>2 DEF ReadStep, SeesErase
<1>3. ASSUME NEW s \in Sectors, NEW lo \in Cells, NEW hi \in Cells, lo <= hi, NEW v \in Values,
             norflash_api_write(s, lo, hi, v)
      PROVE  BufInv' /\ DoneInv' /\ SyncInv' /\ ReadStep
  <2>1. /\ BufInv' /\ DoneInv'
        /\ ViewsStay \/ ViewChanges(s, Fill(View(s), lo, hi, v))
    BY <1>1, <1>3, WriteReads
  <2>2. SyncInv'
    BY <1>3 DEF norflash_api_write, Unmasked, SyncInv
  <2>3. IsErased(s, lo, hi)
    BY <1>3 DEF norflash_api_write
  <2>4. ViewsStay \/ SeesWrite(s)
    BY <2>1, <2>3 DEF SeesWrite
  <2> QED BY <2>1, <2>2, <2>4 DEF ReadStep
<1>4. ASSUME NEW n, SyncStart(n),
             n.type = "WRITTING" =>
               /\ n.sec \in Sectors /\ n.lo \in Cells /\ n.hi \in Cells
               /\ IsErased(n.sec, n.lo, n.hi)
               /\ \E v \in Values : n.buf = Fill(ErasedImage, n.lo, n.hi, v)
      PROVE  BufInv' /\ DoneInv' /\ SyncInv' /\ ReadStep
  <2>1. BufInv' /\ DoneInv' /\ ViewsStay
    BY <1>1, <1>4, NothingRead DEF SyncStart, apiVars
  <2>2. sync'.node = n
    BY <1>4 DEF SyncStart
  <2>3. n.type = "WRITTING" => \A c \in n.lo..n.hi : View(n.sec)'[c] = Blank
    BY <1>4, <2>1 DEF IsErased, ViewsStay
  <2>4. SyncInv'
    BY <1>4, <2>2, <2>3 DEF SyncInv, IsErased
  <2> QED BY <2>1, <2>4 DEF ReadStep
<1>5. ASSUME NEW s \in Sectors, SyncErase(s)
      PROVE  BufInv' /\ DoneInv' /\ SyncInv' /\ ReadStep
  <2>1. PICK n : n = ErasingNode(s)
    OBVIOUS
  <2>2. n.type # "WRITTING" /\ SyncStart(n)
    BY <1>5, <2>1, ErasingNodeIs DEF SyncErase
  <2> QED BY <1>4, <2>2
<1>6. ASSUME NEW s \in Sectors, NEW lo \in Cells, NEW hi \in Cells, NEW v \in Values,
             SyncWrite(s, lo, hi, v)
      PROVE  BufInv' /\ DoneInv' /\ SyncInv' /\ ReadStep
  <2>1. PICK n : n = WrittingNode(s, lo, hi, Fill(ErasedImage, lo, hi, v))
    OBVIOUS
  <2>2. /\ n.type = "WRITTING" /\ n.sec = s /\ n.lo = lo /\ n.hi = hi
        /\ n.buf = Fill(ErasedImage, lo, hi, v)
    BY <2>1 DEF WrittingNode
  <2>3. IsErased(s, lo, hi) /\ SyncStart(n)
    BY <1>6, <2>1 DEF SyncWrite
  <2> QED BY <1>4, <2>2, <2>3
<1>7. CASE FlushAllStart \/ \E m \in Mods : Register(m)
  <2>1. UNCHANGED halVars /\ UNCHANGED queue /\ cur_mod' = cur_mod /\ sync' = NoSync
    BY <1>7 DEF FlushAllStart, Register, apiVars, Unmasked
  <2>2. BufInv' /\ DoneInv' /\ ViewsStay
    BY <1>1, <2>1, NothingRead
  <2> QED BY <2>1, <2>2 DEF ReadStep, SyncInv
<1> QED BY <1>2, <1>3, <1>5, <1>6, <1>7 DEF Client

\* The other steps are seen by nobody, but for the operation of a synchronous call.
LEMMA NextReads ==
  ASSUME BuffLen <= 1, ~SyncDuringCpBoot, ReadInv, [Next]_vars
  PROVE  ReadInv' /\ ReadStep
<1>1. IInv /\ PoolsMatchLists /\ ShapeInv /\ BufInv /\ DoneInv /\ SyncInv
  BY DEF ReadInv
<1>2. IInv' /\ PoolsMatchLists' /\ ShapeInv'
  BY <1>1, NextIInv, NextBooks
<1>3. CASE Client
  BY <1>2, <1>3, ClientReads DEF ReadInv
<1>4. CASE norflash_api_flush \/ FlushAllStep
  <2>1. BufInv' /\ DoneInv' /\ ViewsStay
    BY <1>1, <1>4, FlushNextReads DEF norflash_api_flush, FlushAllStep
  <2>2. SyncInv'
    BY <1>4 DEF norflash_api_flush, FlushAllStep, Unmasked, SyncInv
  <2> QED BY <1>2, <2>1, <2>2 DEF ReadInv, ReadStep
<1>5. CASE SyncFlushOther \/ SyncFlushOwn
  <2>1. PICK m \in Mods : Registered(m) /\ ~OtherSuspended(m) /\ Opera_flush(m, FALSE)
    <3>1. CASE SyncFlushOther
      <4>1. cur_mod \in Mods /\ Registered(cur_mod) /\ ~OtherSuspended(cur_mod)
        BY <1>1, <3>1 DEF SyncFlushOther, NoSync, IInv, SyncKeepsProgress, OtherSuspended,
                          TypeOK, ApiTypeOK, CurIsListed
      <4> QED BY <3>1, <4>1 DEF SyncFlushOther
    <3>2. CASE SyncFlushOwn
      <4> DEFINE m == Owner[sync.node.sec]
      <4>1. m \in Mods
        BY <1>1, <3>2, SyncType DEF SyncFlushOwn, NoSync, IInv
      <4>2. Registered(m) /\ ~OtherSuspended(m)
        BY <1>1, <3>2 DEF SyncFlushOwn, NoSync, IInv, SyncKeepsProgress
      <4>3. Opera_flush(m, FALSE)
        BY <3>2 DEF SyncFlushOwn
      <4> HIDE DEF m
      <4> QED BY <4>1, <4>2, <4>3
    <3> QED BY <1>5, <3>1, <3>2
  <2>2. BufInv' /\ DoneInv' /\ ViewsStay
    BY <1>1, <2>1, FlushReads
  <2>3. sync # NoSync /\ sync \in SyncCalls
    <3>1. sync.pc \in {"other", "own"}
      BY <1>5 DEF SyncFlushOther, SyncFlushOwn
    <3> QED BY <1>1, <3>1 DEF NoSync, IInv, TypeOK
  <2>4. sync'.node = sync.node
    <3>1. \/ sync' = [sync EXCEPT !.pc = "own", !.bresult = TRUE]
          \/ sync' = [sync EXCEPT !.bresult = TRUE]
      BY <1>5 DEF SyncFlushOther, SyncFlushOwn
    <3> QED BY <2>3, <3>1 DEF SyncCalls
  <2>5. SyncInv'
    BY <1>1, <2>2, <2>3, <2>4, SyncGoesOn
  <2> QED BY <1>2, <2>2, <2>5 DEF ReadInv, ReadStep
<1>6. CASE SyncDrained
  <2>1. UNCHANGED halVars /\ UNCHANGED queue /\ cur_mod' = cur_mod
    BY <1>6 DEF SyncDrained, apiVars
  <2>2. BufInv' /\ DoneInv' /\ ViewsStay
    BY <1>1, <2>1, NothingRead
  <2>3. sync # NoSync /\ sync \in SyncCalls
    BY <1>1, <1>6 DEF SyncDrained, NoSync, IInv, TypeOK
  <2>4. sync'.node = sync.node
    BY <1>6, <2>3 DEF SyncDrained, SyncCalls
  <2>5. SyncInv'
    BY <1>1, <2>2, <2>3, <2>4, SyncGoesOn
  <2> QED BY <1>2, <2>2, <2>5 DEF ReadInv, ReadStep
<1>7. CASE SyncHal
  <2>1. PICK s : s = sync.node.sec
    OBVIOUS
  <2>2. /\ BufInv' /\ DoneInv' /\ s \in Sectors
        /\ \/ ViewChanges(s, ErasedImage)
           \/ \E lo, hi \in Cells, v \in Values :
                IsErased(s, lo, hi) /\ ViewChanges(s, Fill(View(s), lo, hi, v))
    BY <1>1, <1>7, <2>1, SyncHalReads
  <2>3. SyncInv'
    BY <1>7 DEF SyncHal, SyncInv
  <2> QED BY <1>2, <2>2, <2>3 DEF ReadInv, ReadStep, SeesErase, SeesWrite
<1>8. CASE CpNext \/ UNCHANGED vars
  <2>1. UNCHANGED halVars /\ UNCHANGED queue /\ cur_mod' = cur_mod /\ UNCHANGED sync
    BY <1>8 DEF CpNext, FlushDisable, CpOpen, CpInitDone, FlushEnable, CpClose, apiVars, vars
  <2>2. BufInv' /\ DoneInv' /\ ViewsStay
    BY <1>1, <2>1, NothingRead
  <2>3. SyncInv'
    BY <1>1, <2>1, <2>2, SyncGoesOn DEF SyncInv
  <2> QED BY <1>2, <2>2, <2>3 DEF ReadInv, ReadStep
<1> QED BY <1>3, <1>4, <1>5, <1>6, <1>7, <1>8 DEF Next, SyncNext

\* At first every sector is erased and no list has a node.
LEMMA InitReads ==
  ASSUME Init
  PROVE  ReadInv /\ \A s \in Sectors : View(s) = ErasedImage
<1>1. IInv /\ PoolsMatchLists /\ ShapeInv
  BY InitIInv, InitBooks
<1>2. \A m \in Mods : queue[m] = <<>> /\ Len(queue[m]) = 0
  BY DEF Init
<1>3. BufInv
  BY <1>2 DEF BufInv, ListFits
<1>4. DoneInv /\ SyncInv
  BY DEF Init, HalInit, NotSuspended, DoneInv, SyncInv
<1>5. ASSUME NEW s \in Sectors PROVE View(s) = ErasedImage
  <2>1. On(queue[Owner[s]], s) = {}
    BY <1>2, ModAssumption DEF On
  <2>2. flash[s] = ErasedImage
    BY DEF Init, HalInit
  <2> QED BY <2>1, <2>2 DEF View
<1> QED BY <1>1, <1>3, <1>4, <1>5 DEF ReadInv

\* A reader sees what the flash will hold.
LEMMA ReadsFinal ==
  ASSUME ReadInv, BuffLen <= 1, NEW s \in Sectors
  PROVE  View(s) = Final(s)
<1> DEFINE q == queue[Owner[s]]
           erases == {i \in On(q, s) : q[i].type = "ERASING"}
           later(i) == \A e \in erases : e < i
           written(c) ==
             {q[i].buf[c] : i \in {j \in On(q, s) : later(j) /\ c \in q[j].lo..q[j].hi}}
           base(c) == IF erases = {} THEN {flash[s][c]} ELSE {Blank}
<1>1. Final(s) = [c \in Cells |-> Wired(written(c) \cup base(c))]
  BY DEF Final
<1>2. /\ Owner[s] \in Mods /\ q \in Seq(Nodes) /\ flash[s] \in Images
      /\ ListFits(Owner[s], q, flash)
  BY ModAssumption DEF ReadInv, BufInv, IInv, TypeOK, ApiTypeOK, HalTypeOK
<1>3. View(s) = Seen(q, flash[s], s)
  BY ViewIs
<1>4. OneWrite(q)
  BY <1>2, OneBuffer DEF OneWrite, ReadInv
<1>5. \A i \in On(q, s) : i \in 1..Len(q) /\ q[i].sec = s
  BY DEF On
<1>6. SUFFICES View(s) \in Images /\ \A c \in Cells : View(s)[c] = Wired(written(c) \cup base(c))
  <2> HIDE DEF written, base
  <2> QED BY <1>1 DEF Images
<1> HIDE DEF q
<1>7. CASE On(q, s) = {}
  <2>1. View(s) = flash[s]
    BY <1>3, <1>7 DEF Seen
  <2>2. ASSUME NEW c \in Cells PROVE View(s)[c] = Wired(written(c) \cup base(c))
    <3>1. PICK x : x = flash[s][c]
      OBVIOUS
    <3>2. written(c) \cup base(c) = {x}
      BY <1>7, <3>1
    <3>3. Wired({x}) = x
      BY <1>2, <3>1, WiredIs DEF Images
    <3> QED BY <2>1, <3>1, <3>2, <3>3
  <2> QED BY <1>2, <2>1, <2>2
<1>8. CASE On(q, s) # {}
  <2>1. PICK i \in 1..Len(q) : IsTop(q, s, i) /\ q[i].sec = s
    BY <1>2, <1>8, TopExists
  <2>2. i \in On(q, s) /\ \A j \in On(q, s) : j <= i
    BY <2>1 DEF IsTop
  <2>3. PICK n : n = q[i]
    OBVIOUS
  <2>4. View(s) = n.buf /\ n \in Nodes /\ n.buf \in Images
    <3>1. n \in Nodes
      BY <1>2, <2>1, <2>3
    <3>2. Seen(q, flash[s], s) = q[i].buf
      BY <1>2, <2>1, SeenTop
    <3> QED BY <1>3, <2>3, <3>1, <3>2 DEF Nodes
  <2>5. NodeFits(Owner[s], q, flash, i)
    BY <1>2 DEF ListFits
  <2>6. ASSUME NEW c \in Cells PROVE View(s)[c] = Wired(written(c) \cup base(c))
    <3>1. PICK x : x = n.buf[c]
      OBVIOUS
    <3>2. x \in Contents
      BY <2>4, <3>1 DEF Images
    <3>3. CASE n.type = "ERASING"
      <4>1. i \in erases
        BY <2>2, <2>3, <3>3
      <4>2. written(c) = {}
        <5>1. ASSUME NEW j \in On(q, s) PROVE ~later(j)
          <6>1. j <= i /\ j \in 1..Len(q)
            BY <1>5, <2>2
          <6>2. Len(q) \in Nat
            BY <1>2
          <6>3. ~(i < j)
            BY ONLY <6>1, <6>2, i \in 1..Len(q)
          <6> QED BY <4>1, <6>3
        <5> QED BY <5>1
      <4>3. base(c) = {Blank}
        BY <4>1
      <4>4. x = Blank
        BY <2>3, <2>5, <3>1, <3>3 DEF NodeFits, ErasedImage
      <4>5. written(c) \cup base(c) = {x}
        BY <4>2, <4>3, <4>4
      <4>6. Wired({x}) = x
        BY <3>2, WiredIs
      <4> QED BY <2>4, <3>1, <4>5, <4>6
    <3>4. CASE n.type # "ERASING"
      <4>1. n.type = "WRITTING"
        BY <2>4, <3>4 DEF Nodes
      <4>2. \A j \in On(q, s) : j # i => j \in erases
        <5> SUFFICES ASSUME NEW j \in On(q, s), j # i PROVE q[j].type = "ERASING"
          OBVIOUS
        <5>1. j \in 1..Len(q) /\ q[j] \in Nodes
          BY <1>2, <1>5
        <5>2. q[j].type # "WRITTING"
          BY <1>4, <2>3, <4>1, <5>1 DEF OneWrite
        <5> QED BY <5>1, <5>2 DEF Nodes
      <4>3. i \notin erases
        BY <2>3, <3>4
      <4>4. later(i)
        BY <1>5, <2>2, <4>3
      <4>5. \A j \in On(q, s) : later(j) => j = i
        BY <1>5, <4>2
      <4>6. written(c) = IF c \in n.lo..n.hi THEN {x} ELSE {}
        BY <2>2, <2>3, <3>1, <4>4, <4>5
      <4>7. erases # {} <=> ErasedBefore(q, i)
        <5>1. ASSUME NEW e \in erases PROVE ErasedBefore(q, i)
          <6>1. e \in 1..i - 1 /\ q[e].sec = q[i].sec /\ q[e].type = "ERASING"
            BY <1>5, <2>1, <4>4
          <6> QED BY <6>1 DEF ErasedBefore
        <5>2. ASSUME NEW e \in 1..i - 1, q[e].sec = q[i].sec, q[e].type = "ERASING"
              PROVE  e \in erases
          BY <1>2, <2>1, <5>2 DEF On
        <5> QED BY <5>1, <5>2 DEF ErasedBefore
      <4>8. CASE erases = {}
        <5>1. ErasedBefore(q, i) = FALSE
          BY <4>7, <4>8, Zenon DEF ErasedBefore
        <5>2. Buffered(n, flash[s], FALSE)
          BY <2>1, <2>3, <2>5, <4>1, <5>1 DEF NodeFits
        <5>3. PICK y : y = flash[s][c]
          OBVIOUS
        <5>4. base(c) = {y}
          BY <4>8, <5>3
        <5>5. CASE c \in n.lo..n.hi
          <6>1. y \in {Blank, x}
            BY <3>1, <5>2, <5>3, <5>5 DEF Buffered
          <6>2. written(c) \cup base(c) = {x, y}
            BY <4>6, <5>4, <5>5
          <6>3. Wired({x, y}) = x
            BY <3>2, <6>1, WiredIs
          <6> QED BY <2>4, <3>1, <6>2, <6>3
        <5>6. CASE c \notin n.lo..n.hi
          <6>1. y = x
            BY <3>1, <5>2, <5>3, <5>6 DEF Buffered
          <6>2. written(c) \cup base(c) = {x}
            BY <4>6, <5>4, <5>6, <6>1
          <6>3. Wired({x}) = x
            BY <3>2, WiredIs
          <6> QED BY <2>4, <3>1, <6>2, <6>3
        <5> QED BY <5>5, <5>6
      <4>9. CASE erases # {}
        <5>1. ErasedBefore(q, i) = TRUE
          BY <4>7, <4>9, Zenon DEF ErasedBefore
        <5>2. Buffered(n, flash[s], TRUE)
          BY <2>1, <2>3, <2>5, <4>1, <5>1 DEF NodeFits
        <5>3. base(c) = {Blank}
          BY <4>9
        <5>4. CASE c \in n.lo..n.hi
          <6>1. written(c) \cup base(c) = {x, Blank}
            BY <4>6, <5>3, <5>4
          <6>2. Wired({x, Blank}) = x
            BY <3>2, WiredIs
          <6> QED BY <2>4, <3>1, <6>1, <6>2
        <5>5. CASE c \notin n.lo..n.hi
          <6>1. x = Blank
            BY <3>1, <5>2, <5>5 DEF Buffered
          <6>2. written(c) \cup base(c) = {x}
            BY <4>6, <5>3, <5>5, <6>1
          <6>3. Wired({x}) = x
            BY <3>2, WiredIs
          <6> QED BY <2>4, <3>1, <6>2, <6>3
        <5> QED BY <5>4, <5>5
      <4> QED BY <4>8, <4>9
    <3> QED BY <3>3, <3>4
  <2> QED BY <2>4, <2>6
<1> QED BY <1>7, <1>8

-----------------------------------------------------------------------------
(***************************************************************************)
(* What a client reads.                                                    *)
(***************************************************************************)

\* With one buffer (FLASH_API_NORMAL) and no synchronous call that meets the boot of
\* the CP, what norflash_api_read returns, through merges, suspensions and deletions,
\* is what the flash will hold once the queue has been performed.
THEOREM ReadsAreStored ==
  BuffLen <= 1 /\ ~SyncDuringCpBoot => (Spec => []ReadsWhatIsStored)
<1>1. BuffLen <= 1 /\ Init => ReadInv
  BY InitReads
<1>2. BuffLen <= 1 /\ ~SyncDuringCpBoot /\ ReadInv /\ [Next]_vars => ReadInv'
  BY NextReads
<1>3. BuffLen <= 1 /\ ReadInv => ReadsWhatIsStored
  BY ReadsFinal DEF ReadsWhatIsStored
<1>4. CASE BuffLen <= 1 /\ ~SyncDuringCpBoot
  BY <1>1, <1>2, <1>3, <1>4, PTL DEF Spec
<1>5. CASE ~(BuffLen <= 1 /\ ~SyncDuringCpBoot)
  BY <1>5
<1> QED BY <1>4, <1>5

\* What the abstract store is refined by.
Store == [s \in Sectors |-> View(s)]

\* The readers' first store is the abstract one's.
LEMMA StoreInit ==
  ASSUME Init
  PROVE  Reads!Init
BY InitReads DEF Reads!Init, Reads!Erased, ErasedImage, Cells

\* A step that is seen is a step of the abstract store.
LEMMA StoreStep ==
  ASSUME ReadStep
  PROVE  Reads!Next \/ Store' = Store
<1>1. CASE ViewsStay
  BY <1>1 DEF ViewsStay, Store
<1>2. ASSUME NEW s \in Sectors, NEW image, ViewChanges(s, image)
      PROVE  Store' = [Store EXCEPT ![s] = image]
  BY <1>2 DEF ViewChanges, Store
<1>3. ASSUME NEW s \in Sectors, SeesErase(s) PROVE Reads!Next
  <2>1. Store' = [Store EXCEPT ![s] = ErasedImage]
    BY <1>2, <1>3 DEF SeesErase
  <2>2. Reads!Erase(s)
    BY <2>1 DEF Reads!Erase, Reads!Erased, Store, ErasedImage, Cells
  <2> QED BY <2>2 DEF Reads!Next
<1>4. ASSUME NEW s \in Sectors, SeesWrite(s) PROVE Reads!Next
  <2>1. PICK lo \in Cells, hi \in Cells, v \in Values :
          IsErased(s, lo, hi) /\ ViewChanges(s, Fill(View(s), lo, hi, v))
    BY <1>4 DEF SeesWrite
  <2>2. Store' = [Store EXCEPT ![s] = Fill(Store[s], lo, hi, v)]
    <3>1. Store[s] = View(s)
      BY DEF Store
    <3> QED BY <1>2, <2>1, <3>1
  <2>3. Reads!Write(s, lo, hi, v)
    BY <2>1, <2>2 DEF Reads!Write, Store, IsErased, Fill, Cells
  <2> QED BY <2>1, <2>3 DEF Reads!Next, Cells
<1> QED BY <1>1, <1>3, <1>4 DEF ReadStep

\* In that configuration the queue implements FlashStore: to its readers every erase
\* and write, queued or synchronous, happens at once, and no flush, suspension or
\* resumption is ever seen.
THEOREM QueueIsAStore ==
  BuffLen <= 1 /\ ~SyncDuringCpBoot => (Spec => ReadsAreAtomic)
<1>1. BuffLen <= 1 /\ Init => ReadInv /\ Reads!Init
  BY InitReads, StoreInit
<1>2. BuffLen <= 1 /\ ~SyncDuringCpBoot /\ ReadInv /\ [Next]_vars =>
        ReadInv' /\ [Reads!Next]_([s \in Sectors |-> View(s)])
  BY NextReads, StoreStep DEF Store
<1>3. CASE BuffLen <= 1 /\ ~SyncDuringCpBoot
  BY <1>1, <1>2, <1>3, PTL DEF Spec, ReadsAreAtomic, Reads!Spec
<1>4. CASE ~(BuffLen <= 1 /\ ~SyncDuringCpBoot)
  BY <1>4
<1> QED BY <1>3, <1>4
=============================================================================
