-------------------------- MODULE OperaList_proofs ---------------------------
(***************************************************************************)
(* Proofs about OperaList, for any number of modules, sectors, nodes and   *)
(* buffers: the linked lists are lists, and the walk of _e_opera_add does  *)
(* to them what OperaQueue says.                                           *)
(***************************************************************************)
EXTENDS OperaList, DataLemmas

Links == Slots \cup {NULL}

---------------------------------------------------------------------------
(* A list that ends has a chain: its nodes, the newest first.               *)

\* h leads to chain c along the pointers nx.
IsChain(nx, h, c) ==
  /\ h = IF c = <<>> THEN NULL ELSE c[1]
  /\ \A k \in 1..Len(c) : nx[c[k]] = IF k = Len(c) THEN NULL ELSE c[k + 1]

LEMMA ShortChain ==
  ASSUME NEW c \in Seq(Slots), Distinct(c)
  PROVE  Len(c) \in 0..OpraLen
<1>1. Cardinality(ToSet(c)) = Len(c)
  BY DifferentElements DEF Distinct
<1>2. ToSet(c) \subseteq 1..OpraLen
  BY ElementsOf DEF Slots
<1>3. IsFiniteSet(1..OpraLen) /\ Cardinality(1..OpraLen) = OpraLen
  BY FS_Interval, ListAssumption
<1>4. Cardinality(ToSet(c)) <= OpraLen
  BY <1>2, <1>3, FS_Subset
<1>5. Len(c) \in Nat
  OBVIOUS
<1> QED BY <1>1, <1>4, <1>5, ListAssumption

\* The walk from h is the one that satisfies the recursion.
LEMMA WalkIs ==
  ASSUME NEW c \in Seq(Slots), Distinct(c), NEW nx, NEW h, IsChain(nx, h, c),
         NEW at, at = Walk(nx, h)
  PROVE  at = [k \in 1..OpraLen + 1 |-> IF k <= Len(c) THEN c[k] ELSE NULL]
<1> DEFINE N == 1..OpraLen + 1
           f == [k \in N |-> IF k <= Len(c) THEN c[k] ELSE NULL]
<1>1. Len(c) \in 0..OpraLen /\ OpraLen \in Nat /\ NULL \notin Slots
  BY ShortChain, ListAssumption
<1>2. \A k \in N : f[k] = IF k = 1 THEN h ELSE IF f[k - 1] = NULL THEN NULL ELSE nx[f[k - 1]]
  <2> SUFFICES ASSUME NEW k \in N
               PROVE  f[k] = IF k = 1 THEN h ELSE IF f[k - 1] = NULL THEN NULL ELSE nx[f[k - 1]]
    OBVIOUS
  <2>1. CASE k = 1
    <3>1. c = <<>> <=> Len(c) = 0
      OBVIOUS
    <3> QED BY <1>1, <2>1, <3>1 DEF IsChain
  <2>2. CASE k # 1
    <3>1. k - 1 \in N /\ k - 1 >= 1
      BY <1>1, <2>2
    <3>2. CASE k - 1 <= Len(c)
      <4>1. k - 1 \in 1..Len(c) /\ c[k - 1] \in Slots /\ f[k - 1] = c[k - 1]
        BY <1>1, <3>1, <3>2
      <4>2. nx[c[k - 1]] = IF k - 1 = Len(c) THEN NULL ELSE c[k]
        BY <1>1, <4>1 DEF IsChain
      <4>3. f[k] = IF k - 1 = Len(c) THEN NULL ELSE c[k]
        BY <1>1, <3>2
      <4> HIDE DEF f
      <4> QED BY <1>1, <2>2, <4>1, <4>2, <4>3
    <3>3. CASE ~(k - 1 <= Len(c))
      BY <1>1, <2>2, <3>1, <3>3
    <3> QED BY <3>2, <3>3
  <2> QED BY <2>1, <2>2
<1> DEFINE Step(g) == [k \in N |-> IF k = 1 THEN h
                                   ELSE IF g[k - 1] = NULL THEN NULL ELSE nx[g[k - 1]]]
<1>3. f = Step(f)
  <2>1. f = [k \in N |-> f[k]]
    OBVIOUS
  <2> HIDE DEF f
  <2> QED BY <1>2, <2>1
<1>4. at = Step(at)
  <2>1. \E g : g = Step(g)
    BY <1>3
  <2> QED BY <2>1 DEF Walk
<1>5. \A k \in N : at[k] = f[k]
  <2> DEFINE T == {n \in Nat : \A k \in N : k <= n + 1 => at[k] = f[k]}
  <2>1. \A k \in N : at[k] = IF k = 1 THEN h ELSE IF at[k - 1] = NULL THEN NULL ELSE nx[at[k - 1]]
    BY <1>4
  <2> HIDE DEF f, Step
  <2>2. 0 \in T
    BY <1>1, <1>2, <2>1
  <2>3. ASSUME NEW n \in Nat, n \in T PROVE n + 1 \in T
    <3> SUFFICES ASSUME NEW k \in N, k = n + 2 PROVE at[k] = f[k]
      BY <1>1, <2>3
    <3>1. k - 1 \in N /\ k - 1 <= n + 1 /\ k # 1
      BY <1>1
    <3>2. at[k - 1] = f[k - 1]
      BY <2>3, <3>1
    <3> QED BY <1>2, <2>1, <3>1, <3>2
  <2>4. OpraLen \in T
    <3> HIDE DEF T
    <3> QED BY <1>1, <2>2, <2>3, AllNaturals
  <2> QED BY <1>1, <2>4
<1>6. at = [k \in N |-> at[k]]
  BY <1>4
<1> QED BY <1>5, <1>6

\* The oldest node comes first in the queue.
Reversed(c) == [k \in 1..Len(c) |-> info[c[Len(c) + 1 - k]]]

LEMMA QueueIs ==
  ASSUME NEW c \in Seq(Slots), Distinct(c), NEW nx, NEW h, IsChain(nx, h, c)
  PROVE  QueueFrom(nx, h) = Reversed(c)
<1> DEFINE at == Walk(nx, h)
           n == Len(c)
           D == {k \in DOMAIN at : at[k] # NULL}
<1>1. at = [k \in 1..OpraLen + 1 |-> IF k <= n THEN c[k] ELSE NULL]
  <2> HIDE DEF at
  <2> QED BY WalkIs DEF at
<1>2. n \in 0..OpraLen /\ OpraLen \in Nat /\ NULL \notin Slots
  BY ShortChain, ListAssumption
<1>3. \A k \in 1..n : c[k] \in Slots
  OBVIOUS
<1> HIDE DEF at, n
<1>4. D = 1..n
  BY <1>1, <1>2, <1>3
<1>5. Cardinality(D) = n
  <2>1. Cardinality(1..n) = n
    BY <1>2, FS_Interval
  <2> QED BY <1>4, <2>1, Zenon
<1>6. QueueFrom(nx, h) = [k \in 1..n |-> info[at[n + 1 - k]]]
  <2> DEFINE len == Cardinality(D)
  <2>1. QueueFrom(nx, h) = [k \in 1..len |-> info[at[len + 1 - k]]]
    BY Zenon DEF QueueFrom, at
  <2>2. len = n
    BY <1>5
  <2> HIDE DEF len
  <2> QED BY <2>1, <2>2
<1>7. \A k \in 1..n : at[n + 1 - k] = c[n + 1 - k]
  BY <1>1, <1>2
<1> QED BY <1>6, <1>7 DEF Reversed, n

\* What the functions of the model say of a list with chain c.
LEMMA ListIs ==
  ASSUME NEW c \in Seq(Slots), Distinct(c), NEW m, IsChain(next, opera_info[m], c)
  PROVE  /\ Ends(m) /\ Nodes(m) = ToSet(c)
         /\ Tails(m) = (IF c = <<>> THEN {} ELSE {c[Len(c)]})
         /\ opera_info[m] = NULL <=> c = <<>>
<1> DEFINE at == Walk(next, opera_info[m])
           n == Len(c)
<1>1. at = [k \in 1..OpraLen + 1 |-> IF k <= n THEN c[k] ELSE NULL]
  <2> HIDE DEF at
  <2> QED BY WalkIs DEF at
<1>2. n \in 0..OpraLen /\ OpraLen \in Nat /\ NULL \notin Slots
  BY ShortChain, ListAssumption
<1>3. \A k \in 1..n : c[k] \in Slots
  OBVIOUS
<1>4. c = <<>> <=> n = 0
  OBVIOUS
<1>5. \A x : x \in ToSet(c) <=> \E k \in 1..n : c[k] = x
  BY ElementsOf
<1> HIDE DEF at, n
<1>6. Ends(m)
  BY <1>1, <1>2 DEF Ends, at
<1>7. Nodes(m) = ToSet(c)
  <2>1. Nodes(m) = {at[k] : k \in 1..OpraLen} \ {NULL}
    BY DEF Nodes, at
  <2>2. ASSUME NEW x \in ToSet(c) PROVE x \in Nodes(m)
    <3>1. PICK k \in 1..n : c[k] = x
      BY <1>5
    <3>2. k \in 1..OpraLen /\ at[k] = x /\ x # NULL
      BY <1>1, <1>2, <1>3, <3>1
    <3> QED BY <2>1, <3>2
  <2>3. ASSUME NEW x \in Nodes(m) PROVE x \in ToSet(c)
    <3>1. PICK k \in 1..OpraLen : at[k] = x /\ x # NULL
      BY <2>1
    <3>2. k \in 1..n /\ c[k] = x
      BY <1>1, <1>2, <3>1
    <3> QED BY <1>5, <3>2
  <2> QED BY <2>2, <2>3
<1>8. Tails(m) = (IF c = <<>> THEN {} ELSE {c[n]})
  <2>1. \A k \in 1..n : next[c[k]] = NULL <=> k = n
    <3> SUFFICES ASSUME NEW k \in 1..n PROVE next[c[k]] = NULL <=> k = n
      OBVIOUS
    <3>1. next[c[k]] = IF k = n THEN NULL ELSE c[k + 1]
      BY DEF IsChain, n
    <3>2. k # n => c[k + 1] \in Slots
      BY <1>2, <1>3
    <3> QED BY <1>2, <3>1, <3>2
  <2>2. ASSUME NEW i \in Tails(m) PROVE c # <<>> /\ i = c[n]
    <3>1. PICK k \in 1..n : c[k] = i
      BY <1>5, <1>7 DEF Tails
    <3> QED BY <1>2, <1>4, <2>1, <3>1 DEF Tails
  <2>3. ASSUME c # <<>> PROVE c[n] \in Tails(m)
    <3>1. n \in 1..n
      BY <1>2, <1>4, <2>3
    <3> QED BY <1>5, <1>7, <2>1, <3>1 DEF Tails
  <2> QED BY <2>2, <2>3
<1>9. opera_info[m] = NULL <=> c = <<>>
  <2>1. opera_info[m] = IF c = <<>> THEN NULL ELSE c[1]
    BY DEF IsChain
  <2>2. c # <<>> => c[1] \in Slots
    BY <1>2, <1>3, <1>4
  <2> QED BY <1>2, <2>1, <2>2
<1> QED BY <1>6, <1>7, <1>8, <1>9 DEF n

---------------------------------------------------------------------------
(* The invariant.                                                           *)

\* The nodes of sector s that may still be changed, by their places in a chain.
Pending(inf, c, lock, s) == {k \in 1..Len(c) : inf[c[k]].sec = s /\ c[k] # lock}

LockedErase(inf, lock, s) == lock # NULL /\ inf[lock].sec = s /\ inf[lock].type = "ERASING"

\* They are an erase, a write, or an erase and a newer write; behind an erase that
\* is being performed there is no other.
Shape(inf, c, lock, s) ==
  /\ \A i, j \in Pending(inf, c, lock, s) :
       i < j => inf[c[i]].type = "WRITTING" /\ inf[c[j]].type = "ERASING"
  /\ LockedErase(inf, lock, s) =>
       \A i \in Pending(inf, c, lock, s) : inf[c[i]].type = "WRITTING"

\* The node being performed is the oldest one.
Locks(c, lock) == lock # NULL => c # <<>> /\ lock = c[Len(c)]

\* c is a list.
IsList(inf, nx, h, lock, c) ==
  /\ c \in Seq(Slots) /\ Distinct(c)
  /\ IsChain(nx, h, c)
  /\ Locks(c, lock)
  /\ \A s \in Sectors : Shape(inf, c, lock, s)

\* The used nodes are divided among the lists.
Shared(used, ch) ==
  /\ \A i \in Slots : used[i] = TRUE <=> \E m \in Mods : i \in ToSet(ch[m])
  /\ \A m, o \in Mods : m # o => ToSet(ch[m]) \cap ToSet(ch[o]) = {}

\* The chains of the lists from the nodes hs, of which the nodes ls are performed.
ListsIn(inf, nx, hs, ls, used, ch) ==
  /\ \A m \in Mods : IsList(inf, nx, hs[m], ls[m], ch[m])
  /\ Shared(used, ch)

Lists(ch) == ListsIn(info, next, opera_info, cur, is_used, ch)

\* Every write has a buffer.
UsedWrites(inf, used) == {i \in Slots : used[i] = TRUE /\ inf[i].type = "WRITTING"}

ListInv ==
  /\ TypeOK
  /\ data_used = Cardinality(UsedWrites(info, is_used))
  /\ \E ch \in [Mods -> Seq(Slots)] : Lists(ch)

---------------------------------------------------------------------------
(* The turns of the walk of _e_opera_add.                                   *)

Walks == [tmp : Links, pre : Links, head : Links, next : [Slots -> Links],
          is_used : [Slots -> BOOLEAN], freed : Nat, merged : BOOLEAN]

StartOfWalk(m) ==
  [tmp |-> opera_info[m], pre |-> opera_info[m], head |-> opera_info[m],
   next |-> next, is_used |-> is_used, freed |-> 0, merged |-> FALSE]

AreTurns(t, m, s) ==
  t[0] = StartOfWalk(m) /\ \A k \in 1..OpraLen : t[k] = EraseTurn(t[k - 1], m, s)

\* The recursion has a solution, turn by turn.
LEMMA TurnsExist ==
  ASSUME NEW m, NEW s
  PROVE  \E t : AreTurns(t, m, s) /\ EraseWalk(m, s) = t[OpraLen]
<1> DEFINE N == 0..OpraLen
           Body(t, n) == [k \in 0..n |-> IF k = 0 THEN StartOfWalk(m)
                                         ELSE EraseTurn(t[k - 1], m, s)]
           T == {n \in Nat : \E t : t = Body(t, n)}
<1>1. 0 \in T
  <2> DEFINE z == [k \in 0..0 |-> StartOfWalk(m)]
  <2>1. z = Body(z, 0)
    OBVIOUS
  <2> HIDE DEF z
  <2> QED BY <2>1
<1>2. ASSUME NEW n \in Nat, n \in T PROVE n + 1 \in T
  <2>1. PICK t : t = Body(t, n)
    BY <1>2
  <2> DEFINE z == [k \in 0..n + 1 |-> IF k = 0 THEN StartOfWalk(m)
                                      ELSE EraseTurn(t[k - 1], m, s)]
  <2>2. \A k \in 0..n : z[k] = t[k]
    BY <2>1
  <2>3. \A k \in 0..n + 1 : k # 0 => k - 1 \in 0..n
    OBVIOUS
  <2>4. \A k \in 0..n + 1 : z[k] = (IF k = 0 THEN StartOfWalk(m) ELSE EraseTurn(z[k - 1], m, s))
    BY <2>2, <2>3
  <2>5. z = [k \in 0..n + 1 |-> z[k]]
    OBVIOUS
  <2> HIDE DEF z
  <2>6. z = Body(z, n + 1)
    BY <2>4, <2>5
  <2> QED BY <2>6
<1>3. OpraLen \in T
  <2> HIDE DEF T
  <2> QED BY <1>1, <1>2, AllNaturals, ListAssumption
<1> DEFINE turns == CHOOSE t : t = Body(t, OpraLen)
<1>4. turns = Body(turns, OpraLen)
  BY <1>3
<1>5. EraseWalk(m, s) = turns[OpraLen]
  BY DEF EraseWalk, StartOfWalk
<1> HIDE DEF turns
<1>6. AreTurns(turns, m, s)
  BY <1>4, ListAssumption DEF AreTurns
<1> QED BY <1>5, <1>6

\* What a turn does that unlinks its node.
LEMMA UnlinkIs ==
  ASSUME NEW w \in Walks, w.tmp \in Slots, w.pre \in Slots, next \in [Slots -> Links],
         NEW y, y = Advance(Unlink(w), w)
  PROVE  /\ y \in Walks
         /\ y.tmp = w.next[w.tmp] /\ y.merged = w.merged
         /\ y.pre = (IF w.next[w.tmp] # NULL THEN w.tmp ELSE w.pre)
         /\ y.head = (IF w.tmp = w.head THEN next[w.tmp] ELSE w.head)
         /\ y.next = (IF w.tmp = w.head THEN w.next
                      ELSE [w.next EXCEPT ![w.pre] = w.next[w.tmp]])
         /\ y.is_used = [w.is_used EXCEPT ![w.tmp] = FALSE]
         /\ y.freed = (IF info[w.tmp].type = "WRITTING" THEN w.freed + 1 ELSE w.freed)
<1> DEFINE u == Unlink(w)
           hd == IF w.tmp = w.head THEN next[w.tmp] ELSE w.head
           nx == IF w.tmp = w.head THEN w.next ELSE [w.next EXCEPT ![w.pre] = w.next[w.tmp]]
           us == [w.is_used EXCEPT ![w.tmp] = FALSE]
           fr == IF info[w.tmp].type = "WRITTING" THEN w.freed + 1 ELSE w.freed
           pr == IF w.next[w.tmp] # NULL THEN w.tmp ELSE w.pre
<1>1. /\ w.next \in [Slots -> Links] /\ w.is_used \in [Slots -> BOOLEAN] /\ w.freed \in Nat
      /\ w.head \in Links /\ w.merged \in BOOLEAN
  BY Zenon DEF Walks
<1>2. w.next[w.tmp] \in Links /\ next[w.tmp] \in Links /\ Slots \subseteq Links
  BY <1>1 DEF Links
<1>3. hd \in Links /\ pr \in Links
  BY <1>1, <1>2
<1>4. nx \in [Slots -> Links] /\ us \in [Slots -> BOOLEAN] /\ fr \in Nat
  BY <1>1, <1>2
<1>5. u = [w EXCEPT !.head = hd, !.next = nx, !.is_used = us, !.freed = fr]
  BY Zenon DEF Unlink
<1>6. y = [u EXCEPT !.tmp = w.next[w.tmp], !.pre = IF w.next[w.tmp] # NULL THEN w.tmp ELSE @]
  BY Zenon DEF Advance
<1> HIDE DEF u, hd, nx, us, fr
<1>7. /\ u \in Walks /\ u.head = hd /\ u.next = nx /\ u.is_used = us /\ u.freed = fr
      /\ u.merged = w.merged /\ u.pre = w.pre
  BY <1>3, <1>4, <1>5, Zenon DEF Walks
<1>8. y = [u EXCEPT !.tmp = w.next[w.tmp], !.pre = pr]
  BY <1>6, <1>7, Zenon
<1> HIDE DEF pr
<1>9. /\ y \in Walks /\ y.head = hd /\ y.next = nx /\ y.is_used = us /\ y.freed = fr
      /\ y.merged = w.merged /\ y.pre = pr /\ y.tmp = w.next[w.tmp]
  BY <1>2, <1>3, <1>7, <1>8, Zenon DEF Walks
<1> QED BY <1>9 DEF hd, nx, us, fr, pr

\* And one that does not.
LEMMA AdvanceIs ==
  ASSUME NEW w \in Walks, w.tmp \in Slots, NEW y, y = Advance(w, w)
  PROVE  /\ y \in Walks
         /\ y.tmp = w.next[w.tmp] /\ y.merged = w.merged
         /\ y.pre = (IF w.next[w.tmp] # NULL THEN w.tmp ELSE w.pre)
         /\ y.head = w.head /\ y.next = w.next /\ y.is_used = w.is_used /\ y.freed = w.freed
<1> DEFINE pr == IF w.next[w.tmp] # NULL THEN w.tmp ELSE w.pre
<1>1. w.next \in [Slots -> Links] /\ w.pre \in Links
  BY Zenon DEF Walks
<1>2. w.next[w.tmp] \in Links /\ pr \in Links
  BY <1>1 DEF Links
<1>3. y = [w EXCEPT !.tmp = w.next[w.tmp], !.pre = pr]
  BY Zenon DEF Advance
<1> HIDE DEF pr
<1>4. /\ y \in Walks /\ y.tmp = w.next[w.tmp] /\ y.pre = pr /\ y.head = w.head
      /\ y.next = w.next /\ y.is_used = w.is_used /\ y.freed = w.freed /\ y.merged = w.merged
  BY <1>2, <1>3, Zenon DEF Walks
<1> QED BY <1>4 DEF pr

---------------------------------------------------------------------------
(* What the walk leaves: the pointers lead past the places of X.            *)

At(c, y) == IF y \in 1..Len(c) THEN c[y] ELSE NULL

\* y is the next place after x that is not in X.
Skips(X, x, y) == x < y /\ y \notin X /\ \A z \in Nat : x < z /\ z < y => z \in X

\* The pointers nx from h lead along chain c past the places of X.
LeadsPast(nx, h, c, X) ==
  \A x \in 0..Len(c), y \in 1..Len(c) + 1 :
     x \notin X /\ Skips(X, x, y) => (IF x = 0 THEN h ELSE nx[c[x]]) = At(c, y)

Upto(D, k) == {x \in D : x <= k}

LEMMA ChainLeads ==
  ASSUME NEW c \in Seq(Slots), NEW nx, NEW h, IsChain(nx, h, c), NEW X, X = {}
  PROVE  LeadsPast(nx, h, c, X)
<1> SUFFICES ASSUME NEW x \in 0..Len(c), NEW y \in 1..Len(c) + 1, Skips(X, x, y)
             PROVE  (IF x = 0 THEN h ELSE nx[c[x]]) = At(c, y)
  BY DEF LeadsPast
<1>1. y = x + 1
  <2>1. ASSUME x + 1 < y PROVE FALSE
    <3>1. x + 1 \in Nat /\ x < x + 1
      OBVIOUS
    <3> QED BY <2>1, <3>1 DEF Skips
  <2> QED BY <2>1 DEF Skips
<1>2. c = <<>> <=> Len(c) = 0
  OBVIOUS
<1> QED BY <1>1, <1>2 DEF IsChain, At

\* The walk's node is the first one just when all before it are gone.
LEMMA HeadIs ==
  ASSUME NEW c \in Seq(Slots), Distinct(c), NEW nx, NEW h, NEW k \in 0..Len(c) - 1,
         NEW X \in SUBSET (1..k), LeadsPast(nx, h, c, X)
  PROVE  h = c[k + 1] <=> X = 1..k
<1>1. Len(c) \in Nat /\ k \in Nat /\ k + 1 \in 1..Len(c)
  OBVIOUS
<1>2. PICK y \in Nat \ (X \cup {0}) : \A z \in Nat \ (X \cup {0}) : y <= z
  <2>1. k + 1 \in Nat \ (X \cup {0})
    BY <1>1
  <2> QED BY <2>1, LeastOf
<1>3. y <= k + 1 /\ y \in 1..Len(c)
  BY <1>1, <1>2
<1>4. Skips(X, 0, y) /\ 0 \notin X
  BY <1>1, <1>2 DEF Skips
<1>5. h = c[y]
  BY <1>1, <1>3, <1>4 DEF LeadsPast, At
<1>6. h = c[k + 1] <=> y = k + 1
  BY <1>1, <1>3, <1>5 DEF Distinct
<1>7. ASSUME y = k + 1 PROVE X = 1..k
  <2> SUFFICES ASSUME NEW z \in 1..k PROVE z \in X
    OBVIOUS
  <2> QED BY <1>1, <1>2, <1>7
<1>8. ASSUME X = 1..k PROVE y = k + 1
  BY <1>1, <1>2, <1>3, <1>8
<1> QED BY <1>6, <1>7, <1>8

\* Unlinking the first node,
LEMMA LeadsPastHead ==
  ASSUME NEW c \in Seq(Slots), NEW nx, NEW h, NEW k \in 0..Len(c) - 1,
         NEW X, X = 1..k, LeadsPast(nx, h, c, X),
         NEW Y, Y = X \cup {k + 1}
  PROVE  LeadsPast(nx, At(c, k + 2), c, Y)
<1> SUFFICES ASSUME NEW x \in 0..Len(c), NEW y \in 1..Len(c) + 1, x \notin Y, Skips(Y, x, y)
             PROVE  (IF x = 0 THEN At(c, k + 2) ELSE nx[c[x]]) = At(c, y)
  BY DEF LeadsPast
<1>1. Y = 1..k + 1 /\ Len(c) \in Nat
  OBVIOUS
<1>2. CASE x = 0
  <2>1. ASSUME k + 2 < y PROVE FALSE
    <3>1. k + 2 \in Nat /\ x < k + 2
      BY <1>2
    <3> QED BY <1>1, <2>1, <3>1 DEF Skips
  <2>2. y = k + 2
    BY <1>1, <1>2, <2>1 DEF Skips
  <2> QED BY <1>2, <2>2
<1>3. CASE x # 0
  <2>1. x > k + 1
    BY <1>1, <1>3
  <2>2. Skips(X, x, y) /\ x \notin X
    BY <1>1, <2>1 DEF Skips
  <2> QED BY <1>3, <2>2 DEF LeadsPast
<1> QED BY <1>2, <1>3

\* and one whose predecessor is still on the list.
LEMMA LeadsPastNode ==
  ASSUME NEW c \in Seq(Slots), Distinct(c), NEW nx \in [Slots -> Links], NEW h,
         NEW k \in 1..Len(c) - 1,
         NEW X \in SUBSET (1..k), k \notin X, LeadsPast(nx, h, c, X),
         NEW Y, Y = X \cup {k + 1},
         NEW ny, ny = [nx EXCEPT ![c[k]] = At(c, k + 2)]
  PROVE  LeadsPast(ny, h, c, Y)
<1> SUFFICES ASSUME NEW x \in 0..Len(c), NEW y \in 1..Len(c) + 1, x \notin Y, Skips(Y, x, y)
             PROVE  (IF x = 0 THEN h ELSE ny[c[x]]) = At(c, y)
  BY DEF LeadsPast
<1>1. Len(c) \in Nat /\ k \in 1..Len(c) /\ c[k] \in Slots
  OBVIOUS
<1>2. ny[c[k]] = At(c, k + 2) /\ \A i \in Slots : i # c[k] => ny[i] = nx[i]
  BY <1>1
<1>3. CASE x < k
  <2>1. y <= k
    BY <1>1, <1>3 DEF Skips
  <2>2. Skips(X, x, y) /\ x \notin X
    BY <1>1, <1>3, <2>1 DEF Skips
  <2>3. (IF x = 0 THEN h ELSE nx[c[x]]) = At(c, y)
    BY <2>2 DEF LeadsPast
  <2>4. x # 0 => ny[c[x]] = nx[c[x]]
    <3> SUFFICES ASSUME x # 0 PROVE ny[c[x]] = nx[c[x]]
      OBVIOUS
    <3>1. x \in 1..Len(c) /\ c[x] \in Slots
      BY <1>1
    <3>2. c[x] # c[k]
      BY <1>1, <1>3, <3>1 DEF Distinct
    <3> QED BY <1>2, <3>1, <3>2
  <2> QED BY <2>3, <2>4
<1>4. CASE x = k
  <2>1. ASSUME k + 2 < y PROVE FALSE
    <3>1. k + 2 \in Nat /\ x < k + 2 /\ k + 2 \notin Y
      BY <1>1, <1>4
    <3> QED BY <2>1, <3>1 DEF Skips
  <2>2. y = k + 2
    BY <1>1, <1>4, <2>1 DEF Skips
  <2> QED BY <1>1, <1>2, <1>4, <2>2
<1>5. CASE x > k
  <2>1. x > k + 1 /\ x \in 1..Len(c) /\ c[x] \in Slots
    BY <1>1, <1>5
  <2>2. Skips(X, x, y) /\ x \notin X
    BY <1>1, <2>1 DEF Skips
  <2>3. nx[c[x]] = At(c, y)
    BY <2>1, <2>2 DEF LeadsPast
  <2>4. c[x] # c[k]
    BY <1>1, <1>5, <2>1 DEF Distinct
  <2> QED BY <1>2, <2>1, <2>3, <2>4
<1> QED BY <1>1, <1>3, <1>4, <1>5

LEMMA WritesAreCounted ==
  ASSUME NEW inf, NEW used
  PROVE  Cardinality(UsedWrites(inf, used)) \in Nat
<1>1. IsFiniteSet(Slots)
  BY FS_Interval, ListAssumption DEF Slots
<1>2. UsedWrites(inf, used) \subseteq Slots
  BY DEF UsedWrites
<1> QED BY <1>1, <1>2, FS_Subset, FS_CardinalityType

\* In b there is one write less than in a if node i of a is one.
OneLess(jnf, b, inf, a, i) ==
  Cardinality(UsedWrites(inf, a))
    = Cardinality(UsedWrites(jnf, b)) + (IF inf[i].type = "WRITTING" THEN 1 ELSE 0)

\* A node that is freed has its buffer taken back.
LEMMA FreeingOne ==
  ASSUME NEW inf, NEW used \in [Slots -> BOOLEAN], NEW i \in Slots, used[i] = TRUE,
         NEW us, us = [used EXCEPT ![i] = FALSE]
  PROVE  OneLess(inf, us, inf, used, i)
<1> DEFINE A == UsedWrites(inf, used)
           B == UsedWrites(inf, us)
<1>1. IsFiniteSet(Slots)
  BY FS_Interval, ListAssumption DEF Slots
<1>2. A \subseteq Slots
  BY DEF UsedWrites
<1>3. IsFiniteSet(A) /\ Cardinality(A) \in Nat
  <2> HIDE DEF A
  <2> QED BY <1>1, <1>2, FS_Subset, FS_CardinalityType
<1>4. CASE inf[i].type = "WRITTING"
  <2>1. i \in A /\ B = A \ {i}
    BY <1>4 DEF UsedWrites
  <2> HIDE DEF A, B
  <2>2. Cardinality(B) = Cardinality(A) - 1
    BY <1>3, <2>1, FS_RemoveElement
  <2> QED BY <1>3, <1>4, <2>2 DEF A, B, OneLess
<1>5. CASE inf[i].type # "WRITTING"
  <2>1. B = A
    BY <1>5 DEF UsedWrites
  <2> QED BY <1>3, <1>5, <2>1 DEF OneLess
<1> QED BY <1>4, <1>5

\* And a write that is added needs one.
LEMMA UsingOne ==
  ASSUME NEW inf, NEW used \in [Slots -> BOOLEAN], NEW i \in Slots, used[i] = FALSE,
         NEW us, us = [used EXCEPT ![i] = TRUE],
         NEW f, inf \in [Slots -> Infos], NEW jnf, jnf = [inf EXCEPT ![i] = f]
  PROVE  OneLess(inf, used, jnf, us, i)
<1>1. us \in [Slots -> BOOLEAN] /\ us[i] = TRUE /\ used = [us EXCEPT ![i] = FALSE]
  OBVIOUS
<1>2. OneLess(jnf, used, jnf, us, i)
  BY <1>1, FreeingOne
<1>3. UsedWrites(jnf, used) = UsedWrites(inf, used)
  BY DEF UsedWrites
<1> QED BY <1>2, <1>3 DEF OneLess

---------------------------------------------------------------------------
(* The invariant of the walk.                                               *)

\* A list the walk for sector s can be on.
MayWalk(c, m, s) ==
  /\ TypeOK /\ m \in Mods /\ s \in Sectors
  /\ IsList(info, next, opera_info[m], cur[m], c)
  /\ \A x \in ToSet(c) : is_used[x] = TRUE

\* No node is unlinked right behind another, but at the front of the list.
SafeToWalk(D) == \A x \in D : x + 1 \in D => x = 1

\* The walk is at place k + 1 of chain c; the pending nodes up to k are gone.
WalkAt(w, k, c, m, s) ==
  LET D == Pending(info, c, cur[m], s)
      X == Upto(D, k)
  IN  /\ w \in Walks
      /\ w.tmp = At(c, k + 1)
      /\ k < Len(c) => w.pre = c[IF k = 0 THEN 1 ELSE k]
      /\ LeadsPast(w.next, w.head, c, X)
      /\ \A i \in Slots : i \notin ToSet(c) => w.next[i] = next[i]
      /\ \A i \in Slots :
           w.is_used[i] = TRUE <=> is_used[i] = TRUE /\ \A x \in X : c[x] # i
      /\ Cardinality(UsedWrites(info, w.is_used)) + w.freed
           = Cardinality(UsedWrites(info, is_used))

LEMMA WalkStarts ==
  ASSUME NEW c, NEW m, NEW s, MayWalk(c, m, s)
  PROVE  WalkAt(StartOfWalk(m), 0, c, m, s) /\ StartOfWalk(m).merged = FALSE
<1> DEFINE w == StartOfWalk(m)
           D == Pending(info, c, cur[m], s)
           X == Upto(D, 0)
<1>1. c \in Seq(Slots) /\ Len(c) \in Nat /\ X = {} /\ IsChain(next, opera_info[m], c)
  BY DEF MayWalk, IsList, Upto, Pending
<1>2. /\ w.tmp = opera_info[m] /\ w.pre = opera_info[m] /\ w.head = opera_info[m]
      /\ w.next = next /\ w.is_used = is_used /\ w.freed = 0 /\ w.merged = FALSE
  BY DEF StartOfWalk
<1>3. w \in Walks
  BY SMTT(20) DEF MayWalk, TypeOK, Walks, Links, StartOfWalk
<1>4. opera_info[m] = At(c, 1)
  <2>1. c = <<>> <=> Len(c) = 0
    BY <1>1
  <2> QED BY <1>1, <2>1 DEF IsChain, At
<1>5. 0 < Len(c) => opera_info[m] = c[1]
  BY <1>1, <1>4 DEF At
<1>6. LeadsPast(next, opera_info[m], c, X)
  <2> HIDE DEF X
  <2> QED BY <1>1, ChainLeads
<1>7. Cardinality(UsedWrites(info, is_used)) + 0 = Cardinality(UsedWrites(info, is_used))
  BY WritesAreCounted
<1> HIDE DEF w, X
<1>8. WalkAt(w, 0, c, m, s)
  BY <1>1, <1>2, <1>3, <1>4, <1>5, <1>6, <1>7 DEF WalkAt, X
<1> QED BY <1>2, <1>8 DEF w

\* The walk's node.
LEMMA NodeAt ==
  ASSUME NEW c, NEW m, NEW s, MayWalk(c, m, s), NEW k \in 0..Len(c) - 1,
         NEW w, WalkAt(w, k, c, m, s)
  PROVE  /\ k + 1 \in 1..Len(c) /\ w.tmp = c[k + 1] /\ w.tmp \in Slots /\ w.tmp # NULL
         /\ w.pre \in Slots
         /\ w.next[w.tmp] = At(c, k + 2) /\ next[w.tmp] = At(c, k + 2)
<1>1. c \in Seq(Slots) /\ Len(c) \in Nat /\ IsChain(next, opera_info[m], c)
  BY DEF MayWalk, IsList
<1>2. k + 1 \in 1..Len(c) /\ w.tmp = c[k + 1] /\ w.tmp \in Slots /\ w.tmp # NULL
  BY <1>1, ListAssumption DEF WalkAt, At
<1>3. w.pre \in Slots
  <2>1. w.pre = c[IF k = 0 THEN 1 ELSE k]
    BY <1>1 DEF WalkAt
  <2> QED BY <1>1, <2>1
<1>4. next[w.tmp] = At(c, k + 2)
  BY <1>1, <1>2 DEF IsChain, At
<1>5. w.next[w.tmp] = At(c, k + 2)
  <2> DEFINE X == Upto(Pending(info, c, cur[m], s), k)
  <2>1. X \subseteq 1..k
    BY DEF Upto, Pending
  <2>2. LeadsPast(w.next, w.head, c, X)
    BY DEF WalkAt
  <2> HIDE DEF X
  <2>3. Skips(X, k + 1, k + 2) /\ k + 1 \notin X
    BY <1>1, <2>1 DEF Skips
  <2>4. k + 1 \in 0..Len(c) /\ k + 2 \in 1..Len(c) + 1 /\ k + 1 # 0
    BY <1>1
  <2> QED BY <1>2, <2>2, <2>3, <2>4 DEF LeadsPast
<1> QED BY <1>2, <1>3, <1>4, <1>5

\* A pending node is unlinked,
LEMMA TurnUnlinks ==
  ASSUME NEW c, NEW m, NEW s, MayWalk(c, m, s), NEW k \in 0..Len(c) - 1,
         NEW w, WalkAt(w, k, c, m, s),
         k + 1 \in Pending(info, c, cur[m], s), SafeToWalk(Pending(info, c, cur[m], s)),
         NEW y, y = Advance(Unlink(w), w)
  PROVE  WalkAt(y, k + 1, c, m, s) /\ y.merged = w.merged
<1> DEFINE D == Pending(info, c, cur[m], s)
           X == Upto(D, k)
           Y == Upto(D, k + 1)
<1>1. /\ c \in Seq(Slots) /\ Len(c) \in Nat /\ Distinct(c) /\ next \in [Slots -> Links]
  BY DEF MayWalk, IsList, TypeOK, Links
<1>2. /\ k + 1 \in 1..Len(c) /\ w.tmp = c[k + 1] /\ w.tmp \in Slots /\ w.pre \in Slots
      /\ w.next[w.tmp] = At(c, k + 2) /\ next[w.tmp] = At(c, k + 2)
  BY ZenonT(30), NodeAt
<1>3. w \in Walks /\ w.next \in [Slots -> Links] /\ w.is_used \in [Slots -> BOOLEAN]
      /\ w.freed \in Nat
  <2>1. w \in Walks
    BY DEF WalkAt
  <2> QED BY <2>1, Zenon DEF Walks
<1>4. X \subseteq 1..k /\ Y = X \cup {k + 1} /\ k + 1 \in D
  BY DEF Upto, Pending
<1>5. /\ k < Len(c) => w.pre = c[IF k = 0 THEN 1 ELSE k]
      /\ LeadsPast(w.next, w.head, c, X)
      /\ \A i \in Slots : i \notin ToSet(c) => w.next[i] = next[i]
      /\ \A i \in Slots :
           w.is_used[i] = TRUE <=> is_used[i] = TRUE /\ \A x \in X : c[x] # i
      /\ Cardinality(UsedWrites(info, w.is_used)) + w.freed
           = Cardinality(UsedWrites(info, is_used))
  BY DEF WalkAt
<1>6. /\ y \in Walks
      /\ y.tmp = w.next[w.tmp] /\ y.merged = w.merged
      /\ y.pre = (IF w.next[w.tmp] # NULL THEN w.tmp ELSE w.pre)
      /\ y.head = (IF w.tmp = w.head THEN next[w.tmp] ELSE w.head)
      /\ y.next = (IF w.tmp = w.head THEN w.next
                   ELSE [w.next EXCEPT ![w.pre] = w.next[w.tmp]])
      /\ y.is_used = [w.is_used EXCEPT ![w.tmp] = FALSE]
      /\ y.freed = (IF info[w.tmp].type = "WRITTING" THEN w.freed + 1 ELSE w.freed)
  BY ZenonT(30), <1>1, <1>2, <1>3, UnlinkIs
<1>7. X = 1..k => LeadsPast(w.next, At(c, k + 2), c, Y)
  <2> HIDE DEF X, Y
  <2> QED BY <1>1, <1>4, <1>5, LeadsPastHead
<1>8. w.head = c[k + 1] <=> X = 1..k
  <2> HIDE DEF X, Y
  <2> QED BY <1>1, <1>4, <1>5, HeadIs
<1>9. k # 0 /\ k \notin X => LeadsPast([w.next EXCEPT ![c[k]] = At(c, k + 2)], w.head, c, Y)
  <2> SUFFICES ASSUME k # 0, k \notin X
               PROVE  LeadsPast([w.next EXCEPT ![c[k]] = At(c, k + 2)], w.head, c, Y)
    OBVIOUS
  <2>1. k \in 1..Len(c) - 1
    BY <1>1
  <2> HIDE DEF X, Y
  <2> QED BY <1>1, <1>3, <1>4, <1>5, <2>1, LeadsPastNode
<1>10. X # 1..k => k # 0 /\ k \notin X
  <2>1. ASSUME k \in X PROVE X = 1..k
    <3>1. k = 1
      BY <1>4, <2>1 DEF SafeToWalk, Upto
    <3> QED BY <1>4, <2>1, <3>1
  <2>2. k = 0 => X = 1..k
    BY <1>4
  <2> QED BY <2>1, <2>2
<1> HIDE DEF X, Y, D
<1>11. LeadsPast(y.next, y.head, c, Y)
  <2>1. CASE X = 1..k
    BY <1>2, <1>6, <1>7, <1>8, <2>1
  <2>2. CASE X # 1..k
    <3>1. w.pre = c[k] /\ w.tmp # w.head
      BY <1>1, <1>2, <1>5, <1>8, <1>10, <2>2
    <3>2. y.head = w.head /\ y.next = [w.next EXCEPT ![c[k]] = At(c, k + 2)]
      BY <1>2, <1>6, <3>1
    <3> QED BY <1>9, <1>10, <2>2, <3>2
  <2> QED BY <2>1, <2>2
<1>12. y.tmp = At(c, k + 1 + 1)
  BY <1>2, <1>6
<1>13. k + 1 < Len(c) => y.pre = c[IF k + 1 = 0 THEN 1 ELSE k + 1]
  <2> SUFFICES ASSUME k + 1 < Len(c) PROVE y.pre = c[k + 1]
    BY <1>1
  <2>1. At(c, k + 2) \in Slots
    BY <1>1 DEF At
  <2>2. At(c, k + 2) # NULL
    BY <2>1, ListAssumption
  <2> QED BY <1>2, <1>6, <2>2
<1>14. \A i \in Slots : i \notin ToSet(c) => y.next[i] = next[i]
  <2>1. w.pre \in ToSet(c)
    <3>1. k < Len(c) /\ (IF k = 0 THEN 1 ELSE k) \in 1..Len(c)
      BY <1>1
    <3> QED BY <1>1, <1>5, <3>1, ElementsOf
  <2> SUFFICES ASSUME NEW i \in Slots, i \notin ToSet(c) PROVE y.next[i] = next[i]
    OBVIOUS
  <2>2. w.next[i] = next[i] /\ i # w.pre
    BY <1>5, <2>1
  <2> QED BY <1>2, <1>3, <1>6, <2>2
<1>15. \A i \in Slots :
         y.is_used[i] = TRUE <=> is_used[i] = TRUE /\ \A x \in Y : c[x] # i
  <2> SUFFICES ASSUME NEW i \in Slots
               PROVE  y.is_used[i] = TRUE <=> is_used[i] = TRUE /\ \A x \in Y : c[x] # i
    OBVIOUS
  <2>1. w.is_used[i] = TRUE <=> is_used[i] = TRUE /\ \A x \in X : c[x] # i
    BY <1>5
  <2>2. y.is_used[i] = IF i = c[k + 1] THEN FALSE ELSE w.is_used[i]
    BY <1>2, <1>3, <1>6
  <2> QED BY <1>4, <2>1, <2>2
<1>16. w.is_used[w.tmp] = TRUE
  <2>1. is_used[w.tmp] = TRUE
    BY <1>1, <1>2, ElementsOf DEF MayWalk
  <2>2. \A x \in X : c[x] # c[k + 1]
    <3> SUFFICES ASSUME NEW x \in X, c[x] = c[k + 1] PROVE FALSE
      OBVIOUS
    <3>1. x \in 1..Len(c) /\ x # k + 1
      BY <1>1, <1>4
    <3> QED BY <1>1, <1>2, <3>1 DEF Distinct
  <2> QED BY <1>2, <1>5, <2>1, <2>2
<1>17. Cardinality(UsedWrites(info, y.is_used)) + y.freed
         = Cardinality(UsedWrites(info, is_used))
  <2>1. OneLess(info, y.is_used, info, w.is_used, w.tmp)
    <3>1. y.is_used = [w.is_used EXCEPT ![w.tmp] = FALSE]
      BY <1>6
    <3>2. w.is_used \in [Slots -> BOOLEAN] /\ w.tmp \in Slots
      BY <1>2, <1>3
    <3> QED BY <1>16, <3>1, <3>2, FreeingOne, Zenon
  <2>2. Cardinality(UsedWrites(info, y.is_used)) \in Nat
    BY WritesAreCounted
  <2> QED BY <1>3, <1>5, <1>6, <2>1, <2>2 DEF OneLess
<1> QED BY <1>6, <1>11, <1>12, <1>13, <1>14, <1>15, <1>17 DEF WalkAt, Y, D

\* and any other node is passed.
LEMMA TurnPasses ==
  ASSUME NEW c, NEW m, NEW s, MayWalk(c, m, s), NEW k \in 0..Len(c) - 1,
         NEW w, WalkAt(w, k, c, m, s), k + 1 \notin Pending(info, c, cur[m], s),
         NEW y, y = Advance(w, w)
  PROVE  WalkAt(y, k + 1, c, m, s) /\ y.merged = w.merged
<1> DEFINE D == Pending(info, c, cur[m], s)
           X == Upto(D, k)
           Y == Upto(D, k + 1)
<1>1. c \in Seq(Slots) /\ Len(c) \in Nat
  BY DEF MayWalk, IsList
<1>2. /\ k + 1 \in 1..Len(c) /\ w.tmp = c[k + 1] /\ w.tmp \in Slots
      /\ w.next[w.tmp] = At(c, k + 2)
  BY NodeAt
<1>3. Y = X
  BY DEF Upto, Pending
<1>4. /\ y \in Walks /\ y.tmp = w.next[w.tmp] /\ y.merged = w.merged
      /\ y.pre = (IF w.next[w.tmp] # NULL THEN w.tmp ELSE w.pre)
      /\ y.head = w.head /\ y.next = w.next /\ y.is_used = w.is_used /\ y.freed = w.freed
  <2>1. w \in Walks
    BY DEF WalkAt
  <2> QED BY <1>2, <2>1, AdvanceIs
<1>5. k + 1 < Len(c) => y.pre = c[IF k + 1 = 0 THEN 1 ELSE k + 1]
  <2> SUFFICES ASSUME k + 1 < Len(c) PROVE y.pre = c[k + 1]
    BY <1>1
  <2>1. At(c, k + 2) \in Slots
    BY <1>1 DEF At
  <2>2. At(c, k + 2) # NULL
    BY <2>1, ListAssumption
  <2> QED BY <1>2, <1>4, <2>2
<1>6. /\ LeadsPast(w.next, w.head, c, X)
      /\ \A i \in Slots : i \notin ToSet(c) => w.next[i] = next[i]
      /\ \A i \in Slots :
           w.is_used[i] = TRUE <=> is_used[i] = TRUE /\ \A x \in X : c[x] # i
      /\ Cardinality(UsedWrites(info, w.is_used)) + w.freed
           = Cardinality(UsedWrites(info, is_used))
  BY DEF WalkAt
<1>7. y.tmp = At(c, k + 1 + 1)
  BY <1>2, <1>4
<1> HIDE DEF X, Y, D
<1> QED BY <1>3, <1>4, <1>5, <1>6, <1>7 DEF WalkAt, Y, D

\* At the node that is being performed the walk stops, if that is an erase.
LEMMA TurnMerges ==
  ASSUME NEW c, NEW m, NEW s, NEW k, NEW w, WalkAt(w, k, c, m, s),
         NEW y, y = [w EXCEPT !.merged = TRUE]
  PROVE  WalkAt(y, k, c, m, s) /\ y.merged = TRUE
<1>1. w \in Walks
  BY DEF WalkAt
<1>2. /\ y \in Walks /\ y.merged = TRUE /\ y.tmp = w.tmp /\ y.pre = w.pre /\ y.head = w.head
      /\ y.next = w.next /\ y.is_used = w.is_used /\ y.freed = w.freed
  BY <1>1, Zenon DEF Walks
<1> QED BY <1>2 DEF WalkAt

\* After j turns, of the at most OpraLen that the walk takes.
WalkedFor(w, j, c, m, s) ==
  \/ /\ w.merged = FALSE
     /\ WalkAt(w, IF j < Len(c) THEN j ELSE Len(c), c, m, s)
     /\ j >= Len(c) => ~LockedErase(info, cur[m], s)
  \/ /\ w.merged = TRUE
     /\ c # <<>> /\ WalkAt(w, Len(c) - 1, c, m, s)
     /\ LockedErase(info, cur[m], s)

LEMMA TurnWalks ==
  ASSUME NEW c, NEW m, NEW s, MayWalk(c, m, s), SafeToWalk(Pending(info, c, cur[m], s)),
         NEW j \in Nat, NEW w, WalkedFor(w, j, c, m, s), NEW y, y = EraseTurn(w, m, s)
  PROVE  WalkedFor(y, j + 1, c, m, s)
<1>1. /\ c \in Seq(Slots) /\ Len(c) \in Nat /\ Distinct(c) /\ Locks(c, cur[m])
  BY DEF MayWalk, IsList
<1>2. CASE w.merged = TRUE
  <2>1. y = w
    BY <1>2, Zenon DEF EraseTurn
  <2> QED BY <1>2, <2>1 DEF WalkedFor
<1>3. CASE w.merged = FALSE /\ j >= Len(c)
  <2>1. WalkAt(w, Len(c), c, m, s) /\ ~LockedErase(info, cur[m], s)
    BY <1>1, <1>3 DEF WalkedFor
  <2>2. w.tmp = NULL
    <3>1. w.tmp = At(c, Len(c) + 1)
      BY <2>1 DEF WalkAt
    <3> QED BY <1>1, <3>1 DEF At
  <2>3. y = w
    BY <2>2, Zenon DEF EraseTurn
  <2> QED BY <1>1, <1>3, <2>1, <2>3 DEF WalkedFor
<1>4. CASE w.merged = FALSE /\ j < Len(c)
  <2>1. j \in 0..Len(c) - 1 /\ WalkAt(w, j, c, m, s) /\ c # <<>>
    BY <1>1, <1>4 DEF WalkedFor
  <2>2. j + 1 \in 1..Len(c) /\ w.tmp = c[j + 1] /\ w.tmp \in Slots /\ w.tmp # NULL
    BY ZenonT(30), <2>1, NodeAt
  <2>3. j + 1 \in Pending(info, c, cur[m], s) <=> Matches(w, s) /\ w.tmp # cur[m]
    BY <2>2 DEF Pending, Matches
  <2>4. cur[m] # NULL => (w.tmp = cur[m] <=> j + 1 = Len(c))
    <3> SUFFICES ASSUME cur[m] # NULL PROVE w.tmp = cur[m] <=> j + 1 = Len(c)
      OBVIOUS
    <3>1. cur[m] = c[Len(c)] /\ Len(c) \in 1..Len(c)
      BY <1>1, <2>1 DEF Locks
    <3> QED BY <1>1, <2>2, <3>1 DEF Distinct
  <2>5. CASE j + 1 \in Pending(info, c, cur[m], s)
    <3>1. y = Advance(Unlink(w), w)
      BY <1>4, <2>2, <2>3, <2>5, Zenon DEF EraseTurn
    <3>2. WalkAt(y, j + 1, c, m, s) /\ y.merged = FALSE
      BY <1>4, <2>1, <2>5, <3>1, TurnUnlinks
    <3>3. j + 1 >= Len(c) => ~LockedErase(info, cur[m], s)
      BY <1>1, <2>2, <2>3, <2>4, <2>5 DEF LockedErase
    <3> QED BY <1>1, <2>2, <3>2, <3>3 DEF WalkedFor
  <2>6. CASE j + 1 \notin Pending(info, c, cur[m], s) /\ Matches(w, s) /\ info[w.tmp].type = "ERASING"
    <3>1. w.tmp = cur[m]
      BY <2>3, <2>6
    <3>2. LockedErase(info, cur[m], s) /\ j = Len(c) - 1
      BY <1>1, <2>2, <2>4, <2>6, <3>1 DEF LockedErase, Matches
    <3>3. y = [w EXCEPT !.merged = TRUE]
      BY <1>4, <2>2, <2>6, <3>1, Zenon DEF EraseTurn
    <3>4. WalkAt(y, j, c, m, s) /\ y.merged = TRUE
      BY <2>1, <3>3, TurnMerges
    <3> QED BY <2>1, <3>2, <3>4 DEF WalkedFor
  <2>7. CASE /\ j + 1 \notin Pending(info, c, cur[m], s)
             /\ ~(Matches(w, s) /\ info[w.tmp].type = "ERASING")
    <3>1. y = Advance(w, w)
      BY <1>4, <2>2, <2>3, <2>7, Zenon DEF EraseTurn
    <3>2. WalkAt(y, j + 1, c, m, s) /\ y.merged = FALSE
      BY <1>4, <2>1, <2>7, <3>1, TurnPasses
    <3>3. j + 1 >= Len(c) => ~LockedErase(info, cur[m], s)
      BY <1>1, <2>2, <2>4, <2>7 DEF LockedErase, Matches
    <3> QED BY <1>1, <2>2, <3>2, <3>3 DEF WalkedFor
  <2> QED BY <2>5, <2>6, <2>7
<1>5. w.merged = TRUE \/ w.merged = FALSE
  BY DEF WalkedFor
<1>6. j >= Len(c) \/ j < Len(c)
  BY <1>1
<1> QED BY <1>2, <1>3, <1>4, <1>5, <1>6, Zenon

\* What the walk has done to chain c when it ends.
Walked(w, c, m, s) ==
  LET D == Pending(info, c, cur[m], s)
  IN  /\ w \in Walks
      /\ LeadsPast(w.next, w.head, c, D)
      /\ \A i \in Slots : i \notin ToSet(c) => w.next[i] = next[i]
      /\ \A i \in Slots :
           w.is_used[i] = TRUE <=> is_used[i] = TRUE /\ \A x \in D : c[x] # i
      /\ Cardinality(UsedWrites(info, w.is_used)) + w.freed
           = Cardinality(UsedWrites(info, is_used))
      /\ w.merged = TRUE <=> LockedErase(info, cur[m], s)

LEMMA WalkEnds ==
  ASSUME NEW c, NEW m, NEW s, MayWalk(c, m, s), SafeToWalk(Pending(info, c, cur[m], s))
  PROVE  Walked(EraseWalk(m, s), c, m, s)
<1>1. PICK t : AreTurns(t, m, s) /\ EraseWalk(m, s) = t[OpraLen]
  BY TurnsExist
<1> DEFINE T == {j \in Nat : j <= OpraLen => WalkedFor(t[j], j, c, m, s)}
<1>2. /\ c \in Seq(Slots) /\ Len(c) \in 0..OpraLen /\ Locks(c, cur[m]) /\ OpraLen \in Nat
  <2>1. c \in Seq(Slots) /\ Distinct(c) /\ Locks(c, cur[m])
    BY DEF MayWalk, IsList
  <2> QED BY <2>1, ShortChain, ListAssumption
<1>3. 0 \in T
  <2>1. t[0] = StartOfWalk(m)
    BY <1>1 DEF AreTurns
  <2>2. WalkAt(t[0], 0, c, m, s) /\ t[0].merged = FALSE
    BY <2>1, WalkStarts
  <2>3. Len(c) = 0 => ~LockedErase(info, cur[m], s)
    BY <1>2 DEF Locks, LockedErase
  <2>4. (IF 0 < Len(c) THEN 0 ELSE Len(c)) = 0
    BY <1>2
  <2> QED BY <1>2, <2>2, <2>3, <2>4 DEF WalkedFor
<1>4. ASSUME NEW j \in Nat, j \in T PROVE j + 1 \in T
  <2> SUFFICES ASSUME j + 1 <= OpraLen PROVE WalkedFor(t[j + 1], j + 1, c, m, s)
    OBVIOUS
  <2>1. WalkedFor(t[j], j, c, m, s)
    BY <1>2, <1>4
  <2>2. j + 1 \in 1..OpraLen /\ (j + 1) - 1 = j
    BY <1>2
  <2>3. t[j + 1] = EraseTurn(t[j], m, s)
    BY <1>1, <2>2 DEF AreTurns
  <2> QED BY <2>1, <2>3, TurnWalks
<1>5. OpraLen \in T
  <2> HIDE DEF T
  <2> QED BY <1>2, <1>3, <1>4, AllNaturals
<1> DEFINE w == t[OpraLen]
           D == Pending(info, c, cur[m], s)
<1>6. WalkedFor(w, OpraLen, c, m, s)
  BY <1>2, <1>5
<1>7. PICK k \in Nat : /\ WalkAt(w, k, c, m, s) /\ Upto(D, k) = D
                       /\ w.merged = TRUE <=> LockedErase(info, cur[m], s)
  <2> HIDE DEF w
  <2>1. CASE w.merged = FALSE
    <3>1. WalkAt(w, Len(c), c, m, s) /\ ~LockedErase(info, cur[m], s)
      <4>1. (IF OpraLen < Len(c) THEN OpraLen ELSE Len(c)) = Len(c) /\ OpraLen >= Len(c)
        BY <1>2
      <4> QED BY <1>6, <2>1, <4>1 DEF WalkedFor
    <3>2. Upto(D, Len(c)) = D
      BY <1>2 DEF Upto, Pending
    <3> QED BY <1>2, <2>1, <3>1, <3>2
  <2>2. CASE w.merged = TRUE
    <3>1. c # <<>> /\ WalkAt(w, Len(c) - 1, c, m, s) /\ LockedErase(info, cur[m], s)
      BY <1>6, <2>2 DEF WalkedFor
    <3>2. Len(c) - 1 \in Nat /\ cur[m] = c[Len(c)]
      BY <1>2, <3>1 DEF Locks, LockedErase
    <3>3. Upto(D, Len(c) - 1) = D
      BY <3>2 DEF Upto, Pending
    <3> QED BY <2>2, <3>1, <3>2, <3>3
  <2>3. w.merged = TRUE \/ w.merged = FALSE
    BY <1>6 DEF WalkedFor
  <2> QED BY <2>1, <2>2, <2>3
<1>8. EraseWalk(m, s) = w
  BY <1>1
<1> HIDE DEF w, D
<1>9. Walked(w, c, m, s)
  BY <1>7 DEF Walked, WalkAt, D
<1> QED BY <1>8, <1>9

---------------------------------------------------------------------------
(* The chain without some of its places.                                    *)

\* r has, in their order, the nodes of c whose places are not in X: f says which.
Keeps(f, r, c, X) ==
  /\ r \in Seq(Slots) /\ f \in [1..Len(r) -> 1..Len(c)]
  /\ \A k, j \in 1..Len(r) : k < j => f[k] < f[j]
  /\ \A k \in 1..Len(r) : r[k] = c[f[k]] /\ f[k] \notin X
  /\ \A x \in 1..Len(c) : x \notin X => \E k \in 1..Len(r) : f[k] = x

LEMMA RestIsChain ==
  ASSUME NEW c \in Seq(Slots), NEW X, NEW f, NEW r, Keeps(f, r, c, X), 0 \notin X,
         NEW nx, NEW h, LeadsPast(nx, h, c, X), X \subseteq 1..Len(c)
  PROVE  IsChain(nx, h, r)
<1>1. /\ Len(c) \in Nat /\ Len(r) \in Nat /\ (r = <<>> <=> Len(r) = 0)
      /\ f \in [1..Len(r) -> 1..Len(c)]
  BY DEF Keeps
<1>2. /\ \A k, j \in 1..Len(r) : k < j => f[k] < f[j]
      /\ \A k \in 1..Len(r) : r[k] = c[f[k]] /\ f[k] \notin X
      /\ \A x \in 1..Len(c) : x \notin X => \E k \in 1..Len(r) : f[k] = x
  BY DEF Keeps
\* The places between two that follow each other are in X.
<1>3. ASSUME NEW k \in 0..Len(r),
             NEW x, x = (IF k = 0 THEN 0 ELSE f[k]),
             NEW y, y = (IF k = Len(r) THEN Len(c) + 1 ELSE f[k + 1])
      PROVE  (IF x = 0 THEN h ELSE nx[c[x]]) = At(c, y)
  <2>1. x \in 0..Len(c) /\ x \notin X /\ (x = 0 <=> k = 0)
    <3>1. k # 0 => k \in 1..Len(r)
      BY <1>1
    <3> QED BY <1>1, <1>2, <1>3, <3>1
  <2>2. k # Len(r) => k + 1 \in 1..Len(r)
    BY <1>1
  <2>3. y \in 1..Len(c) + 1 /\ y \notin X
    BY <1>1, <1>2, <1>3, <2>2
  <2>4. x < y
    <3>1. CASE k = Len(r)
      BY <1>1, <1>3, <2>1, <3>1
    <3>2. CASE k # Len(r) /\ k # 0
      <4>1. k \in 1..Len(r) /\ k < k + 1
        BY <1>1, <3>2
      <4> QED BY <1>2, <1>3, <2>2, <3>2, <4>1
    <3>3. CASE k # Len(r) /\ k = 0
      BY <1>1, <1>3, <2>2, <3>3
    <3> QED BY <3>1, <3>2, <3>3
  <2>5. ASSUME NEW z \in Nat, x < z, z < y, z \notin X PROVE FALSE
    <3>1. z \in 1..Len(c)
      BY <1>1, <2>1, <2>3, <2>5
    <3>2. PICK j \in 1..Len(r) : f[j] = z
      BY <1>2, <2>5, <3>1
    <3>3. CASE j <= k
      <4>1. k \in 1..Len(r) /\ x = f[k] /\ f[k] \in 1..Len(c) /\ f[j] \in 1..Len(c)
        BY <1>1, <1>3, <3>3
      <4>2. f[j] <= f[k]
        BY <1>2, <3>3, <4>1
      <4> QED BY <2>5, <3>2, <4>1, <4>2
    <3>4. CASE j > k
      <4>1. k # Len(r) /\ y = f[k + 1] /\ f[k + 1] \in 1..Len(c) /\ f[j] \in 1..Len(c)
        BY <1>1, <1>3, <2>2, <3>4
      <4>2. f[k + 1] <= f[j]
        BY <1>2, <2>2, <3>4, <4>1
      <4> QED BY <2>5, <3>2, <4>1, <4>2
    <3> QED BY <1>1, <3>3, <3>4
  <2>6. Skips(X, x, y)
    BY <2>3, <2>4, <2>5 DEF Skips
  <2> QED BY <2>1, <2>3, <2>6 DEF LeadsPast
<1>4. h = IF r = <<>> THEN NULL ELSE r[1]
  <2>1. CASE Len(r) = 0
    <3>1. h = At(c, Len(c) + 1)
      BY <1>1, <1>3, <2>1
    <3> QED BY <1>1, <2>1, <3>1 DEF At
  <2>2. CASE Len(r) # 0
    <3>1. 1 \in 1..Len(r) /\ 0 \in 0..Len(r) /\ 0 # Len(r)
      BY <1>1, <2>2
    <3>2. h = At(c, f[1])
      BY <1>3, <3>1
    <3> QED BY <1>1, <1>2, <3>1, <3>2 DEF At
  <2> QED BY <2>1, <2>2
<1>5. ASSUME NEW k \in 1..Len(r)
      PROVE  nx[r[k]] = IF k = Len(r) THEN NULL ELSE r[k + 1]
  <2>1. k \in 0..Len(r) /\ k # 0 /\ f[k] # 0 /\ r[k] = c[f[k]] /\ f[k] \in 1..Len(c)
    BY <1>1, <1>2
  <2>2. nx[r[k]] = At(c, IF k = Len(r) THEN Len(c) + 1 ELSE f[k + 1])
    BY <1>3, <2>1
  <2>3. k # Len(r) => k + 1 \in 1..Len(r)
    BY <1>1
  <2> QED BY <1>1, <1>2, <2>2, <2>3 DEF At
<1> QED BY <1>4, <1>5 DEF IsChain

\* What becomes of a list that loses nodes that are not performed.
IsRest(r, c, X, lock, inf) ==
  /\ Distinct(r) /\ Locks(r, lock)
  /\ \A i : i \in ToSet(r) <=> \E x \in 1..Len(c) : x \notin X /\ c[x] = i
  /\ \A s : Shape(inf, c, lock, s) => Shape(inf, r, lock, s)
  /\ \A s : X = Pending(inf, c, lock, s) => Pending(inf, r, lock, s) = {}

LEMMA RestHasShape ==
  ASSUME NEW c \in Seq(Slots), Distinct(c), NEW X, NEW f, NEW r, Keeps(f, r, c, X),
         NEW lock, Locks(c, lock), lock # NULL => Len(c) \notin X, NEW inf
  PROVE  IsRest(r, c, X, lock, inf)
<1>1. /\ Len(c) \in Nat /\ Len(r) \in Nat /\ r \in Seq(Slots) /\ (r = <<>> <=> Len(r) = 0)
      /\ (c = <<>> <=> Len(c) = 0) /\ f \in [1..Len(r) -> 1..Len(c)]
  BY DEF Keeps
<1>2. /\ \A k, j \in 1..Len(r) : k < j => f[k] < f[j]
      /\ \A k \in 1..Len(r) : r[k] = c[f[k]] /\ f[k] \notin X
      /\ \A x \in 1..Len(c) : x \notin X => \E k \in 1..Len(r) : f[k] = x
  BY DEF Keeps
<1>3. Distinct(r)
  <2> SUFFICES ASSUME NEW i \in 1..Len(r), NEW j \in 1..Len(r), r[i] = r[j] PROVE i = j
    BY DEF Distinct
  <2>1. f[i] = f[j] /\ f[i] \in 1..Len(c) /\ f[j] \in 1..Len(c)
    BY <1>1, <1>2 DEF Distinct
  <2> QED BY <1>1, <1>2, <2>1
<1>4. Locks(r, lock)
  <2> SUFFICES ASSUME lock # NULL PROVE r # <<>> /\ lock = r[Len(r)]
    BY DEF Locks
  <2>1. Len(c) \in 1..Len(c) /\ lock = c[Len(c)]
    BY <1>1 DEF Locks
  <2>2. PICK k \in 1..Len(r) : f[k] = Len(c)
    BY <1>2, <2>1
  <2>3. Len(r) \in 1..Len(r) /\ f[Len(r)] \in 1..Len(c)
    BY <1>1, <2>2
  <2>4. k = Len(r)
    BY <1>1, <1>2, <2>2, <2>3
  <2> QED BY <1>1, <1>2, <2>1, <2>2, <2>4
<1>5. \A i : i \in ToSet(r) <=> \E x \in 1..Len(c) : x \notin X /\ c[x] = i
  <2>1. \A i : i \in ToSet(r) <=> \E k \in 1..Len(r) : r[k] = i
    BY <1>1, ElementsOf
  <2>2. ASSUME NEW i, i \in ToSet(r) PROVE \E x \in 1..Len(c) : x \notin X /\ c[x] = i
    <3>1. PICK k \in 1..Len(r) : r[k] = i
      BY <2>1, <2>2
    <3>2. f[k] \in 1..Len(c) /\ f[k] \notin X /\ c[f[k]] = i
      BY <1>1, <1>2, <3>1
    <3> QED BY <3>2
  <2>3. ASSUME NEW x \in 1..Len(c), x \notin X PROVE c[x] \in ToSet(r)
    <3>1. PICK k \in 1..Len(r) : f[k] = x
      BY <1>2, <2>3
    <3> QED BY <1>2, <2>1, <3>1
  <2> QED BY <2>2, <2>3
<1>6. ASSUME NEW s, NEW k \in Pending(inf, r, lock, s)
      PROVE  k \in 1..Len(r) /\ f[k] \in Pending(inf, c, lock, s) /\ r[k] = c[f[k]] /\ f[k] \notin X
  BY <1>1, <1>2, <1>6 DEF Pending
<1>7. ASSUME NEW s, Shape(inf, c, lock, s) PROVE Shape(inf, r, lock, s)
  <2>1. ASSUME NEW i \in Pending(inf, r, lock, s), NEW j \in Pending(inf, r, lock, s), i < j
        PROVE  inf[r[i]].type = "WRITTING" /\ inf[r[j]].type = "ERASING"
    <3>1. f[i] < f[j]
      BY <1>2, <1>6, <2>1
    <3> QED BY <1>6, <1>7, <3>1 DEF Shape
  <2>2. ASSUME LockedErase(inf, lock, s), NEW i \in Pending(inf, r, lock, s)
        PROVE  inf[r[i]].type = "WRITTING"
    BY <1>6, <1>7, <2>2 DEF Shape
  <2> QED BY <2>1, <2>2 DEF Shape
<1>8. ASSUME NEW s, X = Pending(inf, c, lock, s) PROVE Pending(inf, r, lock, s) = {}
  BY <1>6, <1>8
<1> QED BY <1>3, <1>4, <1>5, <1>7, <1>8 DEF IsRest

\* p is q without its place i.
LacksPlace(p, q, i, S) ==
  /\ p \in Seq(S) /\ Len(p) = Len(q) - 1
  /\ \A k \in 1..i - 1 : p[k] = q[k]
  /\ \A k \in i..Len(q) - 1 : p[k] = q[k + 1]

LEMMA RemoveIndexIs ==
  ASSUME NEW S, NEW q \in Seq(S), NEW i \in 1..Len(q), NEW p, p = RemoveIndex(q, i)
  PROVE  LacksPlace(p, q, i, S)
<1>1. p = RemoveAt(q, i)
  BY DEF RemoveIndex, RemoveAt
<1>2. /\ p \in Seq(S) /\ Len(p) = Len(q) - 1
      /\ \A k \in 1..i - 1 : p[k] = q[k]
      /\ \A k \in i..Len(q) - 1 : p[k] = q[k + 1]
  BY ONLY <1>1, q \in Seq(S), i \in 1..Len(q), Removed
<1> QED BY <1>2 DEF LacksPlace

\* One place less.
LEMMA WithoutOne ==
  ASSUME NEW c \in Seq(Slots), info \in [Slots -> Infos], NEW i \in 1..Len(c)
  PROVE  \E r, f : /\ Keeps(f, r, c, {i})
                   /\ RemoveIndex(Reversed(c), Len(c) + 1 - i) = Reversed(r)
<1>1. PICK n \in Nat : n = Len(c)
  OBVIOUS
<1>2. PICK r : r = RemoveIndex(c, i)
  OBVIOUS
<1>3. /\ r \in Seq(Slots) /\ Len(r) = n - 1
      /\ \A k \in 1..i - 1 : r[k] = c[k]
      /\ \A k \in i..n - 1 : r[k] = c[k + 1]
  <2>1. LacksPlace(r, c, i, Slots)
    BY <1>2, RemoveIndexIs
  <2> QED BY <1>1, <2>1 DEF LacksPlace
<1>4. PICK f : f = [k \in 1..n - 1 |-> IF k < i THEN k ELSE k + 1]
  OBVIOUS
<1>5. /\ i \in 1..n /\ n - 1 \in Nat /\ f \in [1..n - 1 -> 1..n]
      /\ \A k \in 1..n - 1 : f[k] = IF k < i THEN k ELSE k + 1
  BY <1>1, <1>4
<1>6. Keeps(f, r, c, {i})
  <2>1. \A k, l \in 1..n - 1 : k < l => f[k] < f[l]
    BY <1>5
  <2>2. \A k \in 1..n - 1 : r[k] = c[f[k]] /\ f[k] \notin {i}
    BY <1>3, <1>5
  <2>3. \A x \in 1..n : x \notin {i} => \E k \in 1..n - 1 : f[k] = x
    <3> SUFFICES ASSUME NEW x \in 1..n, x # i PROVE \E k \in 1..n - 1 : f[k] = x
      OBVIOUS
    <3>1. CASE x < i
      BY <1>5, <3>1
    <3>2. CASE x > i
      <4>1. x - 1 \in 1..n - 1 /\ f[x - 1] = x
        BY <1>5, <3>2
      <4> QED BY <4>1
    <3> QED BY <1>5, <3>1, <3>2
  <2> QED BY <1>1, <1>3, <1>5, <2>1, <2>2, <2>3 DEF Keeps
<1>7. PICK q : q = Reversed(c)
  OBVIOUS
<1>8. /\ q \in Seq(Infos) /\ Len(q) = n /\ \A k \in 1..n : q[k] = info[c[n + 1 - k]]
  <2>1. q = [k \in 1..n |-> info[c[n + 1 - k]]]
    BY <1>1, <1>7 DEF Reversed
  <2>2. \A k \in 1..n : info[c[n + 1 - k]] \in Infos
    <3> SUFFICES ASSUME NEW k \in 1..n PROVE info[c[n + 1 - k]] \in Infos
      OBVIOUS
    <3>1. n + 1 - k \in 1..Len(c)
      BY <1>1
    <3> QED BY <3>1
  <2>3. q \in [1..n -> Infos]
    BY <2>1, <2>2
  <2> QED BY <1>1, <2>1, <2>3, SeqDef, LenProperties
<1>9. PICK j : j = n + 1 - i
  OBVIOUS
<1>10. PICK p : p = RemoveIndex(q, j)
  OBVIOUS
<1>11. j \in 1..Len(q)
  BY <1>5, <1>8, <1>9
<1>12. /\ p \in Seq(Infos) /\ Len(p) = n - 1
       /\ \A k \in 1..j - 1 : p[k] = q[k]
       /\ \A k \in j..n - 1 : p[k] = q[k + 1]
  <2>1. LacksPlace(p, q, j, Infos)
    BY <1>8, <1>10, <1>11, RemoveIndexIs
  <2> QED BY <1>8, <2>1 DEF LacksPlace
<1>13. ASSUME NEW k \in 1..n - 1 PROVE p[k] = info[r[n - k]]
  <2>1. CASE k < j
    <3>1. k \in 1..j - 1 /\ k \in 1..n /\ n - k \in i..n - 1 /\ (n - k) + 1 = n + 1 - k
      BY <1>5, <1>9, <2>1
    <3>2. p[k] = info[c[n + 1 - k]]
      BY <1>8, <1>12, <3>1
    <3>3. r[n - k] = c[(n - k) + 1]
      BY <1>3, <3>1
    <3> QED BY <3>1, <3>2, <3>3
  <2>2. CASE ~(k < j)
    <3>1. k \in j..n - 1 /\ k + 1 \in 1..n /\ n - k \in 1..i - 1 /\ n + 1 - (k + 1) = n - k
      BY <1>5, <1>9, <2>2
    <3>2. p[k] = info[c[n + 1 - (k + 1)]]
      BY <1>8, <1>12, <3>1
    <3>3. r[n - k] = c[n - k]
      BY <1>3, <3>1
    <3> QED BY <3>1, <3>2, <3>3
  <2> QED BY <2>1, <2>2
<1>14. p = Reversed(r)
  <2>1. Reversed(r) = [k \in 1..n - 1 |-> info[r[n - k]]]
    <3>1. Reversed(r) = [k \in 1..n - 1 |-> info[r[(n - 1) + 1 - k]]]
      BY <1>3, Zenon DEF Reversed
    <3>2. \A k \in 1..n - 1 : (n - 1) + 1 - k = n - k
      BY <1>5
    <3> QED BY <3>1, <3>2
  <2>2. p = [k \in 1..n - 1 |-> p[k]]
    BY <1>12
  <2> QED BY <1>13, <2>1, <2>2
<1> QED BY <1>1, <1>6, <1>7, <1>9, <1>10, <1>14

---------------------------------------------------------------------------
(* The pending nodes of a sector, as OperaQueue has them.                   *)

LEMMA UnlockedIs ==
  ASSUME NEW c \in Seq(Slots), Distinct(c), NEW lock, Locks(c, lock), NEW s,
         info \in [Slots -> Infos]
  PROVE  \A j : j \in Unlocked(Reversed(c), lock # NULL, s) <=>
                  j \in 1..Len(c) /\ Len(c) + 1 - j \in Pending(info, c, lock, s)
<1>1. PICK q : q = Reversed(c)
  OBVIOUS
<1>2. Len(c) \in Nat /\ Len(q) = Len(c) /\ \A j \in 1..Len(c) : q[j] = info[c[Len(c) + 1 - j]]
  BY <1>1 DEF Reversed
<1>3. ASSUME NEW j \in 1..Len(c)
      PROVE  (lock # NULL /\ j = 1) <=> c[Len(c) + 1 - j] = lock
  <2>1. Len(c) + 1 - j \in 1..Len(c) /\ Len(c) \in 1..Len(c)
    BY <1>2
  <2>2. c[Len(c) + 1 - j] \in Slots /\ NULL \notin Slots
    BY <2>1, ListAssumption
  <2>3. lock # NULL => lock = c[Len(c)]
    BY DEF Locks
  <2> QED BY SMTT(30), <1>2, <2>1, <2>2, <2>3 DEF Distinct
<1>4. \A j : j \in Unlocked(q, lock # NULL, s) <=>
               j \in 1..Len(c) /\ q[j].sec = s /\ ~(lock # NULL /\ j = 1)
  BY <1>2 DEF Unlocked, On
<1>5. \A j \in 1..Len(c) : Len(c) + 1 - j \in 1..Len(c)
  BY <1>2
<1>6. ASSUME NEW j \in 1..Len(c)
      PROVE  j \in Unlocked(q, lock # NULL, s) <=> Len(c) + 1 - j \in Pending(info, c, lock, s)
  <2>1. PICK k \in 1..Len(c) : k = Len(c) + 1 - j
    BY <1>5
  <2>2. j \in Unlocked(q, lock # NULL, s) <=> info[c[k]].sec = s /\ c[k] # lock
    BY <1>2, <1>3, <1>4, <2>1
  <2> QED BY <2>1, <2>2 DEF Pending
<1>7. \A j : j \in Unlocked(q, lock # NULL, s) => j \in 1..Len(c)
  BY <1>4
<1> QED BY <1>1, <1>6, <1>7

LEMMA NewestIs ==
  ASSUME NEW I \in SUBSET Nat, NEW i \in I, \A j \in I : j <= i
  PROVE  Newest(I) = i
<1>1. Newest(I) \in I /\ \A j \in I : j <= Newest(I)
  BY DEF Newest
<1>2. Newest(I) \in Nat /\ i \in Nat /\ i <= Newest(I) /\ Newest(I) <= i
  BY <1>1
<1> QED BY <1>2

\* Chain r is what one deletion leaves of chain c: f keeps the places not in X.
DeletesOne(r, f, X, c, lock, s) ==
  LET P == Pending(info, c, lock, s)
  IN  /\ Keeps(f, r, c, X)
      /\ DeleteNewest(Reversed(c), lock # NULL, s) = Reversed(r)
      /\ P = {} => X = {}
      /\ P # {} => \E i \in P : X = {i} /\ \A j \in P : i <= j

LEMMA OneIsDeleted ==
  ASSUME NEW c \in Seq(Slots), Distinct(c), NEW lock, Locks(c, lock), NEW s,
         info \in [Slots -> Infos]
  PROVE  \E r, f, X : DeletesOne(r, f, X, c, lock, s)
<1>1. PICK P : P = Pending(info, c, lock, s)
  OBVIOUS
<1>2. PICK U : U = Unlocked(Reversed(c), lock # NULL, s)
  OBVIOUS
<1>3. \A j : j \in U <=> j \in 1..Len(c) /\ Len(c) + 1 - j \in P
  BY <1>1, <1>2, UnlockedIs
<1>4. P \subseteq 1..Len(c) /\ Len(c) \in Nat
  BY <1>1 DEF Pending
<1>5. CASE P = {}
  <2>1. U = {}
    BY <1>3, <1>5
  <2>2. DeleteNewest(Reversed(c), lock # NULL, s) = Reversed(c)
    BY <1>2, <2>1, Zenon DEF DeleteNewest
  <2>3. Keeps([k \in 1..Len(c) |-> k], c, c, {})
    BY DEF Keeps
  <2> QED BY <1>1, <1>5, <2>2, <2>3 DEF DeletesOne
<1>6. CASE P # {}
  <2>1. PICK i \in P : \A j \in P : i <= j
    BY <1>4, <1>6, LeastOf
  <2>2. PICK r, f : /\ Keeps(f, r, c, {i})
                    /\ RemoveIndex(Reversed(c), Len(c) + 1 - i) = Reversed(r)
    BY <1>4, WithoutOne
  <2>3. Len(c) + 1 - i \in U
    <3>1. i \in 1..Len(c) /\ Len(c) + 1 - i \in 1..Len(c) /\ Len(c) + 1 - (Len(c) + 1 - i) = i
      BY <1>4
    <3> QED BY <1>3, <3>1
  <2>4. Newest(U) = Len(c) + 1 - i
    <3>1. U \in SUBSET Nat
      BY <1>3
    <3>2. \A j \in U : j <= Len(c) + 1 - i
      BY <1>3, <1>4, <2>1
    <3> QED BY <2>3, <3>1, <3>2, NewestIs
  <2>5. DeleteNewest(Reversed(c), lock # NULL, s) = Reversed(r)
    BY <1>2, <2>2, <2>3, <2>4 DEF DeleteNewest
  <2>6. DeletesOne(r, f, {i}, c, lock, s)
    BY <1>1, <1>6, <2>1, <2>2, <2>5 DEF DeletesOne
  <2> QED BY <2>6
<1> QED BY <1>5, <1>6

\* One after the other.
LEMMA KeepsBoth ==
  ASSUME NEW c \in Seq(Slots), NEW r, NEW f, NEW X, Keeps(f, r, c, X),
         NEW q, NEW g, NEW Y, Keeps(g, q, r, Y),
         NEW e, e = [k \in 1..Len(q) |-> f[g[k]]],
         NEW Z, Z = X \cup {f[k] : k \in Y \cap 1..Len(r)}
  PROVE  Keeps(e, q, c, Z)
<1>1. /\ r \in Seq(Slots) /\ f \in [1..Len(r) -> 1..Len(c)] /\ Len(r) \in Nat
      /\ \A k, j \in 1..Len(r) : k < j => f[k] < f[j]
      /\ \A k \in 1..Len(r) : r[k] = c[f[k]] /\ f[k] \notin X
      /\ \A x \in 1..Len(c) : x \notin X => \E k \in 1..Len(r) : f[k] = x
  BY DEF Keeps
<1>2. /\ q \in Seq(Slots) /\ g \in [1..Len(q) -> 1..Len(r)] /\ Len(q) \in Nat
      /\ \A k, j \in 1..Len(q) : k < j => g[k] < g[j]
      /\ \A k \in 1..Len(q) : q[k] = r[g[k]] /\ g[k] \notin Y
      /\ \A x \in 1..Len(r) : x \notin Y => \E k \in 1..Len(q) : g[k] = x
  BY DEF Keeps
<1>3. \A k \in 1..Len(q) : e[k] = f[g[k]] /\ g[k] \in 1..Len(r) /\ f[g[k]] \in 1..Len(c)
  BY <1>1, <1>2
<1>4. e \in [1..Len(q) -> 1..Len(c)]
  BY <1>3
<1>5. \A k, j \in 1..Len(r) : f[k] = f[j] => k = j
  <2>1. ASSUME NEW k \in 1..Len(r), NEW j \in 1..Len(r), k < j PROVE f[k] # f[j]
    <3>1. f[k] \in 1..Len(c) /\ f[j] \in 1..Len(c) /\ f[k] < f[j]
      BY <1>1, <2>1
    <3> QED BY <3>1
  <2> SUFFICES ASSUME NEW k \in 1..Len(r), NEW j \in 1..Len(r), f[k] = f[j], k # j PROVE FALSE
    OBVIOUS
  <2>2. k < j \/ j < k
    BY <1>1
  <2> QED BY <2>1, <2>2
<1>6. ASSUME NEW k \in 1..Len(q) PROVE q[k] = c[e[k]] /\ e[k] \notin Z
  <2>1. q[k] = c[e[k]] /\ f[g[k]] \notin X
    BY <1>1, <1>2, <1>3
  <2>2. \A y \in Y \cap 1..Len(r) : f[y] # f[g[k]]
    BY <1>2, <1>3, <1>5
  <2> QED BY <1>3, <2>1, <2>2
<1>7. ASSUME NEW x \in 1..Len(c), x \notin Z PROVE \E k \in 1..Len(q) : e[k] = x
  <2>1. PICK y \in 1..Len(r) : f[y] = x
    BY <1>1, <1>7
  <2>2. y \notin Y
    BY <1>7, <2>1
  <2>3. PICK k \in 1..Len(q) : g[k] = y
    BY <1>2, <2>2
  <2> QED BY <1>3, <2>1, <2>3
<1>8. \A k, j \in 1..Len(q) : k < j => e[k] < e[j]
  BY <1>1, <1>2, <1>3
<1> QED BY <1>2, <1>4, <1>6, <1>7, <1>8 DEF Keeps

\* Two deletions take out every pending node, as a list has at most two.
LEMMA AllAreDeleted ==
  ASSUME NEW c \in Seq(Slots), Distinct(c), NEW lock, Locks(c, lock), NEW s,
         info \in [Slots -> Infos], Shape(info, c, lock, s)
  PROVE  \E r, f : /\ Keeps(f, r, c, Pending(info, c, lock, s))
                   /\ DeletePending(Reversed(c), lock # NULL, s) = Reversed(r)
<1>1. PICK P : P = Pending(info, c, lock, s)
  OBVIOUS
<1>2. /\ P \subseteq 1..Len(c) /\ Len(c) \in Nat
      /\ \A i \in P : info[c[i]].sec = s /\ c[i] # lock
      /\ \A i \in 1..Len(c) : info[c[i]].sec = s /\ c[i] # lock => i \in P
  BY <1>1 DEF Pending
\* The first deletion,
<1>3. PICK r, f, X : DeletesOne(r, f, X, c, lock, s)
  BY OneIsDeleted
<1>4. /\ Keeps(f, r, c, X)
      /\ DeleteNewest(Reversed(c), lock # NULL, s) = Reversed(r)
      /\ P = {} => X = {}
      /\ P # {} => \E i \in P : X = {i} /\ \A j \in P : i <= j
  BY <1>1, <1>3 DEF DeletesOne
<1>5. X \subseteq P /\ (lock # NULL => Len(c) \notin X)
  BY <1>2, <1>4 DEF Locks
<1>6. r \in Seq(Slots) /\ Distinct(r) /\ Locks(r, lock)
  <2>1. IsRest(r, c, X, lock, info)
    BY <1>4, <1>5, RestHasShape
  <2> QED BY <1>4, <2>1 DEF IsRest, Keeps
<1>7. PICK Q : Q = Pending(info, r, lock, s)
  OBVIOUS
<1>8. /\ \A k \in 1..Len(r) : r[k] = c[f[k]] /\ f[k] \notin X /\ f[k] \in 1..Len(c)
      /\ \A x \in 1..Len(c) : x \notin X => \E k \in 1..Len(r) : f[k] = x
      /\ \A k, j \in 1..Len(r) : k < j => f[k] < f[j]
  BY <1>4 DEF Keeps
<1>9. /\ Q \subseteq 1..Len(r) /\ Len(r) \in Nat
      /\ \A k \in 1..Len(r) : k \in Q <=> f[k] \in P
  <2>1. Q \subseteq 1..Len(r) /\ Len(r) \in Nat
    BY <1>6, <1>7 DEF Pending
  <2>2. \A k \in 1..Len(r) : k \in Q <=> info[r[k]].sec = s /\ r[k] # lock
    BY <1>7 DEF Pending
  <2>3. \A k \in 1..Len(r) : k \in Q <=> f[k] \in P
    BY SMTT(30), <1>2, <1>8, <2>2
  <2> QED BY <2>1, <2>3
\* and the second.
<1>10. PICK q, g, Y : DeletesOne(q, g, Y, r, lock, s)
  BY <1>6, OneIsDeleted
<1>11. /\ Keeps(g, q, r, Y)
       /\ DeleteNewest(Reversed(r), lock # NULL, s) = Reversed(q)
       /\ Q = {} => Y = {}
       /\ Q # {} => \E i \in Q : Y = {i} /\ \A j \in Q : i <= j
  BY <1>7, <1>10 DEF DeletesOne
<1>12. X \cup {f[k] : k \in Y \cap 1..Len(r)} = P
  <2>1. ASSUME NEW x \in P, x \notin X PROVE \E k \in Y \cap 1..Len(r) : f[k] = x
    <3>1. PICK i \in P : X = {i} /\ \A j \in P : i <= j
      BY <1>4, <2>1
    <3>2. PICK k \in Q : f[k] = x
      BY <1>2, <1>8, <1>9, <2>1
    <3>3. PICK l \in Q : Y = {l} /\ \A j \in Q : l <= j
      BY <1>11, <3>2
    <3>4. f[l] \in P /\ f[l] \notin X /\ l \in 1..Len(r) /\ k \in 1..Len(r)
      BY <1>8, <1>9, <3>2, <3>3
    <3>5. ASSUME l # k PROVE FALSE
      <4>1. l < k
        BY <1>9, <3>2, <3>3, <3>5
      <4>2. f[l] < x
        BY <1>8, <3>2, <3>4, <4>1
      <4>3. i < f[l]
        <5>1. PICK z \in P : z = f[l]
          BY <3>4
        <5>2. z \in Nat /\ i \in Nat /\ i <= z /\ z # i
          BY <1>2, <3>1, <3>4, <5>1
        <5> QED BY <5>1, <5>2
      <4>4. info[c[f[l]]].type = "ERASING" /\ info[c[f[l]]].type = "WRITTING"
        BY <1>1, <3>4, <4>2, <4>3 DEF Shape
      <4> QED BY <4>4
    <3> QED BY <3>2, <3>3, <3>4, <3>5
  <2>2. ASSUME NEW k \in Y \cap 1..Len(r) PROVE f[k] \in P
    BY <1>9, <1>11
  <2> QED BY <1>5, <2>1, <2>2
<1>13. PICK e : e = [k \in 1..Len(q) |-> f[g[k]]]
  OBVIOUS
<1>14. Keeps(e, q, c, P)
  BY <1>4, <1>11, <1>12, <1>13, KeepsBoth
<1>15. DeletePending(Reversed(c), lock # NULL, s) = Reversed(q)
  BY <1>4, <1>11 DEF DeletePending
<1> QED BY <1>1, <1>14, <1>15

\* What EraseIsSafe says of the chain.
LEMMA SafeIs ==
  ASSUME NEW c \in Seq(Slots), Distinct(c), NEW lock, Locks(c, lock), NEW s,
         info \in [Slots -> Infos], EraseIsSafe(Reversed(c), lock # NULL, s)
  PROVE  SafeToWalk(Pending(info, c, lock, s))
<1>1. PICK P : P = Pending(info, c, lock, s)
  OBVIOUS
<1>2. P \subseteq 1..Len(c) /\ Len(c) \in Nat
  BY <1>1 DEF Pending
<1>3. \A j : j \in Unlocked(Reversed(c), lock # NULL, s) <=>
               j \in 1..Len(c) /\ Len(c) + 1 - j \in P
  BY <1>1, UnlockedIs
<1>4. Len(Reversed(c)) = Len(c)
  BY <1>2 DEF Reversed
<1>5. ASSUME NEW x \in P, x + 1 \in P, x # 1 PROVE FALSE
  <2>1. PICK j \in 1..Len(c) : j = Len(c) - x
    BY <1>2, <1>5
  <2>2. /\ j + 1 \in 1..Len(c) /\ j + 2 <= Len(c)
        /\ Len(c) + 1 - j = x + 1 /\ Len(c) + 1 - (j + 1) = x
    BY <1>2, <1>5, <2>1
  <2>3. {j, j + 1} \subseteq Unlocked(Reversed(c), lock # NULL, s)
    BY <1>3, <1>5, <2>1, <2>2
  <2> QED BY <1>4, <2>1, <2>2, <2>3 DEF EraseIsSafe
<1> QED BY <1>1, <1>5 DEF SafeToWalk

LEMMA MergedIs ==
  ASSUME NEW c \in Seq(Slots), NEW lock, Locks(c, lock), NEW s
  PROVE  EraseMerged(Reversed(c), lock # NULL, s) <=> LockedErase(info, lock, s)
<1>1. PICK q : q = Reversed(c)
  OBVIOUS
<1>2. Len(c) \in Nat /\ Len(q) = Len(c) /\ (Len(c) > 0 => q[1] = info[c[Len(c)]])
  BY <1>1 DEF Reversed
<1>3. lock # NULL => Len(c) > 0 /\ lock = c[Len(c)]
  BY DEF Locks
<1> QED BY <1>1, <1>2, <1>3 DEF EraseMerged, LockedErase

---------------------------------------------------------------------------
(* What the walk of _e_opera_add does to a module's list.                   *)

\* It leaves chain r.
Erased(w, r, c, m, s) ==
  /\ r \in Seq(Slots) /\ IsChain(w.next, w.head, r)
  /\ IsRest(r, c, Pending(info, c, cur[m], s), cur[m], info)
  /\ Walked(w, c, m, s)
  /\ QueueFrom(w.next, w.head) = DeletePending(Queue(m), cur[m] # NULL, s)
  /\ w.merged = TRUE <=> EraseMerged(Queue(m), cur[m] # NULL, s)

LEMMA EraseLeaves ==
  ASSUME NEW c, NEW m, NEW s, MayWalk(c, m, s), EraseIsSafe(Queue(m), cur[m] # NULL, s),
         NEW w, w = EraseWalk(m, s)
  PROVE  \E r : Erased(w, r, c, m, s)
<1>1. /\ c \in Seq(Slots) /\ Distinct(c) /\ Locks(c, cur[m]) /\ info \in [Slots -> Infos]
      /\ IsChain(next, opera_info[m], c) /\ Shape(info, c, cur[m], s)
  BY DEF MayWalk, IsList, TypeOK
<1>2. Queue(m) = Reversed(c)
  BY <1>1, QueueIs DEF Queue
<1>3. PICK D : D = Pending(info, c, cur[m], s)
  OBVIOUS
<1>4. SafeToWalk(D)
  BY <1>1, <1>2, <1>3, SafeIs
<1>5. Walked(w, c, m, s)
  BY <1>3, <1>4, WalkEnds
<1>6. PICK r, f : /\ Keeps(f, r, c, D)
                  /\ DeletePending(Reversed(c), cur[m] # NULL, s) = Reversed(r)
  BY <1>1, <1>3, AllAreDeleted
<1>7. D \subseteq 1..Len(c) /\ 0 \notin D /\ (cur[m] # NULL => Len(c) \notin D)
  BY <1>1, <1>3 DEF Pending, Locks
<1>8. IsRest(r, c, D, cur[m], info)
  BY <1>1, <1>6, <1>7, RestHasShape
<1>9. LeadsPast(w.next, w.head, c, D) /\ (w.merged = TRUE <=> LockedErase(info, cur[m], s))
  BY <1>3, <1>5 DEF Walked
<1>10. r \in Seq(Slots) /\ IsChain(w.next, w.head, r)
  <2>1. r \in Seq(Slots)
    BY <1>6 DEF Keeps
  <2> QED BY <1>1, <1>6, <1>7, <1>9, <2>1, RestIsChain
<1>11. QueueFrom(w.next, w.head) = Reversed(r)
  <2>1. Distinct(r)
    BY <1>8 DEF IsRest
  <2> QED BY <1>10, <2>1, QueueIs
<1>12. EraseMerged(Queue(m), cur[m] # NULL, s) <=> LockedErase(info, cur[m], s)
  BY <1>1, <1>2, MergedIs
<1> QED BY <1>2, <1>3, <1>5, <1>6, <1>8, <1>9, <1>10, <1>11, <1>12 DEF Erased

---------------------------------------------------------------------------
(* The lists after a step.                                                  *)

\* A list whose nodes do not change is the list it was.
LEMMA SameList ==
  ASSUME NEW inf, NEW nx, NEW h, NEW lock, NEW c, IsList(inf, nx, h, lock, c),
         NEW jnf, NEW ny, \A i \in ToSet(c) : jnf[i] = inf[i] /\ ny[i] = nx[i]
  PROVE  IsList(jnf, ny, h, lock, c)
<1>1. /\ c \in Seq(Slots) /\ Distinct(c) /\ IsChain(nx, h, c) /\ Locks(c, lock)
      /\ \A s \in Sectors : Shape(inf, c, lock, s)
  BY DEF IsList
<1>2. Len(c) \in Nat /\ \A k \in 1..Len(c) : jnf[c[k]] = inf[c[k]] /\ ny[c[k]] = nx[c[k]]
  BY <1>1, ElementsOf
<1>3. IsChain(ny, h, c)
  BY <1>1, <1>2 DEF IsChain
<1>4. lock # NULL => jnf[lock] = inf[lock]
  <2> SUFFICES ASSUME lock # NULL PROVE jnf[lock] = inf[lock]
    OBVIOUS
  <2>1. Len(c) \in 1..Len(c) /\ lock = c[Len(c)]
    BY <1>1 DEF Locks
  <2> QED BY <1>2, <2>1
<1>5. ASSUME NEW s \in Sectors PROVE Shape(jnf, c, lock, s)
  <2>1. Pending(jnf, c, lock, s) = Pending(inf, c, lock, s)
    BY <1>2 DEF Pending
  <2>2. Pending(inf, c, lock, s) \subseteq 1..Len(c)
    BY DEF Pending
  <2>3. LockedErase(jnf, lock, s) <=> LockedErase(inf, lock, s)
    BY <1>4 DEF LockedErase
  <2> QED BY <1>1, <1>2, <2>1, <2>2, <2>3 DEF Shape
<1> QED BY <1>1, <1>3, <1>5 DEF IsList

\* One list changes and takes only nodes that were free.
LEMMA StillShared ==
  ASSUME NEW used, NEW ch \in [Mods -> Seq(Slots)], Shared(used, ch),
         NEW m \in Mods, NEW d \in Seq(Slots), NEW us,
         \A i \in Slots :
           us[i] = TRUE <=> (used[i] = TRUE /\ i \notin ToSet(ch[m])) \/ i \in ToSet(d),
         \A i \in ToSet(d) : i \in ToSet(ch[m]) \/ used[i] # TRUE,
         NEW dh, dh = [ch EXCEPT ![m] = d]
  PROVE  Shared(us, dh)
<1>1. dh[m] = d /\ \A o \in Mods \ {m} : dh[o] = ch[o]
  OBVIOUS
<1>2. /\ \A i \in Slots : used[i] = TRUE <=> \E o \in Mods : i \in ToSet(ch[o])
      /\ \A o, p \in Mods : o # p => ToSet(ch[o]) \cap ToSet(ch[p]) = {}
  BY DEF Shared
<1>3. \A o \in Mods : ToSet(ch[o]) \subseteq Slots
  <2> SUFFICES ASSUME NEW o \in Mods PROVE ToSet(ch[o]) \subseteq Slots
    OBVIOUS
  <2>1. ch[o] \in Seq(Slots)
    OBVIOUS
  <2> QED BY <2>1, ElementsOf
<1>4. ToSet(d) \subseteq Slots
  BY ElementsOf
<1>5. ASSUME NEW i \in Slots
      PROVE  us[i] = TRUE <=> \E o \in Mods : i \in ToSet(dh[o])
  <2>1. us[i] = TRUE <=> (used[i] = TRUE /\ i \notin ToSet(ch[m])) \/ i \in ToSet(d)
    OBVIOUS
  <2>2. used[i] = TRUE /\ i \notin ToSet(ch[m]) => \E o \in Mods \ {m} : i \in ToSet(dh[o])
    BY <1>1, <1>2
  <2>3. ASSUME NEW o \in Mods \ {m}, i \in ToSet(dh[o])
        PROVE  used[i] = TRUE /\ i \notin ToSet(ch[m])
    BY <1>1, <1>2, <2>3
  <2> QED BY <1>1, <2>1, <2>2, <2>3
<1>6. ASSUME NEW o \in Mods \ {m} PROVE ToSet(d) \cap ToSet(dh[o]) = {}
  <2> SUFFICES ASSUME NEW i \in ToSet(d), i \in ToSet(ch[o]) PROVE FALSE
    BY <1>1
  <2>1. i \notin ToSet(ch[m]) /\ used[i] = TRUE
    BY <1>2, <1>3
  <2> QED BY <2>1
<1>7. ASSUME NEW o \in Mods, NEW p \in Mods, o # p PROVE ToSet(dh[o]) \cap ToSet(dh[p]) = {}
  BY <1>1, <1>2, <1>6, <1>7
<1> QED BY <1>5, <1>7 DEF Shared

\* _norflash_api_malloc finds a free node.
LEMMA FirstFreeIs ==
  ASSUME NEW used \in [Slots -> BOOLEAN], Free(used) # {}
  PROVE  FirstFree(used) \in Slots /\ used[FirstFree(used)] = FALSE
<1>1. PICK F : F = Free(used)
  OBVIOUS
<1>2. F \in SUBSET Nat
  BY <1>1 DEF Free, Slots
<1>3. PICK i \in F : \A j \in F : i <= j
  BY <1>1, <1>2, LeastOf
<1>4. FirstFree(used) \in F
  BY <1>1, <1>3 DEF FirstFree
<1> QED BY <1>1, <1>4, Zenon DEF Free

\* q is r with i in front.
Pushes(q, r, i) ==
  /\ q \in Seq(Slots) /\ Len(q) = Len(r) + 1 /\ q # <<>>
  /\ q[1] = i /\ \A k \in 2..Len(r) + 1 : q[k] = r[k - 1]
  /\ Distinct(q) /\ \A x : x \in ToSet(q) <=> x \in ToSet(r) \/ x = i

LEMMA PushIs ==
  ASSUME NEW r \in Seq(Slots), Distinct(r), NEW i \in Slots, i \notin ToSet(r),
         NEW q, q = <<i>> \o r
  PROVE  Pushes(q, r, i)
<1>1. /\ q \in Seq(Slots) /\ Len(q) = Len(r) + 1 /\ q # <<>>
      /\ q[1] = i /\ \A k \in 2..Len(r) + 1 : q[k] = r[k - 1]
  OBVIOUS
<1>2. Len(r) \in Nat /\ \A x : x \in ToSet(r) <=> \E k \in 1..Len(r) : r[k] = x
  BY ElementsOf
<1>3. Distinct(q)
  <2>1. ASSUME NEW j \in 1..Len(q), NEW k \in 1..Len(q), j < k PROVE q[j] # q[k]
    <3>1. k - 1 \in 1..Len(r) /\ q[k] = r[k - 1]
      BY <1>1, <1>2, <2>1
    <3>2. CASE j = 1
      BY <1>1, <1>2, <3>1, <3>2
    <3>3. CASE j # 1
      <4>1. j - 1 \in 1..Len(r) /\ q[j] = r[j - 1] /\ j - 1 # k - 1
        BY <1>1, <1>2, <2>1, <3>3
      <4> QED BY <3>1, <4>1 DEF Distinct
    <3> QED BY <3>2, <3>3
  <2> QED BY <1>1, <1>2, <2>1 DEF Distinct
<1>4. \A x : x \in ToSet(q) <=> x \in ToSet(r) \/ x = i
  <2>1. \A x : x \in ToSet(q) <=> \E k \in 1..Len(q) : q[k] = x
    <3>1. q \in Seq(Slots)
      BY <1>1
    <3> QED BY ONLY <3>1, ElementsOf
  <2>2. ASSUME NEW k \in 1..Len(q) PROVE q[k] \in ToSet(r) \/ q[k] = i
    <3>1. k # 1 => k - 1 \in 1..Len(r) /\ q[k] = r[k - 1]
      BY <1>1, <1>2
    <3> QED BY <1>1, <1>2, <3>1
  <2>3. ASSUME NEW k \in 1..Len(r) PROVE r[k] \in ToSet(q)
    <3>1. k + 1 \in 1..Len(q) /\ k + 1 \in 2..Len(r) + 1 /\ (k + 1) - 1 = k
      BY <1>1, <1>2
    <3> QED BY <1>1, <2>1, <3>1
  <2>4. i \in ToSet(q)
    <3>1. 1 \in 1..Len(q)
      BY <1>1, <1>2
    <3> QED BY <1>1, <2>1, <3>1
  <2> QED BY <1>2, <2>1, <2>2, <2>3, <2>4
<1> QED BY <1>1, <1>3, <1>4 DEF Pushes

\* Node f can be put in front of list r.
MayPush(inf, f, r, lock) ==
  /\ f.type = "WRITTING" =>
       \A k \in Pending(inf, r, lock, f.sec) : inf[r[k]].type = "ERASING"
  /\ f.type = "ERASING" =>
       Pending(inf, r, lock, f.sec) = {} /\ ~LockedErase(inf, lock, f.sec)

\* A new node is the newest one.
LEMMA PushedList ==
  ASSUME NEW inf \in [Slots -> Infos], NEW nx \in [Slots -> Links], NEW h, NEW lock, NEW r,
         IsList(inf, nx, h, lock, r), NEW i \in Slots, i \notin ToSet(r), NEW f \in Infos,
         MayPush(inf, f, r, lock),
         NEW jnf, jnf = [inf EXCEPT ![i] = f], NEW ny, ny = [nx EXCEPT ![i] = h],
         NEW q, q = <<i>> \o r
  PROVE  IsList(jnf, ny, i, lock, q)
<1>1. /\ r \in Seq(Slots) /\ Distinct(r) /\ IsChain(nx, h, r) /\ Locks(r, lock)
      /\ \A t \in Sectors : Shape(inf, r, lock, t)
  BY DEF IsList
<1>2. /\ q \in Seq(Slots) /\ Len(q) = Len(r) + 1 /\ q # <<>>
      /\ q[1] = i /\ \A k \in 2..Len(r) + 1 : q[k] = r[k - 1]
      /\ Distinct(q)
  <2>1. Pushes(q, r, i)
    BY <1>1, PushIs
  <2> QED BY <2>1 DEF Pushes
<1>3. /\ Len(r) \in Nat /\ \A k \in 1..Len(r) : r[k] \in Slots /\ r[k] # i
  BY <1>1, ElementsOf
<1>4. /\ jnf[i] = f /\ ny[i] = h
      /\ \A k \in 1..Len(r) : jnf[r[k]] = inf[r[k]] /\ ny[r[k]] = nx[r[k]]
  BY <1>3
<1>5. Locks(q, lock)
  BY <1>1, <1>2, <1>3 DEF Locks
<1>6. IsChain(ny, i, q)
  <2> SUFFICES ASSUME NEW k \in 1..Len(q)
               PROVE  ny[q[k]] = IF k = Len(q) THEN NULL ELSE q[k + 1]
    BY <1>2 DEF IsChain
  <2>1. CASE k = 1
    <3>1. r = <<>> <=> Len(r) = 0
      BY <1>1
    <3> QED BY <1>1, <1>2, <1>3, <1>4, <2>1, <3>1 DEF IsChain
  <2>2. CASE k # 1
    <3>1. k - 1 \in 1..Len(r) /\ q[k] = r[k - 1]
      BY <1>2, <1>3, <2>2
    <3>2. ny[q[k]] = IF k - 1 = Len(r) THEN NULL ELSE r[(k - 1) + 1]
      BY <1>1, <1>4, <3>1 DEF IsChain
    <3>3. k # Len(q) => q[k + 1] = r[(k - 1) + 1]
      BY <1>2, <1>3, <2>2
    <3> QED BY <1>2, <1>3, <3>1, <3>2, <3>3
  <2> QED BY <2>1, <2>2
<1>7. lock # NULL => lock # i /\ jnf[lock] = inf[lock]
  <2> SUFFICES ASSUME lock # NULL PROVE lock # i /\ jnf[lock] = inf[lock]
    OBVIOUS
  <2>1. Len(r) \in 1..Len(r) /\ lock = r[Len(r)]
    BY <1>1, <1>3 DEF Locks
  <2> QED BY <1>3, <1>4, <2>1
<1>8. ASSUME NEW t \in Sectors PROVE Shape(jnf, q, lock, t)
  <2>1. ASSUME NEW k \in Pending(jnf, q, lock, t), k # 1
        PROVE  /\ k - 1 \in Pending(inf, r, lock, t) /\ k - 1 \in 1..Len(r)
               /\ jnf[q[k]].type = inf[r[k - 1]].type
    <3>1. k \in 1..Len(q) /\ jnf[q[k]].sec = t /\ q[k] # lock
      BY DEF Pending
    <3>2. k - 1 \in 1..Len(r) /\ q[k] = r[k - 1]
      BY <1>2, <1>3, <2>1, <3>1
    <3> QED BY <1>4, <3>1, <3>2 DEF Pending
  <2>2. 1 \in Pending(jnf, q, lock, t) => f.sec = t /\ jnf[q[1]] = f
    BY <1>2, <1>4 DEF Pending
  <2>3. Pending(jnf, q, lock, t) \subseteq 1..Len(q) /\ Len(q) \in Nat
    BY <1>2, <1>3 DEF Pending
  <2>4. f.type = "WRITTING" \/ f.type = "ERASING"
    BY DEF Infos
  <2>5. LockedErase(jnf, lock, t) <=> LockedErase(inf, lock, t)
    BY <1>7 DEF LockedErase
  <2>6. Shape(inf, r, lock, t)
    BY <1>1
  <2>7. ASSUME NEW a \in Pending(jnf, q, lock, t), NEW b \in Pending(jnf, q, lock, t), a < b
        PROVE  jnf[q[a]].type = "WRITTING" /\ jnf[q[b]].type = "ERASING"
    <3>1. b # 1
      <4>1. a \in 1..Len(q) /\ b \in 1..Len(q)
        BY <2>3
      <4> QED BY <2>3, <2>7, <4>1
    <3>2. CASE a = 1
      <4>1. f.sec = t /\ jnf[q[a]] = f /\ b - 1 \in Pending(inf, r, lock, t)
        BY <2>1, <2>2, <3>1, <3>2
      <4>2. f.type = "WRITTING"
        BY <2>4, <4>1 DEF MayPush
      <4> QED BY <2>1, <3>1, <4>1, <4>2 DEF MayPush
    <3>3. CASE a # 1
      <4>1. a - 1 < b - 1
        <5>1. a \in 1..Len(q) /\ b \in 1..Len(q)
          BY <2>3
        <5> QED BY <2>3, <2>7, <5>1
      <4> QED BY <2>1, <2>6, <3>1, <3>3, <4>1 DEF Shape
    <3> QED BY <3>2, <3>3
  <2>8. ASSUME LockedErase(jnf, lock, t), NEW a \in Pending(jnf, q, lock, t)
        PROVE  jnf[q[a]].type = "WRITTING"
    <3>1. CASE a = 1
      BY <2>2, <2>4, <2>5, <2>8, <3>1 DEF MayPush
    <3>2. CASE a # 1
      BY ZenonT(30), <2>1, <2>5, <2>6, <2>8, <3>2 DEF Shape
    <3> QED BY <3>1, <3>2
  <2> QED BY <2>7, <2>8 DEF Shape
<1> QED BY <1>2, <1>5, <1>6, <1>8 DEF IsList

\* When a list c becomes d, the nodes of the others do not change,
Untouched(inf, nx, c) ==
  \A i \in Slots : i \notin ToSet(c) /\ is_used[i] = TRUE => inf[i] = info[i] /\ nx[i] = next[i]

\* and d takes only nodes of c and free ones.
Takes(us, d, c) ==
  /\ \A i \in Slots :
       us[i] = TRUE <=> (is_used[i] = TRUE /\ i \notin ToSet(c)) \/ i \in ToSet(d)
  /\ \A i \in ToSet(d) : i \in ToSet(c) \/ is_used[i] # TRUE

\* The lists when that of module m becomes d.
LEMMA ListsAfter ==
  ASSUME NEW ch \in [Mods -> Seq(Slots)], Lists(ch), NEW m \in Mods,
         NEW d, NEW inf, NEW nx, NEW hs, NEW ls, NEW us,
         IsList(inf, nx, hs[m], ls[m], d),
         \A o \in Mods \ {m} : hs[o] = opera_info[o] /\ ls[o] = cur[o],
         Untouched(inf, nx, ch[m]), Takes(us, d, ch[m])
  PROVE  \E dh \in [Mods -> Seq(Slots)] : ListsIn(inf, nx, hs, ls, us, dh)
<1>1. PICK dh : dh = [ch EXCEPT ![m] = d]
  OBVIOUS
<1>2. d \in Seq(Slots) /\ dh \in [Mods -> Seq(Slots)]
  BY <1>1 DEF IsList
<1>3. Shared(is_used, ch) /\ \A o \in Mods : IsList(info, next, opera_info[o], cur[o], ch[o])
  BY DEF Lists, ListsIn
<1>4. Shared(us, dh)
  BY <1>1, <1>2, <1>3, StillShared DEF Takes
<1>5. ASSUME NEW o \in Mods PROVE IsList(inf, nx, hs[o], ls[o], dh[o])
  <2>1. CASE o = m
    BY <1>1, <2>1
  <2>2. CASE o # m
    <3>1. ch[o] \in Seq(Slots) /\ dh[o] = ch[o]
      BY <1>1, <2>2
    <3>2. \A i \in ToSet(ch[o]) : i \in Slots /\ is_used[i] = TRUE /\ i \notin ToSet(ch[m])
      <4>1. ToSet(ch[o]) \subseteq Slots
        BY <3>1, ElementsOf
      <4> QED BY <1>3, <2>2, <4>1 DEF Shared
    <3>3. \A i \in ToSet(ch[o]) : inf[i] = info[i] /\ nx[i] = next[i]
      BY <3>2 DEF Untouched
    <3>4. IsList(info, next, opera_info[o], cur[o], ch[o])
      BY <1>3
    <3>5. IsList(inf, nx, opera_info[o], cur[o], ch[o])
      BY <3>3, <3>4, SameList
    <3> QED BY <2>2, <3>1, <3>5
  <2> QED BY <2>1, <2>2
<1> QED BY <1>2, <1>4, <1>5 DEF ListsIn

\* The nodes in use when module m's list has lost some and is r.
Uses(used, r, c) ==
  /\ \A j \in Slots :
       used[j] = TRUE <=> (is_used[j] = TRUE /\ j \notin ToSet(c)) \/ j \in ToSet(r)
  /\ ToSet(r) \subseteq ToSet(c)

SameOutside(nx, c) == \A j \in Slots : j \notin ToSet(c) => nx[j] = next[j]

\* The lists when a node is put in front of it then.
LEMMA PushedLists ==
  ASSUME TypeOK, NEW ch \in [Mods -> Seq(Slots)], Lists(ch), NEW m \in Mods,
         NEW used \in [Slots -> BOOLEAN], NEW nx \in [Slots -> Links], NEW h, NEW r,
         IsList(info, nx, h, cur[m], r), Uses(used, r, ch[m]),
         SameOutside(nx, ch[m]),
         NEW i \in Slots, used[i] = FALSE, NEW f \in Infos,
         MayPush(info, f, r, cur[m]),
         NEW inf, inf = [info EXCEPT ![i] = f], NEW ny, ny = [nx EXCEPT ![i] = h],
         NEW hs, hs = [opera_info EXCEPT ![m] = i], NEW us, us = [used EXCEPT ![i] = TRUE]
  PROVE  \E dh \in [Mods -> Seq(Slots)] : ListsIn(inf, ny, hs, cur, us, dh)
<1>1. info \in [Slots -> Infos] /\ opera_info \in [Mods -> Links]
  BY DEF TypeOK, Links
<1>2. r \in Seq(Slots) /\ Distinct(r) /\ i \notin ToSet(r)
  BY DEF IsList, Uses
<1>3. PICK d : d = <<i>> \o r
  OBVIOUS
<1>4. IsList(inf, ny, i, cur[m], d)
  BY <1>1, <1>2, <1>3, PushedList
<1>5. \A x : x \in ToSet(d) <=> x \in ToSet(r) \/ x = i
  <2>1. Pushes(d, r, i)
    BY <1>2, <1>3, PushIs
  <2> QED BY <2>1 DEF Pushes
<1>6. hs[m] = i /\ \A o \in Mods \ {m} : hs[o] = opera_info[o]
  BY <1>1
<1>7. ASSUME NEW j \in Slots, j \notin ToSet(ch[m]), is_used[j] = TRUE
      PROVE  inf[j] = info[j] /\ ny[j] = next[j]
  <2>1. j # i
    BY <1>7 DEF Uses
  <2> QED BY <1>1, <1>7, <2>1 DEF SameOutside
<1>8. ASSUME NEW j \in Slots
      PROVE  us[j] = TRUE <=> (is_used[j] = TRUE /\ j \notin ToSet(ch[m])) \/ j \in ToSet(d)
  <2>1. CASE j = i
    BY <1>5, <2>1
  <2>2. CASE j # i
    <3>1. us[j] = used[j]
      BY <2>2
    <3> QED BY <1>5, <2>2, <3>1 DEF Uses
  <2> QED BY <2>1, <2>2
<1>9. ASSUME NEW j \in ToSet(d) PROVE j \in ToSet(ch[m]) \/ is_used[j] # TRUE
  BY <1>5 DEF Uses
<1>10. IsList(inf, ny, hs[m], cur[m], d)
  BY <1>4, <1>6
<1>11. \A o \in Mods \ {m} : hs[o] = opera_info[o] /\ cur[o] = cur[o]
  BY <1>6
<1>12. Untouched(inf, ny, ch[m])
  BY <1>7 DEF Untouched
<1>13. Takes(us, d, ch[m])
  BY <1>8, <1>9 DEF Takes
<1> QED BY <1>10, <1>11, <1>12, <1>13, ListsAfter

\* The nodes of a chain, when those of the pending ones are freed.
LEMMA ErasedUses ==
  ASSUME NEW c, NEW m, NEW s, MayWalk(c, m, s), NEW w, NEW r, Erased(w, r, c, m, s)
  PROVE  Uses(w.is_used, r, c)
<1>1. PICK D : D = Pending(info, c, cur[m], s)
  OBVIOUS
<1>2. c \in Seq(Slots) /\ Distinct(c) /\ D \subseteq 1..Len(c)
  BY <1>1 DEF MayWalk, IsList, Pending
<1>3. \A i : i \in ToSet(r) <=> \E x \in 1..Len(c) : x \notin D /\ c[x] = i
  BY <1>1 DEF Erased, IsRest
<1>4. \A i \in Slots : w.is_used[i] = TRUE <=> is_used[i] = TRUE /\ \A x \in D : c[x] # i
  BY <1>1 DEF Erased, Walked
<1>5. \A i : i \in ToSet(c) <=> \E x \in 1..Len(c) : c[x] = i
  BY <1>2, ElementsOf
<1>6. ASSUME NEW j \in Slots
      PROVE  w.is_used[j] = TRUE <=> (is_used[j] = TRUE /\ j \notin ToSet(c)) \/ j \in ToSet(r)
  <2>1. CASE j \in ToSet(c)
    <3>1. PICK x \in 1..Len(c) : c[x] = j
      BY <1>5, <2>1
    <3>2. is_used[j] = TRUE
      BY <2>1 DEF MayWalk
    <3>3. \A y \in 1..Len(c) : c[y] = j => y = x
      BY <1>2, <3>1 DEF Distinct
    <3>4. j \in ToSet(r) <=> x \notin D
      BY <1>3, <3>1, <3>3
    <3>5. w.is_used[j] = TRUE <=> x \notin D
      BY <1>2, <1>4, <3>1, <3>2, <3>3
    <3> QED BY <2>1, <3>4, <3>5
  <2>2. CASE j \notin ToSet(c)
    BY <1>2, <1>3, <1>4, <1>5, <2>2
  <2> QED BY <2>1, <2>2
<1>7. ToSet(r) \subseteq ToSet(c)
  BY <1>3, <1>5
<1> QED BY <1>6, <1>7 DEF Uses

---------------------------------------------------------------------------
(* The steps.                                                               *)

LEMMA ChainOf ==
  ASSUME TypeOK, NEW ch \in [Mods -> Seq(Slots)], Lists(ch), NEW m \in Mods, NEW c, c = ch[m]
  PROVE  /\ c \in Seq(Slots) /\ Distinct(c)
         /\ IsList(info, next, opera_info[m], cur[m], c)
         /\ IsChain(next, opera_info[m], c)
         /\ \A x \in ToSet(c) : x \in Slots /\ is_used[x] = TRUE
         /\ \A s \in Sectors : MayWalk(c, m, s)
<1>1. IsList(info, next, opera_info[m], cur[m], c) /\ Shared(is_used, ch)
  BY DEF Lists, ListsIn
<1>2. c \in Seq(Slots) /\ Distinct(c) /\ IsChain(next, opera_info[m], c)
  BY <1>1 DEF IsList
<1>3. \A x \in ToSet(c) : x \in Slots /\ is_used[x] = TRUE
  BY <1>1, <1>2, ElementsOf DEF Shared
<1> QED BY <1>1, <1>2, <1>3 DEF MayWalk

LEMMA InitLists == Init => ListInv
<1> SUFFICES ASSUME Init PROVE ListInv
  OBVIOUS
<1>1. \E f \in Infos : TRUE
  <2>1. PICK s \in Sectors : TRUE
    BY ListAssumption
  <2>2. [type |-> "WRITTING", sec |-> s] \in Infos
    BY DEF Infos
  <2> QED BY <2>2
<1>2. (CHOOSE f \in Infos : TRUE) \in Infos
  BY <1>1
<1>3. TypeOK
  BY <1>2, ListAssumption DEF Init, TypeOK
<1>4. UsedWrites(info, is_used) = {}
  BY DEF Init, UsedWrites
<1>5. data_used = Cardinality(UsedWrites(info, is_used))
  BY <1>4, FS_EmptySet DEF Init
<1>6. PICK ch : ch = [m \in Mods |-> <<>>]
  OBVIOUS
<1>7. ch \in [Mods -> Seq(Slots)] /\ \A m \in Mods : ch[m] = <<>>
  BY <1>6
<1>8. ASSUME NEW m \in Mods PROVE IsList(info, next, opera_info[m], cur[m], ch[m])
  <2>1. Len(ch[m]) = 0 /\ ch[m] \in Seq(Slots) /\ opera_info[m] = NULL /\ cur[m] = NULL
    BY <1>7 DEF Init
  <2>2. Distinct(ch[m]) /\ IsChain(next, opera_info[m], ch[m]) /\ Locks(ch[m], cur[m])
    BY <1>7, <2>1 DEF Distinct, IsChain, Locks
  <2>3. \A s \in Sectors : Shape(info, ch[m], cur[m], s)
    BY <2>1 DEF Shape, Pending
  <2> QED BY <2>1, <2>2, <2>3 DEF IsList
<1>9. Shared(is_used, ch)
  <2>1. \A m \in Mods : ToSet(ch[m]) = {}
    <3> SUFFICES ASSUME NEW m \in Mods PROVE ToSet(ch[m]) = {}
      OBVIOUS
    <3>1. Len(ch[m]) = 0 /\ ch[m] \in Seq(Slots)
      BY <1>7
    <3> QED BY <3>1, ElementsOf
  <2>2. \A i \in Slots : is_used[i] # TRUE
    BY DEF Init
  <2> QED BY <2>1, <2>2 DEF Shared
<1>10. Lists(ch)
  BY <1>8, <1>9 DEF Lists, ListsIn
<1> QED BY <1>3, <1>5, <1>7, <1>10 DEF ListInv

\* _w_opera_add: nothing is written to a sector with a pending write.
LEMMA WriteLeavesShape ==
  ASSUME NEW c \in Seq(Slots), Distinct(c), NEW lock, Locks(c, lock), NEW s,
         info \in [Slots -> Infos], Shape(info, c, lock, s),
         ~WriteMerged(Reversed(c), lock # NULL, s),
         NEW f, f.type = "WRITTING", f.sec = s
  PROVE  MayPush(info, f, c, lock)
<1>1. PICK q : q = Reversed(c)
  OBVIOUS
<1>2. PICK P : P = Pending(info, c, lock, s)
  OBVIOUS
<1>3. PICK S : S = Stops(q, lock # NULL, s)
  OBVIOUS
<1>4. Len(c) \in Nat /\ Len(q) = Len(c) /\ \A j \in 1..Len(c) : q[j] = info[c[Len(c) + 1 - j]]
  BY <1>1 DEF Reversed
<1>5. \A k \in P : k \in 1..Len(c) /\ c[k] \in Slots /\ info[c[k]] \in Infos /\ info[c[k]].sec = s
  BY <1>2 DEF Pending
<1> SUFFICES ASSUME NEW k \in P, info[c[k]].type # "ERASING" PROVE FALSE
  BY <1>2 DEF MayPush
<1>6. info[c[k]].type = "WRITTING"
  BY <1>5 DEF Infos
<1>7. \A j : j \in Unlocked(q, lock # NULL, s) <=> j \in 1..Len(c) /\ Len(c) + 1 - j \in P
  BY <1>1, <1>2, UnlockedIs
<1>8. PICK i \in 1..Len(c) : i = Len(c) + 1 - k /\ Len(c) + 1 - i = k
  BY <1>4, <1>5
<1>9. i \in S /\ q[i].type = "WRITTING"
  <2>1. i \in Unlocked(q, lock # NULL, s) /\ q[i] = info[c[k]]
    BY <1>4, <1>7, <1>8
  <2> QED BY <1>3, <1>6, <2>1 DEF Stops, Unlocked
<1>10. \A j \in S : j <= i
  <2> SUFFICES ASSUME NEW j \in S, j > i PROVE FALSE
    BY <1>3, <1>4, <1>8 DEF Stops, On
  <2>1. PICK l \in 1..Len(c) : l = Len(c) + 1 - j /\ Len(c) + 1 - l = j /\ j \in 1..Len(c)
    BY <1>3, <1>4 DEF Stops, On
  <2>2. l < k
    BY <1>4, <1>8, <2>1
  <2>3. q[j] = info[c[l]] /\ info[c[l]].sec = s
    BY <1>3, <1>4, <2>1 DEF Stops, On
  <2>4. CASE l \in P
    BY <1>2, <1>6, <2>2, <2>4 DEF Shape
  <2>5. CASE l \notin P
    <3>1. c[l] = lock
      BY <1>2, <2>1, <2>3, <2>5 DEF Pending
    <3>2. lock \in Slots /\ lock # NULL /\ lock = c[Len(c)] /\ Len(c) \in 1..Len(c)
      BY <1>4, <2>1, <3>1, ListAssumption DEF Locks
    <3>3. l = Len(c)
      BY <2>1, <3>1, <3>2 DEF Distinct
    <3> QED BY <1>5, <2>2, <3>3
  <2> QED BY <2>4, <2>5
<1>11. Newest(S) = i
  <2>1. S \in SUBSET Nat
    BY <1>3, <1>4 DEF Stops, On
  <2> QED BY <1>9, <1>10, <2>1, NewestIs
<1>12. S # {}
  BY <1>9
<1>13. WriteMerged(q, lock # NULL, s)
  BY <1>3, <1>9, <1>11, <1>12 DEF WriteMerged
<1> QED BY <1>1, <1>13

LEMMA WriteStep ==
  ASSUME ListInv, NEW s \in Sectors, W_opera_add(s)
  PROVE  ListInv'
<1>1. PICK m : m = Owner[s]
  OBVIOUS
<1>2. PICK i : i = FirstFree(is_used)
  OBVIOUS
<1>3. PICK f : f = [type |-> "WRITTING", sec |-> s]
  OBVIOUS
<1>4. /\ m \in Mods /\ f \in Infos /\ f.type = "WRITTING" /\ f.sec = s
  BY <1>1, <1>3, ListAssumption DEF Infos
<1>5. /\ ~WriteMerged(Queue(m), cur[m] # NULL, s)
      /\ Free(is_used) # {} /\ data_used < BuffLen
      /\ is_used' = [is_used EXCEPT ![i] = TRUE]
      /\ info' = [info EXCEPT ![i] = f]
      /\ next' = [next EXCEPT ![i] = opera_info[m]]
      /\ opera_info' = [opera_info EXCEPT ![m] = i]
      /\ data_used' = data_used + 1
      /\ cur' = cur
  BY <1>1, <1>2, <1>3 DEF W_opera_add, PushFront
<1>6. /\ TypeOK /\ data_used = Cardinality(UsedWrites(info, is_used))
      /\ \E ch \in [Mods -> Seq(Slots)] : Lists(ch)
  BY DEF ListInv
<1>7. /\ is_used \in [Slots -> BOOLEAN] /\ info \in [Slots -> Infos]
      /\ next \in [Slots -> Links] /\ opera_info \in [Mods -> Links] /\ cur \in [Mods -> Links]
      /\ data_used \in 0..BuffLen /\ BuffLen \in Nat
  BY <1>6, ListAssumption DEF TypeOK, Links
<1>8. i \in Slots /\ is_used[i] = FALSE
  BY <1>2, <1>5, <1>7, FirstFreeIs
<1>9. TypeOK'
  <2>1. is_used' \in [Slots -> BOOLEAN] /\ info' \in [Slots -> Infos]
    BY <1>4, <1>5, <1>7
  <2>2. next' \in [Slots -> Links] /\ opera_info' \in [Mods -> Links] /\ cur' \in [Mods -> Links]
    BY <1>4, <1>5, <1>7, <1>8 DEF Links
  <2>3. data_used' \in 0..BuffLen
    BY <1>5, <1>7
  <2> QED BY <2>1, <2>2, <2>3 DEF TypeOK, Links
<1>10. data_used' = Cardinality(UsedWrites(info', is_used'))
  <2>1. OneLess(info, is_used, info', is_used', i)
    BY <1>5, <1>7, <1>8, UsingOne
  <2>2. info'[i].type = "WRITTING"
    BY <1>4, <1>5, <1>7, <1>8
  <2> QED BY <1>5, <1>6, <2>1, <2>2 DEF OneLess
<1>11. PICK ch \in [Mods -> Seq(Slots)] : Lists(ch)
  BY <1>6
<1>12. PICK c : c = ch[m]
  OBVIOUS
<1>13. /\ c \in Seq(Slots) /\ Distinct(c)
       /\ IsList(info, next, opera_info[m], cur[m], c)
       /\ IsChain(next, opera_info[m], c)
       /\ \A x \in ToSet(c) : x \in Slots /\ is_used[x] = TRUE
  BY <1>4, <1>6, <1>11, <1>12, ChainOf
<1>14. MayPush(info, f, c, cur[m])
  <2>1. Queue(m) = Reversed(c)
    BY <1>13, QueueIs DEF Queue
  <2>2. Locks(c, cur[m]) /\ Shape(info, c, cur[m], s)
    BY <1>13 DEF IsList
  <2> QED BY <1>4, <1>5, <1>7, <1>13, <2>1, <2>2, WriteLeavesShape
<1>15. Uses(is_used, c, c) /\ SameOutside(next, c)
  BY <1>13 DEF Uses, SameOutside
<1>16. \E dh \in [Mods -> Seq(Slots)] :
         ListsIn(info', next', opera_info', cur, is_used', dh)
  BY ZenonT(60), <1>4, <1>5, <1>6, <1>7, <1>8, <1>11, <1>12, <1>13, <1>14, <1>15, PushedLists
<1>17. (\E dh \in [Mods -> Seq(Slots)] : Lists(dh))'
  BY <1>5, <1>16 DEF Lists
<1> QED BY <1>9, <1>10, <1>17 DEF ListInv

\* _e_opera_add deletes the pending nodes of the sector, and puts the erase in front
\* of the list unless it is merged into the one being performed.
LEMMA EraseStep ==
  ASSUME ListInv, ~AnyErase, NEW s \in Sectors, E_opera_add(s)
  PROVE  ListInv'
<1>1. PICK m : m = Owner[s]
  OBVIOUS
<1>2. PICK w : w = EraseWalk(m, s)
  OBVIOUS
<1>3. PICK f : f = [type |-> "ERASING", sec |-> s]
  OBVIOUS
<1>4. m \in Mods /\ f \in Infos /\ f.type = "ERASING" /\ f.sec = s
  BY <1>1, <1>3, ListAssumption DEF Infos
<1>5. /\ EraseIsSafe(Queue(m), cur[m] # NULL, s)
      /\ data_used' = data_used - w.freed /\ cur' = cur
  BY <1>1, <1>2 DEF E_opera_add
<1>6. /\ TypeOK /\ data_used = Cardinality(UsedWrites(info, is_used))
      /\ \E ch \in [Mods -> Seq(Slots)] : Lists(ch)
  BY DEF ListInv
<1>7. /\ is_used \in [Slots -> BOOLEAN] /\ info \in [Slots -> Infos]
      /\ next \in [Slots -> Links] /\ opera_info \in [Mods -> Links] /\ cur \in [Mods -> Links]
      /\ data_used \in 0..BuffLen /\ BuffLen \in Nat
  BY <1>6, ListAssumption DEF TypeOK, Links
<1>8. PICK ch \in [Mods -> Seq(Slots)] : Lists(ch)
  BY <1>6
<1>9. PICK c : c = ch[m]
  OBVIOUS
<1>10. /\ c \in Seq(Slots) /\ Distinct(c) /\ MayWalk(c, m, s)
       /\ IsList(info, next, opera_info[m], cur[m], c)
       /\ IsChain(next, opera_info[m], c)
  BY <1>4, <1>6, <1>8, <1>9, ChainOf
<1>11. PICK r : Erased(w, r, c, m, s)
  BY <1>2, <1>5, <1>10, EraseLeaves
<1>12. Uses(w.is_used, r, c)
  BY <1>10, <1>11, ErasedUses
<1>13. /\ w \in Walks /\ \A j \in Slots : j \notin ToSet(c) => w.next[j] = next[j]
       /\ Cardinality(UsedWrites(info, w.is_used)) + w.freed = data_used
       /\ w.merged = TRUE <=> LockedErase(info, cur[m], s)
  BY <1>6, <1>11 DEF Erased, Walked
<1>14. /\ w.is_used \in [Slots -> BOOLEAN] /\ w.next \in [Slots -> Links] /\ w.head \in Links
       /\ w.freed \in Nat /\ w.merged \in BOOLEAN
  BY <1>13, Zenon DEF Walks
<1>15. data_used' = Cardinality(UsedWrites(info, w.is_used)) /\ data_used' \in 0..BuffLen
  <2>1. Cardinality(UsedWrites(info, w.is_used)) \in Nat
    BY WritesAreCounted
  <2> QED BY <1>5, <1>7, <1>13, <1>14, <2>1
<1>16. IsList(info, w.next, w.head, cur[m], r)
  BY <1>10, <1>11 DEF IsList, Erased, IsRest
<1>17. CASE w.merged = TRUE \/ Free(w.is_used) = {}
  <2>1. /\ is_used' = w.is_used /\ next' = w.next /\ info' = info
        /\ opera_info' = [opera_info EXCEPT ![m] = w.head]
    BY <1>1, <1>2, <1>17 DEF E_opera_add
  <2>2. TypeOK'
    BY <1>4, <1>5, <1>7, <1>14, <1>15, <2>1 DEF TypeOK, Links
  <2>3. data_used' = Cardinality(UsedWrites(info', is_used'))
    BY <1>15, <2>1
  <2>4. \E dh \in [Mods -> Seq(Slots)] :
          ListsIn(info, w.next, opera_info', cur, w.is_used, dh)
    <3>1. opera_info'[m] = w.head /\ \A o \in Mods \ {m} : opera_info'[o] = opera_info[o]
      BY <1>4, <1>7, <2>1
    <3>2. Takes(w.is_used, r, c)
      BY <1>12 DEF Uses, Takes
    <3>3. Untouched(info, w.next, c)
      BY <1>13 DEF Untouched
    <3>4. IsList(info, w.next, opera_info'[m], cur[m], r)
      BY <1>16, <3>1
    <3> QED BY <1>4, <1>8, <1>9, <3>1, <3>2, <3>3, <3>4, ListsAfter
  <2>5. (\E dh \in [Mods -> Seq(Slots)] : Lists(dh))'
    BY <1>5, <2>1, <2>4 DEF Lists
  <2> QED BY <2>2, <2>3, <2>5 DEF ListInv
<1>18. CASE w.merged = FALSE /\ Free(w.is_used) # {}
  <2>1. PICK i : i = FirstFree(w.is_used)
    OBVIOUS
  <2>2. /\ is_used' = [w.is_used EXCEPT ![i] = TRUE]
        /\ info' = [info EXCEPT ![i] = f]
        /\ next' = [w.next EXCEPT ![i] = w.head]
        /\ opera_info' = [opera_info EXCEPT ![m] = i]
    BY <1>1, <1>2, <1>3, <1>18, <2>1 DEF E_opera_add, PushFront
  <2>3. i \in Slots /\ w.is_used[i] = FALSE
    BY <1>14, <1>18, <2>1, FirstFreeIs
  <2>4. TypeOK'
    <3>1. is_used' \in [Slots -> BOOLEAN] /\ info' \in [Slots -> Infos]
      BY <1>4, <1>7, <1>14, <2>2
    <3>2. next' \in [Slots -> Links] /\ opera_info' \in [Mods -> Links] /\ cur' \in [Mods -> Links]
      BY <1>4, <1>5, <1>7, <1>14, <2>2, <2>3 DEF Links
    <3> QED BY <1>15, <3>1, <3>2 DEF TypeOK, Links
  <2>5. data_used' = Cardinality(UsedWrites(info', is_used'))
    <3>1. OneLess(info, w.is_used, info', is_used', i)
      BY <1>7, <1>14, <2>2, <2>3, UsingOne
    <3>2. info'[i].type # "WRITTING"
      BY <1>4, <1>7, <2>2, <2>3
    <3>3. Cardinality(UsedWrites(info, w.is_used)) \in Nat
      BY WritesAreCounted
    <3> QED BY <1>15, <3>1, <3>2, <3>3 DEF OneLess
  <2>6. MayPush(info, f, r, cur[m])
    <3>1. Pending(info, r, cur[m], s) = {}
      BY <1>11 DEF Erased, IsRest
    <3> QED BY <1>4, <1>13, <1>18, <3>1 DEF MayPush
  <2>7. \E dh \in [Mods -> Seq(Slots)] :
          ListsIn(info', next', opera_info', cur, is_used', dh)
    <3>1. SameOutside(w.next, c)
      BY <1>13 DEF SameOutside
    <3>2. PICK used, nx, h : used = w.is_used /\ nx = w.next /\ h = w.head
      OBVIOUS
    <3>3. /\ used \in [Slots -> BOOLEAN] /\ nx \in [Slots -> Links]
          /\ IsList(info, nx, h, cur[m], r) /\ Uses(used, r, ch[m]) /\ SameOutside(nx, ch[m])
          /\ i \in Slots /\ used[i] = FALSE
      BY <1>9, <1>12, <1>14, <1>16, <2>3, <3>1, <3>2
    <3>4. /\ is_used' = [used EXCEPT ![i] = TRUE] /\ info' = [info EXCEPT ![i] = f]
          /\ next' = [nx EXCEPT ![i] = h] /\ opera_info' = [opera_info EXCEPT ![m] = i]
      BY <2>2, <3>2
    <3> QED BY <1>4, <1>6, <1>8, <2>6, <3>3, <3>4, PushedLists
  <2>8. (\E dh \in [Mods -> Seq(Slots)] : Lists(dh))'
    BY <1>5, <2>7 DEF Lists
  <2> QED BY <2>4, <2>5, <2>8 DEF ListInv
<1> QED BY <1>14, <1>17, <1>18

\* _opera_flush suspends the oldest node.
LEMMA SuspendStep ==
  ASSUME ListInv, NEW m \in Mods, FlushSuspended(m)
  PROVE  ListInv'
<1>1. /\ TypeOK /\ data_used = Cardinality(UsedWrites(info, is_used))
      /\ \E ch \in [Mods -> Seq(Slots)] : Lists(ch)
  BY DEF ListInv
<1>2. PICK ch \in [Mods -> Seq(Slots)] : Lists(ch)
  BY <1>1
<1>3. PICK c : c = ch[m]
  OBVIOUS
<1>4. /\ c \in Seq(Slots) /\ Distinct(c)
      /\ IsList(info, next, opera_info[m], cur[m], c)
      /\ IsChain(next, opera_info[m], c)
      /\ \A x \in ToSet(c) : x \in Slots /\ is_used[x] = TRUE
  BY <1>1, <1>2, <1>3, ChainOf
<1>5. PICK i \in Tails(m) : cur' = [cur EXCEPT ![m] = i]
  BY DEF FlushSuspended
<1>6. /\ cur[m] = NULL
      /\ is_used' = is_used /\ info' = info /\ next' = next /\ opera_info' = opera_info
      /\ data_used' = data_used
  BY DEF FlushSuspended
<1>7. c # <<>> /\ i = c[Len(c)] /\ Len(c) \in 1..Len(c)
  <2>1. Tails(m) = (IF c = <<>> THEN {} ELSE {c[Len(c)]})
    BY <1>4, ListIs
  <2> QED BY <1>4, <1>5, <2>1
<1>8. i \in Slots /\ i # NULL
  BY <1>4, <1>7, ListAssumption
<1>9. cur \in [Mods -> Links]
  BY <1>1 DEF TypeOK, Links
<1>10. cur'[m] = i /\ cur' \in [Mods -> Links] /\ \A o \in Mods \ {m} : cur'[o] = cur[o]
  BY <1>5, <1>8, <1>9 DEF Links
<1>11. TypeOK'
  BY <1>1, <1>6, <1>10 DEF TypeOK, Links
<1>12. IsList(info, next, opera_info[m], i, c)
  <2>1. Locks(c, i)
    BY <1>7 DEF Locks
  <2>2. ASSUME NEW s \in Sectors PROVE Shape(info, c, i, s)
    <3>1. Shape(info, c, NULL, s)
      BY <1>4, <1>6 DEF IsList
    <3>2. \A k \in Pending(info, c, i, s) :
            k \in Pending(info, c, NULL, s) /\ k # Len(c) /\ k \in 1..Len(c)
      BY <1>4, <1>7, ListAssumption DEF Pending
    <3>3. LockedErase(info, i, s) =>
            /\ Len(c) \in Pending(info, c, NULL, s)
            /\ info[c[Len(c)]].type = "ERASING"
      BY <1>7, <1>8 DEF LockedErase, Pending
    <3>4. ASSUME LockedErase(info, i, s), NEW k \in Pending(info, c, i, s)
          PROVE  info[c[k]].type = "WRITTING"
      <4>1. k < Len(c)
        BY <1>4, <3>2
      <4> QED BY <3>1, <3>2, <3>3, <3>4, <4>1 DEF Shape
    <3> QED BY <3>1, <3>2, <3>4 DEF Shape
  <2> QED BY <1>4, <2>1, <2>2 DEF IsList
<1>13. \E dh \in [Mods -> Seq(Slots)] :
         ListsIn(info, next, opera_info, cur', is_used, dh)
  <2>1. Untouched(info, next, c) /\ Takes(is_used, c, c)
    BY <1>4 DEF Untouched, Takes
  <2>2. IsList(info, next, opera_info[m], cur'[m], c)
    BY <1>10, <1>12
  <2>3. \A o \in Mods \ {m} : opera_info[o] = opera_info[o] /\ cur'[o] = cur[o]
    BY <1>10
  <2> QED BY <1>2, <1>3, <2>1, <2>2, <2>3, ListsAfter
<1>14. (\E dh \in [Mods -> Seq(Slots)] : Lists(dh))'
  BY <1>6, <1>13 DEF Lists
<1>15. data_used' = Cardinality(UsedWrites(info', is_used'))
  BY <1>1, <1>6
<1> QED BY <1>11, <1>14, <1>15 DEF ListInv

\* _opera_del cuts the list in front of the node that was performed, the oldest.
LEMMA CompleteStep ==
  ASSUME ListInv, NEW m \in Mods, FlushCompleted(m)
  PROVE  ListInv'
<1>1. /\ TypeOK /\ data_used = Cardinality(UsedWrites(info, is_used))
      /\ \E ch \in [Mods -> Seq(Slots)] : Lists(ch)
  BY DEF ListInv
<1>2. PICK ch \in [Mods -> Seq(Slots)] : Lists(ch)
  BY <1>1
<1>3. PICK c : c = ch[m]
  OBVIOUS
<1>4. /\ c \in Seq(Slots) /\ Distinct(c)
      /\ IsList(info, next, opera_info[m], cur[m], c)
      /\ IsChain(next, opera_info[m], c)
      /\ \A x \in ToSet(c) : x \in Slots /\ is_used[x] = TRUE
  BY <1>1, <1>2, <1>3, ChainOf
<1>5. PICK i \in IF cur[m] # NULL THEN {cur[m]} ELSE Tails(m) :
        /\ i \in Nodes(m)
        /\ IF opera_info[m] = i
           THEN opera_info' = [opera_info EXCEPT ![m] = NULL] /\ UNCHANGED next
           ELSE /\ next' = [j \in Slots |->
                              IF j \in Nodes(m) /\ next[j] = i THEN NULL ELSE next[j]]
                /\ UNCHANGED opera_info
        /\ is_used' = [is_used EXCEPT ![i] = FALSE]
        /\ data_used' = IF info[i].type = "WRITTING" THEN data_used - 1 ELSE data_used
  BY DEF FlushCompleted
<1>6. cur' = [cur EXCEPT ![m] = NULL] /\ info' = info
  BY DEF FlushCompleted
<1>7. /\ Nodes(m) = ToSet(c) /\ Tails(m) = (IF c = <<>> THEN {} ELSE {c[Len(c)]})
  BY <1>4, ListIs
<1>8. /\ is_used \in [Slots -> BOOLEAN] /\ info \in [Slots -> Infos]
      /\ next \in [Slots -> Links] /\ opera_info \in [Mods -> Links] /\ cur \in [Mods -> Links]
      /\ data_used \in 0..BuffLen /\ BuffLen \in Nat
  BY <1>1, ListAssumption DEF TypeOK, Links
<1>9. PICK n \in Nat : n = Len(c)
  BY <1>4
<1>10. n \in 1..n /\ i = c[n] /\ i \in Slots /\ i # NULL
  <2>1. c # <<>> /\ i = c[n]
    <3>1. Locks(c, cur[m])
      BY <1>4 DEF IsList
    <3> QED BY <1>5, <1>7, <1>9, <3>1 DEF Locks
  <2> QED BY <1>4, <1>9, <2>1, ListAssumption
<1>11. \A k \in 1..n : c[k] \in ToSet(c) /\ c[k] \in Slots /\ (c[k] = i <=> k = n)
  <2>1. \A k \in 1..n : c[k] \in ToSet(c)
    BY <1>4, <1>9, ElementsOf
  <2> QED BY <1>4, <1>9, <1>10, <2>1 DEF Distinct
<1>12. PICK d : d = SubSeq(c, 1, n - 1)
  OBVIOUS
<1>13. d \in Seq(Slots) /\ Len(d) = n - 1 /\ \A k \in 1..n - 1 : d[k] = c[k]
  BY <1>4, <1>9, <1>10, <1>12
<1>14. \A x : x \in ToSet(d) <=> x \in ToSet(c) /\ x # i
  <2>1. \A x : x \in ToSet(d) <=> \E k \in 1..n - 1 : d[k] = x
    <3>1. \A x : x \in ToSet(d) <=> \E k \in 1..Len(d) : d[k] = x
      BY ONLY <1>13, ElementsOf
    <3> QED BY <1>13, <3>1
  <2>2. \A x : x \in ToSet(c) <=> \E k \in 1..n : c[k] = x
    BY <1>4, <1>9, ElementsOf
  <2>3. ASSUME NEW x \in ToSet(d) PROVE x \in ToSet(c) /\ x # i
    <3>1. PICK k \in 1..n - 1 : d[k] = x
      BY <2>1
    <3>2. k \in 1..n /\ k # n
      OBVIOUS
    <3> QED BY <1>11, <1>13, <3>1, <3>2
  <2>4. ASSUME NEW x \in ToSet(c), x # i PROVE x \in ToSet(d)
    <3>1. PICK k \in 1..n : c[k] = x
      BY <2>2
    <3>2. k \in 1..n - 1
      BY <1>10, <2>4, <3>1
    <3> QED BY <1>13, <2>1, <3>1, <3>2
  <2> QED BY <2>3, <2>4
<1>15. PICK h : h = IF n = 1 THEN NULL ELSE opera_info[m]
  OBVIOUS
<1>16. /\ opera_info[m] = i <=> n = 1
       /\ opera_info' = [opera_info EXCEPT ![m] = h]
       /\ next' \in [Slots -> Links]
       /\ \A j \in Slots : j \notin ToSet(c) => next'[j] = next[j]
       /\ \A k \in 1..n - 1 : next'[c[k]] = IF k = n - 1 THEN NULL ELSE c[k + 1]
  <2>1. opera_info[m] = c[1] /\ 1 \in 1..n
    <3>1. c # <<>>
      BY <1>9, <1>10
    <3> QED BY <1>4, <1>10, <3>1 DEF IsChain
  <2>2. opera_info[m] = i <=> n = 1
    BY <1>11, <2>1
  <2>3. \A k \in 1..n : next[c[k]] = IF k = n THEN NULL ELSE c[k + 1]
    BY <1>4, <1>9 DEF IsChain
  <2>4. CASE n = 1
    <3>1. opera_info' = [opera_info EXCEPT ![m] = NULL] /\ next' = next
      BY <1>5, <2>2, <2>4
    <3> QED BY <1>8, <1>15, <2>2, <2>4, <3>1
  <2>5. CASE n # 1
    <3>1. /\ opera_info' = opera_info
          /\ next' = [j \in Slots |-> IF j \in ToSet(c) /\ next[j] = i THEN NULL ELSE next[j]]
      BY <1>5, <1>7, <2>2, <2>5
    <3>2. opera_info' = [opera_info EXCEPT ![m] = h]
      BY <1>8, <1>15, <2>5, <3>1
    <3>3. next' \in [Slots -> Links]
      BY <1>8, <3>1 DEF Links
    <3>4. ASSUME NEW k \in 1..n - 1
          PROVE  next'[c[k]] = IF k = n - 1 THEN NULL ELSE c[k + 1]
      <4>1. k \in 1..n /\ k + 1 \in 1..n /\ k # n
        OBVIOUS
      <4>2. next[c[k]] = c[k + 1]
        BY <2>3, <4>1
      <4>3. c[k + 1] = i <=> k = n - 1
        BY <1>11, <4>1
      <4> QED BY <1>11, <3>1, <4>1, <4>2, <4>3
    <3> QED BY <2>2, <3>1, <3>2, <3>3, <3>4
  <2> QED BY <2>4, <2>5
<1>17. IsList(info, next', h, NULL, d)
  <2>1. Distinct(d)
    <3>1. \A k \in 1..n - 1 : k \in 1..n
      OBVIOUS
    <3> QED BY <1>4, <1>9, <1>13, <3>1 DEF Distinct
  <2>2. IsChain(next', h, d)
    <3>1. d = <<>> <=> n = 1
      BY <1>10, <1>13
    <3>2. n # 1 => opera_info[m] = c[1] /\ d[1] = c[1]
      <4>1. c # <<>>
        BY <1>9, <1>10
      <4>2. n # 1 => 1 \in 1..n - 1
        BY <1>10
      <4> QED BY <1>4, <1>13, <4>1, <4>2 DEF IsChain
    <3>3. h = IF d = <<>> THEN NULL ELSE d[1]
      BY <1>15, <3>1, <3>2
    <3>4. ASSUME NEW k \in 1..n - 1
          PROVE  next'[d[k]] = IF k = n - 1 THEN NULL ELSE d[k + 1]
      <4>1. k # n - 1 => k + 1 \in 1..n - 1
        OBVIOUS
      <4> QED BY <1>13, <1>16, <4>1
    <3> QED BY <1>13, <3>3, <3>4 DEF IsChain
  <2>3. Locks(d, NULL)
    BY DEF Locks
  <2>4. ASSUME NEW s \in Sectors PROVE Shape(info, d, NULL, s)
    <3>1. Shape(info, c, cur[m], s) /\ Locks(c, cur[m])
      BY <1>4 DEF IsList
    <3>2. ASSUME NEW k \in Pending(info, d, NULL, s)
          PROVE  k \in Pending(info, c, cur[m], s) /\ d[k] = c[k]
      <4>1. k \in 1..n - 1 /\ k \in 1..n /\ k # n /\ info[d[k]].sec = s
        BY <1>13, <3>2 DEF Pending
      <4>2. c[k] # cur[m]
        BY <1>9, <1>10, <1>11, <3>1, <4>1, ListAssumption DEF Locks
      <4> QED BY <1>9, <1>13, <4>1, <4>2 DEF Pending
    <3> QED BY <3>1, <3>2 DEF Shape, LockedErase
  <2> QED BY <1>13, <2>1, <2>2, <2>3, <2>4 DEF IsList
<1>18. h \in Links /\ cur' \in [Mods -> Links] /\ is_used' \in [Slots -> BOOLEAN]
  BY <1>5, <1>6, <1>8, <1>15 DEF Links
<1>19. OneLess(info, is_used', info, is_used, i)
  <2>1. is_used[i] = TRUE /\ is_used' = [is_used EXCEPT ![i] = FALSE]
    BY <1>4, <1>5, <1>10, <1>11
  <2> QED BY <1>8, <1>10, <2>1, FreeingOne
<1>20. data_used' = Cardinality(UsedWrites(info', is_used')) /\ data_used' \in 0..BuffLen
  <2>1. Cardinality(UsedWrites(info, is_used')) \in Nat
    BY WritesAreCounted
  <2>2. data_used' = Cardinality(UsedWrites(info, is_used'))
    BY <1>1, <1>5, <1>19, <2>1 DEF OneLess
  <2>3. data_used' \in 0..BuffLen
    BY <1>5, <1>8, <2>1, <2>2
  <2> QED BY <1>6, <2>2, <2>3
<1>21. TypeOK'
  <2>1. opera_info' \in [Mods -> Links]
    BY <1>8, <1>16, <1>18
  <2> QED BY <1>6, <1>8, <1>16, <1>18, <1>20, <2>1 DEF TypeOK, Links
<1>22. \E dh \in [Mods -> Seq(Slots)] :
         ListsIn(info, next', opera_info', cur', is_used', dh)
  <2>1. /\ opera_info'[m] = h /\ cur'[m] = NULL
        /\ \A o \in Mods \ {m} : opera_info'[o] = opera_info[o] /\ cur'[o] = cur[o]
    BY <1>6, <1>8, <1>16
  <2>2. IsList(info, next', opera_info'[m], cur'[m], d)
    BY <1>17, <2>1
  <2>3. Untouched(info, next', c)
    BY <1>16 DEF Untouched
  <2>4. Takes(is_used', d, c)
    <3>1. ASSUME NEW j \in Slots
          PROVE  is_used'[j] = TRUE <=> (is_used[j] = TRUE /\ j \notin ToSet(c)) \/ j \in ToSet(d)
      <4>1. CASE j = i
        BY <1>5, <1>8, <1>10, <1>11, <1>14, <4>1
      <4>2. CASE j # i
        <5>1. is_used'[j] = is_used[j]
          BY <1>5, <1>8, <4>2
        <5> QED BY <1>4, <1>14, <4>2, <5>1
      <4> QED BY <4>1, <4>2
    <3> QED BY <1>14, <3>1 DEF Takes
  <2> QED BY <1>2, <1>3, <2>1, <2>2, <2>3, <2>4, ListsAfter
<1>23. (\E dh \in [Mods -> Seq(Slots)] : Lists(dh))'
  BY <1>6, <1>22 DEF Lists
<1> QED BY <1>20, <1>21, <1>23 DEF ListInv

LEMMA NextLists == ~AnyErase /\ ListInv /\ [Next]_vars => ListInv'
<1> SUFFICES ASSUME ~AnyErase, ListInv, [Next]_vars PROVE ListInv'
  OBVIOUS
<1>1. ASSUME NEW s \in Sectors, E_opera_add(s) PROVE ListInv'
  BY <1>1, EraseStep
<1>2. ASSUME NEW s \in Sectors, W_opera_add(s) PROVE ListInv'
  BY <1>2, WriteStep
<1>3. ASSUME NEW m \in Mods, FlushSuspended(m) PROVE ListInv'
  BY <1>3, SuspendStep
<1>4. ASSUME NEW m \in Mods, FlushCompleted(m) PROVE ListInv'
  BY <1>4, CompleteStep
<1>5. CASE UNCHANGED vars
  <2>1. /\ is_used' = is_used /\ info' = info /\ next' = next /\ opera_info' = opera_info
        /\ cur' = cur /\ data_used' = data_used
    BY <1>5 DEF vars
  <2>2. TypeOK'
    BY <2>1 DEF ListInv, TypeOK
  <2>3. data_used' = Cardinality(UsedWrites(info', is_used'))
    BY <2>1 DEF ListInv
  <2>4. PICK ch \in [Mods -> Seq(Slots)] : Lists(ch)
    BY DEF ListInv
  <2>5. Lists(ch)'
    BY <2>1, <2>4 DEF Lists
  <2> QED BY <2>2, <2>3, <2>4, <2>5 DEF ListInv
<1> QED BY <1>1, <1>2, <1>3, <1>4, <1>5 DEF Next

---------------------------------------------------------------------------
(* The theorems.                                                            *)

LEMMA ListsFinal ==
  ASSUME ListInv
  PROVE  ListsEnd /\ NoFreedNodeListed /\ UsedOnOneList /\ CurIsTail /\ EraseWalkDeletesPending
<1>1. TypeOK /\ \E ch \in [Mods -> Seq(Slots)] : Lists(ch)
  BY DEF ListInv
<1>2. PICK ch \in [Mods -> Seq(Slots)] : Lists(ch)
  BY <1>1
<1>3. ASSUME NEW m \in Mods
      PROVE  /\ Ends(m) /\ Nodes(m) = ToSet(ch[m])
             /\ Tails(m) = (IF ch[m] = <<>> THEN {} ELSE {ch[m][Len(ch[m])]})
             /\ \A x \in ToSet(ch[m]) : x \in Slots /\ is_used[x] = TRUE
             /\ Locks(ch[m], cur[m])
             /\ \A s \in Sectors : MayWalk(ch[m], m, s)
  <2>1. PICK c : c = ch[m]
    OBVIOUS
  <2>2. /\ c \in Seq(Slots) /\ Distinct(c)
        /\ IsList(info, next, opera_info[m], cur[m], c)
        /\ IsChain(next, opera_info[m], c)
        /\ \A x \in ToSet(c) : x \in Slots /\ is_used[x] = TRUE
        /\ \A s \in Sectors : MayWalk(c, m, s)
    BY <1>1, <1>2, <2>1, ChainOf
  <2>3. Ends(m) /\ Nodes(m) = ToSet(c) /\ Tails(m) = (IF c = <<>> THEN {} ELSE {c[Len(c)]})
    BY <2>2, ListIs
  <2> QED BY <2>1, <2>2, <2>3 DEF IsList
<1>4. ListsEnd
  BY <1>1, <1>3 DEF ListsEnd
<1>5. NoFreedNodeListed
  <2>1. \A m \in Mods : \A i \in Nodes(m) : is_used[i] = TRUE
    BY <1>3
  <2> QED BY <2>1, Zenon DEF NoFreedNodeListed
<1>6. UsedOnOneList
  <2>1. Shared(is_used, ch)
    BY <1>2 DEF Lists, ListsIn
  <2>2. \A i \in Slots : is_used[i] = TRUE =>
          \E m \in Mods : i \in Nodes(m) /\ \A o \in Mods \ {m} : i \notin Nodes(o)
    <3> SUFFICES ASSUME NEW i \in Slots, is_used[i] = TRUE
                 PROVE  \E m \in Mods : i \in Nodes(m) /\ \A o \in Mods \ {m} : i \notin Nodes(o)
      OBVIOUS
    <3>1. PICK m \in Mods : i \in ToSet(ch[m])
      BY <2>1 DEF Shared
    <3>2. \A o \in Mods \ {m} : i \notin ToSet(ch[o])
      BY <2>1, <3>1 DEF Shared
    <3>3. \A o \in Mods : Nodes(o) = ToSet(ch[o])
      BY <1>3
    <3> QED BY <3>1, <3>2, <3>3
  <2>3. \A i \in Slots : is_used[i] = TRUE \/ is_used[i] = FALSE
    BY <1>1 DEF TypeOK
  <2> QED BY <2>2, <2>3, Zenon DEF UsedOnOneList
<1>7. CurIsTail
  <2> SUFFICES ASSUME NEW m \in Mods, cur[m] # NULL PROVE Tails(m) = {cur[m]}
    BY DEF CurIsTail
  <2>1. ch[m] # <<>> /\ cur[m] = ch[m][Len(ch[m])]
    BY <1>3 DEF Locks
  <2> QED BY <1>3, <2>1
<1>8. EraseWalkDeletesPending
  <2> SUFFICES ASSUME NEW s \in Sectors, NEW m, m = Owner[s], NEW w, w = EraseWalk(m, s),
                      EraseIsSafe(Queue(m), cur[m] # NULL, s)
               PROVE  /\ QueueFrom(w.next, w.head) = DeletePending(Queue(m), cur[m] # NULL, s)
                      /\ w.merged = EraseMerged(Queue(m), cur[m] # NULL, s)
    BY DEF EraseWalkDeletesPending
  <2>1. m \in Mods
    BY ListAssumption
  <2>2. PICK r : Erased(w, r, ch[m], m, s)
    BY <1>3, <2>1, EraseLeaves
  <2>3. /\ QueueFrom(w.next, w.head) = DeletePending(Queue(m), cur[m] # NULL, s)
        /\ w.merged = TRUE <=> EraseMerged(Queue(m), cur[m] # NULL, s)
        /\ w \in Walks
    BY <2>2 DEF Erased, Walked
  <2>4. w.merged \in BOOLEAN
    BY <2>3, Zenon DEF Walks
  <2>5. EraseMerged(Queue(m), cur[m] # NULL, s) \in BOOLEAN
    BY DEF EraseMerged
  <2>6. w.merged = EraseMerged(Queue(m), cur[m] # NULL, s)
    BY <2>3, <2>4, <2>5
  <2> QED BY <2>3, <2>6
<1> QED BY <1>4, <1>5, <1>6, <1>7, <1>8

\* Every module's list is a chain of different nodes whose oldest is the one being
\* performed, a sector's other nodes on it are an erase and a newer write at most, the
\* used nodes are divided among the lists, and every write on them has its buffer.
\* Like the runs, for clients that erase only what EraseIsSafe lets them.
THEOREM ListsAreChains == ~AnyErase => (Spec => []ListInv)
<1>1. Init => ListInv
  BY InitLists
<1>2. ~AnyErase /\ ListInv /\ [Next]_vars => ListInv'
  BY NextLists
<1>3. CASE ~AnyErase
  BY <1>1, <1>2, <1>3, PTL DEF Spec
<1>4. CASE AnyErase
  BY <1>4
<1> QED BY <1>3, <1>4

LEMMA ListsProved ==
  ~AnyErase => (Spec => [](/\ ListsEnd /\ NoFreedNodeListed /\ UsedOnOneList /\ CurIsTail
                           /\ EraseWalkDeletesPending))
<1>1. ListInv => /\ ListsEnd /\ NoFreedNodeListed /\ UsedOnOneList /\ CurIsTail
                 /\ EraseWalkDeletesPending
  BY ListsFinal
<1>2. CASE ~AnyErase
  BY <1>1, <1>2, ListsAreChains, PTL
<1>3. CASE AnyErase
  BY <1>3
<1> QED BY <1>2, <1>3

\* No list becomes a ring, so that the walks that norflash_api.cpp makes over a list
\* with the interrupts locked end.
THEOREM WalksEnd == ~AnyErase => (Spec => []ListsEnd)
BY ListsProved, PTL

\* A node that _norflash_api_free has given back is on no list any more.
THEOREM FreedNodesAreGone == ~AnyErase => (Spec => []NoFreedNodeListed)
BY ListsProved, PTL

\* The pool opera_info_list is neither leaked nor shared: a used node is on one list.
THEOREM PoolIsDivided == ~AnyErase => (Spec => []UsedOnOneList)
BY ListsProved, PTL

\* cur_opera_info is the last node of its list, so that _opera_del, which cuts the list
\* in front of it, takes away that node alone.
THEOREM CurrentIsOldest == ~AnyErase => (Spec => []CurIsTail)
BY ListsProved, PTL

\* The loop of _e_opera_add, with its predecessor pointer, does to the links what
\* OperaQueue, on which NorflashApi rests, says of the sequence.
THEOREM WalkIsDeletion == ~AnyErase => (Spec => []EraseWalkDeletesPending)
BY ListsProved, PTL
=============================================================================
