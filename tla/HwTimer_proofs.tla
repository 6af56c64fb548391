--------------------------- MODULE HwTimer_proofs ---------------------------
(***************************************************************************)
(* Proofs about HwTimer, for any timers, durations and latency.            *)
(***************************************************************************)
EXTENDS HwTimer, DataLemmas

HwStates == [enabled : BOOLEAN, value : Nat, fresh : BOOLEAN, irq : BOOLEAN, elapsed : Nat]

---------------------------------------------------------------------------
(* The operators.                                                           *)

LEMMA LoadedIs ==
  ASSUME NEW h \in HwStates, NEW ticks \in Nat, NEW y, y = Loaded(h, ticks)
  PROVE  /\ y \in HwStates
         /\ y.enabled = TRUE /\ y.value = Max2(ticks - LoadDelta, 1) /\ y.fresh = TRUE
         /\ y.irq = h.irq /\ y.elapsed = 0
<1> DEFINE v == Max2(ticks - LoadDelta, 1)
<1>1. v \in Nat
  BY DEF Max2, LoadDelta
<1>2. y = [h EXCEPT !.enabled = TRUE, !.value = v, !.fresh = TRUE, !.elapsed = 0]
  BY DEF Loaded
<1> HIDE DEF v
<1>3. /\ y \in HwStates
      /\ y.enabled = TRUE /\ y.value = v /\ y.fresh = TRUE
      /\ y.irq = h.irq /\ y.elapsed = 0
  <2>1. 0 \in Nat
    OBVIOUS
  <2> QED BY <1>1, <1>2, <2>1, Zenon DEF HwStates
<1> QED BY <1>3 DEF v

LEMMA StoppedIs ==
  /\ Stopped \in HwStates
  /\ Stopped.enabled = FALSE /\ Stopped.value = 0 /\ Stopped.fresh = FALSE
  /\ Stopped.irq = FALSE /\ Stopped.elapsed = 0
  BY DEF Stopped, HwStates

\* The walk over a list, as a function of the list and the deltas.
Sums(ls, tm) ==
  LET sum[i \in 1..Len(ls)] == IF i = 1 THEN 0 ELSE sum[i - 1] + tm[ls[i]]
  IN sum

LEMMA UpToIsSums ==
  \A j : UpTo(j) = Sums(active, time)[j] /\ UpTo(j)' = Sums(active', time')[j]
BY DEF UpTo, Sums

LEMMA SumsStep ==
  ASSUME NEW ls \in Seq(Timers), NEW tm \in [Timers -> Nat], NEW sum, sum = Sums(ls, tm)
  PROVE  \A j \in 1..Len(ls) : sum[j] = IF j = 1 THEN 0 ELSE sum[j - 1] + tm[ls[j]]
<1> DEFINE e == [i \in 1..Len(ls) |-> tm[ls[i]]]
<1>1. \E s : s = [i \in 1..Len(ls) |-> IF i = 1 THEN 0 ELSE s[i - 1] + e[i]]
  <2>1. Len(ls) \in Nat
    OBVIOUS
  <2> HIDE DEF e
  <2> QED BY <2>1, SumsExist, Zenon
<1>2. \E s : s = [i \in 1..Len(ls) |-> IF i = 1 THEN 0 ELSE s[i - 1] + tm[ls[i]]]
  <2>1. PICK s : s = [i \in 1..Len(ls) |-> IF i = 1 THEN 0 ELSE s[i - 1] + e[i]]
    BY <1>1
  <2>2. \A i \in 1..Len(ls) : e[i] = tm[ls[i]]
    OBVIOUS
  <2> HIDE DEF e
  <2>3. s = [i \in 1..Len(ls) |-> s[i]]
    BY <2>1
  <2>4. \A i \in 1..Len(ls) : s[i] = (IF i = 1 THEN 0 ELSE s[i - 1] + tm[ls[i]])
    BY <2>1, <2>2
  <2> DEFINE z == [i \in 1..Len(ls) |-> IF i = 1 THEN 0 ELSE s[i - 1] + tm[ls[i]]]
  <2>5. s = z
    BY <2>3, <2>4
  <2> QED BY <2>5
<1>3. sum = [i \in 1..Len(ls) |-> IF i = 1 THEN 0 ELSE sum[i - 1] + tm[ls[i]]]
  BY <1>2 DEF Sums
<1> QED BY <1>3

\* What the sums are, and that no other function is them.
LEMMA SumsFacts ==
  ASSUME NEW ls \in Seq(Timers), NEW tm \in [Timers -> Nat], NEW sum, sum = Sums(ls, tm)
  PROVE  /\ ls # <<>> => sum[1] = 0
         /\ \A j \in 1..Len(ls) : sum[j] \in Nat
         /\ \A j \in 2..Len(ls) : sum[j] = sum[j - 1] + tm[ls[j]]
         /\ \A i, j \in 1..Len(ls) : i <= j => sum[i] <= sum[j]
<1>1. \A j \in 1..Len(ls) : sum[j] = IF j = 1 THEN 0 ELSE sum[j - 1] + tm[ls[j]]
  BY SumsStep
<1>2. \A j \in 1..Len(ls) : tm[ls[j]] \in Nat
  OBVIOUS
<1>3. Len(ls) \in Nat
  OBVIOUS
<1>4. \A j \in 2..Len(ls) : j \in 1..Len(ls) /\ j - 1 \in 1..Len(ls) /\ j # 1
  BY <1>3
<1> DEFINE T == {n \in Nat : \A j \in 1..Len(ls) : j <= n + 1 => sum[j] \in Nat}
<1>5. 0 \in T
  BY <1>1, <1>3
<1>6. ASSUME NEW n \in Nat, n \in T
      PROVE  n + 1 \in T
  <2> SUFFICES ASSUME NEW j \in 1..Len(ls), j = n + 2 PROVE sum[j] \in Nat
    BY <1>6, <1>3
  <2>1. j - 1 \in 1..Len(ls) /\ j - 1 <= n + 1 /\ j # 1
    BY <1>3
  <2>2. sum[j - 1] \in Nat
    BY <1>6, <2>1
  <2>3. sum[j] = sum[j - 1] + tm[ls[j]] /\ tm[ls[j]] \in Nat
    BY <1>1, <1>2, <2>1
  <2> QED BY <2>2, <2>3
<1>7. Nat \subseteq T
  <2> HIDE DEF T
  <2> QED BY <1>5, <1>6, AllNaturals
<1>8. \A j \in 1..Len(ls) : sum[j] \in Nat
  <2>1. Len(ls) \in T
    BY <1>3, <1>7
  <2> QED BY <1>3, <2>1
<1>9. \A j \in 2..Len(ls) : sum[j] = sum[j - 1] + tm[ls[j]]
  BY <1>1, <1>4
<1>10. ASSUME NEW i \in 1..Len(ls)
       PROVE  \A j \in 1..Len(ls) : i <= j => sum[i] <= sum[j]
  <2> DEFINE R == {n \in Nat : \A j \in 1..Len(ls) : j = i + n => sum[i] <= sum[j]}
  <2>1. 0 \in R
    BY <1>8
  <2>2. ASSUME NEW n \in Nat, n \in R
        PROVE  n + 1 \in R
    <3> SUFFICES ASSUME NEW j \in 1..Len(ls), j = i + (n + 1) PROVE sum[i] <= sum[j]
      OBVIOUS
    <3>1. j - 1 \in 1..Len(ls) /\ j - 1 = i + n /\ j \in 2..Len(ls)
      BY <1>3
    <3>2. sum[i] <= sum[j - 1]
      BY <2>2, <3>1
    <3>3. sum[j] = sum[j - 1] + tm[ls[j]]
      BY <1>9, <3>1
    <3> QED BY <1>2, <1>8, <3>1, <3>2, <3>3, SMTT(30)
  <2>3. Nat \subseteq R
    <3> HIDE DEF R
    <3> QED BY <2>1, <2>2, AllNaturals
  <2>4. ASSUME NEW j \in 1..Len(ls), i <= j PROVE sum[i] <= sum[j]
    <3>1. j - i \in R /\ j = i + (j - i)
      BY <2>3, <2>4
    <3> QED BY <3>1
  <2> QED BY <2>4
<1>11. ls # <<>> => sum[1] = 0
  <2>1. ls # <<>> => 1 \in 1..Len(ls)
    OBVIOUS
  <2> QED BY <1>1, <2>1
<1> QED BY <1>8, <1>9, <1>10, <1>11

\* g adds up the first n elements.
AddsUp(g, n, ls, tm) ==
  (n >= 1 => g[1] = 0) /\ \A j \in 2..n : g[j] = g[j - 1] + tm[ls[j]]

\* To know the sums, guess them.
LEMMA SumsAre ==
  ASSUME NEW ls \in Seq(Timers), NEW tm \in [Timers -> Nat], NEW sum, sum = Sums(ls, tm),
         NEW n \in 0..Len(ls), NEW g, AddsUp(g, n, ls, tm)
  PROVE  \A j \in 1..n : sum[j] = g[j]
<1>1. /\ ls # <<>> => sum[1] = 0
      /\ \A j \in 2..Len(ls) : sum[j] = sum[j - 1] + tm[ls[j]]
  BY SumsFacts
<1>2. Len(ls) \in Nat /\ n \in Nat /\ n <= Len(ls)
  OBVIOUS
<1> DEFINE T == {m \in Nat : \A j \in 1..n : j <= m + 1 => sum[j] = g[j]}
<1>3. 0 \in T
  <2>1. n >= 1 => ls # <<>>
    BY <1>2
  <2> QED BY <1>1, <1>2, <2>1 DEF AddsUp
<1>4. ASSUME NEW m \in Nat, m \in T
      PROVE  m + 1 \in T
  <2> SUFFICES ASSUME NEW j \in 1..n, j = m + 2 PROVE sum[j] = g[j]
    BY <1>2, <1>4
  <2>1. j - 1 \in 1..n /\ j - 1 <= m + 1 /\ j \in 2..n /\ j \in 2..Len(ls)
    BY <1>2
  <2>2. sum[j - 1] = g[j - 1]
    BY <1>4, <2>1
  <2>3. sum[j] = sum[j - 1] + tm[ls[j]] /\ g[j] = g[j - 1] + tm[ls[j]]
    BY <1>1, <2>1 DEF AddsUp
  <2> QED BY <2>2, <2>3
<1>5. n \in T
  <2> HIDE DEF T
  <2> QED BY <1>2, <1>3, <1>4, AllNaturals
<1> QED BY <1>2, <1>5

LEMMA UpToFacts ==
  ASSUME active \in Seq(Timers), time \in [Timers -> Nat]
  PROVE  /\ active # <<>> => UpTo(1) = 0
         /\ \A j \in 1..Len(active) : UpTo(j) \in Nat
         /\ \A j \in 2..Len(active) : UpTo(j) = UpTo(j - 1) + time[active[j]]
         /\ \A i, j \in 1..Len(active) : i <= j => UpTo(i) <= UpTo(j)
<1> DEFINE sum == Sums(active, time)
<1>1. /\ active # <<>> => sum[1] = 0
      /\ \A j \in 1..Len(active) : sum[j] \in Nat
      /\ \A j \in 2..Len(active) : sum[j] = sum[j - 1] + time[active[j]]
      /\ \A i, j \in 1..Len(active) : i <= j => sum[i] <= sum[j]
  <2> HIDE DEF sum
  <2>1. sum = Sums(active, time)
    BY DEF sum
  <2> QED BY <2>1, SumsFacts
<1>2. \A j : UpTo(j) = sum[j]
  BY UpToIsSums
<1> HIDE DEF sum
<1> QED BY <1>1, <1>2

\* The sums after a step are what satisfies their definition.
LEMMA UpToAre ==
  ASSUME active' \in Seq(Timers), time' \in [Timers -> Nat], NEW g,
         active' # <<>> => g[1] = 0,
         \A j \in 2..Len(active') : g[j] = g[j - 1] + time'[active'[j]]
  PROVE  \A j \in 1..Len(active') : UpTo(j)' = g[j]
<1> DEFINE ls == active'
           tm == time'
           sum == Sums(ls, tm)
           n == Len(ls)
<1>1. \A j : UpTo(j)' = sum[j]
  BY UpToIsSums
<1>2. /\ n \in 0..Len(ls) /\ (n >= 1 => g[1] = 0)
      /\ \A j \in 2..n : g[j] = g[j - 1] + tm[ls[j]]
  <2>1. Len(ls) \in Nat /\ (Len(ls) >= 1 => ls # <<>>)
    OBVIOUS
  <2> QED BY <2>1
<1>3. ls \in Seq(Timers) /\ tm \in [Timers -> Nat] /\ sum = Sums(ls, tm) /\ n = Len(ls)
  OBVIOUS
<1> HIDE DEF ls, tm, sum, n
<1>4. \A j \in 1..n : sum[j] = g[j]
  <2>1. n \in 0..Len(ls)
    BY <1>2
  <2>2. AddsUp(g, n, ls, tm)
    BY <1>2 DEF AddsUp
  <2> QED BY ONLY <1>3, <2>1, <2>2, SumsAre
<1> QED BY <1>1, <1>3, <1>4 DEF ls

---------------------------------------------------------------------------
(* The lists and the states of the timers.                                  *)

ListsInv ==
  /\ TypeOK
  /\ Distinct(active) /\ Distinct(fired)
  /\ \A t \in Timers : /\ state[t] = "ACTIVE" <=> t \in ToSet(active)
                       /\ state[t] = "FIRED" <=> t \in ToSet(fired)
                       /\ state[t] = "CALLBACK" => t = current
  /\ IF handler = "callback" THEN current \in Timers ELSE current = NoTimer /\ fired = <<>>

\* What becomes of the active list.
Joins(t) ==
  /\ active' \in Seq(Timers) /\ Distinct(active') /\ time' \in [Timers -> Nat]
  /\ Adds(active', active, t)

Leaves(t) ==
  /\ active' \in Seq(Timers) /\ Distinct(active') /\ time' \in [Timers -> Nat]
  /\ Drops(active', active, t)

LEMMA StartFirstLists ==
  ASSUME ListsInv, NEW t \in Timers, NEW ticks \in Nat, StartFirst(t, ticks)
  PROVE  /\ Joins(t)
         /\ Len(active') = 1 /\ active'[1] = t /\ DueAfter' = ticks /\ UpTo(1)' = 0
<1>1. active' = <<t>> /\ time' = [time EXCEPT ![t] = ticks] /\ active = <<>>
  BY DEF StartFirst
<1>2. /\ active' \in Seq(Timers) /\ Distinct(active') /\ time' \in [Timers -> Nat]
      /\ Len(active') = 1 /\ active'[1] = t /\ time'[t] = ticks
  BY <1>1 DEF ListsInv, TypeOK, Distinct
<1>3. Adds(active', active, t)
  BY <1>1 DEF ToSet, Adds
<1>4. UpTo(1)' = 0
  <2> DEFINE g == [j \in 1..1 |-> 0]
  <2>1. g[1] = 0 /\ \A j \in 2..1 : g[j] = g[j - 1] + time'[active'[j]]
    OBVIOUS
  <2> HIDE DEF g
  <2> QED BY <1>2, <2>1, UpToAre
<1> QED BY <1>1, <1>2, <1>3, <1>4 DEF Joins, DueAfter

LEMMA StartBeforeLists ==
  ASSUME ListsInv, NEW t \in Timers, t \notin ToSet(active), NEW ticks \in Nat,
         StartBefore(t, ticks)
  PROVE  /\ Joins(t)
         /\ Len(active') = Len(active) + 1 /\ active'[1] = t /\ DueAfter' = ticks
         /\ UpTo(1)' = 0
         /\ \A k \in 1..Len(active) : /\ active'[k + 1] = active[k]
                                      /\ UpTo(k + 1)' = hw.value - ticks + UpTo(k)
<1>1. /\ active' = <<t>> \o active /\ active # <<>> /\ hw.value > ticks
      /\ time' = [time EXCEPT ![active[1]] = hw.value - ticks, ![t] = ticks]
  BY DEF StartBefore
<1>2. /\ active \in Seq(Timers) /\ Len(active) \in Nat /\ time \in [Timers -> Nat]
      /\ hw.value \in Nat /\ Distinct(active) /\ active[1] \in Timers
      /\ \A k \in 1..Len(active) : active[k] # t /\ active[k] \in Timers
  <2>1. /\ active \in Seq(Timers) /\ Distinct(active) /\ time \in [Timers -> Nat]
        /\ hw.value \in Nat
    BY DEF ListsInv, TypeOK
  <2>2. \A k \in 1..Len(active) : active[k] # t
    BY <2>1, ElementsOf
  <2>3. Len(active) \in Nat /\ active[1] \in Timers
        /\ \A k \in 1..Len(active) : active[k] \in Timers
    BY <1>1, <2>1
  <2> QED BY <2>1, <2>2, <2>3
<1>3. /\ active' \in Seq(Timers) /\ Len(active') = Len(active) + 1 /\ active' # <<>>
      /\ active'[1] = t /\ \A k \in 2..Len(active) + 1 : active'[k] = active[k - 1]
      /\ Distinct(active') /\ Adds(active', active, t)
  <2> DEFINE q == active'
  <2>1. q = <<t>> \o active
    BY <1>1
  <2> HIDE DEF q
  <2>2. /\ q \in Seq(Timers) /\ Len(q) = Len(active) + 1 /\ q # <<>>
        /\ q[1] = t /\ \A k \in 2..Len(active) + 1 : q[k] = active[k - 1]
        /\ Distinct(q) /\ Adds(q, active, t)
    <3>1. active \in Seq(Timers) /\ Distinct(active)
      BY <1>2
    <3>2. /\ q \in Seq(Timers) /\ Len(q) = Len(active) + 1 /\ q # <<>>
          /\ q[1] = t /\ \A k \in 2..Len(active) + 1 : q[k] = active[k - 1]
      BY ONLY <2>1, <3>1, t \in Timers, t \notin ToSet(active), Prepended
    <3>3. Distinct(q) /\ Adds(q, active, t)
      BY ONLY <2>1, <3>1, t \in Timers, t \notin ToSet(active), Prepended
    <3> QED BY <3>2, <3>3
  <2> QED BY <2>2 DEF q
<1>4. time' \in [Timers -> Nat]
  <2>1. hw.value - ticks \in Nat
    BY <1>1, <1>2
  <2> QED BY <1>1, <1>2, <2>1
<1>5. /\ time'[t] = ticks
      /\ time'[active[1]] = hw.value - ticks
      /\ \A k \in 2..Len(active) : time'[active[k]] = time[active[k]]
  BY <1>1, <1>2 DEF Distinct
<1>6. /\ UpTo(1) = 0
      /\ \A j \in 1..Len(active) : UpTo(j) \in Nat
      /\ \A j \in 2..Len(active) : UpTo(j) = UpTo(j - 1) + time[active[j]]
  BY <1>1, <1>2, UpToFacts
<1> DEFINE g == [j \in 1..Len(active) + 1 |-> IF j = 1 THEN 0 ELSE hw.value - ticks + UpTo(j - 1)]
<1>7. g[1] = 0
  BY <1>2
<1>8. ASSUME NEW j \in 2..Len(active')
      PROVE  g[j] = g[j - 1] + time'[active'[j]]
  <2>1. /\ j - 1 \in 1..Len(active) /\ j \in 1..Len(active) + 1 /\ j # 1
        /\ active'[j] = active[j - 1]
        /\ g[j] = hw.value - ticks + UpTo(j - 1)
    BY <1>2, <1>3
  <2>2. CASE j = 2
    BY <1>2, <1>5, <1>6, <1>7, <2>1, <2>2
  <2>3. CASE j # 2
    <3>1. /\ j - 1 \in 2..Len(active) /\ j - 1 \in 1..Len(active) + 1 /\ j - 1 # 1
          /\ (j - 1) - 1 = j - 2 /\ j - 2 \in 1..Len(active)
      BY <2>1, <2>3
    <3>2. g[j - 1] = hw.value - ticks + UpTo(j - 2)
      BY <3>1
    <3>3. UpTo(j - 1) = UpTo(j - 2) + time[active[j - 1]] /\ time'[active'[j]] = time[active[j - 1]]
      BY <1>5, <1>6, <2>1, <3>1
    <3>4. UpTo(j - 2) \in Nat /\ time[active[j - 1]] \in Nat
      BY <1>2, <1>6, <2>1, <3>1
    <3> QED BY <1>2, <2>1, <3>1, <3>2, <3>3, <3>4, SMTT(30)
  <2> QED BY <2>2, <2>3
<1>9. \A j \in 1..Len(active') : UpTo(j)' = g[j]
  <2> HIDE DEF g
  <2> QED BY <1>3, <1>4, <1>7, <1>8, UpToAre
<1>10. ASSUME NEW k \in 1..Len(active)
       PROVE  active'[k + 1] = active[k] /\ UpTo(k + 1)' = hw.value - ticks + UpTo(k)
  <2>1. /\ k + 1 \in 2..Len(active) + 1 /\ k + 1 \in 1..Len(active') /\ (k + 1) - 1 = k
        /\ k + 1 \in 1..Len(active) + 1 /\ k + 1 # 1
    BY <1>2, <1>3
  <2>2. g[k + 1] = hw.value - ticks + UpTo(k)
    BY <2>1
  <2> QED BY <1>3, <1>9, <2>1, <2>2
<1>11. UpTo(1)' = 0
  BY <1>2, <1>3, <1>7, <1>9
<1> QED BY <1>3, <1>4, <1>5, <1>10, <1>11 DEF Joins, DueAfter

\* t waits at place `at`, `rest` ticks after the first timer.
WaitsAt(t, rest, at) ==
  /\ Len(active') = Len(active) + 1
  /\ \A k \in 1..at - 1 : active'[k] = active[k] /\ UpTo(k)' = UpTo(k)
  /\ active'[at] = t /\ UpTo(at)' = rest
  /\ \A k \in at..Len(active) : active'[k + 1] = active[k] /\ UpTo(k + 1)' = UpTo(k)

GoesBehind(t, rest) == \E at \in 2..Len(active) + 1 : WaitsAt(t, rest, at)

LEMMA StartBehindLists ==
  ASSUME ListsInv, NEW t \in Timers, t \notin ToSet(active), NEW ticks \in Nat,
         StartBehind(t, ticks)
  PROVE  /\ Joins(t) /\ GoesBehind(t, ticks - hw.value)
         /\ active'[1] = active[1] /\ DueAfter' = DueAfter
<1> DEFINE rest == ticks - hw.value
           after == {j \in 2..Len(active) : UpTo(j) >= rest}
           place == IF after = {} THEN Len(active) + 1 ELSE Min(after)
           delta == rest - UpTo(place - 1)
<1>1. /\ active # <<>> /\ hw.value <= ticks
      /\ active' = InsertAt(active, place, t)
      /\ time' = [u \in Timers |->
                    IF u = t THEN delta
                    ELSE IF after # {} /\ u = active[place] THEN time[u] - delta
                    ELSE time[u]]
  BY DEF StartBehind
<1>2. /\ active \in Seq(Timers) /\ Len(active) \in Nat \ {0} /\ time \in [Timers -> Nat]
      /\ Distinct(active) /\ rest \in Nat
      /\ \A k \in 1..Len(active) : active[k] # t /\ active[k] \in Timers
  <2>1. /\ active \in Seq(Timers) /\ Distinct(active) /\ time \in [Timers -> Nat]
        /\ hw.value \in Nat
    BY DEF ListsInv, TypeOK
  <2>2. \A k \in 1..Len(active) : active[k] # t
    BY <2>1, ElementsOf
  <2>3. Len(active) \in Nat \ {0} /\ rest \in Nat
        /\ \A k \in 1..Len(active) : active[k] \in Timers
    BY <1>1, <2>1
  <2> QED BY <2>1, <2>2, <2>3
<1> HIDE DEF rest
<1>3. /\ UpTo(1) = 0
      /\ \A j \in 1..Len(active) : UpTo(j) \in Nat
      /\ \A j \in 2..Len(active) : UpTo(j) = UpTo(j - 1) + time[active[j]]
  BY <1>1, <1>2, UpToFacts
<1>4. /\ place \in 2..Len(active) + 1 /\ UpTo(place - 1) <= rest
      /\ after # {} <=> place <= Len(active)
      /\ place <= Len(active) => UpTo(place) >= rest
  <2>1. CASE after = {}
    <3>1. place = Len(active) + 1 /\ place - 1 = Len(active)
      BY <1>2, <2>1
    <3>2. UpTo(Len(active)) <= rest
      <4>1. CASE Len(active) = 1
        BY <1>2, <1>3, <4>1
      <4>2. CASE Len(active) # 1
        <5>1. Len(active) \in 2..Len(active)
          <6>1. Len(active) \in Nat \ {0}
            BY <1>2
          <6>2. \A n \in Nat \ {0} : n # 1 => n \in 2..n
            OBVIOUS
          <6> QED BY <4>2, <6>1, <6>2, Zenon
        <5>3. Len(active) \notin after
          BY <2>1, Zenon
        <5>2. ~(UpTo(Len(active)) >= rest) /\ UpTo(Len(active)) \in Nat
          BY <1>2, <1>3, <5>1, <5>3
        <5> QED BY <1>2, <5>2
      <4> QED BY <4>1, <4>2
    <3> QED BY <1>2, <2>1, <3>1, <3>2
  <2>2. CASE after # {}
    <3>1. after \in SUBSET Nat
      OBVIOUS
    <3>2. Min(after) \in after /\ \A j \in after : Min(after) <= j
      <4> HIDE DEF after
      <4> QED BY <2>2, <3>1, MinOfPlaces
    <3>3. place \in after /\ \A j \in after : place <= j
      BY <2>2, <3>2
    <3>4. place \in 2..Len(active) /\ UpTo(place) >= rest /\ place - 1 \notin after
      <4>1. place \in 2..Len(active) /\ UpTo(place) >= rest
        <5> DEFINE a == place
        <5>1. a \in after
          BY <3>3
        <5> HIDE DEF a
        <5>2. a \in 2..Len(active) /\ UpTo(a) >= rest
          BY <5>1
        <5> QED BY <5>2 DEF a
      <4> HIDE DEF place, after
      <4> QED BY <3>3, <4>1
    <3>5. UpTo(place - 1) <= rest
      <4> DEFINE b == place - 1
      <4>1. b \in 1..Len(active) /\ b \notin after
        <5> HIDE DEF place, after
        <5> QED BY <1>2, <3>4
      <4> HIDE DEF b
      <4>2. ASSUME b = 1 PROVE UpTo(b) <= rest
        BY <1>2, <1>3, <4>2
      <4>3. ASSUME b # 1 PROVE UpTo(b) <= rest
        <5>1. b \in 2..Len(active)
          BY <1>2, <4>1, <4>3
        <5>2. ~(UpTo(b) >= rest) /\ UpTo(b) \in Nat
          BY <1>3, <4>1, <5>1
        <5> QED BY <1>2, <5>2
      <4>4. UpTo(b) <= rest
        BY <4>2, <4>3
      <4> QED BY <4>4 DEF b
    <3> HIDE DEF place, after
    <3> QED BY <1>2, <2>2, <3>4, <3>5
  <2> QED BY <2>1, <2>2
<1>40. PICK at : at = place
  OBVIOUS
<1>41. /\ at \in 2..Len(active) + 1 /\ UpTo(at - 1) <= rest
       /\ after # {} <=> at <= Len(active)
       /\ at <= Len(active) => UpTo(at) >= rest
       /\ delta = rest - UpTo(at - 1)
  <2> HIDE DEF place, after
  <2> QED BY <1>4, <1>40 DEF delta
<1>42. time' = [u \in Timers |->
                 IF u = t THEN delta
                 ELSE IF after # {} /\ u = active[at] THEN time[u] - delta
                 ELSE time[u]]
       /\ active' = InsertAt(active, at, t)
  <2> HIDE DEF place, after, delta
  <2> QED BY <1>1, <1>40, Zenon
<1> HIDE DEF place, after, delta
<1>5. /\ delta \in Nat /\ delta = rest - UpTo(at - 1)
      /\ at <= Len(active) => /\ time[active[at]] - delta = UpTo(at) - rest
                              /\ UpTo(at) - rest \in Nat
  <2>1. at - 1 \in 1..Len(active) /\ UpTo(at - 1) \in Nat
    BY <1>2, <1>3, <1>41
  <2>2. delta \in Nat
    BY <1>2, <1>41, <2>1
  <2>3. ASSUME at <= Len(active)
        PROVE  time[active[at]] - delta = UpTo(at) - rest /\ UpTo(at) - rest \in Nat
    <3>1. at \in 2..Len(active) /\ at \in 1..Len(active)
      BY <1>2, <1>41, <2>3
    <3>2. UpTo(at) = UpTo(at - 1) + time[active[at]] /\ UpTo(at) \in Nat
      BY <1>3, <3>1
    <3>3. time[active[at]] \in Nat
      BY <1>2, <3>1
    <3> QED BY <1>2, <1>41, <2>1, <2>3, <3>2, <3>3, SMTT(30)
  <2> QED BY <1>41, <2>2, <2>3
<1>6. time' = [u \in Timers |->
                 IF u = t THEN delta
                 ELSE IF at <= Len(active) /\ u = active[at] THEN time[u] - delta
                 ELSE time[u]]
  <2> QED BY <1>41, <1>42, Zenon
<1>7. at \in 1..Len(active) + 1
  <2> QED BY <1>2, <1>41
<1>8. \A u \in Timers : time'[u] = IF u = t THEN delta
                                   ELSE IF at <= Len(active) /\ u = active[at] THEN time[u] - delta
                                   ELSE time[u]
  BY <1>6
<1>9. time' \in [Timers -> Nat]
  <2>1. time' = [u \in Timers |-> time'[u]]
    BY <1>6
  <2>2. \A u \in Timers : time'[u] \in Nat
    BY <1>2, <1>5, <1>8
  <2> QED BY <2>1, <2>2
<1>10. /\ time'[t] = delta
       /\ at <= Len(active) => time'[active[at]] = UpTo(at) - rest
       /\ \A k \in 1..Len(active) : k # at => time'[active[k]] = time[active[k]]
  <2>1. time'[t] = delta
    BY <1>8
  <2>2. at <= Len(active) => time'[active[at]] = UpTo(at) - rest
    <3>1. at <= Len(active) => at \in 1..Len(active)
      BY <1>2, <1>7
    <3> QED BY <1>2, <1>5, <1>8, <3>1
  <2>3. ASSUME NEW k \in 1..Len(active), k # at
        PROVE  time'[active[k]] = time[active[k]]
    <3>1. at <= Len(active) => active[k] # active[at]
      BY <1>2, <1>7, <2>3 DEF Distinct
    <3> QED BY <1>2, <1>8, <3>1
  <2> QED BY <2>1, <2>2, <2>3
<1>11. /\ active' \in Seq(Timers) /\ Len(active') = Len(active) + 1
       /\ \A k \in 1..at - 1 : active'[k] = active[k]
       /\ active'[at] = t
       /\ \A k \in at + 1..Len(active) + 1 : active'[k] = active[k - 1]
       /\ Distinct(active') /\ Adds(active', active, t)
  <2> DEFINE q == active'
  <2>1. q = InsertAt(active, at, t)
    BY <1>42
  <2>2. active \in Seq(Timers) /\ Distinct(active)
    BY <1>2
  <2> HIDE DEF q
  <2>3. /\ q \in Seq(Timers) /\ Len(q) = Len(active) + 1
        /\ \A k \in 1..at - 1 : q[k] = active[k]
        /\ q[at] = t
        /\ \A k \in at + 1..Len(active) + 1 : q[k] = active[k - 1]
    BY ONLY <1>7, <2>1, <2>2, t \in Timers, Inserted, SMTT(30)
  <2>4. Distinct(q) /\ Adds(q, active, t)
    BY ONLY <1>7, <2>1, <2>2, t \in Timers, t \notin ToSet(active), InsertedInto
  <2> QED BY <2>3, <2>4 DEF q
<1> DEFINE g == [j \in 1..Len(active) + 1 |-> IF j < at THEN UpTo(j)
                                              ELSE IF j = at THEN rest ELSE UpTo(j - 1)]
<1>12. \A j \in 1..Len(active) + 1 : g[j] = IF j < at THEN UpTo(j)
                                            ELSE IF j = at THEN rest ELSE UpTo(j - 1)
  OBVIOUS
<1>13. g[1] = 0
  BY <1>2, <1>3, <1>41
<1> HIDE DEF g
<1>14. ASSUME NEW j \in 2..Len(active')
       PROVE  g[j] = g[j - 1] + time'[active'[j]]
  <2>1. /\ j \in 2..Len(active) + 1 /\ j \in 1..Len(active) + 1
        /\ j - 1 \in 1..Len(active) + 1 /\ j - 1 \in 1..Len(active)
    BY <1>2, <1>11
  <2>2. UpTo(j - 1) \in Nat
    BY <1>3, <2>1
  <2>3. CASE j < at
    <3>1. j \in 1..at - 1 /\ j \in 2..Len(active) /\ j \in 1..Len(active) /\ j # at
      BY <1>2, <1>41, <2>1, <2>3
    <3>2. g[j] = UpTo(j) /\ g[j - 1] = UpTo(j - 1)
      <4>1. j - 1 < at
        BY <1>41, <2>1, <2>3
      <4> QED BY <1>12, <2>1, <2>3, <4>1
    <3>3. time'[active'[j]] = time[active[j]]
      BY <1>10, <1>11, <3>1
    <3> QED BY <1>3, <3>1, <3>2, <3>3
  <2>4. CASE j = at
    <3>1. g[j] = rest /\ g[j - 1] = UpTo(j - 1)
      BY <1>12, <2>1, <2>4
    <3>2. time'[active'[j]] = delta
      BY <1>10, <1>11, <2>4
    <3> QED BY <1>2, <1>5, <2>2, <2>4, <3>1, <3>2
  <2>5. CASE j = at + 1
    <3>1. g[j] = UpTo(at) /\ g[j - 1] = rest
      BY <1>41, <1>12, <2>1, <2>5
    <3>2. at <= Len(active) /\ j \in at + 1..Len(active) + 1
      BY <1>2, <1>41, <2>1, <2>5
    <3>3. active'[j] = active[at]
      BY <1>41, <1>11, <2>5, <3>2
    <3>4. time'[active'[j]] = UpTo(at) - rest
      BY <1>10, <3>2, <3>3
    <3>5. UpTo(at) \in Nat
      BY <1>2, <1>3, <1>7, <3>2
    <3> QED BY <1>2, <3>1, <3>4, <3>5
  <2>6. CASE j > at + 1
    <3>1. /\ j - 1 \in 2..Len(active) /\ j - 1 # at /\ j \in at + 1..Len(active) + 1
          /\ ~(j < at) /\ j # at /\ ~(j - 1 < at)
      BY <1>2, <1>41, <2>1, <2>6
    <3>2. g[j] = UpTo(j - 1) /\ g[j - 1] = UpTo((j - 1) - 1)
      BY <1>12, <2>1, <3>1
    <3>3. time'[active'[j]] = time[active[j - 1]]
      BY <1>10, <1>11, <2>1, <3>1
    <3> QED BY <1>3, <3>1, <3>2, <3>3
  <2> QED BY <1>41, <2>1, <2>3, <2>4, <2>5, <2>6
<1>15. \A j \in 1..Len(active') : UpTo(j)' = g[j]
  BY <1>9, <1>11, <1>13, <1>14, UpToAre
<1>16. WaitsAt(t, rest, at)
  <2>1. ASSUME NEW k \in 1..at - 1
        PROVE  active'[k] = active[k] /\ UpTo(k)' = UpTo(k)
    <3>1. k \in 1..Len(active) + 1 /\ k \in 1..Len(active') /\ k < at
      BY <1>2, <1>41, <1>11
    <3>2. g[k] = UpTo(k)
      BY <1>12, <3>1
    <3> QED BY <1>11, <1>15, <3>1, <3>2
  <2>2. active'[at] = t /\ UpTo(at)' = rest
    <3>1. at \in 1..Len(active') /\ ~(at < at)
      BY <1>2, <1>41, <1>11
    <3>2. g[at] = rest
      BY <1>7, <1>12, <3>1
    <3> QED BY <1>11, <1>15, <3>1, <3>2
  <2>3. ASSUME NEW k \in at..Len(active)
        PROVE  active'[k + 1] = active[k] /\ UpTo(k + 1)' = UpTo(k)
    <3>1. /\ k + 1 \in at + 1..Len(active) + 1 /\ k + 1 \in 1..Len(active) + 1 /\ (k + 1) - 1 = k
          /\ ~(k + 1 < at) /\ k + 1 # at
      BY <1>2, <1>41
    <3> QED BY <1>11, <1>12, <1>15, <3>1
  <2> QED BY <1>11, <2>1, <2>2, <2>3 DEF WaitsAt
<1>17. active'[1] = active[1] /\ DueAfter' = DueAfter
  <2>1. 1 \in 1..at - 1 /\ 1 \in 1..Len(active) /\ 1 # at
    BY <1>2, <1>41
  <2>2. active'[1] = active[1]
    BY <1>11, <2>1
  <2>3. time'[active[1]] = time[active[1]]
    BY <1>10, <2>1
  <2>4. active' # <<>>
    BY <1>2, <1>11
  <2> QED BY <1>1, <2>2, <2>3, <2>4 DEF DueAfter
<1>18. Joins(t)
  BY <1>9, <1>11 DEF Joins
<1>19. GoesBehind(t, rest)
  BY <1>41, <1>16 DEF GoesBehind
<1> QED BY <1>17, <1>18, <1>19 DEF rest

\* What the lists of a state are, for the actions that take from them.
LEMMA ActiveFacts ==
  ASSUME ListsInv
  PROVE  /\ active \in Seq(Timers) /\ fired \in Seq(Timers) /\ Len(active) \in Nat
         /\ time \in [Timers -> Nat] /\ state \in [Timers -> States]
         /\ hw.value \in Nat /\ hw.elapsed \in Nat /\ hw \in HwStates
         /\ Distinct(active) /\ Distinct(fired)
         /\ \A k \in 1..Len(active) : active[k] \in Timers
         /\ active # <<>> => Len(active) \in Nat \ {0} /\ active[1] \in Timers
         /\ DueAfter \in Nat /\ Overrun \in Nat
<1>1. /\ active \in Seq(Timers) /\ fired \in Seq(Timers) /\ time \in [Timers -> Nat]
      /\ state \in [Timers -> States] /\ hw \in HwStates
      /\ Distinct(active) /\ Distinct(fired)
  BY DEF ListsInv, TypeOK, HwStates
<1>2. hw.value \in Nat /\ hw.elapsed \in Nat
  BY <1>1 DEF HwStates
<1>3. /\ Len(active) \in Nat /\ \A k \in 1..Len(active) : active[k] \in Timers
      /\ active # <<>> => Len(active) \in Nat \ {0} /\ active[1] \in Timers
  BY <1>1
<1>4. DueAfter \in Nat /\ Overrun \in Nat
  BY <1>1, <1>2, <1>3 DEF DueAfter, Overrun, Max2
<1> QED BY <1>1, <1>2, <1>3, <1>4

LEMMA SpentIs ==
  ASSUME ListsInv, active # <<>>, NEW over \in Nat, NEW y, y = Spent(over)
  PROVE  /\ y \in [Timers -> Nat]
         /\ \A j \in 2..Len(active) : y[active[j]] = Max2(UpTo(j), over) - Max2(UpTo(j - 1), over)
<1>1. /\ active \in Seq(Timers) /\ Len(active) \in Nat \ {0} /\ time \in [Timers -> Nat]
      /\ Distinct(active) /\ \A k \in 1..Len(active) : active[k] \in Timers
  BY ActiveFacts
<1>2. /\ \A j \in 1..Len(active) : UpTo(j) \in Nat
      /\ \A i, j \in 1..Len(active) : i <= j => UpTo(i) <= UpTo(j)
  BY <1>1, UpToFacts
<1> DEFINE d(j) == Max2(UpTo(j), over) - Max2(UpTo(j - 1), over)
<1>3. ASSUME NEW j \in 2..Len(active)
      PROVE  d(j) \in Nat
  <2>1. j \in 1..Len(active) /\ j - 1 \in 1..Len(active) /\ j - 1 <= j
    BY <1>1
  <2>2. UpTo(j) \in Nat /\ UpTo(j - 1) \in Nat /\ UpTo(j - 1) <= UpTo(j)
    BY <1>2, <2>1
  <2> QED BY <2>2 DEF Max2
<1>4. y = [t \in Timers |->
             IF \E j \in 2..Len(active) : active[j] = t
             THEN d(CHOOSE i \in 2..Len(active) : active[i] = t)
             ELSE IF t = active[1] THEN 0 ELSE time[t]]
  BY DEF Spent
<1> HIDE DEF d
<1>5. ASSUME NEW t \in Timers
      PROVE  y[t] \in Nat
  <2>1. CASE \E j \in 2..Len(active) : active[j] = t
    BY <1>3, <1>4, <2>1
  <2>2. CASE ~\E j \in 2..Len(active) : active[j] = t
    BY <1>1, <1>4, <2>2
  <2> QED BY <2>1, <2>2
<1>6. ASSUME NEW j \in 2..Len(active)
      PROVE  y[active[j]] = d(j)
  <2> DEFINE c == CHOOSE i \in 2..Len(active) : active[i] = active[j]
  <2>1. c \in 2..Len(active) /\ active[c] = active[j]
    OBVIOUS
  <2>2. y[active[j]] = d(c)
    <3>1. active[j] \in Timers
      BY <1>1
    <3> QED BY <1>4, <3>1
  <2> HIDE DEF c
  <2>3. c = j
    BY <1>1, <2>1 DEF Distinct
  <2> QED BY <2>2, <2>3
<1>7. y \in [Timers -> Nat]
  <2>1. y = [t \in Timers |-> y[t]]
    BY <1>4
  <2> QED BY <1>5, <2>1
<1> QED BY <1>6, <1>7 DEF d

\* How long the timer at place j waits after the first one is stopped.
AfterStop(j) ==
  IF hw.value = 0 THEN Max2(UpTo(j), Overrun) - Overrun ELSE UpTo(j) + hw.value

LEMMA StopFirstLists ==
  ASSUME ListsInv, NEW t \in Timers, StopFirst(t)
  PROVE  /\ Leaves(t) /\ Len(active') = Len(active) - 1
         /\ active' # <<>> => UpTo(1)' = 0
         /\ \A k \in 1..Len(active') :
              active'[k] = active[k + 1] /\ DueAfter' + UpTo(k)' = AfterStop(k + 1)
<1>1. /\ active # <<>> /\ t = active[1] /\ active' = Tail(active)
      /\ time' = IF hw.value = 0 THEN Spent(Overrun)
                 ELSE [u \in Timers |->
                         IF u = t THEN 0
                         ELSE IF Len(active) > 1 /\ u = active[2] THEN time[u] + hw.value
                         ELSE time[u]]
  BY DEF StopFirst
<1>2. /\ active \in Seq(Timers) /\ Len(active) \in Nat \ {0} /\ time \in [Timers -> Nat]
      /\ hw.value \in Nat /\ Overrun \in Nat /\ Distinct(active)
      /\ \A k \in 1..Len(active) : active[k] \in Timers
  BY <1>1, ActiveFacts
<1>3. /\ UpTo(1) = 0
      /\ \A j \in 1..Len(active) : UpTo(j) \in Nat
      /\ \A j \in 2..Len(active) : UpTo(j) = UpTo(j - 1) + time[active[j]]
  BY <1>1, <1>2, UpToFacts
<1>4. /\ active' \in Seq(Timers) /\ Len(active') = Len(active) - 1
      /\ \A k \in 1..Len(active') : active'[k] = active[k + 1]
      /\ Distinct(active') /\ Drops(active', active, t)
  <2> DEFINE q == active'
  <2>1. q = Tail(active) /\ active # <<>> /\ t = active[1]
    BY <1>1
  <2>2. active \in Seq(Timers) /\ Distinct(active)
    BY <1>2
  <2> HIDE DEF q
  <2>3. q \in Seq(Timers) /\ Len(q) = Len(active) - 1 /\ \A k \in 1..Len(q) : q[k] = active[k + 1]
    BY ONLY <2>1, <2>2, TailOf
  <2>4. Distinct(q) /\ Drops(q, active, t)
    BY ONLY <2>1, <2>2, TailOf
  <2> QED BY <2>3, <2>4 DEF q
\* How far from each other the timers are; for the second one, from now.
<1> DEFINE e(j) == IF hw.value = 0 THEN Max2(UpTo(j), Overrun)
                   ELSE IF j = 1 THEN 0 ELSE UpTo(j) + hw.value
           b == IF hw.value = 0 THEN Overrun ELSE 0
<1>5. /\ time' \in [Timers -> Nat]
      /\ \A j \in 2..Len(active) : time'[active[j]] = e(j) - e(j - 1)
  <2>1. CASE hw.value = 0
    <3> DEFINE y == time'
    <3>1. y = Spent(Overrun) /\ active # <<>> /\ Overrun \in Nat
      BY <1>1, <1>2, <2>1
    <3> HIDE DEF y
    <3>2. y \in [Timers -> Nat]
      BY <3>1, SpentIs
    <3>3. \A j \in 2..Len(active) : y[active[j]] = Max2(UpTo(j), Overrun) - Max2(UpTo(j - 1), Overrun)
      BY <3>1, SpentIs
    <3> QED BY <2>1, <3>2, <3>3 DEF y
  <2>2. CASE hw.value # 0
    <3>1. time' = [u \in Timers |->
                     IF u = t THEN 0
                     ELSE IF Len(active) > 1 /\ u = active[2] THEN time[u] + hw.value
                     ELSE time[u]]
      BY <1>1, <2>2
    <3>2. time' \in [Timers -> Nat]
      BY <1>2, <3>1
    <3>3. ASSUME NEW j \in 2..Len(active)
          PROVE  time'[active[j]] = e(j) - e(j - 1)
      <4>1. /\ j \in 1..Len(active) /\ j - 1 \in 1..Len(active) /\ Len(active) > 1
            /\ 1 \in 1..Len(active) /\ 2 \in 1..Len(active)
        BY <1>2
      <4>2. active[j] # t /\ (active[j] = active[2] <=> j = 2)
        BY <1>1, <1>2, <4>1 DEF Distinct
      <4>3. time'[active[j]] = IF j = 2 THEN time[active[j]] + hw.value ELSE time[active[j]]
        BY <1>2, <3>1, <4>1, <4>2
      <4>4. /\ UpTo(j) = UpTo(j - 1) + time[active[j]] /\ UpTo(j) \in Nat /\ UpTo(j - 1) \in Nat
            /\ time[active[j]] \in Nat
        BY <1>2, <1>3, <4>1
      <4>5. CASE j = 2
        <5>1. e(j) = UpTo(j) + hw.value /\ e(j - 1) = 0 /\ UpTo(j - 1) = 0
          BY <1>3, <2>2, <4>5
        <5> HIDE DEF e
        <5> QED BY <1>2, <4>3, <4>4, <4>5, <5>1
      <4>6. CASE j # 2
        <5>1. e(j) = UpTo(j) + hw.value /\ e(j - 1) = UpTo(j - 1) + hw.value
          BY <2>2, <4>1, <4>6
        <5> HIDE DEF e
        <5> QED BY <1>2, <4>3, <4>4, <4>6, <5>1
      <4> QED BY <4>5, <4>6
    <3> QED BY <3>2, <3>3
  <2> QED BY <2>1, <2>2
<1>6. /\ \A j \in 1..Len(active) : e(j) \in Nat
      /\ b \in Nat /\ e(1) = b
      /\ \A j \in 2..Len(active) : e(j) - b = AfterStop(j)
  <2>1. \A j \in 1..Len(active) : e(j) \in Nat
    BY <1>2, <1>3 DEF Max2
  <2>2. b \in Nat /\ e(1) = b
    BY <1>2, <1>3 DEF Max2
  <2>3. ASSUME NEW j \in 2..Len(active)
        PROVE  e(j) - b = AfterStop(j)
    <3>1. j \in 1..Len(active) /\ j # 1
      BY <1>2
    <3>2. UpTo(j) \in Nat
      BY <1>3, <3>1
    <3> QED BY <1>2, <3>1, <3>2 DEF AfterStop
  <2> QED BY <2>1, <2>2, <2>3
<1> HIDE DEF e, b
<1> DEFINE g == [k \in 1..Len(active) |-> e(k + 1) - e(2)]
<1>7. \A k \in 1..Len(active) : g[k] = e(k + 1) - e(2)
  OBVIOUS
<1> HIDE DEF g
<1>8. active' # <<>> => Len(active) >= 2 /\ g[1] = 0
  <2> SUFFICES ASSUME active' # <<>> PROVE Len(active) >= 2 /\ g[1] = 0
    OBVIOUS
  <2>1. Len(active) >= 2
    BY <1>2, <1>4
  <2>2. g[1] = e(2) - e(2) /\ e(2) \in Nat
    BY <1>2, <1>6, <1>7, <2>1
  <2> QED BY <2>1, <2>2
<1>9. ASSUME NEW k \in 2..Len(active')
      PROVE  g[k] = g[k - 1] + time'[active'[k]]
  <2>1. /\ k \in 1..Len(active') /\ k \in 1..Len(active) /\ k - 1 \in 1..Len(active)
        /\ k + 1 \in 2..Len(active) /\ (k + 1) - 1 = k /\ (k - 1) + 1 = k
        /\ k + 1 \in 1..Len(active) /\ 2 \in 1..Len(active)
    BY <1>2, <1>4
  <2>2. g[k] = e(k + 1) - e(2) /\ g[k - 1] = e(k) - e(2)
    BY <1>7, <2>1
  <2>3. time'[active'[k]] = e(k + 1) - e(k)
    BY <1>4, <1>5, <2>1
  <2>4. e(k + 1) \in Nat /\ e(k) \in Nat /\ e(2) \in Nat
    BY <1>6, <2>1
  <2> QED BY <2>2, <2>3, <2>4
<1>10. \A k \in 1..Len(active') : UpTo(k)' = g[k]
  BY <1>4, <1>5, <1>8, <1>9, UpToAre
<1>11. active' # <<>> => UpTo(1)' = 0
  <2>1. active' # <<>> => 1 \in 1..Len(active')
    BY <1>4
  <2> QED BY <1>8, <1>10, <2>1
<1>12. ASSUME NEW k \in 1..Len(active')
       PROVE  DueAfter' + UpTo(k)' = AfterStop(k + 1)
  <2>1. /\ k \in 1..Len(active) /\ k + 1 \in 2..Len(active) /\ k + 1 \in 1..Len(active)
        /\ 1 \in 1..Len(active') /\ 2 \in 2..Len(active) /\ 2 \in 1..Len(active)
        /\ active' # <<>>
    BY <1>2, <1>4
  <2>2. DueAfter' = e(2) - b
    <3>1. DueAfter' = time'[active'[1]]
      BY <2>1 DEF DueAfter
    <3>2. active'[1] = active[2] /\ 2 - 1 = 1
      BY <1>4, <2>1
    <3> QED BY <1>5, <1>6, <2>1, <3>1, <3>2
  <2>3. UpTo(k)' = e(k + 1) - e(2)
    BY <1>7, <1>10, <2>1
  <2>4. e(k + 1) \in Nat /\ e(2) \in Nat /\ b \in Nat /\ e(k + 1) - b = AfterStop(k + 1)
    BY <1>6, <2>1
  <2> QED BY <2>2, <2>3, <2>4
<1>13. Leaves(t)
  BY <1>4, <1>5 DEF Leaves
<1> QED BY <1>4, <1>11, <1>12, <1>13

\* The timer at place j is gone, the ones behind it wait as long as before.
GoneFrom(j) ==
  /\ Len(active') = Len(active) - 1
  /\ \A k \in 1..j - 1 : active'[k] = active[k] /\ UpTo(k)' = UpTo(k)
  /\ \A k \in j..Len(active) - 1 : active'[k] = active[k + 1] /\ UpTo(k)' = UpTo(k + 1)

ClosesGap == \E j \in 2..Len(active) : GoneFrom(j)

\* A list without the timer at one place.
IsWithout(r, q, j) ==
  /\ r \in Seq(Timers) /\ Len(r) = Len(q) - 1
  /\ \A k \in 1..j - 1 : r[k] = q[k]
  /\ \A k \in j..Len(q) - 1 : r[k] = q[k + 1]

LEMMA TakenOut ==
  ASSUME NEW q \in Seq(Timers), NEW j \in 1..Len(q), NEW r, r = RemoveAt(q, j)
  PROVE  IsWithout(r, q, j)
BY Removed DEF IsWithout

LEMMA StopBehindLists ==
  ASSUME ListsInv, NEW t \in Timers, StopBehind(t)
  PROVE  /\ Leaves(t) /\ ClosesGap
         /\ active # <<>> /\ active' # <<>> /\ active'[1] = active[1] /\ DueAfter' = DueAfter
<1>1. PICK j \in 2..Len(active) :
        /\ active[j] = t
        /\ time' = [u \in Timers |->
                      IF u = t THEN 0
                      ELSE IF j < Len(active) /\ u = active[j + 1] THEN time[u] + time[t]
                      ELSE time[u]]
        /\ active' = RemoveAt(active, j)
  BY DEF StopBehind
<1>2. /\ active \in Seq(Timers) /\ Len(active) \in Nat \ {0, 1} /\ time \in [Timers -> Nat]
      /\ Distinct(active) /\ active # <<>>
      /\ \A k \in 1..Len(active) : active[k] \in Timers
  <2>1. /\ active \in Seq(Timers) /\ Len(active) \in Nat /\ time \in [Timers -> Nat]
        /\ Distinct(active) /\ \A k \in 1..Len(active) : active[k] \in Timers
    BY ActiveFacts
  <2>2. Len(active) \in Nat \ {0, 1}
    BY <2>1
  <2>3. active # <<>>
    BY <2>1, <2>2
  <2> QED BY <2>1, <2>2, <2>3
<1>3. /\ UpTo(1) = 0
      /\ \A i \in 1..Len(active) : UpTo(i) \in Nat
      /\ \A i \in 2..Len(active) : UpTo(i) = UpTo(i - 1) + time[active[i]]
  BY <1>2, UpToFacts
<1>4. j \in 1..Len(active)
  BY <1>2
<1>5. /\ active' \in Seq(Timers) /\ Len(active') = Len(active) - 1
      /\ \A k \in 1..j - 1 : active'[k] = active[k]
      /\ \A k \in j..Len(active) - 1 : active'[k] = active[k + 1]
      /\ Distinct(active') /\ Drops(active', active, t)
  <2> DEFINE q == active'
  <2>1. q = RemoveAt(active, j) /\ t = active[j]
    BY <1>1
  <2>2. active \in Seq(Timers) /\ Distinct(active)
    BY <1>2
  <2> HIDE DEF q
  <2>3. /\ q \in Seq(Timers) /\ Len(q) = Len(active) - 1
        /\ \A k \in 1..j - 1 : q[k] = active[k]
        /\ \A k \in j..Len(active) - 1 : q[k] = active[k + 1]
    <3>1. IsWithout(q, active, j)
      BY <1>4, <2>1, <2>2, TakenOut, Zenon
    <3> QED BY <3>1 DEF IsWithout
  <2>4. Distinct(q) /\ Drops(q, active, t)
    BY ONLY <1>4, <2>1, <2>2, RemovedFrom
  <2> QED BY <2>3, <2>4 DEF q
<1>6. /\ time' \in [Timers -> Nat]
      /\ j < Len(active) => time'[active[j + 1]] = time[active[j + 1]] + time[active[j]]
      /\ \A k \in 1..Len(active) : k # j /\ k # j + 1 => time'[active[k]] = time[active[k]]
  <2>1. time' \in [Timers -> Nat]
    BY <1>1, <1>2
  <2>2. ASSUME NEW k \in 1..Len(active), k # j
        PROVE  time'[active[k]] = IF k = j + 1 THEN time[active[k]] + time[t] ELSE time[active[k]]
    <3>1. active[k] # t /\ active[k] \in Timers
      BY <1>1, <1>2, <1>4, <2>2 DEF Distinct
    <3>2. ASSUME j < Len(active) PROVE j + 1 \in 1..Len(active)
      BY <1>2, <3>2
    <3>3. j < Len(active) => (active[k] = active[j + 1] <=> k = j + 1)
      BY <1>2, <3>2 DEF Distinct
    <3>4. k = j + 1 => j < Len(active)
      BY <1>2
    <3> QED BY <1>1, <3>1, <3>3, <3>4
  <2>3. ASSUME j < Len(active)
        PROVE  time'[active[j + 1]] = time[active[j + 1]] + time[active[j]]
    <3>1. j + 1 \in 1..Len(active) /\ j + 1 # j
      BY <1>2, <2>3
    <3> QED BY <1>1, <2>2, <3>1
  <2> QED BY <2>1, <2>2, <2>3
<1> DEFINE g == [k \in 1..Len(active) |-> IF k < j THEN UpTo(k) ELSE UpTo(k + 1)]
<1>7. \A k \in 1..Len(active) : g[k] = IF k < j THEN UpTo(k) ELSE UpTo(k + 1)
  OBVIOUS
<1> HIDE DEF g
<1>8. g[1] = 0
  BY <1>2, <1>3, <1>7, SMTT(30)
<1>9. ASSUME NEW k \in 2..Len(active')
      PROVE  g[k] = g[k - 1] + time'[active'[k]]
  <2>1. /\ k \in 1..Len(active) /\ k - 1 \in 1..Len(active) /\ k + 1 \in 1..Len(active)
        /\ k \in 2..Len(active) /\ k + 1 \in 2..Len(active) /\ (k - 1) + 1 = k /\ (k + 1) - 1 = k
    BY <1>2, <1>5
  <2>2. /\ UpTo(k) = UpTo(k - 1) + time[active[k]] /\ UpTo(k + 1) = UpTo(k) + time[active[k + 1]]
        /\ UpTo(k - 1) \in Nat /\ UpTo(k) \in Nat
        /\ time[active[k]] \in Nat /\ time[active[k + 1]] \in Nat
    BY <1>2, <1>3, <2>1
  <2>3. CASE k < j
    <3>1. k \in 1..j - 1 /\ k - 1 < j /\ k # j /\ k # j + 1
      BY <2>1, <2>3
    <3>2. g[k] = UpTo(k) /\ g[k - 1] = UpTo(k - 1)
      BY <1>7, <2>1, <2>3, <3>1
    <3>3. time'[active'[k]] = time[active[k]]
      <4>1. active'[k] = active[k]
        BY <1>5, <3>1
      <4>2. time'[active[k]] = time[active[k]]
        BY <1>6, <2>1, <3>1
      <4> QED BY <4>1, <4>2
    <3> QED BY <2>2, <3>2, <3>3
  <2>4. CASE k = j
    <3>1. k \in j..Len(active) - 1 /\ k - 1 < j /\ ~(k < j) /\ j < Len(active)
      BY <1>2, <1>5, <2>1, <2>4
    <3>2. g[k] = UpTo(k + 1) /\ g[k - 1] = UpTo(k - 1)
      BY <1>7, <2>1, <3>1
    <3>3. time'[active'[k]] = time[active[k + 1]] + time[active[k]]
      BY <1>5, <1>6, <2>4, <3>1
    <3> QED BY <2>2, <3>2, <3>3
  <2>5. CASE k > j
    <3>1. k \in j..Len(active) - 1 /\ ~(k - 1 < j) /\ ~(k < j) /\ k + 1 # j /\ k + 1 # j + 1
      BY <1>2, <1>5, <2>1, <2>5
    <3>2. g[k] = UpTo(k + 1) /\ g[k - 1] = UpTo(k)
      BY <1>7, <2>1, <3>1
    <3>3. time'[active'[k]] = time[active[k + 1]]
      BY <1>5, <1>6, <2>1, <3>1
    <3> QED BY <2>2, <3>2, <3>3
  <2> QED BY <2>1, <2>3, <2>4, <2>5
<1>10. \A k \in 1..Len(active') : UpTo(k)' = g[k]
  BY <1>5, <1>6, <1>8, <1>9, UpToAre
<1>11. GoneFrom(j)
  <2>1. ASSUME NEW k \in 1..j - 1
        PROVE  UpTo(k)' = UpTo(k)
    <3>1. k \in 1..Len(active) /\ k \in 1..Len(active') /\ k < j
      BY <1>2, <1>5
    <3> QED BY <1>7, <1>10, <3>1
  <2>2. ASSUME NEW k \in j..Len(active) - 1
        PROVE  UpTo(k)' = UpTo(k + 1)
    <3>1. k \in 1..Len(active) /\ k \in 1..Len(active') /\ ~(k < j)
      BY <1>2, <1>5
    <3> QED BY <1>7, <1>10, <3>1
  <2> QED BY <1>5, <2>1, <2>2 DEF GoneFrom
<1>12. active' # <<>> /\ active'[1] = active[1] /\ DueAfter' = DueAfter
  <2>1. 1 \in 1..j - 1 /\ 1 # j /\ 1 # j + 1 /\ 1 \in 1..Len(active)
    BY <1>2
  <2>2. active' # <<>> /\ active'[1] = active[1] /\ time'[active[1]] = time[active[1]]
    BY <1>2, <1>5, <1>6, <2>1
  <2> QED BY <1>2, <2>2 DEF DueAfter
<1>13. Leaves(t)
  BY <1>5, <1>6 DEF Leaves
<1>14. ClosesGap
  BY <1>11 DEF ClosesGap
<1> QED BY <1>2, <1>12, <1>13, <1>14

\* The first n timers are due, the others wait for what the overrun leaves of them.
FiresTo(n) ==
  /\ \A k \in 1..n : /\ UpTo(k) <= Overrun
                     /\ state'[active[k]] = IF k = 1 THEN "CALLBACK" ELSE "FIRED"
  /\ Len(fired') = n - 1 /\ \A k \in 1..n - 1 : fired'[k] = active[k + 1]
  /\ current' = active[1]
  /\ Len(active') = Len(active) - n
  /\ \A k \in 1..Len(active') : /\ active'[k] = active[n + k]
                                /\ UpTo(n + k) > Overrun
                                /\ DueAfter' + UpTo(k)' = UpTo(n + k) - Overrun
  /\ \A t \in Timers : (\A k \in 1..n : active[k] # t) => state'[t] = state[t]

Fires == \E n \in 1..Len(active) : FiresTo(n)

LEMMA HandlerFiresLists ==
  ASSUME ListsInv, HandlerFires
  PROVE  /\ active' \in Seq(Timers) /\ Distinct(active')
         /\ fired' \in Seq(Timers) /\ Distinct(fired')
         /\ time' \in [Timers -> Nat]
         /\ active # <<>> /\ (active' # <<>> => UpTo(1)' = 0)
         /\ Fires
<1> DEFINE m == Max(Reached(Overrun))
<1>1. /\ active # <<>>
      /\ active' = SubSeq(active, m + 1, Len(active))
      /\ fired' = Tail(SubSeq(active, 1, m))
      /\ current' = SubSeq(active, 1, m)[1]
      /\ time' = Spent(Overrun)
      /\ state' = [t \in Timers |-> IF t = SubSeq(active, 1, m)[1] THEN "CALLBACK"
                                    ELSE IF t \in ToSet(SubSeq(active, 1, m)) THEN "FIRED"
                                    ELSE state[t]]
  BY DEF HandlerFires, Early
<1>2. /\ active \in Seq(Timers) /\ Len(active) \in Nat \ {0} /\ time \in [Timers -> Nat]
      /\ Overrun \in Nat /\ Distinct(active) /\ state \in [Timers -> States]
      /\ \A k \in 1..Len(active) : active[k] \in Timers
  BY <1>1, ActiveFacts
<1>3. /\ UpTo(1) = 0
      /\ \A j \in 1..Len(active) : UpTo(j) \in Nat
      /\ \A j \in 2..Len(active) : UpTo(j) = UpTo(j - 1) + time[active[j]]
      /\ \A i, j \in 1..Len(active) : i <= j => UpTo(i) <= UpTo(j)
  BY <1>1, <1>2, UpToFacts
<1>4. m \in Reached(Overrun) /\ \A j \in Reached(Overrun) : j <= m
  <2> DEFINE I == Reached(Overrun)
  <2>1. I \in SUBSET (1..Len(active)) /\ I # {}
    BY <1>2 DEF Reached
  <2>2. Len(active) \in Nat
    BY <1>2
  <2> HIDE DEF I
  <2>3. Max(I) \in I /\ \A j \in I : j <= Max(I)
    BY ONLY <2>1, <2>2, MaxOfPlaces
  <2> QED BY <2>3 DEF I
<1>5. PICK n : n = m
  OBVIOUS
<1>6. /\ n \in 1..Len(active)
      /\ \A j \in 1..n : UpTo(j) <= Overrun
      /\ \A j \in n + 1..Len(active) : UpTo(j) > Overrun
  <2> HIDE DEF m
  <2>1. n \in Reached(Overrun) /\ \A j \in Reached(Overrun) : j <= n
    BY <1>4, <1>5
  <2>2. n \in 1..Len(active) /\ UpTo(n) <= Overrun
    BY <1>2, <1>3, <2>1 DEF Reached
  <2>3. ASSUME NEW j \in 1..n
        PROVE  UpTo(j) <= Overrun
    <3>1. j \in 1..Len(active) /\ j <= n
      BY <1>2, <2>2
    <3>2. UpTo(j) <= UpTo(n) /\ UpTo(j) \in Nat /\ UpTo(n) \in Nat
      BY <1>3, <2>2, <3>1
    <3> QED BY <1>2, <2>2, <3>2
  <2>4. ASSUME NEW j \in n + 1..Len(active)
        PROVE  UpTo(j) > Overrun
    <3>1. j \in 2..Len(active) /\ j \in 1..Len(active) /\ ~(j <= n)
      BY <1>2, <2>2
    <3>2. ~(UpTo(j) <= Overrun) /\ UpTo(j) \in Nat
      BY <1>3, <2>1, <3>1 DEF Reached
    <3> QED BY <1>2, <3>2
  <2> QED BY <2>2, <2>3, <2>4
<1>7. PICK due : due = SubSeq(active, 1, n)
  OBVIOUS
<1>8. /\ active' = SubSeq(active, n + 1, Len(active))
      /\ fired' = Tail(due) /\ current' = due[1]
      /\ state' = [t \in Timers |-> IF t = due[1] THEN "CALLBACK"
                                    ELSE IF t \in ToSet(due) THEN "FIRED"
                                    ELSE state[t]]
  <2> HIDE DEF m
  <2> QED BY <1>1, <1>5, <1>7, Zenon
<1> HIDE DEF m
<1>9. /\ due \in Seq(Timers) /\ Len(due) = n /\ \A k \in 1..n : due[k] = active[k]
      /\ due # <<>> /\ Distinct(due)
  <2>1. due \in Seq(Timers) /\ Len(due) = n /\ \A k \in 1..n : due[k] = active[k]
    BY <1>2, <1>6, <1>7
  <2>2. due # <<>>
    BY <1>2, <1>6, <2>1
  <2>3. Distinct(due)
    BY <1>2, <1>6, <2>1, SMTT(30) DEF Distinct
  <2> QED BY <2>1, <2>2, <2>3
<1>10. /\ fired' \in Seq(Timers) /\ Distinct(fired') /\ Len(fired') = n - 1
       /\ \A k \in 1..n - 1 : fired'[k] = active[k + 1]
  <2> DEFINE q == fired'
  <2>1. q = Tail(due)
    BY <1>8
  <2> HIDE DEF q
  <2>2. q \in Seq(Timers) /\ Len(q) = Len(due) - 1 /\ \A k \in 1..Len(q) : q[k] = due[k + 1]
    BY ONLY <1>9, <2>1, TailOf
  <2>3. Distinct(q)
    BY ONLY <1>9, <2>1, TailOf
  <2>4. \A k \in 1..n - 1 : k + 1 \in 1..n
    BY <1>2, <1>6
  <2> QED BY <1>9, <2>2, <2>3, <2>4 DEF q
<1>11. /\ active' \in Seq(Timers) /\ Len(active') = Len(active) - n
       /\ \A k \in 1..Len(active') : active'[k] = active[n + k]
  <2> DEFINE q == active'
  <2>1. q = SubSeq(active, n + 1, Len(active))
    BY <1>8
  <2> HIDE DEF q
  <2>2. /\ q \in Seq(Timers) /\ Len(q) = Len(active) - n
        /\ \A k \in 1..Len(active) - n : q[k] = active[n + k]
    BY <1>2, <1>6, <2>1
  <2> QED BY <2>2 DEF q
<1>12. Distinct(active')
  <2> SUFFICES ASSUME NEW i \in 1..Len(active'), NEW j \in 1..Len(active'),
                      active'[i] = active'[j]
               PROVE  i = j
    BY DEF Distinct
  <2>1. n + i \in 1..Len(active) /\ n + j \in 1..Len(active)
    BY <1>2, <1>6, <1>11
  <2>2. n + i = n + j
    BY <1>2, <1>11, <2>1 DEF Distinct
  <2> QED BY <1>6, <2>2
<1>13. /\ time' \in [Timers -> Nat]
       /\ \A j \in 2..Len(active) :
            time'[active[j]] = Max2(UpTo(j), Overrun) - Max2(UpTo(j - 1), Overrun)
  <2> DEFINE y == time'
  <2>1. y = Spent(Overrun) /\ active # <<>> /\ Overrun \in Nat
    BY <1>1, <1>2
  <2> HIDE DEF y
  <2>2. y \in [Timers -> Nat]
    BY <2>1, SpentIs
  <2>3. \A j \in 2..Len(active) : y[active[j]] = Max2(UpTo(j), Overrun) - Max2(UpTo(j - 1), Overrun)
    BY <2>1, SpentIs
  <2> QED BY <2>2, <2>3 DEF y
<1> DEFINE g == [k \in 1..Len(active) |-> UpTo(n + k) - UpTo(n + 1)]
<1>14. \A k \in 1..Len(active) : g[k] = UpTo(n + k) - UpTo(n + 1)
  OBVIOUS
<1> HIDE DEF g
<1>15. active' # <<>> => Len(active) >= n + 1 /\ g[1] = 0
  <2> SUFFICES ASSUME active' # <<>> PROVE Len(active) >= n + 1 /\ g[1] = 0
    OBVIOUS
  <2>1. Len(active) >= n + 1
    BY <1>2, <1>6, <1>11
  <2>2. g[1] = UpTo(n + 1) - UpTo(n + 1) /\ UpTo(n + 1) \in Nat
    BY <1>2, <1>3, <1>6, <1>14, <2>1
  <2> QED BY <2>1, <2>2
<1>16. ASSUME NEW k \in 2..Len(active')
       PROVE  g[k] = g[k - 1] + time'[active'[k]]
  <2>1. /\ k \in 1..Len(active') /\ k \in 1..Len(active) /\ k - 1 \in 1..Len(active)
        /\ n + k \in n + 1..Len(active) /\ n + k \in 2..Len(active) /\ n + k \in 1..Len(active)
        /\ (n + k) - 1 = n + (k - 1) /\ n + (k - 1) \in n + 1..Len(active)
        /\ n + (k - 1) \in 1..Len(active) /\ n + 1 \in 1..Len(active)
    <3>1. /\ k \in Nat /\ 2 <= k /\ n \in Nat /\ 1 <= n /\ Len(active) \in Nat
          /\ n + k <= Len(active) /\ Len(active') = Len(active) - n
      BY <1>2, <1>6, <1>11
    <3> QED BY <3>1
  <2>2. g[k] = UpTo(n + k) - UpTo(n + 1) /\ g[k - 1] = UpTo(n + (k - 1)) - UpTo(n + 1)
    BY <1>14, <2>1
  <2>3. /\ UpTo(n + k) \in Nat /\ UpTo(n + (k - 1)) \in Nat /\ UpTo(n + 1) \in Nat
        /\ UpTo(n + k) > Overrun /\ UpTo(n + (k - 1)) > Overrun
    BY <1>3, <1>6, <2>1
  <2>4. time'[active'[k]] = Max2(UpTo(n + k), Overrun) - Max2(UpTo(n + (k - 1)), Overrun)
    BY <1>11, <1>13, <2>1
  <2> QED BY <1>2, <2>2, <2>3, <2>4 DEF Max2
<1>17. \A k \in 1..Len(active') : UpTo(k)' = g[k]
  BY <1>11, <1>13, <1>15, <1>16, UpToAre
<1>18. active' # <<>> => UpTo(1)' = 0
  <2>1. active' # <<>> => 1 \in 1..Len(active')
    BY <1>11
  <2> QED BY <1>15, <1>17, <2>1
<1>19. ASSUME NEW k \in 1..Len(active')
       PROVE  UpTo(n + k) > Overrun /\ DueAfter' + UpTo(k)' = UpTo(n + k) - Overrun
  <2>1. /\ k \in 1..Len(active) /\ n + k \in n + 1..Len(active) /\ n + k \in 1..Len(active)
        /\ n + 1 \in n + 1..Len(active) /\ n + 1 \in 2..Len(active) /\ n + 1 \in 1..Len(active)
        /\ (n + 1) - 1 = n /\ n \in 1..n /\ n \in 1..Len(active)
        /\ 1 \in 1..Len(active') /\ active' # <<>>
    BY <1>2, <1>6, <1>11
  <2>2. /\ UpTo(n + k) \in Nat /\ UpTo(n + k) > Overrun
        /\ UpTo(n + 1) \in Nat /\ UpTo(n + 1) > Overrun
        /\ UpTo(n) \in Nat /\ UpTo(n) <= Overrun
    BY <1>3, <1>6, <2>1
  <2>3. DueAfter' = UpTo(n + 1) - Overrun
    <3>1. DueAfter' = time'[active'[1]]
      BY <2>1 DEF DueAfter
    <3>2. active'[1] = active[n + 1]
      BY <1>11, <2>1
    <3>3. time'[active[n + 1]] = Max2(UpTo(n + 1), Overrun) - Max2(UpTo(n), Overrun)
      BY <1>13, <2>1
    <3> QED BY <1>2, <2>2, <3>1, <3>2, <3>3 DEF Max2
  <2>4. UpTo(k)' = UpTo(n + k) - UpTo(n + 1)
    BY <1>14, <1>17, <2>1
  <2> QED BY <1>2, <2>2, <2>3, <2>4
<1>20. /\ \A k \in 1..n : state'[active[k]] = IF k = 1 THEN "CALLBACK" ELSE "FIRED"
       /\ \A t \in Timers : (\A k \in 1..n : active[k] # t) => state'[t] = state[t]
       /\ current' = active[1]
  <2>1. \A t : t \in ToSet(due) <=> \E k \in 1..n : active[k] = t
    <3>1. DOMAIN due = 1..n
      BY <1>9
    <3> QED BY <1>9, <3>1, Zenon DEF ToSet
  <2>2. 1 \in 1..n /\ due[1] = active[1] /\ \A k \in 1..n : k \in 1..Len(active)
    BY <1>2, <1>6, <1>9
  <2>3. ASSUME NEW k \in 1..n
        PROVE  state'[active[k]] = IF k = 1 THEN "CALLBACK" ELSE "FIRED"
    <3>1. active[k] \in Timers /\ active[k] \in ToSet(due) /\ (active[k] = due[1] <=> k = 1)
      BY <1>2, <2>1, <2>2 DEF Distinct
    <3> QED BY <1>8, <3>1, Zenon
  <2>4. ASSUME NEW t \in Timers, \A k \in 1..n : active[k] # t
        PROVE  state'[t] = state[t]
    <3>1. t \notin ToSet(due) /\ t # due[1]
      BY <2>1, <2>2, <2>4
    <3> QED BY <1>8, <3>1, Zenon
  <2> QED BY <1>8, <2>2, <2>3, <2>4
<1>21. FiresTo(n)
  BY <1>6, <1>10, <1>11, <1>19, <1>20 DEF FiresTo
<1> QED BY <1>1, <1>6, <1>10, <1>11, <1>12, <1>13, <1>18, <1>21 DEF Fires

---------------------------------------------------------------------------
(* ListsInv is inductive.                                                   *)

\* What the counter becomes.
Counts(h, v) ==
  \/ h.value = 0 /\ v = 0
  \/ h.value > 0 /\ v = h.value - 1
  \/ h.value > 0 /\ v = h.value /\ h.fresh = TRUE

LEMMA TickIs ==
  ASSUME hw \in HwStates, Tick
  PROVE  /\ hw' \in HwStates
         /\ hw'.enabled = hw.enabled /\ hw.enabled = TRUE
         /\ hw'.fresh = FALSE /\ hw'.elapsed = hw.elapsed + 1
         /\ hw'.irq = (hw.irq \/ (hw.value > 0 /\ hw'.value = 0))
         /\ Counts(hw, hw'.value)
<1>1. PICK held \in {0, 1} :
        /\ held = 1 => hw.fresh
        /\ LET v == IF hw.value = 0 THEN 0 ELSE hw.value - 1 + held
           IN hw' = [hw EXCEPT !.value = v, !.fresh = FALSE,
                               !.irq = @ \/ (hw.value > 0 /\ v = 0),
                               !.elapsed = @ + 1]
  BY DEF Tick
<1>2. /\ hw.value \in Nat /\ hw.elapsed \in Nat /\ hw.fresh \in BOOLEAN /\ hw.irq \in BOOLEAN
      /\ hw.enabled \in BOOLEAN
  BY DEF HwStates
<1>3. PICK v : v = IF hw.value = 0 THEN 0 ELSE hw.value - 1 + held
  OBVIOUS
<1>4. PICK i : i = (hw.irq \/ (hw.value > 0 /\ v = 0))
  OBVIOUS
<1>5. PICK n : n = hw.elapsed + 1
  OBVIOUS
<1>6. hw' = [hw EXCEPT !.value = v, !.fresh = FALSE, !.irq = i, !.elapsed = n]
  BY <1>1, <1>3, <1>4, <1>5, Zenon
<1>7. v \in Nat /\ i \in BOOLEAN /\ n \in Nat
  BY <1>2, <1>3, <1>4, <1>5
<1>8. /\ hw' \in HwStates /\ hw'.enabled = hw.enabled /\ hw'.fresh = FALSE
      /\ hw'.elapsed = n /\ hw'.irq = i /\ hw'.value = v
  BY <1>6, <1>7, Zenon DEF HwStates
<1>9. Counts(hw, v)
  <2>1. held = 1 => hw.fresh = TRUE
    BY <1>1, <1>2
  <2>2. CASE held = 0
    BY <1>2, <1>3, <2>2 DEF Counts
  <2>3. CASE held = 1
    BY <1>2, <1>3, <2>1, <2>3 DEF Counts
  <2> QED BY <2>2, <2>3
<1>10. hw.enabled = TRUE
  BY <1>2 DEF Tick
<1> QED BY <1>4, <1>5, <1>8, <1>9, <1>10, Zenon

LEMMA StartIs ==
  ASSUME ListsInv, NEW t \in Timers, NEW asked \in Durations, hwtimer_start(t, asked),
         NEW ticks, ticks = Max2(asked, LoadDelta)
  PROVE  /\ ticks \in Nat \ {0} /\ t \notin ToSet(active)
         /\ StartFirst(t, ticks) \/ StartBefore(t, ticks) \/ StartBehind(t, ticks)
         /\ state' = [state EXCEPT ![t] = "ACTIVE"] /\ Asks(t, ticks)
         /\ UNCHANGED <<fired, handler, current>>
         /\ Joins(t) /\ hw' \in HwStates /\ drift' \in [Timers -> Nat]
         /\ left' \in [Timers -> Int] /\ ahead' \in [Timers -> Nat]
<1>1. /\ state[t] \in {"ALLOC", "CALLBACK"}
      /\ state' = [state EXCEPT ![t] = "ACTIVE"] /\ Asks(t, ticks)
      /\ StartFirst(t, ticks) \/ StartBefore(t, ticks) \/ StartBehind(t, ticks)
      /\ UNCHANGED <<fired, handler, current>>
  BY Zenon DEF hwtimer_start
<1>2. ticks \in Nat \ {0}
  BY HwTimerAssumption DEF Max2, LoadDelta
<1>3. t \notin ToSet(active)
  BY <1>1 DEF ListsInv
<1>4. /\ hw \in HwStates /\ hw.value \in Nat /\ hw.elapsed \in Nat /\ DueAfter \in Nat
      /\ drift \in [Timers -> Nat]
      /\ left' \in [Timers -> Int] /\ ahead' \in [Timers -> Nat]
  <2>1. /\ left \in [Timers -> Int] /\ drift \in [Timers -> Nat]
        /\ ahead \in [Timers -> Nat]
    BY DEF ListsInv, TypeOK
  <2>2. HeadStart \in Nat
    BY ActiveFacts DEF HeadStart
  <2>3. left' \in [Timers -> Int] /\ ahead' \in [Timers -> Nat]
    BY <1>1, <1>2, <2>1, <2>2 DEF Asks
  <2> QED BY <2>1, <2>3, ActiveFacts
<1>5. CASE StartFirst(t, ticks)
  <2>1. Joins(t)
    BY <1>2, <1>5, StartFirstLists
  <2>2. hw' = Loaded(hw, ticks) /\ drift' = [drift EXCEPT ![t] = LoadDelta]
    BY <1>5 DEF StartFirst
  <2>3. hw' \in HwStates
    BY <1>2, <1>4, <2>2, LoadedIs
  <2>4. drift' \in [Timers -> Nat]
    BY <1>4, <2>2 DEF LoadDelta
  <2> QED BY <1>1, <1>2, <1>3, <1>4, <2>1, <2>3, <2>4
<1>6. CASE StartBefore(t, ticks)
  <2>1. Joins(t)
    BY <1>2, <1>3, <1>6, StartBeforeLists
  <2>2. hw' = Loaded(Stopped, ticks)
        /\ drift' = [Drifted(ToSet(active)) EXCEPT ![t] = LoadDelta]
    BY <1>6 DEF StartBefore
  <2>3. hw' \in HwStates
    BY <1>2, <2>2, LoadedIs, StoppedIs
  <2>4. drift' \in [Timers -> Nat]
    BY <1>4, <2>2 DEF LoadDelta, Drifted
  <2> QED BY <1>1, <1>2, <1>3, <1>4, <2>1, <2>3, <2>4
<1>7. CASE StartBehind(t, ticks)
  <2>1. Joins(t)
    BY <1>2, <1>3, <1>7, StartBehindLists
  <2>2. hw' = hw /\ drift' = [drift EXCEPT ![t] = Foreseen]
    BY <1>7 DEF StartBehind
  <2>3. Foreseen \in Nat
    BY <1>4 DEF Foreseen, Max2, LoadDelta
  <2>4. drift' \in [Timers -> Nat]
    BY <1>4, <2>2, <2>3
  <2> QED BY <1>1, <1>2, <1>3, <1>4, <2>1, <2>2, <2>4
<1> QED BY <1>1, <1>5, <1>6, <1>7

LEMMA StopIs ==
  ASSUME ListsInv, NEW t \in Timers, StopActive(t)
  PROVE  /\ t \in ToSet(active) /\ (StopFirst(t) \/ StopBehind(t))
         /\ state' = [state EXCEPT ![t] = "ALLOC"] /\ Ends(t)
         /\ UNCHANGED <<fired, handler, current>>
         /\ Leaves(t) /\ hw' \in HwStates /\ drift' \in [Timers -> Nat]
         /\ left' \in [Timers -> Int] /\ ahead' \in [Timers -> Nat]
<1>1. /\ state[t] = "ACTIVE" /\ (StopFirst(t) \/ StopBehind(t))
      /\ state' = [state EXCEPT ![t] = "ALLOC"] /\ Ends(t)
      /\ UNCHANGED <<fired, handler, current>>
  BY Zenon DEF StopActive
<1>2. t \in ToSet(active)
  BY <1>1 DEF ListsInv
<1>3. /\ hw \in HwStates /\ drift \in [Timers -> Nat]
      /\ left' \in [Timers -> Int] /\ ahead' \in [Timers -> Nat]
  <2>1. /\ left \in [Timers -> Int] /\ drift \in [Timers -> Nat]
        /\ ahead \in [Timers -> Nat]
    BY DEF ListsInv, TypeOK
  <2>2. left' \in [Timers -> Int] /\ ahead' \in [Timers -> Nat]
    BY <1>1, <2>1 DEF Ends
  <2> QED BY <2>1, <2>2 DEF ListsInv, TypeOK, HwStates
<1>4. CASE StopFirst(t)
  <2>1. Leaves(t)
    BY <1>4, StopFirstLists
  <2>2. /\ hw' = IF active' = <<>> THEN Stopped ELSE Loaded(Stopped, DueAfter')
        /\ drift' = [Drifted(ToSet(active')) EXCEPT ![t] = 0]
    BY <1>4, SMTT(30) DEF StopFirst, DueAfter
  <2>3. active' # <<>> => DueAfter' \in Nat
    BY <2>1 DEF Leaves, DueAfter
  <2>4. hw' \in HwStates
    BY <2>2, <2>3, LoadedIs, StoppedIs
  <2>5. drift' \in [Timers -> Nat]
    BY <1>3, <2>2 DEF LoadDelta, Drifted
  <2> QED BY <1>1, <1>2, <1>3, <2>1, <2>4, <2>5
<1>5. CASE StopBehind(t)
  <2>1. Leaves(t)
    BY <1>5, StopBehindLists
  <2>2. hw' = hw /\ drift' = [drift EXCEPT ![t] = 0]
    BY <1>5 DEF StopBehind
  <2>3. drift' \in [Timers -> Nat]
    BY <1>3, <2>2
  <2> QED BY <1>1, <1>2, <1>3, <2>1, <2>2, <2>3
<1> QED BY <1>1, <1>4, <1>5

LEMMA FiresIs ==
  ASSUME ListsInv, HandlerFires
  PROVE  /\ handler = "entered" /\ handler' = "callback" /\ UNCHANGED <<left, ahead>>
         /\ hw' \in HwStates /\ drift' \in [Timers -> Nat] /\ state' \in [Timers -> States]
         /\ hw' = IF active' = <<>> THEN Stopped ELSE Loaded(hw, DueAfter')
         /\ drift' = [t \in Timers |->
                        drift[t] + (IF t \in ToSet(active) /\ hw.value > 0 THEN LoadDelta ELSE 0)
                                 + (IF t \in ToSet(active') THEN LoadDelta ELSE 0)]
<1> DEFINE n == Max(Reached(Overrun))
           due == SubSeq(active, 1, n)
<1>1. /\ handler = "entered" /\ handler' = "callback" /\ UNCHANGED <<left, ahead>>
      /\ hw' = IF active' = <<>> THEN Stopped ELSE Loaded(hw, time'[active'[1]])
      /\ drift' = [t \in Timers |->
                     drift[t] + (IF t \in ToSet(active) /\ hw.value > 0 THEN LoadDelta ELSE 0)
                              + (IF t \in ToSet(active') THEN LoadDelta ELSE 0)]
      /\ state' = [t \in Timers |-> IF t = due[1] THEN "CALLBACK"
                                    ELSE IF t \in ToSet(due) THEN "FIRED"
                                    ELSE state[t]]
  BY DEF HandlerFires
<1> HIDE DEF due
<1>2. hw \in HwStates /\ drift \in [Timers -> Nat] /\ state \in [Timers -> States]
  BY DEF ListsInv, TypeOK, HwStates
<1>3. hw' = IF active' = <<>> THEN Stopped ELSE Loaded(hw, DueAfter')
  BY <1>1 DEF DueAfter
<1>4. active' # <<>> => DueAfter' \in Nat
  <2>1. active' \in Seq(Timers) /\ time' \in [Timers -> Nat]
    BY HandlerFiresLists
  <2> QED BY <2>1 DEF DueAfter
<1>5. hw' \in HwStates
  BY <1>2, <1>3, <1>4, LoadedIs, StoppedIs
<1>6. drift' \in [Timers -> Nat]
  BY <1>1, <1>2 DEF LoadDelta
<1>7. state' \in [Timers -> States]
  BY <1>1, <1>2 DEF States
<1> QED BY <1>1, <1>3, <1>5, <1>6, <1>7

LEMMA ListsInit ==
  ASSUME Init
  PROVE  ListsInv
<1>1. TypeOK
  BY DEF Init, TypeOK, States, Stopped
<1>2. ToSet(active) = {} /\ ToSet(fired) = {} /\ Distinct(active) /\ Distinct(fired)
  BY DEF Init, ToSet, Distinct
<1> QED BY <1>1, <1>2 DEF Init, ListsInv

LEMMA Zeroed ==
  ASSUME NEW S, NEW g \in [Timers -> S], NEW c, 0 \in S
  PROVE  [g EXCEPT ![c] = 0] \in [Timers -> S]
OBVIOUS

LEMMA ListsStep ==
  ASSUME ListsInv, [Next]_vars
  PROVE  ListsInv'
<1>1. /\ TypeOK /\ Distinct(active) /\ Distinct(fired)
      /\ \A t \in Timers : /\ state[t] = "ACTIVE" <=> t \in ToSet(active)
                           /\ state[t] = "FIRED" <=> t \in ToSet(fired)
                           /\ state[t] = "CALLBACK" => t = current
      /\ IF handler = "callback" THEN current \in Timers ELSE current = NoTimer /\ fired = <<>>
  BY DEF ListsInv
<1>2. /\ state \in [Timers -> States] /\ time \in [Timers -> Nat]
      /\ active \in Seq(Timers) /\ fired \in Seq(Timers)
      /\ handler \in {"idle", "entered", "callback"} /\ current \in Timers \cup {NoTimer}
      /\ hw \in HwStates /\ left \in [Timers -> Int]
      /\ drift \in [Timers -> Nat] /\ ahead \in [Timers -> Nat]
  BY DEF ListsInv, TypeOK, HwStates
<1>3. CASE UNCHANGED vars
  BY <1>1, <1>2, <1>3 DEF vars, ListsInv, TypeOK, Distinct, HwStates
<1>4. CASE Tick
  <2>1. hw' \in HwStates
    BY <1>2, <1>4, TickIs
  <2>2. /\ UNCHANGED <<state, time, active, fired, handler, current, drift, ahead>>
        /\ left' = [t \in Timers |-> IF state[t] = "ACTIVE" THEN left[t] - 1 ELSE left[t]]
    BY <1>4 DEF Tick
  <2>3. left' \in [Timers -> Int]
    BY <1>2, <2>2
  <2> QED BY <1>1, <1>2, <2>1, <2>2, <2>3 DEF ListsInv, TypeOK, Distinct, HwStates
<1>5. CASE hal_timer01_irq_handler
  <2>1. /\ UNCHANGED <<state, time, active, fired, current, left, drift, ahead>>
        /\ handler = "idle" /\ handler' = "entered"
        /\ hw' = [hw EXCEPT !.irq = FALSE]
    BY <1>5 DEF hal_timer01_irq_handler
  <2>2. hw' \in HwStates
    BY <1>2, <2>1, Zenon DEF HwStates
  <2> QED BY <1>1, <1>2, <2>1, <2>2 DEF ListsInv, TypeOK, Distinct, HwStates
<1>6. CASE HandlerEarly
  <2>1. /\ UNCHANGED <<state, time, active, fired, current, hw, left, drift, ahead>>
        /\ handler = "entered" /\ handler' = "idle"
    BY <1>6 DEF HandlerEarly
  <2> QED BY <1>1, <1>2, <2>1 DEF ListsInv, TypeOK, Distinct, HwStates
<1>7. CASE HandlerFires
  <2>1. /\ active' \in Seq(Timers) /\ Distinct(active')
        /\ fired' \in Seq(Timers) /\ Distinct(fired')
        /\ time' \in [Timers -> Nat] /\ active # <<>>
    BY <1>7, HandlerFiresLists
  <2>2. PICK n \in 1..Len(active) : FiresTo(n)
    BY <1>7, HandlerFiresLists DEF Fires
  <2>3. /\ handler = "entered" /\ handler' = "callback" /\ UNCHANGED <<left, ahead>>
        /\ hw' \in HwStates /\ drift' \in [Timers -> Nat] /\ state' \in [Timers -> States]
    BY <1>7, FiresIs
  <2>4. /\ \A k \in 1..n : state'[active[k]] = IF k = 1 THEN "CALLBACK" ELSE "FIRED"
        /\ Len(fired') = n - 1 /\ \A k \in 1..n - 1 : fired'[k] = active[k + 1]
        /\ current' = active[1]
        /\ Len(active') = Len(active) - n
        /\ \A k \in 1..Len(active') : active'[k] = active[n + k]
        /\ \A t \in Timers : (\A k \in 1..n : active[k] # t) => state'[t] = state[t]
    BY <2>2 DEF FiresTo
  <2>5. /\ Len(active) \in Nat \ {0} /\ n \in Nat \ {0} /\ n <= Len(active)
        /\ active[1] \in Timers /\ current = NoTimer /\ fired = <<>>
    BY <1>1, <1>2, <2>1, <2>2, <2>3, SMTT(30)
  <2>6. ASSUME NEW t \in Timers
        PROVE  /\ state'[t] = "ACTIVE" <=> t \in ToSet(active')
               /\ state'[t] = "FIRED" <=> t \in ToSet(fired')
               /\ state'[t] = "CALLBACK" => t = current'
    <3>1. /\ t \in ToSet(active) <=> \E k \in 1..Len(active) : active[k] = t
          /\ t \in ToSet(active') <=> \E k \in 1..Len(active') : active'[k] = t
          /\ t \in ToSet(fired') <=> \E k \in 1..Len(fired') : fired'[k] = t
      <4>1. /\ DOMAIN active = 1..Len(active) /\ DOMAIN active' = 1..Len(active')
            /\ DOMAIN fired' = 1..Len(fired')
        BY <1>2, <2>1
      <4> QED BY <4>1, Zenon DEF ToSet
    <3>2. ASSUME NEW k \in 1..n, active[k] = t
          PROVE  /\ state'[t] = "ACTIVE" <=> t \in ToSet(active')
                 /\ state'[t] = "FIRED" <=> t \in ToSet(fired')
                 /\ state'[t] = "CALLBACK" => t = current'
      <4>1. t \notin ToSet(active')
        <5>1. ASSUME NEW i \in 1..Len(active'), active'[i] = t PROVE FALSE
          <6>1. n + i \in 1..Len(active) /\ k \in 1..Len(active) /\ n + i # k
            BY <2>4, <2>5
          <6>2. active[n + i] = active[k]
            BY <2>4, <3>2, <5>1
          <6> QED BY <1>1, <6>1, <6>2 DEF Distinct
        <5> QED BY <3>1, <5>1
      <4>2. CASE k = 1
        <5>1. state'[t] = "CALLBACK" /\ t = current'
          BY <2>4, <3>2, <4>2
        <5>2. ASSUME NEW i \in 1..Len(fired'), fired'[i] = t PROVE FALSE
          <6>1. i + 1 \in 1..Len(active) /\ i + 1 # 1 /\ 1 \in 1..Len(active) /\ i \in 1..n - 1
            BY <2>4, <2>5
          <6>2. active[i + 1] = active[1]
            BY <2>4, <3>2, <4>2, <5>2, <6>1
          <6> QED BY <1>1, <6>1, <6>2 DEF Distinct
        <5> QED BY <3>1, <4>1, <5>1, <5>2
      <4>3. CASE k # 1
        <5>1. state'[t] = "FIRED"
          BY <2>4, <3>2, <4>3
        <5>2. k - 1 \in 1..Len(fired') /\ fired'[k - 1] = t
          <6>1. k - 1 \in 1..n - 1 /\ (k - 1) + 1 = k
            BY <2>5, <4>3
          <6> QED BY <2>4, <3>2, <6>1
        <5> QED BY <3>1, <4>1, <5>1, <5>2
      <4> QED BY <4>2, <4>3
    <3>3. ASSUME \A k \in 1..n : active[k] # t
          PROVE  /\ state'[t] = "ACTIVE" <=> t \in ToSet(active')
                 /\ state'[t] = "FIRED" <=> t \in ToSet(fired')
                 /\ state'[t] = "CALLBACK" => t = current'
      <4>1. state'[t] = state[t]
        BY <2>4, <3>3
      <4>2. state[t] # "FIRED" /\ state[t] # "CALLBACK"
        <5>1. ToSet(fired) = {}
          BY <2>5 DEF ToSet
        <5> QED BY <1>1, <2>5, <5>1, HwTimerAssumption
      <4>3. t \notin ToSet(fired')
        <5>1. ASSUME NEW i \in 1..Len(fired'), fired'[i] = t PROVE FALSE
          <6>1. i + 1 \in 1..n /\ i \in 1..n - 1
            BY <2>4, <2>5
          <6> QED BY <2>4, <3>3, <5>1, <6>1
        <5> QED BY <3>1, <5>1
      <4>4. ASSUME NEW k \in 1..Len(active), active[k] = t PROVE t \in ToSet(active')
        <5>1. k \notin 1..n
          BY <3>3, <4>4
        <5>2. k - n \in 1..Len(active') /\ n + (k - n) = k
          BY <2>4, <2>5, <5>1
        <5>3. active'[k - n] = t
          BY <2>4, <4>4, <5>2
        <5> QED BY <3>1, <5>2, <5>3
      <4>5. ASSUME NEW i \in 1..Len(active'), active'[i] = t PROVE t \in ToSet(active)
        <5>1. n + i \in 1..Len(active) /\ active[n + i] = t
          BY <2>4, <2>5, <4>5
        <5> QED BY <3>1, <5>1
      <4> QED BY <1>1, <3>1, <4>1, <4>2, <4>3, <4>4, <4>5
    <3> QED BY <3>2, <3>3
  <2>7. TypeOK'
    <3>1. /\ handler' \in {"idle", "entered", "callback"} /\ current' \in Timers \cup {NoTimer}
          /\ left' \in [Timers -> Int] /\ ahead' \in [Timers -> Nat]
      BY <1>2, <2>3, <2>4, <2>5
    <3> QED BY <2>1, <2>3, <3>1, Zenon DEF TypeOK, HwStates
  <2>8. handler' = "callback" /\ current' \in Timers
    BY <2>3, <2>4, <2>5
  <2> QED BY <2>1, <2>6, <2>7, <2>8 DEF ListsInv
<1>8. CASE CallbackReturns
  <2> DEFINE ended == [state EXCEPT ![current] = IF @ = "CALLBACK" THEN "ALLOC" ELSE @]
  <2>1. /\ handler = "callback" /\ UNCHANGED <<time, active, hw>> /\ Forgotten
        /\ IF fired = <<>>
           THEN state' = ended /\ handler' = "idle" /\ current' = NoTimer /\ fired' = fired
           ELSE /\ state' = [ended EXCEPT ![fired[1]] = "CALLBACK"]
                /\ current' = fired[1] /\ fired' = Tail(fired) /\ handler' = handler
    BY <1>8 DEF CallbackReturns
  <2>2. /\ current \in Timers
        /\ left' \in [Timers -> Int] /\ drift' \in [Timers -> Nat]
        /\ ahead' \in [Timers -> Nat]
    <3>1. current \in Timers
      BY <1>1, <2>1
    <3>2. \/ UNCHANGED <<left, drift, ahead>>
          \/ /\ left' = [left EXCEPT ![current] = 0] /\ drift' = [drift EXCEPT ![current] = 0]
             /\ ahead' = [ahead EXCEPT ![current] = 0]
      BY <2>1 DEF Forgotten, Forget, Ends
    <3>3. CASE UNCHANGED <<left, drift, ahead>>
      BY <1>2, <3>1, <3>3
    <3>4. CASE /\ left' = [left EXCEPT ![current] = 0] /\ drift' = [drift EXCEPT ![current] = 0]
               /\ ahead' = [ahead EXCEPT ![current] = 0]
      <4>1. left' \in [Timers -> Int]
        <5>1. left \in [Timers -> Int] /\ left' = [left EXCEPT ![current] = 0] /\ 0 \in Int
          BY <1>2, <3>4
        <5> QED BY <5>1, Zeroed, Zenon
      <4>2. drift' \in [Timers -> Nat]
        BY <1>2, <3>4, Zeroed
      <4>3. ahead' \in [Timers -> Nat]
        BY <1>2, <3>4, Zeroed
      <4> QED BY <3>1, <4>1, <4>2, <4>3
    <3> QED BY <3>2, <3>3, <3>4
  <2>3. ended \in [Timers -> States]
        /\ \A t \in Timers : ended[t] = IF t = current /\ state[t] = "CALLBACK" THEN "ALLOC"
                                        ELSE state[t]
    BY <1>2, <2>2 DEF States
  <2>4. \A t \in Timers : ended[t] # "CALLBACK"
    BY <1>1, <2>3
  <2> HIDE DEF ended
  <2>5. CASE fired = <<>>
    <3>1. state' = ended /\ handler' = "idle" /\ current' = NoTimer /\ fired' = fired
      BY <2>1, <2>5
    <3>2. \A t \in Timers : /\ state'[t] = "ACTIVE" <=> t \in ToSet(active)
                            /\ state'[t] = "FIRED" <=> t \in ToSet(fired)
                            /\ state'[t] # "CALLBACK"
      BY <1>1, <2>3, <2>4, <3>1
    <3> QED BY <1>1, <1>2, <2>1, <2>2, <2>3, <2>5, <3>1, <3>2 DEF ListsInv, TypeOK, HwStates
  <2>6. CASE fired # <<>>
    <3>1. /\ state' = [ended EXCEPT ![fired[1]] = "CALLBACK"]
          /\ current' = fired[1] /\ fired' = Tail(fired) /\ handler' = handler
      BY <2>1, <2>6
    <3>2. fired[1] \in Timers
      BY <1>2, <2>6
    <3>3. fired' \in Seq(Timers) /\ Distinct(fired') /\ Drops(fired', fired, fired[1])
      <4> DEFINE q == fired'
      <4>1. q = Tail(fired)
        BY <3>1
      <4> HIDE DEF q
      <4>2. q \in Seq(Timers)
        BY <1>1, <1>2, <2>6, <4>1, TailOf
      <4>3. Distinct(q) /\ Drops(q, fired, fired[1])
        BY <1>1, <1>2, <2>6, <4>1, TailOf
      <4> QED BY <4>2, <4>3 DEF q
    <3>4. state' \in [Timers -> States]
          /\ \A t \in Timers : state'[t] = IF t = fired[1] THEN "CALLBACK" ELSE ended[t]
      BY <2>3, <3>1, <3>2 DEF States
    <3>5. fired[1] \in ToSet(fired)
      BY <1>2, <2>6, ElementsOf
    <3>6. ASSUME NEW t \in Timers
          PROVE  /\ state'[t] = "ACTIVE" <=> t \in ToSet(active)
                 /\ state'[t] = "FIRED" <=> t \in ToSet(fired')
                 /\ state'[t] = "CALLBACK" => t = current'
      BY <1>1, <2>3, <2>4, <3>1, <3>3, <3>4, <3>5 DEF Drops
    <3> QED BY <1>1, <1>2, <2>1, <2>2, <3>1, <3>2, <3>3, <3>4, <3>6 DEF ListsInv, TypeOK, HwStates
  <2> QED BY <2>5, <2>6
<1>9. ASSUME NEW t \in Timers, hwtimer_alloc(t) \/ hwtimer_free(t)
      PROVE  ListsInv'
  <2>1. /\ UNCHANGED <<time, active, fired, handler, current, hw, left, drift, ahead>>
        /\ state[t] \in {"FREE", "ALLOC"}
        /\ state' = [state EXCEPT ![t] = "ALLOC"] \/ state' = [state EXCEPT ![t] = "FREE"]
    BY <1>9 DEF hwtimer_alloc, hwtimer_free
  <2>2. state' \in [Timers -> States]
    BY <1>2, <2>1 DEF States
  <2>3. \A u \in Timers : /\ state'[u] = "ACTIVE" <=> u \in ToSet(active)
                          /\ state'[u] = "FIRED" <=> u \in ToSet(fired)
                          /\ state'[u] = "CALLBACK" => u = current
    BY <1>1, <1>2, <2>1
  <2> QED BY <1>1, <1>2, <2>1, <2>2, <2>3, SMTT(30) DEF ListsInv, TypeOK, Distinct, HwStates
<1>10. ASSUME NEW t \in Timers, NEW asked \in Durations, hwtimer_start(t, asked)
       PROVE  ListsInv'
  <2> DEFINE ticks == Max2(asked, LoadDelta)
  <2>1. /\ ticks \in Nat /\ t \notin ToSet(active)
        /\ state' = [state EXCEPT ![t] = "ACTIVE"] /\ Asks(t, ticks)
        /\ UNCHANGED <<fired, handler, current>>
        /\ Joins(t) /\ hw' \in HwStates /\ drift' \in [Timers -> Nat]
        /\ left' \in [Timers -> Int] /\ ahead' \in [Timers -> Nat]
    BY <1>10, StartIs
  <2>2. state[t] \in {"ALLOC", "CALLBACK"}
    BY <1>10 DEF hwtimer_start
  <2> HIDE DEF ticks
  <2>3. state' \in [Timers -> States]
    BY <1>2, <2>1 DEF States
  <2>4. \A u \in Timers : /\ state'[u] = "ACTIVE" <=> u \in ToSet(active')
                          /\ state'[u] = "FIRED" <=> u \in ToSet(fired)
                          /\ state'[u] = "CALLBACK" => u = current
    BY <1>1, <1>2, <2>1, <2>2 DEF Joins, Adds
  <2>5. TypeOK'
    BY <1>2, <2>1, <2>3 DEF TypeOK, HwStates, Joins
  <2>6. Distinct(active') /\ Distinct(fired')
    BY <1>1, <2>1 DEF Joins
  <2> QED BY <1>1, <2>1, <2>4, <2>5, <2>6 DEF ListsInv
<1>11. ASSUME NEW t \in Timers, StopActive(t)
       PROVE  ListsInv'
  <2>1. /\ t \in ToSet(active)
        /\ state' = [state EXCEPT ![t] = "ALLOC"] /\ Ends(t)
        /\ UNCHANGED <<fired, handler, current>>
        /\ Leaves(t) /\ hw' \in HwStates /\ drift' \in [Timers -> Nat]
        /\ left' \in [Timers -> Int] /\ ahead' \in [Timers -> Nat]
    BY <1>11, StopIs
  <2>2. state[t] = "ACTIVE"
    BY <1>11 DEF StopActive
  <2>3. state' \in [Timers -> States]
    BY <1>2, <2>1 DEF States
  <2>4. \A u \in Timers : /\ state'[u] = "ACTIVE" <=> u \in ToSet(active')
                          /\ state'[u] = "FIRED" <=> u \in ToSet(fired)
                          /\ state'[u] = "CALLBACK" => u = current
    BY <1>1, <1>2, <2>1, <2>2 DEF Leaves, Drops
  <2>5. TypeOK'
    BY <1>2, <2>1, <2>3 DEF TypeOK, HwStates, Leaves
  <2>6. Distinct(active') /\ Distinct(fired')
    BY <1>1, <2>1 DEF Leaves
  <2> QED BY <1>1, <2>1, <2>4, <2>5, <2>6 DEF ListsInv
<1>12. ASSUME NEW t \in Timers, StopFired(t)
       PROVE  ListsInv'
  <2>1. /\ state[t] = "FIRED" /\ state' = [state EXCEPT ![t] = "ALLOC"]
        /\ Forget(t)
        /\ UNCHANGED <<time, active, handler, current, hw>>
    BY <1>12 DEF StopFired
  <2>2. PICK j \in 1..Len(fired) : fired[j] = t /\ fired' = RemoveAt(fired, j)
    BY <1>12 DEF StopFired
  <2>3. fired' \in Seq(Timers) /\ Distinct(fired') /\ Drops(fired', fired, t)
    <3> DEFINE q == fired'
    <3>1. q = RemoveAt(fired, j) /\ t = fired[j]
      BY <2>2
    <3> HIDE DEF q
    <3>2. q \in Seq(Timers)
      BY <1>1, <1>2, <3>1, Removed
    <3>3. Distinct(q) /\ Drops(q, fired, t)
      BY <1>1, <1>2, <3>1, RemovedFrom
    <3> QED BY <3>2, <3>3 DEF q
  <2>4. /\ state' \in [Timers -> States] /\ drift' \in [Timers -> Nat]
        /\ left' \in [Timers -> Int] /\ ahead' \in [Timers -> Nat]
    BY <1>2, <2>1, SMTT(30) DEF States, Forget, Ends
  <2>5. \A u \in Timers : /\ state'[u] = "ACTIVE" <=> u \in ToSet(active)
                          /\ state'[u] = "FIRED" <=> u \in ToSet(fired')
                          /\ state'[u] = "CALLBACK" => u = current
    BY <1>1, <1>2, <2>1, <2>3 DEF Drops
  <2>6. handler = "callback"
    <3>1. fired # <<>>
      BY <1>2, <2>2
    <3> QED BY <1>1, <3>1
  <2>7. TypeOK'
    BY <1>2, <2>1, <2>3, <2>4 DEF TypeOK, HwStates
  <2> QED BY <1>1, <2>1, <2>3, <2>5, <2>6, <2>7 DEF ListsInv
<1> QED BY <1>3, <1>4, <1>5, <1>6, <1>7, <1>8, <1>9, <1>10, <1>11, <1>12 DEF Next, Handler

LEMMA ListsInvariant == Spec => []ListsInv
BY ListsInit, ListsStep, PTL DEF Spec

\* Types are kept, no timer is on a list twice or on a list its state does not name,
\* none is lost by a start, a stop or the interrupt handler, and only the timer whose
\* callback runs is in state CALLBACK.
THEOREM EveryTimerIsListed == Spec => []ListsMatchStates
<1>1. ListsInv => ListsMatchStates
  <2> SUFFICES ASSUME ListsInv PROVE ListsMatchStates
    OBVIOUS
  <2>1. /\ TypeOK /\ active \in Seq(Timers) /\ fired \in Seq(Timers)
        /\ Distinct(active) /\ Distinct(fired)
        /\ \A t \in Timers : /\ state[t] = "ACTIVE" <=> t \in ToSet(active)
                             /\ state[t] = "FIRED" <=> t \in ToSet(fired)
                             /\ state[t] = "CALLBACK" => t = current
    BY DEF ListsInv, TypeOK
  <2>2. ToSet(active) \subseteq Timers /\ ToSet(fired) \subseteq Timers
    BY <2>1, ElementsOf
  <2>3. Cardinality(ToSet(active)) = Len(active) /\ Cardinality(ToSet(fired)) = Len(fired)
    BY <2>1, DifferentElements DEF Distinct
  <2> QED BY <2>1, <2>2, <2>3 DEF ListsMatchStates
<1> QED BY <1>1, ListsInvariant, PTL

---------------------------------------------------------------------------
(* The hardware.                                                            *)

\* The hardware runs for a first timer that is due d ticks after it was started.  It is
\* ahead of the list by the tick LoadDelta takes off, and behind it by at most two: one
\* for a load of 1 where 0 was due, one for a tick that finds the counter not loaded yet.
RunsFor(h, d) ==
  /\ h.enabled = TRUE
  /\ h.value <= Max2(d, LoadDelta)
  /\ h.value + h.elapsed + LoadDelta >= d
  /\ h.value > 0 => h.value + h.elapsed <= d + 2
  /\ h.value >= 2 => h.value + h.elapsed <= d
  /\ h.fresh = TRUE => h.value > 0 /\ h.value + h.elapsed <= d + 1
  /\ h.fresh = TRUE /\ h.value >= 2 => h.value + h.elapsed = d - 1

ClockInv ==
  IF active = <<>> THEN hw.enabled = FALSE /\ hw.irq = FALSE
  ELSE /\ RunsFor(hw, DueAfter)
       /\ hw.value > 0 \/ hw.irq = TRUE \/ handler = "entered"

LEMMA LoadedRuns ==
  ASSUME NEW h \in HwStates, NEW d \in Nat, NEW y, y = Loaded(h, d)
  PROVE  RunsFor(y, d) /\ y.value > 0
<1>1. /\ y.enabled = TRUE /\ y.value = Max2(d - LoadDelta, 1) /\ y.fresh = TRUE
      /\ y.elapsed = 0
  BY LoadedIs
<1> QED BY <1>1 DEF RunsFor, Max2, LoadDelta

LEMMA TickRuns ==
  ASSUME NEW h \in HwStates, NEW d \in Nat, RunsFor(h, d),
         NEW y \in HwStates, y.enabled = TRUE, y.fresh = FALSE, y.elapsed = h.elapsed + 1,
         Counts(h, y.value)
  PROVE  RunsFor(y, d)
<1>1. /\ h.value \in Nat /\ h.elapsed \in Nat /\ y.value \in Nat /\ y.elapsed \in Nat
  BY DEF HwStates
<1>2. /\ h.value <= Max2(d, 1)
      /\ h.value + h.elapsed + 1 >= d
      /\ h.value > 0 => h.value + h.elapsed <= d + 2
      /\ h.value >= 2 => h.value + h.elapsed <= d
      /\ h.fresh = TRUE => h.value > 0 /\ h.value + h.elapsed <= d + 1
      /\ h.fresh = TRUE /\ h.value >= 2 => h.value + h.elapsed = d - 1
  BY DEF RunsFor, LoadDelta
<1>3. CASE h.value = 0 /\ y.value = 0
  BY <1>1, <1>2, <1>3 DEF RunsFor, Max2, LoadDelta
<1>4. CASE h.value > 0 /\ y.value = h.value - 1
  BY <1>1, <1>2, <1>4 DEF RunsFor, Max2, LoadDelta
<1>5. CASE h.value > 0 /\ y.value = h.value /\ h.fresh = TRUE
  BY <1>1, <1>2, <1>5 DEF RunsFor, Max2, LoadDelta
<1> QED BY <1>3, <1>4, <1>5 DEF Counts

LEMMA ClockInit ==
  ASSUME Init
  PROVE  ClockInv
BY DEF Init, ClockInv, Stopped

LEMMA ClockStep ==
  ASSUME ListsInv, ClockInv, [Next]_vars
  PROVE  ClockInv'
<1>1. /\ hw \in HwStates /\ hw.value \in Nat /\ hw.elapsed \in Nat /\ DueAfter \in Nat
      /\ active \in Seq(Timers)
  BY ActiveFacts
<1>2. CASE UNCHANGED vars
  BY <1>2 DEF vars, ClockInv, DueAfter, RunsFor
<1>3. CASE Tick
  <2>1. /\ hw' \in HwStates
        /\ hw'.enabled = hw.enabled /\ hw.enabled = TRUE
        /\ hw'.fresh = FALSE /\ hw'.elapsed = hw.elapsed + 1
        /\ hw'.irq = (hw.irq \/ (hw.value > 0 /\ hw'.value = 0))
        /\ Counts(hw, hw'.value)
    BY <1>1, <1>3, TickIs
  <2>2. active' = active /\ time' = time /\ handler' = handler
    BY <1>3 DEF Tick
  <2>3. active # <<>> /\ DueAfter' = DueAfter
    BY <2>1, <2>2 DEF ClockInv, DueAfter
  <2>4. RunsFor(hw, DueAfter) /\ (hw.value > 0 \/ hw.irq = TRUE \/ handler = "entered")
    BY <2>3 DEF ClockInv
  <2>5. RunsFor(hw', DueAfter)
    <3> DEFINE y == hw'
               d == DueAfter
    <3>1. /\ y \in HwStates /\ y.enabled = TRUE /\ y.fresh = FALSE
          /\ y.elapsed = hw.elapsed + 1 /\ Counts(hw, y.value)
          /\ d \in Nat /\ RunsFor(hw, d)
      BY <1>1, <2>1, <2>4
    <3> HIDE DEF y, d
    <3>2. RunsFor(y, d)
      BY ONLY <1>1, <3>1, TickRuns
    <3> QED BY <3>2 DEF y, d
  <2>6. hw'.value > 0 \/ hw'.irq = TRUE \/ handler' = "entered"
    <3>1. hw'.value \in Nat /\ hw.irq \in BOOLEAN
      BY <1>1, <2>1 DEF HwStates
    <3>2. CASE hw.value > 0 /\ hw'.value = 0
      BY <2>1, <3>2
    <3>3. CASE ~(hw.value > 0) /\ hw.irq = TRUE
      BY <2>1, <3>3
    <3>4. CASE ~(hw.value > 0) /\ handler = "entered"
      BY <2>2, <3>4
    <3>5. hw'.value > 0 \/ hw'.value = 0
      BY <3>1
    <3> QED BY <2>4, <3>2, <3>3, <3>4, <3>5, Zenon
  <2> QED BY <2>2, <2>3, <2>5, <2>6 DEF ClockInv
<1>4. CASE hal_timer01_irq_handler
  <2>1. /\ active' = active /\ time' = time /\ handler' = "entered" /\ hw.irq = TRUE
        /\ hw' = [hw EXCEPT !.irq = FALSE]
    BY <1>1, <1>4 DEF hal_timer01_irq_handler, HwStates
  <2>2. /\ hw'.enabled = hw.enabled /\ hw'.value = hw.value /\ hw'.fresh = hw.fresh
        /\ hw'.elapsed = hw.elapsed
    BY <1>1, <2>1, Zenon DEF HwStates
  <2>3. active # <<>> /\ RunsFor(hw, DueAfter) /\ DueAfter' = DueAfter
    BY <2>1 DEF ClockInv, DueAfter
  <2>4. RunsFor(hw', DueAfter)
    BY <2>2, <2>3 DEF RunsFor
  <2> QED BY <2>1, <2>3, <2>4 DEF ClockInv
<1>5. CASE HandlerEarly
  <2>1. /\ active' = active /\ time' = time /\ hw' = hw
        /\ active # <<>> => DueAfter > hw.elapsed + LoadDelta
    BY <1>5 DEF HandlerEarly, Early, DueAfter
  <2>2. DueAfter' = DueAfter
    BY <2>1 DEF DueAfter
  <2>3. ASSUME active # <<>> PROVE RunsFor(hw, DueAfter) /\ hw.value > 0
    <3>1. RunsFor(hw, DueAfter)
      BY <2>3 DEF ClockInv
    <3>2. hw.value + hw.elapsed + LoadDelta >= DueAfter
      BY <3>1 DEF RunsFor
    <3>3. hw.value > 0
      BY <1>1, <2>1, <2>3, <3>2 DEF LoadDelta
    <3> QED BY <3>1, <3>3
  <2> QED BY <2>1, <2>2, <2>3 DEF ClockInv
<1>6. CASE HandlerFires
  <2>1. hw' = IF active' = <<>> THEN Stopped ELSE Loaded(hw, DueAfter')
    BY <1>6, FiresIs
  <2>2. CASE active' = <<>>
    BY <2>1, <2>2, StoppedIs DEF ClockInv
  <2>3. CASE active' # <<>>
    <3>1. active' \in Seq(Timers) /\ time' \in [Timers -> Nat]
      BY <1>6, HandlerFiresLists
    <3>2. DueAfter' \in Nat /\ hw' = Loaded(hw, DueAfter')
      BY <2>1, <2>3, <3>1 DEF DueAfter
    <3>3. RunsFor(hw', DueAfter') /\ hw'.value > 0
      BY <1>1, <3>2, LoadedRuns
    <3> QED BY <2>3, <3>3 DEF ClockInv
  <2> QED BY <2>2, <2>3
<1>7. CASE CallbackReturns
  <2>1. active' = active /\ time' = time /\ hw' = hw /\ handler # "entered"
    BY <1>7 DEF CallbackReturns
  <2> QED BY <2>1 DEF ClockInv, DueAfter
<1>8. ASSUME NEW t \in Timers, hwtimer_alloc(t) \/ hwtimer_free(t) \/ StopFired(t)
      PROVE  ClockInv'
  <2>1. active' = active /\ time' = time /\ hw' = hw /\ handler' = handler
    BY <1>8 DEF hwtimer_alloc, hwtimer_free, StopFired
  <2> QED BY <2>1 DEF ClockInv, DueAfter
<1>9. ASSUME NEW t \in Timers, NEW asked \in Durations, hwtimer_start(t, asked)
      PROVE  ClockInv'
  <2> DEFINE ticks == Max2(asked, LoadDelta)
  <2>1. /\ ticks \in Nat /\ t \notin ToSet(active) /\ handler' = handler
        /\ StartFirst(t, ticks) \/ StartBefore(t, ticks) \/ StartBehind(t, ticks)
    BY <1>9, StartIs
  <2> HIDE DEF ticks
  <2>2. CASE StartFirst(t, ticks)
    <3>1. hw' = Loaded(hw, ticks) /\ active' # <<>>
      BY <2>2 DEF StartFirst
    <3>2. DueAfter' = ticks
      BY <2>1, <2>2, StartFirstLists
    <3>3. RunsFor(hw', ticks) /\ hw'.value > 0
      BY <1>1, <2>1, <3>1, LoadedRuns
    <3> QED BY <3>1, <3>2, <3>3 DEF ClockInv
  <2>3. CASE StartBefore(t, ticks)
    <3>1. hw' = Loaded(Stopped, ticks) /\ active' = <<t>> \o active
      BY <2>3 DEF StartBefore
    <3>2. DueAfter' = ticks
      BY <2>1, <2>3, StartBeforeLists
    <3>3. RunsFor(hw', ticks) /\ hw'.value > 0
      BY <2>1, <3>1, LoadedRuns, StoppedIs
    <3>4. active' # <<>>
      BY <1>1, <3>1
    <3> QED BY <3>2, <3>3, <3>4 DEF ClockInv
  <2>4. CASE StartBehind(t, ticks)
    <3>1. hw' = hw /\ active # <<>>
      BY <2>4 DEF StartBehind
    <3>2. DueAfter' = DueAfter
      BY <2>1, <2>4, StartBehindLists
    <3>3. active' # <<>>
      <4>1. Joins(t)
        BY <1>9, StartIs
      <4>2. t \in ToSet(active')
        BY <4>1 DEF Joins, Adds
      <4> QED BY <4>2 DEF ToSet
    <3> QED BY <2>1, <3>1, <3>2, <3>3 DEF ClockInv
  <2> QED BY <2>1, <2>2, <2>3, <2>4
<1>10. ASSUME NEW t \in Timers, StopActive(t)
       PROVE  ClockInv'
  <2>1. (StopFirst(t) \/ StopBehind(t)) /\ handler' = handler
    BY <1>10, StopIs
  <2>2. CASE StopFirst(t)
    <3>1. hw' = IF active' = <<>> THEN Stopped ELSE Loaded(Stopped, DueAfter')
      <4>1. hw' = IF active' = <<>> THEN Stopped ELSE Loaded(Stopped, time'[active'[1]])
        BY <2>2 DEF StopFirst
      <4> QED BY <4>1 DEF DueAfter
    <3>2. CASE active' = <<>>
      BY <3>1, <3>2, StoppedIs DEF ClockInv
    <3>3. CASE active' # <<>>
      <4>1. Leaves(t)
        BY <1>10, StopIs
      <4>2. DueAfter' \in Nat /\ hw' = Loaded(Stopped, DueAfter')
        BY <3>1, <3>3, <4>1 DEF DueAfter, Leaves
      <4>3. RunsFor(hw', DueAfter') /\ hw'.value > 0
        BY <4>2, LoadedRuns, StoppedIs
      <4> QED BY <3>3, <4>3 DEF ClockInv
    <3> QED BY <3>2, <3>3
  <2>3. CASE StopBehind(t)
    <3>1. hw' = hw
      BY <2>3 DEF StopBehind
    <3>2. active # <<>> /\ active' # <<>> /\ DueAfter' = DueAfter
      BY <2>3, StopBehindLists
    <3> QED BY <2>1, <3>1, <3>2 DEF ClockInv
  <2> QED BY <2>1, <2>2, <2>3
<1> QED BY <1>2, <1>3, <1>4, <1>5, <1>6, <1>7, <1>8, <1>9, <1>10 DEF Next, Handler

LEMMA ClockInvariant == Spec => [](ListsInv /\ ClockInv)
BY ListsInit, ListsStep, ClockInit, ClockStep, PTL DEF Spec

\* None of the ASSERTs "HWTIMER collapsed" fails, whatever is started and stopped while
\* an interrupt is pending or a callback runs, and the hardware never rests while a
\* timer is active.
THEOREM HardwareFollowsTheList == Spec => []NoCollapse
<1>1. ListsInv /\ ClockInv => NoCollapse
  <2> SUFFICES ASSUME ListsInv, ClockInv PROVE NoCollapse
    OBVIOUS
  <2>1. hw.value \in Nat /\ hw.elapsed \in Nat
    BY ActiveFacts
  <2>2. CASE active = <<>>
    BY <2>2 DEF NoCollapse, ClockInv
  <2>3. CASE active # <<>>
    <3>1. /\ RunsFor(hw, DueAfter) /\ DueAfter = time[active[1]]
          /\ hw.value > 0 \/ hw.irq = TRUE \/ handler = "entered"
      BY <2>3 DEF ClockInv, DueAfter
    <3>2. /\ hw.enabled = TRUE /\ hw.value <= Max2(time[active[1]], LoadDelta)
          /\ hw.value + hw.elapsed + LoadDelta >= time[active[1]]
      BY <3>1 DEF RunsFor
    <3>3. hw.value = 0 => hw.elapsed + LoadDelta >= time[active[1]]
      BY <2>1, <3>2 DEF LoadDelta
    <3> QED BY <2>3, <3>1, <3>2, <3>3 DEF NoCollapse
  <2> QED BY <2>2, <2>3
<1> QED BY <1>1, ClockInvariant, PTL

---------------------------------------------------------------------------
(* The deltas.                                                              *)

\* By how much the hardware is behind a list whose first timer is due after `due`.
Behind(h, due) == h.value + h.elapsed - due

\* What the list and the ticks since the hardware was started leave a timer with: not
\* less than what its client has to wait but for d ticks, and not more but for d and
\* the tick LoadDelta took off, which a hardware that is behind has given back.
Fits(l, r, d, h, due) ==
  /\ l - r <= d
  /\ Behind(h, due) = -1 => l - r <= d - 1
  /\ r <= Max2(l, 0) + d + 1
  /\ Behind(h, due) >= 1 /\ h.fresh = TRUE => r <= Max2(l, 0) + d
  /\ Behind(h, due) >= 2 /\ h.value > 0 => r <= Max2(l, 0) + d

\* What the timer at place j has left by the list.
Rest(j) == (DueAfter + UpTo(j)) - hw.elapsed

SumInv ==
  \A j \in 1..Len(active) :
    Fits(left[active[j]] - ahead[active[j]], Rest(j), drift[active[j]], hw, DueAfter)

\* No timer is called back early.
DueInv ==
  \A t \in Timers : state[t] \in {"FIRED", "CALLBACK"} => left[t] <= drift[t] + ahead[t]

LEMMA LoadedFits ==
  ASSUME NEW h \in HwStates, NEW due \in Nat, NEW y, y = Loaded(h, due),
         NEW l \in Int, NEW r \in Int, NEW d \in Nat,
         l - r <= d - 1, r <= Max2(l, 0) + d + 1, due = 0 => r <= Max2(l, 0) + d
  PROVE  Fits(l, r, d, y, due)
<1>1. /\ y.value = Max2(due - 1, 1) /\ y.fresh = TRUE /\ y.elapsed = 0
  BY LoadedIs DEF LoadDelta
<1>2. CASE due = 0
  <2>1. Behind(y, due) = 1 /\ y.value = 1
    BY <1>1, <1>2 DEF Behind, Max2
  <2> QED BY <1>2, <2>1 DEF Fits, Max2
<1>3. CASE due > 0
  <2>1. Behind(y, due) \in {-1, 0}
    BY <1>1, <1>3 DEF Behind, Max2
  <2> QED BY <2>1 DEF Fits, Max2
<1> QED BY <1>2, <1>3

LEMMA TickFits ==
  ASSUME NEW h \in HwStates, NEW due \in Nat, RunsFor(h, due),
         NEW y \in HwStates, y.fresh = FALSE, y.elapsed = h.elapsed + 1, Counts(h, y.value),
         NEW l \in Int, NEW r \in Int, NEW d \in Nat, Fits(l, r, d, h, due)
  PROVE  Fits(l - 1, r - 1, d, y, due)
<1>1. /\ h.value \in Nat /\ h.elapsed \in Nat /\ y.value \in Nat /\ y.elapsed \in Nat
  BY DEF HwStates
<1>2. PICK b \in Int : b = Behind(h, due)
  BY <1>1 DEF Behind
<1>3. b >= -1
  BY <1>1, <1>2 DEF RunsFor, Behind, LoadDelta
<1>4. /\ l - r <= d
      /\ b = -1 => l - r <= d - 1
      /\ r <= Max2(l, 0) + d + 1
      /\ b >= 1 /\ h.fresh = TRUE => r <= Max2(l, 0) + d
      /\ b >= 2 /\ h.value > 0 => r <= Max2(l, 0) + d
  BY <1>2 DEF Fits
<1>5. CASE h.value > 0 /\ y.value = h.value - 1
  <2>1. Behind(y, due) = b
    BY <1>1, <1>2, <1>5 DEF Behind
  <2> QED BY <1>1, <1>4, <1>5, <2>1 DEF Fits, Max2
<1>6. CASE h.value > 0 /\ y.value = h.value /\ h.fresh = TRUE
  <2>1. Behind(y, due) = b + 1
    BY <1>1, <1>2, <1>6 DEF Behind
  <2> QED BY <1>1, <1>3, <1>4, <1>6, <2>1 DEF Fits, Max2
<1>7. CASE h.value = 0 /\ y.value = 0
  <2>1. Behind(y, due) = b + 1
    BY <1>1, <1>2, <1>7 DEF Behind
  <2> QED BY <1>1, <1>3, <1>4, <1>7, <2>1 DEF Fits, Max2
<1> QED BY <1>5, <1>6, <1>7 DEF Counts

LEMMA SameFits ==
  ASSUME NEW h, NEW y, y.value = h.value, y.elapsed = h.elapsed, y.fresh = h.fresh,
         NEW l, NEW r, NEW d, NEW due, Fits(l, r, d, h, due)
  PROVE  Fits(l, r, d, y, due)
BY DEF Fits, Behind

\* The hardware is started anew while it still counts: StartBefore, and StopFirst of a
\* timer that is not due yet.
LEMMA ReloadedFits ==
  ASSUME NEW h \in HwStates, NEW due \in Nat, RunsFor(h, due), h.value > 0,
         NEW due2 \in Nat, due2 > 0, NEW y, y = Loaded(Stopped, due2),
         NEW l \in Int, NEW r \in Int, NEW d \in Nat, Fits(l, r, d, h, due),
         NEW r2, r2 = r + Behind(h, due), NEW d2, d2 = d + LoadDelta
  PROVE  Fits(l, r2, d2, y, due2)
<1>1. h.value \in Nat /\ h.elapsed \in Nat
  BY DEF HwStates
<1>2. PICK b \in Int : b = Behind(h, due)
  BY <1>1 DEF Behind
<1>3. b >= -1 /\ b <= 2
  BY <1>1, <1>2 DEF RunsFor, Behind, LoadDelta
<1>4. /\ l - r <= d
      /\ b = -1 => l - r <= d - 1
      /\ r <= Max2(l, 0) + d + 1
      /\ b >= 2 => r <= Max2(l, 0) + d
  BY <1>2 DEF Fits
<1>5. r2 \in Int /\ r2 = r + b /\ d2 \in Nat /\ d2 = d + 1
  BY <1>2 DEF LoadDelta
<1>6. l - r2 <= d2 - 1 /\ r2 <= Max2(l, 0) + d2 + 1
  BY <1>3, <1>4, <1>5 DEF Max2
<1> QED BY <1>5, <1>6, LoadedFits, StoppedIs

\* The first timer is overdue and is stopped: what is left of the overrun counts.
LEMMA OverdueFits ==
  ASSUME NEW h \in HwStates, NEW due \in Nat, RunsFor(h, due), h.value = 0,
         NEW due2 \in Nat, NEW y, y = Loaded(Stopped, due2),
         NEW l \in Int, NEW r \in Int, NEW d \in Nat, Fits(l, r, d, h, due),
         NEW u \in Nat, r = due + u - h.elapsed,
         NEW over, over = Max2(h.elapsed - due, 0),
         NEW r2, r2 = Max2(u, over) - over, NEW d2, d2 = d + LoadDelta
  PROVE  Fits(l, r2, d2, y, due2)
<1>1. h.value \in Nat /\ h.elapsed \in Nat
  BY DEF HwStates
<1>2. PICK b \in Int : b = Behind(h, due)
  BY <1>1 DEF Behind
<1>3. b >= -1 /\ b = h.elapsed - due
  BY <1>1, <1>2 DEF RunsFor, Behind, LoadDelta
<1>4. /\ l - r <= d
      /\ b = -1 => l - r <= d - 1
      /\ r <= Max2(l, 0) + d + 1
  BY <1>2 DEF Fits
<1>5. r2 \in Int /\ d2 \in Nat /\ d2 = d + 1
  BY <1>1 DEF LoadDelta, Max2
<1>6. l - r2 <= d2 - 1 /\ r2 <= Max2(l, 0) + d2
  BY <1>1, <1>3, <1>4, <1>5 DEF Max2
<1>7. r2 <= Max2(l, 0) + d2 + 1 /\ (due2 = 0 => r2 <= Max2(l, 0) + d2)
  BY <1>5, <1>6 DEF Max2
<1> QED BY ONLY <1>5, <1>6, <1>7, LoadedFits, StoppedIs, due2 \in Nat, y = Loaded(Stopped, due2),
                l \in Int

\* The handler leaves a timer on the active list.
LEMMA WaitingFits ==
  ASSUME NEW h \in HwStates, NEW due \in Nat, due <= h.elapsed + LoadDelta,
         NEW due2 \in Nat, NEW y, y = Loaded(h, due2),
         NEW l \in Int, NEW r \in Int, NEW d \in Nat, Fits(l, r, d, h, due),
         NEW u \in Nat, r = due + u - h.elapsed,
         NEW r2, r2 = u - Max2(h.elapsed - due, 0),
         NEW d2, d2 = d + (IF h.value > 0 THEN LoadDelta ELSE 0) + LoadDelta
  PROVE  Fits(l, r2, d2, y, due2)
<1>1. h.value \in Nat /\ h.elapsed \in Nat
  BY DEF HwStates
<1>2. /\ l - r <= d
      /\ h.value + h.elapsed - due = -1 => l - r <= d - 1
      /\ r <= Max2(l, 0) + d + 1
  BY DEF Fits, Behind
<1>3. r2 \in Int /\ d2 \in Nat /\ d2 = d + (IF h.value > 0 THEN 1 ELSE 0) + 1
  BY <1>1 DEF LoadDelta, Max2
<1>4. l - r2 <= d2 - 1 /\ r2 <= Max2(l, 0) + d2
  BY <1>1, <1>2, <1>3 DEF Max2, LoadDelta
<1>5. r2 <= Max2(l, 0) + d2 + 1 /\ (due2 = 0 => r2 <= Max2(l, 0) + d2)
  BY <1>3, <1>4 DEF Max2
<1> QED BY ONLY <1>3, <1>4, <1>5, LoadedFits, h \in HwStates, due2 \in Nat, y = Loaded(h, due2),
                l \in Int

\* The handler calls a timer back.
LEMMA DueFits ==
  ASSUME NEW h \in HwStates, NEW due \in Nat, due <= h.elapsed + LoadDelta,
         NEW l \in Int, NEW r \in Int, NEW d \in Nat, Fits(l, r, d, h, due),
         NEW u \in Nat, r = due + u - h.elapsed, u <= Max2(h.elapsed - due, 0)
  PROVE  l <= d + (IF h.value > 0 THEN LoadDelta ELSE 0)
<1>1. h.value \in Nat /\ h.elapsed \in Nat
  BY DEF HwStates
<1>2. /\ l - r <= d
      /\ h.value + h.elapsed - due = -1 => l - r <= d - 1
  BY DEF Fits, Behind
<1> QED BY <1>1, <1>2 DEF Max2, LoadDelta

\* The timer that is started behind the first one.
LEMMA StartedFits ==
  ASSUME NEW h \in HwStates, NEW due \in Nat, RunsFor(h, due), NEW ticks \in Nat,
         NEW r, r = (due + (ticks - h.value)) - h.elapsed,
         NEW d, d = IF h.value = 0 THEN 0
                    ELSE Max2(h.elapsed + h.value + (IF h.fresh THEN LoadDelta ELSE 0) - due, 0),
         NEW l, l = ticks - (IF h.value = 0 THEN Max2(h.elapsed - due, 0) ELSE 0)
  PROVE  Fits(l, r, d, h, due)
<1>1. h.value \in Nat /\ h.elapsed \in Nat
  BY DEF HwStates
<1>2. PICK b \in Int : b = Behind(h, due)
  BY <1>1 DEF Behind
<1>3. b >= -1 /\ r = ticks - b
  BY <1>1, <1>2 DEF RunsFor, Behind, LoadDelta
<1>4. CASE h.value = 0
  <2>1. d = 0 /\ l = ticks - Max2(b, 0)
    BY <1>1, <1>2, <1>4 DEF Behind
  <2>2. l \in Int /\ (b >= 0 => r = l) /\ (b = -1 => r = l + 1)
    BY <1>2, <1>3, <2>1 DEF Max2
  <2> QED BY <1>2, <1>3, <1>4, <2>1, <2>2 DEF Fits, Max2
<1>5. CASE h.value # 0
  <2>1. d \in Nat /\ d >= b /\ l = ticks
    BY <1>1, <1>2, <1>5 DEF Behind, LoadDelta, Max2
  <2> QED BY <1>2, <1>3, <2>1 DEF Fits, Max2
<1> QED BY <1>4, <1>5

LEMMA SameList ==
  ASSUME active' = active, time' = time
  PROVE  DueAfter' = DueAfter /\ \A j : UpTo(j)' = UpTo(j)
BY UpToIsSums DEF DueAfter

\* What the lemmas above ask for, at every place of the list.
LEMMA PlaceFacts ==
  ASSUME ListsInv, ClockInv, SumInv, NEW j \in 1..Len(active)
  PROVE  /\ active # <<>> /\ active[j] \in Timers /\ active[j] \in ToSet(active)
         /\ RunsFor(hw, DueAfter) /\ hw \in HwStates /\ DueAfter \in Nat
         /\ hw.value \in Nat /\ hw.elapsed \in Nat
         /\ left[active[j]] \in Int /\ ahead[active[j]] \in Nat
         /\ left[active[j]] - ahead[active[j]] \in Int
         /\ drift[active[j]] \in Nat /\ UpTo(j) \in Nat
         /\ Rest(j) \in Int /\ Rest(j) = DueAfter + UpTo(j) - hw.elapsed
         /\ Fits(left[active[j]] - ahead[active[j]], Rest(j), drift[active[j]], hw, DueAfter)
<1>1. /\ active \in Seq(Timers) /\ Len(active) \in Nat /\ time \in [Timers -> Nat]
      /\ hw \in HwStates /\ DueAfter \in Nat /\ hw.value \in Nat /\ hw.elapsed \in Nat
      /\ active[j] \in Timers
  BY ActiveFacts
<1>2. left \in [Timers -> Int] /\ drift \in [Timers -> Nat] /\ ahead \in [Timers -> Nat]
  BY DEF ListsInv, TypeOK
<1>3. active # <<>>
  BY <1>1
<1>4. UpTo(j) \in Nat
  BY <1>1, UpToFacts
<1>5. Rest(j) \in Int /\ Rest(j) = DueAfter + UpTo(j) - hw.elapsed
  BY <1>1, <1>4 DEF Rest
<1>6. RunsFor(hw, DueAfter)
  BY <1>3 DEF ClockInv
<1>7. active[j] \in ToSet(active)
  BY <1>1, ElementsOf
<1>8. /\ left[active[j]] \in Int /\ ahead[active[j]] \in Nat
      /\ drift[active[j]] \in Nat
  BY <1>1, <1>2
<1>9. left[active[j]] - ahead[active[j]] \in Int
  BY ONLY <1>8
<1>10. Fits(left[active[j]] - ahead[active[j]], Rest(j), drift[active[j]], hw, DueAfter)
  BY DEF SumInv
<1> QED BY <1>1, <1>3, <1>4, <1>5, <1>6, <1>7, <1>8, <1>9, <1>10

LEMMA TickSums ==
  ASSUME ListsInv, ClockInv, SumInv, Tick
  PROVE  SumInv'
<1>1. /\ hw' \in HwStates /\ hw'.fresh = FALSE /\ hw'.elapsed = hw.elapsed + 1
      /\ Counts(hw, hw'.value)
  BY TickIs, ActiveFacts
<1>2. /\ active' = active /\ time' = time /\ drift' = drift /\ ahead' = ahead
      /\ left' = [t \in Timers |-> IF state[t] = "ACTIVE" THEN left[t] - 1 ELSE left[t]]
  BY DEF Tick
<1>3. DueAfter' = DueAfter /\ \A j : UpTo(j)' = UpTo(j)
  BY <1>2, SameList
<1>4. ASSUME NEW j \in 1..Len(active)
      PROVE  Fits(left'[active[j]] - ahead'[active[j]], Rest(j)', drift[active[j]], hw', DueAfter)
  <2> DEFINE l == left[active[j]] - ahead[active[j]]
             r == Rest(j)
             d == drift[active[j]]
             y == hw'
             due == DueAfter
  <2>1. /\ active[j] \in Timers /\ active[j] \in ToSet(active)
        /\ RunsFor(hw, due) /\ hw \in HwStates /\ due \in Nat
        /\ l \in Int /\ d \in Nat /\ r \in Int /\ Fits(l, r, d, hw, due)
        /\ UpTo(j) \in Nat /\ hw.elapsed \in Nat /\ r = due + UpTo(j) - hw.elapsed
    BY PlaceFacts
  <2>2. left'[active[j]] - ahead'[active[j]] = l - 1
    <3>1. state[active[j]] = "ACTIVE"
      BY <2>1 DEF ListsInv
    <3>2. left'[active[j]] = left[active[j]] - 1 /\ ahead'[active[j]] = ahead[active[j]]
      BY <1>2, <2>1, <3>1
    <3>3. left[active[j]] \in Int /\ ahead[active[j]] \in Nat
      BY PlaceFacts
    <3> QED BY ONLY <3>2, <3>3
  <2>3. Rest(j)' = r - 1
    BY <1>1, <1>3, <2>1 DEF Rest
  <2>4. y \in HwStates /\ y.fresh = FALSE /\ y.elapsed = hw.elapsed + 1 /\ Counts(hw, y.value)
    BY <1>1
  <2> HIDE DEF l, r, d, y, due
  <2>5. Fits(l - 1, r - 1, d, y, due)
    BY ONLY <2>1, <2>4, TickFits
  <2> QED BY <2>2, <2>3, <2>5 DEF d, y, due
<1> QED BY <1>2, <1>3, <1>4 DEF SumInv

\* An operation that leaves the hardware, the list and what it says of its timers alone.
LEMMA SameSums ==
  ASSUME SumInv, UNCHANGED <<active, time>>,
         hw'.value = hw.value, hw'.elapsed = hw.elapsed, hw'.fresh = hw.fresh,
         \A j \in 1..Len(active) :
           /\ left'[active[j]] = left[active[j]] /\ ahead'[active[j]] = ahead[active[j]]
           /\ drift'[active[j]] = drift[active[j]]
  PROVE  SumInv'
<1>1. DueAfter' = DueAfter /\ \A j : UpTo(j)' = UpTo(j)
  BY SameList
<1>2. ASSUME NEW j \in 1..Len(active)
      PROVE  Fits(left[active[j]] - ahead[active[j]], Rest(j)', drift[active[j]], hw', DueAfter)
  <2>1. Rest(j)' = Rest(j)
    BY <1>1 DEF Rest
  <2>2. Fits(left[active[j]] - ahead[active[j]], Rest(j), drift[active[j]], hw, DueAfter)
    BY DEF SumInv
  <2> QED BY <2>1, <2>2 DEF Fits, Behind
<1> QED BY <1>1, <1>2 DEF SumInv

\* A timer that is started while the first one is not overdue has no head start.
LEMMA AsksAll ==
  ASSUME ListsInv, NEW t \in Timers, NEW ticks \in Nat, Asks(t, ticks)
  PROVE  /\ left'[t] - ahead'[t] = ticks - HeadStart
         /\ HeadStart \in Nat /\ (active = <<>> \/ hw.value > 0 => HeadStart = 0)
         /\ \A u \in Timers \ {t} : left'[u] = left[u] /\ ahead'[u] = ahead[u]
<1>1. left \in [Timers -> Int] /\ ahead \in [Timers -> Nat]
  BY DEF ListsInv, TypeOK
<1>2. left'[t] = ticks /\ ahead'[t] = HeadStart
  BY <1>1 DEF Asks
<1>3. \A u \in Timers \ {t} : left'[u] = left[u] /\ ahead'[u] = ahead[u]
  BY <1>1 DEF Asks
<1>4. HeadStart \in Nat /\ (active = <<>> \/ hw.value > 0 => HeadStart = 0)
  BY ActiveFacts DEF HeadStart
<1> QED BY <1>2, <1>3, <1>4

LEMMA EndsOne ==
  ASSUME ListsInv, NEW t \in Timers, Ends(t)
  PROVE  \A u \in Timers \ {t} : left'[u] = left[u] /\ ahead'[u] = ahead[u]
<1>1. left \in [Timers -> Int] /\ ahead \in [Timers -> Nat]
  BY DEF ListsInv, TypeOK
<1> QED BY <1>1 DEF Ends

LEMMA StartFirstSums ==
  ASSUME ListsInv, NEW t \in Timers, NEW ticks \in Nat \ {0}, StartFirst(t, ticks),
         Asks(t, ticks)
  PROVE  SumInv'
<1>1. /\ Len(active') = 1 /\ active'[1] = t /\ DueAfter' = ticks /\ UpTo(1)' = 0
  BY StartFirstLists
<1>2. /\ left'[t] - ahead'[t] = ticks /\ drift'[t] = LoadDelta
      /\ hw' = Loaded(hw, ticks) /\ hw \in HwStates
  <2>1. drift'[t] = LoadDelta /\ hw' = Loaded(hw, ticks) /\ hw \in HwStates /\ active = <<>>
    BY ActiveFacts DEF StartFirst, ListsInv, TypeOK
  <2>2. left'[t] - ahead'[t] = ticks - 0
    BY <2>1, AsksAll
  <2> QED BY <2>1, <2>2
<1>3. Rest(1)' = ticks
  <2>1. hw'.elapsed = 0
    BY <1>2, LoadedIs
  <2> QED BY <1>1, <2>1 DEF Rest
<1>4. Fits(ticks, ticks, LoadDelta, hw', ticks)
  <2> DEFINE y == hw'
  <2>1. /\ ticks - ticks <= LoadDelta - 1 /\ ticks <= Max2(ticks, 0) + LoadDelta + 1
        /\ ticks # 0 /\ ticks \in Int /\ ticks \in Nat /\ LoadDelta \in Nat
    BY DEF LoadDelta, Max2
  <2>2. y = Loaded(hw, ticks) /\ hw \in HwStates
    BY <1>2
  <2> HIDE DEF y
  <2>3. Fits(ticks, ticks, LoadDelta, y, ticks)
    BY ONLY <2>1, <2>2, LoadedFits
  <2> QED BY <2>3 DEF y
<1> QED BY <1>1, <1>2, <1>3, <1>4 DEF SumInv

LEMMA StartBeforeSums ==
  ASSUME ListsInv, ClockInv, SumInv, NEW t \in Timers, t \notin ToSet(active),
         NEW ticks \in Nat \ {0}, StartBefore(t, ticks), Asks(t, ticks)
  PROVE  SumInv'
<1>1. /\ Len(active') = Len(active) + 1 /\ active'[1] = t /\ DueAfter' = ticks
      /\ UpTo(1)' = 0
      /\ \A k \in 1..Len(active) : /\ active'[k + 1] = active[k]
                                   /\ UpTo(k + 1)' = hw.value - ticks + UpTo(k)
  BY StartBeforeLists
<1>2. /\ hw' = Loaded(Stopped, ticks) /\ hw.value > ticks
      /\ drift' = [Drifted(ToSet(active)) EXCEPT ![t] = LoadDelta]
  BY DEF StartBefore
<1>3. Len(active) \in Nat /\ hw.value \in Nat /\ hw.elapsed \in Nat /\ hw'.elapsed = 0
  BY <1>2, ActiveFacts, LoadedIs, StoppedIs
<1>4. left \in [Timers -> Int] /\ drift \in [Timers -> Nat] /\ ahead \in [Timers -> Nat]
  BY DEF ListsInv, TypeOK
<1>5. Fits(left'[t] - ahead'[t], Rest(1)', drift'[t], hw', DueAfter')
  <2> DEFINE y == hw'
  <2>1. /\ ticks - ticks <= LoadDelta - 1 /\ ticks <= Max2(ticks, 0) + LoadDelta + 1
        /\ ticks # 0 /\ ticks \in Int /\ ticks \in Nat /\ LoadDelta \in Nat
    BY DEF LoadDelta, Max2
  <2>2. y = Loaded(Stopped, ticks)
    BY <1>2
  <2> HIDE DEF y
  <2>3. Fits(ticks, ticks, LoadDelta, y, ticks)
    BY ONLY <2>1, <2>2, LoadedFits, StoppedIs
  <2>4. left'[t] - ahead'[t] = ticks /\ drift'[t] = LoadDelta /\ Rest(1)' = ticks
    <3>1. left'[t] - ahead'[t] = ticks - 0
      BY <1>2, <1>3, AsksAll
    <3> QED BY <1>1, <1>2, <1>3, <1>4, <3>1 DEF Rest, Drifted
  <2> QED BY <1>1, <2>3, <2>4 DEF y
<1>6. ASSUME NEW k \in 1..Len(active)
      PROVE  Fits(left'[active[k]] - ahead'[active[k]], Rest(k + 1)',
                  drift'[active[k]], hw', DueAfter')
  <2> DEFINE u == active[k]
             l == left[u] - ahead[u]
             r == Rest(k)
             d == drift[u]
             y == hw'
             due == DueAfter
             r2 == Rest(k + 1)'
             d2 == drift'[u]
  <2>1. /\ u \in Timers /\ u \in ToSet(active)
        /\ RunsFor(hw, due) /\ hw \in HwStates /\ due \in Nat
        /\ l \in Int /\ d \in Nat /\ r \in Int /\ Fits(l, r, d, hw, due)
        /\ UpTo(k) \in Nat /\ r = due + UpTo(k) - hw.elapsed
    BY PlaceFacts
  <2>2. left'[u] - ahead'[u] = l /\ d2 = d + LoadDelta
    <3>1. left'[u] = left[u] /\ ahead'[u] = ahead[u]
      BY <2>1, AsksAll
    <3> QED BY <1>2, <1>4, <2>1, <3>1 DEF Drifted
  <2>3. r2 = r + Behind(hw, due)
    <3>1. r2 = (ticks + (hw.value - ticks + UpTo(k))) - 0
      BY <1>1, <1>3 DEF Rest
    <3> HIDE DEF r2, r, due
    <3> QED BY <1>3, <2>1, <3>1, SMTT(30) DEF Behind
  <2>4. y = Loaded(Stopped, ticks) /\ ticks \in Nat /\ ticks > 0 /\ hw.value > 0
    BY <1>2, <1>3
  <2> HIDE DEF u, l, r, d, y, due, r2, d2
  <2>5. Fits(l, r2, d2, y, ticks)
    BY ONLY <2>1, <2>2, <2>3, <2>4, ReloadedFits
  <2> QED BY <1>1, <2>2, <2>5 DEF u, l, y, r2, d2
<1>7. ASSUME NEW j \in 1..Len(active')
      PROVE  Fits(left'[active'[j]] - ahead'[active'[j]], Rest(j)',
                  drift'[active'[j]], hw', DueAfter')
  <2>1. CASE j = 1
    BY <1>1, <1>5, <2>1
  <2>2. CASE j # 1
    <3>1. PICK k \in 1..Len(active) : j = k + 1
      <4>1. j - 1 \in 1..Len(active) /\ j = (j - 1) + 1
        BY <1>1, <1>3, <2>2
      <4> QED BY <4>1
    <3>2. active'[j] = active[k]
      BY <1>1, <3>1
    <3> QED BY <1>6, <3>1, <3>2
  <2> QED BY <2>1, <2>2
<1> QED BY <1>7 DEF SumInv

LEMMA StartBehindSums ==
  ASSUME ListsInv, ClockInv, SumInv, NEW t \in Timers, t \notin ToSet(active),
         NEW ticks \in Nat \ {0}, StartBehind(t, ticks), Asks(t, ticks)
  PROVE  SumInv'
<1>1. PICK at \in 2..Len(active) + 1 : WaitsAt(t, ticks - hw.value, at)
  BY StartBehindLists DEF GoesBehind
<1>2. /\ Len(active') = Len(active) + 1
      /\ \A k \in 1..at - 1 : active'[k] = active[k] /\ UpTo(k)' = UpTo(k)
      /\ active'[at] = t /\ UpTo(at)' = ticks - hw.value
      /\ \A k \in at..Len(active) : active'[k + 1] = active[k] /\ UpTo(k + 1)' = UpTo(k)
  BY <1>1 DEF WaitsAt
<1>3. DueAfter' = DueAfter
  BY StartBehindLists
<1>4. /\ hw' = hw /\ active # <<>> /\ hw.value <= ticks
      /\ drift' = [drift EXCEPT ![t] = Foreseen]
  BY DEF StartBehind
<1>5. /\ Len(active) \in Nat /\ hw.value \in Nat /\ hw.elapsed \in Nat /\ hw \in HwStates
      /\ DueAfter \in Nat
  BY ActiveFacts
<1>6. left \in [Timers -> Int] /\ drift \in [Timers -> Nat] /\ ahead \in [Timers -> Nat]
  BY DEF ListsInv, TypeOK
<1>7. Fits(left'[t] - ahead'[t], Rest(at)', drift'[t], hw', DueAfter')
  <2> DEFINE due == DueAfter
             r == Rest(at)'
             d == Foreseen
             l == ticks - HeadStart
  <2>1. /\ left'[t] - ahead'[t] = l /\ drift'[t] = d
        /\ r = (due + (ticks - hw.value)) - hw.elapsed
    BY <1>2, <1>3, <1>4, <1>6, AsksAll DEF Rest
  <2>2. d = IF hw.value = 0 THEN 0
            ELSE Max2(hw.elapsed + hw.value + (IF hw.fresh THEN LoadDelta ELSE 0) - due, 0)
    BY DEF Foreseen
  <2>3. RunsFor(hw, due) /\ due \in Nat /\ ticks \in Nat
    BY <1>4, <1>5 DEF ClockInv
  <2>4. l = ticks - (IF hw.value = 0 THEN Max2(hw.elapsed - due, 0) ELSE 0)
    BY <1>4 DEF HeadStart, Overrun
  <2> HIDE DEF due, r, d, l
  <2>5. Fits(l, r, d, hw, due)
    BY ONLY <1>5, <2>1, <2>2, <2>3, <2>4, StartedFits
  <2> QED BY <1>3, <1>4, <2>1, <2>5 DEF due, r
<1>8. ASSUME NEW k \in 1..Len(active), NEW j, active'[j] = active[k], UpTo(j)' = UpTo(k)
      PROVE  Fits(left'[active'[j]] - ahead'[active'[j]], Rest(j)',
                  drift'[active'[j]], hw', DueAfter')
  <2>1. /\ active[k] \in Timers /\ active[k] # t
        /\ Fits(left[active[k]] - ahead[active[k]], Rest(k), drift[active[k]], hw, DueAfter)
    BY PlaceFacts
  <2>2. /\ left'[active[k]] = left[active[k]] /\ ahead'[active[k]] = ahead[active[k]]
        /\ drift'[active[k]] = drift[active[k]]
    BY <1>4, <1>6, <2>1, AsksAll
  <2>3. Rest(j)' = Rest(k)
    BY <1>3, <1>4, <1>8 DEF Rest
  <2> QED BY <1>3, <1>4, <1>8, <2>1, <2>2, <2>3
<1>9. ASSUME NEW j \in 1..Len(active')
      PROVE  Fits(left'[active'[j]] - ahead'[active'[j]], Rest(j)',
                  drift'[active'[j]], hw', DueAfter')
  <2>1. CASE j < at
    <3>1. j \in 1..at - 1 /\ j \in 1..Len(active)
      BY <1>2, <1>5, <2>1
    <3>2. active'[j] = active[j] /\ UpTo(j)' = UpTo(j)
      BY <1>2, <3>1
    <3> QED BY <1>8, <3>1, <3>2
  <2>2. CASE j = at
    BY <1>2, <1>7, <2>2
  <2>3. CASE j > at
    <3>1. PICK k \in 1..Len(active) : j = k + 1 /\ k \in at..Len(active)
      <4>1. /\ j - 1 \in 1..Len(active) /\ j = (j - 1) + 1 /\ j - 1 \in at..Len(active)
        BY <1>2, <1>5, <2>3
      <4> QED BY <4>1
    <3>2. active'[j] = active[k] /\ UpTo(j)' = UpTo(k)
      BY <1>2, <3>1
    <3> QED BY <1>8, <3>2
  <2> QED BY <1>1, <1>2, <1>5, <2>1, <2>2, <2>3
<1> QED BY <1>9 DEF SumInv

LEMMA StopFirstSums ==
  ASSUME ListsInv, ClockInv, SumInv, NEW t \in Timers, StopFirst(t),
         Ends(t)
  PROVE  SumInv'
<1>1. /\ Leaves(t) /\ Len(active') = Len(active) - 1
      /\ active' # <<>> => UpTo(1)' = 0
      /\ \A k \in 1..Len(active') :
           active'[k] = active[k + 1] /\ DueAfter' + UpTo(k)' = AfterStop(k + 1)
  BY StopFirstLists
<1>2. /\ hw' = IF active' = <<>> THEN Stopped ELSE Loaded(Stopped, DueAfter')
      /\ drift' = [Drifted(ToSet(active')) EXCEPT ![t] = 0]
  <2>1. /\ hw' = IF active' = <<>> THEN Stopped ELSE Loaded(Stopped, time'[active'[1]])
        /\ drift' = [Drifted(ToSet(active')) EXCEPT ![t] = 0]
    BY DEF StopFirst
  <2> QED BY <2>1 DEF DueAfter
<1>3. /\ Len(active) \in Nat /\ hw.value \in Nat /\ hw.elapsed \in Nat /\ hw \in HwStates
      /\ Overrun \in Nat
  BY ActiveFacts
<1>4. left \in [Timers -> Int] /\ drift \in [Timers -> Nat] /\ ahead \in [Timers -> Nat]
  BY DEF ListsInv, TypeOK
<1>5. SUFFICES ASSUME NEW k \in 1..Len(active')
               PROVE  Fits(left'[active'[k]] - ahead'[active'[k]], Rest(k)',
                           drift'[active'[k]], hw', DueAfter')
  BY DEF SumInv
<1> DEFINE u == active'[k]
           l == left[u] - ahead[u]
           r == Rest(k + 1)
           d == drift[u]
           y == hw'
           due == DueAfter
           due2 == DueAfter'
           r2 == Rest(k)'
           d2 == drift'[u]
           up == UpTo(k + 1)
           over == Overrun
<1>6. active' \in Seq(Timers) /\ active' # <<>> /\ due2 \in Nat
  <2>1. active' \in Seq(Timers) /\ time' \in [Timers -> Nat]
    BY <1>1 DEF Leaves
  <2>2. active' # <<>>
    BY <2>1
  <2> QED BY <2>1, <2>2 DEF DueAfter
<1>7. k + 1 \in 1..Len(active) /\ u = active[k + 1]
  BY <1>1, <1>3
<1>8. /\ RunsFor(hw, due) /\ hw \in HwStates /\ due \in Nat
      /\ l \in Int /\ d \in Nat /\ r \in Int /\ Fits(l, r, d, hw, due)
      /\ up \in Nat /\ r = due + up - hw.elapsed
  BY <1>7, PlaceFacts
<1>9. u \in ToSet(active') /\ u # t /\ u \in Timers
  <2>1. u \in ToSet(active') /\ u \in Timers
    BY <1>6, ElementsOf
  <2>2. u # t
    BY <1>1, <2>1 DEF Leaves, Drops
  <2> QED BY <2>1, <2>2
<1>10. left'[u] - ahead'[u] = l /\ d2 = d + LoadDelta
  <2>1. left'[u] = left[u] /\ ahead'[u] = ahead[u]
    BY <1>9, EndsOne
  <2> QED BY <1>2, <1>4, <1>9, <2>1 DEF Drifted
<1>11. y = Loaded(Stopped, due2) /\ y.elapsed = 0
  BY <1>2, <1>6, LoadedIs, StoppedIs
<1>12. r2 = AfterStop(k + 1)
  <2>1. r2 = (DueAfter' + UpTo(k)') - 0 /\ DueAfter' + UpTo(k)' = AfterStop(k + 1)
    BY <1>1, <1>11 DEF Rest
  <2>2. AfterStop(k + 1) \in Int
    BY <1>3, <1>8 DEF AfterStop, Max2
  <2>3. r2 = AfterStop(k + 1) - 0
    BY <2>1
  <2> HIDE DEF r2
  <2> QED BY ONLY <2>2, <2>3
<1>13. CASE hw.value = 0
  <2>1. r2 = Max2(up, over) - over /\ over = Max2(hw.elapsed - due, 0)
    BY <1>12, <1>13 DEF AfterStop, Overrun
  <2>2. hw.value = 0
    BY <1>13
  <2> HIDE DEF u, l, r, d, y, due, due2, r2, d2, up, over
  <2>3. Fits(l, r2, d2, y, due2)
    BY ONLY <1>6, <1>8, <1>10, <1>11, <2>1, <2>2, OverdueFits
  <2> QED BY <1>10, <2>3 DEF u, l, r2, d2, y, due2
<1>14. CASE hw.value # 0
  <2>1. r2 = r + Behind(hw, due)
    <3>1. r2 = up + hw.value
      BY <1>12, <1>14 DEF AfterStop
    <3> HIDE DEF r2, up, r, due
    <3> QED BY <1>3, <1>8, <3>1 DEF Behind
  <2>2. due2 > 0
    <3>1. 1 \in 1..Len(active') /\ 2 \in 1..Len(active)
      BY <1>1, <1>3, <1>6
    <3>2. due2 + 0 = UpTo(2) + hw.value
      BY <1>1, <1>6, <1>14, <3>1 DEF AfterStop
    <3>3. UpTo(2) \in Nat
      BY <3>1, PlaceFacts
    <3> HIDE DEF due2
    <3> QED BY <1>3, <1>6, <1>14, <3>2, <3>3
  <2>3. hw.value > 0
    BY <1>3, <1>14
  <2> HIDE DEF u, l, r, d, y, due, due2, r2, d2, up, over
  <2>4. Fits(l, r2, d2, y, due2)
    BY ONLY <1>6, <1>8, <1>10, <1>11, <2>1, <2>2, <2>3, ReloadedFits
  <2> QED BY <1>10, <2>4 DEF u, l, r2, d2, y, due2
<1> QED BY <1>13, <1>14

LEMMA StopBehindSums ==
  ASSUME ListsInv, ClockInv, SumInv, NEW t \in Timers, StopBehind(t),
         Ends(t)
  PROVE  SumInv'
<1>1. /\ Leaves(t) /\ ClosesGap /\ active # <<>> /\ DueAfter' = DueAfter
  BY StopBehindLists
<1>2. PICK at \in 2..Len(active) : GoneFrom(at)
  BY <1>1 DEF ClosesGap
<1>3. /\ Len(active') = Len(active) - 1
      /\ \A k \in 1..at - 1 : active'[k] = active[k] /\ UpTo(k)' = UpTo(k)
      /\ \A k \in at..Len(active) - 1 : active'[k] = active[k + 1] /\ UpTo(k)' = UpTo(k + 1)
  BY <1>2 DEF GoneFrom
<1>4. hw' = hw /\ drift' = [drift EXCEPT ![t] = 0] /\ Len(active) \in Nat
  BY ActiveFacts DEF StopBehind
<1>5. left \in [Timers -> Int] /\ drift \in [Timers -> Nat] /\ ahead \in [Timers -> Nat]
  BY DEF ListsInv, TypeOK
<1>6. ASSUME NEW j \in 1..Len(active')
      PROVE  \E k \in 1..Len(active) : active'[j] = active[k] /\ UpTo(j)' = UpTo(k)
  <2>1. CASE j < at
    BY <1>3, <1>4, <2>1
  <2>2. CASE j >= at
    <3>1. j \in at..Len(active) - 1 /\ j + 1 \in 1..Len(active)
      BY <1>3, <1>4, <2>2
    <3> QED BY <1>3, <3>1
  <2> QED BY <1>3, <1>4, <2>1, <2>2
<1>7. ASSUME NEW j \in 1..Len(active')
      PROVE  Fits(left'[active'[j]] - ahead'[active'[j]], Rest(j)',
                  drift'[active'[j]], hw', DueAfter')
  <2>1. PICK k \in 1..Len(active) : active'[j] = active[k] /\ UpTo(j)' = UpTo(k)
    BY <1>6
  <2>2. /\ active[k] \in Timers
        /\ Fits(left[active[k]] - ahead[active[k]], Rest(k), drift[active[k]], hw, DueAfter)
    BY PlaceFacts
  <2>3. active[k] # t
    <3>1. active' \in Seq(Timers)
      BY <1>1 DEF Leaves
    <3>2. active'[j] \in ToSet(active')
      BY <3>1, ElementsOf
    <3> QED BY <1>1, <2>1, <3>2 DEF Leaves, Drops
  <2>4. /\ left'[active[k]] = left[active[k]] /\ ahead'[active[k]] = ahead[active[k]]
        /\ drift'[active[k]] = drift[active[k]]
    BY <1>4, <1>5, <2>2, <2>3, EndsOne
  <2>5. Rest(j)' = Rest(k)
    BY <1>1, <1>4, <2>1 DEF Rest
  <2> QED BY <1>1, <1>4, <2>1, <2>2, <2>4, <2>5
<1> QED BY <1>7 DEF SumInv

LEMMA FireSums ==
  ASSUME ListsInv, ClockInv, SumInv, HandlerFires
  PROVE  SumInv'
<1>1. PICK n \in 1..Len(active) : FiresTo(n)
  BY HandlerFiresLists DEF Fires
<1>2. /\ Len(active') = Len(active) - n
      /\ \A k \in 1..Len(active') : /\ active'[k] = active[n + k]
                                    /\ DueAfter' + UpTo(k)' = UpTo(n + k) - Overrun
  BY <1>1 DEF FiresTo
<1>3. /\ UNCHANGED <<left, ahead>>
      /\ hw' = IF active' = <<>> THEN Stopped ELSE Loaded(hw, DueAfter')
      /\ drift' = [t \in Timers |->
                     drift[t] + (IF t \in ToSet(active) /\ hw.value > 0 THEN LoadDelta ELSE 0)
                              + (IF t \in ToSet(active') THEN LoadDelta ELSE 0)]
  BY FiresIs
<1>4. /\ Len(active) \in Nat /\ hw.value \in Nat /\ hw.elapsed \in Nat /\ hw \in HwStates
      /\ Overrun \in Nat
  BY ActiveFacts
<1>5. active' \in Seq(Timers) /\ time' \in [Timers -> Nat]
  BY HandlerFiresLists
<1>6. SUFFICES ASSUME NEW k \in 1..Len(active')
               PROVE  Fits(left'[active'[k]] - ahead'[active'[k]], Rest(k)',
                           drift'[active'[k]], hw', DueAfter')
  BY DEF SumInv
<1> DEFINE u == active'[k]
           l == left[u] - ahead[u]
           r == Rest(n + k)
           d == drift[u]
           y == hw'
           due == DueAfter
           due2 == DueAfter'
           r2 == Rest(k)'
           d2 == drift'[u]
           up == UpTo(n + k)
<1>7. active' # <<>> /\ due2 \in Nat
  <2>1. active' # <<>>
    BY <1>5
  <2> QED BY <1>5, <2>1 DEF DueAfter
<1>8. n + k \in 1..Len(active) /\ u = active[n + k]
  BY <1>2, <1>4
<1>9. /\ u \in Timers /\ u \in ToSet(active) /\ active # <<>>
      /\ RunsFor(hw, due) /\ hw \in HwStates /\ due \in Nat
      /\ l \in Int /\ d \in Nat /\ r \in Int /\ Fits(l, r, d, hw, due)
      /\ up \in Nat /\ r = due + up - hw.elapsed
  BY <1>8, PlaceFacts
<1>10. u \in ToSet(active')
  BY <1>5, ElementsOf
<1>11. left'[u] - ahead'[u] = l /\ d2 = d + (IF hw.value > 0 THEN LoadDelta ELSE 0) + LoadDelta
  BY <1>3, <1>9, <1>10
<1>12. y = Loaded(hw, due2) /\ y.elapsed = 0
  BY <1>3, <1>7, <1>9, LoadedIs
<1>13. due <= hw.elapsed + LoadDelta
  <2>1. ~(active # <<>> => due > hw.elapsed + LoadDelta)
    <3>1. ~Early /\ due = time[active[1]]
      BY <1>9 DEF HandlerFires, DueAfter
    <3> QED BY <3>1 DEF Early
  <2> HIDE DEF due
  <2> QED BY <1>4, <1>9, <2>1 DEF LoadDelta
<1>14. r2 = up - Max2(hw.elapsed - due, 0)
  <2>1. r2 = (due2 + UpTo(k)') - 0 /\ due2 + UpTo(k)' = up - Overrun
    BY <1>2, <1>12 DEF Rest
  <2>2. r2 = up - Overrun - 0
    BY <2>1
  <2> HIDE DEF r2, up
  <2> QED BY <1>4, <1>9, <2>2 DEF Overrun
<1> HIDE DEF u, l, r, d, y, due, due2, r2, d2, up
<1>15. Fits(l, r2, d2, y, due2)
  BY ONLY <1>7, <1>9, <1>11, <1>12, <1>13, <1>14, WaitingFits
<1> QED BY <1>11, <1>15 DEF u, l, r2, d2, y, due2

LEMMA FireDue ==
  ASSUME ListsInv, ClockInv, SumInv, DueInv, HandlerFires
  PROVE  DueInv'
<1>1. PICK n \in 1..Len(active) : FiresTo(n)
  BY HandlerFiresLists DEF Fires
<1>2. /\ \A k \in 1..n : UpTo(k) <= Overrun
      /\ Len(active') = Len(active) - n
      /\ \A k \in 1..Len(active') : active'[k] = active[n + k]
      /\ \A t \in Timers : (\A k \in 1..n : active[k] # t) => state'[t] = state[t]
  BY <1>1 DEF FiresTo
<1>3. /\ UNCHANGED <<left, ahead>> /\ handler = "entered"
      /\ drift' = [t \in Timers |->
                     drift[t] + (IF t \in ToSet(active) /\ hw.value > 0 THEN LoadDelta ELSE 0)
                              + (IF t \in ToSet(active') THEN LoadDelta ELSE 0)]
  BY FiresIs
<1>4. SUFFICES ASSUME NEW t \in Timers, state'[t] \in {"FIRED", "CALLBACK"}
               PROVE  left'[t] <= drift'[t] + ahead'[t]
  BY DEF DueInv
<1>5. CASE \A k \in 1..n : active[k] # t
  <2>1. state[t] \in {"FIRED", "CALLBACK"}
    BY <1>2, <1>4, <1>5
  <2>2. fired = <<>> /\ current = NoTimer
    BY <1>3 DEF ListsInv
  <2>3. t \notin ToSet(fired)
    BY <2>2 DEF ToSet
  <2> QED BY <2>1, <2>2, <2>3, HwTimerAssumption DEF ListsInv
<1>6. ASSUME NEW k \in 1..n, active[k] = t
      PROVE  left'[t] <= drift'[t] + ahead'[t]
  <2> DEFINE l == left[t] - ahead[t]
             r == Rest(k)
             d == drift[t]
             due == DueAfter
             up == UpTo(k)
  <2>1. k \in 1..Len(active) /\ Len(active) \in Nat
    BY ActiveFacts
  <2>2. /\ t \in ToSet(active) /\ active # <<>> /\ hw \in HwStates /\ due \in Nat
        /\ hw.value \in Nat /\ hw.elapsed \in Nat
        /\ l \in Int /\ d \in Nat /\ r \in Int /\ Fits(l, r, d, hw, due)
        /\ up \in Nat /\ r = due + up - hw.elapsed
    BY <1>6, <2>1, PlaceFacts
  <2>3. up <= Max2(hw.elapsed - due, 0)
    BY <1>2 DEF Overrun
  <2>4. due <= hw.elapsed + LoadDelta
    <3>1. ~(active # <<>> => due > hw.elapsed + LoadDelta)
      <4>1. ~Early /\ due = time[active[1]]
        BY <2>2 DEF HandlerFires, DueAfter
      <4> QED BY <4>1 DEF Early
    <3> HIDE DEF due
    <3> QED BY <2>2, <3>1 DEF LoadDelta
  <2>5. left'[t] - ahead'[t] = l /\ drift'[t] >= d + (IF hw.value > 0 THEN LoadDelta ELSE 0)
    <3>1. drift'[t] = d + (IF hw.value > 0 THEN LoadDelta ELSE 0)
                        + (IF t \in ToSet(active') THEN LoadDelta ELSE 0)
      BY <1>3, <2>2
    <3> QED BY <1>3, <2>2, <3>1 DEF LoadDelta
  <2>6. drift'[t] \in Nat
    BY FiresIs
  <2> HIDE DEF l, r, d, due, up
  <2>7. l <= d + (IF hw.value > 0 THEN LoadDelta ELSE 0)
    BY ONLY <2>2, <2>3, <2>4, DueFits
  <2>8. left'[t] \in Int /\ ahead'[t] \in Nat
    BY <1>3 DEF ListsInv, TypeOK
  <2> QED BY <2>2, <2>5, <2>6, <2>7, <2>8 DEF LoadDelta
<1> QED BY <1>5, <1>6

\* A step that leaves the timers that have fired alone.
LEMMA SameDue ==
  ASSUME DueInv,
         \A t \in Timers : state'[t] \in {"FIRED", "CALLBACK"} =>
           /\ state[t] \in {"FIRED", "CALLBACK"}
           /\ left'[t] = left[t] /\ ahead'[t] = ahead[t] /\ drift'[t] = drift[t]
  PROVE  DueInv'
BY DEF DueInv

LEMMA SumStep ==
  ASSUME ListsInv, ClockInv, SumInv, DueInv, [Next]_vars
  PROVE  SumInv' /\ DueInv'
<1>1. /\ state \in [Timers -> States] /\ left \in [Timers -> Int]
      /\ drift \in [Timers -> Nat] /\ ahead \in [Timers -> Nat]
      /\ active \in Seq(Timers) /\ fired \in Seq(Timers)
      /\ \A t \in Timers : /\ state[t] = "ACTIVE" <=> t \in ToSet(active)
                           /\ state[t] = "FIRED" <=> t \in ToSet(fired)
  BY DEF ListsInv, TypeOK
<1>2. CASE UNCHANGED vars
  BY <1>2, SameSums, SameDue DEF vars
<1>3. CASE Tick
  <2>1. DueInv'
    <3>1. \A t \in Timers : state[t] # "ACTIVE" => left'[t] = left[t] /\ ahead'[t] = ahead[t]
      BY <1>3 DEF Tick
    <3>2. state' = state /\ drift' = drift
      BY <1>3 DEF Tick
    <3> QED BY <3>1, <3>2, SameDue
  <2> QED BY <1>3, <2>1, TickSums
<1>4. CASE hal_timer01_irq_handler
  <2>1. UNCHANGED <<state, time, active, left, drift, ahead>>
    BY <1>4 DEF hal_timer01_irq_handler
  <2>2. hw'.value = hw.value /\ hw'.elapsed = hw.elapsed /\ hw'.fresh = hw.fresh
    BY <1>4, ActiveFacts DEF hal_timer01_irq_handler, HwStates
  <2> QED BY <2>1, <2>2, SameSums, SameDue
<1>5. CASE HandlerEarly
  BY <1>5, SameSums, SameDue DEF HandlerEarly
<1>6. CASE HandlerFires
  BY <1>6, FireSums, FireDue
<1>7. CASE CallbackReturns
  <2>0. ASSUME NEW t \in Timers, state[t] # "CALLBACK"
        PROVE  left'[t] = left[t] /\ drift'[t] = drift[t] /\ ahead'[t] = ahead[t]
    <3>1. Forgotten
      BY <1>7 DEF CallbackReturns
    <3>2. CASE UNCHANGED <<left, drift, ahead>>
      BY <3>2
    <3>3. CASE state[current] = "CALLBACK" /\ Forget(current)
      <4>1. current # t
        BY <2>0, <3>3
      <4> QED BY <1>1, <3>3, <4>1 DEF Forget, Ends
    <3> QED BY <3>1, <3>2, <3>3 DEF Forgotten
  <2>1. SumInv'
    <3>1. \A j \in 1..Len(active) : active[j] \in Timers /\ state[active[j]] = "ACTIVE"
      BY <1>1, ElementsOf
    <3>2. UNCHANGED <<active, time, hw>>
      BY <1>7 DEF CallbackReturns
    <3> QED BY <2>0, <3>1, <3>2, SameSums
  <2>2. ASSUME NEW t \in Timers, state'[t] \in {"FIRED", "CALLBACK"}
        PROVE  state[t] = "FIRED"
    <3> DEFINE ended == [state EXCEPT ![current] = IF @ = "CALLBACK" THEN "ALLOC" ELSE @]
    <3>1. \/ state' = ended
          \/ fired # <<>> /\ state' = [ended EXCEPT ![fired[1]] = "CALLBACK"]
      BY <1>7 DEF CallbackReturns
    <3>2. ended \in [Timers -> States]
      BY <1>1 DEF States
    <3>3. ended[t] \in {"FIRED", "CALLBACK"} => state[t] = "FIRED"
      <4>1. state[t] = "CALLBACK" => t = current
        BY DEF ListsInv
      <4> QED BY <1>1, <4>1
    <3>4. fired # <<>> => state[fired[1]] = "FIRED"
      <4>1. fired # <<>> => 1 \in 1..Len(fired) /\ fired[1] \in Timers
        BY <1>1
      <4>2. fired # <<>> => fired[1] \in ToSet(fired)
        BY <1>1, <4>1, ElementsOf
      <4> QED BY <1>1, <4>1, <4>2
    <3> HIDE DEF ended
    <3> QED BY <2>2, <3>1, <3>2, <3>3, <3>4
  <2>3. ASSUME NEW t \in Timers, state'[t] \in {"FIRED", "CALLBACK"}
        PROVE  left'[t] = left[t] /\ drift'[t] = drift[t] /\ ahead'[t] = ahead[t]
    <3>1. state[t] # "CALLBACK"
      BY <2>2, <2>3
    <3> QED BY <2>0, <3>1
  <2> QED BY <2>1, <2>2, <2>3, SameDue
<1>8. ASSUME NEW t \in Timers, hwtimer_alloc(t) \/ hwtimer_free(t)
      PROVE  SumInv' /\ DueInv'
  <2>1. UNCHANGED <<time, active, hw, left, drift, ahead>>
    BY <1>8 DEF hwtimer_alloc, hwtimer_free
  <2>2. state' = [state EXCEPT ![t] = "ALLOC"] \/ state' = [state EXCEPT ![t] = "FREE"]
    BY <1>8 DEF hwtimer_alloc, hwtimer_free
  <2>3. \A u \in Timers : state'[u] \in {"FIRED", "CALLBACK"} => state[u] \in {"FIRED", "CALLBACK"}
    BY <1>1, <2>2
  <2> QED BY <2>1, <2>3, SameSums, SameDue
<1>9. ASSUME NEW t \in Timers, NEW asked \in Durations, hwtimer_start(t, asked)
      PROVE  SumInv' /\ DueInv'
  <2> DEFINE ticks == Max2(asked, LoadDelta)
  <2>1. /\ ticks \in Nat \ {0} /\ t \notin ToSet(active)
        /\ StartFirst(t, ticks) \/ StartBefore(t, ticks) \/ StartBehind(t, ticks)
        /\ state' = [state EXCEPT ![t] = "ACTIVE"] /\ Asks(t, ticks)
    BY <1>9, StartIs
  <2> HIDE DEF ticks
  <2>2. SumInv'
    BY <2>1, StartFirstSums, StartBeforeSums, StartBehindSums
  <2>3. ASSUME NEW u \in Timers, state'[u] \in {"FIRED", "CALLBACK"}
        PROVE  /\ state[u] \in {"FIRED", "CALLBACK"}
               /\ left'[u] = left[u] /\ ahead'[u] = ahead[u] /\ drift'[u] = drift[u]
    <3>1. /\ u # t /\ state[u] \in {"FIRED", "CALLBACK"}
          /\ left'[u] = left[u] /\ ahead'[u] = ahead[u]
      <4>1. u # t /\ state[u] \in {"FIRED", "CALLBACK"}
        BY <1>1, <2>1, <2>3
      <4> QED BY <2>1, <4>1, AsksAll
    <3>2. u \notin ToSet(active)
      BY <1>1, <3>1
    <3>3. CASE StartBefore(t, ticks)
      BY <1>1, <3>1, <3>2, <3>3 DEF StartBefore, Drifted
    <3>4. CASE StartFirst(t, ticks)
      BY <1>1, <3>1, <3>4 DEF StartFirst
    <3>5. CASE StartBehind(t, ticks)
      BY <1>1, <3>1, <3>5 DEF StartBehind
    <3> QED BY <2>1, <3>1, <3>3, <3>4, <3>5
  <2> QED BY <2>2, <2>3, SameDue
<1>10. ASSUME NEW t \in Timers, StopActive(t)
       PROVE  SumInv' /\ DueInv'
  <2>1. /\ StopFirst(t) \/ StopBehind(t)
        /\ state' = [state EXCEPT ![t] = "ALLOC"] /\ Ends(t)
        /\ Leaves(t)
    BY <1>10, StopIs
  <2>2. SumInv'
    BY <2>1, StopFirstSums, StopBehindSums
  <2>3. ASSUME NEW u \in Timers, state'[u] \in {"FIRED", "CALLBACK"}
        PROVE  /\ state[u] \in {"FIRED", "CALLBACK"}
               /\ left'[u] = left[u] /\ ahead'[u] = ahead[u] /\ drift'[u] = drift[u]
    <3>1. /\ u # t /\ state[u] \in {"FIRED", "CALLBACK"}
          /\ left'[u] = left[u] /\ ahead'[u] = ahead[u]
      <4>1. u # t /\ state[u] \in {"FIRED", "CALLBACK"}
        BY <1>1, <2>1, <2>3
      <4> QED BY <2>1, <4>1, EndsOne
    <3>2. u \notin ToSet(active')
      BY <1>1, <2>1, <3>1 DEF Leaves, Drops
    <3>3. CASE StopFirst(t)
      BY <1>1, <3>1, <3>2, <3>3 DEF StopFirst, Drifted
    <3>4. CASE StopBehind(t)
      BY <1>1, <3>1, <3>4 DEF StopBehind
    <3> QED BY <2>1, <3>1, <3>3, <3>4
  <2> QED BY <2>2, <2>3, SameDue
<1>11. ASSUME NEW t \in Timers, StopFired(t)
       PROVE  SumInv' /\ DueInv'
  <2>1. /\ UNCHANGED <<time, active, hw>> /\ state[t] = "FIRED"
        /\ state' = [state EXCEPT ![t] = "ALLOC"] /\ Ends(t)
        /\ drift' = [drift EXCEPT ![t] = 0]
    BY <1>11 DEF StopFired, Forget
  <2>2. \A j \in 1..Len(active) : active[j] \in Timers /\ active[j] # t
    <3>1. \A j \in 1..Len(active) : active[j] \in Timers /\ active[j] \in ToSet(active)
      BY <1>1, ElementsOf
    <3> QED BY <1>1, <2>1, <3>1
  <2>3. SumInv'
    BY <1>1, <2>1, <2>2, SameSums, EndsOne
  <2>4. DueInv'
    BY <1>1, <2>1, SameDue, EndsOne
  <2> QED BY <2>3, <2>4
<1> QED BY <1>2, <1>3, <1>4, <1>5, <1>6, <1>7, <1>8, <1>9, <1>10, <1>11 DEF Next, Handler

LEMMA SumInit ==
  ASSUME Init
  PROVE  SumInv /\ DueInv
BY DEF Init, SumInv, DueInv

LEMMA SumInvariant == Spec => [](ListsInv /\ ClockInv /\ SumInv /\ DueInv)
BY ListsInit, ListsStep, ClockInit, ClockStep, SumInit, SumStep, PTL DEF Spec

\* No client is called back earlier than the loads of the hardware may make it and, if it
\* started its timer while the first one was overdue, the ticks the interrupt had been
\* held off by then: not even by an interrupt that was for a timer stopped meanwhile.
THEOREM NoCallbackIsEarly == Spec => []OnTime
<1>1. ListsInv /\ DueInv => OnTime
  BY DEF ListsInv, DueInv, OnTime
<1> QED BY <1>1, SumInvariant, PTL

LEMMA ExpectedIs ==
  ASSUME ListsInv, NEW j \in 1..Len(active)
  PROVE  Expected(active[j]) =
           hw.value + Max2(UpTo(j) - Max2(hw.elapsed + hw.value - DueAfter, 0), 0)
<1>1. DOMAIN active = 1..Len(active) /\ Distinct(active)
  BY ActiveFacts
<1>2. j = CHOOSE i \in DOMAIN active : active[i] = active[j]
  <2>1. \A i \in DOMAIN active : active[i] = active[j] => i = j
    BY <1>1 DEF Distinct
  <2> QED BY <1>1, <2>1
<1> QED BY <1>2 DEF Expected

\* What the list and the hardware make of a timer that Fits.
LEMMA ExpectedFits ==
  ASSUME NEW h \in HwStates, NEW due \in Nat, RunsFor(h, due),
         NEW l \in Int, NEW r \in Int, NEW d \in Nat, Fits(l, r, d, h, due),
         NEW u \in Nat, r = due + u - h.elapsed,
         NEW e, e = h.value + Max2(u - Max2(h.elapsed + h.value - due, 0), 0)
  PROVE  l - e <= d /\ e <= Max2(l, 0) + d + 1
<1>1. h.value \in Nat /\ h.elapsed \in Nat
  BY DEF HwStates
<1>2. PICK b \in Int : b = h.value + h.elapsed - due
  BY <1>1
<1>3. b >= -1 /\ (h.value >= 2 => b <= 0)
  BY <1>1, <1>2 DEF RunsFor, LoadDelta
<1>4. /\ l - r <= d
      /\ b = -1 => l - r <= d - 1
      /\ r <= Max2(l, 0) + d + 1
  BY <1>2 DEF Fits, Behind
<1>5. r = u + h.value - b /\ e = h.value + Max2(u - Max2(b, 0), 0)
  BY <1>1, <1>2
<1>6. CASE b = -1
  <2>1. e = u + h.value
    BY <1>1, <1>5, <1>6 DEF Max2
  <2> QED BY <1>1, <1>4, <1>5, <1>6, <2>1 DEF Max2
<1>7. CASE b >= 0 /\ u >= b
  <2>1. e = r
    BY <1>1, <1>5, <1>7 DEF Max2
  <2> QED BY <1>4, <2>1
<1>8. CASE b >= 0 /\ u < b
  <2>1. e = h.value /\ h.value <= 1 /\ r <= e
    BY <1>1, <1>3, <1>5, <1>8 DEF Max2
  <2> QED BY <1>1, <1>4, <2>1 DEF Max2
<1> QED BY <1>3, <1>6, <1>7, <1>8

\* However timers are started, stopped and overrun, the deltas in front of a timer add
\* up to what is left of the time its client asked for, counted from when the first timer
\* was due if that one was overdue then, but for what each load of the hardware may cost.
THEOREM TimersKeepTheirTime == Spec => []DeltasAddUp
<1>1. ListsInv /\ ClockInv /\ SumInv => DeltasAddUp
  <2> SUFFICES ASSUME ListsInv, ClockInv, SumInv, NEW t \in ToSet(active)
               PROVE  /\ left[t] - ahead[t] - Expected(t) <= drift[t]
                      /\ Expected(t) <= Max2(left[t] - ahead[t], 0) + drift[t] + 1
    BY DEF DeltasAddUp
  <2>1. PICK j \in 1..Len(active) : active[j] = t
    BY ActiveFacts, ElementsOf
  <2> DEFINE l == left[t] - ahead[t]
             r == Rest(j)
             d == drift[t]
             due == DueAfter
             up == UpTo(j)
             e == Expected(t)
  <2>2. /\ RunsFor(hw, due) /\ hw \in HwStates /\ due \in Nat
        /\ l \in Int /\ d \in Nat /\ r \in Int /\ Fits(l, r, d, hw, due)
        /\ up \in Nat /\ r = due + up - hw.elapsed
    BY <2>1, PlaceFacts
  <2>3. e = hw.value + Max2(up - Max2(hw.elapsed + hw.value - due, 0), 0)
    BY <2>1, ExpectedIs
  <2> HIDE DEF l, r, d, due, up, e
  <2>4. l - e <= d /\ e <= Max2(l, 0) + d + 1
    BY ONLY <2>2, <2>3, ExpectedFits
  <2> QED BY <2>4 DEF l, e, d
<1> QED BY <1>1, SumInvariant, PTL

---------------------------------------------------------------------------
(* The service.                                                             *)

Running == {t \in Timers : state[t] \in {"ACTIVE", "FIRED"}}
Calling == IF handler = "callback" THEN current ELSE NoTimer

LEMMA ServiceStep ==
  ASSUME ListsInv, [Next]_vars
  PROVE  [Service!Next]_<<Running, Calling>>
<1>1. /\ state \in [Timers -> States] /\ active \in Seq(Timers) /\ fired \in Seq(Timers)
      /\ \A t \in Timers : /\ state[t] = "ACTIVE" <=> t \in ToSet(active)
                           /\ state[t] = "FIRED" <=> t \in ToSet(fired)
  BY DEF ListsInv, TypeOK
<1>2. ASSUME NEW t \in Timers, state[t] \notin {"ACTIVE", "FIRED"},
             state' = [state EXCEPT ![t] = "ACTIVE"], UNCHANGED <<handler, current>>
      PROVE  Service!Start(t)
  <2>1. t \notin Running /\ Running' = Running \cup {t} /\ Calling' = Calling
    BY <1>1, <1>2 DEF Running, Calling
  <2> QED BY <2>1 DEF Service!Start, Running, Calling
<1>3. ASSUME NEW t \in Timers, state[t] \in {"ACTIVE", "FIRED"},
             state' = [state EXCEPT ![t] = "ALLOC"], UNCHANGED <<handler, current>>
      PROVE  Service!Stop(t)
  <2>1. t \in Running /\ Running' = Running \ {t} /\ Calling' = Calling
    BY <1>1, <1>3 DEF Running, Calling
  <2> QED BY <2>1 DEF Service!Stop, Running, Calling
<1>4. ASSUME NEW t \in Timers, state[t] \in {"ACTIVE", "FIRED"}, state'[t] = "CALLBACK",
             \A u \in Timers \ {t} : (state'[u] \in {"ACTIVE", "FIRED"}) = (state[u] \in {"ACTIVE", "FIRED"}),
             handler' = "callback", current' = t
      PROVE  Service!CallBack(t)
  <2>1. t \in Running /\ Running' = Running \ {t} /\ Calling' = t
    BY <1>4 DEF Running, Calling
  <2> QED BY <2>1 DEF Service!CallBack, Running, Calling
<1>5. CASE UNCHANGED <<state, handler, current>>
  BY <1>5 DEF Running, Calling
<1>6. CASE hal_timer01_irq_handler \/ HandlerEarly
  <2>1. UNCHANGED <<state, current>> /\ handler # "callback" /\ handler' # "callback"
    BY <1>6 DEF hal_timer01_irq_handler, HandlerEarly
  <2> QED BY <2>1 DEF Running, Calling
<1>7. CASE HandlerFires
  <2>1. PICK n \in 1..Len(active) : FiresTo(n)
    BY <1>7, HandlerFiresLists DEF Fires
  <2>2. /\ \A k \in 1..n : state'[active[k]] = IF k = 1 THEN "CALLBACK" ELSE "FIRED"
        /\ \A t \in Timers : (\A k \in 1..n : active[k] # t) => state'[t] = state[t]
        /\ current' = active[1]
    BY <2>1 DEF FiresTo
  <2>3. handler' = "callback"
    BY <1>7, FiresIs
  <2>4. 1 \in 1..Len(active) /\ 1 \in 1..n /\ n \in Nat /\ Len(active) \in Nat
    BY <1>1
  <2>5. \A k \in 1..n : active[k] \in Timers /\ state[active[k]] = "ACTIVE"
    <3>1. \A k \in 1..Len(active) : active[k] \in Timers /\ active[k] \in ToSet(active)
      BY <1>1, ElementsOf
    <3> QED BY <1>1, <2>4, <3>1
  <2>6. ASSUME NEW u \in Timers \ {active[1]}
        PROVE  (state'[u] \in {"ACTIVE", "FIRED"}) = (state[u] \in {"ACTIVE", "FIRED"})
    <3>1. CASE \E k \in 1..n : active[k] = u
      <4>1. PICK k \in 1..n : active[k] = u
        BY <3>1
      <4>2. k # 1
        BY <4>1
      <4> QED BY <2>2, <2>5, <4>1, <4>2
    <3>2. CASE \A k \in 1..n : active[k] # u
      BY <2>2, <3>2
    <3> QED BY <3>1, <3>2
  <2>7. PICK t \in Timers : t = active[1]
    BY <2>4, <2>5
  <2>8. /\ state[t] \in {"ACTIVE", "FIRED"} /\ state'[t] = "CALLBACK" /\ current' = t
        /\ \A u \in Timers \ {t} : (state'[u] \in {"ACTIVE", "FIRED"}) = (state[u] \in {"ACTIVE", "FIRED"})
    BY <2>2, <2>4, <2>5, <2>6, <2>7
  <2>9. Service!CallBack(t)
    BY <1>4, <2>3, <2>8
  <2> QED BY <2>9 DEF Service!Next
<1>8. CASE CallbackReturns
  <2> DEFINE ended == [state EXCEPT ![current] = IF @ = "CALLBACK" THEN "ALLOC" ELSE @]
  <2>1. /\ handler = "callback" /\ current \in Timers /\ current # NoTimer
        /\ IF fired = <<>>
           THEN state' = ended /\ handler' = "idle" /\ current' = NoTimer
           ELSE /\ state' = [ended EXCEPT ![fired[1]] = "CALLBACK"]
                /\ current' = fired[1] /\ handler' = handler
    BY <1>8, HwTimerAssumption DEF CallbackReturns, ListsInv
  <2>2. /\ ended \in [Timers -> States]
        /\ \A u \in Timers : (ended[u] \in {"ACTIVE", "FIRED"}) = (state[u] \in {"ACTIVE", "FIRED"})
    BY <1>1, <2>1 DEF States
  <2> HIDE DEF ended
  <2>3. CASE fired = <<>>
    <3>1. Running' = Running /\ Calling # NoTimer /\ Calling' = NoTimer
      BY <2>1, <2>2, <2>3 DEF Running, Calling
    <3> QED BY <3>1 DEF Service!Finish, Service!Next, Running, Calling
  <2>4. CASE fired # <<>>
    <3>1. fired[1] \in Timers /\ fired[1] \in ToSet(fired)
      <4>1. 1 \in 1..Len(fired)
        BY <1>1, <2>4
      <4> QED BY <1>1, <4>1, ElementsOf
    <3>2. PICK t \in Timers : t = fired[1]
      BY <3>1
    <3>3. /\ state[t] \in {"ACTIVE", "FIRED"} /\ state'[t] = "CALLBACK"
          /\ handler' = "callback" /\ current' = t
          /\ \A u \in Timers \ {t} : (state'[u] \in {"ACTIVE", "FIRED"}) = (state[u] \in {"ACTIVE", "FIRED"})
      BY <1>1, <2>1, <2>2, <2>4, <3>1, <3>2
    <3>4. Service!CallBack(t)
      BY <1>4, <3>3
    <3> QED BY <3>4 DEF Service!Next
  <2> QED BY <2>3, <2>4
<1>9. ASSUME NEW t \in Timers, hwtimer_alloc(t) \/ hwtimer_free(t)
      PROVE  Running' = Running /\ Calling' = Calling
  <2>1. /\ UNCHANGED <<handler, current>> /\ state[t] \in {"FREE", "ALLOC"}
        /\ state' = [state EXCEPT ![t] = "ALLOC"] \/ state' = [state EXCEPT ![t] = "FREE"]
    BY <1>9 DEF hwtimer_alloc, hwtimer_free
  <2> QED BY <1>1, <2>1 DEF Running, Calling
<1>10. ASSUME NEW t \in Timers, NEW asked \in Durations, hwtimer_start(t, asked)
       PROVE  Service!Start(t)
  BY <1>2, <1>10 DEF hwtimer_start
<1>11. ASSUME NEW t \in Timers, StopActive(t) \/ StopFired(t)
       PROVE  Service!Stop(t)
  BY <1>3, <1>11 DEF StopActive, StopFired
<1> QED BY <1>5, <1>6, <1>7, <1>8, <1>9, <1>10, <1>11
           DEF Next, Handler, vars, Tick, Service!Next

\* The delta list, the hardware and the handler give clients what TimerService
\* promises: one callback for each start, one at a time, and none after a stop.
THEOREM TimersAreServed == Spec => Service!SafeSpec
<1>1. Init => Service!Init
  BY DEF Init, Service!Init
<1>2. ListsInv /\ [Next]_vars => [Service!Next]_<<Running, Calling>>
  BY ServiceStep
<1> QED BY <1>1, <1>2, ListsInvariant, PTL DEF Spec, Service!SafeSpec, Running, Calling
=============================================================================
