------------------------- MODULE LogSection_proofs --------------------------
(***************************************************************************)
(* Proofs about LogSection, for any number of buffers, of more sectors     *)
(* than buffers, and of operations that norflash_api queues.               *)
(***************************************************************************)
EXTENDS LogSection, DataLemmas

---------------------------------------------------------------------------
(* The inductive invariant, in parts.                                       *)

\* The buffer is on the flash, and the offset is still that of its sector.
OnSector == {"written", "freed", "loaded", "moved"}

\* The types, and what pc says of the flush: the thread that has picked a buffer has
\* one, and a sector that holds a part of one is left alone, but for a crash.
FlushInv ==
  /\ NextBufferUsable
  /\ pc \in {"picked"} \cup OnSector => db \in Buffers
  /\ pc = "loaded" => next \in Buffers
  /\ pc \in {"picked"} \cup OnFlash => flashState # "IDLE"
  /\ pc = "erased" => flashState = "IDLE" /\ ~ragged
  /\ ragged => flashState = "IDLE" \/ pc = "counted" \/ cut = "counted"
  /\ pc \notin {"crash", "end", "dead"} => cut = "none"

\* Whatever is in memory or on its way to the flash has a number already given.
SeqnumInv ==
  /\ \A i \in Unfree : buf[i].seq \in 0..seqnum - 1
  /\ \A s \in Sectors : flash[s] \in -1..seqnum - 1
  /\ \A i \in 1..Len(queue) : queue[i].seq \in -1..seqnum - 1

\* An operation that programs no sector with something else on it.
Clean(fl, op) == op.seq = None \/ fl[op.sec] \in {None, op.seq}

\* The flash when the first k operations queued have been performed.
After(k) == AfterAll(flash, SubSeq(queue, 1, k))

\* The sector is erased when a buffer is written to it, now or later.
CleanInv ==
  /\ flashState # "IDLE" /\ pc \notin OnFlash /\ cut \notin OnFlash => Stored[sector] = None
  /\ pc = "erased" => Stored[sector] = None
  /\ \A k \in 1..Len(queue) : Clean(After(k - 1), queue[k])

\* What the other parts rest on.
Base == FlushInv /\ SeqnumInv /\ CleanInv

\* What is in use has something in it, and the thread still holds what it wrote, or
\* what has taken its place.
UseInv ==
  /\ \A i \in Unfree : buf[i].fill \in {1, 2}
  /\ pc = "written" => db \in Unfree
  /\ pc \in OnSector \ {"written"} => buf[db].fill \in {1, 2}

\* The thread is about to move f on by one, and the writer is not there.
RingInv ==
  /\ RingOrdered
  /\ pc \in {"freed", "loaded"} /\ ~strayed => w # f
  /\ pc = "loaded" /\ ~strayed => next = NextBuffer(f)

\* How many sectors the flush has moved on since s.
Age(s) == (sector - s) % NumSectors

\* The sectors written last, k of them, and that with a part of a buffer.
Recent(k) == {s \in Sectors : Age(s) \in (IF ragged THEN 0 ELSE 1)..k}

\* After a crash the handler has put k buffers, one after the other, on sectors.
EndFlushed(k) ==
  /\ \A i \in Buffers : (f - 1 - i) % NumBuffers < k => buf[i].state = "FREE"
  /\ owed \subseteq {buf[i].seq : i \in Unfree} \cup {Stored[s] : s \in Recent(k)}

\* The exceptions of CrashLogStored.
Spoilt == cut \in Halfway \/ (cut = "written" /\ mixed)

CrashInv ==
  /\ pc = "end" /\ ~Spoilt => \E k \in 0..NumBuffers : EndFlushed(k)
  /\ pc = "dead" => queue = <<>> /\ (~Spoilt => owed \subseteq {Stored[s] : s \in Sectors})

\* No number is given to two buffers or sectors.
AllDiffer(fl) == \A s, t \in Sectors : s # t /\ fl[s] # None => fl[s] # fl[t]

NumbersInv ==
  /\ \A i, j \in Unfree : i # j => buf[i].seq # buf[j].seq
  /\ \A i \in Unfree, s \in Sectors \ {sector} : buf[i].seq # Stored[s]
  /\ pc \in OnSector => \A i \in Unfree \ {db} : buf[i].seq # Stored[sector]
  /\ pc \in OnSector \ {"written"} /\ db \in Unfree => \A s \in Sectors : buf[db].seq > Stored[s]

\* An operation that does not erase the newest sector.
Safe(fl, op) ==
  op.seq = None /\ fl[op.sec] # None => \E r \in Sectors : fl[r] > fl[op.sec]

QueueInv ==
  /\ \A k \in 0..Len(queue) : AllDiffer(After(k))
  /\ \A k \in 1..Len(queue) : Safe(After(k - 1), queue[k])

\* The buffers that are older than a number.
Stale(n) == {i \in Unfree : buf[i].seq < n}

\* p is the newest sector but for the one in use.
NewestBut(p) ==
  /\ p \in Sectors \ {sector} /\ Stored[p] # None
  /\ \A s \in Sectors \ {sector} : Stored[s] <= Stored[p]

\* The sectors written since the newest one, and those that buffers older than it
\* can still take, are no more than the buffers; so the ring does not come round to it.
AgeInv ==
  /\ \A p \in Sectors : NewestBut(p) =>
       /\ Age(p) + Cardinality(Stale(Stored[p])) <= NumBuffers
       /\ pc \in OnSector /\ Stored[sector] < Stored[p] =>
            Age(p) + Cardinality(Stale(Stored[p]) \ {db}) < NumBuffers
  /\ (flashState = "IDLE" \/ pc = "counted") /\ ~ragged => Safe(Stored, Erase(sector))

\* Where numbers differ, as long as no two headers are mixed.
NewestInv == NumbersInv /\ QueueInv /\ AgeInv

LogInv == Base /\ UseInv /\ RingInv /\ CrashInv /\ (~mixed => NewestInv)

---------------------------------------------------------------------------
(* The operators of the flash.                                              *)

Ops == [sec : Sectors, seq : Int]

\* What an operation does to a sector that is erased.
Put(fl, op) == [fl EXCEPT ![op.sec] = op.seq]

\* Some sector holds the highest number.
LEMMA HighestSector ==
  ASSUME NEW fl \in [Sectors -> Int]
  PROVE  \E s \in Sectors : \A r \in Sectors : fl[r] <= fl[s]
<1> DEFINE T == {n \in Nat : n \in Sectors => \E s \in 0..n : \A r \in 0..n : fl[r] <= fl[s]}
<1>1. 0 \in T
  BY DEF Sectors
<1>2. ASSUME NEW n \in T PROVE n + 1 \in T
  <2> SUFFICES ASSUME n + 1 \in Sectors
               PROVE  \E s \in 0..n + 1 : \A r \in 0..n + 1 : fl[r] <= fl[s]
    OBVIOUS
  <2>1. n \in Nat /\ 0..n + 1 \subseteq Sectors
    BY LogAssumption DEF Sectors
  <2>2. PICK s \in 0..n : \A r \in 0..n : fl[r] <= fl[s]
    BY <2>1
  <2>3. fl[n + 1] \in Int /\ \A r \in 0..n : fl[r] \in Int
    BY <2>1
  <2>4. CASE fl[n + 1] <= fl[s]
    BY <2>1, <2>2, <2>4
  <2>5. CASE fl[n + 1] > fl[s]
    <3>1. \A r \in 0..n + 1 : fl[r] <= fl[n + 1]
      BY <2>1, <2>2, <2>3, <2>5
    <3> QED BY <2>1, <3>1
  <2> QED BY <2>2, <2>3, <2>4, <2>5
<1>3. NumSectors - 1 \in T
  <2> HIDE DEF T
  <2>1. NumSectors - 1 \in Nat
    BY LogAssumption
  <2> QED BY <1>1, <1>2, <2>1, AllNaturals
<1> QED BY <1>3, LogAssumption DEF Sectors

\* _get_seqnum finds it, if there is one.
LEMMA NewestIsHighest ==
  ASSUME NEW fl \in [Sectors -> Int], \A s \in Sectors : fl[s] >= None
  PROVE  /\ Newest(fl) = None => \A s \in Sectors : fl[s] = None
         /\ Newest(fl) # None => /\ Newest(fl) \in Sectors /\ fl[Newest(fl)] # None
                                /\ \A r \in Sectors : fl[r] <= fl[Newest(fl)]
<1> SUFFICES ASSUME NEW s \in Sectors, fl[s] # None
             PROVE  /\ Newest(fl) \in Sectors /\ fl[Newest(fl)] # None
                    /\ \A r \in Sectors : fl[r] <= fl[Newest(fl)]
                    /\ Newest(fl) # None
  BY DEF Newest
<1> DEFINE First(t) == \A r \in Sectors : fl[r] < fl[t] \/ (fl[r] = fl[t] /\ t <= r)
<1>1. Newest(fl) = CHOOSE t \in Sectors : First(t)
  BY DEF Newest
<1>2. \E t \in Sectors : First(t)
  <2>1. PICK h \in Sectors : \A r \in Sectors : fl[r] <= fl[h]
    BY HighestSector
  <2> DEFINE T == {t \in Sectors : fl[t] = fl[h]}
  <2>2. T \in SUBSET Nat /\ T # {}
    BY DEF Sectors
  <2>3. PICK t \in T : \A y \in T : t <= y
    <3> HIDE DEF T
    <3> QED BY <2>2, LeastOf
  <2>4. ASSUME NEW r \in Sectors PROVE fl[r] < fl[t] \/ (fl[r] = fl[t] /\ t <= r)
    <3>1. fl[r] <= fl[t] /\ fl[r] \in Int /\ fl[t] \in Int /\ fl[t] = fl[h]
      BY <2>1, <2>3
    <3>2. fl[r] = fl[t] => t <= r
      BY <2>3, <3>1
    <3> QED BY <3>1, <3>2
  <2> QED BY <2>3, <2>4
<1>3. Newest(fl) \in Sectors /\ First(Newest(fl))
  <2> HIDE DEF First
  <2> QED BY <1>1, <1>2
<1>4. ASSUME NEW r \in Sectors PROVE fl[r] <= fl[Newest(fl)]
  <2>1. fl[r] \in Int /\ fl[Newest(fl)] \in Int
    BY <1>3
  <2> QED BY <1>3, <2>1
<1>5. fl[s] <= fl[Newest(fl)] /\ fl[s] \in Int /\ fl[s] >= None /\ fl[Newest(fl)] \in Int
  BY <1>3, <1>4
<1> QED BY <1>3, <1>4, <1>5, LogAssumption DEF None, Sectors

\* Mixed headers have a number no higher than that of the older one.
LEMMA AndBounded ==
  ASSUME NEW m \in Int, NEW n
  PROVE  And(m, n) \in Int /\ (m \in Nat => And(m, n) \in 0..m)
<1> DEFINE common == {k \in 1..m : Bits(k) \subseteq Bits(m) \cap Bits(n)}
<1>1. And(m, n) = IF common = {} THEN 0 ELSE Max(common)
  BY DEF And
<1>2. CASE common = {}
  BY <1>1, <1>2
<1>3. CASE common # {}
  <2>1. common \in SUBSET (1..m) /\ m \in Nat
    BY <1>3
  <2>2. Max(common) \in common
    <3> HIDE DEF common
    <3> QED BY <1>3, <2>1, MaxOfPlaces
  <2> QED BY <1>1, <1>3, <2>1, <2>2
<1> QED BY <1>2, <1>3

\* A flash that has the type keeps it, and gets no number that was not given.
LEMMA ApplyType ==
  ASSUME NEW fl \in [Sectors -> Int], NEW op \in Ops
  PROVE  /\ Apply(fl, op) \in [Sectors -> Int]
         /\ Clean(fl, op) => Apply(fl, op) = Put(fl, op)
         /\ Put(fl, op) \in [Sectors -> Int]
         /\ \A n \in Nat : op.seq \in -1..n - 1 /\ (\A s \in Sectors : fl[s] \in -1..n - 1)
                             => \A s \in Sectors : Apply(fl, op)[s] \in -1..n - 1
<1> DEFINE x == fl[op.sec]
           y == IF op.seq = None \/ x \in {None, op.seq} THEN op.seq ELSE And(x, op.seq)
<1>1. op.sec \in Sectors /\ op.seq \in Int /\ x \in Int
  BY DEF Ops
<1>2. And(x, op.seq) \in Int /\ (x \in Nat => And(x, op.seq) \in 0..x)
  <2> HIDE DEF x
  <2> QED BY <1>1, AndBounded
<1>3. Apply(fl, op) = [fl EXCEPT ![op.sec] = y]
  BY DEF Apply
<1>4. y \in Int /\ (Clean(fl, op) => y = op.seq)
  BY <1>1, <1>2 DEF Clean
<1>5. ASSUME NEW n \in Nat, op.seq \in -1..n - 1, x \in -1..n - 1 PROVE y \in -1..n - 1
  <2>1. CASE y = op.seq
    BY <1>5, <2>1
  <2>2. CASE y # op.seq
    <3>1. y = And(x, op.seq) /\ x # None
      BY <2>2
    <3> HIDE DEF x, y
    <3>2. x \in Nat
      BY <1>5, <3>1 DEF None
    <3> QED BY <1>2, <1>5, <3>1, <3>2
  <2> QED BY <2>1, <2>2
<1>6. /\ Apply(fl, op) \in [Sectors -> Int] /\ Apply(fl, op)[op.sec] = y
      /\ \A s \in Sectors \ {op.sec} : Apply(fl, op)[s] = fl[s]
  <2> HIDE DEF y
  <2> QED BY <1>1, <1>3, <1>4
<1>7. Put(fl, op) \in [Sectors -> Int] /\ (y = op.seq => Apply(fl, op) = Put(fl, op))
  <2> HIDE DEF y
  <2> QED BY <1>1, <1>3 DEF Put
<1>8. ASSUME NEW n \in Nat, op.seq \in -1..n - 1, \A s \in Sectors : fl[s] \in -1..n - 1,
             NEW s \in Sectors
      PROVE  Apply(fl, op)[s] \in -1..n - 1
  <2>1. y \in -1..n - 1
    BY <1>1, <1>5, <1>8
  <2> HIDE DEF y
  <2> QED BY <1>6, <1>8, <2>1
<1> HIDE DEF x, y
<1> QED BY <1>4, <1>6, <1>7, <1>8

\* A sector nothing queued is about keeps what it holds.
LEMMA AfterAllNone ==
  ASSUME NEW fl, NEW q \in Seq(Ops), NEW s \in Sectors,
         \A i \in 1..Len(q) : q[i].sec # s
  PROVE  AfterAll(fl, q)[s] = fl[s]
<1>1. {i \in 1..Len(q) : q[i].sec = s} = {}
  OBVIOUS
<1> QED BY <1>1, Zenon DEF AfterAll

\* Any other one holds what the last operation on it writes.
LEMMA AfterAllAt ==
  ASSUME NEW fl, NEW q \in Seq(Ops), NEW s \in Sectors, NEW i \in 1..Len(q),
         q[i].sec = s, \A j \in i + 1..Len(q) : q[j].sec # s
  PROVE  AfterAll(fl, q)[s] = q[i].seq
<1> DEFINE on == {k \in 1..Len(q) : q[k].sec = s}
<1>1. AfterAll(fl, q)[s] = IF on = {} THEN fl[s] ELSE q[Max(on)].seq
  BY Zenon DEF AfterAll
<1>2. Len(q) \in Nat /\ on \in SUBSET (1..Len(q)) /\ i \in on
  OBVIOUS
<1>3. Max(on) \in on /\ \A j \in on : j <= Max(on)
  <2> HIDE DEF on
  <2> QED BY <1>2, MaxOfPlaces
<1>4. Max(on) \in 1..Len(q) /\ q[Max(on)].sec = s /\ i <= Max(on)
  BY <1>2, <1>3
<1>5. ~(Max(on) \in i + 1..Len(q))
  BY <1>4
<1>6. Max(on) = i
  <2> HIDE DEF on
  <2> QED BY <1>2, <1>4, <1>5
<1> QED BY <1>1, <1>2, <1>6

LEMMA LastOperation ==
  ASSUME NEW q \in Seq(Ops), NEW s \in Sectors, \E i \in 1..Len(q) : q[i].sec = s
  PROVE  \E i \in 1..Len(q) : q[i].sec = s /\ \A j \in i + 1..Len(q) : q[j].sec # s
<1> DEFINE on == {k \in 1..Len(q) : q[k].sec = s}
<1>1. Len(q) \in Nat /\ on \in SUBSET (1..Len(q)) /\ on # {}
  OBVIOUS
<1>2. Max(on) \in on /\ \A j \in on : j <= Max(on)
  <2> HIDE DEF on
  <2> QED BY <1>1, MaxOfPlaces
<1>3. ASSUME NEW j \in Max(on) + 1..Len(q) PROVE q[j].sec # s
  BY <1>1, <1>2
<1> QED BY <1>2, <1>3

LEMMA AfterAllType ==
  ASSUME NEW fl \in [Sectors -> Int], NEW q \in Seq(Ops)
  PROVE  /\ AfterAll(fl, q) \in [Sectors -> Int]
         /\ \A s \in Sectors : AfterAll(fl, q)[s] = fl[s]
                               \/ \E i \in 1..Len(q) : AfterAll(fl, q)[s] = q[i].seq
<1>1. ASSUME NEW s \in Sectors
      PROVE  \/ AfterAll(fl, q)[s] = fl[s]
             \/ \E i \in 1..Len(q) : AfterAll(fl, q)[s] = q[i].seq
  BY AfterAllNone, AfterAllAt, LastOperation
<1>2. \A i \in 1..Len(q) : q[i].seq \in Int
  <2>1. \A i \in 1..Len(q) : q[i] \in Ops
    OBVIOUS
  <2> QED BY <2>1 DEF Ops
<1>3. ASSUME NEW s \in Sectors PROVE AfterAll(fl, q)[s] \in Int
  BY <1>1, <1>2
<1>4. AfterAll(fl, q) = [s \in Sectors |-> AfterAll(fl, q)[s]]
  BY DEF AfterAll
<1> QED BY <1>1, <1>3, <1>4

\* Nothing queued changes nothing.
LEMMA AfterAllEmpty ==
  ASSUME NEW fl \in [Sectors -> Int]
  PROVE  AfterAll(fl, <<>>) = fl
<1>1. <<>> \in Seq(Ops) /\ Len(<<>>) = 0
  OBVIOUS
<1>2. \A s \in Sectors : AfterAll(fl, <<>>)[s] = fl[s]
  <2>1. \A i \in 1..Len(<<>>) : FALSE
    BY <1>1
  <2> QED BY <1>1, <2>1, AfterAllNone
<1>3. AfterAll(fl, <<>>) = [s \in Sectors |-> AfterAll(fl, <<>>)[s]]
  BY DEF AfterAll
<1> QED BY <1>2, <1>3

\* What is queued last is performed last.
LEMMA AfterAllAppend ==
  ASSUME NEW fl \in [Sectors -> Int], NEW q \in Seq(Ops), NEW op \in Ops
  PROVE  AfterAll(fl, Append(q, op)) = Put(AfterAll(fl, q), op)
<1> DEFINE qq == Append(q, op)
<1>1. /\ qq \in Seq(Ops) /\ Len(qq) = Len(q) + 1 /\ qq[Len(q) + 1] = op
      /\ \A i \in 1..Len(q) : qq[i] = q[i]
      /\ Len(q) \in Nat
  OBVIOUS
<1> HIDE DEF qq
<1>2. AfterAll(fl, q) \in [Sectors -> Int]
  BY AfterAllType
<1>3. ASSUME NEW s \in Sectors PROVE AfterAll(fl, qq)[s] = Put(AfterAll(fl, q), op)[s]
  <2>1. CASE s = op.sec
    <3>1. AfterAll(fl, qq)[s] = op.seq
      BY <1>1, <2>1, AfterAllAt
    <3> QED BY <3>1, <1>2, <2>1 DEF Put
  <2>2. CASE s # op.sec /\ \A i \in 1..Len(q) : q[i].sec # s
    <3>1. \A i \in 1..Len(qq) : qq[i].sec # s
      BY <1>1, <2>2
    <3>2. AfterAll(fl, qq)[s] = fl[s] /\ AfterAll(fl, q)[s] = fl[s]
      BY <1>1, <3>1, <2>2, AfterAllNone
    <3> QED BY <3>2, <1>2, <2>2 DEF Put
  <2>3. CASE s # op.sec /\ \E i \in 1..Len(q) : q[i].sec = s
    <3>1. PICK i \in 1..Len(q) : q[i].sec = s /\ \A j \in i + 1..Len(q) : q[j].sec # s
      BY <2>3, LastOperation
    <3>2. AfterAll(fl, q)[s] = q[i].seq
      BY <3>1, AfterAllAt
    <3>3. i \in 1..Len(qq) /\ qq[i].sec = s /\ \A j \in i + 1..Len(qq) : qq[j].sec # s
      BY <3>1, <1>1, <2>3
    <3>4. AfterAll(fl, qq)[s] = qq[i].seq
      BY <3>3, <1>1, AfterAllAt
    <3> QED BY <3>2, <3>4, <1>1, <1>2, <2>3 DEF Put
  <2> QED BY <2>1, <2>2, <2>3
<1>4. AfterAll(fl, qq) = [s \in Sectors |-> Put(AfterAll(fl, q), op)[s]]
  BY <1>3 DEF AfterAll
<1>5. Put(AfterAll(fl, q), op) \in [Sectors -> Int]
  BY <1>2, ApplyType
<1> QED BY <1>4, <1>5 DEF qq

\* The oldest operation may be performed at any time.
LEMMA AfterAllPerform ==
  ASSUME NEW fl \in [Sectors -> Int], NEW q \in Seq(Ops), q # <<>>
  PROVE  AfterAll(Put(fl, q[1]), Tail(q)) = AfterAll(fl, q)
<1> DEFINE t == Tail(q)
           gl == Put(fl, q[1])
<1>1. /\ t \in Seq(Ops) /\ Len(q) = Len(t) + 1 /\ q[1] \in Ops
      /\ \A i \in 1..Len(t) : t[i] = q[i + 1]
      /\ Len(t) \in Nat
  OBVIOUS
<1>2. gl \in [Sectors -> Int]
  BY <1>1, ApplyType
<1>3. \A s \in Sectors : gl[s] = IF s = q[1].sec THEN q[1].seq ELSE fl[s]
  BY DEF Put
<1> HIDE DEF t, gl
<1>4. ASSUME NEW s \in Sectors PROVE AfterAll(gl, t)[s] = AfterAll(fl, q)[s]
  <2>1. CASE \E i \in 1..Len(t) : t[i].sec = s
    <3>1. PICK i \in 1..Len(t) : t[i].sec = s /\ \A j \in i + 1..Len(t) : t[j].sec # s
      BY <2>1, <1>1, <1>2, LastOperation
    <3>2. AfterAll(gl, t)[s] = t[i].seq
      BY <3>1, <1>1, <1>2, AfterAllAt
    <3>3. ASSUME NEW j \in i + 2..Len(q) PROVE q[j].sec # s
      <4>1. j - 1 \in i + 1..Len(t) /\ t[j - 1] = q[j]
        BY <1>1
      <4> QED BY <4>1, <3>1
    <3>4. i + 1 \in 1..Len(q) /\ q[i + 1].sec = s /\ q[i + 1] = t[i]
      BY <3>1, <1>1
    <3>5. AfterAll(fl, q)[s] = q[i + 1].seq
      BY <3>3, <3>4, AfterAllAt
    <3> QED BY <3>2, <3>4, <3>5
  <2>2. CASE \A i \in 1..Len(t) : t[i].sec # s
    <3>1. \A j \in 2..Len(q) : q[j].sec # s
      <4> TAKE j \in 2..Len(q)
      <4>1. j - 1 \in 1..Len(t) /\ t[j - 1] = q[j]
        BY <1>1
      <4> QED BY <4>1, <2>2
    <3>2. AfterAll(gl, t)[s] = gl[s]
      BY <2>2, <1>1, <1>2, AfterAllNone
    <3>3. CASE s = q[1].sec
      <4>1. 1 \in 1..Len(q) /\ \A j \in 1 + 1..Len(q) : q[j].sec # s
        BY <3>1, <1>1
      <4>2. AfterAll(fl, q)[s] = q[1].seq
        BY <4>1, <3>3, AfterAllAt
      <4> QED BY <4>2, <3>2, <3>3, <1>3
    <3>4. CASE s # q[1].sec
      <4>1. \A j \in 1..Len(q) : q[j].sec # s
        BY <3>1, <3>4
      <4> QED BY <4>1, <3>2, <3>4, <1>3, AfterAllNone
    <3> QED BY <3>3, <3>4
  <2> QED BY <2>1, <2>2
<1>5. AfterAll(gl, t) = AfterAll(fl, q)
  BY <1>4 DEF AfterAll
<1> QED BY <1>5 DEF gl, t

---------------------------------------------------------------------------
(* What the steps have in common.                                           *)

\* What a flush, of whatever kind, leaves alone.
Rest == <<w, seqnum, immediately, pc, db, next, cut, owed>>

\* Steps that only move the thread that flushes or the handler of a crash.
Moves == \/ log_dump_flush_all \/ AllPick \/ AllNothing \/ AllLoad \/ AllFreed \/ AllDone
         \/ CrashStart \/ CrashEnd \/ EndDone

\* ... and from where to where.
MovesTo ==
  \/ pc = "run" /\ pc' = "all" /\ UNCHANGED <<db, next, strayed, cut, owed>>
  \/ pc = "all" /\ pc' = "picked" /\ db' = f /\ flashState # "IDLE"
     /\ UNCHANGED <<next, strayed, cut, owed>>
  \/ pc = "picked" /\ pc' = "all" /\ db' = None /\ UNCHANGED <<next, strayed, cut, owed>>
  \/ pc = "freed" /\ pc' = "loaded" /\ next' = NextBuffer(f) /\ UNCHANGED <<db, strayed, cut, owed>>
  \/ pc = "all" /\ pc' = "drain" /\ UNCHANGED <<db, next, strayed, cut, owed>>
  \/ pc = "drain" /\ pc' = "run" /\ UNCHANGED <<db, next, strayed, cut, owed>>
  \/ pc' = "crash" /\ cut' = pc /\ pc \in {"run"} \cup InThread /\ db' = None /\ next' = None
     /\ strayed' = (strayed \/ pc \in {"freed", "loaded"}) /\ owed' = owed
  \/ pc = "crash" /\ pc' = "end" /\ owed' = {buf[i].seq : i \in Unfree}
     /\ UNCHANGED <<db, next, strayed, cut>>
  \/ pc = "end" /\ pc' = "dead" /\ Unfree = {} /\ queue = <<>>
     /\ UNCHANGED <<db, next, strayed, cut, owed>>

LEMMA MovesEffect ==
  ASSUME Moves
  PROVE  /\ UNCHANGED <<buf, w, f, sector, ragged, flashState, seqnum, flash, queue, mixed>>
         /\ immediately' \in {immediately, TRUE} /\ MovesTo /\ Stored' = Stored /\ Unfree' = Unfree
<1>1. UNCHANGED <<buf, w, f, sector, ragged, flashState, seqnum, flash, queue, mixed>>
  BY Zenon DEF Moves, log_dump_flush_all, AllPick, AllNothing, AllLoad, AllFreed, AllDone,
               CrashStart, CrashEnd, EndDone
<1>2. immediately' \in {immediately, TRUE}
  BY DEF Moves, log_dump_flush_all, AllPick, AllNothing, AllLoad, AllFreed, AllDone, CrashStart,
         CrashEnd, EndDone
<1>3. ASSUME log_dump_flush_all \/ AllPick \/ AllNothing \/ AllLoad PROVE MovesTo
  BY <1>3 DEF log_dump_flush_all, AllPick, AllNothing, AllLoad, MovesTo
<1>4. ASSUME AllFreed \/ AllDone \/ CrashEnd \/ EndDone PROVE MovesTo
  BY <1>4 DEF AllFreed, AllDone, CrashEnd, EndDone, MovesTo
<1>5. ASSUME CrashStart PROVE MovesTo
  BY <1>5 DEF CrashStart, MovesTo
<1> QED BY <1>1, <1>2, <1>3, <1>4, <1>5 DEF Moves, Stored, Unfree

LEMMA NextCases ==
  ASSUME [Next]_vars
  PROVE  \/ \E fill \in {1, 2} : log_dump_output_handler(fill)
         \/ /\ UNCHANGED Rest /\ pc \in {"run", "end"}
            /\ \E async \in BOOLEAN : (async => pc = "run") /\ EraseSector(async)
         \/ /\ UNCHANGED Rest /\ pc \in {"run", "end"}
            /\ \E async \in BOOLEAN, states \in SUBSET AllStates :
                 (async => pc = "run") /\ (WriteBuffer(async, states) \/ WriteRefused(async, states))
         \/ UNCHANGED Rest /\ pc = "end" /\ WriteBehind
         \/ AllErase \/ AllErased \/ AllWrite \/ AllFree \/ AllStore \/ AllMove \/ AllIdle
         \/ Moves \/ FlashPerforms \/ Reboot \/ UNCHANGED vars
<1>1. CASE log_dump_flush
  <2>1. UNCHANGED Rest /\ pc = "run" /\ FlushStep(~immediately, {"WRITTEN"})
    BY <1>1 DEF log_dump_flush, Rest
  <2>2. {"WRITTEN"} \in SUBSET AllStates /\ (~immediately) \in BOOLEAN
        /\ pc \in {"run", "end"}
    BY <2>1 DEF AllStates
  <2>3. CASE EraseSector(~immediately)
    BY <2>1, <2>2, <2>3, Zenon
  <2>4. CASE \/ WriteBuffer(~immediately, {"WRITTEN"}) \/ WriteRefused(~immediately, {"WRITTEN"})
    <3>1. \E async \in BOOLEAN, states \in SUBSET AllStates :
            (async => pc = "run") /\ (WriteBuffer(async, states) \/ WriteRefused(async, states))
      BY <2>1, <2>2, <2>4
    <3> QED BY <2>1, <2>2, <3>1, Zenon
  <2> QED BY <2>1, <2>3, <2>4, Zenon DEF FlushStep
<1>2. CASE EndFlush
  <2>1. UNCHANGED Rest /\ pc = "end" /\ (FlushStep(FALSE, AllStates) \/ WriteBehind)
    BY <1>2 DEF EndFlush, Rest
  <2>2. FALSE \in BOOLEAN /\ AllStates \in SUBSET AllStates /\ pc \in {"run", "end"}
    BY <2>1
  <2> QED BY <2>1, <2>2, Zenon DEF FlushStep
<1> QED BY <1>1, <1>2, Zenon DEF Next, FlushAll, Crashed, Moves

LEMMA StoredType ==
  ASSUME TypeOK PROVE Stored \in [Sectors -> Int]
<1>1. flash \in [Sectors -> Int] /\ queue \in Seq(Ops)
  BY DEF TypeOK, Ops
<1> QED BY <1>1, AfterAllType DEF Stored

\* However an operation is requested, readers see it from then on.
LEMMA RequestIsStored ==
  ASSUME TypeOK, NEW op \in Ops, NEW async, Request(op, async)
  PROVE  /\ flash' \in [Sectors -> Int] /\ queue' \in Seq(Ops)
         /\ Clean(Stored, op) => Stored' = Put(Stored, op) /\ mixed' = mixed
         /\ ~mixed' => Clean(Stored, op)
         /\ mixed' \in BOOLEAN /\ (mixed => mixed')
<1>1. flash \in [Sectors -> Int] /\ queue \in Seq(Ops) /\ mixed \in BOOLEAN
  BY DEF TypeOK, Ops
<1>2. mixed' = (mixed \/ (op.seq # None /\ Stored[op.sec] \notin {None, op.seq}))
  BY DEF Request
<1>3. /\ mixed' \in BOOLEAN /\ (mixed => mixed') /\ (~mixed' => Clean(Stored, op))
      /\ Clean(Stored, op) => mixed' = mixed
  BY <1>1, <1>2, Zenon DEF Clean
<1>4. CASE async
  <2>1. queue' = Append(queue, op) /\ flash' = flash
    BY <1>4 DEF Request
  <2>2. AfterAll(flash, Append(queue, op)) = Put(AfterAll(flash, queue), op)
    BY <1>1, AfterAllAppend
  <2>3. Append(queue, op) \in Seq(Ops)
    BY <1>1
  <2> QED BY <2>1, <2>2, <2>3, <1>1, <1>3 DEF Stored
<1>5. CASE ~async
  <2>1. queue = <<>> /\ queue' = <<>> /\ flash' = Apply(flash, op)
    BY <1>5 DEF Request
  <2>2. flash' \in [Sectors -> Int] /\ (Clean(flash, op) => flash' = Put(flash, op))
    BY <1>1, <2>1, ApplyType
  <2>3. Stored = flash /\ Stored' = flash'
    BY <1>1, <2>1, <2>2, AfterAllEmpty DEF Stored
  <2> QED BY <2>1, <2>2, <2>3, <1>1, <1>3
<1> QED BY <1>4, <1>5

LEMMA PerformTypes ==
  ASSUME TypeOK, FlashPerforms
  PROVE  /\ flash' \in [Sectors -> Int] /\ queue' \in Seq(Ops)
         /\ queue[1] \in Ops /\ queue # <<>>
<1>1. flash \in [Sectors -> Int] /\ queue \in Seq(Ops) /\ queue # <<>>
  BY DEF TypeOK, Ops, FlashPerforms
<1>2. flash' = Apply(flash, queue[1]) /\ queue' = Tail(queue)
  BY DEF FlashPerforms
<1>3. queue[1] \in Ops /\ Tail(queue) \in Seq(Ops)
  BY <1>1
<1> QED BY <1>1, <1>2, <1>3, ApplyType

LEMMA Rings ==
  /\ \A i \in Buffers : NextBuffer(i) \in Buffers
  /\ \A s \in Sectors : NextSector(s) \in Sectors
  /\ 0 \in Buffers /\ 0 \in Sectors
  BY LogAssumption DEF Buffers, Sectors, NextBuffer, NextSector

---------------------------------------------------------------------------
(* The types and the buffer the ASSERT is about.                            *)

BufferType == [state : BufferStates, fill : 0..2, seq : Int]

\* A trace fills the buffer at w, and moves on from a full one.
LEMMA OutputEffect ==
  ASSUME TypeOK, NEW fill \in {1, 2}, log_dump_output_handler(fill)
  PROVE  /\ buf' \in [Buffers -> BufferType] /\ \A i \in Buffers \ {w} : buf'[i] = buf[i]
         /\ buf'[w].state = (IF fill = 2 THEN "WRITTEN" ELSE "WRITTING") /\ buf'[w].fill = fill
         /\ \/ /\ buf[w].state = "WRITTING" /\ buf'[w].seq = buf[w].seq
               /\ seqnum' \in {seqnum, seqnum + 1}
            \/ buf'[w].seq = seqnum /\ seqnum' = seqnum + 1
         /\ fill = 1 => UNCHANGED <<w, f>>
         /\ fill = 2 => w' = NextBuffer(w) /\ f' = IF w' = f THEN NextBuffer(f) ELSE f
         /\ UNCHANGED <<sector, ragged, flashState, flash, queue, pc, db, next, mixed, cut, owed>>
         /\ pc \notin {"end", "dead"} /\ UNCHANGED immediately
         /\ strayed' = (strayed \/ (pc \in {"freed", "loaded"} /\ f' # f))
<1> USE DEF log_dump_output_handler
<1>1. /\ buf \in [Buffers -> BufferType] /\ seqnum \in Nat /\ w \in Buffers
      /\ buf[w] \in BufferType
  BY DEF TypeOK, BufferType
<1>2. /\ Opened \in [state : {"WRITTING"}, fill : 0..2, seq : Int]
      /\ \/ buf[w].state = "WRITTING" /\ Opened.seq = buf[w].seq
         \/ Opened.seq = seqnum /\ Opened.fill = 0
  <2>1. CASE buf[w].state = "WRITTING"
    BY <1>1, <2>1 DEF Opened, BufferType
  <2>2. CASE buf[w].state # "WRITTING"
    <3>1. Opened = [state |-> "WRITTING", fill |-> 0, seq |-> seqnum]
      BY <2>2 DEF Opened
    <3> QED BY <1>1, <3>1
  <2> QED BY <2>1, <2>2
<1> DEFINE b == [Opened EXCEPT !.fill = fill, !.state = IF fill = 2 THEN "WRITTEN" ELSE @]
<1>3. /\ b \in BufferType /\ b.fill = fill /\ b.seq = Opened.seq
      /\ b.state = IF fill = 2 THEN "WRITTEN" ELSE "WRITTING"
  <2> DEFINE x == IF fill = 2 THEN "WRITTEN" ELSE Opened.state
  <2>1. x \in BufferStates /\ x = IF fill = 2 THEN "WRITTEN" ELSE "WRITTING"
    BY <1>2 DEF BufferStates
  <2>2. b = [Opened EXCEPT !.fill = fill, !.state = x]
    BY <1>2
  <2>3. fill \in 0..2
    OBVIOUS
  <2> HIDE DEF x, b
  <2>4. /\ b \in BufferType /\ b.fill = fill /\ b.seq = Opened.seq /\ b.state = x
    BY <1>2, <2>1, <2>2, <2>3 DEF BufferType
  <2> QED BY <2>1, <2>4
<1>4. buf' = [buf EXCEPT ![w] = b] /\ seqnum' = IF Opened.fill = 0 THEN seqnum + 1 ELSE seqnum
  OBVIOUS
<1>5. /\ fill = 1 => UNCHANGED <<w, f>>
      /\ fill = 2 => w' = NextBuffer(w) /\ f' = IF w' = f THEN NextBuffer(f) ELSE f
      /\ UNCHANGED <<sector, ragged, flashState, flash, queue, pc, db, next, mixed, cut, owed>>
      /\ pc \notin {"end", "dead"} /\ UNCHANGED immediately
      /\ strayed' = (strayed \/ (pc \in {"freed", "loaded"} /\ f' # f))
  OBVIOUS
<1> HIDE DEF b, log_dump_output_handler
<1>6. buf' \in [Buffers -> BufferType] /\ buf'[w] = b /\ \A i \in Buffers \ {w} : buf'[i] = buf[i]
  BY <1>1, <1>3, <1>4
<1> QED BY <1>1, <1>2, <1>3, <1>4, <1>5, <1>6

\* The sector is erased before anything is written to it.
LEMMA EraseEffect ==
  ASSUME TypeOK, NEW async, Request(Erase(sector), async)
  PROVE  /\ Stored' = [Stored EXCEPT ![sector] = None]
         /\ flash' \in [Sectors -> Int] /\ queue' \in Seq(Ops) /\ mixed' = mixed
         /\ Erase(sector) \in Ops /\ Erase(sector).sec = sector /\ Erase(sector).seq = None
<1>1. Erase(sector) \in Ops /\ Erase(sector).sec = sector /\ Erase(sector).seq = None
  BY DEF TypeOK, Ops, Erase, None
<1>2. Clean(Stored, Erase(sector))
  BY <1>1 DEF Clean
<1>3. /\ Stored' = Put(Stored, Erase(sector)) /\ mixed' = mixed
      /\ flash' \in [Sectors -> Int] /\ queue' \in Seq(Ops)
  BY <1>1, <1>2, RequestIsStored
<1> QED BY <1>1, <1>3 DEF Put

\* A buffer that is freed keeps what is in it, and the others are as they were.
LEMMA FreeEffect ==
  ASSUME TypeOK, NEW b \in Buffers, buf' = [buf EXCEPT ![b].state = "FREE"]
  PROVE  /\ buf' \in [Buffers -> BufferType] /\ buf'[b].state = "FREE"
         /\ buf'[b].fill = buf[b].fill
         /\ \A i \in Buffers \ {b} : buf'[i] = buf[i]
         /\ Unfree' = Unfree \ {b} /\ \A i \in Unfree' : buf'[i].seq = buf[i].seq
<1>1. buf \in [Buffers -> BufferType] /\ buf[b] \in BufferType
  BY DEF TypeOK, BufferType
<1> DEFINE x == [buf[b] EXCEPT !.state = "FREE"]
<1>2. x \in BufferType /\ x.state = "FREE" /\ x.fill = buf[b].fill
  BY <1>1 DEF BufferType, BufferStates
<1>3. buf' = [buf EXCEPT ![b] = x]
  OBVIOUS
<1> HIDE DEF x
<1>4. /\ buf' \in [Buffers -> BufferType] /\ buf'[b] = x
      /\ \A i \in Buffers \ {b} : buf'[i] = buf[i]
  BY <1>1, <1>2, <1>3
<1> QED BY <1>2, <1>4 DEF Unfree

\* After a write one buffer is free, and the others are as they were.
LEMMA CompleteEffect ==
  ASSUME TypeOK, Complete
  PROVE  /\ buf' \in [Buffers -> BufferType] /\ buf'[f].state = "FREE"
         /\ \A i \in Buffers \ {f} : buf'[i] = buf[i]
         /\ Unfree' = Unfree \ {f} /\ \A i \in Unfree' : buf'[i].seq = buf[i].seq
         /\ f' = NextBuffer(f) /\ f' \in Buffers /\ flashState' = "IDLE"
         /\ sector' = (IF buf[f].fill = 2 THEN NextSector(sector) ELSE sector)
         /\ sector' \in Sectors
         /\ ragged' = (buf[f].fill = 1) /\ ragged' \in BOOLEAN
         /\ strayed' = (strayed \/ f = w) /\ strayed' \in BOOLEAN
<1>1. f \in Buffers /\ sector \in Sectors /\ strayed \in BOOLEAN
  BY DEF TypeOK
<1>2. buf' = [buf EXCEPT ![f].state = "FREE"]
  BY DEF Complete
<1>3. ragged' = (buf[f].fill = 1) /\ strayed' = (strayed \/ f = w)
  BY DEF Complete
<1>4. ragged' \in BOOLEAN /\ strayed' \in BOOLEAN
  BY <1>3, Zenon
<1>5. /\ f' = NextBuffer(f) /\ flashState' = "IDLE"
      /\ sector' = (IF buf[f].fill = 2 THEN NextSector(sector) ELSE sector)
  BY DEF Complete
<1> QED BY <1>1, <1>2, <1>3, <1>4, <1>5, FreeEffect, Rings

\* A write is of a buffer in use; if the sector has been erased, it holds it then.
LEMMA WriteEffect ==
  ASSUME TypeOK, NEW states \in SUBSET AllStates, NEW b \in Buffers, Flushable(b, states),
         NEW async, Request(Write(sector, buf[b].seq), async)
  PROVE  /\ b \in Unfree /\ buf[b].fill \in {1, 2} /\ buf[b].seq \in Int
         /\ flash' \in [Sectors -> Int] /\ queue' \in Seq(Ops)
         /\ mixed' \in BOOLEAN /\ (mixed => mixed')
         /\ Stored[sector] \in {None, buf[b].seq} \/ ~mixed' =>
              /\ Stored' = [Stored EXCEPT ![sector] = buf[b].seq] /\ mixed' = mixed
              /\ Clean(Stored, Write(sector, buf[b].seq))
<1>1. sector \in Sectors /\ buf[b].fill \in 0..2 /\ buf[b].seq \in Int
  BY DEF TypeOK
<1>2. b \in Unfree /\ buf[b].fill > 0
  BY DEF Flushable, AllStates, Unfree
<1> DEFINE op == Write(sector, buf[b].seq)
<1>3. op \in Ops /\ op.sec = sector /\ op.seq = buf[b].seq
  BY <1>1 DEF Ops, Write
<1>4. Stored[sector] \in {None, buf[b].seq} => Clean(Stored, op)
  <2> HIDE DEF op
  <2> QED BY <1>3 DEF Clean
<1>5. /\ flash' \in [Sectors -> Int] /\ queue' \in Seq(Ops)
      /\ Clean(Stored, op) => Stored' = Put(Stored, op) /\ mixed' = mixed
      /\ ~mixed' => Clean(Stored, op)
      /\ mixed' \in BOOLEAN /\ (mixed => mixed')
  <2> HIDE DEF op
  <2> QED BY <1>3, RequestIsStored DEF op
<1>6. Put(Stored, op) = [Stored EXCEPT ![sector] = buf[b].seq]
  <2> HIDE DEF op
  <2> QED BY <1>3 DEF Put
<1> QED BY <1>1, <1>2, <1>4, <1>5, <1>6

\* A write behind a part of a sector leaves what is there, and garbles at most the next one.
LEMMA BehindEffect ==
  ASSUME FlushInv, WriteBehind, UNCHANGED Rest, pc = "end"
  PROVE  /\ cut = "counted" /\ ragged /\ ragged' /\ queue = <<>> /\ queue' = <<>>
         /\ f \in Buffers /\ buf' = [buf EXCEPT ![f].state = "FREE"]
         /\ f' = NextBuffer(f) /\ flashState' = "IDLE"
         /\ strayed' = (strayed \/ f = w) /\ sector' \in Sectors
         /\ flash' \in [Sectors -> Int]
         /\ \A s \in Sectors : flash'[s] \in {flash[s], None}
         /\ mixed' \in BOOLEAN /\ (~mixed' => ~mixed /\ flash' = flash /\ sector' = sector)
<1>1. /\ flash \in [Sectors -> Int] /\ sector \in Sectors /\ mixed \in BOOLEAN /\ f \in Buffers
      /\ ragged \in BOOLEAN
  BY DEF FlushInv, NextBufferUsable, TypeOK
<1>2. /\ ragged /\ queue = <<>> /\ queue' = queue /\ ragged' = ragged
      /\ buf' = [buf EXCEPT ![f].state = "FREE"]
      /\ f' = NextBuffer(f) /\ flashState' = "IDLE" /\ strayed' = (strayed \/ f = w)
  BY Zenon DEF WriteBehind
<1>3. flashState # "IDLE"
  BY DEF WriteBehind, MayWrite
<1>4. cut = "counted"
  BY <1>2, <1>3 DEF FlushInv
<1>5. PICK over \in BOOLEAN :
         /\ flash' = IF over THEN [flash EXCEPT ![NextSector(sector)] = None] ELSE flash
         /\ sector' = IF over THEN NextSector(sector) ELSE sector
         /\ mixed' = (mixed \/ over)
  BY Zenon DEF WriteBehind
<1>6. CASE over
  <2>1. /\ flash' = [flash EXCEPT ![NextSector(sector)] = None] /\ sector' = NextSector(sector)
        /\ mixed' = TRUE
    BY <1>5, <1>6
  <2>2. NextSector(sector) \in Sectors /\ None \in Int
    BY <1>1, Rings DEF None
  <2>3. flash' \in [Sectors -> Int] /\ \A s \in Sectors : flash'[s] \in {flash[s], None}
    BY <1>1, <2>1, <2>2
  <2> QED BY <1>1, <1>2, <1>4, <2>1, <2>2, <2>3
<1>7. CASE ~over
  <2>1. flash' = flash /\ sector' = sector /\ mixed' = mixed
    BY <1>1, <1>5, <1>7
  <2> QED BY <1>1, <1>2, <1>4, <2>1
<1> QED BY <1>6, <1>7

LEMMA FlushInvFacts ==
  ASSUME FlushInv
  PROVE  /\ TypeOK /\ buf \in [Buffers -> BufferType] /\ w \in Buffers /\ f \in Buffers
         /\ sector \in Sectors /\ seqnum \in Nat /\ flash \in [Sectors -> Int]
         /\ queue \in Seq(Ops) /\ Stored \in [Sectors -> Int] /\ ragged \in BOOLEAN
         /\ mixed \in BOOLEAN /\ strayed \in BOOLEAN
  BY StoredType DEF FlushInv, NextBufferUsable, TypeOK, BufferType, Ops

LEMMA InitFlushInv == Init => FlushInv
<1> SUFFICES ASSUME Init PROVE FlushInv
  OBVIOUS
<1>1. FreeBuffers \in [Buffers -> BufferType] /\ \A i \in Buffers : FreeBuffers[i].state = "FREE"
  BY DEF FreeBuffers, BufferType, BufferStates, None
<1>2. /\ flash \in [Sectors -> Int] /\ queue \in Seq(Ops)
      /\ w \in Buffers /\ f \in Buffers /\ sector \in Sectors
  BY Rings DEF Init, None
<1>3. /\ ragged \in BOOLEAN /\ immediately \in BOOLEAN /\ strayed \in BOOLEAN
      /\ mixed \in BOOLEAN /\ ragged = FALSE
  BY Zenon DEF Init
<1>4. TypeOK
  BY <1>1, <1>2, <1>3 DEF Init, TypeOK, BufferType, Ops
<1> QED BY <1>1, <1>3, <1>4 DEF Init, FlushInv, NextBufferUsable, OnSector, OnFlash, Halfway

LEMMA OutputFlushInv ==
  ASSUME FlushInv, NEW fill \in {1, 2}, log_dump_output_handler(fill)
  PROVE  FlushInv'
<1>1. TypeOK
  BY FlushInvFacts
<1>2. /\ buf' \in [Buffers -> BufferType] /\ \A i \in Buffers \ {w} : buf'[i] = buf[i]
      /\ buf'[w].state = (IF fill = 2 THEN "WRITTEN" ELSE "WRITTING")
      /\ fill = 1 => UNCHANGED <<w, f>>
      /\ fill = 2 => w' = NextBuffer(w) /\ f' = IF w' = f THEN NextBuffer(f) ELSE f
      /\ UNCHANGED <<sector, ragged, flashState, flash, queue, pc, db, next, mixed, cut, owed>>
      /\ UNCHANGED immediately /\ seqnum' \in {seqnum, seqnum + 1} /\ seqnum \in Nat
      /\ strayed' = (strayed \/ (pc \in {"freed", "loaded"} /\ f' # f))
  BY <1>1, OutputEffect DEF TypeOK
<1>3. w' \in Buffers /\ f' \in Buffers
  BY <1>2, Rings, FlushInvFacts
<1>4. strayed' \in BOOLEAN
  BY <1>2, Zenon
<1>5. TypeOK'
  BY <1>1, <1>2, <1>3, <1>4 DEF TypeOK, BufferType
<1>6. \A i \in Buffers \ {w'} : buf'[i].state # "WRITTING"
  <2>1. \A i \in Buffers \ {w} : buf'[i].state # "WRITTING"
    BY <1>2 DEF FlushInv, NextBufferUsable
  <2> QED BY <1>2, <2>1
<1> QED BY <1>2, <1>5, <1>6 DEF FlushInv, NextBufferUsable

LEMMA EraseFlushInv ==
  ASSUME FlushInv, NEW async, EraseSector(async), UNCHANGED Rest, pc \in {"run", "end"}
  PROVE  FlushInv'
<1>1. /\ TypeOK /\ Request(Erase(sector), async) /\ flashState' = "ERASED" /\ ~ragged
      /\ UNCHANGED <<buf, f, sector, ragged, strayed>>
  BY FlushInvFacts DEF EraseSector
<1>2. flash' \in [Sectors -> Int] /\ queue' \in Seq(Ops) /\ mixed' = mixed
  BY <1>1, EraseEffect
<1>3. TypeOK'
  BY <1>1, <1>2 DEF TypeOK, Rest, Ops
<1> QED BY <1>1, <1>3 DEF FlushInv, NextBufferUsable, Rest, OnSector, OnFlash, Halfway

LEMMA WriteFlushInv ==
  ASSUME FlushInv, NEW async, NEW states \in SUBSET AllStates, WriteBuffer(async, states),
         UNCHANGED Rest, pc \in {"run", "end"}
  PROVE  FlushInv'
<1>1. /\ Flushable(f, states) /\ Complete /\ Request(Write(sector, buf[f].seq), async)
      /\ UNCHANGED <<w, seqnum, immediately, owed, pc, db, next, cut>> /\ f \in Buffers /\ TypeOK
  BY FlushInvFacts DEF WriteBuffer, MayWrite, Rest
<1>2. flash' \in [Sectors -> Int] /\ queue' \in Seq(Ops) /\ mixed' \in BOOLEAN
  BY <1>1, WriteEffect
<1>3. /\ buf' \in [Buffers -> BufferType] /\ buf'[f].state = "FREE"
      /\ \A i \in Buffers \ {f} : buf'[i] = buf[i]
      /\ f' \in Buffers /\ flashState' = "IDLE" /\ sector' \in Sectors
      /\ ragged' \in BOOLEAN /\ strayed' \in BOOLEAN
  BY <1>1, CompleteEffect
<1>4. TypeOK'
  BY <1>1, <1>2, <1>3 DEF TypeOK, BufferType, Ops
<1> QED BY <1>1, <1>3, <1>4 DEF FlushInv, NextBufferUsable, OnSector, OnFlash, Halfway

LEMMA RefusedFlushInv ==
  ASSUME FlushInv, NEW async, NEW states, WriteRefused(async, states), UNCHANGED Rest,
         pc \in {"run", "end"}
  PROVE  FlushInv'
<1>1. /\ flashState' = "WRITTING" /\ flashState # "IDLE" /\ TypeOK
      /\ UNCHANGED <<buf, f, sector, ragged, strayed, mixed, flash, queue>>
  BY FlushInvFacts DEF WriteRefused, MayWrite
<1>2. TypeOK'
  BY <1>1 DEF TypeOK, Rest
<1> QED BY <1>1, <1>2 DEF FlushInv, NextBufferUsable, Rest, OnSector, OnFlash, Halfway

LEMMA BehindFlushInv ==
  ASSUME FlushInv, WriteBehind, UNCHANGED Rest, pc = "end"
  PROVE  FlushInv'
<1>1. /\ TypeOK /\ cut = "counted" /\ ragged' /\ queue' = <<>>
      /\ f \in Buffers /\ buf' = [buf EXCEPT ![f].state = "FREE"]
      /\ f' = NextBuffer(f) /\ flashState' = "IDLE"
      /\ strayed' = (strayed \/ f = w) /\ sector' \in Sectors
      /\ flash' \in [Sectors -> Int] /\ mixed' \in BOOLEAN
  BY BehindEffect, FlushInvFacts
<1>2. /\ buf' \in [Buffers -> BufferType] /\ buf'[f].state = "FREE"
      /\ \A i \in Buffers \ {f} : buf'[i] = buf[i]
  BY <1>1, FreeEffect
<1>3. f' \in Buffers /\ queue' \in Seq(Ops)
  BY <1>1, Rings
<1>4. ragged' = ragged /\ strayed' \in BOOLEAN
  BY <1>1, Zenon DEF WriteBehind
<1>5. TypeOK'
  BY <1>1, <1>2, <1>3, <1>4 DEF TypeOK, BufferType, Ops, Rest
<1> QED BY <1>1, <1>2, <1>5 DEF FlushInv, NextBufferUsable, Rest, OnSector, OnFlash, Halfway

\* The steps of the thread on the flash.
LEMMA AllFlashFlushInv ==
  ASSUME FlushInv, AllErase \/ AllErased \/ AllWrite \/ AllIdle
  PROVE  FlushInv'
<1>1. TypeOK /\ AllStates \in SUBSET AllStates
  BY FlushInvFacts
<1>2. CASE AllErase
  <2>1. /\ flashState = "IDLE" /\ ~ragged /\ Request(Erase(sector), FALSE) /\ pc' = "erased"
        /\ UNCHANGED <<buf, w, f, sector, ragged, flashState, seqnum, immediately, db, next,
                       strayed, cut, owed>> /\ pc = "all"
    BY <1>2 DEF AllErase
  <2>2. flash' \in [Sectors -> Int] /\ queue' \in Seq(Ops) /\ mixed' = mixed
    BY <1>1, <2>1, EraseEffect
  <2>3. TypeOK'
    BY <1>1, <2>1, <2>2 DEF TypeOK, Ops, InThread
  <2> QED BY <2>1, <2>3 DEF FlushInv, NextBufferUsable, OnSector, OnFlash, Halfway
<1>3. CASE AllErased
  <2>1. TypeOK'
    BY <1>1, <1>3 DEF AllErased, TypeOK, InThread
  <2> QED BY <1>3, <2>1 DEF AllErased, FlushInv, NextBufferUsable, OnSector, OnFlash, Halfway
<1>4. CASE AllWrite
  <2>1. /\ Flushable(db, AllStates) /\ Request(Write(sector, buf[db].seq), FALSE)
        /\ pc = "picked" /\ flashState' = "WRITTING" /\ pc' = "written" /\ db \in Buffers
        /\ UNCHANGED <<buf, w, f, sector, ragged, seqnum, immediately, db, next, strayed, cut,
                       owed>>
    BY <1>4 DEF AllWrite, FlushInv
  <2>2. flash' \in [Sectors -> Int] /\ queue' \in Seq(Ops) /\ mixed' \in BOOLEAN
    BY <1>1, <2>1, WriteEffect
  <2>3. TypeOK'
    BY <1>1, <2>1, <2>2 DEF TypeOK, Ops, InThread, OnFlash
  <2>4. ~ragged
    BY <2>1 DEF FlushInv, OnFlash
  <2> QED BY <2>1, <2>3, <2>4 DEF FlushInv, NextBufferUsable
<1>5. CASE AllIdle
  <2>1. TypeOK'
    BY <1>1, <1>5 DEF AllIdle, TypeOK, InThread
  <2> QED BY <1>5, <2>1 DEF AllIdle, FlushInv, NextBufferUsable, OnSector, OnFlash, Halfway
<1> QED BY <1>2, <1>3, <1>4, <1>5

\* ... and those that give the buffer back.
LEMMA AllBufferFlushInv ==
  ASSUME FlushInv, AllFree \/ AllStore \/ AllMove
  PROVE  FlushInv'
<1>1. TypeOK /\ f \in Buffers /\ buf \in [Buffers -> BufferType] /\ sector \in Sectors
  BY FlushInvFacts
<1>2. CASE AllFree
  <2>1. /\ buf' = [buf EXCEPT ![db].state = "FREE"] /\ pc = "written" /\ pc' = "freed"
        /\ strayed' = (strayed \/ db = w \/ db # f) /\ db \in Buffers
        /\ UNCHANGED <<w, f, sector, ragged, flashState, seqnum, immediately, flash, queue, db,
                       next, mixed, cut, owed>>
    BY <1>2 DEF AllFree, FlushInv, OnSector
  <2>2. /\ buf' \in [Buffers -> BufferType] /\ buf'[db].state = "FREE"
        /\ \A i \in Buffers \ {db} : buf'[i] = buf[i]
    BY <1>1, <2>1, FreeEffect
  <2>3. strayed' \in BOOLEAN
    BY <2>1, Zenon
  <2>4. TypeOK'
    BY <1>1, <2>1, <2>2, <2>3 DEF TypeOK, BufferType, InThread, OnFlash, Halfway
  <2>5. flashState # "IDLE" /\ ~ragged
    BY <2>1 DEF FlushInv, OnFlash
  <2> QED BY <2>1, <2>2, <2>4, <2>5 DEF FlushInv, NextBufferUsable
<1>3. CASE AllStore
  <2>1. /\ f' = next /\ next' = None /\ pc = "loaded" /\ pc' = "moved" /\ next \in Buffers
        /\ db \in Buffers /\ flashState # "IDLE" /\ ~ragged
        /\ UNCHANGED <<buf, w, sector, ragged, flashState, seqnum, immediately, flash, queue, db,
                       strayed, mixed, cut, owed>>
    BY <1>3 DEF AllStore, FlushInv, OnSector, OnFlash, Halfway
  <2>2. TypeOK'
    BY <1>1, <2>1 DEF TypeOK, InThread, OnFlash, Halfway
  <2> QED BY <2>1, <2>2 DEF FlushInv, NextBufferUsable
<1>4. CASE AllMove
  <2>1. /\ pc = "moved" /\ pc' = "counted" /\ db' = None /\ db \in Buffers /\ flashState # "IDLE"
        /\ sector' = IF buf[db].fill = 2 THEN NextSector(sector) ELSE sector
        /\ ragged' = (buf[db].fill = 1) /\ strayed' = (strayed \/ buf[db].state # "FREE")
        /\ UNCHANGED <<buf, w, f, flashState, seqnum, immediately, flash, queue, next, mixed, cut,
                       owed>>
    BY <1>4 DEF AllMove, FlushInv, OnSector, OnFlash, Halfway
  <2>2. ragged' \in BOOLEAN /\ strayed' \in BOOLEAN
    BY <2>1, Zenon
  <2>3. sector' \in Sectors
    BY <1>1, <2>1, Rings
  <2>4. TypeOK'
    BY <1>1, <2>1, <2>2, <2>3 DEF TypeOK, InThread, OnFlash, Halfway
  <2> QED BY <2>1, <2>4 DEF FlushInv, NextBufferUsable, OnSector
<1> QED BY <1>2, <1>3, <1>4

LEMMA MovesFlushInv ==
  ASSUME FlushInv, Moves
  PROVE  FlushInv'
<1>1. /\ TypeOK /\ f \in Buffers
      /\ UNCHANGED <<buf, w, f, sector, ragged, flashState, seqnum, flash, queue, mixed>>
      /\ immediately' \in {immediately, TRUE} /\ MovesTo
  BY MovesEffect, FlushInvFacts
<1>2. immediately' \in BOOLEAN
  BY <1>1, Zenon DEF TypeOK
<1>3. strayed' \in BOOLEAN
  BY <1>1, Zenon DEF MovesTo, TypeOK
<1>4. /\ pc' \in {"run", "crash", "end", "dead"} \cup InThread
      /\ db' \in Buffers \cup {None} /\ next' \in Buffers \cup {None}
      /\ cut' \in {"none", "run"} \cup InThread
  BY <1>1, Rings DEF MovesTo, TypeOK, InThread, OnFlash, Halfway
<1>5. owed' \subseteq Int
  <2>1. owed' = owed \/ owed' = {buf[i].seq : i \in Unfree}
    BY <1>1 DEF MovesTo
  <2>2. {buf[i].seq : i \in Unfree} \subseteq Int /\ owed \subseteq Int
    BY FlushInvFacts DEF Unfree, TypeOK, BufferType
  <2> QED BY <2>1, <2>2
<1>6. TypeOK'
  BY <1>1, <1>2, <1>3, <1>4, <1>5 DEF TypeOK
<1>7. /\ pc' \in {"picked"} \cup OnSector => db' \in Buffers
      /\ pc' = "loaded" => next' \in Buffers
      /\ pc' \in {"picked"} \cup OnFlash => flashState # "IDLE"
      /\ pc' # "erased"
      /\ pc' \notin {"crash", "end", "dead"} => cut' = "none"
      /\ ragged => flashState = "IDLE" \/ pc' = "counted" \/ cut' = "counted"
  BY <1>1, Rings DEF MovesTo, FlushInv, OnSector, OnFlash, Halfway, InThread
<1> QED BY <1>1, <1>6, <1>7 DEF FlushInv, NextBufferUsable

LEMMA PerformFlushInv ==
  ASSUME FlushInv, FlashPerforms
  PROVE  FlushInv'
<1>1. UNCHANGED <<buf, w, f, sector, ragged, flashState, seqnum, immediately, pc, db, next,
                  strayed, mixed, cut, owed>>
  BY DEF FlashPerforms
<1>2. TypeOK /\ flash' \in [Sectors -> Int] /\ queue' \in Seq(Ops)
  BY PerformTypes, FlushInvFacts
<1>3. TypeOK'
  BY <1>1, <1>2 DEF TypeOK, Ops
<1> QED BY <1>1, <1>3 DEF FlushInv, NextBufferUsable

\* After a power loss memory is as after the first boot; the flash says where to go on.
LEMMA RebootEffect ==
  ASSUME FlushInv, SeqnumInv, Reboot
  PROVE  /\ FlushInv' /\ Unfree' = {} /\ flash' = flash /\ queue' = <<>> /\ Stored' = flash
         /\ pc' = "run" /\ w' = 0 /\ f' = 0 /\ strayed' = FALSE /\ mixed' = mixed
         /\ flashState' = "IDLE" /\ cut' = "none" /\ db' = None /\ next' = None
         /\ \A i \in Buffers : buf'[i].state = "FREE"
         /\ Newest(flash) = None => \A s \in Sectors : flash[s] = None
         /\ Newest(flash) # None => /\ Newest(flash) \in Sectors /\ flash[Newest(flash)] # None
                                  /\ \A s \in Sectors : flash[s] <= flash[Newest(flash)]
                                  /\ sector' = NextSector(Newest(flash))
         /\ seqnum' \in Nat /\ \A s \in Sectors : flash[s] < seqnum'
<1>1. /\ flash \in [Sectors -> Int] /\ \A s \in Sectors : flash[s] >= None /\ mixed \in BOOLEAN
  BY FlushInvFacts DEF SeqnumInv, None
<1>2. FreeBuffers \in [Buffers -> BufferType] /\ \A i \in Buffers : FreeBuffers[i].state = "FREE"
  BY DEF FreeBuffers, BufferType, BufferStates, None
<1>3. /\ Newest(flash) = None => \A s \in Sectors : flash[s] = None
      /\ Newest(flash) # None => /\ Newest(flash) \in Sectors /\ flash[Newest(flash)] # None
                               /\ \A s \in Sectors : flash[s] <= flash[Newest(flash)]
  BY <1>1, NewestIsHighest
<1>4. /\ sector' \in Sectors /\ (Newest(flash) # None => sector' = NextSector(Newest(flash)))
  BY <1>3, Rings DEF Reboot, NextFree
<1>5. seqnum' \in Nat /\ \A s \in Sectors : flash[s] < seqnum'
  <2>1. CASE Newest(flash) = None
    BY <1>3, <2>1 DEF Reboot, NextSeqnum, None
  <2>2. CASE Newest(flash) # None
    <3>1. seqnum' = flash[Newest(flash)] + 1
      BY <2>2 DEF Reboot, NextSeqnum
    <3>2. flash[Newest(flash)] \in Int /\ flash[Newest(flash)] >= None /\ flash[Newest(flash)] # None
      BY <1>1, <1>3, <2>2
    <3>3. flash[Newest(flash)] \in Nat
      BY <3>2 DEF None
    <3> QED BY <3>1, <3>3, <1>1, <1>3, <2>2
  <2> QED BY <2>1, <2>2
<1>6. /\ buf' = FreeBuffers /\ w' = 0 /\ f' = 0 /\ ragged' = FALSE /\ flashState' = "IDLE"
      /\ queue' = <<>> /\ pc' = "run" /\ db' = None /\ next' = None /\ strayed' = FALSE
      /\ cut' = "none" /\ owed' = {} /\ immediately' = FALSE /\ flash' = flash /\ mixed' = mixed
  BY Zenon DEF Reboot
<1>7. queue' \in Seq(Ops)
  BY <1>6
<1>8. TypeOK'
  BY <1>1, <1>2, <1>4, <1>5, <1>6, <1>7, Rings DEF TypeOK, BufferType, Ops
<1>9. FlushInv' /\ Unfree' = {}
  BY <1>2, <1>6, <1>8 DEF FlushInv, NextBufferUsable, Unfree, OnSector, OnFlash, Halfway
<1>10. Stored' = flash
  BY <1>1, <1>6, AfterAllEmpty DEF Stored
<1> QED BY <1>2, <1>3, <1>4, <1>5, <1>6, <1>9, <1>10

LEMMA NextFlushInv == FlushInv /\ SeqnumInv /\ [Next]_vars => FlushInv'
<1> SUFFICES ASSUME FlushInv, SeqnumInv, [Next]_vars PROVE FlushInv'
  OBVIOUS
<1>1. ASSUME NEW fill \in {1, 2}, log_dump_output_handler(fill) PROVE FlushInv'
  BY <1>1, OutputFlushInv
<1>2. ASSUME pc \in {"run", "end"}, NEW async, EraseSector(async), UNCHANGED Rest
      PROVE  FlushInv'
  BY <1>2, EraseFlushInv
<1>3. ASSUME pc \in {"run", "end"}, NEW async, NEW states \in SUBSET AllStates, UNCHANGED Rest,
             WriteBuffer(async, states) \/ WriteRefused(async, states)
      PROVE  FlushInv'
  BY <1>3, WriteFlushInv, RefusedFlushInv
<1>4. ASSUME UNCHANGED Rest, pc = "end", WriteBehind PROVE FlushInv'
  BY <1>4, BehindFlushInv
<1>5. CASE AllErase \/ AllErased \/ AllWrite \/ AllIdle \/ AllFree \/ AllStore \/ AllMove
  BY <1>5, AllFlashFlushInv, AllBufferFlushInv
<1>6. CASE Moves \/ FlashPerforms
  BY <1>6, MovesFlushInv, PerformFlushInv
<1>7. CASE UNCHANGED vars
  <2>1. TypeOK'
    BY <1>7, FlushInvFacts DEF vars, TypeOK
  <2> QED BY <1>7, <2>1 DEF vars, FlushInv, NextBufferUsable
<1>8. CASE Reboot
  BY <1>8, RebootEffect
<1> QED BY <1>1, <1>2, <1>3, <1>4, <1>5, <1>6, <1>7, <1>8, NextCases, Zenon

---------------------------------------------------------------------------
(* The sequence numbers.                                                    *)

LEMMA StoredBounded ==
  ASSUME FlushInv, SeqnumInv
  PROVE  \A s \in Sectors : Stored[s] \in -1..seqnum - 1
  BY FlushInvFacts, AfterAllType DEF SeqnumInv, Stored

\* A buffer at w that is not in use gets the next number, the others keep theirs.
LEMMA OutputNumbers ==
  ASSUME FlushInv, SeqnumInv, NEW fill \in {1, 2}, log_dump_output_handler(fill)
  PROVE  /\ Unfree' = Unfree \cup {w} /\ seqnum' \in {seqnum, seqnum + 1}
         /\ \A i \in Unfree \ {w} : buf'[i].seq = buf[i].seq
         /\ \/ w \in Unfree /\ buf'[w].seq = buf[w].seq
            \/ buf'[w].seq = seqnum /\ seqnum' = seqnum + 1
         /\ UNCHANGED <<sector, ragged, flashState, flash, queue, pc, db, next, mixed, cut>>
         /\ Stored' = Stored
<1>1. TypeOK /\ w \in Buffers /\ seqnum \in Nat
  BY FlushInvFacts
<1>2. /\ \A i \in Buffers \ {w} : buf'[i] = buf[i]
      /\ buf'[w].state # "FREE"
      /\ \/ /\ buf[w].state = "WRITTING" /\ buf'[w].seq = buf[w].seq
            /\ seqnum' \in {seqnum, seqnum + 1}
         \/ buf'[w].seq = seqnum /\ seqnum' = seqnum + 1
      /\ UNCHANGED <<sector, ragged, flashState, flash, queue, pc, db, next, mixed, cut>>
  BY <1>1, OutputEffect
<1> QED BY <1>1, <1>2 DEF Unfree, Stored

\* A request is of a number already given, or of none.
LEMMA RequestBounded ==
  ASSUME FlushInv, SeqnumInv, NEW op \in Ops, op.seq \in -1..seqnum - 1,
         NEW async, Request(op, async)
  PROVE  /\ \A s \in Sectors : flash'[s] \in -1..seqnum - 1
         /\ \A i \in 1..Len(queue') : queue'[i].seq \in -1..seqnum - 1
<1>1. flash \in [Sectors -> Int] /\ queue \in Seq(Ops) /\ seqnum \in Nat
  BY FlushInvFacts
<1>2. CASE async
  <2>1. queue' = Append(queue, op) /\ flash' = flash
    BY <1>2 DEF Request
  <2>2. /\ Len(queue') = Len(queue) + 1 /\ queue'[Len(queue) + 1] = op
        /\ \A i \in 1..Len(queue) : queue'[i] = queue[i]
    BY <1>1, <2>1
  <2> QED BY <2>1, <2>2, <1>1 DEF SeqnumInv
<1>3. CASE ~async
  <2>1. flash' = Apply(flash, op) /\ queue' = queue
    BY <1>3 DEF Request
  <2>2. \A s \in Sectors : flash'[s] \in -1..seqnum - 1
    BY <1>1, <2>1, ApplyType DEF SeqnumInv
  <2> QED BY <2>1, <2>2 DEF SeqnumInv
<1> QED BY <1>2, <1>3

LEMMA InitSeqnumInv == Init => SeqnumInv
  BY DEF Init, SeqnumInv, FreeBuffers, Unfree, None

LEMMA OutputSeqnumInv ==
  ASSUME FlushInv, SeqnumInv, NEW fill \in {1, 2}, log_dump_output_handler(fill)
  PROVE  SeqnumInv'
<1>1. seqnum \in Nat /\ seqnum' \in {seqnum, seqnum + 1} /\ flash' = flash /\ queue' = queue
  BY FlushInvFacts, OutputNumbers
<1>2. ASSUME NEW i \in Unfree' PROVE buf'[i].seq \in 0..seqnum' - 1
  <2>1. CASE i # w
    <3>1. i \in Unfree /\ buf'[i].seq = buf[i].seq
      BY <2>1, OutputNumbers
    <3> QED BY <3>1, <1>1 DEF SeqnumInv
  <2>2. CASE i = w /\ w \in Unfree /\ buf'[w].seq = buf[w].seq
    BY <2>2, <1>1 DEF SeqnumInv
  <2>3. CASE i = w /\ buf'[w].seq = seqnum /\ seqnum' = seqnum + 1
    BY <2>3, <1>1
  <2> QED BY <2>1, <2>2, <2>3, OutputNumbers
<1> QED BY <1>1, <1>2 DEF SeqnumInv

\* A write of a buffer in use.
LEMMA WriteBounded ==
  ASSUME FlushInv, SeqnumInv, NEW states \in SUBSET AllStates, NEW b \in Buffers,
         Flushable(b, states), NEW async, Request(Write(sector, buf[b].seq), async)
  PROVE  /\ \A s \in Sectors : flash'[s] \in -1..seqnum - 1
         /\ \A i \in 1..Len(queue') : queue'[i].seq \in -1..seqnum - 1
<1>1. b \in Unfree /\ sector \in Sectors
  BY WriteEffect, FlushInvFacts
<1>2. buf[b].seq \in -1..seqnum - 1 /\ buf[b].seq \in Int
  BY <1>1, FlushInvFacts DEF SeqnumInv
<1> DEFINE op == Write(sector, buf[b].seq)
<1>3. op \in Ops /\ op.seq \in -1..seqnum - 1
  BY <1>1, <1>2 DEF Ops, Write
<1> HIDE DEF op
<1> QED BY <1>3, RequestBounded DEF op

LEMMA EraseBounded ==
  ASSUME FlushInv, SeqnumInv, NEW async, Request(Erase(sector), async)
  PROVE  /\ \A s \in Sectors : flash'[s] \in -1..seqnum - 1
         /\ \A i \in 1..Len(queue') : queue'[i].seq \in -1..seqnum - 1
<1>1. Erase(sector) \in Ops /\ Erase(sector).seq \in -1..seqnum - 1
  BY FlushInvFacts DEF Ops, Erase, None
<1> QED BY <1>1, RequestBounded

\* Buffers are given back.
LEMMA FewerSeqnumInv ==
  ASSUME SeqnumInv, Unfree' \subseteq Unfree,
         \A i \in Unfree' : buf'[i].seq = buf[i].seq, seqnum' = seqnum,
         \A s \in Sectors : flash'[s] \in -1..seqnum - 1,
         \A i \in 1..Len(queue') : queue'[i].seq \in -1..seqnum - 1
  PROVE  SeqnumInv'
  BY DEF SeqnumInv

LEMMA PerformsSeqnumInv ==
  ASSUME FlushInv, SeqnumInv, FlashPerforms
  PROVE  SeqnumInv'
<1>1. /\ flash \in [Sectors -> Int] /\ queue \in Seq(Ops) /\ queue # <<>>
      /\ flash' = Apply(flash, queue[1]) /\ queue' = Tail(queue)
      /\ buf' = buf /\ seqnum' = seqnum /\ seqnum \in Nat
  BY FlushInvFacts DEF FlashPerforms
<1>2. queue[1].seq \in -1..seqnum - 1 /\ queue[1] \in Ops
  BY <1>1 DEF SeqnumInv
<1>3. \A s \in Sectors : flash'[s] \in -1..seqnum - 1
  BY <1>1, <1>2, ApplyType DEF SeqnumInv
<1>4. \A i \in 1..Len(queue') : queue'[i].seq \in -1..seqnum - 1
  BY <1>1 DEF SeqnumInv
<1> QED BY <1>1, <1>3, <1>4, FewerSeqnumInv DEF Unfree

LEMMA NextSeqnumInv == FlushInv /\ SeqnumInv /\ [Next]_vars => SeqnumInv'
<1> SUFFICES ASSUME FlushInv, SeqnumInv, [Next]_vars PROVE SeqnumInv'
  OBVIOUS
<1>0. TypeOK /\ f \in Buffers /\ AllStates \in SUBSET AllStates
  BY FlushInvFacts
<1>1. ASSUME NEW fill \in {1, 2}, log_dump_output_handler(fill) PROVE SeqnumInv'
  BY <1>1, OutputSeqnumInv
<1>2. ASSUME NEW async, Request(Erase(sector), async), UNCHANGED <<buf, seqnum>>
      PROVE  SeqnumInv'
  BY <1>2, EraseBounded, FewerSeqnumInv DEF Unfree
<1>3. ASSUME NEW async, EraseSector(async), UNCHANGED Rest PROVE SeqnumInv'
  BY <1>2, <1>3 DEF Rest, EraseSector
<1>4. ASSUME NEW async, NEW states \in SUBSET AllStates, UNCHANGED Rest,
             WriteBuffer(async, states)
      PROVE  SeqnumInv'
  <2>1. /\ Flushable(f, states) /\ Request(Write(sector, buf[f].seq), async) /\ Complete
        /\ seqnum' = seqnum
    BY <1>4 DEF WriteBuffer, MayWrite, Rest
  <2>2. Unfree' \subseteq Unfree /\ \A i \in Unfree' : buf'[i].seq = buf[i].seq
    BY <1>0, <2>1, CompleteEffect
  <2> QED BY <1>0, <2>1, <2>2, WriteBounded, FewerSeqnumInv
<1>5. ASSUME NEW async, NEW states, UNCHANGED Rest, WriteRefused(async, states)
      PROVE  SeqnumInv'
  BY <1>5 DEF Rest, WriteRefused, SeqnumInv, Unfree
<1>6. ASSUME WriteBehind, UNCHANGED Rest, pc = "end" PROVE SeqnumInv'
  <2>1. /\ f \in Buffers /\ buf' = [buf EXCEPT ![f].state = "FREE"] /\ queue' = <<>>
        /\ \A s \in Sectors : flash'[s] \in {flash[s], None}
    BY <1>6, BehindEffect
  <2>2. Unfree' \subseteq Unfree /\ \A i \in Unfree' : buf'[i].seq = buf[i].seq
    BY <1>0, <2>1, FreeEffect
  <2>3. \A s \in Sectors : flash'[s] \in -1..seqnum - 1
    <3>1. seqnum \in Nat /\ \A s \in Sectors : flash[s] \in -1..seqnum - 1
      BY FlushInvFacts DEF SeqnumInv
    <3>2. None \in -1..seqnum - 1
      BY <3>1 DEF None
    <3> QED BY <2>1, <3>1, <3>2
  <2>4. 1..Len(queue') = {} /\ seqnum' = seqnum
    BY <1>6, <2>1 DEF Rest
  <2> QED BY <2>2, <2>3, <2>4, FewerSeqnumInv
<1>7. CASE AllErase
  BY <1>2, <1>7 DEF AllErase
<1>8. CASE AllWrite
  <2>1. /\ Flushable(db, AllStates) /\ Request(Write(sector, buf[db].seq), FALSE)
        /\ db \in Buffers /\ UNCHANGED <<buf, seqnum>>
    BY <1>8 DEF AllWrite, FlushInv
  <2>2. Unfree' \subseteq Unfree /\ \A i \in Unfree' : buf'[i].seq = buf[i].seq
    BY <2>1 DEF Unfree
  <2> QED BY <1>0, <2>1, <2>2, WriteBounded, FewerSeqnumInv
<1>9. CASE AllFree
  <2>1. /\ db \in Buffers /\ buf' = [buf EXCEPT ![db].state = "FREE"]
        /\ UNCHANGED <<seqnum, flash, queue>>
    BY <1>9 DEF AllFree, FlushInv, OnSector
  <2>2. Unfree' \subseteq Unfree /\ \A i \in Unfree' : buf'[i].seq = buf[i].seq
    BY <1>0, <2>1, FreeEffect
  <2> QED BY <2>1, <2>2 DEF SeqnumInv
<1>10. CASE AllErased \/ AllStore \/ AllMove \/ AllIdle \/ Moves \/ UNCHANGED vars
  <2>1. UNCHANGED <<buf, seqnum, flash, queue>>
    BY <1>10, MovesEffect, Zenon DEF AllErased, AllStore, AllMove, AllIdle, vars
  <2> QED BY <2>1 DEF SeqnumInv, Unfree
<1>11. CASE FlashPerforms
  BY <1>11, PerformsSeqnumInv
<1>12. CASE Reboot
  <2>1. \A s \in Sectors : flash[s] \in Int /\ flash[s] >= -1
    BY FlushInvFacts DEF SeqnumInv
  <2>2. /\ Unfree' = {} /\ flash' = flash /\ queue' = <<>>
        /\ seqnum' \in Nat /\ \A s \in Sectors : flash[s] < seqnum'
    BY <1>12, RebootEffect
  <2>3. 1..Len(queue') = {}
    BY <2>2
  <2>4. \A s \in Sectors : flash'[s] \in -1..seqnum' - 1
    BY <2>1, <2>2
  <2> QED BY <2>2, <2>3, <2>4 DEF SeqnumInv
<1> QED BY <1>1, <1>3, <1>4, <1>5, <1>6, <1>7, <1>8, <1>9, <1>10, <1>11, <1>12, NextCases, Zenon

---------------------------------------------------------------------------
(* Erased before written.                                                   *)

\* The flash as it is, and as it will be when nothing is queued any more.
LEMMA AfterEnds ==
  ASSUME FlushInv PROVE After(0) = flash /\ After(Len(queue)) = Stored
<1>1. flash \in [Sectors -> Int] /\ queue \in Seq(Ops)
  BY FlushInvFacts
<1>2. SubSeq(queue, 1, 0) = <<>> /\ SubSeq(queue, 1, Len(queue)) = queue
  BY <1>1
<1> QED BY <1>1, <1>2, AfterAllEmpty DEF After, Stored

LEMMA AfterAppended ==
  ASSUME FlushInv, NEW op \in Ops, queue' = Append(queue, op), flash' = flash
  PROVE  /\ Len(queue') = Len(queue) + 1 /\ queue'[Len(queue) + 1] = op
         /\ \A k \in 1..Len(queue) : queue'[k] = queue[k]
         /\ \A k \in 0..Len(queue) : After(k)' = After(k)
         /\ \A k \in {Len(queue) + 1} : After(k)' = Put(Stored, op)
<1>1. flash \in [Sectors -> Int] /\ queue \in Seq(Ops) /\ Len(queue) \in Nat
  BY FlushInvFacts
<1>2. /\ Len(queue') = Len(queue) + 1 /\ queue'[Len(queue) + 1] = op
      /\ \A k \in 1..Len(queue) : queue'[k] = queue[k]
      /\ queue' \in Seq(Ops)
  BY <1>1
<1>3. ASSUME NEW k \in 0..Len(queue) PROVE After(k)' = After(k)
  <2>1. SubSeq(queue', 1, k) = SubSeq(queue, 1, k)
    BY <1>1, <1>2
  <2> QED BY <2>1 DEF After
<1>4. SubSeq(queue', 1, Len(queue) + 1) = queue'
  BY <1>1, <1>2
<1>5. AfterAll(flash', SubSeq(queue', 1, Len(queue) + 1)) = Put(Stored, op)
  BY <1>1, <1>4, AfterAllAppend DEF Stored
<1>6. \A k \in {Len(queue) + 1} : After(k)' = Put(Stored, op)
  BY <1>5 DEF After
<1> QED BY <1>2, <1>3, <1>6

\* The oldest operation does not mix anything, so the flash comes to hold what was read.
LEMMA PerformIsClean ==
  ASSUME FlushInv, CleanInv, FlashPerforms
  PROVE  flash' = Put(flash, queue[1])
<1>1. queue[1] \in Ops /\ queue # <<>> /\ queue \in Seq(Ops) /\ flash \in [Sectors -> Int]
  BY PerformTypes, FlushInvFacts
<1>2. Clean(After(1 - 1), queue[1])
  BY <1>1 DEF CleanInv
<1>3. Clean(flash, queue[1])
  BY <1>2, AfterEnds
<1> QED BY <1>1, <1>3, ApplyType DEF FlashPerforms

LEMMA PerformIsStored ==
  ASSUME FlushInv, CleanInv, FlashPerforms
  PROVE  Stored' = Stored
<1>1. /\ flash \in [Sectors -> Int] /\ queue \in Seq(Ops) /\ queue # <<>>
      /\ flash' = Put(flash, queue[1]) /\ queue' = Tail(queue)
  BY FlushInvFacts, PerformIsClean DEF FlashPerforms
<1> QED BY <1>1, AfterAllPerform DEF Stored

LEMMA AfterPerformed ==
  ASSUME FlushInv, CleanInv, FlashPerforms
  PROVE  /\ Len(queue) \in Nat \ {0} /\ Len(queue') = Len(queue) - 1
         /\ \A k \in 1..Len(queue') : queue'[k] = queue[k + 1]
         /\ \A k \in 0..Len(queue') : After(k)' = After(k + 1)
<1>1. /\ flash \in [Sectors -> Int] /\ queue \in Seq(Ops) /\ queue # <<>>
      /\ queue' = Tail(queue) /\ flash' = Put(flash, queue[1])
  BY FlushInvFacts, PerformIsClean DEF FlashPerforms
<1>2. /\ Len(queue) \in Nat \ {0} /\ Len(queue') = Len(queue) - 1
      /\ \A k \in 1..Len(queue') : queue'[k] = queue[k + 1]
  BY <1>1
<1>3. ASSUME NEW k \in 0..Len(queue') PROVE After(k)' = After(k + 1)
  <2> DEFINE q == SubSeq(queue, 1, k + 1)
  <2>1. q \in Seq(Ops) /\ q # <<>> /\ q[1] = queue[1] /\ Tail(q) = SubSeq(queue', 1, k)
    BY <1>1, <1>2
  <2>2. AfterAll(Put(flash, q[1]), Tail(q)) = AfterAll(flash, q)
    <3> HIDE DEF q
    <3> QED BY <1>1, <2>1, AfterAllPerform
  <2> QED BY <1>1, <2>1, <2>2 DEF After
<1> QED BY <1>2, <1>3

\* What is queued mixes nothing.
QueueClean == \A k \in 1..Len(queue) : Clean(After(k - 1), queue[k])

LEMMA RequestClean ==
  ASSUME FlushInv, CleanInv, NEW op \in Ops, NEW async, Request(op, async),
         async => Clean(Stored, op)
  PROVE  QueueClean'
<1>1. queue \in Seq(Ops) /\ Len(queue) \in Nat
  BY FlushInvFacts
<1>2. CASE async
  <2>1. queue' = Append(queue, op) /\ flash' = flash
    BY <1>2 DEF Request
  <2>2. /\ Len(queue') = Len(queue) + 1 /\ queue'[Len(queue) + 1] = op
        /\ \A k \in 1..Len(queue) : queue'[k] = queue[k]
        /\ \A k \in 0..Len(queue) : After(k)' = After(k)
    BY <2>1, AfterAppended
  <2>3. ASSUME NEW k \in 1..Len(queue') PROVE Clean(After(k - 1), queue[k])'
    <3>1. CASE k \in 1..Len(queue)
      <4>1. After(k - 1)' = After(k - 1) /\ queue'[k] = queue[k] /\ Clean(After(k - 1), queue[k])
        BY <3>1, <2>2, <1>1 DEF CleanInv
      <4> QED BY <4>1 DEF Clean
    <3>2. CASE k = Len(queue) + 1
      <4>1. After(k - 1)' = Stored /\ queue'[k] = op
        <5>1. k - 1 = Len(queue) /\ k - 1 \in 0..Len(queue)
          BY <3>2, <1>1
        <5> QED BY <5>1, <3>2, <2>2, AfterEnds
      <4> QED BY <4>1, <1>2 DEF Clean
    <3> QED BY <3>1, <3>2, <2>2, <1>1
  <2> QED BY <2>3 DEF QueueClean
<1>3. CASE ~async
  <2>1. 1..Len(queue') = {}
    BY <1>3 DEF Request
  <2> QED BY <2>1 DEF QueueClean
<1> QED BY <1>2, <1>3

\* The sector at the offset is erased, but in the middle of what the thread does after
\* a write, and after a crash there.
SectorClean ==
  /\ flashState # "IDLE" /\ pc \notin OnFlash /\ cut \notin OnFlash => Stored[sector] = None
  /\ pc = "erased" => Stored[sector] = None

LEMMA CleanParts == CleanInv <=> SectorClean /\ QueueClean
  BY DEF CleanInv, SectorClean, QueueClean

LEMMA InitCleanInv == Init => CleanInv
  BY DEF Init, CleanInv

\* The sleep hook queues a write only to a sector that is erased.
LEMMA HookClean ==
  ASSUME FlushInv, CleanInv, flashState # "IDLE", pc \in {"run", "end"}, NEW n
  PROVE  /\ pc = "run" \/ cut \notin OnFlash => Stored[sector] = None
         /\ pc = "run" => Clean(Stored, Write(sector, n))
<1>1. pc \notin OnFlash /\ (pc = "run" => cut \notin OnFlash)
  BY DEF FlushInv, OnFlash, Halfway
<1> QED BY <1>1 DEF CleanInv, Clean, Write

LEMMA NextCleanInv == FlushInv /\ CleanInv /\ FlushInv' /\ [Next]_vars => CleanInv'
<1> SUFFICES ASSUME FlushInv, CleanInv, FlushInv', [Next]_vars PROVE SectorClean' /\ QueueClean'
  BY CleanParts DEF CleanInv, SectorClean, QueueClean
<1>0. /\ TypeOK /\ f \in Buffers /\ AllStates \in SUBSET AllStates /\ sector \in Sectors
      /\ Stored \in [Sectors -> Int] /\ buf \in [Buffers -> BufferType]
      /\ SectorClean /\ QueueClean
  BY FlushInvFacts, CleanParts
<1>1. ASSUME UNCHANGED <<flash, queue>> PROVE QueueClean' /\ Stored' = Stored
  BY <1>0, <1>1 DEF QueueClean, After, Clean, Stored
<1>2. ASSUME UNCHANGED <<flash, queue>>, sector' = sector,
             \/ UNCHANGED <<flashState, pc, cut>>
             \/ (flashState' = "IDLE" \/ pc' \in OnFlash) /\ pc' # "erased"
      PROVE  SectorClean' /\ QueueClean'
  BY <1>0, <1>1, <1>2 DEF SectorClean
<1>3. ASSUME NEW fill \in {1, 2}, log_dump_output_handler(fill)
      PROVE SectorClean' /\ QueueClean'
  BY <1>2, <1>3 DEF log_dump_output_handler
<1>4. ASSUME NEW async, Request(Erase(sector), async), sector' = sector
      PROVE SectorClean' /\ QueueClean'
  <2>1. Erase(sector) \in Ops /\ Clean(Stored, Erase(sector)) /\ Stored'[sector] = None
    BY <1>0, <1>4, EraseEffect DEF Clean
  <2> QED BY <1>4, <2>1, RequestClean DEF SectorClean
<1>5. ASSUME NEW async, EraseSector(async) PROVE SectorClean' /\ QueueClean'
  BY <1>4, <1>5 DEF EraseSector
<1>6. ASSUME NEW async, NEW b \in Buffers, Request(Write(sector, buf[b].seq), async),
             async => Clean(Stored, Write(sector, buf[b].seq))
      PROVE  QueueClean'
  <2> DEFINE op == Write(sector, buf[b].seq)
  <2>1. op \in Ops
    BY <1>0 DEF Ops, Write, BufferType
  <2> HIDE DEF op
  <2> QED BY <1>6, <2>1, RequestClean DEF op
<1>7. ASSUME NEW async, async => pc = "run", NEW states, UNCHANGED Rest, pc \in {"run", "end"},
             WriteBuffer(async, states)
      PROVE  SectorClean' /\ QueueClean'
  <2>1. Request(Write(sector, buf[f].seq), async) /\ flashState # "IDLE" /\ flashState' = "IDLE"
    BY <1>7 DEF WriteBuffer, MayWrite, Complete
  <2>2. async => Clean(Stored, Write(sector, buf[f].seq))
    BY <1>7, <2>1, HookClean
  <2>3. pc' # "erased"
    BY <1>7 DEF Rest
  <2> QED BY <1>0, <1>6, <2>1, <2>2, <2>3 DEF SectorClean
<1>8. ASSUME NEW async, NEW states, UNCHANGED Rest, WriteRefused(async, states)
      PROVE  SectorClean' /\ QueueClean'
  <2>1. UNCHANGED <<flash, queue, sector, pc, cut>> /\ flashState # "IDLE"
    BY <1>8 DEF WriteRefused, MayWrite, Rest
  <2> QED BY <1>0, <1>1, <2>1 DEF SectorClean
<1>9. ASSUME WriteBehind, UNCHANGED Rest, pc = "end" PROVE SectorClean' /\ QueueClean'
  <2>1. queue' = <<>> /\ flashState' = "IDLE" /\ pc' # "erased"
    BY <1>9, BehindEffect DEF Rest
  <2> QED BY <2>1 DEF SectorClean, QueueClean
<1>10. CASE AllErase
  BY <1>4, <1>10 DEF AllErase
<1>11. CASE AllErased
  <2>1. UNCHANGED <<flash, queue, sector>> /\ pc = "erased" /\ pc' = "all"
    BY <1>11 DEF AllErased
  <2> QED BY <1>0, <1>1, <2>1 DEF SectorClean
<1>12. CASE AllWrite
  <2>1. /\ Request(Write(sector, buf[db].seq), FALSE) /\ db \in Buffers /\ pc' = "written"
    BY <1>12 DEF AllWrite, FlushInv
  <2> QED BY <1>6, <2>1 DEF SectorClean, OnFlash
<1>13. CASE AllFree \/ AllStore \/ AllMove
  <2>1. UNCHANGED <<flash, queue>> /\ pc' \in OnFlash /\ pc' # "erased"
    BY <1>13 DEF AllFree, AllStore, AllMove, OnFlash, Halfway
  <2> QED BY <1>1, <2>1 DEF SectorClean
<1>14. CASE AllIdle
  BY <1>2, <1>14 DEF AllIdle
<1>15. CASE Moves
  <2>1. UNCHANGED <<flash, queue, sector, flashState>> /\ MovesTo
    BY <1>15, MovesEffect
  <2>2. /\ pc' # "erased"
        /\ pc' \notin OnFlash /\ cut' \notin OnFlash => pc \notin OnFlash /\ cut \notin OnFlash
    BY <2>1 DEF MovesTo, FlushInv, OnFlash, Halfway, InThread
  <2> QED BY <1>0, <1>1, <2>1, <2>2 DEF SectorClean
<1>16. CASE FlashPerforms
  <2>1. Stored' = Stored /\ UNCHANGED <<sector, flashState, pc, cut>>
    BY <1>16, PerformIsStored DEF FlashPerforms
  <2>2. /\ Len(queue) \in Nat \ {0} /\ Len(queue') = Len(queue) - 1
        /\ \A k \in 1..Len(queue') : queue'[k] = queue[k + 1]
        /\ \A k \in 0..Len(queue') : After(k)' = After(k + 1)
    BY <1>16, AfterPerformed
  <2>3. ASSUME NEW k \in 1..Len(queue') PROVE Clean(After(k - 1), queue[k])'
    <3>1. /\ After(k - 1)' = After((k - 1) + 1) /\ queue'[k] = queue[k + 1]
          /\ Clean(After((k + 1) - 1), queue[k + 1]) /\ (k + 1) - 1 = (k - 1) + 1
      BY <1>0, <2>2 DEF QueueClean
    <3> QED BY <3>1 DEF Clean
  <2> QED BY <1>0, <2>1, <2>3 DEF SectorClean, QueueClean
<1>17. CASE Reboot
  <2>1. queue' = <<>> /\ flashState' = "IDLE" /\ pc' # "erased"
    BY <1>17 DEF Reboot
  <2> QED BY <2>1 DEF SectorClean, QueueClean
<1>18. CASE UNCHANGED vars
  BY <1>2, <1>18 DEF vars
<1> QED BY <1>3, <1>5, <1>7, <1>8, <1>9, <1>10, <1>11, <1>12, <1>13, <1>14, <1>15, <1>16, <1>17,
           <1>18, NextCases, Zenon

LEMMA InitBase == Init => Base
  BY InitFlushInv, InitSeqnumInv, InitCleanInv DEF Base

LEMMA NextBase == Base /\ [Next]_vars => Base'
  BY NextFlushInv, NextSeqnumInv, NextCleanInv DEF Base

---------------------------------------------------------------------------
(* The order of the ring.                                                   *)

\* The places from f up to w are one more when w moves on, ...
LEMMA WriterMoves ==
  ASSUME NEW x \in Buffers, NEW y \in Buffers, NextBuffer(x) # y,
         NEW i \in Buffers \ {NextBuffer(x)}
  PROVE  (i - y) % NumBuffers < (NextBuffer(x) - y) % NumBuffers
           <=> i = x \/ (i - y) % NumBuffers < (x - y) % NumBuffers
<1>1. CASE x < y
  BY <1>1, LogAssumption DEF Buffers, NextBuffer
<1>2. CASE x >= y
  BY <1>2, LogAssumption DEF Buffers, NextBuffer
<1> QED BY <1>1, <1>2 DEF Buffers

\* ... or, when all were, all but the one it gets to.
LEMMA WriterComesRound ==
  ASSUME NEW x \in Buffers, NEW i \in Buffers \ {NextBuffer(x)}
  PROVE  /\ i = x \/ (i - NextBuffer(x)) % NumBuffers < (x - NextBuffer(x)) % NumBuffers
         /\ (i - NextBuffer(NextBuffer(x))) % NumBuffers
              < (NextBuffer(x) - NextBuffer(NextBuffer(x))) % NumBuffers
<1>1. CASE x = NumBuffers - 1
  BY <1>1, LogAssumption DEF Buffers, NextBuffer
<1>2. CASE x = NumBuffers - 2
  BY <1>2, LogAssumption DEF Buffers, NextBuffer
<1>3. CASE x < NumBuffers - 2
  BY <1>3, LogAssumption DEF Buffers, NextBuffer
<1> QED BY <1>1, <1>2, <1>3, LogAssumption DEF Buffers

LEMMA RingPlaces ==
  ASSUME FlushInv
  PROVE  /\ w \in Buffers /\ f \in Buffers /\ Oldest \in Buffers
         /\ \A i \in Buffers : NextBuffer(i) \in Buffers /\ NextBuffer(i) # i
         /\ \A i, j \in Buffers : NextBuffer(i) = NextBuffer(j) => i = j
<1>1. w \in Buffers /\ f \in Buffers /\ NextBuffer(f) \in Buffers
  BY FlushInvFacts, Rings
<1>2. ASSUME NEW i \in Buffers PROVE NextBuffer(i) \in Buffers /\ NextBuffer(i) # i
  BY LogAssumption DEF Buffers, NextBuffer
<1>3. ASSUME NEW i \in Buffers, NEW j \in Buffers, NextBuffer(i) = NextBuffer(j), i # j PROVE FALSE
  <2>1. \A k \in Buffers : NextBuffer(k) = IF k = NumBuffers - 1 THEN 0 ELSE k + 1
    BY LogAssumption DEF Buffers, NextBuffer
  <2> QED BY <1>3, <2>1, LogAssumption DEF Buffers
<1> QED BY <1>1, <1>2, <1>3 DEF Oldest

\* The writer moves on, and pushes f on when it comes round to it, unless the thread is
\* about to do so as well.
LEMMA OutputRing ==
  ASSUME Base, RingInv, NEW fill \in {1, 2}, log_dump_output_handler(fill)
  PROVE  RingInv'
<1>1. /\ TypeOK /\ w \in Buffers /\ f \in Buffers /\ Oldest \in Buffers
      /\ \A i \in Buffers : NextBuffer(i) \in Buffers /\ NextBuffer(i) # i
      /\ \A i, j \in Buffers : NextBuffer(i) = NextBuffer(j) => i = j
  BY FlushInvFacts, RingPlaces DEF Base
<1>2. /\ \A j \in Buffers \ {w} : buf'[j] = buf[j]
      /\ buf'[w].state = (IF fill = 2 THEN "WRITTEN" ELSE "WRITTING")
      /\ fill = 1 => UNCHANGED <<w, f>>
      /\ fill = 2 => w' = NextBuffer(w) /\ f' = IF w' = f THEN NextBuffer(f) ELSE f
      /\ strayed' = (strayed \/ (pc \in {"freed", "loaded"} /\ f' # f))
      /\ UNCHANGED <<pc, next>>
  BY <1>1, OutputEffect
<1> SUFFICES ASSUME ~strayed' PROVE RingInv'
  BY DEF RingInv, RingOrdered
<1>3. /\ \A j \in Buffers \ {w} : buf[j].state = IF j \in Waiting THEN "WRITTEN" ELSE "FREE"
      /\ ~strayed /\ (pc \in {"freed", "loaded"} => f' = f /\ w # f)
      /\ pc = "loaded" => next = NextBuffer(f)
  BY <1>2 DEF RingInv, RingOrdered
<1>4. CASE fill = 1
  <2>1. Waiting' = Waiting
    BY <1>2, <1>4 DEF Waiting, Oldest
  <2> QED BY <1>2, <1>3, <1>4, <2>1 DEF RingInv, RingOrdered
<1>5. CASE fill = 2
  <2>1. pc \in {"freed", "loaded"} => w' # f
    BY <1>1, <1>2, <1>3, <1>5
  <2>2. ASSUME NEW i \in Buffers \ {w'} PROVE i \in Waiting' <=> i = w \/ i \in Waiting
    <3>1. CASE pc \notin {"freed", "loaded"} /\ w' = f
      <4>1. Oldest = NextBuffer(w) /\ Oldest' = NextBuffer(NextBuffer(w))
        BY <1>2, <1>5, <3>1 DEF Oldest
      <4> QED BY <1>1, <1>2, <1>5, <4>1, WriterComesRound DEF Waiting
    <3>2. CASE w' # f
      <4>1. Oldest' = Oldest /\ NextBuffer(w) # Oldest
        BY <1>1, <1>2, <1>3, <1>5, <3>2 DEF Oldest
      <4> QED BY <1>1, <1>2, <1>5, <4>1, WriterMoves DEF Waiting
    <3> QED BY <2>1, <3>1, <3>2
  <2>3. RingOrdered'
    BY <1>2, <1>3, <1>5, <2>2 DEF RingOrdered
  <2> QED BY <1>2, <1>3, <2>1, <2>3, <1>5 DEF RingInv
<1> QED BY <1>4, <1>5

\* The flush of the oldest buffer, unless that is the one at w.
LEMMA FreeRing ==
  ASSUME Base, RingInv, pc \notin {"freed", "loaded"}, NEW b \in Buffers,
         buf' = [buf EXCEPT ![b].state = "FREE"], w' = w,
         strayed' = (strayed \/ b = w \/ b # f), Oldest' = NextBuffer(f)
  PROVE  RingOrdered' /\ (~strayed' => w # f)
<1> SUFFICES ASSUME ~strayed'
             PROVE  /\ w # f
                    /\ \A i \in Buffers \ {w'} :
                         buf'[i].state = IF i \in Waiting' THEN "WRITTEN" ELSE "FREE"
  BY DEF RingOrdered
<1>1. TypeOK /\ w \in Buffers /\ f \in Buffers /\ Oldest = f
  BY FlushInvFacts DEF Base, Oldest
<1>2. /\ \A j \in Buffers \ {b} : buf'[j] = buf[j]
      /\ buf'[b].state = "FREE"
      /\ ~strayed /\ b # w /\ b = f
  BY <1>1, FreeEffect
<1>3. \A j \in Buffers \ {w} : buf[j].state = IF j \in Waiting THEN "WRITTEN" ELSE "FREE"
  BY <1>2 DEF RingInv, RingOrdered
<1>4. ASSUME NEW i \in Buffers PROVE i \in Waiting' <=> i # f /\ i \in Waiting
  <2>1. i \in Waiting' <=> (i - NextBuffer(f)) % NumBuffers < (w - NextBuffer(f)) % NumBuffers
    BY DEF Waiting
  <2>2. i \in Waiting <=> (i - f) % NumBuffers < (w - f) % NumBuffers
    BY <1>1 DEF Waiting
  <2> QED BY <1>1, <1>2, <2>1, <2>2, LogAssumption DEF Buffers, NextBuffer
<1> QED BY <1>2, <1>3, <1>4

\* Where f, and what pc says of it, stays the same.
LEMMA SameRing ==
  ASSUME RingOrdered, UNCHANGED <<buf, w>>, Oldest' = Oldest, ~strayed' => ~strayed
  PROVE  RingOrdered'
  BY DEF RingOrdered, Waiting

LEMMA NextRing == Base /\ RingInv /\ [Next]_vars => RingInv'
<1> SUFFICES ASSUME Base, RingInv, [Next]_vars PROVE RingInv'
  OBVIOUS
<1>0. TypeOK /\ f \in Buffers /\ RingOrdered /\ strayed \in BOOLEAN
  BY FlushInvFacts DEF Base, RingInv
<1>1. ASSUME NEW fill \in {1, 2}, log_dump_output_handler(fill) PROVE RingInv'
  BY <1>1, OutputRing
<1>2. ASSUME UNCHANGED <<buf, w, f, strayed, pc, next>> PROVE RingInv'
  BY <1>2 DEF RingInv, RingOrdered, Waiting, Oldest
<1>3. ASSUME UNCHANGED <<buf, w, f>>, ~strayed' => ~strayed,
             pc \notin {"freed", "loaded"}, pc' \notin {"freed", "loaded"}
      PROVE  RingInv'
  <2>1. Oldest' = Oldest
    BY <1>3 DEF Oldest
  <2> QED BY <1>0, <1>3, <2>1, SameRing DEF RingInv
<1>4. ASSUME NEW async, EraseSector(async), UNCHANGED Rest PROVE RingInv'
  BY <1>2, <1>4 DEF EraseSector, Rest
<1>5. ASSUME NEW async, NEW states, WriteRefused(async, states), UNCHANGED Rest PROVE RingInv'
  BY <1>2, <1>5 DEF WriteRefused, Rest
<1>6. ASSUME buf' = [buf EXCEPT ![f].state = "FREE"], f' = NextBuffer(f),
             strayed' = (strayed \/ f = w), UNCHANGED Rest, pc \in {"run", "end"}
      PROVE  RingInv'
  <2>1. /\ strayed' = (strayed \/ f = w \/ f # f) /\ w' = w
        /\ pc \notin {"freed", "loaded"} /\ pc' \notin {"freed", "loaded"}
    BY <1>6 DEF Rest
  <2>2. Oldest' = NextBuffer(f)
    BY <1>6, <2>1 DEF Oldest
  <2> QED BY <1>0, <1>6, <2>1, <2>2, FreeRing DEF RingInv
<1>7. ASSUME NEW async, NEW states, WriteBuffer(async, states), UNCHANGED Rest, pc \in {"run", "end"}
      PROVE  RingInv'
  BY <1>6, <1>7 DEF WriteBuffer, Complete
<1>8. ASSUME WriteBehind, UNCHANGED Rest, pc = "end" PROVE RingInv'
  BY <1>6, <1>8, BehindEffect DEF Base
<1>9. CASE AllErase \/ AllErased \/ AllWrite \/ AllMove \/ AllIdle
  <2>1. UNCHANGED <<buf, w, f>> /\ pc \notin {"freed", "loaded"} /\ pc' \notin {"freed", "loaded"}
    BY <1>9, Zenon DEF AllErase, AllErased, AllWrite, AllMove, AllIdle
  <2>2. ~strayed' => ~strayed
    BY <1>9, Zenon DEF AllErase, AllErased, AllWrite, AllMove, AllIdle
  <2> QED BY <1>3, <2>1, <2>2
<1>10. CASE AllFree
  <2>1. /\ buf' = [buf EXCEPT ![db].state = "FREE"] /\ pc = "written" /\ pc' = "freed"
        /\ strayed' = (strayed \/ db = w \/ db # f) /\ db \in Buffers /\ w' = w /\ f' = f
    BY <1>10 DEF AllFree, Base, FlushInv, OnSector
  <2>2. Oldest' = NextBuffer(f)
    BY <2>1 DEF Oldest
  <2>3. RingOrdered' /\ (~strayed' => w # f)
    BY <2>1, <2>2, FreeRing
  <2> QED BY <2>1, <2>3 DEF RingInv
<1>11. CASE AllStore
  <2>1. /\ pc = "loaded" /\ pc' = "moved" /\ f' = next /\ UNCHANGED <<buf, w, strayed>>
    BY <1>11 DEF AllStore
  <2>2. CASE ~strayed
    <3>1. Oldest' = Oldest
      BY <2>1, <2>2 DEF RingInv, Oldest
    <3> QED BY <1>0, <2>1, <3>1, SameRing DEF RingInv
  <2>3. CASE strayed
    BY <2>1, <2>3 DEF RingInv, RingOrdered
  <2> QED BY <2>2, <2>3
<1>12. CASE Moves
  <2>1. UNCHANGED <<buf, w, f>> /\ MovesTo
    BY <1>12, MovesEffect
  <2>2. CASE pc \notin {"freed", "loaded"} /\ pc' \notin {"freed", "loaded"}
    <3>1. ~strayed' => ~strayed
      BY <2>1, Zenon DEF MovesTo
    <3> QED BY <1>3, <2>1, <2>2, <3>1
  <2>3. CASE pc = "freed" /\ pc' = "loaded"
    <3>1. next' = NextBuffer(f) /\ strayed' = strayed
      BY <2>1, <2>3 DEF MovesTo
    <3>2. Oldest' = Oldest
      BY <2>1, <2>3 DEF Oldest
    <3> QED BY <1>0, <2>1, <2>3, <3>1, <3>2, SameRing DEF RingInv
  <2>4. CASE strayed'
    BY <2>4 DEF RingInv, RingOrdered
  <2> QED BY <2>1, <2>2, <2>3, <2>4 DEF MovesTo
<1>13. CASE FlashPerforms \/ UNCHANGED vars
  BY <1>2, <1>13, Zenon DEF FlashPerforms, vars
<1>14. CASE Reboot
  <2>1. /\ w' = 0 /\ f' = 0 /\ pc' = "run"
        /\ \A i \in Buffers : buf'[i].state = "FREE"
    BY <1>14, RebootEffect DEF Base
  <2>2. Waiting' = {}
    BY <2>1, LogAssumption DEF Waiting, Buffers, Oldest
  <2> QED BY <2>1, <2>2 DEF RingOrdered, RingInv
<1> QED BY <1>1, <1>4, <1>5, <1>7, <1>8, <1>9, <1>10, <1>11, <1>12, <1>13, <1>14, NextCases, Zenon

---------------------------------------------------------------------------
(* What is on the flash after a flush of a part of a buffer.                *)

\* The offset stays inside the sector, and no flush changes what readers see.
LEMMA PartIsLast ==
  ASSUME Base, [Next]_vars, flashState = "IDLE", ragged
  PROVE  Reboot \/ (UNCHANGED <<flashState, ragged, sector>> /\ Stored' = Stored)
<1> DEFINE Quiet == UNCHANGED <<flashState, ragged, sector>> /\ Stored' = Stored
<1> SUFFICES Reboot \/ Quiet
  OBVIOUS
<1>1. UNCHANGED <<flashState, ragged, sector, flash, queue>> => Quiet
  BY DEF Stored
<1>2. ASSUME NEW fill \in {1, 2}, log_dump_output_handler(fill) PROVE Quiet
  BY <1>1, <1>2 DEF log_dump_output_handler
<1>3. ASSUME NEW async, EraseSector(async) PROVE FALSE
  BY <1>3 DEF EraseSector
<1>4. ASSUME NEW async, NEW states, WriteBuffer(async, states) \/ WriteRefused(async, states)
      PROVE  FALSE
  BY <1>4 DEF WriteBuffer, WriteRefused, MayWrite
<1>5. ASSUME WriteBehind \/ AllErase PROVE FALSE
  BY <1>5 DEF WriteBehind, MayWrite, AllErase
<1>6. CASE AllErased \/ AllWrite \/ AllFree \/ AllStore \/ AllMove \/ AllIdle
  <2>1. pc \in {"erased", "picked", "written", "loaded", "moved", "counted"}
    BY <1>6 DEF AllErased, AllWrite, AllFree, AllStore, AllMove, AllIdle
  <2> QED BY <2>1 DEF Base, FlushInv, OnFlash, Halfway
<1>7. CASE Moves \/ UNCHANGED vars
  <2>1. UNCHANGED <<flashState, ragged, sector, flash, queue>>
    BY <1>7, MovesEffect, Zenon DEF vars
  <2> QED BY <1>1, <2>1
<1>8. CASE FlashPerforms
  BY <1>8, PerformIsStored, FlushInvFacts DEF FlashPerforms, Base
<1> HIDE DEF Quiet
<1> QED BY <1>2, <1>3, <1>4, <1>5, <1>6, <1>7, <1>8, NextCases, Zenon

---------------------------------------------------------------------------
(* The flush after a crash.                                                 *)

\* A sector erased, or none, is not one of those the handler has written.
LEMMA EndKept ==
  ASSUME Base, NEW k, EndFlushed(k), UNCHANGED <<buf, f, sector, ragged, owed>>,
         \/ Stored' = Stored
         \/ ~ragged /\ Stored' = [Stored EXCEPT ![sector] = None]
  PROVE  EndFlushed(k)'
<1>1. sector \in Sectors /\ Stored \in [Sectors -> Int]
  BY FlushInvFacts DEF Base
<1>2. Recent(k)' = Recent(k)
  BY DEF Recent, Age
<1>3. ASSUME NEW s \in Recent(k) PROVE Stored'[s] = Stored[s]
  <2>1. CASE Stored' = Stored
    BY <2>1
  <2>2. CASE ~ragged /\ Stored' = [Stored EXCEPT ![sector] = None]
    <3>1. s # sector
      BY <1>1, <2>2, LogAssumption DEF Recent, Age, Sectors
    <3> QED BY <1>1, <2>2, <3>1 DEF Recent
  <2> QED BY <2>1, <2>2
<1>4. {Stored'[s] : s \in Recent(k)} = {Stored[s] : s \in Recent(k)}
  BY <1>3
<1> QED BY <1>2, <1>4 DEF EndFlushed, Unfree

\* A buffer more is on the flash, ...
LEMMA EndGoesOn ==
  ASSUME Base, NEW k \in 0..NumBuffers, EndFlushed(k), f \in Unfree, Complete
  PROVE  /\ k + 1 \in 0..NumBuffers
         /\ \A i \in Buffers : (f' - 1 - i) % NumBuffers < k + 1 => buf'[i].state = "FREE"
<1>1. TypeOK /\ f \in Buffers
  BY FlushInvFacts DEF Base
<1>2. /\ \A i \in Buffers \ {f} : buf'[i] = buf[i]
      /\ buf'[f].state = "FREE" /\ f' = NextBuffer(f)
  BY <1>1, CompleteEffect
<1>3. ~((f - 1 - f) % NumBuffers < k)
  BY <1>1 DEF EndFlushed, Unfree
<1>4. k < NumBuffers
  BY <1>1, <1>3, LogAssumption DEF Buffers
<1>5. ASSUME NEW i \in Buffers, i # f, (f' - 1 - i) % NumBuffers < k + 1
      PROVE  (f - 1 - i) % NumBuffers < k
  <2>1. CASE i < f
    BY <1>1, <1>2, <1>5, <2>1, LogAssumption DEF Buffers, NextBuffer
  <2>2. CASE i > f
    BY <1>1, <1>2, <1>5, <2>2, LogAssumption DEF Buffers, NextBuffer
  <2> QED BY <1>1, <1>5, <2>1, <2>2 DEF Buffers
<1> QED BY <1>2, <1>4, <1>5, LogAssumption DEF EndFlushed

\* ... and the ones written before are not overwritten: there are more sectors than buffers.
LEMMA RecentGoesOn ==
  ASSUME Base, ~ragged, NEW k \in 0..NumBuffers - 1, Complete,
         buf[f].fill \in {1, 2}
  PROVE  Recent(k) \cup {sector} \subseteq Recent(k + 1)' /\ sector \notin Recent(k)
<1>1. TypeOK /\ sector \in Sectors
  BY FlushInvFacts DEF Base
<1>2. /\ sector' = (IF buf[f].fill = 2 THEN NextSector(sector) ELSE sector)
      /\ ragged' = (buf[f].fill = 1)
  BY <1>1, CompleteEffect
<1>3. Recent(k) = {s \in Sectors : Age(s) \in 1..k}
  BY DEF Recent
<1>4. CASE buf[f].fill = 1
  <2>1. Recent(k + 1)' = {s \in Sectors : Age(s) \in 0..k + 1}
    <3>1. ragged' /\ sector' = sector
      <4>1. buf[f].fill # 2
        BY <1>4
      <4> QED BY <1>2, <1>4, <4>1, Zenon
    <3> QED BY <3>1 DEF Recent, Age
  <2>2. Age(sector) = 0
    BY <1>1, LogAssumption DEF Age, Sectors
  <2> QED BY <1>1, <1>3, <2>1, <2>2
<1>5. CASE buf[f].fill = 2
  <2>1. Recent(k + 1)' = {s \in Sectors : (NextSector(sector) - s) % NumSectors \in 1..k + 1}
    <3>1. ~ragged' /\ sector' = NextSector(sector)
      <4>1. buf[f].fill # 1
        BY <1>5
      <4> QED BY <1>2, <1>5, <4>1, Zenon
    <3> QED BY <3>1 DEF Recent, Age
  <2>2. Age(sector) = 0 /\ (NextSector(sector) - sector) % NumSectors = 1
    BY <1>1, LogAssumption DEF Age, Sectors, NextSector
  <2>3. ASSUME NEW s \in Sectors, Age(s) \in 1..k
        PROVE  (NextSector(sector) - s) % NumSectors \in 1..k + 1
    <3>1. CASE s < sector
      BY <1>1, <2>3, <3>1, LogAssumption DEF Age, Sectors, NextSector
    <3>2. CASE s > sector
      BY <1>1, <2>3, <3>2, LogAssumption DEF Age, Sectors, NextSector
    <3>3. s # sector
      BY <2>2, <2>3
    <3> QED BY <1>1, <3>1, <3>2, <3>3 DEF Sectors
  <2> QED BY <1>1, <1>3, <2>1, <2>2, <2>3
<1> QED BY <1>4, <1>5

LEMMA WriteEnd ==
  ASSUME Base, CrashInv, pc = "end", NEW async, NEW states \in SUBSET AllStates,
         WriteBuffer(async, states), UNCHANGED Rest
  PROVE  CrashInv'
<1>1. /\ TypeOK /\ f \in Buffers /\ sector \in Sectors /\ Stored \in [Sectors -> Int]
      /\ Complete /\ Flushable(f, states) /\ Request(Write(sector, buf[f].seq), async)
      /\ flashState # "IDLE" /\ ~ragged /\ owed' = owed /\ pc' = pc /\ cut' = cut
  BY FlushInvFacts DEF WriteBuffer, MayWrite, Base, Rest
<1> SUFFICES ASSUME ~Spoilt' PROVE \E k \in 0..NumBuffers : EndFlushed(k)'
  BY <1>1 DEF CrashInv
<1>2. ~Spoilt /\ (cut \in OnFlash => ~mixed')
  BY <1>1, WriteEffect DEF Spoilt, OnFlash
<1>3. PICK k \in 0..NumBuffers : EndFlushed(k)
  BY <1>2 DEF CrashInv
<1>4. Stored[sector] = None \/ ~mixed'
  BY <1>1, <1>2, HookClean DEF Base
<1>5. /\ f \in Unfree /\ buf[f].fill \in {1, 2}
      /\ Stored' = [Stored EXCEPT ![sector] = buf[f].seq]
  BY <1>1, <1>4, WriteEffect
<1>6. /\ k + 1 \in 0..NumBuffers
      /\ \A i \in Buffers : (f' - 1 - i) % NumBuffers < k + 1 => buf'[i].state = "FREE"
  BY <1>1, <1>3, <1>5, EndGoesOn
<1>7. Recent(k) \cup {sector} \subseteq Recent(k + 1)' /\ sector \notin Recent(k)
  <2>1. k \in 0..NumBuffers - 1
    BY <1>6, LogAssumption
  <2> QED BY <1>1, <1>5, <2>1, RecentGoesOn
<1>8. Unfree' = Unfree \ {f} /\ \A i \in Unfree' : buf'[i].seq = buf[i].seq
  BY <1>1, CompleteEffect
<1>9. ASSUME NEW n \in owed
      PROVE  n \in {buf'[i].seq : i \in Unfree'} \cup {Stored'[s] : s \in Recent(k + 1)'}
  <2>1. CASE n = buf[f].seq
    BY <1>1, <1>5, <1>7, <2>1
  <2>2. CASE \E i \in Unfree \ {f} : n = buf[i].seq
    BY <1>8, <2>2
  <2>3. CASE \E s \in Recent(k) : n = Stored[s]
    <3>1. PICK s \in Recent(k) : n = Stored[s]
      BY <2>3
    <3>2. s # sector /\ s \in Sectors /\ s \in Recent(k + 1)'
      BY <1>7 DEF Recent
    <3> QED BY <1>1, <1>5, <3>1, <3>2
  <2> QED BY <1>3, <2>1, <2>2, <2>3 DEF EndFlushed
<1>10. EndFlushed(k + 1)'
  BY <1>1, <1>6, <1>9 DEF EndFlushed
<1> QED BY <1>6, <1>10

LEMMA NextCrash == Base /\ CrashInv /\ [Next]_vars => CrashInv'
<1> SUFFICES ASSUME Base, CrashInv, [Next]_vars PROVE CrashInv'
  OBVIOUS
<1>0. TypeOK
  BY FlushInvFacts DEF Base
<1>1. pc' \notin {"end", "dead"} => CrashInv'
  BY DEF CrashInv
<1>2. ASSUME UNCHANGED <<buf, f, sector, ragged, owed, pc, cut, mixed>>, pc # "dead",
             \/ Stored' = Stored
             \/ ~ragged /\ Stored' = [Stored EXCEPT ![sector] = None]
      PROVE  CrashInv'
  <2>1. Spoilt' = Spoilt
    BY <1>2 DEF Spoilt
  <2> QED BY <1>2, <2>1, EndKept DEF CrashInv
<1>3. ASSUME NEW fill \in {1, 2}, log_dump_output_handler(fill) PROVE CrashInv'
  BY <1>1, <1>3 DEF log_dump_output_handler
<1>4. ASSUME NEW async, EraseSector(async), UNCHANGED Rest, pc \in {"run", "end"}
      PROVE  CrashInv'
  <2>1. /\ ~ragged /\ Request(Erase(sector), async) /\ UNCHANGED <<buf, f, sector, ragged>>
    BY <1>4 DEF EraseSector
  <2>2. Stored' = [Stored EXCEPT ![sector] = None] /\ mixed' = mixed
    BY <1>0, <2>1, EraseEffect
  <2>3. owed' = owed /\ pc' = pc /\ cut' = cut /\ pc # "dead"
    BY <1>4 DEF Rest
  <2> QED BY <1>2, <2>1, <2>2, <2>3
<1>5. ASSUME NEW async, NEW states \in SUBSET AllStates, WriteBuffer(async, states),
             UNCHANGED Rest, pc \in {"run", "end"}
      PROVE  CrashInv'
  BY <1>1, <1>5, WriteEnd DEF Rest
<1>6. ASSUME NEW async, NEW states, WriteRefused(async, states), UNCHANGED Rest,
             pc \in {"run", "end"}
      PROVE  CrashInv'
  <2>1. UNCHANGED <<buf, f, sector, ragged, owed, pc, cut, mixed>> /\ Stored' = Stored
        /\ pc # "dead"
    BY <1>6 DEF Rest, WriteRefused, Stored
  <2> QED BY <1>2, <2>1
<1>7. ASSUME WriteBehind, UNCHANGED Rest, pc = "end" PROVE CrashInv'
  <2>1. pc' = "end" /\ Spoilt'
    BY <1>7, BehindEffect DEF Rest, Base, Spoilt, Halfway
  <2> QED BY <2>1 DEF CrashInv
<1>8. CASE \/ AllErase \/ AllErased \/ AllWrite \/ AllFree \/ AllStore \/ AllMove \/ AllIdle
           \/ Reboot
  <2>1. pc' \notin {"end", "dead"}
    BY <1>8, Zenon DEF AllErase, AllErased, AllWrite, AllFree, AllStore, AllMove, AllIdle, Reboot
  <2> QED BY <1>1, <2>1
<1>9. CASE Moves
  <2>1. /\ UNCHANGED <<buf, f, mixed, queue>> /\ Stored' = Stored /\ Unfree' = Unfree /\ MovesTo
    BY <1>9, MovesEffect
  <2>2. CASE pc' = "end"
    <3>1. owed' = {buf'[i].seq : i \in Unfree'}
      BY <2>1, <2>2 DEF MovesTo
    <3>2. \A i \in Buffers : (f' - 1 - i) % NumBuffers >= 0
      BY <2>1, FlushInvFacts, LogAssumption DEF Buffers, Base
    <3>3. \A i \in Buffers : (f' - 1 - i) % NumBuffers \in Int
      BY <2>1, FlushInvFacts, LogAssumption DEF Buffers, Base
    <3>4. EndFlushed(0)' /\ 0 \in 0..NumBuffers
      BY <3>1, <3>2, <3>3, LogAssumption DEF EndFlushed
    <3> QED BY <2>2, <3>4 DEF CrashInv
  <2>3. CASE pc' = "dead"
    <3>1. pc = "end" /\ Unfree = {} /\ queue = <<>> /\ UNCHANGED <<cut, owed>>
      BY <2>1, <2>3 DEF MovesTo
    <3>2. ASSUME ~Spoilt' PROVE owed' \subseteq {Stored'[s] : s \in Sectors}
      <4>1. ~Spoilt
        BY <2>1, <3>1, <3>2 DEF Spoilt
      <4>2. PICK k \in 0..NumBuffers : EndFlushed(k)
        BY <3>1, <4>1 DEF CrashInv
      <4> QED BY <2>1, <3>1, <4>2 DEF EndFlushed, Recent
    <3> QED BY <2>1, <2>3, <3>1, <3>2 DEF CrashInv
  <2> QED BY <1>1, <2>2, <2>3
<1>10. CASE FlashPerforms
  <2>1. pc # "dead" /\ UNCHANGED <<buf, f, sector, ragged, owed, pc, cut, mixed>>
    BY <1>10 DEF CrashInv, FlashPerforms
  <2>2. Stored' = Stored
    BY <1>10, PerformIsStored DEF Base
  <2> QED BY <1>2, <2>1, <2>2
<1>11. CASE UNCHANGED vars
  <2>1. Stored' = Stored /\ UNCHANGED <<buf, f, sector, ragged, owed, pc, queue, cut, mixed>>
    BY <1>11 DEF vars, Stored
  <2>2. CASE pc = "dead"
    BY <2>1, <2>2 DEF CrashInv, Spoilt
  <2> QED BY <1>2, <2>1, <2>2
<1> QED BY <1>3, <1>4, <1>5, <1>6, <1>7, <1>8, <1>9, <1>10, <1>11, NextCases, Zenon

---------------------------------------------------------------------------
(* The newest sector: the buffers in use, the numbers, and what is queued.  *)

LEMMA NextUse == Base /\ UseInv /\ [Next]_vars => UseInv'
<1> SUFFICES ASSUME Base, UseInv, [Next]_vars PROVE UseInv'
  OBVIOUS
<1>0. TypeOK /\ f \in Buffers /\ (pc \in {"picked"} \cup OnSector => db \in Buffers)
  BY FlushInvFacts DEF Base, FlushInv
<1>1. ASSUME NEW fill \in {1, 2}, log_dump_output_handler(fill) PROVE UseInv'
  <2>1. /\ \A i \in Buffers \ {w} : buf'[i] = buf[i]
        /\ buf'[w].fill = fill /\ UNCHANGED <<pc, db>>
    BY <1>0, <1>1, OutputEffect
  <2>2. Unfree' = Unfree \cup {w}
    BY <1>1, OutputNumbers DEF Base
  <2>3. ASSUME pc \in OnSector \ {"written"} PROVE buf'[db].fill \in {1, 2}
    BY <1>0, <2>1, <2>3 DEF UseInv
  <2> QED BY <2>1, <2>2, <2>3 DEF UseInv, Unfree
<1>2. ASSUME NEW b \in Buffers, buf' = [buf EXCEPT ![b].state = "FREE"], pc' \notin OnSector
      PROVE  UseInv'
  <2>1. Unfree' = Unfree \ {b} /\ \A i \in Buffers \ {b} : buf'[i] = buf[i]
    BY <1>0, <1>2, FreeEffect
  <2> QED BY <1>2, <2>1 DEF UseInv, Unfree, OnSector
<1>3. ASSUME UNCHANGED buf,
             \/ UNCHANGED <<pc, db>>
             \/ pc' \notin OnSector
             \/ pc \in OnSector \ {"written"} /\ pc' # "written" /\ UNCHANGED db
      PROVE  UseInv'
  BY <1>3 DEF UseInv, Unfree, OnSector
<1>4. ASSUME NEW async, EraseSector(async), UNCHANGED Rest PROVE UseInv'
  BY <1>3, <1>4 DEF EraseSector, Rest
<1>5. ASSUME NEW async, NEW states, WriteBuffer(async, states), UNCHANGED Rest,
             pc \in {"run", "end"}
      PROVE  UseInv'
  BY <1>0, <1>2, <1>5 DEF WriteBuffer, Complete, Rest, OnSector
<1>6. ASSUME NEW async, NEW states, WriteRefused(async, states), UNCHANGED Rest PROVE UseInv'
  BY <1>3, <1>6 DEF WriteRefused, Rest
<1>7. ASSUME WriteBehind, UNCHANGED Rest, pc = "end" PROVE UseInv'
  BY <1>0, <1>2, <1>7 DEF WriteBehind, Rest, OnSector
<1>8. CASE AllWrite
  <2>1. db \in Unfree /\ buf' = buf /\ db' = db /\ pc' = "written"
    BY <1>0, <1>8 DEF AllWrite, Flushable, AllStates, Unfree
  <2> QED BY <2>1 DEF UseInv, Unfree
<1>9. CASE AllFree
  <2>1. /\ db \in Buffers /\ db \in Unfree /\ pc' = "freed" /\ db' = db
        /\ buf' = [buf EXCEPT ![db].state = "FREE"]
    BY <1>0, <1>9 DEF AllFree, UseInv, OnSector
  <2>2. /\ Unfree' = Unfree \ {db} /\ \A i \in Buffers \ {db} : buf'[i] = buf[i]
        /\ buf'[db].fill = buf[db].fill
    BY <1>0, <2>1, FreeEffect
  <2> QED BY <2>1, <2>2 DEF UseInv, Unfree
<1>10. CASE AllErase \/ AllErased \/ AllStore \/ AllMove \/ AllIdle
  <2>1. /\ UNCHANGED buf
        /\ \/ pc' \notin OnSector
           \/ pc \in OnSector \ {"written"} /\ pc' # "written" /\ UNCHANGED db
    BY <1>10 DEF AllErase, AllErased, AllStore, AllMove, AllIdle, OnSector
  <2> QED BY <1>3, <2>1
<1>11. CASE Moves
  <2>1. UNCHANGED buf /\ MovesTo
    BY <1>11, MovesEffect
  <2>2. \/ pc' \notin OnSector
        \/ pc \in OnSector \ {"written"} /\ pc' # "written" /\ UNCHANGED db
    BY <2>1 DEF MovesTo, OnSector
  <2> QED BY <1>3, <2>1, <2>2
<1>12. CASE FlashPerforms \/ UNCHANGED vars
  BY <1>3, <1>12, Zenon DEF FlashPerforms, vars
<1>13. CASE Reboot
  <2>1. Unfree' = {} /\ pc' = "run"
    BY <1>13, RebootEffect DEF Base
  <2> QED BY <2>1 DEF UseInv, OnSector
<1> QED BY <1>1, <1>4, <1>5, <1>6, <1>7, <1>8, <1>9, <1>10, <1>11, <1>12, <1>13, NextCases, Zenon

\* An operation may be requested that does not erase the newest sector, nor repeat a number.
LEMMA RequestQueue ==
  ASSUME Base, QueueInv, NEW op \in Ops, NEW async, Request(op, async),
         Clean(Stored, op), AllDiffer(Put(Stored, op)), Safe(Stored, op)
  PROVE  QueueInv'
<1>1. flash \in [Sectors -> Int] /\ queue \in Seq(Ops) /\ Len(queue) \in Nat /\ FlushInv
  BY FlushInvFacts DEF Base
<1>2. CASE async
  <2>1. queue' = Append(queue, op) /\ flash' = flash
    BY <1>2 DEF Request
  <2>2. /\ Len(queue') = Len(queue) + 1 /\ queue'[Len(queue) + 1] = op
        /\ \A k \in 1..Len(queue) : queue'[k] = queue[k]
        /\ \A k \in 0..Len(queue) : After(k)' = After(k)
        /\ \A k \in {Len(queue) + 1} : After(k)' = Put(Stored, op)
    BY <1>1, <2>1, AfterAppended
  <2>3. ASSUME NEW k \in 0..Len(queue') PROVE AllDiffer(After(k))'
    <3>1. CASE k \in 0..Len(queue)
      <4>1. After(k)' = After(k) /\ AllDiffer(After(k))
        BY <3>1, <2>2 DEF QueueInv
      <4> QED BY <4>1 DEF AllDiffer
    <3>2. CASE k = Len(queue) + 1
      <4>1. After(k)' = Put(Stored, op)
        BY <3>2, <2>2
      <4> QED BY <4>1 DEF AllDiffer
    <3> QED BY <3>1, <3>2, <2>2, <1>1
  <2>4. ASSUME NEW k \in 1..Len(queue') PROVE Safe(After(k - 1), queue[k])'
    <3>1. CASE k \in 1..Len(queue)
      <4>1. After(k - 1)' = After(k - 1) /\ queue'[k] = queue[k] /\ Safe(After(k - 1), queue[k])
        BY <3>1, <2>2, <1>1 DEF QueueInv
      <4> QED BY <4>1 DEF Safe
    <3>2. CASE k = Len(queue) + 1
      <4>1. After(k - 1)' = Stored /\ queue'[k] = op
        <5>1. k - 1 = Len(queue) /\ k - 1 \in 0..Len(queue)
          BY <3>2, <1>1
        <5> QED BY <5>1, <3>2, <2>2, <1>1, AfterEnds
      <4> QED BY <4>1 DEF Safe
    <3> QED BY <3>1, <3>2, <2>2, <1>1
  <2> QED BY <2>3, <2>4 DEF QueueInv
<1>3. CASE ~async
  <2>1. queue = <<>> /\ queue' = <<>> /\ flash' = Apply(flash, op) /\ Stored = flash
    BY <1>1, <1>3, AfterAllEmpty DEF Request, Stored
  <2>2. flash' \in [Sectors -> Int] /\ flash' = Put(flash, op)
    BY <1>1, <2>1, ApplyType
  <2>3. Len(queue') = 0 /\ SubSeq(queue', 1, 0) = <<>>
    BY <2>1
  <2>4. After(0)' = flash'
    BY <2>2, <2>3, AfterAllEmpty DEF After
  <2> QED BY <2>1, <2>2, <2>3, <2>4 DEF QueueInv, AllDiffer
<1> QED BY <1>2, <1>3

LEMMA PerformQueue ==
  ASSUME Base, QueueInv, FlashPerforms PROVE QueueInv'
<1>1. /\ Len(queue) \in Nat \ {0} /\ Len(queue') = Len(queue) - 1
      /\ \A k \in 1..Len(queue') : queue'[k] = queue[k + 1]
      /\ \A k \in 0..Len(queue') : After(k)' = After(k + 1)
  BY AfterPerformed DEF Base
<1>2. ASSUME NEW k \in 0..Len(queue') PROVE AllDiffer(After(k))'
  <2>1. After(k)' = After(k + 1) /\ AllDiffer(After(k + 1))
    BY <1>1 DEF QueueInv
  <2> QED BY <2>1 DEF AllDiffer
<1>3. ASSUME NEW k \in 1..Len(queue') PROVE Safe(After(k - 1), queue[k])'
  <2>1. /\ After(k - 1)' = After((k - 1) + 1) /\ queue'[k] = queue[k + 1]
        /\ Safe(After((k + 1) - 1), queue[k + 1]) /\ (k + 1) - 1 = (k - 1) + 1
    BY <1>1 DEF QueueInv
  <2> QED BY <2>1 DEF Safe
<1> QED BY <1>2, <1>3 DEF QueueInv

LEMMA EraseQueue ==
  ASSUME Base, QueueInv, AgeInv, flashState = "IDLE", ~ragged,
         NEW async, Request(Erase(sector), async)
  PROVE  QueueInv'
<1>1. Stored \in [Sectors -> Int] /\ sector \in Sectors /\ queue \in Seq(Ops) /\ FlushInv
  BY FlushInvFacts DEF Base
<1> DEFINE op == Erase(sector)
<1>2. op \in Ops /\ op.sec = sector /\ op.seq = None /\ Safe(Stored, op)
  BY <1>1 DEF Ops, Erase, None, AgeInv
<1>3. AllDiffer(Stored)
  BY <1>1, AfterEnds DEF QueueInv
<1> HIDE DEF op
<1>4. AllDiffer(Put(Stored, op)) /\ Clean(Stored, op)
  BY <1>1, <1>2, <1>3 DEF AllDiffer, Put, Clean
<1> QED BY <1>2, <1>4, RequestQueue DEF op

LEMMA WriteQueue ==
  ASSUME Base, NumbersInv, QueueInv, ~mixed', NEW states \in SUBSET AllStates,
         NEW b \in Buffers, Flushable(b, states),
         NEW async, Request(Write(sector, buf[b].seq), async)
  PROVE  QueueInv'
<1>0. Stored \in [Sectors -> Int] /\ sector \in Sectors /\ queue \in Seq(Ops) /\ TypeOK /\ FlushInv
  BY FlushInvFacts DEF Base
<1>1. b \in Unfree /\ buf[b].seq \in Int /\ Clean(Stored, Write(sector, buf[b].seq))
  BY <1>0, WriteEffect
<1>2. buf[b].seq # None
  BY <1>0, <1>1, FlushInvFacts DEF Base, SeqnumInv, None
<1> DEFINE op == Write(sector, buf[b].seq)
<1>3. op \in Ops /\ op.sec = sector /\ op.seq = buf[b].seq /\ Clean(Stored, op)
  BY <1>0, <1>1 DEF Ops, Write
<1> HIDE DEF op
<1>4. Safe(Stored, op)
  BY <1>2, <1>3 DEF Safe
<1>5. AllDiffer(Stored)
  BY <1>0, AfterEnds DEF QueueInv
<1>6. \A s \in Sectors \ {sector} : Stored[s] # buf[b].seq
  BY <1>1 DEF NumbersInv
<1>7. AllDiffer(Put(Stored, op))
  BY <1>0, <1>3, <1>5, <1>6 DEF AllDiffer, Put
<1> QED BY <1>3, <1>4, <1>7, RequestQueue DEF op

LEMMA OutputNumbersInv ==
  ASSUME Base, NumbersInv, NEW fill \in {1, 2}, log_dump_output_handler(fill)
  PROVE  NumbersInv'
<1>1. /\ Unfree' = Unfree \cup {w}
      /\ \A i \in Unfree \ {w} : buf'[i].seq = buf[i].seq
      /\ \/ w \in Unfree /\ buf'[w].seq = buf[w].seq
         \/ buf'[w].seq = seqnum
      /\ UNCHANGED <<sector, pc, db>> /\ Stored' = Stored
  BY OutputNumbers DEF Base
<1>2. sector \in Sectors /\ seqnum \in Nat /\ \A s \in Sectors : Stored[s] \in -1..seqnum - 1
  BY FlushInvFacts, StoredBounded DEF Base
<1>3. \A i \in Unfree : buf[i].seq \in 0..seqnum - 1
  BY DEF Base, SeqnumInv
<1>4. ASSUME NEW i \in Unfree'
      PROVE  (i \in Unfree /\ buf'[i].seq = buf[i].seq) \/ (i = w /\ buf'[i].seq = seqnum)
  <2>1. CASE i = w
    BY <1>1, <2>1
  <2>2. CASE i # w
    BY <1>1, <2>2
  <2> QED BY <2>1, <2>2
<1>5. ASSUME NEW i \in Unfree', NEW j \in Unfree', i # j PROVE buf'[i].seq # buf'[j].seq
  BY <1>2, <1>3, <1>4, <1>5 DEF NumbersInv
<1>6. ASSUME NEW i \in Unfree', NEW s \in Sectors \ {sector} PROVE buf'[i].seq # Stored[s]
  BY <1>2, <1>3, <1>4, <1>6 DEF NumbersInv
<1>7. ASSUME NEW i \in Unfree', pc \in OnSector, i # db PROVE buf'[i].seq # Stored[sector]
  BY <1>2, <1>3, <1>4, <1>7 DEF NumbersInv
<1>8. ASSUME pc \in OnSector \ {"written"}, db \in Unfree', NEW s \in Sectors
      PROVE  buf'[db].seq > Stored[s]
  <2>1. CASE db \in Unfree /\ buf'[db].seq = buf[db].seq
    BY <1>8, <2>1 DEF NumbersInv
  <2>2. CASE buf'[db].seq = seqnum
    BY <1>2, <2>2
  <2> QED BY <1>4, <1>8, <2>1, <2>2
<1> QED BY <1>1, <1>5, <1>6, <1>7, <1>8 DEF NumbersInv

\* The number of a buffer that is given back is that of the sector, and of no other buffer.
LEMMA FreeNumbersInv ==
  ASSUME Base, NumbersInv, NEW b \in Buffers, buf' = [buf EXCEPT ![b].state = "FREE"],
         pc' \notin OnSector,
         \A s \in Sectors \ {sector} : Stored'[s] = Stored[s],
         sector' = sector \/ \A i \in Unfree \ {b} : buf[i].seq # Stored'[sector]
  PROVE  NumbersInv'
<1>1. Unfree' = Unfree \ {b} /\ \A i \in Unfree' : buf'[i].seq = buf[i].seq
  BY FreeEffect, FlushInvFacts DEF Base
<1>2. ASSUME NEW i \in Unfree', NEW s \in Sectors \ {sector'} PROVE buf'[i].seq # Stored'[s]
  BY <1>1 DEF NumbersInv
<1> QED BY <1>1, <1>2 DEF NumbersInv

LEMMA NextNumbersInv == Base /\ NumbersInv /\ [Next]_vars /\ ~mixed' => NumbersInv'
<1> SUFFICES ASSUME Base, NumbersInv, [Next]_vars, ~mixed' PROVE NumbersInv'
  OBVIOUS
<1>0. Stored \in [Sectors -> Int] /\ sector \in Sectors /\ TypeOK /\ f \in Buffers /\ FlushInv
  BY FlushInvFacts DEF Base
<1>1. ASSUME NEW fill \in {1, 2}, log_dump_output_handler(fill) PROVE NumbersInv'
  BY <1>1, OutputNumbersInv
<1>2. ASSUME UNCHANGED <<buf, sector>>, Stored' = Stored,
             \/ UNCHANGED <<pc, db>>
             \/ pc' \notin OnSector
             \/ pc \in OnSector \ {"written"} /\ UNCHANGED db
      PROVE  NumbersInv'
  BY <1>2 DEF NumbersInv, Unfree
<1>3. ASSUME NEW async, Request(Erase(sector), async), UNCHANGED <<buf, sector>>,
             pc' \notin OnSector
      PROVE  NumbersInv'
  <2>1. Stored' = [Stored EXCEPT ![sector] = None]
    BY <1>0, <1>3, EraseEffect
  <2> QED BY <1>0, <1>3, <2>1 DEF NumbersInv, Unfree
<1>4. ASSUME NEW async, EraseSector(async), UNCHANGED Rest, pc \in {"run", "end"}
      PROVE  NumbersInv'
  BY <1>3, <1>4 DEF EraseSector, Rest, OnSector
<1>5. ASSUME NEW async, NEW states \in SUBSET AllStates, WriteBuffer(async, states),
             UNCHANGED Rest, pc \in {"run", "end"}
      PROVE  NumbersInv'
  <2>1. /\ Flushable(f, states) /\ Request(Write(sector, buf[f].seq), async)
        /\ buf' = [buf EXCEPT ![f].state = "FREE"] /\ pc' \notin OnSector
    BY <1>5 DEF WriteBuffer, MayWrite, Complete, Rest, OnSector
  <2>2. f \in Unfree /\ Stored' = [Stored EXCEPT ![sector] = buf[f].seq]
    BY <1>0, <2>1, WriteEffect
  <2>3. Stored'[sector] = buf[f].seq /\ \A s \in Sectors \ {sector} : Stored'[s] = Stored[s]
    BY <1>0, <2>2
  <2>4. \A i \in Unfree \ {f} : buf[i].seq # Stored'[sector]
    BY <2>2, <2>3 DEF NumbersInv
  <2> QED BY <1>0, <2>1, <2>3, <2>4, FreeNumbersInv
<1>6. ASSUME NEW async, NEW states, WriteRefused(async, states), UNCHANGED Rest
      PROVE  NumbersInv'
  <2>1. UNCHANGED <<buf, sector, pc, db>> /\ Stored' = Stored
    BY <1>6 DEF WriteRefused, Rest, Stored
  <2> QED BY <1>2, <2>1
<1>7. ASSUME WriteBehind, UNCHANGED Rest, pc = "end" PROVE NumbersInv'
  <2>1. /\ buf' = [buf EXCEPT ![f].state = "FREE"] /\ sector' = sector /\ flash' = flash
        /\ queue = <<>> /\ queue' = <<>> /\ pc' \notin OnSector
    BY <1>0, <1>7, BehindEffect DEF Rest, OnSector
  <2>2. Stored' = Stored
    BY <2>1 DEF Stored
  <2> QED BY <1>0, <2>1, <2>2, FreeNumbersInv
<1>8. CASE AllErase
  BY <1>3, <1>8 DEF AllErase, OnSector
<1>9. CASE AllWrite
  <2>1. /\ Flushable(db, AllStates) /\ Request(Write(sector, buf[db].seq), FALSE)
        /\ db \in Buffers /\ UNCHANGED <<buf, sector, db>> /\ pc' = "written"
    BY <1>9 DEF AllWrite, Base, FlushInv
  <2>2. db \in Unfree /\ Stored' = [Stored EXCEPT ![sector] = buf[db].seq]
    BY <1>0, <2>1, WriteEffect
  <2>3. Stored'[sector] = buf[db].seq /\ \A s \in Sectors \ {sector} : Stored'[s] = Stored[s]
    BY <1>0, <2>2
  <2> QED BY <2>1, <2>2, <2>3 DEF NumbersInv, Unfree
<1>10. CASE AllFree
  <2>1. /\ db \in Buffers /\ buf' = [buf EXCEPT ![db].state = "FREE"] /\ pc \in OnSector
        /\ UNCHANGED <<sector, db>> /\ Stored' = Stored
    BY <1>10 DEF AllFree, Base, FlushInv, Stored, OnSector
  <2>2. Unfree' = Unfree \ {db} /\ \A i \in Unfree' : buf'[i].seq = buf[i].seq
    BY <1>0, <2>1, FreeEffect
  <2> QED BY <2>1, <2>2 DEF NumbersInv
<1>11. CASE AllMove
  <2>1. /\ pc = "moved" /\ pc' = "counted" /\ buf' = buf /\ Stored' = Stored /\ Unfree' = Unfree
    BY <1>11 DEF AllMove, Stored, Unfree
  <2>2. ASSUME NEW i \in Unfree, NEW s \in Sectors PROVE buf[i].seq # Stored[s]
    <3>1. CASE i = db
      <4>1. buf[i].seq > Stored[s] /\ Stored[s] \in Int
        BY <1>0, <2>1, <3>1 DEF NumbersInv, OnSector
      <4> QED BY <4>1
    <3>2. CASE i # db
      BY <2>1, <3>2 DEF NumbersInv, OnSector
    <3> QED BY <3>1, <3>2
  <2> QED BY <2>1, <2>2 DEF NumbersInv, OnSector
<1>12. CASE AllErased \/ AllStore \/ AllIdle
  <2>1. /\ UNCHANGED <<buf, sector, flash, queue>>
        /\ pc' \notin OnSector \/ (pc \in OnSector \ {"written"} /\ UNCHANGED db)
    BY <1>12 DEF AllErased, AllStore, AllIdle, OnSector
  <2> QED BY <1>2, <2>1 DEF Stored
<1>13. CASE Moves
  <2>1. UNCHANGED <<buf, sector>> /\ Stored' = Stored /\ MovesTo
    BY <1>13, MovesEffect
  <2>2. pc' \notin OnSector \/ (pc \in OnSector \ {"written"} /\ UNCHANGED db)
    BY <2>1 DEF MovesTo, OnSector
  <2> QED BY <1>2, <2>1, <2>2
<1>14. CASE FlashPerforms
  <2>1. UNCHANGED <<buf, sector, pc, db>> /\ Stored' = Stored
    BY <1>14, PerformIsStored DEF FlashPerforms, Base
  <2> QED BY <1>2, <2>1
<1>15. CASE UNCHANGED vars
  BY <1>2, <1>15 DEF vars, Stored
<1>16. CASE Reboot
  <2>1. Unfree' = {}
    BY <1>16, RebootEffect DEF Base
  <2> QED BY <2>1 DEF NumbersInv
<1> QED BY <1>1, <1>4, <1>5, <1>6, <1>7, <1>8, <1>9, <1>10, <1>11, <1>12, <1>13, <1>14, <1>15,
           <1>16, NextCases, Zenon

---------------------------------------------------------------------------
(* The newest sector: how far behind the flush it is.                       *)

LEMMA BuffersCounted ==
  ASSUME NEW T \in SUBSET Buffers
  PROVE  /\ IsFiniteSet(T) /\ Cardinality(T) \in 0..NumBuffers
         /\ \A S \in SUBSET T : Cardinality(S) \in Nat /\ Cardinality(S) <= Cardinality(T)
         /\ \A x \in T : Cardinality(T \ {x}) = Cardinality(T) - 1
<1>1. IsFiniteSet(Buffers) /\ Cardinality(Buffers) = NumBuffers
  <2>1. 0 \in Int /\ NumBuffers - 1 \in Int
    BY LogAssumption
  <2>2. IsFiniteSet(0..NumBuffers - 1) /\ Cardinality(0..NumBuffers - 1) = (NumBuffers - 1) - 0 + 1
    BY <2>1, FS_Interval, LogAssumption
  <2> QED BY <2>2, LogAssumption DEF Buffers
<1>2. IsFiniteSet(T) /\ Cardinality(T) <= NumBuffers
  BY <1>1, FS_Subset
<1>3. Cardinality(T) \in Nat
  BY <1>2, FS_CardinalityType
<1>4. ASSUME NEW S \in SUBSET T PROVE Cardinality(S) \in Nat /\ Cardinality(S) <= Cardinality(T)
  BY <1>2, FS_Subset, FS_CardinalityType
<1>5. ASSUME NEW x \in T PROVE Cardinality(T \ {x}) = Cardinality(T) - 1
  BY <1>2, FS_RemoveElement
<1> QED BY <1>2, <1>3, <1>4, <1>5, LogAssumption

\* No buffer becomes older than a sector, and the offset stays in its sector.
LEMMA SectorStays ==
  ASSUME Base, AgeInv, sector' = sector,
         \A s \in Sectors \ {sector} :
            Stored'[s] = Stored[s]
            /\ {i \in Unfree' : buf'[i].seq < Stored'[s]} \subseteq Stale(Stored[s]),
         pc' \in OnSector =>
           \A p \in Sectors : NewestBut(p) /\ Stored'[sector] < Stored[p] =>
             Age(p) + Cardinality(Stale(Stored[p]) \ {db'}) < NumBuffers,
         (flashState' = "IDLE" \/ pc' = "counted") /\ ~ragged' => Safe(Stored', Erase(sector))
  PROVE  AgeInv'
<1> SUFFICES ASSUME NEW p \in Sectors, NewestBut(p)'
             PROVE  /\ Age(p)' + Cardinality(Stale(Stored[p])') <= NumBuffers
                    /\ pc' \in OnSector /\ Stored'[sector'] < Stored'[p] =>
                         Age(p)' + Cardinality(Stale(Stored[p])' \ {db'}) < NumBuffers
  BY DEF AgeInv, Safe, Erase
<1>1. p \in Sectors \ {sector} /\ NewestBut(p) /\ Age(p)' = Age(p) /\ Stored'[p] = Stored[p]
  BY DEF NewestBut, Age
<1> DEFINE T == Stale(Stored[p])
           S == Stale(Stored[p])'
<1>2. S \subseteq T /\ T \in SUBSET Buffers
  BY <1>1 DEF Stale, Unfree
<1>3. Age(p) + Cardinality(T) <= NumBuffers
  BY <1>1 DEF AgeInv
<1>4. Age(p) \in Int
  BY FlushInvFacts, LogAssumption DEF Age, Base, Sectors
<1>5. Cardinality(T) \in Nat /\ Cardinality(S) \in Nat /\ Cardinality(S) <= Cardinality(T)
  <2> HIDE DEF S, T
  <2> QED BY <1>2, BuffersCounted
<1>6. ASSUME pc' \in OnSector, Stored'[sector'] < Stored'[p]
      PROVE  Age(p)' + Cardinality(S \ {db'}) < NumBuffers
  <2> DEFINE T1 == T \ {db'}
             S1 == S \ {db'}
  <2>1. Age(p) + Cardinality(T1) < NumBuffers
    BY <1>1, <1>6
  <2>2. T1 \in SUBSET Buffers /\ S1 \in SUBSET T1
    BY <1>2
  <2> HIDE DEF T1, S1, S, T
  <2>3. Cardinality(T1) \in Nat /\ Cardinality(S1) \in Nat /\ Cardinality(S1) <= Cardinality(T1)
    BY <2>2, BuffersCounted
  <2>4. Age(p) + Cardinality(S1) < NumBuffers
    BY <2>1, <2>3, <1>4, LogAssumption
  <2>5. Age(p) + Cardinality(S \ {db'}) < NumBuffers
    BY <2>4 DEF S1
  <2> QED BY <2>5, <1>1, Zenon
<1>7. Age(p)' + Cardinality(S) <= NumBuffers
  <2> HIDE DEF S, T
  <2> QED BY <1>1, <1>3, <1>4, <1>5, LogAssumption
<1> QED BY <1>6, <1>7

LEMMA SectorMoves == \A s \in Sectors : NextSector(s) \in Sectors /\ NextSector(s) # s
  BY LogAssumption DEF Sectors, NextSector

LEMMA NextAge ==
  ASSUME NEW p \in Sectors, sector \in Sectors, sector' = NextSector(sector)
  PROVE  /\ p = sector => Age(p)' = 1
         /\ p \notin {sector, sector'} => Age(p)' = Age(p) + 1
         /\ p = sector' => Age(p) = NumSectors - 1
         /\ Age(p) \in Int /\ Age(p)' \in Int
<1>1. Age(p) = (sector - p) % NumSectors /\ Age(p)' = (NextSector(sector) - p) % NumSectors
  BY DEF Age
<1>2. CASE p < sector
  BY <1>1, <1>2, LogAssumption DEF Sectors, NextSector
<1>3. CASE p = sector
  BY <1>1, <1>3, LogAssumption DEF Sectors, NextSector
<1>4. CASE p > sector
  BY <1>1, <1>4, LogAssumption DEF Sectors, NextSector
<1> QED BY <1>2, <1>3, <1>4 DEF Sectors

\* A whole sector is on the flash: the offset moves on, to one that is not the newest.
LEMMA SectorFilled ==
  ASSUME Base, AgeInv, NEW b \in Buffers,
         \A s \in Sectors : {i \in Unfree' : buf'[i].seq < Stored'[s]}
                              \subseteq Stale(Stored'[s]) \ {b},
         sector' = NextSector(sector), pc' \notin OnSector, NEW n \in Int,
         Stored' = [Stored EXCEPT ![sector] = n],
         \A s \in Sectors \ {sector} : Stored[s] # None => Stored[s] # n,
         \A p \in Sectors : NewestBut(p) /\ n < Stored[p] =>
           Age(p) + Cardinality(Stale(Stored[p]) \ {b}) < NumBuffers
  PROVE  AgeInv'
<1>1. /\ sector \in Sectors /\ sector' \in Sectors /\ sector' # sector
      /\ Stored \in [Sectors -> Int] /\ Stored'[sector] = n
      /\ \A s \in Sectors \ {sector} : Stored'[s] = Stored[s]
  <2>1. sector \in Sectors /\ Stored \in [Sectors -> Int]
    BY FlushInvFacts DEF Base
  <2>2. sector' \in Sectors /\ sector' # sector
    BY <2>1, SectorMoves
  <2> QED BY <2>1, <2>2
<1>2. ASSUME NEW m \in Int
      PROVE  /\ Stale(m) \ {b} \in SUBSET Buffers
             /\ Cardinality(Stale(m) \ {b}) \in 0..NumBuffers - 1
  <2> DEFINE T == Stale(m) \ {b}
             U == Buffers \ {b}
  <2>2. T \in SUBSET U /\ U \in SUBSET Buffers
    BY DEF Stale, Unfree
  <2>3. Cardinality(T) \in Nat /\ Cardinality(T) <= Cardinality(U)
    <3> HIDE DEF T, U
    <3> QED BY <2>2, BuffersCounted
  <2>4. Cardinality(U) = Cardinality(Buffers) - 1 /\ Cardinality(Buffers) \in 0..NumBuffers
    BY BuffersCounted
  <2> QED BY <2>2, <2>3, <2>4, LogAssumption
\* The sector that comes next holds nothing newer than what has just been written.
<1>3. ASSUME Stored[sector'] # None, \A s \in Sectors \ {sector} : Stored[s] <= Stored[sector']
      PROVE  Stored[sector'] < n
  <2>1. NewestBut(sector') /\ Age(sector') = NumSectors - 1
    BY <1>1, <1>3, NextAge DEF NewestBut
  <2>2. Stored[sector'] \in Int /\ Stored[sector'] # n
    BY <1>1, <1>3
  <2>3. ~(n < Stored[sector'])
    <3> DEFINE c == Cardinality(Stale(Stored[sector']) \ {b})
    <3>1. c \in 0..NumBuffers - 1
      BY <1>2, <2>2
    <3>2. n < Stored[sector'] => NumSectors - 1 + c < NumBuffers
      BY <1>1, <2>1
    <3> HIDE DEF c
    <3> QED BY <3>1, <3>2, LogAssumption
  <2> QED BY <2>2, <2>3
<1>4. ASSUME NEW p \in Sectors, NewestBut(p)'
      PROVE  Age(p)' + Cardinality(Stale(Stored[p])') <= NumBuffers
  <2>1. /\ p # sector' /\ Stored'[p] # None
        /\ \A s \in Sectors \ {sector'} : Stored'[s] <= Stored'[p]
    BY <1>4 DEF NewestBut
  <2> DEFINE c == Cardinality(Stale(Stored'[p]) \ {b})
             d == Cardinality(Stale(Stored[p])')
  <2>2. c \in 0..NumBuffers - 1 /\ d \in Nat /\ d <= c
    <3> DEFINE T == Stale(Stored'[p]) \ {b}
               S == Stale(Stored[p])'
    <3>1. Stored'[p] \in Int
      BY <1>1, <1>4
    <3>2. T \in SUBSET Buffers /\ Cardinality(T) \in 0..NumBuffers - 1
      BY <3>1, <1>2
    <3>3. S \in SUBSET T
      BY <1>4 DEF Stale
    <3> HIDE DEF S, T
    <3>4. Cardinality(S) \in Nat /\ Cardinality(S) <= Cardinality(T)
      BY <3>2, <3>3, BuffersCounted
    <3> QED BY <3>2, <3>4 DEF S, T
  <2>3. CASE p = sector
    <3>1. Age(p)' = 1
      BY <1>1, <2>3, NextAge
    <3> HIDE DEF c, d
    <3>2. 1 + d <= NumBuffers
      BY <2>2, LogAssumption
    <3> QED BY <3>1, <3>2 DEF d
  <2>4. CASE p # sector
    <3>1. Stored'[p] = Stored[p] /\ Stored[p] # n /\ n <= Stored[p] /\ Stored[p] \in Int
      BY <1>1, <2>1, <2>4
    <3>2. n < Stored[p]
      BY <3>1
    <3>3. \A s \in Sectors \ {sector, sector'} : Stored[s] <= Stored[p]
      BY <1>1, <2>1, <3>1
    <3>4. Stored[sector'] <= Stored[p]
      <4> SUFFICES ASSUME Stored[sector'] > Stored[p] PROVE FALSE
        BY <1>1, <3>1
      <4>0. \A s \in Sectors : Stored[s] \in Int
        BY <1>1
      <4>1. \A s \in Sectors \ {sector} : Stored[s] <= Stored[sector']
        BY <1>1, <3>1, <3>3, <4>0
      <4>2. Stored[sector'] # None
        <5>1. seqnum \in Nat /\ \A s \in Sectors : Stored[s] \in -1..seqnum - 1
          BY StoredBounded, FlushInvFacts DEF Base
        <5> QED BY <5>1, <1>1, <1>4 DEF None
      <4>3. Stored[sector'] < n
        BY <1>3, <4>1, <4>2
      <4> QED BY <3>1, <3>2, <4>0, <4>3, <1>1
    <3>5. NewestBut(p)
      BY <1>4, <2>1, <2>4, <3>1, <3>3, <3>4 DEF NewestBut
    <3>6. Age(p) + Cardinality(Stale(Stored[p]) \ {b}) < NumBuffers
      BY <3>2, <3>5, <1>4
    <3>7. Age(p)' = Age(p) + 1 /\ Age(p) \in Int
      BY <1>1, <1>4, <2>1, <2>4, NextAge
    <3>8. Age(p) + c < NumBuffers
      BY <3>1, <3>6
    <3> HIDE DEF c, d
    <3>9. Age(p)' + d <= NumBuffers
      BY <2>2, <3>7, <3>8, LogAssumption
    <3> QED BY <3>9 DEF d
  <2> QED BY <2>3, <2>4
<1>5. Safe(Stored', Erase(sector'))
  <2> SUFFICES ASSUME Stored[sector'] # None
               PROVE  \E r \in Sectors : Stored'[r] > Stored[sector']
    BY <1>1 DEF Safe, Erase
  <2>1. \A s \in Sectors : Stored[s] \in Int
    BY <1>1
  <2>2. CASE \A s \in Sectors \ {sector} : Stored[s] <= Stored[sector']
    BY <1>1, <1>3, <2>1, <2>2
  <2>3. CASE \E s \in Sectors \ {sector} : ~(Stored[s] <= Stored[sector'])
    BY <1>1, <2>1, <2>3
  <2> QED BY <2>2, <2>3
<1> QED BY <1>4, <1>5 DEF AgeInv, Safe, Erase

LEMMA OutputAge ==
  ASSUME Base, AgeInv, NEW fill \in {1, 2}, log_dump_output_handler(fill)
  PROVE  AgeInv'
<1>1. /\ Unfree' = Unfree \cup {w}
      /\ \A i \in Unfree \ {w} : buf'[i].seq = buf[i].seq
      /\ \/ w \in Unfree /\ buf'[w].seq = buf[w].seq
         \/ buf'[w].seq = seqnum
      /\ UNCHANGED <<sector, ragged, flashState, pc, db>> /\ Stored' = Stored
  BY OutputNumbers DEF Base
<1>2. seqnum \in Nat /\ \A s \in Sectors : Stored[s] \in -1..seqnum - 1
  BY FlushInvFacts, StoredBounded DEF Base
<1>3. ASSUME NEW s \in Sectors, NEW i \in Unfree', buf'[i].seq < Stored[s]
      PROVE  i \in Stale(Stored[s])
  <2>1. CASE i = w
    BY <1>1, <1>2, <1>3, <2>1 DEF Stale
  <2>2. CASE i # w
    BY <1>1, <1>3, <2>2 DEF Stale
  <2> QED BY <2>1, <2>2
<1>4. \A s \in Sectors \ {sector} :
         Stored'[s] = Stored[s]
         /\ {i \in Unfree' : buf'[i].seq < Stored'[s]} \subseteq Stale(Stored[s])
  BY <1>1, <1>3
<1>5. pc' \in OnSector =>
        \A p \in Sectors : NewestBut(p) /\ Stored'[sector] < Stored[p] =>
          Age(p) + Cardinality(Stale(Stored[p]) \ {db'}) < NumBuffers
  BY <1>1 DEF AgeInv
<1>6. (flashState' = "IDLE" \/ pc' = "counted") /\ ~ragged' => Safe(Stored', Erase(sector))
  BY <1>1 DEF AgeInv
<1> QED BY <1>1, <1>4, <1>5, <1>6, SectorStays

\* Steps that give no buffer back.
LEMMA UnchangedAge ==
  ASSUME Base, AgeInv, UNCHANGED <<buf, sector>>,
         \A s \in Sectors \ {sector} : Stored'[s] = Stored[s],
         \/ pc' \notin OnSector
         \/ pc \in OnSector /\ UNCHANGED db /\ Stored' = Stored,
         \/ UNCHANGED <<flashState, ragged>> /\ Stored' = Stored /\ (pc' # "counted" \/ UNCHANGED pc)
         \/ flashState' # "IDLE" /\ pc' # "counted"
         \/ pc = "counted" /\ UNCHANGED ragged /\ Stored' = Stored
         \/ Stored'[sector] = None
  PROVE  AgeInv'
<1>1. \A s \in Sectors \ {sector} :
         Stored'[s] = Stored[s]
         /\ {i \in Unfree' : buf'[i].seq < Stored'[s]} \subseteq Stale(Stored[s])
  BY DEF Stale, Unfree
<1>2. pc' \in OnSector =>
        \A p \in Sectors : NewestBut(p) /\ Stored'[sector] < Stored[p] =>
          Age(p) + Cardinality(Stale(Stored[p]) \ {db'}) < NumBuffers
  BY DEF AgeInv
<1>3. (flashState' = "IDLE" \/ pc' = "counted") /\ ~ragged' => Safe(Stored', Erase(sector))
  BY DEF AgeInv, Safe, Erase
<1> QED BY <1>1, <1>2, <1>3, SectorStays

LEMMA BufferStale ==
  ASSUME Base, AgeInv, NEW b \in Unfree, buf[b].seq \in Int
  PROVE  \A p \in Sectors : NewestBut(p) /\ buf[b].seq < Stored[p] =>
           Age(p) + Cardinality(Stale(Stored[p]) \ {b}) < NumBuffers
<1> SUFFICES ASSUME NEW p \in Sectors, NewestBut(p), buf[b].seq < Stored[p]
             PROVE  Age(p) + Cardinality(Stale(Stored[p]) \ {b}) < NumBuffers
  OBVIOUS
<1> DEFINE T == Stale(Stored[p])
<1>1. b \in T /\ T \in SUBSET Buffers
  BY DEF Stale, Unfree
<1>2. Age(p) + Cardinality(T) <= NumBuffers
  BY DEF AgeInv
<1>3. Age(p) \in Int
  BY FlushInvFacts, LogAssumption DEF Age, Base, Sectors
<1> HIDE DEF T
<1>4. Cardinality(T \ {b}) = Cardinality(T) - 1 /\ Cardinality(T) \in Int
  BY <1>1, BuffersCounted
<1>5. Age(p) + Cardinality(T \ {b}) < NumBuffers
  BY <1>2, <1>3, <1>4, LogAssumption
<1> QED BY <1>5 DEF T

\* A part of a sector: the offset stays in it.
LEMMA PartFlushed ==
  ASSUME Base, AgeInv, Unfree' \subseteq Unfree, \A i \in Unfree' : buf'[i].seq = buf[i].seq,
         ragged', sector' = sector, pc' \notin OnSector,
         \A s \in Sectors \ {sector} : Stored'[s] = Stored[s]
  PROVE  AgeInv'
<1>1. \A s \in Sectors \ {sector} :
         Stored'[s] = Stored[s]
         /\ {i \in Unfree' : buf'[i].seq < Stored'[s]} \subseteq Stale(Stored[s])
  BY DEF Stale
<1> QED BY <1>1, SectorStays

LEMMA WriteAge ==
  ASSUME Base, UseInv, NumbersInv, AgeInv, ~mixed', NEW states \in SUBSET AllStates, NEW async,
         WriteBuffer(async, states), pc' \notin OnSector
  PROVE  AgeInv'
<1>1. /\ Flushable(f, states) /\ Request(Write(sector, buf[f].seq), async) /\ Complete
      /\ TypeOK /\ f \in Buffers /\ Stored \in [Sectors -> Int]
  BY FlushInvFacts DEF WriteBuffer, MayWrite, Base
<1>2. /\ f \in Unfree /\ buf[f].fill \in {1, 2} /\ buf[f].seq \in Int
      /\ Stored' = [Stored EXCEPT ![sector] = buf[f].seq]
  BY <1>1, WriteEffect
<1>3. /\ Unfree' = Unfree \ {f} /\ \A i \in Unfree' : buf'[i].seq = buf[i].seq
      /\ sector' = (IF buf[f].fill = 2 THEN NextSector(sector) ELSE sector)
      /\ ragged' = (buf[f].fill = 1)
  BY <1>1, CompleteEffect
<1>4. CASE buf[f].fill = 1
  <2>1. ragged' /\ sector' = sector
    <3>1. buf[f].fill # 2
      BY <1>4
    <3> QED BY <1>3, <1>4, <3>1, Zenon
  <2>2. Unfree' \subseteq Unfree /\ \A s \in Sectors \ {sector} : Stored'[s] = Stored[s]
    BY <1>1, <1>2, <1>3
  <2> QED BY <1>3, <2>1, <2>2, PartFlushed
<1>5. CASE buf[f].fill = 2
  <2>1. \A s \in Sectors : {i \in Unfree' : buf'[i].seq < Stored'[s]} \subseteq Stale(Stored'[s]) \ {f}
    BY <1>3 DEF Stale
  <2>2. sector' = NextSector(sector)
    BY <1>3, <1>5
  <2>3. \A s \in Sectors \ {sector} : Stored[s] # None => Stored[s] # buf[f].seq
    BY <1>2 DEF NumbersInv
  <2> DEFINE n == buf[f].seq
  <2>4. \A p \in Sectors : NewestBut(p) /\ n < Stored[p] =>
           Age(p) + Cardinality(Stale(Stored[p]) \ {f}) < NumBuffers
    BY <1>2, BufferStale
  <2>5. n \in Int /\ Stored' = [Stored EXCEPT ![sector] = n]
        /\ \A s \in Sectors \ {sector} : Stored[s] # None => Stored[s] # n
    BY <1>2, <2>3
  <2> HIDE DEF n
  <2> QED BY <1>1, <2>1, <2>2, <2>4, <2>5, SectorFilled
<1> QED BY <1>2, <1>4, <1>5

\* The thread moves the offset: what it wrote, or what took its place, is not older than
\* what is on the flash.
LEMMA MovedAge ==
  ASSUME Base, UseInv, NumbersInv, QueueInv, AgeInv, AllMove
  PROVE  AgeInv'
<1>1. /\ db \in Buffers /\ buf[db].fill \in {1, 2} /\ pc = "moved" /\ pc' = "counted"
      /\ buf' = buf /\ Unfree' = Unfree /\ Stored' = Stored
      /\ sector' = (IF buf[db].fill = 2 THEN NextSector(sector) ELSE sector)
      /\ ragged' = (buf[db].fill = 1)
      /\ Stored \in [Sectors -> Int] /\ sector \in Sectors
  BY FlushInvFacts DEF AllMove, Base, FlushInv, UseInv, Stored, Unfree, OnSector
<1>2. pc' \notin OnSector /\ pc \in OnSector
  BY <1>1 DEF OnSector
<1>3. CASE buf[db].fill = 1
  <2>1. ragged' /\ sector' = sector
    <3>1. buf[db].fill # 2
      BY <1>3
    <3> QED BY <1>1, <1>3, <3>1, Zenon
  <2> QED BY <1>1, <1>2, <2>1, PartFlushed
<1>4. CASE buf[db].fill = 2
  <2>1. \A s \in Sectors : {i \in Unfree' : buf'[i].seq < Stored'[s]} \subseteq Stale(Stored'[s]) \ {db}
    <3>1. ASSUME NEW s \in Sectors, db \in Unfree, buf[db].seq < Stored[s] PROVE FALSE
      <4>1. buf[db].seq > Stored[s]
        BY <1>1, <1>2, <3>1 DEF NumbersInv
      <4>2. buf[db].seq \in Int /\ Stored[s] \in Int
        BY <1>1, <3>1, FlushInvFacts DEF Base, BufferType
      <4> QED BY <3>1, <4>1, <4>2
    <3> QED BY <1>1, <3>1 DEF Stale
  <2>2. sector' = NextSector(sector)
    BY <1>1, <1>4
  <2> DEFINE n == Stored[sector]
  <2>3. AllDiffer(Stored)
    BY AfterEnds, FlushInvFacts DEF QueueInv, Base
  <2>4. \A p \in Sectors : NewestBut(p) /\ n < Stored[p] =>
           Age(p) + Cardinality(Stale(Stored[p]) \ {db}) < NumBuffers
    BY <1>2 DEF AgeInv
  <2>5. n \in Int /\ Stored' = [Stored EXCEPT ![sector] = n]
        /\ \A s \in Sectors \ {sector} : Stored[s] # None => Stored[s] # n
    BY <1>1, <2>3 DEF AllDiffer
  <2> HIDE DEF n
  <2> QED BY <1>1, <1>2, <2>1, <2>2, <2>4, <2>5, SectorFilled
<1> QED BY <1>1, <1>3, <1>4

\* After a boot the log goes on right after the newest sector.
LEMMA RebootAge ==
  ASSUME Base, QueueInv, Reboot
  PROVE  AgeInv'
<1>1. /\ Unfree' = {} /\ Stored' = flash /\ pc' \notin OnSector /\ flash \in [Sectors -> Int]
      /\ Newest(flash) = None => \A s \in Sectors : flash[s] = None
      /\ Newest(flash) # None => /\ Newest(flash) \in Sectors /\ flash[Newest(flash)] # None
                               /\ \A s \in Sectors : flash[s] <= flash[Newest(flash)]
                               /\ sector' = NextSector(Newest(flash))
  BY RebootEffect, FlushInvFacts DEF Base, OnSector
<1>2. AllDiffer(flash)
  BY AfterEnds, FlushInvFacts DEF QueueInv, Base
<1>3. CASE Newest(flash) = None
  <2>1. sector' \in Sectors
    BY RebootEffect DEF Base, FlushInv, NextBufferUsable, TypeOK
  <2>2. \A s \in Sectors : Stored'[s] = None
    BY <1>1, <1>3
  <2> QED BY <1>1, <2>1, <2>2 DEF AgeInv, NewestBut, Safe, Erase
<1>4. CASE Newest(flash) # None
  <2> DEFINE n == Newest(flash)
  <2>1. /\ n \in Sectors /\ sector' = NextSector(n) /\ sector' \in Sectors /\ sector' # n
        /\ (sector' - n) % NumSectors = 1
    <3>1. n \in Sectors /\ sector' = NextSector(n)
      BY <1>1, <1>4
    <3> HIDE DEF n
    <3> QED BY <3>1, LogAssumption DEF Sectors, NextSector
  <2>2. ASSUME NEW p \in Sectors, NewestBut(p)'
        PROVE  Age(p)' + Cardinality(Stale(Stored[p])') <= NumBuffers
    <3>1. flash[p] # None /\ flash[n] <= flash[p] /\ flash[p] <= flash[n]
      BY <1>1, <1>4, <2>1, <2>2 DEF NewestBut
    <3>2. p = n
      BY <1>1, <1>2, <2>1, <2>2, <3>1 DEF AllDiffer
    <3>3. Age(p)' = 1
      BY <2>1, <3>2 DEF Age
    <3>4. Stale(Stored[p])' = {}
      BY <1>1 DEF Stale
    <3>5. Cardinality(Stale(Stored[p])') = 0
      BY <3>4, FS_EmptySet
    <3> QED BY <3>3, <3>5, LogAssumption
  <2>3. Safe(Stored', Erase(sector'))
    BY <1>1, <1>2, <1>4, <2>1 DEF Safe, Erase, AllDiffer
  <2> QED BY <1>1, <2>2, <2>3 DEF AgeInv, Safe, Erase
<1> QED BY <1>3, <1>4

LEMMA NextAgeInv ==
  Base /\ UseInv /\ NewestInv /\ [Next]_vars /\ ~mixed' => AgeInv'
<1> SUFFICES ASSUME Base, UseInv, NumbersInv, QueueInv, AgeInv, [Next]_vars, ~mixed' PROVE AgeInv'
  BY DEF NewestInv
<1>0. TypeOK /\ Stored \in [Sectors -> Int] /\ sector \in Sectors /\ f \in Buffers
  BY FlushInvFacts DEF Base
<1>1. ASSUME NEW fill \in {1, 2}, log_dump_output_handler(fill) PROVE AgeInv'
  BY <1>1, OutputAge
<1>2. ASSUME NEW async, Request(Erase(sector), async), UNCHANGED <<buf, sector>>,
             pc' \notin OnSector
      PROVE  AgeInv'
  <2>1. Stored' = [Stored EXCEPT ![sector] = None]
    BY <1>0, <1>2, EraseEffect
  <2>2. Stored'[sector] = None /\ \A s \in Sectors \ {sector} : Stored'[s] = Stored[s]
    BY <1>0, <2>1
  <2> QED BY <1>2, <2>2, UnchangedAge
<1>3. ASSUME NEW async, EraseSector(async), UNCHANGED Rest, pc \in {"run", "end"}
      PROVE  AgeInv'
  BY <1>2, <1>3 DEF EraseSector, Rest, OnSector
<1>4. ASSUME NEW async, NEW states \in SUBSET AllStates, WriteBuffer(async, states),
             UNCHANGED Rest, pc \in {"run", "end"}
      PROVE  AgeInv'
  BY <1>4, WriteAge DEF Rest, OnSector
<1>5. ASSUME NEW async, NEW states, WriteRefused(async, states), UNCHANGED Rest,
             pc \in {"run", "end"}
      PROVE  AgeInv'
  <2>1. /\ Stored' = Stored /\ UNCHANGED <<buf, sector>> /\ flashState' # "IDLE"
        /\ pc' \notin OnSector /\ pc' # "counted"
    BY <1>5 DEF WriteRefused, Rest, Stored, OnSector
  <2> QED BY <2>1, UnchangedAge
<1>6. ASSUME WriteBehind, UNCHANGED Rest, pc = "end" PROVE AgeInv'
  <2>1. /\ buf' = [buf EXCEPT ![f].state = "FREE"] /\ sector' = sector /\ flash' = flash
        /\ queue = <<>> /\ queue' = <<>> /\ pc' \notin OnSector /\ ragged'
    BY <1>6, BehindEffect DEF Rest, OnSector, Base
  <2>2. Stored' = Stored
    BY <2>1 DEF Stored
  <2>3. Unfree' \subseteq Unfree /\ \A i \in Unfree' : buf'[i].seq = buf[i].seq
    BY <1>0, <2>1, FreeEffect
  <2> QED BY <2>1, <2>2, <2>3, PartFlushed
<1>7. CASE AllErase
  BY <1>2, <1>7 DEF AllErase, OnSector
<1>8. CASE AllWrite
  <2>1. /\ Flushable(db, AllStates) /\ Request(Write(sector, buf[db].seq), FALSE)
        /\ db \in Buffers /\ UNCHANGED <<buf, sector, db>>
        /\ flashState' = "WRITTING" /\ pc' = "written"
    BY <1>8 DEF AllWrite, Base, FlushInv
  <2>2. /\ db \in Unfree /\ buf[db].seq \in Int
        /\ Stored' = [Stored EXCEPT ![sector] = buf[db].seq]
    BY <1>0, <2>1, WriteEffect
  <2>3. Stored'[sector] = buf[db].seq /\ \A s \in Sectors \ {sector} : Stored'[s] = Stored[s]
    BY <1>0, <2>2
  <2>4. \A s \in Sectors \ {sector} :
           Stored'[s] = Stored[s]
           /\ {i \in Unfree' : buf'[i].seq < Stored'[s]} \subseteq Stale(Stored[s])
    BY <2>1, <2>3 DEF Stale, Unfree
  <2>5. \A p \in Sectors : NewestBut(p) /\ Stored'[sector] < Stored[p] =>
          Age(p) + Cardinality(Stale(Stored[p]) \ {db'}) < NumBuffers
    BY <2>1, <2>2, <2>3, BufferStale
  <2> QED BY <2>1, <2>4, <2>5, SectorStays
<1>9. CASE AllFree
  <2>1. /\ db \in Buffers /\ buf' = [buf EXCEPT ![db].state = "FREE"] /\ pc \in OnSector
        /\ UNCHANGED <<sector, db, flashState, ragged>> /\ Stored' = Stored
        /\ flashState # "IDLE" /\ pc' # "counted"
    BY <1>9 DEF AllFree, Base, FlushInv, Stored, OnSector, OnFlash
  <2>2. Unfree' = Unfree \ {db} /\ \A i \in Unfree' : buf'[i].seq = buf[i].seq
    BY <1>0, <2>1, FreeEffect
  <2>3. \A s \in Sectors \ {sector} :
           Stored'[s] = Stored[s]
           /\ {i \in Unfree' : buf'[i].seq < Stored'[s]} \subseteq Stale(Stored[s])
    BY <2>1, <2>2 DEF Stale
  <2>4. \A p \in Sectors : NewestBut(p) /\ Stored'[sector] < Stored[p] =>
          Age(p) + Cardinality(Stale(Stored[p]) \ {db'}) < NumBuffers
    BY <2>1 DEF AgeInv
  <2> QED BY <2>1, <2>3, <2>4, SectorStays
<1>10. CASE AllStore
  <2>1. /\ UNCHANGED <<buf, sector, db, flashState, ragged>> /\ Stored' = Stored
        /\ pc \in OnSector /\ pc' # "counted"
    BY <1>10 DEF AllStore, Stored, OnSector
  <2> QED BY <2>1, UnchangedAge
<1>11. CASE AllMove
  BY <1>11, MovedAge
<1>12. CASE AllErased \/ AllIdle
  <2>1. /\ UNCHANGED <<buf, sector, ragged>> /\ Stored' = Stored
        /\ pc' \notin OnSector /\ pc' # "counted"
        /\ flashState' # "IDLE" \/ pc = "counted"
    BY <1>12 DEF AllErased, AllIdle, Stored, OnSector
  <2> QED BY <2>1, UnchangedAge
<1>13. CASE Moves
  <2>1. UNCHANGED <<buf, sector, flashState, ragged>> /\ Stored' = Stored /\ MovesTo
    BY <1>13, MovesEffect
  <2>2. /\ pc' # "counted"
        /\ pc' \notin OnSector \/ (pc \in OnSector /\ UNCHANGED db)
    BY <2>1 DEF MovesTo, OnSector
  <2> QED BY <2>1, <2>2, UnchangedAge
<1>14. CASE FlashPerforms
  <2>1. UNCHANGED <<buf, sector, flashState, ragged, pc, db>> /\ Stored' = Stored
    BY <1>14, PerformIsStored DEF FlashPerforms, Base
  <2> QED BY <2>1, UnchangedAge
<1>15. CASE UNCHANGED vars
  <2>1. UNCHANGED <<buf, sector, flashState, ragged, pc, db>> /\ Stored' = Stored
    BY <1>15 DEF vars, Stored
  <2> QED BY <2>1, UnchangedAge
<1>16. CASE Reboot
  BY <1>16, RebootAge
<1> QED BY <1>1, <1>3, <1>4, <1>5, <1>6, <1>7, <1>8, <1>9, <1>10, <1>11, <1>12, <1>13, <1>14,
           <1>15, <1>16, NextCases, Zenon

LEMMA NextQueueInv ==
  Base /\ NewestInv /\ [Next]_vars /\ ~mixed' => QueueInv'
<1> SUFFICES ASSUME Base, NumbersInv, QueueInv, AgeInv, [Next]_vars, ~mixed' PROVE QueueInv'
  BY DEF NewestInv
<1>0. f \in Buffers /\ FlushInv /\ AllStates \in SUBSET AllStates
  BY FlushInvFacts DEF Base
<1>1. ASSUME UNCHANGED <<flash, queue>> PROVE QueueInv'
  BY <1>1 DEF QueueInv, After, AllDiffer, Safe
<1>2. ASSUME NEW fill \in {1, 2}, log_dump_output_handler(fill) PROVE QueueInv'
  BY <1>1, <1>2 DEF log_dump_output_handler
<1>3. ASSUME NEW async, EraseSector(async) PROVE QueueInv'
  BY <1>3, EraseQueue DEF EraseSector
<1>4. ASSUME NEW async, NEW states \in SUBSET AllStates, WriteBuffer(async, states)
      PROVE  QueueInv'
  BY <1>0, <1>4, WriteQueue DEF WriteBuffer, MayWrite
<1>5. ASSUME NEW async, NEW states, WriteRefused(async, states) PROVE QueueInv'
  BY <1>1, <1>5 DEF WriteRefused
<1>6. ASSUME WriteBehind, UNCHANGED Rest, pc = "end" PROVE QueueInv'
  <2>1. flash' = flash /\ queue' = queue
    BY <1>0, <1>6, BehindEffect
  <2> QED BY <1>1, <2>1
<1>7. CASE AllErase
  BY <1>7, EraseQueue DEF AllErase
<1>8. CASE AllWrite
  <2>1. /\ Flushable(db, AllStates) /\ Request(Write(sector, buf[db].seq), FALSE)
        /\ db \in Buffers
    BY <1>0, <1>8 DEF AllWrite, FlushInv
  <2> QED BY <1>0, <2>1, WriteQueue
<1>9. CASE \/ AllErased \/ AllFree \/ AllStore \/ AllMove \/ AllIdle \/ Moves \/ UNCHANGED vars
  <2>1. UNCHANGED <<flash, queue>>
    BY <1>9, MovesEffect, Zenon DEF AllErased, AllFree, AllStore, AllMove, AllIdle, vars
  <2> QED BY <1>1, <2>1
<1>10. CASE FlashPerforms
  BY <1>10, PerformQueue
<1>11. CASE Reboot
  <2>1. flash' = flash /\ queue' = <<>> /\ flash \in [Sectors -> Int]
    BY <1>11, RebootEffect, FlushInvFacts DEF Base
  <2>2. Len(queue') = 0 /\ SubSeq(queue', 1, 0) = <<>>
    BY <2>1
  <2>3. After(0)' = flash
    BY <2>1, <2>2, AfterAllEmpty DEF After
  <2>4. AllDiffer(flash)
    BY AfterEnds, FlushInvFacts DEF QueueInv, Base
  <2> QED BY <2>2, <2>3, <2>4 DEF QueueInv, AllDiffer
<1> QED BY <1>2, <1>3, <1>4, <1>5, <1>6, <1>7, <1>8, <1>9, <1>10, <1>11, NextCases, Zenon

\* A step that changes a sector, or mixes two headers, performs an operation that is queued,
\* or is one, or writes behind a part of a sector.
LEMMA FlashChanges ==
  ASSUME Base, [Next]_vars, flash' # flash \/ mixed' # mixed
  PROVE  \/ FlashPerforms
         \/ \E async : flashState = "IDLE" /\ ~ragged /\ Request(Erase(sector), async)
         \/ \E async : \E b \in Buffers, states \in SUBSET AllStates :
              /\ flashState # "IDLE" /\ pc \in {"run", "end", "picked"}
              /\ Flushable(b, states) /\ Request(Write(sector, buf[b].seq), async)
         \/ pc = "end" /\ WriteBehind /\ UNCHANGED Rest
<1> DEFINE E == \E async : flashState = "IDLE" /\ ~ragged /\ Request(Erase(sector), async)
           V(async, b, states) ==
             /\ flashState # "IDLE" /\ pc \in {"run", "end", "picked"}
             /\ Flushable(b, states) /\ Request(Write(sector, buf[b].seq), async)
           W == \E async : \E b \in Buffers, states \in SUBSET AllStates : V(async, b, states)
<1> SUFFICES FlashPerforms \/ E \/ W \/ (pc = "end" /\ WriteBehind /\ UNCHANGED Rest)
  OBVIOUS
<1>0. f \in Buffers /\ FlushInv
  BY FlushInvFacts DEF Base
<1>1. ASSUME NEW async, NEW states \in SUBSET AllStates, pc \in {"run", "end"},
             WriteBuffer(async, states)
      PROVE  W
  <2>1. /\ flashState # "IDLE" /\ pc \in {"run", "end", "picked"}
        /\ Flushable(f, states) /\ Request(Write(sector, buf[f].seq), async)
    BY <1>1 DEF WriteBuffer, MayWrite
  <2>2. f \in Buffers /\ states \in SUBSET AllStates /\ V(async, f, states)
    BY <1>0, <1>1, <2>1, Zenon
  <2> HIDE DEF V
  <2> QED BY <2>2
<1>2. ASSUME NEW async, EraseSector(async) PROVE E
  <2>1. flashState = "IDLE" /\ ~ragged /\ Request(Erase(sector), async)
    BY <1>2 DEF EraseSector
  <2> QED BY <2>1, Zenon
<1>3. ASSUME AllErase PROVE E
  <2>1. flashState = "IDLE" /\ ~ragged /\ Request(Erase(sector), FALSE)
    BY <1>3 DEF AllErase
  <2> QED BY <2>1, Zenon
<1>4. ASSUME AllWrite PROVE W
  <2>1. /\ AllStates \in SUBSET AllStates /\ db \in Buffers
        /\ flashState # "IDLE" /\ pc \in {"run", "end", "picked"}
        /\ Flushable(db, AllStates) /\ Request(Write(sector, buf[db].seq), FALSE)
    BY <1>0, <1>4 DEF AllWrite, FlushInv
  <2>2. db \in Buffers /\ AllStates \in SUBSET AllStates /\ V(FALSE, db, AllStates)
    BY <2>1, Zenon
  <2> HIDE DEF V
  <2> QED BY <2>2
<1>5. ASSUME \/ AllErased \/ AllFree \/ AllStore \/ AllMove \/ AllIdle \/ Moves \/ Reboot
             \/ UNCHANGED vars
      PROVE  FALSE
  <2>1. UNCHANGED <<flash, mixed>>
    BY <1>5, MovesEffect, Zenon
       DEF AllErased, AllFree, AllStore, AllMove, AllIdle, Reboot, vars
  <2> QED BY <2>1
<1>6. ASSUME NEW async, NEW states, WriteRefused(async, states) PROVE FALSE
  BY <1>6 DEF WriteRefused
<1>7. ASSUME NEW fill \in {1, 2}, log_dump_output_handler(fill) PROVE FALSE
  BY <1>7 DEF log_dump_output_handler
<1> HIDE DEF W, E
<1> QED BY <1>1, <1>2, <1>3, <1>4, <1>5, <1>6, <1>7, NextCases, Zenon

\* Two headers are mixed only after a crash that interrupted the thread after a write.
LEMMA MixedByCrash ==
  ASSUME Base, [Next]_vars
  PROVE  mixed' = mixed \/ cut \in OnFlash
<1> SUFFICES ASSUME mixed' # mixed, cut \notin OnFlash PROVE FALSE
  OBVIOUS
<1>0. TypeOK /\ FlushInv /\ CleanInv
  BY FlushInvFacts DEF Base
<1>1. ASSUME FlashPerforms PROVE FALSE
  BY <1>1 DEF FlashPerforms
<1>2. ASSUME NEW async, Request(Erase(sector), async) PROVE FALSE
  BY <1>0, <1>2, EraseEffect
<1>3. ASSUME NEW async, NEW b \in Buffers, NEW states \in SUBSET AllStates,
             flashState # "IDLE", pc \in {"run", "end", "picked"}, Flushable(b, states),
             Request(Write(sector, buf[b].seq), async)
      PROVE  FALSE
  <2>1. Stored[sector] = None
    BY <1>0, <1>3 DEF CleanInv, OnFlash, Halfway
  <2> QED BY <1>0, <1>3, <2>1, WriteEffect
<1>4. ASSUME pc = "end", WriteBehind, UNCHANGED Rest PROVE FALSE
  BY <1>0, <1>4, BehindEffect DEF OnFlash, Halfway
<1> QED BY <1>1, <1>2, <1>3, <1>4, FlashChanges, Zenon

\* They stay mixed.
LEMMA MixedStays ==
  ASSUME Base, [Next]_vars, mixed PROVE mixed'
<1> SUFFICES ASSUME mixed' # mixed PROVE mixed'
  OBVIOUS
<1>0. TypeOK /\ FlushInv
  BY FlushInvFacts DEF Base
<1>1. ASSUME FlashPerforms PROVE mixed'
  BY <1>1 DEF FlashPerforms
<1>2. ASSUME NEW async, Request(Erase(sector), async) PROVE mixed'
  BY <1>0, <1>2, EraseEffect
<1>3. ASSUME NEW async, NEW b \in Buffers, NEW states \in SUBSET AllStates,
             Flushable(b, states), Request(Write(sector, buf[b].seq), async)
      PROVE  mixed'
  BY <1>0, <1>3, WriteEffect
<1>4. ASSUME pc = "end", WriteBehind, UNCHANGED Rest PROVE mixed'
  BY <1>0, <1>4, BehindEffect
<1> QED BY <1>1, <1>2, <1>3, <1>4, FlashChanges, Zenon

\* The newest sector is not erased: its number is in the flash, and it is the highest.
LEMMA NewestStays ==
  ASSUME Base, NewestInv, [Next]_vars, ~mixed', Newest(flash) # None
  PROVE  flash'[Newest(flash)] # None
<1> DEFINE n == Newest(flash)
<1>1. /\ flash \in [Sectors -> Int] /\ queue \in Seq(Ops) /\ sector \in Sectors
      /\ n \in Sectors /\ flash[n] # None /\ \A s \in Sectors : flash[s] <= flash[n]
      /\ FlushInv /\ CleanInv /\ TypeOK
  <2>1. flash \in [Sectors -> Int] /\ \A s \in Sectors : flash[s] >= None
    BY FlushInvFacts DEF Base, SeqnumInv, None
  <2> QED BY <2>1, NewestIsHighest, FlushInvFacts DEF Base
<1> SUFFICES flash'[n] # None
  OBVIOUS
<1> HIDE DEF n
<1>2. ASSUME NEW op \in Ops, Safe(flash, op) PROVE Put(flash, op)[n] # None
  <2>1. CASE op.sec = n
    <3>1. Put(flash, op)[n] = op.seq
      BY <1>1, <2>1 DEF Put
    <3>2. op.seq # None
      BY <1>1, <1>2, <2>1 DEF Safe
    <3> QED BY <3>1, <3>2
  <2>2. CASE op.sec # n
    BY <1>1, <2>2 DEF Put
  <2> QED BY <2>1, <2>2
<1>3. ASSUME NEW op \in Ops, Safe(Stored, op), NEW async, Request(op, async), flash' # flash,
             Clean(Stored, op)
      PROVE  flash'[n] # None
  <2>1. queue = <<>> /\ flash' = Apply(flash, op)
    BY <1>3 DEF Request
  <2>2. Stored = flash
    BY <1>1, <2>1, AfterAllEmpty DEF Stored
  <2>3. flash' = Put(flash, op)
    BY <1>1, <1>3, <2>1, <2>2, ApplyType
  <2> QED BY <1>2, <1>3, <2>2, <2>3
<1>4. CASE flash' = flash
  BY <1>1, <1>4
<1>5. CASE FlashPerforms
  <2>1. flash' = Put(flash, queue[1]) /\ queue # <<>>
    BY <1>1, <1>5, PerformIsClean DEF FlashPerforms
  <2>2. queue[1] \in Ops /\ 1 \in 1..Len(queue)
    BY <1>1, <2>1
  <2>3. Safe(flash, queue[1])
    <3>1. Safe(After(1 - 1), queue[1])
      BY <2>2 DEF NewestInv, QueueInv
    <3> QED BY <1>1, <3>1, AfterEnds
  <2> QED BY <1>2, <2>1, <2>2, <2>3
<1>6. ASSUME NEW async, flashState = "IDLE", ~ragged, Request(Erase(sector), async),
             flash' # flash
      PROVE  flash'[n] # None
  <2>1. Erase(sector) \in Ops /\ Clean(Stored, Erase(sector))
    BY <1>1 DEF Ops, Erase, None, Clean
  <2>2. Safe(Stored, Erase(sector))
    BY <1>6 DEF NewestInv, AgeInv
  <2> QED BY <1>3, <1>6, <2>1, <2>2
<1>7. ASSUME NEW states \in SUBSET AllStates, NEW async, NEW b \in Buffers, Flushable(b, states),
             Request(Write(sector, buf[b].seq), async), flash' # flash
      PROVE  flash'[n] # None
  <2>1. b \in Unfree /\ buf[b].seq \in Int /\ Clean(Stored, Write(sector, buf[b].seq))
    BY <1>1, <1>7, WriteEffect
  <2>2. buf[b].seq # None
    BY <2>1, FlushInvFacts DEF Base, SeqnumInv, None
  <2>3. Write(sector, buf[b].seq) \in Ops /\ Safe(Stored, Write(sector, buf[b].seq))
    BY <1>1, <2>1, <2>2 DEF Ops, Write, Safe
  <2> QED BY <1>3, <1>7, <2>1, <2>3
<1>8. ASSUME pc = "end", WriteBehind, UNCHANGED Rest PROVE flash' = flash
  BY <1>1, <1>8, BehindEffect
<1> QED BY <1>4, <1>5, <1>6, <1>7, <1>8, FlashChanges, Zenon

---------------------------------------------------------------------------
(* The theorems.                                                            *)

LEMMA InitLogInv == Init => LogInv
<1> SUFFICES ASSUME Init PROVE LogInv
  OBVIOUS
<1>1. /\ flash = [s \in Sectors |-> None] /\ queue = <<>> /\ sector \in Sectors
      /\ pc = "run" /\ flash \in [Sectors -> Int] /\ Unfree = {} /\ Base
  BY InitBase, Rings DEF Init, Unfree, FreeBuffers, None
<1>2. Stored = flash
  BY <1>1, AfterAllEmpty DEF Stored
<1>3. Len(queue) = 0 /\ After(0) = flash /\ pc \notin OnSector /\ pc # "counted"
  BY <1>1, AfterEnds DEF Base, OnSector
<1>4. UseInv /\ CrashInv
  BY <1>1, <1>3 DEF UseInv, CrashInv
<1>5. NewestInv
  BY <1>1, <1>2, <1>3 DEF NewestInv, NumbersInv, QueueInv, AgeInv, NewestBut, AllDiffer, Safe,
                          Erase
<1>6. RingInv
  <2>1. w = 0 /\ f = 0 /\ \A i \in Buffers : buf[i].state = "FREE"
    BY DEF Init, FreeBuffers
  <2>2. Waiting = {}
    BY <1>1, <2>1, LogAssumption DEF Waiting, Buffers, Oldest
  <2> QED BY <1>1, <2>1, <2>2 DEF RingOrdered, RingInv
<1> QED BY <1>1, <1>4, <1>5, <1>6 DEF LogInv

LEMMA NextLogInv == LogInv /\ [Next]_vars => LogInv'
<1> SUFFICES ASSUME LogInv, [Next]_vars PROVE LogInv'
  OBVIOUS
<1>1. Base' /\ UseInv' /\ RingInv' /\ CrashInv'
  BY NextBase, NextUse, NextRing, NextCrash DEF LogInv
<1>2. ASSUME ~mixed' PROVE NewestInv'
  <2>1. Base /\ UseInv /\ NewestInv
    BY <1>2, MixedStays DEF LogInv
  <2> QED BY <1>2, <2>1, NextNumbersInv, NextQueueInv, NextAgeInv DEF NewestInv
<1> QED BY <1>1, <1>2 DEF LogInv

\* The inductive invariant: what is in memory, queued and on the flash, through traces,
\* flushes, crashes between any two steps of a flush, and power losses.
THEOREM Invariant == Spec => []LogInv
  BY InitLogInv, NextLogInv, PTL DEF Spec

\* ASSERT "data_buff state error" never fails, and a buffer that waits to be written
\* is never taken for a trace while another one is being filled.
THEOREM NoBufferIsLost == Spec => []NextBufferUsable
<1>1. LogInv => NextBufferUsable
  BY DEF LogInv, Base, FlushInv
<1> QED BY <1>1, Invariant, PTL

\* log_dump_f_seqnum and log_dump_w_seqnum delimit what waits for the flash, until the
\* buffer being written itself is flushed, a thread's flush is overtaken by traces, or a
\* crash stops it between freeing a buffer and moving log_dump_f_seqnum.
THEOREM RingIsOrdered == Spec => []RingOrdered
<1>1. LogInv => RingOrdered
  BY DEF LogInv, RingInv
<1> QED BY <1>1, Invariant, PTL

\* A sector that is programmed is erased, or holds the same buffer, unless a crash stopped
\* log_dump_flush_all after a write and before log_dump_flash_state was IDLE again.
THEOREM ErasedFirst == Spec => ErasedBeforeWritten
<1> DEFINE A == mixed' = mixed \/ cut \in OnFlash
<1>1. LogInv /\ [Next]_vars => [A]_vars
  BY MixedByCrash DEF LogInv
<1>2. ErasedBeforeWritten <=> [][A]_vars
  BY PTL DEF ErasedBeforeWritten
<1> HIDE DEF A
<1> QED BY <1>1, <1>2, Invariant, PTL DEF Spec

\* When log_dump_notify_handler returns, every sector that was in memory at the end of
\* the dump is on the flash, unless the crash stopped log_dump_flush_all between freeing a
\* buffer and setting log_dump_flash_state, or just before and two headers were mixed.
THEOREM CrashIsLogged == Spec => []CrashLogStored
<1>1. LogInv => CrashLogStored
  <2> SUFFICES ASSUME LogInv, pc = "dead", ~Spoilt PROVE owed \subseteq {flash[s] : s \in Sectors}
    BY DEF CrashLogStored, Spoilt
  <2>1. Stored = flash
    BY FlushInvFacts, AfterAllEmpty DEF LogInv, CrashInv, Stored, Base
  <2> QED BY <2>1 DEF LogInv, CrashInv
<1> QED BY <1>1, Invariant, PTL

\* After a part of a sector has been flushed the offset stays inside it, and no flush
\* reaches the flash any more before the next boot.
THEOREM PartEndsTheLog == Spec => NothingAfterPartialFlush
<1> DEFINE A == flashState = "IDLE" /\ ragged =>
                  Reboot \/ (UNCHANGED <<flashState, ragged, sector>> /\ Stored' = Stored)
<1>1. LogInv /\ [Next]_vars => [A]_vars
  BY PartIsLast DEF LogInv
<1>2. NothingAfterPartialFlush <=> [][A]_vars
  BY PTL DEF NothingAfterPartialFlush
<1> HIDE DEF A
<1> QED BY <1>1, <1>2, Invariant, PTL DEF Spec

\* As long as no two headers are mixed, the newest sector on the flash is never erased: not
\* by the flush that goes round the ring, whatever is queued, and not after a boot that has
\* to find it again.
THEOREM NewestSurvives == Spec => NewestKept
<1> DEFINE A == ~mixed' /\ Newest(flash) # None => flash'[Newest(flash)] # None
<1>1. LogInv /\ [Next]_vars => [A]_vars
  <2> SUFFICES ASSUME LogInv, [Next]_vars, ~mixed', Newest(flash) # None
               PROVE  flash'[Newest(flash)] # None
    OBVIOUS
  <2>1. Base /\ NewestInv
    BY MixedStays DEF LogInv
  <2> QED BY <2>1, NewestStays
<1>2. NewestKept <=> [][A]_vars
  BY PTL DEF NewestKept
<1> HIDE DEF A
<1> QED BY <1>1, <1>2, Invariant, PTL DEF Spec
=============================================================================
