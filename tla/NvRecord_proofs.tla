-------------------------- MODULE NvRecord_proofs ---------------------------
(***************************************************************************)
(* Proofs about NvRecord with one flushing thread, for any number of       *)
(* pages, versions, nodes, buffers and other modules: whatever the power   *)
(* does, one of the two records in flash is valid and not older than the   *)
(* last one saved.                                                         *)
(***************************************************************************)
EXTENDS NvRecord, NorflashReads_proofs

---------------------------------------------------------------------------
(* Where a save is.                                                         *)

\* The record that a flush in state st goes on with.
RecOf(st) ==
  IF st = IDLE \/ (st.rec = Main /\ st.step # "DONE") THEN Main ELSE Bak

BeginsIn(st) == st \in {StartOf(RecOf(st)), NV(RecOf(st), "ERASING")}
WritesIn(st) == st \in {NV(RecOf(st), "ERASED"), NV(RecOf(st), "WRITTING")}
DrainsIn(st) == st = NV(RecOf(st), "WRITTEN")

\* The places between two records, and those at which the thread works on one.
Between == {"off", "update", "loop", "second"}
OnRecord == ThreadPlaces \ Between

\* A thread at place p with rec = r and seen = s, and the hook with h left to do, in
\* state st with w pages copied.
Control(st, p, r, s, w, h) ==
  /\ h # "off" => p = "off"
  /\ h = "copy" => st = NV(Bak, "WRITTING") /\ w \in 1..NumCells - 1
  /\ p \in OnRecord => r = RecOf(st)
  /\ p \in {"erase", "erase_full", "erased"} => BeginsIn(st)
  /\ p \in {"write", "write_full", "queued"} => r = Main /\ WritesIn(st)
  /\ p = "start" => r = Bak /\ WritesIn(st)
  /\ p \in {"copy", "copy_full", "load", "store"} =>
       st = NV(Bak, "WRITTING") /\ w \in 0..NumCells - 1
  /\ p = "store" => s = w
  /\ p = "written" => WritesIn(st)
  /\ p = "check2" => WritesIn(st) \/ DrainsIn(st)
  /\ p \in {"drain", "done"} => DrainsIn(st)
  /\ p = "idle" <=> st = NV(Bak, "DONE")
  /\ st = NV(Bak, "WRITTING") /\ h # "copy" /\ p \in Between \cup {"check", "check2", "start"} =>
       w = 0

\* Has the erase of the record been queued, and how many of its pages behind it.
EraseHanded(st, p) == ~BeginsIn(st) \/ p = "erased"

PagesHanded(st, p, w, h) ==
  IF DrainsIn(st) \/ p \in {"queued", "written", "idle"} THEN NumCells
  ELSE IF p \in {"copy", "copy_full"} \/ h = "copy" THEN w
  ELSE IF p \in {"load", "store"} THEN w + 1
  ELSE 0

---------------------------------------------------------------------------
(* What is queued for a record of which an erase and pages 1..k with value  *)
(* v have been handed to the queue.                                         *)

\* The pages that write i has yet to program, when the driver is at page a.
Ahead(q, lck, a, i) == (IF i = 1 /\ lck THEN a ELSE q[i].lo)..q[i].hi

EraseAhead(q) == q # <<>> /\ q[1].type = "ERASING"

NodesFor(q, rec, k, v) ==
  \A i \in 1..Len(q) :
    /\ q[i].sec = rec
    /\ \A c \in Cells : c > k => q[i].buf[c] = Blank
    /\ q[i].type = "WRITTING" =>
         /\ q[i].lo <= q[i].hi /\ q[i].hi <= k
         /\ \A c \in q[i].lo..q[i].hi : q[i].buf[c] = v

\* An erase, a write, an erase and a write, or a write being performed and one more.
OrderFor(q, lck, k) ==
  /\ Len(q) <= 2
  /\ \A i \in 1..Len(q) : i = Len(q) /\ q[i].type = "WRITTING" => q[i].hi = k
  /\ Len(q) = 2 => q[2].type = "WRITTING" /\ (q[1].type = "WRITTING" => lck)
  /\ EraseAhead(q) /\ k > 0 => Len(q) = 2 /\ q[2].lo = 1

\* The flash once the erase is over.
PagesFor(q, lck, a, image, k, v) ==
  \A c \in Cells :
    /\ image[c] \in {Blank, v}
    /\ c > k => image[c] = Blank
    /\ c <= k => image[c] = v \/ \E i \in 1..Len(q) : c \in Ahead(q, lck, a, i)

Handed(q, lck, a, image, rec, k, v) ==
  /\ NodesFor(q, rec, k, v)
  /\ OrderFor(q, lck, k)
  /\ EraseAhead(q) \/ PagesFor(q, lck, a, image, k, v)

---------------------------------------------------------------------------
(* The inductive invariant.                                                 *)

Place == thread[1].at

\* What has been handed to the queue q of the records' module, for its record in flash.
Saves(st, p, w, h, q, lck, a, image, v) ==
  /\ IF EraseHanded(st, p)
     THEN Handed(q, lck, a, image, RecOf(st), PagesHanded(st, p, w, h), v)
     ELSE q = <<>>
  /\ p \in {"done", "idle"} => q = <<>>
  /\ h = "copy" => WriteMerged(q, lck, Bak)

\* The queue holds what the save that is under way has handed to it, and no other
\* module's queue a node for a record.
QueueInv ==
  /\ Registered(NvMod)
  /\ Saves(nv_state, Place, written, hook, queue[NvMod], cur[NvMod], hal.next,
           flash[RecOf(nv_state)], sent)

Homed == \A m \in Mods \ {NvMod} : \A i \in 1..Len(queue[m]) : Owner[queue[m][i].sec] = m

\* A locked node of the records' module is one that the driver has suspended.
LockedIsSuspended == cur[NvMod] => state[NvMod] = SuspendedState(queue[NvMod][1])

\* No valid record is older than the last one saved, and one is valid; while one of
\* them is being saved, the other.
RecordsInv ==
  /\ \A s \in {Main, Bak} : Valid(s) => VersionIn(s) >= completed
  /\ completed = Default \/ Valid(Main) \/ Valid(Bak)
  /\ nvrec_init =>
       /\ completed <= sent /\ sent <= ram
       /\ IF RecOf(nv_state) = Main THEN completed = Default \/ Valid(Bak)
                                    ELSE flash[Main] = Image(sent)

\* Before nv_record_extension_init all is as it was at power on.
OffInv ==
  ~nvrec_init =>
    /\ hal = NotSuspended
    /\ state = [m \in Mods |-> "UNINITED"]
    /\ queue = [m \in Mods |-> <<>>]
    /\ cur = [m \in Mods |-> FALSE]
    /\ cur_mod = NoMod /\ cur_mod_id = NumMods
    /\ opera_used = 0 /\ data_used = 0
    /\ nv_state = IDLE /\ Place = "off" /\ hook = "off"

NvInv ==
  /\ IInv /\ sync = NoSync
  /\ NvTypeOK /\ ~nv_asserted
  /\ Homed /\ LockedIsSuspended
  /\ Control(nv_state, Place, thread[1].rec, thread[1].seen, written, hook)
  /\ nvrec_init => QueueInv
  /\ RecordsInv
  /\ OffInv

\* The record in RAM that has not been handed to the queue is marked as changed, or is
\* about to be.
UpdateInv ==
  nvrec_init =>
    /\ ram = sent \/ is_update \/ Place = "update"
    /\ Place = "queued" => ram = sent
    /\ nv_state = IDLE /\ Place # "erased" => is_update \/ flash[Main] = Image(sent)

---------------------------------------------------------------------------
(* One step of the oldest operation.                                        *)

StartsAt(n, lck, a) == IF lck THEN a ELSE n.lo

Finishes(q, lck, a, image, done) ==
  done = IF q[1].type = "ERASING" THEN ErasedImage
         ELSE Program(image, q[1].buf, StartsAt(q[1], lck, a), q[1].hi)

CutShort(q, lck, a, image, b, done) ==
  \/ q[1].type = "ERASING" /\ done = TornImage
  \/ /\ q[1].type = "WRITTING"
     /\ b \in StartsAt(q[1], lck, a)..q[1].hi
     /\ done = Program(image, q[1].buf, StartsAt(q[1], lck, a), b - 1)

\* A record of this flash is not valid, or it is version v.
OfVersion(image, v) == \A c \in Cells : image[c] \in {Blank, Mixed, v}

LEMMA OneOrTwo ==
  ASSUME NEW q \in Seq(Nodes), q # <<>>, Len(q) <= 2
  PROVE  /\ Len(q) = 1 \/ Len(q) = 2
         /\ \A i \in 1..Len(q) : i = 1 \/ (i = 2 /\ Len(q) = 2)
<1>1. PICK n \in Nat : n = Len(q) /\ n # 0
  OBVIOUS
<1>2. n = 1 \/ n = 2
  BY <1>1
<1>3. \A i \in 1..n : i = 1 \/ (i = 2 /\ n = 2)
  BY <1>2
<1> QED BY <1>1, <1>2, <1>3

LEMMA TailOfOne ==
  ASSUME NEW q \in Seq(Nodes), Len(q) = 1, NEW r, r = Tail(q)
  PROVE  r = <<>>
<1>1. q # <<>>
  OBVIOUS
<1>2. r \in Seq(Nodes) /\ Len(r) = Len(q) - 1
  BY <1>1
<1>3. Len(r) = 0
  BY <1>2
<1> QED BY <1>2, <1>3

LEMMA TailOfTwo ==
  ASSUME NEW q \in Seq(Nodes), Len(q) = 2, NEW r, r = Tail(q)
  PROVE  r \in Seq(Nodes) /\ Len(r) = 1 /\ r # <<>> /\ r[1] = q[2]
<1>1. q # <<>>
  OBVIOUS
<1>2. IsWithout(r, q, 1)
  BY <1>1, TailIs
<1>3. r \in Seq(Nodes) /\ Len(r) = 1
  BY <1>2 DEF IsWithout
<1>4. 1 \in 1..Len(r)
  BY <1>3
<1>5. r[1] = q[2]
  BY <1>2, <1>4 DEF IsWithout, Back
<1>6. r # <<>>
  <2>1. r = <<>> => Len(r) = 0
    OBVIOUS
  <2> QED BY <1>3, <2>1
<1> QED BY <1>3, <1>5, <1>6

\* Nothing is queued any more.
LEMMA EmptyHanded ==
  ASSUME NEW lck, NEW a, NEW image, NEW rec, NEW k, NEW v, PagesFor(<<>>, lck, a, image, k, v)
  PROVE  Handed(<<>>, lck, a, image, rec, k, v)
<1>1. Len(<<>>) = 0 /\ 1..0 = {}
  OBVIOUS
<1>2. NodesFor(<<>>, rec, k, v)
  BY <1>1 DEF NodesFor
<1>3. OrderFor(<<>>, lck, k)
  BY <1>1 DEF OrderFor, EraseAhead
<1> QED BY <1>2, <1>3 DEF Handed

\* The two nodes that a save may have in the queue.
LEMMA HandedNodes ==
  ASSUME NEW q \in Seq(Nodes), NEW lck \in BOOLEAN, NEW a, NEW image, NEW rec, NEW k, NEW v,
         Handed(q, lck, a, image, rec, k, v), q # <<>>
  PROVE  /\ Len(q) <= 2 /\ (Len(q) = 1 \/ Len(q) = 2) /\ q[1] \in Nodes /\ q[1].sec = rec
         /\ q[1].lo \in Nat /\ q[1].hi \in Nat
         /\ q[1].type = "ERASING" \/ q[1].type = "WRITTING"
         /\ Len(q) = 2 => /\ q[2] \in Nodes /\ q[2].sec = rec /\ q[2].type = "WRITTING"
                          /\ q[2].lo \in Nat /\ q[2].hi \in Nat /\ q[2].hi = k
         /\ Len(q) = 1 /\ q[1].type = "WRITTING" => q[1].hi = k
<1>1. Len(q) <= 2 /\ (Len(q) = 1 \/ Len(q) = 2)
  <2>1. Len(q) <= 2
    BY DEF Handed, OrderFor
  <2> QED BY <2>1, OneOrTwo
<1>2. q[1] \in Nodes /\ (Len(q) = 2 => q[2] \in Nodes)
  BY <1>1
<1>3. \A i \in 1..Len(q) : q[i].sec = rec
  BY DEF Handed, NodesFor
<1>4. Len(q) = 2 => q[2].type = "WRITTING"
  BY DEF Handed, OrderFor
<1>5. \A i \in 1..Len(q) : i = Len(q) /\ q[i].type = "WRITTING" => q[i].hi = k
  BY DEF Handed, OrderFor
<1>6. \A n \in Nodes : n.lo \in Nat /\ n.hi \in Nat /\ n.type \in {"ERASING", "WRITTING"}
  BY CellsAssumption DEF Nodes
<1> QED BY <1>1, <1>2, <1>3, <1>4, <1>5, <1>6

Holds(buf, b, e, v) == \A c \in Cells : c \in b..e => buf[c] = v
BlankOr(image, v) == \A c \in Cells : image[c] \in {Blank, v}
Changes(done, image, b, e, v) ==
  \A c \in Cells : done[c] = IF c \in b..e THEN v ELSE image[c]

\* Programming the pages b..e of a buffer.
LEMMA PagesProgrammed ==
  ASSUME NEW image \in Images, NEW buf, NEW v \in Values, NEW b \in Int, NEW e \in Int,
         BlankOr(image, v), Holds(buf, b, e, v),
         NEW done, done = Program(image, buf, b, e)
  PROVE  Changes(done, image, b, e, v)
<1> SUFFICES ASSUME NEW c \in Cells PROVE done[c] = IF c \in b..e THEN v ELSE image[c]
  BY DEF Changes
<1>1. CASE c \in b..e
  <2>1. done[c] = Wired({image[c], v})
    BY <1>1 DEF Program, Holds
  <2>2. image[c] \in {Blank, v} /\ v \in Contents
    BY DEF Contents, BlankOr
  <2>3. PICK y \in {Blank, v} : y = image[c]
    BY <2>2
  <2> QED BY <1>1, <2>1, <2>2, <2>3, WiredIs
<1>2. CASE c \notin b..e
  BY <1>2 DEF Program
<1> QED BY <1>1, <1>2

LEMMA OneHanded ==
  ASSUME NEW q \in Seq(Nodes), Len(q) = 1, q[1].type = "WRITTING", NEW k, q[1].hi = k, NEW lck
  PROVE  OrderFor(q, lck, k) /\ ~EraseAhead(q)
<1>1. ~EraseAhead(q)
  BY DEF EraseAhead
<1>2. \A i \in 1..Len(q) : i = 1
  OBVIOUS
<1> QED BY <1>1, <1>2 DEF OrderFor

\* The erase is over, and what follows it begins with a blank sector.
LEMMA EraseFinished ==
  ASSUME NEW q \in Seq(Nodes), NEW lck \in BOOLEAN, NEW a, NEW image, NEW rec, NEW k \in Nat, NEW v,
         Handed(q, lck, a, image, rec, k, v), q # <<>>, q[1].type = "ERASING",
         NEW r, r = Tail(q), NEW b
  PROVE  Handed(r, FALSE, b, ErasedImage, rec, k, v)
<1>1. /\ Len(q) <= 2 /\ (Len(q) = 1 \/ Len(q) = 2)
      /\ Len(q) = 2 => q[2].type = "WRITTING" /\ q[2].hi = k
  BY HandedNodes
<1>3. CASE Len(q) = 1
  <2>1. r = <<>> /\ k = 0
    <3>1. k = 0
      BY <1>3 DEF Handed, OrderFor, EraseAhead
    <3> QED BY <1>3, <3>1, TailOfOne
  <2>2. PagesFor(<<>>, FALSE, b, ErasedImage, 0, v)
    <3>1. \A c \in Cells : ErasedImage[c] = Blank /\ ~(c <= 0)
      BY CellsAssumption DEF ErasedImage, Cells
    <3> QED BY <3>1 DEF PagesFor
  <2> QED BY <2>1, <2>2, EmptyHanded
<1>4. CASE Len(q) = 2
  <2>1. /\ r \in Seq(Nodes) /\ Len(r) = 1 /\ r # <<>> /\ r[1] = q[2]
        /\ 2 \in 1..Len(q) /\ 1 \in 1..Len(r)
    BY <1>4, TailOfTwo
  <2>2. NodesFor(r, rec, k, v)
    BY <2>1 DEF Handed, NodesFor
  <2>3. OrderFor(r, FALSE, k) /\ ~EraseAhead(r)
    BY <1>1, <1>4, <2>1, OneHanded
  <2>4. k > 0 => r[1].lo = 1 /\ r[1].hi = k
    BY <1>1, <1>4, <2>1 DEF Handed, OrderFor, EraseAhead
  <2>5. PagesFor(r, FALSE, b, ErasedImage, k, v)
    <3>1. \A c \in Cells : ErasedImage[c] = Blank
      BY DEF ErasedImage
    <3>2. Ahead(r, FALSE, b, 1) = r[1].lo..r[1].hi
      BY DEF Ahead
    <3>3. ASSUME NEW c \in Cells, c <= k PROVE c \in Ahead(r, FALSE, b, 1)
      <4>1. c \in 1..k
        BY <3>3, CellsAssumption DEF Cells
      <4>2. k > 0
        BY <4>1
      <4> QED BY <2>4, <3>2, <4>1, <4>2
    <3>4. \A c \in Cells : c <= k => \E i \in 1..Len(r) : c \in Ahead(r, FALSE, b, i)
      BY <2>1, <3>3
    <3> QED BY <3>1, <3>4 DEF PagesFor
  <2> QED BY <2>2, <2>3, <2>5 DEF Handed
<1> QED BY <1>1, <1>3, <1>4

\* A write is over: its pages are in flash, and a second one begins.
LEMMA WriteFinished ==
  ASSUME NEW q \in Seq(Nodes), NEW lck \in BOOLEAN, NEW a, NEW image \in Images, NEW rec,
         NEW k \in Nat, NEW v \in Values,
         Handed(q, lck, a, image, rec, k, v), q # <<>>, q[1].type = "WRITTING",
         lck => a \in q[1].lo..q[1].hi,
         NEW r, r = Tail(q), NEW b, NEW done, Finishes(q, lck, a, image, done)
  PROVE  Handed(r, FALSE, b, done, rec, k, v) /\ OfVersion(done, v)
<1>1. /\ Len(q) <= 2 /\ (Len(q) = 1 \/ Len(q) = 2) /\ q[1].lo \in Nat /\ q[1].hi \in Nat
      /\ Len(q) = 2 => q[2].type = "WRITTING" /\ q[2].hi = k
      /\ Len(q) = 1 => q[1].hi = k
  BY HandedNodes
<1>3. PICK s : s = StartsAt(q[1], lck, a)
  OBVIOUS
<1>4. /\ s \in Nat /\ q[1].lo <= s
      /\ Ahead(q, lck, a, 1) = s..q[1].hi
      /\ 2 \in 1..Len(q) => Ahead(q, lck, a, 2) = q[2].lo..q[2].hi
  BY <1>1, <1>3 DEF StartsAt, Ahead
<1>5. PagesFor(q, lck, a, image, k, v)
  BY DEF Handed, EraseAhead
<1>6. /\ q[1].lo <= q[1].hi /\ q[1].hi <= k
      /\ \A c \in q[1].lo..q[1].hi : q[1].buf[c] = v
  BY <1>1 DEF Handed, NodesFor
<1>7. \A c \in Cells : done[c] = IF c \in s..q[1].hi THEN v ELSE image[c]
  <2>1. done = Program(image, q[1].buf, s, q[1].hi)
    BY <1>3 DEF Finishes
  <2>2. BlankOr(image, v)
    BY <1>5 DEF PagesFor, BlankOr
  <2>3. Holds(q[1].buf, s, q[1].hi, v)
    BY <1>1, <1>4, <1>6 DEF Cells, Holds
  <2>4. PICK e : e = q[1].hi
    OBVIOUS
  <2>5. PICK buf : buf = q[1].buf
    OBVIOUS
  <2>6. s \in Int /\ e \in Int
    BY <1>1, <1>4, <2>4
  <2>7. done = Program(image, buf, s, e) /\ Holds(buf, s, e, v)
    BY <2>1, <2>3, <2>4, <2>5
  <2>8. Changes(done, image, s, e, v)
    BY ONLY <2>2, <2>6, <2>7, image \in Images, v \in Values, PagesProgrammed
  <2> QED BY <2>4, <2>8 DEF Changes
<1>8. ASSUME NEW c \in Cells
      PROVE  /\ done[c] \in {Blank, v}
             /\ c > k => done[c] = Blank
             /\ c <= k => done[c] = v \/ (Len(q) = 2 /\ c \in q[2].lo..q[2].hi)
  <2>1. /\ image[c] \in {Blank, v}
        /\ c > k => image[c] = Blank
        /\ c <= k => image[c] = v \/ \E i \in 1..Len(q) : c \in Ahead(q, lck, a, i)
    BY <1>5 DEF PagesFor
  <2>2. c > k => c \notin s..q[1].hi
    BY <1>1, <1>6 DEF Cells
  <2>3. \A i \in 1..Len(q) : i = 1 \/ (i = 2 /\ Len(q) = 2)
    BY <1>1, OneOrTwo
  <2>4. \A i \in 1..Len(q) : c \in Ahead(q, lck, a, i) =>
                              c \in s..q[1].hi \/ (Len(q) = 2 /\ c \in q[2].lo..q[2].hi)
    BY <1>4, <2>3
  <2> QED BY <1>7, <2>1, <2>2, <2>4
<1>9. OfVersion(done, v)
  BY <1>8 DEF OfVersion
<1>10. CASE Len(q) = 1
  <2>1. r = <<>>
    BY <1>10, TailOfOne
  <2>2. PagesFor(<<>>, FALSE, b, done, k, v)
    BY <1>8, <1>10 DEF PagesFor
  <2> QED BY <1>9, <2>1, <2>2, EmptyHanded
<1>11. CASE Len(q) = 2
  <2>1. /\ r \in Seq(Nodes) /\ Len(r) = 1 /\ r # <<>> /\ r[1] = q[2]
        /\ 2 \in 1..Len(q) /\ 1 \in 1..Len(r)
    BY <1>11, TailOfTwo
  <2>2. NodesFor(r, rec, k, v)
    BY <2>1 DEF Handed, NodesFor
  <2>3. OrderFor(r, FALSE, k) /\ ~EraseAhead(r)
    BY <1>1, <1>11, <2>1, OneHanded
  <2>4. Ahead(r, FALSE, b, 1) = q[2].lo..q[2].hi
    BY <2>1 DEF Ahead
  <2>5. PagesFor(r, FALSE, b, done, k, v)
    <3>1. \A c \in Cells : c <= k => done[c] = v \/ \E i \in 1..Len(r) : c \in Ahead(r, FALSE, b, i)
      BY <1>8, <2>1, <2>4
    <3> QED BY <1>8, <3>1 DEF PagesFor
  <2> QED BY <1>9, <2>2, <2>3, <2>5 DEF Handed
<1> QED BY <1>1, <1>10, <1>11

\* An operation is cut short.
LEMMA CutShortHanded ==
  ASSUME NEW q \in Seq(Nodes), NEW lck \in BOOLEAN, NEW a, NEW image \in Images, NEW rec,
         NEW k \in Nat, NEW v \in Values,
         Handed(q, lck, a, image, rec, k, v), q # <<>>,
         lck /\ q[1].type = "WRITTING" => a \in q[1].lo..q[1].hi,
         NEW b, NEW done, CutShort(q, lck, a, image, b, done)
  PROVE  Handed(q, TRUE, b, done, rec, k, v) /\ OfVersion(done, v)
<1>1. /\ Len(q) <= 2 /\ (Len(q) = 1 \/ Len(q) = 2) /\ q[1].lo \in Nat /\ q[1].hi \in Nat
      /\ q[1].type = "ERASING" \/ q[1].type = "WRITTING"
  BY HandedNodes
<1>2. NodesFor(q, rec, k, v) /\ OrderFor(q, TRUE, k)
  BY DEF Handed, OrderFor
<1>3. CASE q[1].type = "ERASING"
  <2>1. OfVersion(done, v)
    BY <1>3 DEF CutShort, OfVersion, TornImage
  <2> QED BY <1>2, <1>3, <2>1 DEF Handed, EraseAhead
<1>4. CASE q[1].type = "WRITTING"
  <2>1. PICK s : s = StartsAt(q[1], lck, a)
    OBVIOUS
  <2>2. /\ s \in Nat /\ q[1].lo <= s
        /\ Ahead(q, lck, a, 1) = s..q[1].hi
        /\ b \in s..q[1].hi
        /\ Ahead(q, TRUE, b, 1) = b..q[1].hi
        /\ 2 \in 1..Len(q) => Ahead(q, TRUE, b, 2) = Ahead(q, lck, a, 2)
    BY <1>1, <1>4, <2>1 DEF StartsAt, Ahead, CutShort
  <2>3. PagesFor(q, lck, a, image, k, v)
    BY <1>4 DEF Handed, EraseAhead
  <2>4. q[1].hi <= k /\ \A c \in q[1].lo..q[1].hi : q[1].buf[c] = v
    BY <1>1, <1>4 DEF Handed, NodesFor
  <2>5. \A c \in Cells : done[c] = IF c \in s..b - 1 THEN v ELSE image[c]
    <3>1. done = Program(image, q[1].buf, s, b - 1)
      BY <1>4, <2>1 DEF CutShort
    <3>2. BlankOr(image, v)
      BY <2>3 DEF PagesFor, BlankOr
    <3>3. Holds(q[1].buf, s, b - 1, v)
      BY <1>1, <2>2, <2>4 DEF Cells, Holds
    <3>4. PICK e : e = b - 1
      OBVIOUS
    <3>5. PICK buf : buf = q[1].buf
      OBVIOUS
    <3>6. s \in Int /\ e \in Int
      BY <1>1, <2>2, <3>4
    <3>7. done = Program(image, buf, s, e) /\ Holds(buf, s, e, v)
      BY <3>1, <3>3, <3>4, <3>5
    <3>8. Changes(done, image, s, e, v)
      BY ONLY <3>2, <3>6, <3>7, image \in Images, v \in Values, PagesProgrammed
    <3> QED BY <3>4, <3>8 DEF Changes
  <2>6. ASSUME NEW c \in Cells
        PROVE  /\ done[c] \in {Blank, v}
               /\ c > k => done[c] = Blank
               /\ c <= k => done[c] = v \/ \E i \in 1..Len(q) : c \in Ahead(q, TRUE, b, i)
    <3>1. /\ image[c] \in {Blank, v}
          /\ c > k => image[c] = Blank
          /\ c <= k => image[c] = v \/ \E i \in 1..Len(q) : c \in Ahead(q, lck, a, i)
      BY <2>3 DEF PagesFor
    <3>2. c > k => c \notin s..b - 1
      BY <1>1, <2>2, <2>4 DEF Cells
    <3>3. \A i \in 1..Len(q) : i = 1 \/ (i = 2 /\ Len(q) = 2)
      BY <1>1, OneOrTwo
    <3>4. c \in s..q[1].hi => c \in s..b - 1 \/ c \in b..q[1].hi
      BY <1>1, <2>2 DEF Cells
    <3> QED BY <1>1, <2>2, <2>5, <3>1, <3>2, <3>3, <3>4
  <2>7. OfVersion(done, v)
    BY <2>6 DEF OfVersion
  <2>8. PagesFor(q, TRUE, b, done, k, v)
    BY <2>6 DEF PagesFor
  <2> QED BY <1>2, <2>7, <2>8 DEF Handed
<1> QED BY <1>1, <1>3, <1>4

---------------------------------------------------------------------------
(* One more operation is handed to the queue.                               *)

\* The write into which the next one is merged.
LastIsOpen(q, lck) == q # <<>> /\ q[Len(q)].type = "WRITTING" /\ ~(lck /\ Len(q) = 1)

\* It is the node at which the walk of _w_opera_add stops.
LEMMA OpenIsNewest ==
  ASSUME NEW q \in Seq(Nodes), NEW lck \in BOOLEAN, NEW s, LastIsOpen(q, lck),
         q[Len(q)].sec = s
  PROVE  WriteMerged(q, lck, s) /\ Newest(Stops(q, lck, s)) = Len(q)
<1>1. PICK n \in Nat : n = Len(q)
  OBVIOUS
<1>2. n # 0 /\ n \in 1..n
  BY <1>1 DEF LastIsOpen
<1>3. n \in Stops(q, lck, s)
  <2>1. n \in On(q, s)
    BY <1>1, <1>2 DEF On
  <2>2. ~(lck /\ n = 1)
    BY <1>1 DEF LastIsOpen
  <2> QED BY <2>1, <2>2 DEF Stops, Unlocked
<1>4. PICK e : e = Newest(Stops(q, lck, s))
  OBVIOUS
<1>5. e \in 1..n /\ \A j \in Stops(q, lck, s) : j <= e
  BY <1>1, <1>3, <1>4, StopIs
<1>6. e = n
  BY <1>3, <1>5
<1>7. q[e].type = "WRITTING"
  BY <1>1, <1>6 DEF LastIsOpen
<1> QED BY <1>1, <1>3, <1>4, <1>6, <1>7 DEF WriteMerged

\* What a save has in the queue when its next write needs a node of its own.
LEMMA NotMerged ==
  ASSUME NEW q \in Seq(Nodes), NEW lck \in BOOLEAN, NEW a, NEW image, NEW s, NEW k, NEW v,
         Handed(q, lck, a, image, s, k, v), ~WriteMerged(q, lck, s)
  PROVE  \/ q = <<>> /\ Stops(q, lck, s) = {}
         \/ Len(q) = 1 /\ q[1].type = "ERASING" /\ Stops(q, lck, s) # {}
         \/ Len(q) = 1 /\ q[1].type = "WRITTING" /\ lck /\ Stops(q, lck, s) = {}
<1>1. CASE q = <<>>
  BY <1>1 DEF Stops, On
<1>2. CASE q # <<>>
  <2>1. /\ Len(q) = 1 \/ Len(q) = 2
        /\ q[1].sec = s /\ q[1].type \in {"ERASING", "WRITTING"}
        /\ Len(q) = 2 => q[2].sec = s /\ q[2].type = "WRITTING"
    BY <1>2, HandedNodes
  <2>2. CASE Len(q) = 2
    BY <1>2, <2>1, <2>2, OpenIsNewest DEF LastIsOpen
  <2>3. CASE Len(q) = 1
    <3>1. 1 \in On(q, s) /\ \A i \in On(q, s) : i = 1
      BY <2>1, <2>3 DEF On
    <3>2. CASE q[1].type = "ERASING"
      BY <2>3, <3>1, <3>2 DEF Stops
    <3>3. CASE q[1].type = "WRITTING"
      <4>1. lck
        BY <1>2, <2>1, <2>3, <3>3, OpenIsNewest DEF LastIsOpen
      <4>2. Stops(q, lck, s) = {}
        BY <3>1, <3>3, <4>1 DEF Stops, Unlocked
      <4> QED BY <2>3, <3>3, <4>1, <4>2
    <3> QED BY <2>1, <3>2, <3>3
  <2> QED BY <2>1, <2>2, <2>3
<1> QED BY <1>1, <1>2

\* The erase of a record that has nothing in the queue.
LEMMA EraseHands ==
  ASSUME NEW s \in Sectors, NEW lck \in BOOLEAN, NEW a, NEW image, NEW v,
         NEW q, q = <<ErasingNode(s)>>
  PROVE  Handed(q, lck, a, image, s, 0, v)
<1>1. PICK n : n = ErasingNode(s)
  OBVIOUS
<1>2. n \in Nodes /\ n.type = "ERASING" /\ n.sec = s /\ n.buf = ErasedImage
  BY <1>1, ErasingNodeIs
<1>3. Len(q) = 1 /\ q[1] = n /\ \A i \in 1..Len(q) : i = 1
  BY <1>1
<1>4. NodesFor(q, s, 0, v)
  BY <1>2, <1>3 DEF NodesFor, ErasedImage
<1>5. EraseAhead(q) /\ OrderFor(q, lck, 0)
  BY <1>2, <1>3 DEF EraseAhead, OrderFor
<1> QED BY <1>4, <1>5 DEF Handed

\* Pages k+1..hi with value v, merged into the last write of the queue.
LEMMA MergeHands ==
  ASSUME NEW q \in Seq(Nodes), NEW lck \in BOOLEAN, NEW a, NEW image, NEW s \in Sectors,
         NEW k \in Nat, NEW v \in Values, Handed(q, lck, a, image, s, k, v),
         WriteMerged(q, lck, s),
         NEW lo \in Cells, NEW hi \in Cells, lo = k + 1, lo <= hi,
         NEW r, MergesInto(r, q, Newest(Stops(q, lck, s)), lo, hi, v)
  PROVE  Handed(r, lck, a, image, s, hi, v) /\ WriteMerged(r, lck, s)
<1>1. q # <<>>
  BY DEF WriteMerged, Stops, On
<1>2. /\ Len(q) = 1 \/ Len(q) = 2
      /\ Len(q) <= 2
      /\ q[1].sec = s /\ q[1].type \in {"ERASING", "WRITTING"}
      /\ Len(q) = 2 => q[2].sec = s /\ q[2].type = "WRITTING"
  BY <1>1, HandedNodes
<1>3. PICK l \in {1, 2} : l = Len(q)
  BY <1>2
<1>4. LastIsOpen(q, lck) /\ Newest(Stops(q, lck, s)) = l
  <2>1. PICK e : e = Newest(Stops(q, lck, s))
    OBVIOUS
  <2>2. e \in Stops(q, lck, s) /\ q[e].type = "WRITTING" /\ e \in 1..Len(q)
    BY <2>1, StopIs DEF WriteMerged
  <2>3. e \in Unlocked(q, lck, s)
    BY <2>2 DEF Stops
  <2>4. CASE l = 1
    <3>1. e = 1
      BY <1>3, <2>2, <2>4
    <3> QED BY <1>1, <1>3, <2>1, <2>2, <2>3, <2>4, <3>1 DEF LastIsOpen, Unlocked
  <2>5. CASE l = 2
    <3>1. LastIsOpen(q, lck)
      BY <1>1, <1>2, <1>3, <2>5 DEF LastIsOpen
    <3> QED BY <1>2, <1>3, <2>5, <3>1, OpenIsNewest
  <2> QED BY <2>4, <2>5
<1>5. PICK n : n = q[l]
  OBVIOUS
<1>6. n \in Nodes /\ n.type = "WRITTING" /\ n.sec = s /\ ~(lck /\ l = 1) /\ l \in 1..Len(q)
  BY <1>1, <1>2, <1>3, <1>4, <1>5 DEF LastIsOpen
<1>7. /\ n.hi = k /\ n.lo \in Nat /\ 1 <= n.lo /\ n.lo <= n.hi
      /\ \A c \in n.lo..n.hi : n.buf[c] = v
      /\ \A c \in Cells : c > k => n.buf[c] = Blank
  <2>1. n.lo \in Nat /\ 1 <= n.lo
    BY <1>6, CellsAssumption DEF Nodes
  <2> QED BY <1>3, <1>5, <1>6, <2>1 DEF Handed, NodesFor, OrderFor
<1>8. PICK o : o = MergedNode(n, lo, hi, v)
  OBVIOUS
<1>9. /\ o.type = "WRITTING" /\ o.sec = s /\ o.lo = n.lo /\ o.hi = hi
      /\ o.buf = Fill(n.buf, lo, hi, v)
  <2>1. /\ o.type = n.type /\ o.sec = n.sec
        /\ o.lo = MinOf(n.lo, lo) /\ o.hi = MaxOf(n.hi, hi)
        /\ o.buf = Fill(n.buf, lo, hi, v)
    BY <1>6, <1>8, MergedNodeIs
  <2>2. MinOf(n.lo, lo) = n.lo /\ MaxOf(n.hi, hi) = hi
    BY <1>7 DEF MinOf, MaxOf, Cells
  <2> QED BY <1>6, <2>1, <2>2
<1>10. /\ r \in Seq(Nodes) /\ Len(r) = l /\ r[l] = o
       /\ \A i \in 1..l : i # l => r[i] = q[i]
       /\ r # <<>>
  <2>1. r \in Seq(Nodes) /\ Len(r) = l /\ r[l] = o /\ \A i \in 1..l : i # l => r[i] = q[i]
    BY <1>3, <1>4, <1>5, <1>8 DEF MergesInto
  <2>2. r = <<>> => Len(r) = 0
    OBVIOUS
  <2> QED BY <2>1, <2>2
<1>11. /\ hi \in Nat /\ k < hi
       /\ \A c \in Cells : c > hi => o.buf[c] = Blank
       /\ \A c \in o.lo..o.hi : o.buf[c] = v
  <2>1. hi \in Nat /\ k < hi
    BY CellsAssumption DEF Cells
  <2>2. \A c \in Cells : o.buf[c] = IF c \in lo..hi THEN v ELSE n.buf[c]
    BY <1>9 DEF Fill
  <2>3. ASSUME NEW c \in Cells, c > hi PROVE o.buf[c] = Blank
    BY <1>7, <2>1, <2>2, <2>3 DEF Cells
  <2>4. ASSUME NEW c \in o.lo..o.hi PROVE o.buf[c] = v
    <3>1. c \in Cells
      BY <1>7, <1>9, <2>1, <2>4, CellsAssumption DEF Cells
    <3>2. c \in lo..hi \/ c \in n.lo..n.hi
      BY <1>7, <1>9, <2>1, <2>4
    <3> QED BY <1>7, <2>2, <3>1, <3>2
  <2> QED BY <2>1, <2>3, <2>4
<1>12. NodesFor(r, s, hi, v)
  <2> SUFFICES ASSUME NEW i \in 1..Len(r)
               PROVE  /\ r[i].sec = s
                      /\ \A c \in Cells : c > hi => r[i].buf[c] = Blank
                      /\ r[i].type = "WRITTING" =>
                           /\ r[i].lo <= r[i].hi /\ r[i].hi <= hi
                           /\ \A c \in r[i].lo..r[i].hi : r[i].buf[c] = v
    BY DEF NodesFor
  <2>1. CASE i = l
    <3>1. o.lo <= o.hi /\ o.hi <= hi
      BY <1>7, <1>9, <1>11
    <3> QED BY <1>9, <1>10, <1>11, <2>1, <3>1
  <2>2. CASE i # l
    <3>1. i \in 1..Len(q) /\ r[i] = q[i]
      BY <1>3, <1>10, <2>2
    <3>2. PICK p : p = q[i]
      OBVIOUS
    <3>3. /\ p.sec = s /\ p \in Nodes
          /\ \A c \in Cells : c > k => p.buf[c] = Blank
          /\ p.type = "WRITTING" => /\ p.lo <= p.hi /\ p.hi <= k
                                    /\ \A c \in p.lo..p.hi : p.buf[c] = v
      BY <3>1, <3>2 DEF Handed, NodesFor
    <3>4. p.hi \in Nat
      BY <3>3, CellsAssumption DEF Nodes
    <3>5. \A c \in Cells : c > hi => c > k
      BY <1>11 DEF Cells
    <3>6. p.hi <= k => p.hi <= hi
      BY <1>11, <3>4
    <3> QED BY <3>1, <3>2, <3>3, <3>5, <3>6
  <2> QED BY <2>1, <2>2
<1>13. /\ EraseAhead(r) <=> EraseAhead(q)
       /\ l = 2 => r[1] = q[1]
  <2>1. CASE l = 1
    BY <1>1, <1>5, <1>6, <1>9, <1>10, <2>1 DEF EraseAhead
  <2>2. CASE l = 2
    BY <1>1, <1>10, <2>2 DEF EraseAhead
  <2> QED BY <2>1, <2>2
<1>14. OrderFor(r, lck, hi)
  <2>1. \A i \in 1..Len(r) : i = Len(r) /\ r[i].type = "WRITTING" => r[i].hi = hi
    BY <1>9, <1>10
  <2>2. l = 2 => r[2].type = "WRITTING" /\ (r[1].type = "WRITTING" => lck)
    BY <1>3, <1>9, <1>10, <1>13 DEF Handed, OrderFor
  <2>3. EraseAhead(r) => l = 2 /\ r[2].lo = 1
    <3>1. ASSUME EraseAhead(r) PROVE Len(q) = 2 /\ q[2].lo = 1
      <4>1. k > 0 /\ EraseAhead(q)
        BY <1>7, <1>13, <3>1
      <4> QED BY <4>1 DEF Handed, OrderFor
    <3> QED BY <1>3, <1>5, <1>9, <1>10, <3>1
  <2>4. Len(r) <= 2
    BY <1>3, <1>10
  <2> QED BY <1>10, <2>1, <2>2, <2>3, <2>4 DEF OrderFor
<1>15. EraseAhead(r) \/ PagesFor(r, lck, a, image, hi, v)
  <2> SUFFICES ASSUME ~EraseAhead(q), NEW c \in Cells
               PROVE  /\ image[c] \in {Blank, v}
                      /\ c > hi => image[c] = Blank
                      /\ c <= hi => image[c] = v \/ \E i \in 1..Len(r) : c \in Ahead(r, lck, a, i)
    BY <1>13 DEF PagesFor
  <2>1. /\ image[c] \in {Blank, v}
        /\ c > k => image[c] = Blank
        /\ c <= k => image[c] = v \/ \E i \in 1..Len(q) : c \in Ahead(q, lck, a, i)
    BY DEF Handed, PagesFor
  <2>2. c > hi => c > k
    BY <1>11 DEF Cells
  <2>3. Ahead(r, lck, a, l) = n.lo..hi /\ Ahead(q, lck, a, l) = n.lo..k
    BY <1>5, <1>6, <1>7, <1>9, <1>10 DEF Ahead
  <2>4. CASE c > k /\ c <= hi
    <3>1. c \in n.lo..hi
      BY <1>7, <1>11, <2>4 DEF Cells
    <3> QED BY <1>3, <1>6, <1>10, <2>1, <2>2, <2>3, <2>4, <3>1
  <2>5. CASE c <= k
    <3>1. ASSUME NEW i \in 1..Len(q), c \in Ahead(q, lck, a, i)
          PROVE  i \in 1..Len(r) /\ c \in Ahead(r, lck, a, i)
      <4>1. CASE i = l
        <5>1. c \in n.lo..hi
          BY <1>7, <1>11, <2>3, <3>1, <4>1
        <5> QED BY <1>3, <1>6, <1>10, <2>3, <4>1, <5>1
      <4>2. CASE i # l
        <5>1. i \in 1..Len(r) /\ r[i] = q[i]
          BY <1>3, <1>10, <4>2
        <5> QED BY <3>1, <5>1 DEF Ahead
      <4> QED BY <4>1, <4>2
    <3> QED BY <1>7, <2>1, <2>2, <2>5, <3>1
  <2>6. c <= k \/ (c > k /\ c <= hi) \/ c > hi
    BY <1>11 DEF Cells
  <2>7. c > hi => ~(c <= hi)
    BY <1>11 DEF Cells
  <2> QED BY <2>1, <2>2, <2>4, <2>5, <2>6, <2>7
<1>16. LastIsOpen(r, lck)
  BY <1>6, <1>9, <1>10 DEF LastIsOpen
<1>17. WriteMerged(r, lck, s)
  BY <1>9, <1>10, <1>16, OpenIsNewest
<1> QED BY <1>12, <1>14, <1>15, <1>17 DEF Handed

\* What a new write is filled with first, behind the nodes of q.
Base(q, lck, s, image) == IF Stops(q, lck, s) = {} THEN image ELSE ErasedImage

\* n is a new node for pages lo..hi with value v.
IsNewWrite(n, q, lck, s, image, lo, hi, v) ==
  /\ n \in Nodes /\ n.type = "WRITTING" /\ n.sec = s /\ n.lo = lo /\ n.hi = hi
  /\ n.buf = Fill(Base(q, lck, s, image), lo, hi, v)

\* Pages k+1..hi with value v, in a node of their own.
LEMMA AppendHands ==
  ASSUME NEW q \in Seq(Nodes), NEW lck \in BOOLEAN, lck => q # <<>>, NEW a, NEW image,
         NEW s \in Sectors, NEW k \in Nat, NEW v \in Values, Handed(q, lck, a, image, s, k, v),
         ~WriteMerged(q, lck, s),
         NEW lo \in Cells, NEW hi \in Cells, lo = k + 1, lo <= hi,
         NEW n, IsNewWrite(n, q, lck, s, image, lo, hi, v),
         NEW r, r = Append(q, n)
  PROVE  Handed(r, lck, a, image, s, hi, v) /\ WriteMerged(r, lck, s)
<1>1. \/ q = <<>> /\ Stops(q, lck, s) = {}
      \/ Len(q) = 1 /\ q[1].type = "ERASING" /\ Stops(q, lck, s) # {}
      \/ Len(q) = 1 /\ q[1].type = "WRITTING" /\ lck /\ Stops(q, lck, s) = {}
  BY NotMerged
<1>2. /\ n \in Nodes /\ n.type = "WRITTING" /\ n.sec = s /\ n.lo = lo /\ n.hi = hi
      /\ n.buf = Fill(Base(q, lck, s, image), lo, hi, v)
  BY DEF IsNewWrite
<1>3. PICK l \in {0, 1} : l = Len(q)
  <2>1. q = <<>> => Len(q) = 0
    OBVIOUS
  <2> QED BY <1>1, <2>1
<1>4. /\ r \in Seq(Nodes) /\ Len(r) = l + 1 /\ r[l + 1] = n
      /\ \A i \in 1..l : i \in 1..Len(q) /\ r[i] = q[i]
      /\ r # <<>>
  <2>1. /\ r \in Seq(Nodes) /\ Len(r) = l + 1 /\ r[l + 1] = n
        /\ \A i \in 1..l : i \in 1..Len(q) /\ r[i] = q[i]
    BY <1>2, <1>3
  <2>2. r = <<>> => Len(r) = 0
    OBVIOUS
  <2> QED BY <2>1, <2>2
<1>5. /\ hi \in Nat /\ k < hi /\ lo \in Nat /\ 1 <= lo
      /\ \A c \in Cells : c > hi => c > k
  BY CellsAssumption DEF Cells
<1>6. \A c \in Cells : c > k => Base(q, lck, s, image)[c] = Blank
  <2>1. CASE Stops(q, lck, s) # {}
    BY <2>1 DEF Base, ErasedImage
  <2>2. CASE Stops(q, lck, s) = {}
    <3>1. ~EraseAhead(q)
      BY <1>1, <2>2 DEF EraseAhead
    <3> QED BY <2>2, <3>1 DEF Base, Handed, PagesFor
  <2> QED BY <2>1, <2>2
<1>7. /\ \A c \in Cells : c > hi => n.buf[c] = Blank
      /\ \A c \in Cells : c \in lo..hi => n.buf[c] = v
  <2>1. \A c \in Cells : n.buf[c] = IF c \in lo..hi THEN v ELSE Base(q, lck, s, image)[c]
    BY <1>2 DEF Fill
  <2>2. \A c \in Cells : c > hi => c \notin lo..hi
    BY <1>5 DEF Cells
  <2> QED BY <1>5, <1>6, <2>1, <2>2
<1>8. \A c \in lo..hi : c \in Cells
  BY CellsAssumption DEF Cells
<1>9. NodesFor(r, s, hi, v)
  <2> SUFFICES ASSUME NEW i \in 1..Len(r)
               PROVE  /\ r[i].sec = s
                      /\ \A c \in Cells : c > hi => r[i].buf[c] = Blank
                      /\ r[i].type = "WRITTING" =>
                           /\ r[i].lo <= r[i].hi /\ r[i].hi <= hi
                           /\ \A c \in r[i].lo..r[i].hi : r[i].buf[c] = v
    BY DEF NodesFor
  <2>1. CASE i = l + 1
    BY <1>2, <1>4, <1>5, <1>7, <1>8, <2>1
  <2>2. CASE i # l + 1
    <3>1. i \in 1..l
      BY <1>3, <1>4, <2>2
    <3>2. PICK p : p = q[i]
      OBVIOUS
    <3>3. /\ p \in Nodes /\ p.sec = s /\ r[i] = p
          /\ \A c \in Cells : c > k => p.buf[c] = Blank
          /\ p.type = "WRITTING" => /\ p.lo <= p.hi /\ p.hi <= k
                                    /\ \A c \in p.lo..p.hi : p.buf[c] = v
      BY <1>4, <3>1, <3>2 DEF Handed, NodesFor
    <3>4. p.hi \in Nat
      BY <3>3, CellsAssumption DEF Nodes
    <3>5. p.hi <= k => p.hi <= hi
      BY <1>5, <3>4
    <3> QED BY <1>5, <3>3, <3>5
  <2> QED BY <2>1, <2>2
<1>10. CASE q = <<>> /\ Stops(q, lck, s) = {}
  <2>1. l = 0 /\ ~lck
    BY <1>3, <1>10
  <2>2. Len(r) = 1 /\ r[1] = n
    BY <1>4, <2>1
  <2>3. OrderFor(r, lck, hi) /\ ~EraseAhead(r)
    BY <1>2, <1>4, <2>2, OneHanded
  <2>4. PagesFor(r, lck, a, image, hi, v)
    <3>1. PagesFor(q, lck, a, image, k, v)
      BY <1>10 DEF Handed, EraseAhead
    <3>2. \A c \in Cells : c <= k => image[c] = v
      BY <1>3, <2>1, <3>1 DEF PagesFor
    <3>3. Ahead(r, lck, a, 1) = lo..hi /\ 1 \in 1..Len(r)
      BY <1>2, <2>1, <2>2 DEF Ahead
    <3>4. \A c \in Cells : c <= hi => c <= k \/ c \in lo..hi
      BY <1>5 DEF Cells
    <3> QED BY <1>5, <3>1, <3>2, <3>3, <3>4 DEF PagesFor
  <2>5. LastIsOpen(r, lck)
    BY <1>2, <1>4, <2>1, <2>2 DEF LastIsOpen
  <2>6. WriteMerged(r, lck, s)
    BY <1>2, <1>4, <2>2, <2>5, OpenIsNewest
  <2> QED BY <1>9, <2>3, <2>4, <2>6 DEF Handed
<1>11. CASE Len(q) = 1
  <2>1. l = 1 /\ 1 \in 1..Len(q) /\ q # <<>>
    <3>1. q = <<>> => Len(q) = 0
      OBVIOUS
    <3> QED BY <1>3, <1>11, <3>1
  <2>2. Len(r) = 2 /\ r[2] = n /\ r[1] = q[1] /\ 1 \in 1..Len(r) /\ 2 \in 1..Len(r)
    BY <1>4, <2>1
  <2>3. EraseAhead(r) <=> EraseAhead(q)
    BY <1>4, <2>1, <2>2 DEF EraseAhead
  <2>4. EraseAhead(q) => k = 0
    BY <1>11 DEF Handed, OrderFor
  <2>5. q[1].type = "WRITTING" => lck
    BY <1>1, <1>11, <2>1
  <2>6. OrderFor(r, lck, hi)
    <3>1. \A i \in 1..Len(r) : i = Len(r) /\ r[i].type = "WRITTING" => r[i].hi = hi
      BY <1>2, <2>2
    <3>2. Len(r) <= 2
      BY <2>2
    <3> QED BY <1>2, <2>2, <2>3, <2>4, <2>5, <3>1, <3>2 DEF OrderFor
  <2>7. EraseAhead(r) \/ PagesFor(r, lck, a, image, hi, v)
    <3> SUFFICES ASSUME ~EraseAhead(q) PROVE PagesFor(r, lck, a, image, hi, v)
      BY <2>3
    <3>1. PagesFor(q, lck, a, image, k, v)
      BY DEF Handed
    <3>2. Ahead(r, lck, a, 1) = Ahead(q, lck, a, 1) /\ Ahead(r, lck, a, 2) = lo..hi
      BY <1>2, <2>2 DEF Ahead
    <3>3. \A i \in 1..Len(q) : i = 1
      BY <1>11
    <3>4. \A c \in Cells : c <= hi => c <= k \/ c \in lo..hi
      BY <1>5 DEF Cells
    <3>5. \A c \in Cells : c <= k => image[c] = v \/ c \in Ahead(q, lck, a, 1)
      BY <3>1, <3>3 DEF PagesFor
    <3>6. \A c \in Cells : image[c] \in {Blank, v} /\ (c > hi => image[c] = Blank)
      BY <1>5, <3>1 DEF PagesFor
    <3> QED BY <2>2, <3>2, <3>4, <3>5, <3>6 DEF PagesFor
  <2>8. LastIsOpen(r, lck)
    BY <1>2, <1>4, <2>2 DEF LastIsOpen
  <2>9. WriteMerged(r, lck, s)
    BY <1>2, <1>4, <2>2, <2>8, OpenIsNewest
  <2> QED BY <1>9, <2>6, <2>7, <2>9 DEF Handed
<1> QED BY <1>1, <1>10, <1>11

\* What a reader sees behind the pages that have been handed over.
LEMMA HandedSeen ==
  ASSUME NEW q \in Seq(Nodes), NEW lck \in BOOLEAN, NEW a, NEW image, NEW s, NEW k, NEW v,
         Handed(q, lck, a, image, s, k, v)
  PROVE  \A c \in Cells : c > k => Seen(q, image, s)[c] = Blank
<1>1. CASE On(q, s) = {}
  <2>1. q = <<>>
    <3> SUFFICES ASSUME q # <<>> PROVE FALSE
      OBVIOUS
    <3>1. q[1].sec = s /\ (Len(q) = 1 \/ Len(q) = 2)
      BY HandedNodes
    <3> QED BY <1>1, <3>1 DEF On
  <2>2. PagesFor(q, lck, a, image, k, v)
    BY <2>1 DEF Handed, EraseAhead
  <2> QED BY <1>1, <2>2 DEF Seen, PagesFor
<1>2. CASE On(q, s) # {}
  <2>1. PICK i \in 1..Len(q) : IsTop(q, s, i)
    BY <1>2, TopExists
  <2>2. Seen(q, image, s) = q[i].buf
    BY <2>1, SeenTop
  <2> QED BY <2>1, <2>2 DEF Handed, NodesFor
<1> QED BY <1>1, <1>2

\* Nothing has been handed over yet: it does not matter which version it will be.
LEMMA NothingHanded ==
  ASSUME NEW q, NEW lck, NEW a, NEW image, NEW s, NEW v, NEW w,
         q \in Seq(Nodes), Handed(q, lck, a, image, s, 0, v)
  PROVE  Handed(q, lck, a, image, s, 0, w)
<1>1. NodesFor(q, s, 0, w)
  <2> SUFFICES ASSUME NEW i \in 1..Len(q), q[i].type = "WRITTING" PROVE FALSE
    BY DEF Handed, NodesFor
  <2>1. q[i].lo <= q[i].hi /\ q[i].hi <= 0 /\ q[i] \in Nodes
    BY DEF Handed, NodesFor
  <2>2. PICK n : n = q[i]
    OBVIOUS
  <2>3. n.lo \in Nat /\ n.lo >= 1 /\ n.hi \in Nat /\ n.lo <= n.hi /\ n.hi <= 0
    BY <2>1, <2>2, CellsAssumption DEF Nodes
  <2> QED BY <2>3
<1>2. EraseAhead(q) \/ PagesFor(q, lck, a, image, 0, w)
  <2>1. \A c \in Cells : c > 0 /\ ~(c <= 0)
    BY DEF Cells
  <2> QED BY <2>1 DEF Handed, PagesFor
<1> QED BY <1>1, <1>2 DEF Handed

\* Where the driver is matters for the node that it is performing only.
LEMMA HandedUnlocked ==
  ASSUME NEW q, NEW a, NEW b, NEW image, NEW s, NEW k, NEW v,
         Handed(q, FALSE, a, image, s, k, v)
  PROVE  Handed(q, FALSE, b, image, s, k, v)
BY DEF Handed, PagesFor, Ahead

\* A save that is over: every page of the record is in flash.
LEMMA AllHanded ==
  ASSUME NEW lck, NEW a, NEW image \in Images, NEW s, NEW v,
         Handed(<<>>, lck, a, image, s, NumCells, v)
  PROVE  image = Image(v)
<1>1. PagesFor(<<>>, lck, a, image, NumCells, v)
  BY DEF Handed, EraseAhead
<1>2. Len(<<>>) = 0 /\ 1..0 = {}
  OBVIOUS
<1>3. \A c \in Cells : c <= NumCells
  BY CellsAssumption DEF Cells
<1>4. \A c \in Cells : image[c] = v
  BY <1>1, <1>2, <1>3 DEF PagesFor
<1> QED BY <1>4 DEF Image, Images

---------------------------------------------------------------------------
(* One flush of the queue.                                                  *)

LEMMA NvModIs ==
  /\ NvMod \in Mods /\ Main \in Sectors /\ Bak \in Sectors /\ Main # Bak
  /\ Owner[Main] = NvMod /\ Owner[Bak] = NvMod
BY RecordAssumption, ModAssumption DEF NvMod

\* Module m is flushed.
Flushes(m) == Registered(m) /\ ~OtherSuspended(m) /\ Opera_flush(m, TRUE)

LEMMA FlushCases ==
  ASSUME IInv, Flush
  PROVE  \/ UNCHANGED <<halVars, state, queue, cur>>
         \/ \E m \in Mods : Flushes(m)
<1>1. CASE UNCHANGED <<halVars, apiVars, asserted>>
  BY <1>1 DEF apiVars
<1>2. ASSUME NEW m \in Mods, FlushStep(m)
      PROVE  UNCHANGED <<halVars, state, queue, cur>> \/ Flushes(m)
  <2>1. Registered(m) /\ ~OtherSuspended(m)
    BY <1>2 DEF FlushStep, IsCurMod, Pending, OtherSuspended, IInv, CurIsListed
  <2> QED BY <1>2, <2>1 DEF FlushStep, Flushes
<1> QED BY <1>1, <1>2 DEF Flush

\* Its oldest operation n is performed to its end ...
Ends(m, q, n) ==
  /\ Completed(n)
  /\ queue' = [queue EXCEPT ![m] = Tail(q)]
  /\ cur' = [cur EXCEPT ![m] = FALSE]
  /\ state' = [state EXCEPT ![m] = "IDLE"]

\* ... or is cut short.
Stopped(m, n) ==
  /\ Suspended(n)
  /\ UNCHANGED queue
  /\ cur' = [cur EXCEPT ![m] = TRUE]
  /\ state' = [state EXCEPT ![m] = SuspendedState(n)]

LEMMA FlushEnds ==
  ASSUME IInv, NEW m \in Mods, Flushes(m), NEW q, q = queue[m], NEW n, n = q[1]
  PROVE  /\ q \in Seq(Nodes) /\ q # <<>> /\ n \in Nodes
         /\ Ends(m, q, n) \/ Stopped(m, n)
<1>1. /\ q \in Seq(Nodes) /\ q # <<>> /\ n \in Nodes /\ n = Head(q)
      /\ \/ Completed(n) /\ queue' = [queue EXCEPT ![m] = Tail(q)]
         \/ Suspended(n) /\ UNCHANGED queue
  <2>1. Registered(m) /\ ~OtherSuspended(m) /\ Opera_flush(m, TRUE)
    BY DEF Flushes
  <2>2. /\ q \in Seq(Nodes) /\ q # <<>> /\ n \in Nodes
        /\ \/ Completed(n) /\ queue' = [queue EXCEPT ![m] = Tail(q)]
           \/ Suspended(n) /\ UNCHANGED queue
    BY <2>1, FlushIs
  <2> QED BY <2>2
<1>2. \/ /\ hal' = NotSuspended
         /\ state' = [state EXCEPT ![m] = "IDLE"]
         /\ cur' = [cur EXCEPT ![m] = FALSE]
      \/ /\ Keeps(hal', n)
         /\ state' = [state EXCEPT ![m] = SuspendedState(n)]
         /\ cur' = [cur EXCEPT ![m] = TRUE]
         /\ UNCHANGED queue
  BY <1>1, OperaFlushSteps DEF IInv, Flushes
<1>3. CASE Completed(n) /\ queue' = [queue EXCEPT ![m] = Tail(q)]
  <2>1. hal'.state = "NONE"
    BY <1>3 DEF Completed
  <2>2. ~Keeps(hal', n)
    BY <2>1 DEF Keeps
  <2> QED BY <1>1, <1>2, <1>3, <2>2 DEF Ends
<1>4. CASE Suspended(n) /\ UNCHANGED queue
  <2>1. hal'.state # "NONE"
    BY <1>4 DEF Suspended, SuspendedAt
  <2>2. hal' # NotSuspended
    BY <2>1 DEF NotSuspended
  <2> QED BY <1>1, <1>2, <1>4, <2>2 DEF Stopped
<1> QED BY <1>1, <1>3, <1>4

\* The records' module, while another one is flushed.
LEMMA NvNotLocked ==
  ASSUME IInv, LockedIsSuspended, NEW m \in Mods, m # NvMod, Flushes(m)
  PROVE  ~cur[NvMod]
<1> SUFFICES ASSUME cur[NvMod] PROVE FALSE
  OBVIOUS
<1>1. state[NvMod] \in {"WRITTING_SUSPEND", "ERASE_SUSPEND"}
  BY DEF LockedIsSuspended, SuspendedState
<1>2. cur_mod = NvMod
  BY <1>1, NvModIs DEF IInv, SuspendedIsCurrent
<1> QED BY <1>1, <1>2, NvModIs, ModAssumption DEF Flushes, OtherSuspended

\* What the driver does with its oldest node.
LEMMA NvFlushEnds ==
  ASSUME IInv, LockedIsSuspended, Flushes(NvMod),
         NEW q, q = queue[NvMod], NEW n, n = q[1], NEW lck, lck = cur[NvMod]
  PROVE  /\ q \in Seq(Nodes) /\ q # <<>> /\ n \in Nodes /\ lck \in BOOLEAN
         /\ lck /\ n.type = "WRITTING" => hal.next \in n.lo..n.hi
         /\ From(n) = StartsAt(n, lck, hal.next)
         /\ Ends(NvMod, q, n) \/ Stopped(NvMod, n)
<1>1. /\ q \in Seq(Nodes) /\ q # <<>> /\ n \in Nodes /\ n = Head(q) /\ lck \in BOOLEAN
      /\ Ends(NvMod, q, n) \/ Stopped(NvMod, n)
  <2>1. q \in Seq(Nodes) /\ q # <<>> /\ n \in Nodes /\ (Ends(NvMod, q, n) \/ Stopped(NvMod, n))
    BY NvModIs, FlushEnds
  <2> QED BY <2>1, NvModIs, ListOf
<1>2. \/ state[NvMod] = "IDLE" /\ hal.state = "NONE"
      \/ state[NvMod] = SuspendedState(n) /\ Keeps(hal, n)
  BY <1>1, NvModIs, ReadyToFlush DEF IInv, Flushes
<1>3. CASE state[NvMod] = "IDLE" /\ hal.state = "NONE"
  <2>1. ~lck
    BY <1>3 DEF LockedIsSuspended, SuspendedState
  <2> QED BY <1>1, <1>3, <2>1 DEF From, StartsAt
<1>4. CASE state[NvMod] = SuspendedState(n) /\ Keeps(hal, n)
  <2>1. lck
    BY <1>4, NvModIs DEF SuspendedState, IInv, SuspendedIsCurrent
  <2>2. hal.state # "NONE"
    BY <1>4 DEF Keeps
  <2> QED BY <1>1, <1>4, <2>1, <2>2 DEF From, StartsAt, Keeps
<1> QED BY <1>2, <1>3, <1>4

\* What holds of the queue whatever the save is: it is the records' module that has
\* nodes for the records, and the one it has locked is suspended.
QueueKept == IInv /\ sync = NoSync /\ Homed /\ LockedIsSuspended

LEMMA FlushKeepsQueue ==
  ASSUME QueueKept, FlushQueue
  PROVE  QueueKept' /\ (Registered(NvMod) => Registered(NvMod)') /\ UNCHANGED asserted
<1>1. IInv /\ sync = NoSync /\ sync' = NoSync /\ ~asserted
  BY DEF QueueKept, FlushQueue, IInv, NoAssert
<1>2. norflash_api_flush
  BY <1>1 DEF FlushQueue, norflash_api_flush, Unmasked
<1>3. IInv'
  BY <1>1, <1>2, NextIInv DEF Next
<1>4. UNCHANGED asserted
  BY <1>1, <1>3 DEF IInv, NoAssert, TypeOK
<1>5. CASE UNCHANGED <<halVars, state, queue, cur>>
  BY <1>1, <1>3, <1>4, <1>5 DEF QueueKept, Homed, LockedIsSuspended, Registered
<1>6. ASSUME NEW m \in Mods, Flushes(m)
      PROVE  Homed' /\ LockedIsSuspended' /\ (Registered(NvMod) => Registered(NvMod)')
  <2>1. PICK q : q = queue[m]
    OBVIOUS
  <2>2. PICK n : n = q[1]
    OBVIOUS
  <2>3. /\ q \in Seq(Nodes) /\ q # <<>> /\ n \in Nodes
        /\ Ends(m, q, n) \/ Stopped(m, n)
    BY <1>1, <1>6, <2>1, <2>2, FlushEnds
  <2>4. /\ queue \in [Mods -> Seq(Nodes)] /\ cur \in [Mods -> BOOLEAN]
        /\ state \in [Mods -> ModStates]
    BY <1>1 DEF IInv, TypeOK, ApiTypeOK
  <2>5. Homed'
    <3>1. CASE Stopped(m, n)
      BY <3>1 DEF Stopped, Homed, QueueKept
    <3>2. CASE Ends(m, q, n)
      <4>1. PICK r : r = Tail(q)
        OBVIOUS
      <4>2. IsWithout(r, q, 1)
        BY <2>3, <4>1, TailIs
      <4>3. queue' = [queue EXCEPT ![m] = r]
        BY <3>2, <4>1 DEF Ends
      <4> SUFFICES ASSUME NEW o \in Mods \ {NvMod}, NEW i \in 1..Len(queue'[o])
                   PROVE  Owner[queue'[o][i].sec] = o
        BY DEF Homed
      <4>4. CASE o = m
        <5>1. queue'[o] = r
          BY <2>4, <4>3, <4>4
        <5>2. i \in 1..Len(r) /\ Len(r) = Len(q) - 1
          BY <4>2, <5>1 DEF IsWithout
        <5>3. i + 1 \in 1..Len(q) /\ r[i] = q[i + 1]
          BY <2>3, <4>2, <5>2 DEF IsWithout, Back
        <5>4. \A j \in 1..Len(q) : Owner[q[j].sec] = o
          BY <2>1, <4>4 DEF QueueKept, Homed
        <5> QED BY <5>1, <5>3, <5>4
      <4>5. CASE o # m
        BY <2>4, <4>3, <4>5 DEF QueueKept, Homed
      <4> QED BY <4>4, <4>5
    <3> QED BY <2>3, <3>1, <3>2
  <2>6. LockedIsSuspended'
    <3>1. CASE Ends(m, q, n) /\ m = NvMod
      BY <2>4, <3>1 DEF Ends, LockedIsSuspended
    <3>2. CASE Stopped(m, n) /\ m = NvMod
      BY <2>1, <2>2, <2>4, <3>2 DEF Stopped, LockedIsSuspended
    <3>3. CASE m # NvMod
      <4>1. ~cur[NvMod]
        BY <1>1, <1>6, <3>3, NvNotLocked DEF QueueKept
      <4>2. ~cur'[NvMod]
        BY <2>3, <2>4, <3>3, <4>1, NvModIs DEF Ends, Stopped
      <4> QED BY <4>2 DEF LockedIsSuspended
    <3> QED BY <2>3, <3>1, <3>2, <3>3
  <2>7. Registered(NvMod) => Registered(NvMod)'
    BY <2>3, <2>4, NvModIs DEF Registered, Ends, Stopped, SuspendedState
  <2> QED BY <2>5, <2>6, <2>7
<1> QED BY <1>1, <1>3, <1>4, <1>5, <1>6, FlushCases DEF QueueKept, FlushQueue

\* What a step leaves of the records, of which rec is being saved.
SavesOn(rec, k, v) ==
  /\ Handed(queue'[NvMod], cur'[NvMod], hal'.next, flash'[rec], rec, k, v)
  /\ flash'[rec] = flash[rec] \/ OfVersion(flash'[rec], v)

OthersStay(rec) == \A o \in {Main, Bak} : o # rec => flash'[o] = flash[o]

\* A flush performs what has been handed to the queue.
LEMMA FlushHands ==
  ASSUME QueueKept, FlushQueue, NEW rec \in {Main, Bak}, NEW k \in Nat, NEW v \in Values,
         NEW q, q = queue[NvMod], NEW lck, lck = cur[NvMod], NEW a, a = hal.next,
         NEW image, image = flash[rec], Handed(q, lck, a, image, rec, k, v)
  PROVE  SavesOn(rec, k, v) /\ OthersStay(rec)
<1>1. IInv /\ LockedIsSuspended /\ Flush
  BY DEF QueueKept, FlushQueue
<1>2. /\ queue \in [Mods -> Seq(Nodes)] /\ cur \in [Mods -> BOOLEAN]
      /\ flash \in [Sectors -> Images] /\ rec \in Sectors /\ image \in Images
      /\ q \in Seq(Nodes) /\ lck \in BOOLEAN
  BY <1>1, NvModIs DEF IInv, TypeOK, ApiTypeOK, HalTypeOK
<1>3. CASE UNCHANGED <<halVars, state, queue, cur>>
  BY <1>3 DEF SavesOn, OthersStay, halVars
<1>4. ASSUME NEW m \in Mods, Flushes(m), m # NvMod
      PROVE  SavesOn(rec, k, v) /\ OthersStay(rec)
  <2>1. PICK p : p = queue[m]
    OBVIOUS
  <2>2. PICK n : n = p[1]
    OBVIOUS
  <2>3. /\ p \in Seq(Nodes) /\ p # <<>> /\ n \in Nodes
        /\ Ends(m, p, n) \/ Stopped(m, n)
    BY <1>1, <1>4, <2>1, <2>2, FlushEnds
  <2>4. ~cur[NvMod]
    BY <1>1, <1>4, NvNotLocked
  <2>5. n.sec \notin {Main, Bak}
    <3>1. Len(p) \in Nat /\ 1 \in 1..Len(p)
      BY <2>3
    <3>2. Owner[n.sec] = m
      BY <1>4, <2>1, <2>2, <3>1 DEF QueueKept, Homed
    <3> QED BY <1>4, <3>2, NvModIs
  <2>6. \A s \in {Main, Bak} : flash'[s] = flash[s]
    BY <1>2, <2>3, <2>5, NvModIs DEF Ends, Stopped, Completed, Suspended, SuspendedAt
  <2>7. queue'[NvMod] = q /\ cur'[NvMod] = FALSE /\ lck = FALSE
    BY <1>2, <1>4, <2>3, <2>4, NvModIs DEF Ends, Stopped
  <2>8. flash'[rec] = image
    BY <2>6
  <2>9. PICK b : b = hal'.next
    OBVIOUS
  <2>10. Handed(q, FALSE, b, image, rec, k, v)
    <3>1. Handed(q, FALSE, a, image, rec, k, v)
      BY <2>7
    <3> QED BY <3>1, HandedUnlocked
  <2> QED BY <2>6, <2>7, <2>8, <2>9, <2>10 DEF SavesOn, OthersStay
<1>5. CASE Flushes(NvMod)
  <2>1. PICK n : n = q[1]
    OBVIOUS
  <2>2. /\ q # <<>> /\ n \in Nodes
        /\ lck /\ n.type = "WRITTING" => a \in n.lo..n.hi
        /\ From(n) = StartsAt(n, lck, a)
        /\ Ends(NvMod, q, n) \/ Stopped(NvMod, n)
    BY <1>1, <1>5, <2>1, NvFlushEnds
  <2>3. n.sec = rec /\ n.type \in {"ERASING", "WRITTING"}
    BY <1>2, <2>1, <2>2, HandedNodes, ZenonT(30) DEF Nodes
  <2>4. PICK done : done = flash'[rec]
    OBVIOUS
  <2>5. PICK b : b = hal'.next
    OBVIOUS
  <2>6. OthersStay(rec)
    <3>1. \A o \in Sectors : o # rec => flash'[o] = flash[o]
      BY <1>2, <2>2, <2>3 DEF Ends, Stopped, Completed, Suspended, SuspendedAt
    <3> QED BY <3>1, NvModIs DEF OthersStay
  <2>7. CASE Ends(NvMod, q, n)
    <3>1. PICK r : r = Tail(q)
      OBVIOUS
    <3>2. queue'[NvMod] = r /\ cur'[NvMod] = FALSE
      BY <1>2, <2>7, <3>1, NvModIs DEF Ends
    <3>3. done = IF n.type = "ERASING" THEN ErasedImage
                 ELSE Program(image, n.buf, From(n), n.hi)
      BY <1>2, <2>3, <2>4, <2>7 DEF Ends, Completed
    <3>4. CASE n.type = "ERASING"
      <4>1. done = ErasedImage
        BY <3>3, <3>4
      <4>2. Handed(r, FALSE, b, ErasedImage, rec, k, v)
        BY <1>2, <2>1, <2>2, <3>1, <3>4, EraseFinished
      <4>3. OfVersion(ErasedImage, v)
        BY DEF OfVersion, ErasedImage
      <4> QED BY <2>4, <2>5, <2>6, <3>2, <4>1, <4>2, <4>3 DEF SavesOn
    <3>5. CASE n.type = "WRITTING"
      <4>1. Finishes(q, lck, a, image, done)
        BY <2>1, <2>2, <3>3, <3>5 DEF Finishes
      <4>2. q[1].type = "WRITTING" /\ (lck => a \in q[1].lo..q[1].hi)
        BY <2>1, <2>2, <3>5
      <4>3. Handed(r, FALSE, b, done, rec, k, v) /\ OfVersion(done, v)
        BY <1>2, <2>2, <3>1, <4>1, <4>2, WriteFinished
      <4> QED BY <2>4, <2>5, <2>6, <3>2, <4>3 DEF SavesOn
    <3> QED BY <2>3, <3>4, <3>5
  <2>8. CASE Stopped(NvMod, n)
    <3>1. queue'[NvMod] = q /\ cur'[NvMod] = TRUE
      BY <1>2, <2>8, NvModIs DEF Stopped
    <3>2. CutShort(q, lck, a, image, b, done)
      <4>1. CASE n.type = "ERASING"
        <5>1. flash' = [flash EXCEPT ![rec] = TornImage]
          BY <2>3, <2>8, <4>1 DEF Stopped, Suspended
        <5> QED BY <1>2, <2>1, <2>4, <4>1, <5>1 DEF CutShort
      <4>2. CASE n.type = "WRITTING"
        <5>1. PICK c : SuspendedAt(n, c)
          BY <2>8, <4>2 DEF Stopped, Suspended
        <5>2. /\ c = b /\ b \in From(n)..n.hi
              /\ flash' = [flash EXCEPT ![rec] = Program(image, n.buf, From(n), b - 1)]
          BY <2>3, <2>5, <5>1 DEF SuspendedAt
        <5>3. done = Program(image, n.buf, From(n), b - 1)
          BY <1>2, <2>4, <5>2
        <5> QED BY <2>1, <2>2, <4>2, <5>2, <5>3 DEF CutShort
      <4> QED BY <2>3, <4>1, <4>2
    <3>3. lck /\ q[1].type = "WRITTING" => a \in q[1].lo..q[1].hi
      BY <2>1, <2>2
    <3>4. Handed(q, TRUE, b, done, rec, k, v) /\ OfVersion(done, v)
      BY <1>2, <2>2, <3>2, <3>3, CutShortHanded
    <3> QED BY <2>4, <2>5, <2>6, <3>1, <3>4 DEF SavesOn
  <2> QED BY <2>2, <2>7, <2>8
<1> QED BY <1>1, <1>3, <1>4, <1>5, FlushCases

\* With nothing in the queue of the records' module, nothing of the records changes.
LEMMA FlushIdle ==
  ASSUME QueueKept, FlushQueue, queue[NvMod] = <<>>
  PROVE  queue'[NvMod] = <<>> /\ \A s \in {Main, Bak} : flash'[s] = flash[s]
<1>1. IInv /\ Flush
  BY DEF QueueKept, FlushQueue
<1>2. queue \in [Mods -> Seq(Nodes)] /\ flash \in [Sectors -> Images]
  BY <1>1 DEF IInv, TypeOK, ApiTypeOK, HalTypeOK
<1>3. CASE UNCHANGED <<halVars, state, queue, cur>>
  BY <1>3 DEF halVars
<1>4. ASSUME NEW m \in Mods, Flushes(m)
      PROVE  queue'[NvMod] = <<>> /\ \A s \in {Main, Bak} : flash'[s] = flash[s]
  <2>1. PICK p : p = queue[m]
    OBVIOUS
  <2>2. PICK n : n = p[1]
    OBVIOUS
  <2>3. /\ p \in Seq(Nodes) /\ p # <<>> /\ n \in Nodes
        /\ Ends(m, p, n) \/ Stopped(m, n)
    BY <1>1, <1>4, <2>1, <2>2, FlushEnds
  <2>4. m # NvMod
    BY <2>1, <2>3
  <2>5. n.sec \notin {Main, Bak}
    <3>1. Len(p) \in Nat /\ 1 \in 1..Len(p)
      BY <2>3
    <3>2. Owner[n.sec] = m
      BY <2>1, <2>2, <2>4, <3>1 DEF QueueKept, Homed
    <3> QED BY <2>4, <3>2, NvModIs
  <2>6. \A s \in {Main, Bak} : flash'[s] = flash[s]
    BY <1>2, <2>3, <2>5, NvModIs DEF Ends, Stopped, Completed, Suspended, SuspendedAt
  <2>7. queue'[NvMod] = queue[NvMod]
    BY <1>2, <2>3, <2>4, NvModIs DEF Ends, Stopped
  <2> QED BY <2>6, <2>7
<1> QED BY <1>1, <1>3, <1>4, FlushCases

---------------------------------------------------------------------------
(* The calls of the records, and those of other modules.                    *)

\* A call that changes the list of one module, which keeps the node being performed.
LEMMA NvCallKeeps ==
  ASSUME QueueKept, IInv', UNCHANGED <<sync, state, cur, asserted>>,
         NEW r, queue' = [queue EXCEPT ![NvMod] = r],
         cur[NvMod] => r[1].type = queue[NvMod][1].type
  PROVE  QueueKept' /\ (Registered(NvMod) => Registered(NvMod)') /\ queue'[NvMod] = r
<1>1. queue \in [Mods -> Seq(Nodes)]
  BY DEF QueueKept, IInv, TypeOK, ApiTypeOK
<1>2. queue'[NvMod] = r /\ \A m \in Mods \ {NvMod} : queue'[m] = queue[m]
  BY <1>1, NvModIs
<1>3. Homed'
  BY <1>2 DEF QueueKept, Homed
<1>4. LockedIsSuspended'
  BY <1>2 DEF QueueKept, LockedIsSuspended, SuspendedState
<1> QED BY <1>2, <1>3, <1>4 DEF QueueKept, Registered

\* The erase of a record: the records' module has nothing in the queue.
LEMMA NvErases ==
  ASSUME QueueKept, Registered(NvMod), queue[NvMod] = <<>>, NEW s \in {Main, Bak},
         QueueErase(s)
  PROVE  /\ norflash_api_erase(s)
         /\ QueueKept' /\ Registered(NvMod)' /\ UNCHANGED <<halVars, cur, asserted>>
         /\ EraseIsFull(s) => queue'[NvMod] = <<>>
         /\ ~EraseIsFull(s) => queue'[NvMod] = <<ErasingNode(s)>>
<1>1. IInv /\ sync = NoSync /\ ~asserted /\ Owner[s] = NvMod /\ s \in Sectors
  BY NvModIs DEF QueueKept, IInv, NoAssert
<1>2. ~cur[NvMod]
  BY <1>1, NvModIs DEF IInv, CurIsListed
<1>3. DeletePending(<<>>, cur[NvMod], s) = <<>>
  BY DEF DeletePending, DeleteNewest, Unlocked, On
<1>4. Len(<<>>) = 0 /\ 1..0 = {}
  OBVIOUS
<1>5. ~EraseMerged(queue[NvMod], cur[NvMod], s)
  BY <1>2 DEF EraseMerged
<1>6. EraseIsFull(s) <=> opera_used - (0 - 0) = OpraLen
  BY <1>3, <1>4, <1>5 DEF EraseIsFull
<1>7. opera_used \in Int
  BY <1>1 DEF IInv, TypeOK, ApiTypeOK
<1>8. EraseIsSafe(queue[NvMod], cur[NvMod], s)
  BY <1>4 DEF EraseIsSafe
<1>9. norflash_api_erase(s)
  BY <1>1, <1>8 DEF norflash_api_erase, QueueErase, Unmasked
<1>10. IInv'
  BY <1>1, <1>9, NextIInv DEF Next, Client
<1>11. UNCHANGED <<halVars, sync, state, cur, asserted>>
  BY DEF QueueErase
<1>12. IF EraseIsFull(s) THEN queue' = [queue EXCEPT ![NvMod] = <<>>]
       ELSE queue' = [queue EXCEPT ![NvMod] = <<ErasingNode(s)>>]
  <2>1. IF opera_used - (0 - 0) = OpraLen THEN queue' = [queue EXCEPT ![NvMod] = <<>>]
        ELSE queue' = [queue EXCEPT ![NvMod] = Append(<<>>, ErasingNode(s))]
    BY <1>3, <1>4, <1>5 DEF QueueErase, E_opera_add
  <2>2. Append(<<>>, ErasingNode(s)) = <<ErasingNode(s)>>
    OBVIOUS
  <2> QED BY <1>6, <2>1, <2>2
<1>13. CASE EraseIsFull(s)
  BY <1>2, <1>9, <1>10, <1>11, <1>12, <1>13, NvCallKeeps
<1>14. CASE ~EraseIsFull(s)
  <2>1. PICK r : r = <<ErasingNode(s)>>
    OBVIOUS
  <2>2. queue' = [queue EXCEPT ![NvMod] = r]
    BY <1>12, <1>14, <2>1
  <2>3. QueueKept' /\ Registered(NvMod)' /\ queue'[NvMod] = r
    BY <1>2, <1>10, <1>11, <2>2, NvCallKeeps
  <2> QED BY <1>9, <1>11, <1>14, <2>1, <2>3
<1> QED BY <1>13, <1>14

\* A write of the next pages of a record.
LEMMA NvWrites ==
  ASSUME QueueKept, Registered(NvMod), NEW s \in {Main, Bak}, NEW k \in Nat, NEW v \in Values,
         NEW q, q = queue[NvMod], NEW lck, lck = cur[NvMod], NEW a, a = hal.next,
         NEW image, image = flash[s], Handed(q, lck, a, image, s, k, v),
         NEW lo \in Cells, NEW hi \in Cells, lo = k + 1, lo <= hi, QueueWrite(s, lo, hi, v)
  PROVE  /\ norflash_api_write(s, lo, hi, v)
         /\ QueueKept' /\ Registered(NvMod)' /\ UNCHANGED <<halVars, cur, asserted>>
         /\ WriteIsFull(s) => queue'[NvMod] = q
         /\ ~WriteIsFull(s) => /\ Handed(queue'[NvMod], lck, a, image, s, hi, v)
                               /\ WriteMerged(queue'[NvMod], lck, s)
<1>1. /\ IInv /\ sync = NoSync /\ ~asserted /\ Owner[s] = NvMod /\ s \in Sectors
      /\ q \in Seq(Nodes) /\ lck \in BOOLEAN /\ (lck => q # <<>>)
  BY NvModIs, ListOf DEF QueueKept, IInv, NoAssert
<1>2. IsErased(s, lo, hi)
  <2>1. View(s) = Seen(q, image, s)
    BY <1>1, ViewIs
  <2>2. \A c \in lo..hi : c \in Cells /\ c > k
    BY CellsAssumption DEF Cells
  <2>3. \A c \in Cells : c > k => Seen(q, image, s)[c] = Blank
    BY <1>1, HandedSeen
  <2> QED BY <2>1, <2>2, <2>3 DEF IsErased
<1>3. norflash_api_write(s, lo, hi, v)
  BY <1>1, <1>2 DEF norflash_api_write, QueueWrite, Unmasked
<1>4. IInv'
  BY <1>1, <1>3, NextIInv DEF Next, Client
<1>5. UNCHANGED <<halVars, sync, state, cur, asserted>>
  BY DEF QueueWrite
<1>6. WritesTo(NvMod, q, lck, s, lo, hi, v)
  BY <1>1, <1>3, WriteIs
<1>7. WriteIsFull(s) <=> /\ ~WriteMerged(q, lck, s)
                         /\ opera_used = OpraLen \/ data_used = BuffLen
  BY DEF WriteIsFull
<1>8. CASE UNCHANGED queue /\ WriteIsFull(s)
  <2>1. QueueKept' /\ Registered(NvMod)'
    BY <1>4, <1>5, <1>8 DEF QueueKept, Homed, LockedIsSuspended, Registered
  <2> QED BY <1>3, <1>5, <1>8, <2>1
<1>9. ASSUME NEW r, MergesInto(r, q, Newest(Stops(q, lck, s)), lo, hi, v),
             WriteMerged(q, lck, s), queue' = [queue EXCEPT ![NvMod] = r]
      PROVE  /\ QueueKept' /\ Registered(NvMod)' /\ queue'[NvMod] = r
             /\ Handed(r, lck, a, image, s, hi, v) /\ WriteMerged(r, lck, s)
  <2>1. Handed(r, lck, a, image, s, hi, v) /\ WriteMerged(r, lck, s)
    BY <1>1, <1>9, MergeHands
  <2>2. lck => r[1].type = q[1].type
    <3>1. PICK i : i = Newest(Stops(q, lck, s))
      OBVIOUS
    <3>2. i \in 1..Len(q)
      BY <1>1, <1>9, <3>1, StopIs DEF WriteMerged
    <3>3. Alike(r, q)
      BY <1>1, <1>9, <3>1, <3>2, MergedAlike
    <3>4. 1 \in 1..Len(q)
      BY <3>2
    <3> QED BY <3>3, <3>4 DEF Alike
  <2>3. cur[NvMod] => r[1].type = queue[NvMod][1].type
    BY <2>2
  <2> QED BY <1>4, <1>5, <1>9, <2>1, <2>3, NvCallKeeps
<1>10. CASE /\ ~WriteMerged(q, lck, s) /\ ~WriteIsFull(s)
            /\ queue' = [queue EXCEPT ![NvMod] = Append(q, NewWrite(q, lck, s, lo, hi, v))]
  <2>1. PICK n : n = NewWrite(q, lck, s, lo, hi, v)
    OBVIOUS
  <2>2. PICK r : r = Append(q, n)
    OBVIOUS
  <2>3. /\ n \in Nodes /\ n.type = "WRITTING" /\ n.sec = s /\ n.lo = lo /\ n.hi = hi
        /\ n.buf = Fill(BaseOf(q, lck, s), lo, hi, v)
    BY <1>1, <2>1, NewWriteIs
  <2>4. IsNewWrite(n, q, lck, s, image, lo, hi, v)
    BY <2>3 DEF IsNewWrite, BaseOf, Base
  <2>5. Handed(r, lck, a, image, s, hi, v) /\ WriteMerged(r, lck, s)
    BY <1>1, <1>10, <2>2, <2>4, AppendHands
  <2>6. cur[NvMod] => r[1].type = queue[NvMod][1].type
    <3>1. q # <<>> => r[1] = q[1]
      BY <1>1, <2>2, <2>3
    <3> QED BY <1>1, <3>1
  <2>7. queue' = [queue EXCEPT ![NvMod] = r]
    BY <1>10, <2>1, <2>2
  <2>8. QueueKept' /\ Registered(NvMod)' /\ queue'[NvMod] = r
    BY <1>4, <1>5, <2>6, <2>7, NvCallKeeps
  <2> QED BY <1>3, <1>5, <1>10, <2>5, <2>8
<1>11. CASE WriteMerged(q, lck, s)
  <2>1. PICK r : /\ MergesInto(r, q, Newest(Stops(q, lck, s)), lo, hi, v)
                 /\ queue' = [queue EXCEPT ![NvMod] = r]
    BY <1>6, <1>11 DEF WritesTo
  <2> QED BY <1>3, <1>5, <1>7, <1>9, <1>11, <2>1
<1>12. CASE ~WriteMerged(q, lck, s)
  BY <1>3, <1>5, <1>6, <1>7, <1>8, <1>10, <1>12 DEF WritesTo
<1> QED BY <1>11, <1>12

\* The nodes of a list are its module's.
HomeOf(q, m) == \A i \in 1..Len(q) : Owner[q[i].sec] = m

LEMMA DeletedHome ==
  ASSUME NEW q \in Seq(Nodes), NEW lck \in BOOLEAN, NEW s, NEW m, HomeOf(q, m),
         NEW r, r = DeleteNewest(q, lck, s)
  PROVE  r \in Seq(Nodes) /\ HomeOf(r, m)
<1>1. CASE r = q
  BY <1>1
<1>2. ASSUME NEW i, Deletes(r, q, lck, s, i) PROVE r \in Seq(Nodes) /\ HomeOf(r, m)
  <2>1. /\ i \in 1..Len(q) /\ r \in Seq(Nodes) /\ Len(r) = Len(q) - 1
        /\ \A j \in 1..Len(r) : r[j] = q[Back(i, j)]
    BY <1>2 DEF Deletes, IsWithout
  <2>2. \A j \in 1..Len(r) : Back(i, j) \in 1..Len(q)
    BY <2>1 DEF Back
  <2> QED BY <2>1, <2>2 DEF HomeOf
<1> QED BY <1>1, <1>2, DeleteNewestIs

\* A call that changes the list of another module.
LEMMA OtherCallKeeps ==
  ASSUME QueueKept, IInv', NEW m \in Mods, m # NvMod,
         UNCHANGED <<halVars, sync, state, cur, asserted>>,
         NEW r, queue' = [queue EXCEPT ![m] = r], HomeOf(r, m)
  PROVE  /\ QueueKept' /\ (Registered(NvMod) => Registered(NvMod)')
         /\ UNCHANGED <<halVars, cur, asserted>> /\ queue'[NvMod] = queue[NvMod]
<1>1. queue \in [Mods -> Seq(Nodes)]
  BY DEF QueueKept, IInv, TypeOK, ApiTypeOK
<1>2. queue'[m] = r /\ \A o \in Mods : o # m => queue'[o] = queue[o]
  BY <1>1
<1>3. Homed'
  BY <1>2 DEF QueueKept, Homed, HomeOf
<1>4. queue'[NvMod] = queue[NvMod]
  BY <1>2, NvModIs
<1>5. LockedIsSuspended'
  BY <1>4 DEF QueueKept, LockedIsSuspended
<1> QED BY <1>3, <1>4, <1>5 DEF QueueKept, Registered

\* A module registers.
LEMMA RegisterKeeps ==
  ASSUME QueueKept, NEW m \in Mods, Register(m)
  PROVE  /\ QueueKept' /\ (m = NvMod \/ Registered(NvMod) => Registered(NvMod)')
         /\ UNCHANGED <<halVars, cur, asserted>> /\ queue'[NvMod] = queue[NvMod]
<1>1. IInv' /\ UNCHANGED <<halVars, sync, queue, cur, asserted>>
  <2>1. Next
    BY DEF Next, Client
  <2> QED BY <2>1, NextIInv DEF QueueKept, Register
<1>2. state' = [state EXCEPT ![m] = "IDLE"] /\ state \in [Mods -> ModStates] /\ ~Registered(m)
  BY DEF Register, QueueKept, IInv, TypeOK, ApiTypeOK
<1>3. m = NvMod \/ Registered(NvMod) => Registered(NvMod)'
  BY <1>2, NvModIs DEF Registered
<1>4. LockedIsSuspended'
  <2> SUFFICES ASSUME cur'[NvMod] PROVE state'[NvMod] = SuspendedState(queue'[NvMod][1])
    BY DEF LockedIsSuspended
  <2>1. state[NvMod] = SuspendedState(queue[NvMod][1])
    BY <1>1 DEF QueueKept, LockedIsSuspended
  <2>2. Registered(NvMod)
    BY <2>1 DEF Registered, SuspendedState
  <2>3. state'[NvMod] = state[NvMod]
    BY <1>2, <2>2, NvModIs
  <2> QED BY <1>1, <2>1, <2>3
<1>5. Homed'
  BY <1>1 DEF QueueKept, Homed
<1> QED BY <1>1, <1>3, <1>4, <1>5 DEF QueueKept

LEMMA OtherModuleErases ==
  ASSUME QueueKept, NEW s \in Sectors, Owner[s] # NvMod, norflash_api_erase(s)
  PROVE  /\ QueueKept' /\ (Registered(NvMod) => Registered(NvMod)')
         /\ UNCHANGED <<halVars, cur, asserted>> /\ queue'[NvMod] = queue[NvMod]
<1>1. IInv'
  BY NextIInv DEF Next, Client, QueueKept
<1>2. PICK m \in Mods : m = Owner[s]
  BY ModAssumption
<1>3. PICK q : q = queue[m]
  OBVIOUS
<1>4. PICK lck : lck = cur[m]
  OBVIOUS
<1>5. q \in Seq(Nodes) /\ lck \in BOOLEAN /\ HomeOf(q, m)
  BY <1>2, <1>3, <1>4, ListOf DEF QueueKept, Homed, HomeOf
<1>6. PICK mid : mid = DeleteNewest(q, lck, s)
  OBVIOUS
<1>7. PICK kept : kept = DeletePending(q, lck, s)
  OBVIOUS
<1>8. kept \in Seq(Nodes) /\ HomeOf(kept, m)
  <2>1. mid \in Seq(Nodes) /\ HomeOf(mid, m)
    BY <1>5, <1>6, DeletedHome
  <2>2. kept = DeleteNewest(mid, lck, s)
    BY <1>6, <1>7 DEF DeletePending
  <2> QED BY <1>5, <2>1, <2>2, DeletedHome
<1>9. PICK n : n = ErasingNode(s)
  OBVIOUS
<1>10. n \in Nodes /\ n.sec = s
  BY <1>9, ErasingNodeIs
<1>11. UNCHANGED <<halVars, sync, state, cur, asserted>>
  BY DEF norflash_api_erase
<1>12. \/ queue' = [queue EXCEPT ![m] = kept]
       \/ queue' = [queue EXCEPT ![m] = Append(kept, n)]
  BY <1>2, <1>3, <1>4, <1>7, <1>9 DEF norflash_api_erase, E_opera_add
<1>13. CASE queue' = [queue EXCEPT ![m] = kept]
  BY <1>1, <1>2, <1>8, <1>11, <1>13, OtherCallKeeps
<1>14. CASE queue' = [queue EXCEPT ![m] = Append(kept, n)]
  <2>1. PICK r : r = Append(kept, n)
    OBVIOUS
  <2>2. HomeOf(r, m)
    <3>1. PICK l \in Nat : l = Len(kept)
      BY <1>8
    <3>2. Len(r) = l + 1 /\ r[l + 1] = n /\ \A i \in 1..l : r[i] = kept[i]
      BY <1>8, <1>10, <2>1, <3>1
    <3>3. \A i \in 1..l : Owner[kept[i].sec] = m
      BY <1>8, <3>1 DEF HomeOf
    <3> QED BY <1>2, <1>10, <3>1, <3>2, <3>3 DEF HomeOf
  <2> QED BY <1>1, <1>2, <1>11, <1>14, <2>1, <2>2, OtherCallKeeps
<1> QED BY <1>12, <1>13, <1>14

LEMMA OtherModuleWrites ==
  ASSUME QueueKept, NEW s \in Sectors, Owner[s] # NvMod,
         norflash_api_write(s, 1, NumCells, Default)
  PROVE  /\ norflash_api_write(s, 1, NumCells, Default) /\ Next
         /\ QueueKept' /\ (Registered(NvMod) => Registered(NvMod)')
         /\ UNCHANGED <<halVars, cur, asserted>> /\ queue'[NvMod] = queue[NvMod]
<1>1. PICK lo \in Cells : lo = 1
  BY CellsAssumption DEF Cells
<1>2. PICK hi \in Cells : hi = NumCells
  BY CellsAssumption DEF Cells
<1>3. PICK v \in Values : v = Default
  BY RecordAssumption DEF Default
<1>4. norflash_api_write(s, lo, hi, v) /\ lo <= hi
  BY <1>1, <1>2, <1>3, CellsAssumption
<1>5. Next
  BY <1>4 DEF Next, Client
<1>6. IInv' /\ IInv
  BY <1>5, NextIInv DEF QueueKept
<1>7. PICK m \in Mods : m = Owner[s]
  BY ModAssumption
<1>8. PICK q : q = queue[m]
  OBVIOUS
<1>9. PICK lck : lck = cur[m]
  OBVIOUS
<1>10. q \in Seq(Nodes) /\ lck \in BOOLEAN /\ HomeOf(q, m)
  BY <1>6, <1>7, <1>8, <1>9, ListOf DEF QueueKept, Homed, HomeOf
<1>11. WritesTo(m, q, lck, s, lo, hi, v)
  BY <1>4, <1>6, <1>7, <1>8, <1>9, WriteIs
<1>12. UNCHANGED <<halVars, sync, state, cur, asserted>>
  BY DEF norflash_api_write
<1>13. CASE UNCHANGED queue
  BY <1>5, <1>6, <1>12, <1>13 DEF QueueKept, Homed, LockedIsSuspended, Registered
<1>14. ASSUME NEW r, MergesInto(r, q, Newest(Stops(q, lck, s)), lo, hi, v),
              WriteMerged(q, lck, s)
       PROVE  HomeOf(r, m)
  <2>1. PICK i : i = Newest(Stops(q, lck, s))
    OBVIOUS
  <2>2. i \in 1..Len(q)
    BY <1>10, <1>14, <2>1, StopIs DEF WriteMerged
  <2>3. Alike(r, q)
    BY <1>10, <1>14, <2>1, <2>2, MergedAlike
  <2> QED BY <1>10, <2>3 DEF Alike, HomeOf
<1>15. ASSUME NEW n, n = NewWrite(q, lck, s, lo, hi, v), NEW r, r = Append(q, n)
       PROVE  HomeOf(r, m)
  <2>1. n \in Nodes /\ n.sec = s
    BY <1>6, <1>15, NewWriteIs
  <2>2. PICK l \in Nat : l = Len(q)
    BY <1>10
  <2>3. Len(r) = l + 1 /\ r[l + 1] = n /\ \A i \in 1..l : r[i] = q[i]
    BY <1>10, <1>15, <2>1, <2>2
  <2>4. \A i \in 1..l : Owner[q[i].sec] = m
    BY <1>10, <2>2 DEF HomeOf
  <2> QED BY <1>7, <2>1, <2>2, <2>3, <2>4 DEF HomeOf
<1>16. CASE \E r : queue' = [queue EXCEPT ![m] = r] /\ HomeOf(r, m)
  BY <1>5, <1>6, <1>7, <1>12, <1>16, OtherCallKeeps
<1>17. PICK n : n = NewWrite(q, lck, s, lo, hi, v)
  OBVIOUS
<1>18. PICK p : p = Append(q, n)
  OBVIOUS
<1>19. HomeOf(p, m)
  BY <1>15, <1>17, <1>18
<1>20. \/ \E r : /\ MergesInto(r, q, Newest(Stops(q, lck, s)), lo, hi, v)
                 /\ WriteMerged(q, lck, s) /\ queue' = [queue EXCEPT ![m] = r]
       \/ UNCHANGED queue
       \/ queue' = [queue EXCEPT ![m] = p]
  BY <1>11, <1>17, <1>18 DEF WritesTo
<1> QED BY <1>13, <1>14, <1>16, <1>19, <1>20

LEMMA OtherModuleKeeps ==
  ASSUME QueueKept, OtherModule
  PROVE  /\ Next
         /\ QueueKept' /\ (Registered(NvMod) => Registered(NvMod)')
         /\ UNCHANGED <<halVars, cur, asserted>> /\ queue'[NvMod] = queue[NvMod]
<1>1. ASSUME NEW m \in Mods, Register(m)
      PROVE  /\ Next
             /\ QueueKept' /\ (Registered(NvMod) => Registered(NvMod)')
             /\ UNCHANGED <<halVars, cur, asserted>> /\ queue'[NvMod] = queue[NvMod]
  BY <1>1, RegisterKeeps DEF Next, Client
<1>2. ASSUME NEW s \in Sectors, Owner[s] # NvMod, norflash_api_erase(s)
      PROVE  /\ Next
             /\ QueueKept' /\ (Registered(NvMod) => Registered(NvMod)')
             /\ UNCHANGED <<halVars, cur, asserted>> /\ queue'[NvMod] = queue[NvMod]
  BY <1>2, OtherModuleErases DEF Next, Client
<1>3. ASSUME NEW s \in Sectors, Owner[s] # NvMod, norflash_api_write(s, 1, NumCells, Default)
      PROVE  /\ Next
             /\ QueueKept' /\ (Registered(NvMod) => Registered(NvMod)')
             /\ UNCHANGED <<halVars, cur, asserted>> /\ queue'[NvMod] = queue[NvMod]
  BY <1>3, OtherModuleWrites
<1> QED BY <1>1, <1>2, <1>3 DEF OtherModule

---------------------------------------------------------------------------
(* The stages of a save.                                                    *)

StageIs(st, rec, b, w, d) ==
  /\ RecOf(st) = rec
  /\ BeginsIn(st) <=> b
  /\ WritesIn(st) <=> w
  /\ DrainsIn(st) <=> d

LEMMA SameNV ==
  ASSUME NEW r, NEW s, NEW r2, NEW s2
  PROVE  NV(r, s) = NV(r2, s2) <=> r = r2 /\ s = s2
BY DEF NV

LEMMA RecordSectors == Main # Bak /\ Main # NoSector /\ Bak # NoSector
BY NvModIs, SectorAssumption

LEMMA Stages ==
  ASSUME NEW rec \in {Main, Bak}
  PROVE  /\ StageIs(StartOf(rec), rec, TRUE, FALSE, FALSE)
         /\ StageIs(NV(rec, "ERASING"), rec, TRUE, FALSE, FALSE)
         /\ StageIs(NV(rec, "ERASED"), rec, FALSE, TRUE, FALSE)
         /\ StageIs(NV(rec, "WRITTING"), rec, FALSE, TRUE, FALSE)
         /\ StageIs(NV(rec, "WRITTEN"), rec, FALSE, FALSE, TRUE)
         /\ StageIs(NV(Bak, "DONE"), Bak, FALSE, FALSE, FALSE)
<1> USE SameNV, RecordSectors DEF StageIs, BeginsIn, WritesIn, DrainsIn, StartOf, IDLE
<1>1. /\ RecOf(IDLE) = Main
      /\ RecOf(NV(Main, "DONE")) = Bak
      /\ RecOf(NV(Bak, "DONE")) = Bak
      /\ RecOf(NV(rec, "ERASING")) = rec
      /\ RecOf(NV(rec, "ERASED")) = rec
      /\ RecOf(NV(rec, "WRITTING")) = rec
      /\ RecOf(NV(rec, "WRITTEN")) = rec
  BY DEF RecOf, NV
<1>2. StageIs(StartOf(rec), rec, TRUE, FALSE, FALSE)
  <2>1. CASE rec = Main
    BY <1>1, <2>1
  <2>2. CASE rec = Bak
    BY <1>1, <2>2
  <2> QED BY <2>1, <2>2
<1>3. StageIs(NV(rec, "ERASING"), rec, TRUE, FALSE, FALSE)
  BY <1>1
<1>4. StageIs(NV(rec, "ERASED"), rec, FALSE, TRUE, FALSE)
  BY <1>1
<1>5. StageIs(NV(rec, "WRITTING"), rec, FALSE, TRUE, FALSE)
  BY <1>1
<1>6. StageIs(NV(rec, "WRITTEN"), rec, FALSE, FALSE, TRUE)
  BY <1>1
<1>7. StageIs(NV(Bak, "DONE"), Bak, FALSE, FALSE, FALSE)
  BY <1>1
<1> HIDE DEF StageIs
<1> QED BY <1>2, <1>3, <1>4, <1>5, <1>6, <1>7

\* Every state has its stage.
LEMMA StageOf ==
  ASSUME NEW st \in NvStates
  PROVE  /\ RecOf(st) \in {Main, Bak}
         /\ BeginsIn(st) => ~WritesIn(st) /\ ~DrainsIn(st) /\ st # NV(Bak, "WRITTING")
                            /\ st # NV(Bak, "DONE")
         /\ WritesIn(st) => ~DrainsIn(st) /\ st # NV(Bak, "DONE")
         /\ DrainsIn(st) => st # NV(Bak, "WRITTING") /\ st # NV(Bak, "DONE")
         /\ BeginsIn(st) \/ WritesIn(st) \/ DrainsIn(st) \/ st = NV(Bak, "DONE")
<1> DEFINE Goal == /\ RecOf(st) \in {Main, Bak}
                   /\ BeginsIn(st) => ~WritesIn(st) /\ ~DrainsIn(st) /\ st # NV(Bak, "WRITTING")
                                      /\ st # NV(Bak, "DONE")
                   /\ WritesIn(st) => ~DrainsIn(st) /\ st # NV(Bak, "DONE")
                   /\ DrainsIn(st) => st # NV(Bak, "WRITTING") /\ st # NV(Bak, "DONE")
                   /\ BeginsIn(st) \/ WritesIn(st) \/ DrainsIn(st) \/ st = NV(Bak, "DONE")
<1>1. Main \in {Main, Bak} /\ Bak \in {Main, Bak} /\ StartOf(Main) = IDLE
      /\ (StartOf(Bak) = NV(Main, "DONE"))
  BY RecordSectors DEF StartOf
<1>2. /\ StageIs(IDLE, Main, TRUE, FALSE, FALSE)
      /\ StageIs(NV(Main, "DONE"), Bak, TRUE, FALSE, FALSE)
      /\ StageIs(NV(Bak, "DONE"), Bak, FALSE, FALSE, FALSE)
      /\ StageIs(NV(Bak, "WRITTING"), Bak, FALSE, TRUE, FALSE)
  BY <1>1, Stages
<1>3. IDLE # NV(Bak, "WRITTING") /\ IDLE # NV(Bak, "DONE")
      /\ (\A r \in {Main, Bak} : \A s \in NvSteps :
            /\ NV(r, s) = NV(Bak, "WRITTING") <=> r = Bak /\ s = "WRITTING"
            /\ NV(r, s) = NV(Bak, "DONE") <=> r = Bak /\ s = "DONE")
  BY RecordSectors, SameNV DEF IDLE
<1>4. CASE st = IDLE
  BY <1>1, <1>2, <1>3, <1>4 DEF StageIs
<1>5. ASSUME NEW r \in {Main, Bak}, NEW s \in NvSteps, st = NV(r, s) PROVE Goal
  <2>1. CASE s = "DONE"
    <3>1. CASE r = Main
      BY <1>1, <1>2, <1>3, <1>5, <2>1, <3>1, RecordSectors DEF StageIs
    <3>2. CASE r = Bak
      BY <1>1, <1>2, <1>3, <1>5, <2>1, <3>2 DEF StageIs
    <3> QED BY <3>1, <3>2
  <2>2. CASE s = "ERASING"
    BY <1>3, <1>5, <2>2, Stages DEF StageIs
  <2>3. CASE s \in {"ERASED", "WRITTING"}
    BY <1>3, <1>5, <2>3, Stages DEF StageIs
  <2>4. CASE s = "WRITTEN"
    BY <1>3, <1>5, <2>4, Stages DEF StageIs
  <2> QED BY <2>1, <2>2, <2>3, <2>4 DEF NvSteps
<1> QED BY <1>4, <1>5 DEF NvStates

---------------------------------------------------------------------------
(* Steps between power on and power off.                                    *)

\* The thread goes to place p, with rec = r and seen = s.
Moves(p, r, s) ==
  /\ thread' \in [Threads -> [at : ThreadPlaces, rec : {Main, Bak}, seen : 0..NumCells]]
  /\ thread'[1].at = p /\ thread'[1].rec = r /\ thread'[1].seen = s

LEMMA OneThread ==
  ASSUME NumThreads = 1, NvTypeOK
  PROVE  /\ Threads = {1}
         /\ thread[1].at \in ThreadPlaces /\ thread[1].rec \in {Main, Bak}
         /\ thread[1].seen \in 0..NumCells
         /\ UNCHANGED thread => Moves(Place, thread[1].rec, thread[1].seen)
         /\ \A p \in ThreadPlaces : Goto(1, p) => Moves(p, thread[1].rec, thread[1].seen)
         /\ \A r \in {Main, Bak} : Enter(1, r) => Moves("check", r, thread[1].seen)
         /\ \A s \in 0..NumCells :
              thread' = [thread EXCEPT ![1].at = "store", ![1].seen = s] =>
                Moves("store", thread[1].rec, s)
<1>1. Threads = {1}
  BY DEF Threads
<1>2. thread \in [Threads -> [at : ThreadPlaces, rec : {Main, Bak}, seen : 0..NumCells]]
  BY DEF NvTypeOK
<1>3. PICK x : x = thread[1]
  OBVIOUS
<1>4. x \in [at : ThreadPlaces, rec : {Main, Bak}, seen : 0..NumCells]
  BY <1>1, <1>2, <1>3
<1>5. x.at \in ThreadPlaces /\ x.rec \in {Main, Bak} /\ x.seen \in 0..NumCells
  BY <1>4
<1>6. ASSUME NEW y \in [at : ThreadPlaces, rec : {Main, Bak}, seen : 0..NumCells],
             thread' = [thread EXCEPT ![1] = y]
      PROVE  Moves(y.at, y.rec, y.seen)
  BY <1>1, <1>2, <1>6 DEF Moves
<1>7. ASSUME NEW p \in ThreadPlaces, Goto(1, p) PROVE Moves(p, x.rec, x.seen)
  <2>1. PICK y : y = [x EXCEPT !.at = p]
    OBVIOUS
  <2>2. /\ y \in [at : ThreadPlaces, rec : {Main, Bak}, seen : 0..NumCells]
        /\ y.at = p /\ y.rec = x.rec /\ y.seen = x.seen
    BY <1>4, <2>1
  <2>3. thread' = [thread EXCEPT ![1] = y]
    BY <1>3, <1>7, <2>1 DEF Goto
  <2> QED BY <1>6, <2>2, <2>3
<1>8. ASSUME NEW r \in {Main, Bak}, Enter(1, r) PROVE Moves("check", r, x.seen)
  <2>1. PICK y : y = [x EXCEPT !.at = "check", !.rec = r]
    OBVIOUS
  <2>2. /\ y \in [at : ThreadPlaces, rec : {Main, Bak}, seen : 0..NumCells]
        /\ y.at = "check" /\ y.rec = r /\ y.seen = x.seen
    BY <1>4, <2>1 DEF ThreadPlaces
  <2>3. thread' = [thread EXCEPT ![1] = y]
    BY <1>1, <1>2, <1>3, <1>8, <2>1 DEF Enter
  <2> QED BY <1>6, <2>2, <2>3
<1>9. ASSUME NEW s \in 0..NumCells,
             thread' = [thread EXCEPT ![1].at = "store", ![1].seen = s]
      PROVE  Moves("store", x.rec, s)
  <2>1. PICK y : y = [x EXCEPT !.at = "store", !.seen = s]
    OBVIOUS
  <2>2. /\ y \in [at : ThreadPlaces, rec : {Main, Bak}, seen : 0..NumCells]
        /\ y.at = "store" /\ y.rec = x.rec /\ y.seen = s
    BY <1>4, <2>1 DEF ThreadPlaces
  <2>3. thread' = [thread EXCEPT ![1] = y]
    BY <1>1, <1>2, <1>3, <1>9, <2>1
  <2> QED BY <1>6, <2>2, <2>3
<1>10. UNCHANGED thread => Moves(Place, x.rec, x.seen)
  BY <1>2, <1>3 DEF Moves, Place
<1> QED BY <1>1, <1>3, <1>5, <1>7, <1>8, <1>9, <1>10

\* What the records' own variables are after a step.
Stands(st, p, r, s, w, h) ==
  /\ Moves(p, r, s) /\ nv_state' = st /\ written' = w /\ hook' = h
  /\ st \in NvStates /\ w \in 0..NumCells + 1 /\ h \in {"off", "flush", "copy"}
  /\ {is_update', locked'} \subseteq BOOLEAN
  /\ {ram', sent', completed'} \subseteq Values
  /\ nvrec_init' = TRUE /\ nv_asserted' = FALSE
  /\ Control(st, p, r, s, w, h)

LEMMA InvHolds ==
  ASSUME QueueKept', NEW st, NEW p, NEW r, NEW s, NEW w, NEW h, Stands(st, p, r, s, w, h),
         Registered(NvMod)',
         Saves(st, p, w, h, queue'[NvMod], cur'[NvMod], hal'.next, flash'[RecOf(st)], sent'),
         RecordsInv'
  PROVE  NvInv'
<1>1. NvTypeOK' /\ ~nv_asserted' /\ nvrec_init'
  <2>1. TypeOK'
    BY DEF QueueKept, IInv
  <2>2. nvrec_init' = TRUE /\ nv_asserted' = FALSE
    BY DEF Stands
  <2> QED BY <2>1, <2>2 DEF Stands, Moves, NvTypeOK
<1>2. Place' = p /\ thread'[1].rec = r /\ thread'[1].seen = s
      /\ nv_state' = st /\ written' = w /\ hook' = h
  BY DEF Stands, Moves, Place
<1>3. Control(nv_state, Place, thread[1].rec, thread[1].seen, written, hook)'
  BY <1>2 DEF Stands
<1>4. QueueInv'
  BY <1>2 DEF QueueInv
<1>5. OffInv'
  BY <1>1 DEF OffInv
<1> QED BY <1>1, <1>3, <1>4, <1>5 DEF NvInv, QueueKept

\* What is known before a step.
LEMMA InvGives ==
  ASSUME NumThreads = 1, NvInv, nvrec_init
  PROVE  /\ nvrec_init = TRUE /\ nv_asserted = FALSE
         /\ QueueKept /\ NvTypeOK /\ ~asserted /\ Registered(NvMod) /\ RecordsInv
         /\ nv_state \in NvStates /\ written \in 0..NumCells + 1
         /\ is_update \in BOOLEAN /\ locked \in BOOLEAN
         /\ ram \in Values /\ sent \in Values /\ completed \in Values
         /\ hook \in {"off", "flush", "copy"}
         /\ RecOf(nv_state) \in {Main, Bak}
         /\ Control(nv_state, Place, thread[1].rec, thread[1].seen, written, hook)
         /\ Saves(nv_state, Place, written, hook, queue[NvMod], cur[NvMod], hal.next,
                  flash[RecOf(nv_state)], sent)
         /\ PagesHanded(nv_state, Place, written, hook) \in Nat
<1>1. /\ nvrec_init = TRUE /\ nv_asserted = FALSE
      /\ QueueKept /\ NvTypeOK /\ ~asserted /\ Registered(NvMod) /\ RecordsInv
      /\ nv_state \in NvStates /\ written \in 0..NumCells + 1
      /\ is_update \in BOOLEAN /\ locked \in BOOLEAN
      /\ ram \in Values /\ sent \in Values /\ completed \in Values
      /\ hook \in {"off", "flush", "copy"}
      /\ Control(nv_state, Place, thread[1].rec, thread[1].seen, written, hook)
      /\ Saves(nv_state, Place, written, hook, queue[NvMod], cur[NvMod], hal.next,
               flash[RecOf(nv_state)], sent)
  BY DEF NvInv, NvTypeOK, QueueKept, QueueInv, IInv, NoAssert
<1>2. RecOf(nv_state) \in {Main, Bak}
  BY <1>1, StageOf
<1>3. PagesHanded(nv_state, Place, written, hook) \in Nat
  BY <1>1, CellsAssumption DEF PagesHanded
<1> QED BY <1>1, <1>2, <1>3

\* A version that is stored.
LEMMA ValidIs ==
  ASSUME NEW image, NEW v \in Values, NEW w \in Values, image = Image(w), OfVersion(image, v)
  PROVE  w = v
<1>1. 1 \in Cells /\ image[1] = w
  BY CellsAssumption DEF Cells, Image
<1> QED BY <1>1, ContentAssumption DEF OfVersion

\* Records stay valid, or are as new as the last one sent.
LEMMA RecordsStay ==
  ASSUME RecordsInv, nvrec_init, nvrec_init', NEW rec \in {Main, Bak}, rec = RecOf(nv_state),
         RecOf(nv_state') = rec, {sent, completed, ram, ram'} \subseteq Values,
         UNCHANGED <<sent, completed>>, ram <= ram',
         OthersStay(rec), flash'[rec] = flash[rec] \/ OfVersion(flash'[rec], sent)
  PROVE  RecordsInv'
<1>1. /\ \A s \in {Main, Bak} : Valid(s) => VersionIn(s) >= completed
      /\ completed <= sent /\ sent <= ram
      /\ IF rec = Main THEN completed = Default \/ Valid(Bak) ELSE flash[Main] = Image(sent)
  BY DEF RecordsInv
<1>2. Values \subseteq Int
  BY RecordAssumption
<1>3. sent <= ram'
  <2>1. sent \in Int /\ ram \in Int /\ ram' \in Int
    BY <1>2
  <2> QED BY <1>1, <2>1
<1>4. \A s \in {Main, Bak} : flash'[s] = flash[s] => (Valid(s)' <=> Valid(s)) /\ VersionIn(s)' = VersionIn(s)
  BY DEF Valid, VersionIn
<1>5. ASSUME NEW s \in {Main, Bak}, Valid(s)' PROVE VersionIn(s)' >= completed
  <2>1. CASE flash'[s] = flash[s]
    BY <1>1, <1>4, <1>5, <2>1
  <2>2. CASE s = rec /\ OfVersion(flash'[rec], sent)
    <3>1. PICK w \in Values : flash'[s] = Image(w)
      BY <1>5 DEF Valid
    <3>2. w = sent
      BY <2>2, <3>1, ValidIs
    <3>3. VersionIn(s)' = sent
      BY <3>1, <3>2, CellsAssumption DEF VersionIn, Image, Cells
    <3> QED BY <1>1, <1>2, <3>3
  <2> QED BY <2>1, <2>2 DEF OthersStay
<1>6. IF rec = Main THEN completed = Default \/ Valid(Bak)' ELSE flash'[Main] = Image(sent)
  BY <1>1, <1>4, NvModIs DEF OthersStay
<1>7. completed = Default \/ Valid(Main)' \/ Valid(Bak)'
  BY <1>6 DEF Valid
<1> QED BY <1>1, <1>3, <1>5, <1>6, <1>7 DEF RecordsInv

\* A step that hands nothing to the queue and does not flush it.
LEMMA Stays ==
  ASSUME NumThreads = 1, NvInv, nvrec_init, UNCHANGED vars, sent' = sent, completed' = completed,
         ram <= ram', NEW st, NEW p, NEW r, NEW s, NEW w, Stands(st, p, r, s, w, "off"),
         RecOf(st) = RecOf(nv_state),
         EraseHanded(st, p) <=> EraseHanded(nv_state, Place),
         PagesHanded(st, p, w, "off") = PagesHanded(nv_state, Place, written, hook),
         p \in {"done", "idle"} => queue[NvMod] = <<>>
  PROVE  NvInv'
<1>1. QueueKept' /\ Registered(NvMod)'
  <2>1. IInv'
    BY NextIInv DEF NvInv
  <2> QED BY <2>1, InvGives DEF vars, apiVars, QueueKept, Homed, LockedIsSuspended, Registered
<1>2. Saves(st, p, w, "off", queue'[NvMod], cur'[NvMod], hal'.next, flash'[RecOf(st)], sent')
  BY InvGives DEF Saves, vars, halVars, apiVars
<1>3. RecordsInv'
  <2>1. nv_state' = st /\ nvrec_init' /\ ram' \in Values
    BY DEF Stands
  <2>2. OthersStay(RecOf(nv_state)) /\ flash'[RecOf(nv_state)] = flash[RecOf(nv_state)]
    BY DEF OthersStay, vars, halVars
  <2> QED BY <2>1, <2>2, InvGives, RecordsStay
<1> QED BY <1>1, <1>2, <1>3, InvHolds

\* A step of thread 1 from a place, in a state that Control allows there.
LEMMA AtIs ==
  ASSUME NumThreads = 1, NvInv, NEW t \in Threads, NEW p, At(t, p)
  PROVE  t = 1 /\ Place = p /\ hook = "off" /\ nvrec_init
BY OneThread DEF At, Running, Place, NvInv

\* nv_record_flash_flush and the setters.
LEMMA CallsKeep ==
  ASSUME NumThreads = 1, NvInv, NvCalls
  PROVE  NvInv'
<1>1. nvrec_init /\ hook = "off"
  BY DEF NvCalls, SetRecord, Interleaves, StartFlush, AddBleRecord, SetAndFlush, Starts, At, Running
<1>2. PICK st : st = nv_state
  OBVIOUS
<1>3. /\ st \in NvStates /\ RecOf(st) \in {Main, Bak} /\ written \in 0..NumCells + 1
      /\ Control(st, Place, thread[1].rec, thread[1].seen, written, "off")
      /\ {is_update, locked} \subseteq BOOLEAN /\ {ram, sent, completed} \subseteq Values
      /\ nvrec_init = TRUE /\ nv_asserted = FALSE /\ NvTypeOK /\ ~asserted
  BY <1>1, <1>2, InvGives
<1>4. /\ nv_state' = st /\ UNCHANGED <<vars, sent, completed, written, nvrec_init, nv_asserted, hook>>
      /\ {is_update', locked'} \subseteq BOOLEAN
      /\ ram' \in Values /\ ram <= ram'
  <2>1. NextVersion => ram' \in Values /\ ram <= ram'
    BY <1>3, RecordAssumption DEF NextVersion
  <2>2. ram <= ram
    BY <1>3, RecordAssumption
  <2>3. CASE SetRecord
    BY <1>2, <1>3, <2>1, <2>3 DEF SetRecord
  <2>4. ASSUME NEW t \in Threads, StartFlush(t)
        PROVE  /\ nv_state' = st
               /\ UNCHANGED <<vars, sent, completed, written, nvrec_init, nv_asserted, hook>>
               /\ {is_update', locked'} \subseteq BOOLEAN
               /\ ram' \in Values /\ ram <= ram'
    BY <1>2, <1>3, <2>2, <2>4 DEF StartFlush, flushVars
  <2>5. ASSUME NEW t \in Threads, AddBleRecord(t)
        PROVE  /\ nv_state' = st
               /\ UNCHANGED <<vars, sent, completed, written, nvrec_init, nv_asserted, hook>>
               /\ {is_update', locked'} \subseteq BOOLEAN
               /\ ram' \in Values /\ ram <= ram'
    BY <1>2, <1>3, <2>1, <2>5 DEF AddBleRecord, flushVars
  <2>6. ASSUME NEW t \in Threads, SetAndFlush(t)
        PROVE  /\ nv_state' = st
               /\ UNCHANGED <<vars, sent, completed, written, nvrec_init, nv_asserted, hook>>
               /\ {is_update', locked'} \subseteq BOOLEAN
               /\ ram' \in Values /\ ram <= ram'
    BY <1>2, <1>3, <2>1, <2>6 DEF SetAndFlush
  <2> QED BY <2>3, <2>4, <2>5, <2>6 DEF NvCalls
<1>5. \/ Moves(Place, thread[1].rec, thread[1].seen)
      \/ /\ Place = "off"
         /\ Moves("loop", thread[1].rec, thread[1].seen) \/ Moves("update", thread[1].rec, thread[1].seen)
  <2>1. CASE SetRecord
    BY <1>3, <2>1, OneThread DEF SetRecord
  <2>2. ASSUME NEW t \in Threads, StartFlush(t) \/ AddBleRecord(t) \/ SetAndFlush(t)
        PROVE  /\ Place = "off"
               /\ Moves("loop", thread[1].rec, thread[1].seen) \/ Moves("update", thread[1].rec, thread[1].seen)
    <3>1. At(t, "off") /\ (Goto(t, "loop") \/ Goto(t, "update"))
      BY <2>2 DEF StartFlush, AddBleRecord, SetAndFlush, Starts
    <3>2. t = 1 /\ Place = "off"
      BY <3>1, AtIs
    <3> QED BY <1>3, <3>1, <3>2, OneThread DEF ThreadPlaces
  <2> QED BY <2>1, <2>2 DEF NvCalls
<1>6. ASSUME NEW p \in {Place, "loop", "update"}, p # Place => Place = "off",
             Moves(p, thread[1].rec, thread[1].seen)
      PROVE  NvInv'
  <2>1. Control(st, p, thread[1].rec, thread[1].seen, written, "off")
    <3>1. CASE p = Place
      BY <1>3, <3>1
    <3>2. CASE p # Place
      BY <1>3, <1>6, <3>2 DEF Control, OnRecord, Between
    <3> QED BY <3>1, <3>2
  <2>2. Stands(st, p, thread[1].rec, thread[1].seen, written, "off")
    BY <1>1, <1>3, <1>4, <1>6, <2>1 DEF Stands
  <2>3. EraseHanded(st, p) <=> EraseHanded(nv_state, Place)
    BY <1>2, <1>6 DEF EraseHanded
  <2>4. PagesHanded(st, p, written, "off") = PagesHanded(nv_state, Place, written, hook)
    BY <1>1, <1>2, <1>6 DEF PagesHanded
  <2>5. p \in {"done", "idle"} => queue[NvMod] = <<>>
    BY <1>1, <1>6, InvGives DEF Saves
  <2> QED BY <1>1, <1>2, <1>4, <2>2, <2>3, <2>4, <2>5, Stays
<1> QED BY <1>5, <1>6

\* What is known of a step of the thread, from place p.
FromPlace(p) ==
  /\ Place = p /\ hook = "off" /\ nvrec_init /\ NvTypeOK
  /\ nv_state \in NvStates /\ RecOf(nv_state) \in {Main, Bak}
  /\ thread[1].rec \in {Main, Bak} /\ thread[1].seen \in 0..NumCells
  /\ written \in 0..NumCells + 1
  /\ is_update \in BOOLEAN /\ locked \in BOOLEAN
  /\ Control(nv_state, p, thread[1].rec, thread[1].seen, written, "off")

LEMMA StepOf ==
  ASSUME NumThreads = 1, NvInv, NEW t \in Threads, NEW p, At(t, p)
  PROVE  t = 1 /\ FromPlace(p)
BY AtIs, InvGives, OneThread DEF FromPlace

\* A step of the thread that leaves the queue alone.
LEMMA ThreadStays ==
  ASSUME NumThreads = 1, NvInv, NEW p0, FromPlace(p0), UNCHANGED vars,
         UNCHANGED <<ram, nvrec_init, hook, sent, nv_asserted, completed>>,
         is_update' \in BOOLEAN, locked' \in BOOLEAN,
         NEW st \in NvStates, nv_state' = st, NEW w \in 0..NumCells + 1, written' = w,
         NEW p, NEW r, NEW s, Moves(p, r, s), Control(st, p, r, s, w, "off"),
         RecOf(st) = RecOf(nv_state),
         EraseHanded(st, p) <=> EraseHanded(nv_state, p0),
         PagesHanded(st, p, w, "off") = PagesHanded(nv_state, p0, written, "off"),
         p \in {"done", "idle"} => queue[NvMod] = <<>>
  PROVE  NvInv'
<1>1. nvrec_init /\ hook = "off" /\ Place = p0
  BY DEF FromPlace
<1>2. /\ nvrec_init = TRUE /\ nv_asserted = FALSE
      /\ ram \in Values /\ sent \in Values /\ completed \in Values
  BY <1>1, InvGives
<1>3. Stands(st, p, r, s, w, "off")
  BY <1>1, <1>2 DEF Stands
<1>4. ram <= ram'
  BY <1>2, RecordAssumption
<1> QED BY <1>1, <1>3, <1>4, Stays

LEMMA SetUpdateKeeps ==
  ASSUME NumThreads = 1, NvInv, NEW t \in Threads, SetUpdate(t)
  PROVE  NvInv'
<1>1. t = 1 /\ FromPlace("update")
  BY StepOf DEF SetUpdate
<1>2. Moves("loop", thread[1].rec, thread[1].seen)
  BY <1>1, OneThread DEF FromPlace, SetUpdate, ThreadPlaces
<1>3. Control(nv_state, "loop", thread[1].rec, thread[1].seen, written, "off")
  BY <1>1 DEF FromPlace, Control, OnRecord, Between
<1>4. PICK st \in NvStates : st = nv_state
  BY <1>1 DEF FromPlace
<1>5. PICK w \in 0..NumCells + 1 : w = written
  BY <1>1 DEF FromPlace
<1>6. /\ nv_state' = st /\ written' = w /\ is_update' \in BOOLEAN /\ locked' \in BOOLEAN
      /\ UNCHANGED <<vars, ram, nvrec_init, hook, sent, nv_asserted, completed>>
  BY <1>1, <1>4, <1>5 DEF SetUpdate, FromPlace
<1>7. /\ EraseHanded(st, "loop") <=> EraseHanded(nv_state, "update")
      /\ PagesHanded(st, "loop", w, "off") = PagesHanded(nv_state, "update", written, "off")
  BY <1>4, <1>5 DEF EraseHanded, PagesHanded
<1> QED BY <1>1, <1>2, <1>3, <1>4, <1>5, <1>6, <1>7, ThreadStays

LEMMA SyncLoopKeeps ==
  ASSUME NumThreads = 1, NvInv, NEW t \in Threads, SyncLoop(t)
  PROVE  NvInv'
<1>1. t = 1 /\ FromPlace("loop")
  BY StepOf DEF SyncLoop
<1>2. PICK st \in NvStates : st = nv_state
  BY <1>1 DEF FromPlace
<1>3. PICK w \in 0..NumCells + 1 : w = written
  BY <1>1 DEF FromPlace
<1>4. /\ nv_state' = st /\ written' = w /\ is_update' \in BOOLEAN /\ locked' \in BOOLEAN
      /\ UNCHANGED <<vars, ram, nvrec_init, hook, sent, nv_asserted, completed>>
  BY <1>1, <1>2, <1>3 DEF SyncLoop, FromPlace, sinceBoot, flushVars
<1>5. SavesMain <=> RecOf(st) = Main
  BY <1>2, RecordSectors DEF SavesMain, RecOf
<1>6. RecOf(st) \in {Main, Bak} /\ Main # Bak
  BY <1>1, <1>2, RecordSectors DEF FromPlace
<1>7. \/ Goto(1, "off") \/ Enter(1, RecOf(st))
  BY <1>1, <1>5, <1>6 DEF SyncLoop
<1>8. CASE Goto(1, "off")
  <2>1. Moves("off", thread[1].rec, thread[1].seen)
    BY <1>1, <1>8, OneThread DEF FromPlace, ThreadPlaces
  <2>2. Control(st, "off", thread[1].rec, thread[1].seen, w, "off")
    BY <1>1, <1>2, <1>3 DEF FromPlace, Control, OnRecord, Between
  <2>3. /\ EraseHanded(st, "off") <=> EraseHanded(nv_state, "loop")
        /\ PagesHanded(st, "off", w, "off") = PagesHanded(nv_state, "loop", written, "off")
    BY <1>2, <1>3 DEF EraseHanded, PagesHanded
  <2> QED BY <1>1, <1>2, <1>3, <1>4, <2>1, <2>2, <2>3, ThreadStays
<1>9. CASE Enter(1, RecOf(st))
  <2>1. Moves("check", RecOf(st), thread[1].seen)
    BY <1>1, <1>6, <1>9, OneThread DEF FromPlace
  <2>2. Control(st, "check", RecOf(st), thread[1].seen, w, "off")
    BY <1>1, <1>2, <1>3 DEF FromPlace, Control, OnRecord, Between
  <2>3. /\ EraseHanded(st, "check") <=> EraseHanded(nv_state, "loop")
        /\ PagesHanded(st, "check", w, "off") = PagesHanded(nv_state, "loop", written, "off")
    BY <1>2, <1>3 DEF EraseHanded, PagesHanded
  <2> QED BY <1>1, <1>2, <1>3, <1>4, <2>1, <2>2, <2>3, ThreadStays
<1> QED BY <1>7, <1>8, <1>9

LEMMA SyncSecondKeeps ==
  ASSUME NumThreads = 1, NvInv, NEW t \in Threads, SyncSecond(t)
  PROVE  NvInv'
<1>1. t = 1 /\ FromPlace("second")
  BY StepOf DEF SyncSecond
<1>2. PICK st \in NvStates : st = nv_state
  BY <1>1 DEF FromPlace
<1>3. PICK w \in 0..NumCells + 1 : w = written
  BY <1>1 DEF FromPlace
<1>4. /\ nv_state' = st /\ written' = w /\ is_update' \in BOOLEAN /\ locked' \in BOOLEAN
      /\ UNCHANGED <<vars, ram, nvrec_init, hook, sent, nv_asserted, completed>>
  BY <1>1, <1>2, <1>3 DEF SyncSecond, FromPlace, sinceBoot, flushVars
<1>5. SavesMain <=> RecOf(st) = Main
  BY <1>2, RecordSectors DEF SavesMain, RecOf
<1>6. RecOf(st) \in {Main, Bak} /\ Main # Bak
  BY <1>1, <1>2, RecordSectors DEF FromPlace
<1>7. \/ Goto(1, "loop") \/ Enter(1, RecOf(st))
  BY <1>1, <1>5, <1>6 DEF SyncSecond
<1>8. CASE Goto(1, "loop")
  <2>1. Moves("loop", thread[1].rec, thread[1].seen)
    BY <1>1, <1>8, OneThread DEF FromPlace, ThreadPlaces
  <2>2. Control(st, "loop", thread[1].rec, thread[1].seen, w, "off")
    BY <1>1, <1>2, <1>3 DEF FromPlace, Control, OnRecord, Between
  <2>3. /\ EraseHanded(st, "loop") <=> EraseHanded(nv_state, "second")
        /\ PagesHanded(st, "loop", w, "off") = PagesHanded(nv_state, "second", written, "off")
    BY <1>2, <1>3 DEF EraseHanded, PagesHanded
  <2> QED BY <1>1, <1>2, <1>3, <1>4, <2>1, <2>2, <2>3, ThreadStays
<1>9. CASE Enter(1, RecOf(st))
  <2>1. Moves("check", RecOf(st), thread[1].seen)
    BY <1>1, <1>6, <1>9, OneThread DEF FromPlace
  <2>2. Control(st, "check", RecOf(st), thread[1].seen, w, "off")
    BY <1>1, <1>2, <1>3 DEF FromPlace, Control, OnRecord, Between
  <2>3. /\ EraseHanded(st, "check") <=> EraseHanded(nv_state, "second")
        /\ PagesHanded(st, "check", w, "off") = PagesHanded(nv_state, "second", written, "off")
    BY <1>2, <1>3 DEF EraseHanded, PagesHanded
  <2> QED BY <1>1, <1>2, <1>3, <1>4, <2>1, <2>2, <2>3, ThreadStays
<1> QED BY <1>7, <1>8, <1>9

\* The same with the thread's record and what it has read as they were.
LEMMA GotoStays ==
  ASSUME NumThreads = 1, NvInv, NEW p0, FromPlace(p0), UNCHANGED vars,
         UNCHANGED <<ram, nvrec_init, hook, sent, nv_asserted, completed>>,
         is_update' \in BOOLEAN, locked' \in BOOLEAN,
         NEW st \in NvStates, nv_state' = st, NEW w \in 0..NumCells + 1, written' = w,
         NEW p \in ThreadPlaces, Goto(1, p),
         Control(st, p, thread[1].rec, thread[1].seen, w, "off"),
         RecOf(st) = RecOf(nv_state),
         EraseHanded(st, p) <=> EraseHanded(nv_state, p0),
         PagesHanded(st, p, w, "off") = PagesHanded(nv_state, p0, written, "off"),
         p \notin {"done", "idle"}
  PROVE  NvInv'
<1>1. Moves(p, thread[1].rec, thread[1].seen)
  BY OneThread DEF FromPlace
<1> QED BY <1>1, ThreadStays

LEMMA SyncCheckEraseKeeps ==
  ASSUME NumThreads = 1, NvInv, NEW t \in Threads, SyncCheckErase(t)
  PROVE  NvInv'
<1>1. t = 1 /\ FromPlace("check")
  BY StepOf DEF SyncCheckErase
<1>2. PICK st \in NvStates : st = nv_state
  BY <1>1 DEF FromPlace
<1>3. PICK w \in 0..NumCells + 1 : w = written
  BY <1>1 DEF FromPlace
<1>4. /\ nv_state' = st /\ written' = w /\ is_update' \in BOOLEAN /\ locked' \in BOOLEAN
      /\ UNCHANGED <<vars, ram, nvrec_init, hook, sent, nv_asserted, completed>>
  BY <1>1, <1>2, <1>3 DEF SyncCheckErase, FromPlace, sinceBoot, flushVars
<1>5. thread[1].rec = RecOf(st)
  BY <1>1, <1>2 DEF FromPlace, Control, OnRecord, Between, ThreadPlaces
<1>6. PICK p \in {"erase", "check2"} : Goto(1, p) /\ (p = "erase" <=> BeginsIn(st))
  BY <1>1, <1>2, <1>5 DEF SyncCheckErase, BeginsIn
<1>7. st # NV(Bak, "DONE")
  BY <1>1, <1>2 DEF FromPlace, Control
<1>8. p = "check2" => WritesIn(st) \/ DrainsIn(st)
  BY <1>6, <1>7, StageOf
<1>9. Control(st, p, thread[1].rec, thread[1].seen, w, "off")
  BY <1>1, <1>2, <1>3, <1>5, <1>6, <1>7, <1>8 DEF FromPlace, Control, OnRecord, Between
<1>10. /\ EraseHanded(st, p) <=> EraseHanded(nv_state, "check")
       /\ PagesHanded(st, p, w, "off") = PagesHanded(nv_state, "check", written, "off")
  BY <1>2, <1>3, <1>6 DEF EraseHanded, PagesHanded
<1>11. p \in ThreadPlaces /\ p \notin {"done", "idle"}
  BY <1>6 DEF ThreadPlaces
<1> QED BY <1>1, <1>2, <1>3, <1>4, <1>6, <1>9, <1>10, <1>11, GotoStays

LEMMA SyncErasedKeeps ==
  ASSUME NumThreads = 1, NvInv, NEW t \in Threads, SyncErased(t)
  PROVE  NvInv'
<1>1. t = 1 /\ FromPlace("erased")
  BY StepOf DEF SyncErased
<1>2. PICK rec \in {Main, Bak} : rec = RecOf(nv_state)
  BY <1>1 DEF FromPlace
<1>3. PICK st : st = NV(rec, "ERASED")
  OBVIOUS
<1>4. PICK w \in 0..NumCells + 1 : w = written
  BY <1>1 DEF FromPlace
<1>5. thread[1].rec = rec /\ BeginsIn(nv_state)
  BY <1>1, <1>2 DEF FromPlace, Control, OnRecord, Between, ThreadPlaces
<1>6. /\ nv_state' = st /\ written' = w /\ is_update' \in BOOLEAN /\ locked' \in BOOLEAN
      /\ UNCHANGED <<vars, ram, nvrec_init, hook, sent, nv_asserted, completed>>
      /\ Goto(1, "check2")
  BY <1>1, <1>3, <1>4, <1>5 DEF SyncErased, FromPlace, sinceBoot
<1>7. st \in NvStates /\ RecOf(st) = rec /\ WritesIn(st) /\ ~BeginsIn(st) /\ ~DrainsIn(st)
  BY <1>2, <1>3, Stages DEF NvStates, NvSteps, StageIs
<1>8. st # NV(Bak, "WRITTING") /\ st # NV(Bak, "DONE")
  BY <1>3, SameNV
<1>9. Control(st, "check2", thread[1].rec, thread[1].seen, w, "off")
  BY <1>5, <1>7, <1>8 DEF Control, OnRecord, Between
<1>10. ~DrainsIn(nv_state)
  BY <1>1, <1>5, StageOf DEF FromPlace
<1>11. /\ EraseHanded(st, "check2") <=> EraseHanded(nv_state, "erased")
       /\ PagesHanded(st, "check2", w, "off") = PagesHanded(nv_state, "erased", written, "off")
  BY <1>7, <1>10 DEF EraseHanded, PagesHanded
<1>12. "check2" \in ThreadPlaces /\ "check2" \notin {"done", "idle"}
  BY DEF ThreadPlaces
<1> QED BY <1>1, <1>2, <1>4, <1>6, <1>7, <1>9, <1>11, <1>12, GotoStays

LEMMA SyncCheckWriteKeeps ==
  ASSUME NumThreads = 1, NvInv, NEW t \in Threads, SyncCheckWrite(t)
  PROVE  NvInv'
<1>1. t = 1 /\ FromPlace("check2")
  BY StepOf DEF SyncCheckWrite
<1>2. PICK st \in NvStates : st = nv_state
  BY <1>1 DEF FromPlace
<1>3. PICK w \in 0..NumCells + 1 : w = written
  BY <1>1 DEF FromPlace
<1>4. /\ nv_state' = st /\ written' = w /\ is_update' \in BOOLEAN /\ locked' \in BOOLEAN
      /\ UNCHANGED <<vars, ram, nvrec_init, hook, sent, nv_asserted, completed>>
  BY <1>1, <1>2, <1>3 DEF SyncCheckWrite, FromPlace, sinceBoot, flushVars
<1>5. thread[1].rec = RecOf(st) /\ RecOf(st) \in {Main, Bak}
  BY <1>1, <1>2 DEF FromPlace, Control, OnRecord, Between, ThreadPlaces
<1>6. PICK p \in {"drain", "write", "start"} :
        /\ Goto(1, p)
        /\ p = "drain" => ~WritesIn(st)
        /\ p = "write" => WritesIn(st) /\ RecOf(st) = Main
        /\ p = "start" => WritesIn(st) /\ RecOf(st) = Bak
  BY <1>1, <1>2, <1>5 DEF SyncCheckWrite, WritesIn
<1>7. st # NV(Bak, "DONE") /\ (WritesIn(st) \/ DrainsIn(st))
  BY <1>1, <1>2 DEF FromPlace, Control
<1>8. Control(st, p, thread[1].rec, thread[1].seen, w, "off")
  BY <1>1, <1>2, <1>3, <1>5, <1>6, <1>7 DEF FromPlace, Control, OnRecord, Between
<1>9. /\ EraseHanded(st, p) <=> EraseHanded(nv_state, "check2")
      /\ PagesHanded(st, p, w, "off") = PagesHanded(nv_state, "check2", written, "off")
  BY <1>2, <1>3, <1>6 DEF EraseHanded, PagesHanded
<1>10. p \in ThreadPlaces /\ p \notin {"done", "idle"}
  BY <1>6 DEF ThreadPlaces
<1> QED BY <1>1, <1>2, <1>3, <1>4, <1>6, <1>8, <1>9, <1>10, GotoStays

LEMMA SyncQueuedKeeps ==
  ASSUME NumThreads = 1, NvInv, NEW t \in Threads, SyncQueued(t)
  PROVE  NvInv'
<1>1. t = 1 /\ FromPlace("queued")
  BY StepOf DEF SyncQueued
<1>2. PICK st \in NvStates : st = nv_state
  BY <1>1 DEF FromPlace
<1>3. PICK w \in 0..NumCells + 1 : w = written
  BY <1>1 DEF FromPlace
<1>4. /\ nv_state' = st /\ written' = w /\ is_update' \in BOOLEAN /\ locked' \in BOOLEAN
      /\ UNCHANGED <<vars, ram, nvrec_init, hook, sent, nv_asserted, completed>>
      /\ Goto(1, "written")
  BY <1>1, <1>2, <1>3 DEF SyncQueued, FromPlace, sinceBoot
<1>5. thread[1].rec = RecOf(st) /\ WritesIn(st) /\ st # NV(Bak, "DONE")
  BY <1>1, <1>2 DEF FromPlace, Control, OnRecord, Between, ThreadPlaces
<1>6. Control(st, "written", thread[1].rec, thread[1].seen, w, "off")
  BY <1>5 DEF Control, OnRecord, Between
<1>7. /\ EraseHanded(st, "written") <=> EraseHanded(nv_state, "queued")
      /\ PagesHanded(st, "written", w, "off") = PagesHanded(nv_state, "queued", written, "off")
  BY <1>2 DEF EraseHanded, PagesHanded
<1>8. "written" \in ThreadPlaces /\ "written" \notin {"done", "idle"}
  BY DEF ThreadPlaces
<1> QED BY <1>1, <1>2, <1>3, <1>4, <1>6, <1>7, <1>8, GotoStays

LEMMA SyncWrittenKeeps ==
  ASSUME NumThreads = 1, NvInv, NEW t \in Threads, SyncWritten(t)
  PROVE  NvInv'
<1>1. t = 1 /\ FromPlace("written")
  BY StepOf DEF SyncWritten
<1>2. PICK rec \in {Main, Bak} : rec = RecOf(nv_state)
  BY <1>1 DEF FromPlace
<1>3. PICK st : st = NV(rec, "WRITTEN")
  OBVIOUS
<1>4. PICK w \in 0..NumCells + 1 : w = written
  BY <1>1 DEF FromPlace
<1>5. thread[1].rec = rec /\ WritesIn(nv_state)
  BY <1>1, <1>2 DEF FromPlace, Control, OnRecord, Between, ThreadPlaces
<1>6. /\ nv_state' = st /\ written' = w /\ is_update' \in BOOLEAN /\ locked' \in BOOLEAN
      /\ UNCHANGED <<vars, ram, nvrec_init, hook, sent, nv_asserted, completed>>
      /\ Goto(1, "drain")
  BY <1>1, <1>3, <1>4, <1>5 DEF SyncWritten, FromPlace, sinceBoot
<1>7. st \in NvStates /\ RecOf(st) = rec /\ ~BeginsIn(st) /\ DrainsIn(st)
  BY <1>2, <1>3, Stages DEF NvStates, NvSteps, StageIs
<1>8. st # NV(Bak, "WRITTING") /\ st # NV(Bak, "DONE")
  BY <1>3, SameNV
<1>9. Control(st, "drain", thread[1].rec, thread[1].seen, w, "off")
  BY <1>5, <1>7, <1>8 DEF Control, OnRecord, Between
<1>10. ~BeginsIn(nv_state)
  BY <1>1, <1>5, StageOf DEF FromPlace
<1>11. /\ EraseHanded(st, "drain") <=> EraseHanded(nv_state, "written")
       /\ PagesHanded(st, "drain", w, "off") = PagesHanded(nv_state, "written", written, "off")
  BY <1>7, <1>10 DEF EraseHanded, PagesHanded
<1>12. "drain" \in ThreadPlaces /\ "drain" \notin {"done", "idle"}
  BY DEF ThreadPlaces
<1> QED BY <1>1, <1>2, <1>4, <1>6, <1>7, <1>9, <1>11, <1>12, GotoStays

LEMMA SyncStartBakKeeps ==
  ASSUME NumThreads = 1, NvInv, NEW t \in Threads, SyncStartBak(t)
  PROVE  NvInv'
<1>1. t = 1 /\ FromPlace("start")
  BY StepOf DEF SyncStartBak
<1>2. PICK st : st = NV(Bak, "WRITTING")
  OBVIOUS
<1>3. thread[1].rec = Bak /\ RecOf(nv_state) = Bak /\ WritesIn(nv_state)
  BY <1>1 DEF FromPlace, Control, OnRecord, Between, ThreadPlaces
<1>4. /\ nv_state' = st /\ written' = 0 /\ is_update' \in BOOLEAN /\ locked' \in BOOLEAN
      /\ UNCHANGED <<vars, ram, nvrec_init, hook, sent, nv_asserted, completed>>
      /\ Goto(1, "copy")
  BY <1>1, <1>2 DEF SyncStartBak, FromPlace, sinceBoot
<1>5. /\ st \in NvStates /\ RecOf(st) = Bak /\ ~BeginsIn(st) /\ ~DrainsIn(st)
      /\ 0 \in 0..NumCells + 1 /\ 0 \in 0..NumCells - 1
  BY <1>2, Stages, CellsAssumption DEF NvStates, NvSteps, StageIs
<1>6. st # NV(Bak, "DONE")
  BY <1>2, SameNV
<1>7. Control(st, "copy", thread[1].rec, thread[1].seen, 0, "off")
  BY <1>2, <1>3, <1>5, <1>6 DEF Control, OnRecord, Between
<1>8. ~BeginsIn(nv_state) /\ ~DrainsIn(nv_state)
  BY <1>1, <1>3, StageOf DEF FromPlace
<1>9. /\ EraseHanded(st, "copy") <=> EraseHanded(nv_state, "start")
      /\ PagesHanded(st, "copy", 0, "off") = PagesHanded(nv_state, "start", written, "off")
  BY <1>5, <1>8 DEF EraseHanded, PagesHanded
<1>10. "copy" \in ThreadPlaces /\ "copy" \notin {"done", "idle"}
  BY DEF ThreadPlaces
<1> QED BY <1>1, <1>3, <1>4, <1>5, <1>7, <1>9, <1>10, GotoStays

LEMMA SyncLoadSizeKeeps ==
  ASSUME NumThreads = 1, NvInv, NEW t \in Threads, SyncLoadSize(t)
  PROVE  NvInv'
<1>1. t = 1 /\ FromPlace("load")
  BY StepOf DEF SyncLoadSize
<1>2. PICK st \in NvStates : st = nv_state
  BY <1>1 DEF FromPlace
<1>3. PICK w \in 0..NumCells + 1 : w = written
  BY <1>1 DEF FromPlace
<1>4. /\ nv_state' = st /\ written' = w /\ is_update' \in BOOLEAN /\ locked' \in BOOLEAN
      /\ UNCHANGED <<vars, ram, nvrec_init, hook, sent, nv_asserted, completed>>
  BY <1>1, <1>2, <1>3 DEF SyncLoadSize, FromPlace, sinceBoot, flushVars
<1>5. /\ thread[1].rec = RecOf(st) /\ st = NV(Bak, "WRITTING") /\ w \in 0..NumCells - 1
      /\ st # NV(Bak, "DONE")
  BY <1>1, <1>2, <1>3 DEF FromPlace, Control, OnRecord, Between, ThreadPlaces
<1>6. w \in 0..NumCells
  BY <1>5, CellsAssumption
<1>7. Moves("store", thread[1].rec, w)
  BY <1>1, <1>3, <1>6, OneThread DEF FromPlace, SyncLoadSize
<1>8. Control(st, "store", thread[1].rec, w, w, "off")
  BY <1>5 DEF Control, OnRecord, Between
<1>9. /\ EraseHanded(st, "store") <=> EraseHanded(nv_state, "load")
      /\ PagesHanded(st, "store", w, "off") = PagesHanded(nv_state, "load", written, "off")
  BY <1>2, <1>3 DEF EraseHanded, PagesHanded
<1> QED BY <1>1, <1>2, <1>3, <1>4, <1>7, <1>8, <1>9, ThreadStays

LEMMA SyncStoreSizeKeeps ==
  ASSUME NumThreads = 1, NvInv, NEW t \in Threads, SyncStoreSize(t)
  PROVE  NvInv'
<1>1. t = 1 /\ FromPlace("store")
  BY StepOf DEF SyncStoreSize
<1>2. PICK st \in NvStates : st = nv_state
  BY <1>1 DEF FromPlace
<1>3. PICK w : w = written + 1
  OBVIOUS
<1>4. /\ thread[1].rec = RecOf(st) /\ st = NV(Bak, "WRITTING") /\ written \in 0..NumCells - 1
      /\ thread[1].seen = written /\ st # NV(Bak, "DONE")
  BY <1>1, <1>2 DEF FromPlace, Control, OnRecord, Between, ThreadPlaces
<1>5. w \in 0..NumCells + 1 /\ (w # NumCells => w \in 0..NumCells - 1)
  BY <1>3, <1>4, CellsAssumption
<1>6. /\ nv_state' = st /\ written' = w /\ is_update' \in BOOLEAN /\ locked' \in BOOLEAN
      /\ UNCHANGED <<vars, ram, nvrec_init, hook, sent, nv_asserted, completed>>
  BY <1>1, <1>2, <1>3, <1>4 DEF SyncStoreSize, FromPlace, sinceBoot
<1>7. PICK p \in {"written", "copy"} : Goto(1, p) /\ (p = "written" <=> w = NumCells)
  BY <1>1, <1>6 DEF SyncStoreSize
<1>8. WritesIn(st) /\ ~BeginsIn(st) /\ ~DrainsIn(st)
  BY <1>4, Stages DEF StageIs
<1>9. Control(st, p, thread[1].rec, thread[1].seen, w, "off")
  BY <1>4, <1>5, <1>7, <1>8 DEF Control, OnRecord, Between
<1>10. /\ EraseHanded(st, p) <=> EraseHanded(nv_state, "store")
       /\ PagesHanded(st, p, w, "off") = PagesHanded(nv_state, "store", written, "off")
  BY <1>2, <1>3, <1>7, <1>8 DEF EraseHanded, PagesHanded
<1>11. p \in ThreadPlaces /\ p \notin {"done", "idle"}
  BY <1>7 DEF ThreadPlaces
<1> QED BY <1>1, <1>2, <1>5, <1>6, <1>7, <1>9, <1>10, <1>11, GotoStays

---------------------------------------------------------------------------
(* The end of a save.                                                       *)

LEMMA SavedIs ==
  ASSUME NumThreads = 1, NvInv, nvrec_init, DrainsIn(nv_state) \/ Place = "idle",
         queue[NvMod] = <<>>
  PROVE  flash[RecOf(nv_state)] = Image(sent)
<1>1. /\ nv_state \in NvStates /\ RecOf(nv_state) \in {Main, Bak} /\ QueueKept
      /\ Control(nv_state, Place, thread[1].rec, thread[1].seen, written, hook)
      /\ Saves(nv_state, Place, written, hook, queue[NvMod], cur[NvMod], hal.next,
               flash[RecOf(nv_state)], sent)
  BY InvGives
<1>2. EraseHanded(nv_state, Place)
  <2>1. Place = "idle" => nv_state = NV(Bak, "DONE")
    BY <1>1 DEF Control
  <2> QED BY <1>1, <2>1, StageOf DEF EraseHanded
<1>3. PagesHanded(nv_state, Place, written, hook) = NumCells
  BY DEF PagesHanded
<1>4. PICK image \in Images : image = flash[RecOf(nv_state)]
  <2>1. flash \in [Sectors -> Images]
    <3>1. TypeOK
      BY <1>1 DEF QueueKept, IInv
    <3> QED BY <3>1 DEF TypeOK, ApiTypeOK, HalTypeOK
  <2>2. RecOf(nv_state) \in Sectors
    BY <1>1, NvModIs
  <2> QED BY <2>1, <2>2
<1>5. Handed(<<>>, cur[NvMod], hal.next, image, RecOf(nv_state), NumCells, sent)
  BY <1>1, <1>2, <1>3, <1>4 DEF Saves
<1> QED BY <1>4, <1>5, AllHanded

LEMMA ImageIsValid ==
  ASSUME NEW s, NEW v \in Values, flash[s] = Image(v)
  PROVE  Valid(s) /\ VersionIn(s) = v
<1>1. 1 \in Cells
  BY CellsAssumption DEF Cells
<1> QED BY <1>1 DEF Valid, VersionIn, Image

\* From one record to the next, or the end of the whole save.
LEMMA DoneHolds ==
  ASSUME NumThreads = 1, NvInv, nvrec_init, UNCHANGED <<vars, ram, sent>>,
         queue[NvMod] = <<>>, flash[RecOf(nv_state)] = Image(sent),
         NEW st, NEW p, NEW r, NEW s, NEW w, Stands(st, p, r, s, w, "off"),
         BeginsIn(st), p # "erased",
         \/ RecOf(nv_state) = Main /\ RecOf(st) = Bak /\ completed' = completed
         \/ RecOf(nv_state) = Bak /\ RecOf(st) = Main /\ completed' = sent
  PROVE  NvInv'
<1>1. QueueKept' /\ Registered(NvMod)'
  <2>1. IInv'
    BY NextIInv DEF NvInv
  <2> QED BY <2>1, InvGives DEF vars, apiVars, QueueKept, Homed, LockedIsSuspended, Registered
<1>2. Saves(st, p, w, "off", queue'[NvMod], cur'[NvMod], hal'.next, flash'[RecOf(st)], sent')
  BY DEF Saves, EraseHanded, vars, apiVars
<1>3. /\ RecordsInv /\ ram \in Values /\ sent \in Values /\ completed \in Values
  BY InvGives
<1>4. /\ \A o \in {Main, Bak} : Valid(o) => VersionIn(o) >= completed
      /\ completed <= sent /\ sent <= ram
      /\ completed = Default \/ Valid(Main) \/ Valid(Bak)
  BY <1>3 DEF RecordsInv
<1>5. \A o \in {Main, Bak} : (Valid(o)' <=> Valid(o)) /\ VersionIn(o)' = VersionIn(o)
  BY DEF Valid, VersionIn, vars, halVars
<1>6. flash' = flash /\ nv_state' = st /\ Main # Bak
  BY NvModIs DEF vars, halVars, Stands
<1>7. CASE RecOf(nv_state) = Main /\ RecOf(st) = Bak /\ completed' = completed
  <2>1. Valid(Main) /\ flash[Main] = Image(sent)
    BY <1>3, <1>7, ImageIsValid
  <2>2. RecordsInv'
    BY <1>4, <1>5, <1>6, <1>7, <2>1 DEF RecordsInv
  <2> QED BY <1>1, <1>2, <2>2, InvHolds
<1>8. CASE RecOf(nv_state) = Bak /\ RecOf(st) = Main /\ completed' = sent
  <2>1. flash[Main] = Image(sent)
    BY <1>3, <1>6, <1>8 DEF RecordsInv
  <2>2. \A o \in {Main, Bak} : Valid(o) /\ VersionIn(o) = sent
    BY <1>3, <1>8, <2>1, ImageIsValid
  <2>3. sent >= sent /\ sent <= sent
    BY <1>3, RecordAssumption
  <2>4. RecordsInv'
    BY <1>4, <1>5, <1>6, <1>8, <2>2, <2>3 DEF RecordsInv
  <2> QED BY <1>1, <1>2, <2>4, InvHolds
<1> QED BY <1>7, <1>8

LEMMA SyncDoneKeeps ==
  ASSUME NumThreads = 1, NvInv, NEW t \in Threads, SyncDone(t)
  PROVE  NvInv'
<1>1. t = 1 /\ FromPlace("done")
  BY StepOf DEF SyncDone
<1>2. PICK rec \in {Main, Bak} : rec = RecOf(nv_state)
  BY <1>1 DEF FromPlace
<1>3. PICK st : st = NV(rec, "DONE")
  OBVIOUS
<1>4. PICK w \in 0..NumCells + 1 : w = written
  BY <1>1 DEF FromPlace
<1>5. thread[1].rec = rec /\ DrainsIn(nv_state)
  BY <1>1, <1>2 DEF FromPlace, Control, OnRecord, Between, ThreadPlaces
<1>6. /\ nv_state' = st /\ written' = w /\ is_update' \in BOOLEAN /\ locked' \in BOOLEAN
      /\ UNCHANGED <<vars, ram, nvrec_init, hook, sent, nv_asserted, completed>>
      /\ Goto(1, IF rec = Main THEN "second" ELSE "idle")
  BY <1>1, <1>3, <1>4, <1>5 DEF SyncDone, FromPlace, sinceBoot
<1>7. queue[NvMod] = <<>> /\ nvrec_init /\ hook = "off"
  <2>1. nvrec_init /\ Place = "done" /\ hook = "off"
    BY <1>1 DEF FromPlace
  <2> QED BY <2>1, InvGives DEF Saves
<1>8. /\ nvrec_init = TRUE /\ nv_asserted = FALSE
      /\ ram \in Values /\ sent \in Values /\ completed \in Values
  BY <1>7, InvGives
<1>9. st \in NvStates
  BY <1>3 DEF NvStates, NvSteps
<1>10. CASE rec = Main
  <2>1. Moves("second", rec, thread[1].seen)
    BY <1>1, <1>5, <1>6, <1>10, OneThread DEF FromPlace, ThreadPlaces
  <2>2. RecOf(st) = Bak /\ BeginsIn(st) /\ StartOf(Bak) = st
    <3>1. StartOf(Bak) = st
      BY <1>3, <1>10, RecordSectors DEF StartOf
    <3> QED BY <3>1, Stages DEF StageIs
  <2>3. st # NV(Bak, "WRITTING") /\ st # NV(Bak, "DONE")
    BY <1>3, <1>10, SameNV, RecordSectors
  <2>4. Control(st, "second", rec, thread[1].seen, w, "off")
    BY <2>3 DEF Control, OnRecord, Between
  <2>5. Stands(st, "second", rec, thread[1].seen, w, "off")
    BY <1>6, <1>7, <1>8, <1>9, <2>1, <2>4 DEF Stands
  <2>6. flash[RecOf(nv_state)] = Image(sent)
    BY <1>5, <1>7, SavedIs
  <2> QED BY <1>2, <1>6, <1>7, <1>10, <2>2, <2>5, <2>6, DoneHolds
<1>11. CASE rec = Bak
  <2>1. Goto(1, "idle") /\ "idle" \in ThreadPlaces
    BY <1>6, <1>11, RecordSectors DEF ThreadPlaces
  <2>2. Moves("idle", thread[1].rec, thread[1].seen)
    BY <1>1, <2>1, OneThread DEF FromPlace
  <2>3. RecOf(st) = Bak /\ ~BeginsIn(st) /\ ~DrainsIn(st)
    BY <1>3, <1>11, Stages DEF StageIs
  <2>4. st # NV(Bak, "WRITTING")
    BY <1>3, SameNV
  <2>5. Control(st, "idle", thread[1].rec, thread[1].seen, w, "off")
    BY <1>3, <1>5, <1>11, <2>3, <2>4 DEF Control, OnRecord, Between
  <2>6. ~BeginsIn(nv_state)
    BY <1>1, <1>5, StageOf DEF FromPlace
  <2>7. /\ EraseHanded(st, "idle") <=> EraseHanded(nv_state, "done")
        /\ PagesHanded(st, "idle", w, "off") = PagesHanded(nv_state, "done", written, "off")
    BY <1>5, <2>3, <2>6 DEF EraseHanded, PagesHanded
  <2>8. RecOf(st) = RecOf(nv_state)
    BY <1>2, <1>11, <2>3
  <2> QED BY <1>1, <1>4, <1>6, <1>7, <1>9, <2>2, <2>5, <2>7, <2>8, ThreadStays
<1> QED BY <1>10, <1>11

LEMMA SyncIdleKeeps ==
  ASSUME NumThreads = 1, NvInv, NEW t \in Threads, SyncIdle(t)
  PROVE  NvInv'
<1>1. t = 1 /\ FromPlace("idle")
  BY StepOf DEF SyncIdle
<1>2. nv_state = NV(Bak, "DONE") /\ Place = "idle" /\ hook = "off" /\ nvrec_init
  BY <1>1 DEF FromPlace, Control
<1>3. PICK w \in 0..NumCells + 1 : w = written
  BY <1>1 DEF FromPlace
<1>4. /\ nv_state' = IDLE /\ written' = w /\ is_update' \in BOOLEAN /\ locked' \in BOOLEAN
      /\ UNCHANGED <<vars, ram, nvrec_init, hook, sent, nv_asserted>>
      /\ completed' = sent /\ Goto(1, "loop")
  BY <1>1, <1>2, <1>3 DEF SyncIdle, FromPlace, sinceBoot
<1>5. queue[NvMod] = <<>> /\ nvrec_init = TRUE /\ nv_asserted = FALSE
      /\ ram \in Values /\ sent \in Values /\ completed \in Values
  BY <1>2, InvGives DEF Saves
<1>6. Moves("loop", thread[1].rec, thread[1].seen)
  BY <1>1, <1>4, OneThread DEF FromPlace, ThreadPlaces
<1>7. /\ RecOf(nv_state) = Bak
      /\ IDLE \in NvStates /\ RecOf(IDLE) = Main /\ BeginsIn(IDLE)
      /\ IDLE # NV(Bak, "WRITTING") /\ IDLE # NV(Bak, "DONE")
  <2>1. StartOf(Main) = IDLE
    BY DEF StartOf
  <2>2. IDLE # NV(Bak, "WRITTING") /\ IDLE # NV(Bak, "DONE")
    BY SameNV DEF IDLE
  <2> QED BY <1>2, <2>1, <2>2, Stages DEF StageIs, NvStates
<1>8. Control(IDLE, "loop", thread[1].rec, thread[1].seen, w, "off")
  BY <1>7 DEF Control, OnRecord, Between
<1>9. Stands(IDLE, "loop", thread[1].rec, thread[1].seen, w, "off")
  BY <1>2, <1>4, <1>5, <1>6, <1>7, <1>8 DEF Stands
<1>10. flash[RecOf(nv_state)] = Image(sent)
  BY <1>2, <1>5, SavedIs
<1> QED BY <1>2, <1>4, <1>5, <1>7, <1>9, <1>10, DoneHolds

---------------------------------------------------------------------------
(* The steps that flush the queue.                                          *)

LEMMA FlushStays ==
  ASSUME NumThreads = 1, NvInv, nvrec_init, FlushQueue, UNCHANGED <<ram, sent, completed>>,
         NEW st, st = nv_state, NEW p, NEW r, NEW s, NEW w, NEW h, h # "copy",
         Stands(st, p, r, s, w, h),
         EraseHanded(st, p) <=> EraseHanded(st, Place),
         PagesHanded(st, p, w, h) = PagesHanded(st, Place, written, hook),
         p \in {"done", "idle"} => queue'[NvMod] = <<>>
  PROVE  NvInv'
<1>1. PICK rec \in {Main, Bak} : rec = RecOf(nv_state)
  BY InvGives
<1>2. PICK k \in Nat : k = PagesHanded(nv_state, Place, written, hook)
  BY InvGives
<1>3. /\ QueueKept /\ Registered(NvMod) /\ RecordsInv /\ sent \in Values
      /\ {ram, sent, completed} \subseteq Values
      /\ Saves(nv_state, Place, written, hook, queue[NvMod], cur[NvMod], hal.next,
               flash[RecOf(nv_state)], sent)
  BY InvGives
<1>4. QueueKept' /\ Registered(NvMod)'
  BY <1>3, FlushKeepsQueue
<1>5. /\ IF EraseHanded(st, p)
         THEN Handed(queue'[NvMod], cur'[NvMod], hal'.next, flash'[rec], rec, k, sent)
         ELSE queue'[NvMod] = <<>>
      /\ OthersStay(rec)
      /\ flash'[rec] = flash[rec] \/ OfVersion(flash'[rec], sent)
  <2>1. CASE EraseHanded(st, Place)
    <3>1. Handed(queue[NvMod], cur[NvMod], hal.next, flash[rec], rec, k, sent)
      BY <1>1, <1>2, <1>3, <2>1 DEF Saves
    <3>2. SavesOn(rec, k, sent) /\ OthersStay(rec)
      BY <1>3, <3>1, FlushHands
    <3> QED BY <2>1, <3>2 DEF SavesOn
  <2>2. CASE ~EraseHanded(st, Place)
    <3>1. queue[NvMod] = <<>>
      BY <1>3, <2>2 DEF Saves
    <3>2. queue'[NvMod] = <<>> /\ \A o \in {Main, Bak} : flash'[o] = flash[o]
      BY <1>3, <3>1, FlushIdle
    <3> QED BY <2>2, <3>2 DEF OthersStay
  <2> QED BY <2>1, <2>2
<1>6. Saves(st, p, w, h, queue'[NvMod], cur'[NvMod], hal'.next, flash'[RecOf(st)], sent')
  BY <1>1, <1>2, <1>5 DEF Saves
<1>7. RecordsInv'
  <2>1. nv_state' = st /\ nvrec_init'
    BY DEF Stands
  <2>2. ram <= ram'
    BY <1>3, RecordAssumption
  <2> QED BY <1>1, <1>3, <1>5, <2>1, <2>2, RecordsStay
<1> QED BY <1>4, <1>6, <1>7, InvHolds

\* The step of the thread that flushes: from one place to another of the same stage.
LEMMA FlushGoes ==
  ASSUME NumThreads = 1, NvInv, NEW p0, FromPlace(p0), FlushQueue,
         UNCHANGED <<flushVars, sinceBoot, locked, nv_asserted, completed>>,
         NEW p \in ThreadPlaces, Goto(1, p),
         Control(nv_state, p, thread[1].rec, thread[1].seen, written, "off"),
         EraseHanded(nv_state, p) <=> EraseHanded(nv_state, p0),
         PagesHanded(nv_state, p, written, "off") = PagesHanded(nv_state, p0, written, "off"),
         p \in {"done", "idle"} => queue'[NvMod] = <<>>
  PROVE  NvInv'
<1>1. nvrec_init /\ hook = "off" /\ Place = p0
  BY DEF FromPlace
<1>2. /\ nvrec_init = TRUE /\ nv_asserted = FALSE
      /\ ram \in Values /\ sent \in Values /\ completed \in Values
  BY <1>1, InvGives
<1>3. Moves(p, thread[1].rec, thread[1].seen)
  BY OneThread DEF FromPlace
<1>4. PICK st : st = nv_state
  OBVIOUS
<1>5. Stands(st, p, thread[1].rec, thread[1].seen, written, "off")
  BY <1>1, <1>2, <1>3, <1>4 DEF Stands, FromPlace, flushVars, sinceBoot
<1> QED BY <1>1, <1>4, <1>5, FlushStays DEF sinceBoot

LEMMA SyncFullKeeps ==
  ASSUME NumThreads = 1, NvInv, NEW t \in Threads, SyncFulls(t)
  PROVE  NvInv'
<1>1. PICK full, type, again :
        /\ \/ full = "erase_full" /\ again = "erase"
           \/ full = "write_full" /\ again = "write"
           \/ full = "copy_full" /\ again = "copy"
        /\ SyncFull(t, full, type, again)
  BY DEF SyncFulls
<1>2. t = 1 /\ FromPlace(full)
  BY <1>1, StepOf DEF SyncFull
<1>3. PICK p \in {full, again} : Goto(1, p)
  BY <1>1, <1>2 DEF SyncFull
<1>4. FlushQueue /\ UNCHANGED <<flushVars, sinceBoot, locked, nv_asserted, completed>>
  BY <1>1 DEF SyncFull
<1>5. Control(nv_state, p, thread[1].rec, thread[1].seen, written, "off")
  BY <1>1, <1>2, <1>3 DEF FromPlace, Control, OnRecord, Between, ThreadPlaces
<1>6. /\ p \in ThreadPlaces /\ p \notin {"done", "idle"}
      /\ EraseHanded(nv_state, p) <=> EraseHanded(nv_state, full)
      /\ PagesHanded(nv_state, p, written, "off") = PagesHanded(nv_state, full, written, "off")
  BY <1>1, <1>3 DEF ThreadPlaces, EraseHanded, PagesHanded
<1> QED BY <1>2, <1>3, <1>4, <1>5, <1>6, FlushGoes

LEMMA SyncDrainKeeps ==
  ASSUME NumThreads = 1, NvInv, NEW t \in Threads, SyncDrain(t)
  PROVE  NvInv'
<1>1. t = 1 /\ FromPlace("drain")
  BY StepOf DEF SyncDrain
<1>2. PICK p \in {"drain", "done"} : Goto(1, p) /\ (p = "done" => queue'[NvMod] = <<>>)
  BY <1>1 DEF SyncDrain, Used
<1>3. FlushQueue /\ UNCHANGED <<flushVars, sinceBoot, locked, nv_asserted, completed>>
  BY DEF SyncDrain
<1>4. Control(nv_state, p, thread[1].rec, thread[1].seen, written, "off")
  BY <1>1, <1>2 DEF FromPlace, Control, OnRecord, Between, ThreadPlaces
<1>5. DrainsIn(nv_state)
  BY <1>1 DEF FromPlace, Control
<1>6. /\ p \in ThreadPlaces /\ p # "idle"
      /\ EraseHanded(nv_state, p) <=> EraseHanded(nv_state, "drain")
      /\ PagesHanded(nv_state, p, written, "off") = PagesHanded(nv_state, "drain", written, "off")
  BY <1>2, <1>5 DEF ThreadPlaces, EraseHanded, PagesHanded
<1> QED BY <1>1, <1>2, <1>3, <1>4, <1>6, FlushGoes

\* The flush of another module's user, and the flushes of the hook.
LEMMA FlushBeside ==
  ASSUME NumThreads = 1, NvInv, nvrec_init, FlushQueue, hook # "copy",
         UNCHANGED <<flushVars, ram, nvrec_init, thread, locked, nv_asserted, sent, completed>>,
         hook' = hook \/ hook' = "off"
  PROVE  NvInv'
<1>1. /\ nvrec_init = TRUE /\ nv_asserted = FALSE /\ NvTypeOK
      /\ nv_state \in NvStates /\ written \in 0..NumCells + 1
      /\ is_update \in BOOLEAN /\ locked \in BOOLEAN
      /\ ram \in Values /\ sent \in Values /\ completed \in Values
      /\ hook \in {"off", "flush", "copy"}
      /\ Control(nv_state, Place, thread[1].rec, thread[1].seen, written, hook)
      /\ Saves(nv_state, Place, written, hook, queue[NvMod], cur[NvMod], hal.next,
               flash[RecOf(nv_state)], sent)
  BY InvGives
<1>2. Moves(Place, thread[1].rec, thread[1].seen)
  BY <1>1, OneThread
<1>3. PICK st : st = nv_state
  OBVIOUS
<1>4. PICK h \in {"off", "flush"} : h = hook' /\ (h = "off" \/ h = hook)
  BY <1>1
<1>5. Control(st, Place, thread[1].rec, thread[1].seen, written, h)
  BY <1>1, <1>3, <1>4 DEF Control
<1>6. PICK p : p = Place
  OBVIOUS
<1>7. Stands(st, p, thread[1].rec, thread[1].seen, written, h)
  BY <1>1, <1>2, <1>3, <1>4, <1>5, <1>6 DEF Stands, flushVars
<1>8. PagesHanded(st, p, written, h) = PagesHanded(st, Place, written, hook)
  BY <1>4, <1>6 DEF PagesHanded
<1>9. p \in {"done", "idle"} => queue'[NvMod] = <<>>
  BY <1>1, <1>6, FlushIdle, InvGives DEF Saves
<1> QED BY <1>3, <1>4, <1>6, <1>7, <1>8, <1>9, FlushStays

LEMMA HookFlushKeeps ==
  ASSUME NumThreads = 1, NvInv, HookFlush
  PROVE  NvInv'
<1>1. nvrec_init
  BY DEF HookFlush, NvInv, OffInv
<1> QED BY <1>1, FlushBeside DEF HookFlush

LEMMA HookDrainKeeps ==
  ASSUME NumThreads = 1, NvInv, NEW rec, HookDrain(rec)
  PROVE  NvInv'
BY FlushBeside DEF HookDrain, HookStarts, Running, nvVars

LEMMA OtherFlushKeeps ==
  ASSUME NumThreads = 1, NvInv, OtherFlush
  PROVE  NvInv'
BY FlushBeside DEF OtherFlush, Interleaves, Running, nvVars

LEMMA OtherModuleStays ==
  ASSUME NumThreads = 1, NvInv, OtherModule
  PROVE  NvInv'
<1>1. nvrec_init /\ hook = "off"
  BY DEF OtherModule, Interleaves, Running
<1>2. /\ nvrec_init = TRUE /\ nv_asserted = FALSE /\ NvTypeOK /\ QueueKept /\ Registered(NvMod)
      /\ nv_state \in NvStates /\ written \in 0..NumCells + 1
      /\ is_update \in BOOLEAN /\ locked \in BOOLEAN
      /\ ram \in Values /\ sent \in Values /\ completed \in Values
      /\ RecordsInv /\ RecOf(nv_state) \in {Main, Bak}
      /\ Control(nv_state, Place, thread[1].rec, thread[1].seen, written, hook)
      /\ Saves(nv_state, Place, written, hook, queue[NvMod], cur[NvMod], hal.next,
               flash[RecOf(nv_state)], sent)
  BY <1>1, InvGives
<1>3. /\ QueueKept' /\ Registered(NvMod)' /\ UNCHANGED <<halVars, cur>>
      /\ queue'[NvMod] = queue[NvMod]
  BY <1>2, OtherModuleKeeps
<1>4. UNCHANGED nvVars
  BY DEF OtherModule
<1>5. PICK st : st = nv_state
  OBVIOUS
<1>6. PICK p : p = Place
  OBVIOUS
<1>7. Moves(p, thread[1].rec, thread[1].seen)
  BY <1>2, <1>4, <1>6, OneThread DEF nvVars
<1>8. Stands(st, p, thread[1].rec, thread[1].seen, written, "off")
  BY <1>1, <1>2, <1>4, <1>5, <1>6, <1>7 DEF Stands, nvVars, flushVars
<1>9. Saves(st, p, written, "off", queue'[NvMod], cur'[NvMod], hal'.next, flash'[RecOf(st)],
            sent')
  BY <1>1, <1>2, <1>3, <1>4, <1>5, <1>6 DEF nvVars, halVars
<1>10. RecordsInv'
  BY <1>2, <1>3, <1>4 DEF RecordsInv, Valid, VersionIn, nvVars, flushVars, halVars
<1> QED BY <1>3, <1>8, <1>9, <1>10, InvHolds

---------------------------------------------------------------------------
(* The steps that hand an erase or pages to the queue.                      *)

LEMMA EraseHolds ==
  ASSUME NumThreads = 1, NvInv, nvrec_init, BeginsIn(nv_state), Place # "erased",
         UNCHANGED <<ram, sent, completed>>,
         NEW rec \in {Main, Bak}, rec = RecOf(nv_state), QueueErase(rec),
         NEW st, NEW p, NEW r, NEW s, NEW w, NEW h, Stands(st, p, r, s, w, h), h # "copy",
         RecOf(st) = rec, p \notin {"done", "idle"},
         EraseIsFull(rec) => ~EraseHanded(st, p),
         ~EraseIsFull(rec) => EraseHanded(st, p) /\ PagesHanded(st, p, w, h) = 0
  PROVE  NvInv' /\ Next
<1>1. /\ QueueKept /\ Registered(NvMod) /\ RecordsInv
      /\ {ram, sent, completed} \subseteq Values
      /\ Saves(nv_state, Place, written, hook, queue[NvMod], cur[NvMod], hal.next,
               flash[RecOf(nv_state)], sent)
  BY InvGives
<1>2. queue[NvMod] = <<>>
  BY <1>1 DEF Saves, EraseHanded
<1>3. /\ norflash_api_erase(rec)
      /\ QueueKept' /\ Registered(NvMod)' /\ UNCHANGED <<halVars, cur>>
      /\ EraseIsFull(rec) => queue'[NvMod] = <<>>
      /\ ~EraseIsFull(rec) => queue'[NvMod] = <<ErasingNode(rec)>>
  BY <1>1, <1>2, NvErases
<1>4. Saves(st, p, w, h, queue'[NvMod], cur'[NvMod], hal'.next, flash'[RecOf(st)], sent')
  <2>1. CASE EraseIsFull(rec)
    BY <1>3, <2>1 DEF Saves
  <2>2. CASE ~EraseIsFull(rec)
    <3>1. TypeOK'
      BY <1>3 DEF QueueKept, IInv
    <3>2. cur'[NvMod] \in BOOLEAN /\ rec \in Sectors
      BY <3>1, NvModIs DEF TypeOK, ApiTypeOK
    <3>3. PICK q : q = queue'[NvMod]
      OBVIOUS
    <3>4. q = <<ErasingNode(rec)>>
      BY <1>3, <2>2, <3>3
    <3>5. Handed(q, cur'[NvMod], hal'.next, flash'[rec], rec, 0, sent')
      BY <3>2, <3>4, EraseHands
    <3> QED BY <2>2, <3>3, <3>5 DEF Saves
  <2> QED BY <2>1, <2>2
<1>5. RecordsInv'
  <2>1. nv_state' = st /\ nvrec_init' /\ flash' = flash
    BY <1>3 DEF Stands, halVars
  <2>2. ram <= ram'
    BY <1>1, RecordAssumption
  <2>3. OthersStay(rec) /\ flash'[rec] = flash[rec]
    BY <2>1 DEF OthersStay
  <2> QED BY <1>1, <2>1, <2>2, <2>3, RecordsStay
<1>6. Next
  BY <1>3, NvModIs DEF Next, Client
<1> QED BY <1>3, <1>4, <1>5, <1>6, InvHolds

LEMMA WriteHolds ==
  ASSUME NumThreads = 1, NvInv, nvrec_init, EraseHanded(nv_state, Place),
         UNCHANGED <<ram, completed>>,
         NEW rec \in {Main, Bak}, rec = RecOf(nv_state),
         NEW k \in Nat, k = PagesHanded(nv_state, Place, written, hook),
         NEW v \in Values,
         Handed(queue[NvMod], cur[NvMod], hal.next, flash[rec], rec, k, v),
         NEW lo \in Cells, NEW hi \in Cells, lo = k + 1, lo <= hi, QueueWrite(rec, lo, hi, v),
         NEW st, NEW p, NEW r, NEW s, NEW w, NEW h, Stands(st, p, r, s, w, h),
         RecOf(st) = rec, EraseHanded(st, p), p \notin {"done", "idle"},
         WriteIsFull(rec) => PagesHanded(st, p, w, h) = k /\ sent' = sent /\ h # "copy",
         ~WriteIsFull(rec) => PagesHanded(st, p, w, h) = hi /\ sent' = v,
         sent' = sent \/ (rec = Main /\ sent' = ram)
  PROVE  NvInv' /\ Next
<1>1. /\ QueueKept /\ Registered(NvMod) /\ RecordsInv
      /\ {ram, sent, completed} \subseteq Values
      /\ Saves(nv_state, Place, written, hook, queue[NvMod], cur[NvMod], hal.next,
               flash[RecOf(nv_state)], sent)
  BY InvGives
<1>2. PICK q : q = queue[NvMod]
  OBVIOUS
<1>3. PICK image : image = flash[rec]
  OBVIOUS
<1>4. /\ norflash_api_write(rec, lo, hi, v)
      /\ QueueKept' /\ Registered(NvMod)' /\ UNCHANGED <<halVars, cur>>
      /\ WriteIsFull(rec) => queue'[NvMod] = q
      /\ ~WriteIsFull(rec) => /\ Handed(queue'[NvMod], cur[NvMod], hal.next, image, rec, hi, v)
                              /\ WriteMerged(queue'[NvMod], cur[NvMod], rec)
  BY <1>1, <1>2, <1>3, NvWrites
<1>5. flash' = flash /\ hal' = hal /\ cur' = cur
  BY <1>4 DEF halVars
<1>6. Saves(st, p, w, h, queue'[NvMod], cur'[NvMod], hal'.next, flash'[RecOf(st)], sent')
  <2>1. CASE WriteIsFull(rec)
    <3>1. Handed(q, cur[NvMod], hal.next, flash[rec], rec, k, sent)
      BY <1>1, <1>2 DEF Saves
    <3> QED BY <1>4, <1>5, <2>1, <3>1 DEF Saves
  <2>2. CASE ~WriteIsFull(rec)
    <3>1. h = "copy" => rec = Bak
      <4>1. h = "copy" => st = NV(Bak, "WRITTING")
        BY DEF Stands, Control
      <4>2. RecOf(NV(Bak, "WRITTING")) = Bak
        BY Stages DEF StageIs
      <4> QED BY <4>1, <4>2
    <3> QED BY <1>3, <1>4, <1>5, <2>2, <3>1 DEF Saves
  <2> QED BY <2>1, <2>2
<1>7. RecordsInv'
  <2>1. nv_state' = st /\ nvrec_init'
    BY DEF Stands
  <2>2. /\ \A o \in {Main, Bak} : Valid(o) => VersionIn(o) >= completed
        /\ completed = Default \/ Valid(Main) \/ Valid(Bak)
        /\ completed <= sent /\ sent <= ram
        /\ IF rec = Main THEN completed = Default \/ Valid(Bak) ELSE flash[Main] = Image(sent)
    BY <1>1 DEF RecordsInv
  <2>3. \A o \in {Main, Bak} : (Valid(o)' <=> Valid(o)) /\ VersionIn(o)' = VersionIn(o)
    BY <1>5 DEF Valid, VersionIn
  <2>4. completed <= sent' /\ sent' <= ram
    <3>1. completed \in Int /\ sent \in Int /\ ram \in Int
      BY <1>1, RecordAssumption
    <3> QED BY <2>2, <3>1
  <2>5. rec = Bak => sent' = sent
    BY NvModIs
  <2> QED BY <1>5, <2>1, <2>2, <2>3, <2>4, <2>5, NvModIs DEF RecordsInv
<1>8. Next
  BY <1>4, NvModIs DEF Next, Client
<1> QED BY <1>4, <1>6, <1>7, <1>8, InvHolds

\* What the copy reads: while the backup is being saved the main record is in flash.
LEMMA MainIsRead ==
  ASSUME NumThreads = 1, NvInv, nvrec_init, RecOf(nv_state) = Bak
  PROVE  \A c \in Cells : View(Main)[c] = sent
<1>1. /\ RecordsInv
      /\ Saves(nv_state, Place, written, hook, queue[NvMod], cur[NvMod], hal.next,
               flash[RecOf(nv_state)], sent)
  BY InvGives
<1>2. flash[Main] = Image(sent)
  BY <1>1, NvModIs DEF RecordsInv
<1>3. PICK q : q = queue[NvMod]
  OBVIOUS
<1>4. \A i \in 1..Len(q) : q[i].sec = Bak
  <2>1. CASE q = <<>>
    BY <2>1
  <2>2. CASE q # <<>>
    BY <1>1, <1>3, <2>2 DEF Saves, Handed, NodesFor
  <2> QED BY <2>1, <2>2
<1>5. On(q, Main) = {}
  BY <1>4, NvModIs DEF On
<1>6. View(Main) = Seen(q, flash[Main], Main)
  BY <1>3, ViewIs, NvModIs
<1> QED BY <1>2, <1>5, <1>6 DEF Seen, Image

\* The types of what a step leaves alone.
LEMMA TypesOf ==
  ASSUME NumThreads = 1, NvInv, nvrec_init
  PROVE  /\ nvrec_init = TRUE /\ nv_asserted = FALSE /\ NvTypeOK
         /\ ram \in Values /\ sent \in Values /\ completed \in Values
         /\ is_update \in BOOLEAN /\ locked \in BOOLEAN
BY InvGives

LEMMA SyncQueueEraseKeeps ==
  ASSUME NumThreads = 1, NvInv, NEW t \in Threads, SyncQueueErase(t)
  PROVE  NvInv' /\ Next
<1>1. t = 1 /\ FromPlace("erase")
  BY StepOf DEF SyncQueueErase
<1>2. nvrec_init /\ hook = "off" /\ Place = "erase"
  BY <1>1 DEF FromPlace
<1>3. PICK rec \in {Main, Bak} : rec = RecOf(nv_state)
  BY <1>1 DEF FromPlace
<1>4. PICK st \in NvStates : st = nv_state
  BY <1>1 DEF FromPlace
<1>5. thread[1].rec = rec /\ BeginsIn(st)
  BY <1>1, <1>3, <1>4 DEF FromPlace, Control, OnRecord, Between, ThreadPlaces
<1>6. PICK p \in {"erase_full", "erased"} :
        Goto(1, p) /\ (p = "erase_full" <=> EraseIsFull(rec))
  BY <1>1, <1>5 DEF SyncQueueErase
<1>7. Moves(p, thread[1].rec, thread[1].seen)
  BY <1>1, <1>6, OneThread DEF FromPlace, ThreadPlaces
<1>8. Control(st, p, thread[1].rec, thread[1].seen, written, "off")
  BY <1>1, <1>4, <1>5, <1>6 DEF FromPlace, Control, OnRecord, Between, ThreadPlaces
<1>9. /\ UNCHANGED <<flushVars, sinceBoot, locked, nv_asserted, completed>>
      /\ QueueErase(rec)
  BY <1>1, <1>5 DEF SyncQueueErase
<1>10. Stands(st, p, thread[1].rec, thread[1].seen, written, "off")
  <2>1. written \in 0..NumCells + 1
    BY <1>1 DEF FromPlace
  <2> QED BY <1>2, <1>4, <1>7, <1>8, <1>9, <2>1, TypesOf DEF Stands, flushVars, sinceBoot
<1>11. ~DrainsIn(st)
  BY <1>5, StageOf
<1>12. EraseIsFull(rec) => ~EraseHanded(st, p)
  BY <1>5, <1>6 DEF EraseHanded
<1>13. ~EraseIsFull(rec) => EraseHanded(st, p) /\ PagesHanded(st, p, written, "off") = 0
  BY <1>6, <1>11 DEF EraseHanded, PagesHanded
<1> QED BY <1>2, <1>3, <1>4, <1>5, <1>6, <1>9, <1>10, <1>12, <1>13, EraseHolds DEF sinceBoot

LEMMA SyncWriteMainKeeps ==
  ASSUME NumThreads = 1, NvInv, NEW t \in Threads, SyncWriteMain(t)
  PROVE  NvInv' /\ Next
<1>1. t = 1 /\ FromPlace("write")
  BY StepOf DEF SyncWriteMain
<1>2. nvrec_init /\ hook = "off" /\ Place = "write"
  BY <1>1 DEF FromPlace
<1>3. PICK st \in NvStates : st = nv_state
  BY <1>1 DEF FromPlace
<1>4. thread[1].rec = Main /\ RecOf(st) = Main /\ WritesIn(st)
  BY <1>1, <1>3 DEF FromPlace, Control, OnRecord, Between, ThreadPlaces
<1>5. ~BeginsIn(st) /\ ~DrainsIn(st)
  BY <1>4, StageOf
<1>6. EraseHanded(st, "write") /\ PagesHanded(st, "write", written, hook) = 0
  BY <1>2, <1>5 DEF EraseHanded, PagesHanded
<1>7. Handed(queue[NvMod], cur[NvMod], hal.next, flash[Main], Main, 0, ram)
  <2>1. Handed(queue[NvMod], cur[NvMod], hal.next, flash[Main], Main, 0, sent)
    BY <1>2, <1>3, <1>4, <1>6, InvGives DEF Saves
  <2>2. TypeOK
    BY DEF NvInv, IInv
  <2>3. queue[NvMod] \in Seq(Nodes)
    BY <2>2, NvModIs DEF TypeOK, ApiTypeOK
  <2> QED BY <2>1, <2>3, NothingHanded
<1>8. PICK p \in {"write_full", "queued"} :
        /\ Goto(1, p)
        /\ p = "write_full" <=> WriteIsFull(Main)
        /\ p = "write_full" => sent' = sent
        /\ p = "queued" => sent' = ram
  BY <1>1 DEF SyncWriteMain
<1>9. Moves(p, thread[1].rec, thread[1].seen)
  BY <1>1, <1>8, OneThread DEF FromPlace, ThreadPlaces
<1>10. /\ UNCHANGED <<flushVars, ram, nvrec_init, hook, locked, nv_asserted, completed>>
       /\ QueueWrite(Main, 1, NumCells, ram)
  BY DEF SyncWriteMain
<1>11. Control(st, p, thread[1].rec, thread[1].seen, written, "off")
  BY <1>1, <1>3, <1>4, <1>8 DEF FromPlace, Control, OnRecord, Between, ThreadPlaces
<1>12. Stands(st, p, thread[1].rec, thread[1].seen, written, "off")
  <2>1. written \in 0..NumCells + 1
    BY <1>1 DEF FromPlace
  <2> QED BY <1>2, <1>3, <1>8, <1>9, <1>10, <1>11, <2>1, TypesOf DEF Stands, flushVars
<1>13. /\ EraseHanded(st, p)
       /\ WriteIsFull(Main) =>
            PagesHanded(st, p, written, "off") = 0 /\ sent' = sent /\ "off" # "copy"
       /\ ~WriteIsFull(Main) => PagesHanded(st, p, written, "off") = NumCells /\ sent' = ram
       /\ sent' = sent \/ (Main = Main /\ sent' = ram)
       /\ p \notin {"done", "idle"}
  BY <1>5, <1>8 DEF EraseHanded, PagesHanded
<1>14. /\ 1 \in Cells /\ NumCells \in Cells /\ 1 = 0 + 1 /\ 1 <= NumCells /\ 0 \in Nat
       /\ Main \in {Main, Bak}
  BY CellsAssumption DEF Cells
<1>15. ram \in Values
  BY <1>2, TypesOf
<1> QED BY <1>2, <1>3, <1>4, <1>6, <1>7, <1>10, <1>12, <1>13, <1>14, <1>15, WriteHolds

LEMMA SyncCopyKeeps ==
  ASSUME NumThreads = 1, NvInv, NEW t \in Threads, SyncCopy(t)
  PROVE  NvInv' /\ Next
<1>1. t = 1 /\ FromPlace("copy")
  BY StepOf DEF SyncCopy
<1>2. nvrec_init /\ hook = "off" /\ Place = "copy"
  BY <1>1 DEF FromPlace
<1>3. PICK st \in NvStates : st = nv_state
  BY <1>1 DEF FromPlace
<1>4. PICK w : w = written
  OBVIOUS
<1>5. /\ st = NV(Bak, "WRITTING") /\ w \in 0..NumCells - 1
      /\ thread[1].rec = Bak
  <2>1. thread[1].rec = RecOf(st) /\ st = NV(Bak, "WRITTING") /\ w \in 0..NumCells - 1
    BY <1>1, <1>3, <1>4 DEF FromPlace, Control, OnRecord, Between, ThreadPlaces
  <2> QED BY <2>1, Stages DEF StageIs
<1>6. RecOf(st) = Bak /\ ~BeginsIn(st) /\ ~DrainsIn(st)
  BY <1>5, Stages DEF StageIs
<1>7. EraseHanded(st, "copy") /\ PagesHanded(st, "copy", w, hook) = w
  BY <1>6 DEF EraseHanded, PagesHanded
<1>8. Handed(queue[NvMod], cur[NvMod], hal.next, flash[Bak], Bak, w, sent)
  BY <1>2, <1>3, <1>4, <1>6, <1>7, InvGives DEF Saves
<1>9. /\ w \in Nat /\ w + 1 \in Cells /\ w + 1 <= w + 1 /\ ~(w >= NumCells)
      /\ w \in 0..NumCells + 1
  BY <1>5, CellsAssumption DEF Cells
<1>10. View(Main)[w + 1] = sent
  BY <1>2, <1>3, <1>6, <1>9, MainIsRead
<1>11. /\ QueueWrite(Bak, w + 1, w + 1, sent)
       /\ UNCHANGED <<flushVars, sinceBoot, locked, completed, nv_asserted>>
  BY <1>4, <1>9, <1>10 DEF SyncCopy, CopyPage
<1>12. PICK p \in {"copy_full", "load"} :
         Goto(1, p) /\ (p = "copy_full" <=> WriteIsFull(Bak))
  BY <1>1, <1>4, <1>9 DEF SyncCopy
<1>13. Moves(p, thread[1].rec, thread[1].seen)
  BY <1>1, <1>12, OneThread DEF FromPlace, ThreadPlaces
<1>14. Control(st, p, thread[1].rec, thread[1].seen, w, "off")
  BY <1>1, <1>3, <1>4, <1>12 DEF FromPlace, Control, OnRecord, Between, ThreadPlaces
<1>15. Stands(st, p, thread[1].rec, thread[1].seen, w, "off")
  BY <1>2, <1>3, <1>4, <1>9, <1>11, <1>13, <1>14, TypesOf DEF Stands, flushVars, sinceBoot
<1>16. /\ EraseHanded(st, p)
       /\ WriteIsFull(Bak) =>
            PagesHanded(st, p, w, "off") = w /\ sent' = sent /\ "off" # "copy"
       /\ ~WriteIsFull(Bak) => PagesHanded(st, p, w, "off") = w + 1 /\ sent' = sent
       /\ p \notin {"done", "idle"}
       /\ UNCHANGED <<ram, completed, sent>>
  BY <1>6, <1>11, <1>12 DEF EraseHanded, PagesHanded, sinceBoot
<1>17. sent \in Values /\ Bak \in {Main, Bak}
  BY <1>2, TypesOf
<1> QED BY <1>2, <1>3, <1>4, <1>6, <1>7, <1>8, <1>9, <1>11, <1>15, <1>16, <1>17, WriteHolds

LEMMA ThreadKeeps ==
  ASSUME NumThreads = 1, NvInv, NEW t \in Threads, ThreadStep(t)
  PROVE  NvInv'
BY SetUpdateKeeps, SyncLoopKeeps, SyncSecondKeeps, SyncCheckEraseKeeps, SyncQueueEraseKeeps,
   SyncErasedKeeps, SyncCheckWriteKeeps, SyncWriteMainKeeps, SyncQueuedKeeps, SyncWrittenKeeps,
   SyncStartBakKeeps, SyncCopyKeeps, SyncLoadSizeKeeps, SyncStoreSizeKeeps, SyncFullKeeps,
   SyncDrainKeeps, SyncDoneKeeps, SyncIdleKeeps
   DEF ThreadStep

---------------------------------------------------------------------------
(* The sleep hook.                                                          *)

\* What is known when the hook starts.
HookFrom ==
  /\ nvrec_init /\ hook = "off" /\ Place = "off" /\ NvTypeOK
  /\ nv_state \in NvStates /\ RecOf(nv_state) \in {Main, Bak}
  /\ written \in 0..NumCells + 1
  /\ Control(nv_state, "off", thread[1].rec, thread[1].seen, written, "off")
  /\ UNCHANGED thread => Moves("off", thread[1].rec, thread[1].seen)

LEMMA HookFromIs ==
  ASSUME NumThreads = 1, NvInv, HookStarts
  PROVE  HookFrom
<1>1. nvrec_init /\ hook = "off" /\ Place = "off"
  BY DEF HookStarts, Running, NoThread, Threads, Place
<1> QED BY <1>1, InvGives, OneThread DEF HookFrom

LEMMA HookEraseKeeps ==
  ASSUME NumThreads = 1, NvInv, NEW rec \in {Main, Bak}, HookErase(rec)
  PROVE  NvInv' /\ Next
<1>1. HookFrom
  BY HookFromIs DEF HookErase
<1>2. nvrec_init /\ hook = "off" /\ Place = "off"
  BY <1>1 DEF HookFrom
<1>3. RecOf(nv_state) = rec /\ BeginsIn(nv_state)
  BY Stages DEF HookErase, StageIs
<1>4. /\ UNCHANGED <<is_update, written, ram, nvrec_init, thread, locked, nv_asserted, sent,
                     completed>>
      /\ QueueErase(rec)
  BY DEF HookErase
<1>5. PICK st, h : /\ nv_state' = st /\ hook' = h
                   /\ \/ EraseIsFull(rec) /\ st = NV(rec, "ERASING") /\ h = "flush"
                      \/ ~EraseIsFull(rec) /\ st = NV(rec, "ERASED") /\ h = "off"
  BY <1>2 DEF HookErase
<1>6. /\ RecOf(st) = rec /\ ~DrainsIn(st) /\ st \in NvStates
      /\ EraseIsFull(rec) <=> BeginsIn(st)
  BY <1>5, Stages DEF StageIs, NvStates, NvSteps
<1>7. st # NV(Bak, "WRITTING") /\ st # NV(Bak, "DONE")
  BY <1>5, SameNV
<1>8. Control(st, "off", thread[1].rec, thread[1].seen, written, h)
  BY <1>5, <1>7 DEF Control, OnRecord, Between
<1>9. Stands(st, "off", thread[1].rec, thread[1].seen, written, h)
  BY <1>1, <1>2, <1>4, <1>5, <1>6, <1>8, TypesOf DEF Stands, HookFrom
<1>10. /\ EraseIsFull(rec) => ~EraseHanded(st, "off")
       /\ ~EraseIsFull(rec) => EraseHanded(st, "off") /\ PagesHanded(st, "off", written, h) = 0
       /\ h # "copy" /\ Place # "erased" /\ "off" \notin {"done", "idle"}
  BY <1>2, <1>5, <1>6 DEF EraseHanded, PagesHanded
<1> QED BY <1>2, <1>3, <1>4, <1>6, <1>9, <1>10, EraseHolds

LEMMA HookWriteMainKeeps ==
  ASSUME NumThreads = 1, NvInv, HookWriteMain
  PROVE  NvInv' /\ Next
<1>1. HookFrom
  BY HookFromIs DEF HookWriteMain
<1>2. nvrec_init /\ hook = "off" /\ Place = "off"
  BY <1>1 DEF HookFrom
<1>3. RecOf(nv_state) = Main /\ ~BeginsIn(nv_state) /\ ~DrainsIn(nv_state)
  BY Stages DEF HookWriteMain, StageIs
<1>4. /\ UNCHANGED <<written, ram, nvrec_init, thread, locked, nv_asserted, completed>>
      /\ QueueWrite(Main, 1, NumCells, ram)
  BY DEF HookWriteMain
<1>5. PICK st, h : /\ nv_state' = st /\ hook' = h /\ is_update' \in {is_update, FALSE}
                   /\ \/ WriteIsFull(Main) /\ st = NV(Main, "WRITTING") /\ h = "flush" /\ sent' = sent
                      \/ ~WriteIsFull(Main) /\ st = NV(Main, "WRITTEN") /\ h = "off" /\ sent' = ram
  BY <1>2 DEF HookWriteMain
<1>6. /\ RecOf(st) = Main /\ ~BeginsIn(st) /\ st \in NvStates
      /\ DrainsIn(st) <=> ~WriteIsFull(Main)
  BY <1>5, Stages DEF StageIs, NvStates, NvSteps
<1>7. st # NV(Bak, "WRITTING") /\ st # NV(Bak, "DONE")
  BY <1>5, SameNV, RecordSectors
<1>8. Control(st, "off", thread[1].rec, thread[1].seen, written, h)
  BY <1>5, <1>7 DEF Control, OnRecord, Between
<1>9. Stands(st, "off", thread[1].rec, thread[1].seen, written, h)
  BY <1>1, <1>2, <1>4, <1>5, <1>6, <1>8, TypesOf DEF Stands, HookFrom
<1>10. EraseHanded(nv_state, Place) /\ PagesHanded(nv_state, Place, written, hook) = 0
  BY <1>2, <1>3 DEF EraseHanded, PagesHanded
<1>11. Handed(queue[NvMod], cur[NvMod], hal.next, flash[Main], Main, 0, ram)
  <2>1. Handed(queue[NvMod], cur[NvMod], hal.next, flash[Main], Main, 0, sent)
    BY <1>2, <1>3, <1>10, InvGives DEF Saves
  <2>2. TypeOK
    BY DEF NvInv, IInv
  <2>3. queue[NvMod] \in Seq(Nodes)
    BY <2>2, NvModIs DEF TypeOK, ApiTypeOK
  <2> QED BY <2>1, <2>3, NothingHanded
<1>12. /\ EraseHanded(st, "off")
       /\ WriteIsFull(Main) =>
            PagesHanded(st, "off", written, h) = 0 /\ sent' = sent /\ h # "copy"
       /\ ~WriteIsFull(Main) => PagesHanded(st, "off", written, h) = NumCells /\ sent' = ram
       /\ sent' = sent \/ (Main = Main /\ sent' = ram)
       /\ "off" \notin {"done", "idle"}
  BY <1>5, <1>6 DEF EraseHanded, PagesHanded
<1>13. /\ 1 \in Cells /\ NumCells \in Cells /\ 1 = 0 + 1 /\ 1 <= NumCells /\ 0 \in Nat
       /\ Main \in {Main, Bak}
  BY CellsAssumption DEF Cells
<1>14. ram \in Values
  BY <1>2, TypesOf
<1> QED BY <1>2, <1>3, <1>4, <1>6, <1>9, <1>10, <1>11, <1>12, <1>13, <1>14, WriteHolds

\* The hook copies a page: the first, or the one after those it has copied.
LEMMA HookCopyFrom ==
  ASSUME NumThreads = 1, NvInv, HookCopy
  PROVE  \E w \in 0..NumCells - 1 :
           /\ nvrec_init /\ Place = "off" /\ NvTypeOK
           /\ RecOf(nv_state) = Bak /\ EraseHanded(nv_state, Place)
           /\ PagesHanded(nv_state, Place, written, hook) = w
           /\ w + 1 = IF nv_state = NV(Bak, "ERASED") THEN 1 ELSE written + 1
           /\ WriteIsFull(Bak) => w = 0
<1>1. CASE hook = "copy"
  <2>1. nvrec_init
    BY <1>1 DEF NvInv, OffInv
  <2>2. PICK w : w = written
    OBVIOUS
  <2>3. /\ Place = "off" /\ NvTypeOK
        /\ nv_state = NV(Bak, "WRITTING") /\ w \in 1..NumCells - 1
    BY <1>1, <2>1, <2>2, InvGives DEF Control
  <2>4. RecOf(nv_state) = Bak /\ ~BeginsIn(nv_state) /\ ~DrainsIn(nv_state)
    BY <2>3, Stages DEF StageIs
  <2>5. nv_state # NV(Bak, "ERASED")
    BY <2>3, SameNV
  <2>6. /\ EraseHanded(nv_state, Place)
        /\ PagesHanded(nv_state, Place, written, hook) = w
    BY <1>1, <2>2, <2>3, <2>4 DEF EraseHanded, PagesHanded
  <2>7. WriteMerged(queue[NvMod], cur[NvMod], Bak)
    BY <1>1, <2>1, InvGives DEF Saves
  <2>8. ~WriteIsFull(Bak)
    BY <2>7 DEF WriteIsFull
  <2>9. w \in 0..NumCells - 1
    BY <2>3, CellsAssumption
  <2> QED BY <2>1, <2>2, <2>3, <2>4, <2>5, <2>6, <2>8, <2>9
<1>2. CASE HookStarts /\ nv_state \in {NV(Bak, "ERASED"), NV(Bak, "WRITTING")}
  <2>1. HookFrom
    BY <1>2, HookFromIs
  <2>2. nvrec_init /\ hook = "off" /\ Place = "off" /\ NvTypeOK
    BY <2>1 DEF HookFrom
  <2>3. RecOf(nv_state) = Bak /\ ~BeginsIn(nv_state) /\ ~DrainsIn(nv_state)
    BY <1>2, Stages DEF StageIs
  <2>4. nv_state = NV(Bak, "WRITTING") => written = 0
    BY <2>1 DEF HookFrom, Control, Between
  <2>5. 0 + 1 = IF nv_state = NV(Bak, "ERASED") THEN 1 ELSE written + 1
    BY <1>2, <2>4
  <2>6. EraseHanded(nv_state, Place) /\ PagesHanded(nv_state, Place, written, hook) = 0
    BY <2>2, <2>3 DEF EraseHanded, PagesHanded
  <2>7. 0 \in 0..NumCells - 1
    BY CellsAssumption
  <2> QED BY <2>2, <2>3, <2>5, <2>6, <2>7
<1> QED BY <1>1, <1>2 DEF HookCopy

LEMMA HookCopyKeeps ==
  ASSUME NumThreads = 1, NvInv, HookCopy
  PROVE  NvInv' /\ Next
<1>1. PICK w \in 0..NumCells - 1 :
        /\ nvrec_init /\ Place = "off" /\ NvTypeOK
        /\ RecOf(nv_state) = Bak /\ EraseHanded(nv_state, Place)
        /\ PagesHanded(nv_state, Place, written, hook) = w
        /\ w + 1 = IF nv_state = NV(Bak, "ERASED") THEN 1 ELSE written + 1
        /\ WriteIsFull(Bak) => w = 0
  BY HookCopyFrom
<1>2. /\ w \in Nat /\ w + 1 \in Cells /\ w + 1 <= w + 1 /\ w + 1 - 1 = w
      /\ w \in 0..NumCells + 1 /\ w + 1 \in 0..NumCells + 1
      /\ w + 1 # NumCells => w + 1 \in 1..NumCells - 1
  BY CellsAssumption DEF Cells
<1>3. View(Main)[w + 1] = sent
  BY <1>1, <1>2, MainIsRead
<1>4. PICK page : page = IF nv_state = NV(Bak, "ERASED") THEN 1 ELSE written + 1
  OBVIOUS
<1>5. page = w + 1
  BY <1>1, <1>4
<1>6. /\ CopyPage(page)
      /\ UNCHANGED <<is_update, ram, nvrec_init, thread, locked, nv_asserted, sent, completed>>
      /\ written' = IF WriteIsFull(Bak) THEN page - 1 ELSE page
      /\ nv_state' = NV(Bak, IF ~WriteIsFull(Bak) /\ page = NumCells THEN "WRITTEN" ELSE "WRITTING")
      /\ hook' = IF WriteIsFull(Bak) THEN "flush" ELSE IF page = NumCells THEN "off" ELSE "copy"
  BY <1>4 DEF HookCopy
<1>7. QueueWrite(Bak, w + 1, w + 1, sent)
  BY <1>3, <1>5, <1>6 DEF CopyPage
<1>8. PICK st, h, u :
        /\ nv_state' = st /\ hook' = h /\ written' = u
        /\ \/ WriteIsFull(Bak) /\ st = NV(Bak, "WRITTING") /\ h = "flush" /\ u = 0 /\ w = 0
           \/ /\ ~WriteIsFull(Bak) /\ w + 1 = NumCells
              /\ st = NV(Bak, "WRITTEN") /\ h = "off" /\ u = w + 1
           \/ /\ ~WriteIsFull(Bak) /\ w + 1 # NumCells
              /\ st = NV(Bak, "WRITTING") /\ h = "copy" /\ u = w + 1
  BY <1>1, <1>2, <1>5, <1>6
<1>9. /\ RecOf(st) = Bak /\ ~BeginsIn(st) /\ st \in NvStates
      /\ DrainsIn(st) <=> st = NV(Bak, "WRITTEN")
      /\ NV(Bak, "WRITTING") # NV(Bak, "WRITTEN") /\ st # NV(Bak, "DONE")
  BY <1>8, Stages, SameNV DEF StageIs, NvStates, NvSteps
<1>10. Control(st, "off", thread[1].rec, thread[1].seen, u, h)
  BY <1>2, <1>8, <1>9 DEF Control, OnRecord, Between
<1>11. Moves("off", thread[1].rec, thread[1].seen)
  BY <1>1, <1>6, OneThread
<1>12. u \in 0..NumCells + 1 /\ h \in {"off", "flush", "copy"}
  BY <1>2, <1>8
<1>13. Stands(st, "off", thread[1].rec, thread[1].seen, u, h)
  BY <1>1, <1>6, <1>8, <1>9, <1>10, <1>11, <1>12, TypesOf DEF Stands
<1>14. /\ EraseHanded(st, "off")
       /\ WriteIsFull(Bak) => PagesHanded(st, "off", u, h) = w /\ sent' = sent /\ h # "copy"
       /\ ~WriteIsFull(Bak) => PagesHanded(st, "off", u, h) = w + 1 /\ sent' = sent
       /\ "off" \notin {"done", "idle"}
       /\ UNCHANGED <<ram, completed, sent>>
  BY <1>6, <1>8, <1>9 DEF EraseHanded, PagesHanded
<1>15. Handed(queue[NvMod], cur[NvMod], hal.next, flash[Bak], Bak, w, sent)
  BY <1>1, InvGives DEF Saves
<1>16. sent \in Values /\ Bak \in {Main, Bak}
  BY <1>1, TypesOf
<1> QED BY <1>1, <1>2, <1>7, <1>9, <1>13, <1>14, <1>15, <1>16, WriteHolds

LEMMA HookDoneKeeps ==
  ASSUME NumThreads = 1, NvInv, NEW rec \in {Main, Bak}, HookDone(rec)
  PROVE  NvInv'
<1>1. HookFrom
  BY HookFromIs DEF HookDone
<1>2. nvrec_init /\ hook = "off" /\ Place = "off"
  BY <1>1 DEF HookFrom
<1>3. RecOf(nv_state) = rec /\ DrainsIn(nv_state)
  BY Stages DEF HookDone, StageIs
<1>4. /\ UNCHANGED <<vars, is_update, written, ram, nvrec_init, thread, locked, hook, nv_asserted,
                     sent>>
      /\ queue[NvMod] = <<>>
  BY DEF HookDone, Used
<1>5. PICK st : /\ nv_state' = st
                /\ \/ rec = Main /\ st = NV(Main, "DONE") /\ completed' = completed
                   \/ rec = Bak /\ st = IDLE /\ completed' = sent
  BY DEF HookDone
<1>6. /\ BeginsIn(st) /\ st \in NvStates
      /\ rec = Main => RecOf(st) = Bak
      /\ rec = Bak => RecOf(st) = Main
      /\ st # NV(Bak, "WRITTING") /\ st # NV(Bak, "DONE")
  <2>1. StartOf(Main) = IDLE /\ StartOf(Bak) = NV(Main, "DONE")
    BY RecordSectors DEF StartOf
  <2>2. IDLE # NV(Bak, "WRITTING") /\ IDLE # NV(Bak, "DONE")
    BY SameNV DEF IDLE
  <2>3. NV(Main, "DONE") # NV(Bak, "WRITTING") /\ NV(Main, "DONE") # NV(Bak, "DONE")
    BY SameNV, RecordSectors
  <2>4. IDLE \in NvStates /\ NV(Main, "DONE") \in NvStates
    BY DEF NvStates, NvSteps
  <2>5. CASE rec = Main
    BY <1>5, <2>1, <2>3, <2>4, <2>5, Stages, RecordSectors DEF StageIs
  <2>6. CASE rec = Bak
    BY <1>5, <2>1, <2>2, <2>4, <2>6, Stages, RecordSectors DEF StageIs
  <2> QED BY <2>5, <2>6
<1>7. Control(st, "off", thread[1].rec, thread[1].seen, written, "off")
  BY <1>6 DEF Control, OnRecord, Between
<1>8. completed' \in Values
  BY <1>2, <1>5, TypesOf
<1>9. Stands(st, "off", thread[1].rec, thread[1].seen, written, "off")
  BY <1>1, <1>2, <1>4, <1>5, <1>6, <1>7, <1>8, TypesOf DEF Stands, HookFrom
<1>10. flash[RecOf(nv_state)] = Image(sent)
  BY <1>2, <1>3, <1>4, SavedIs
<1>11. \/ RecOf(nv_state) = Main /\ RecOf(st) = Bak /\ completed' = completed
       \/ RecOf(nv_state) = Bak /\ RecOf(st) = Main /\ completed' = sent
  BY <1>3, <1>5, <1>6
<1> QED BY <1>2, <1>4, <1>6, <1>9, <1>10, <1>11, DoneHolds

LEMMA HookKeeps ==
  ASSUME NumThreads = 1, NvInv, HookNext
  PROVE  NvInv'
BY HookEraseKeeps, HookWriteMainKeeps, HookCopyKeeps, HookFlushKeeps, HookDoneKeeps,
   HookDrainKeeps DEF HookNext

---------------------------------------------------------------------------
(* Power on, power off, and the invariant.                                  *)

LEMMA RecoverableIs ==
  ASSUME RecordsInv, completed \in Values
  PROVE  Recoverable \in Values /\ Recoverable >= completed
<1>1. \A s \in {Main, Bak} : Valid(s) => VersionIn(s) \in Values /\ VersionIn(s) >= completed
  <2> SUFFICES ASSUME NEW s \in {Main, Bak}, Valid(s)
               PROVE  VersionIn(s) \in Values /\ VersionIn(s) >= completed
    OBVIOUS
  <2>1. PICK v \in Values : flash[s] = Image(v)
    BY DEF Valid
  <2>2. VersionIn(s) \in Values
    BY <2>1, ImageIsValid
  <2> QED BY <2>2 DEF RecordsInv
<1>2. ~Valid(Main) /\ ~Valid(Bak) => completed = Default
  BY DEF RecordsInv
<1>3. Default \in Values /\ Default >= Default
  BY RecordAssumption DEF Default
<1> QED BY <1>1, <1>2, <1>3 DEF Recoverable

LEMMA BootKeeps ==
  ASSUME NumThreads = 1, NvInv, Boot
  PROVE  NvInv'
<1>1. /\ ~nvrec_init /\ queue[NvMod] = <<>> /\ nv_state = IDLE /\ Place = "off" /\ hook = "off"
  BY NvModIs DEF Boot, NvInv, OffInv
<1>2. /\ NvTypeOK /\ completed \in Values /\ locked \in BOOLEAN /\ nv_asserted = FALSE
      /\ RecordsInv /\ QueueKept
  BY DEF NvInv, NvTypeOK, QueueKept
<1>3. /\ QueueKept' /\ Registered(NvMod)' /\ UNCHANGED <<halVars, cur>>
      /\ queue'[NvMod] = <<>>
  BY <1>1, <1>2, RegisterKeeps, NvModIs DEF Boot
<1>4. /\ nvrec_init' = TRUE /\ ram' = Recoverable /\ sent' = Recoverable /\ written' = 0
      /\ UNCHANGED <<locked, hook, nv_asserted, completed>>
  BY DEF Boot
<1>5. is_update' \in BOOLEAN
  BY DEF Boot, NeedsUpdate
<1>6. PICK st \in {IDLE, NV(Main, "DONE")} :
        nv_state' = st /\ (st = NV(Main, "DONE") <=> Valid(Main) /\ ~Valid(Bak))
  <2>1. IDLE # NV(Main, "DONE")
    BY SameNV, RecordSectors DEF IDLE
  <2> QED BY <2>1 DEF Boot
<1>7. /\ RecOf(IDLE) = Main /\ BeginsIn(IDLE)
      /\ RecOf(NV(Main, "DONE")) = Bak /\ BeginsIn(NV(Main, "DONE"))
  <2>1. StartOf(Main) = IDLE /\ StartOf(Bak) = NV(Main, "DONE")
    BY RecordSectors DEF StartOf
  <2> QED BY <2>1, Stages DEF StageIs
<1>8. /\ BeginsIn(st) /\ st \in NvStates
      /\ st # NV(Bak, "WRITTING") /\ st # NV(Bak, "DONE")
      /\ RecOf(st) = IF st = IDLE THEN Main ELSE Bak
  <2>1. st \in NvStates
    BY <1>6 DEF NvStates, NvSteps
  <2>2. st # NV(Bak, "WRITTING") /\ st # NV(Bak, "DONE")
    BY <1>6, SameNV, RecordSectors DEF IDLE
  <2> QED BY <1>6, <1>7, <2>1, <2>2
<1>9. PICK p \in {"off", "loop"} : Goto(1, p)
  BY DEF Boot, Goto
<1>10. Moves(p, thread[1].rec, thread[1].seen)
  BY <1>2, <1>9, OneThread DEF ThreadPlaces
<1>11. Control(st, p, thread[1].rec, thread[1].seen, 0, "off")
  BY <1>8, <1>9 DEF Control, OnRecord, Between
<1>12. Recoverable \in Values /\ Recoverable >= completed
  BY <1>2, RecoverableIs
<1>13. Stands(st, p, thread[1].rec, thread[1].seen, 0, "off")
  <2>1. 0 \in 0..NumCells + 1
    BY CellsAssumption
  <2> QED BY <1>1, <1>2, <1>4, <1>5, <1>6, <1>8, <1>10, <1>11, <1>12, <2>1 DEF Stands
<1>14. Saves(st, p, 0, "off", queue'[NvMod], cur'[NvMod], hal'.next, flash'[RecOf(st)], sent')
  BY <1>3, <1>8, <1>9 DEF Saves, EraseHanded
<1>15. RecordsInv'
  <2>1. \A s \in {Main, Bak} : (Valid(s)' <=> Valid(s)) /\ VersionIn(s)' = VersionIn(s)
    BY <1>3 DEF Valid, VersionIn, halVars
  <2>2. /\ \A s \in {Main, Bak} : Valid(s) => VersionIn(s) >= completed
        /\ completed = Default \/ Valid(Main) \/ Valid(Bak)
    BY <1>2 DEF RecordsInv
  <2>3. completed <= sent' /\ sent' <= ram'
    BY <1>2, <1>4, <1>12, RecordAssumption
  <2>4. CASE st = IDLE
    <3>1. ~(Valid(Main) /\ ~Valid(Bak))
      BY <1>6, <2>4, SameNV, RecordSectors DEF IDLE
    <3>2. RecOf(st) = Main
      BY <1>7, <2>4
    <3> QED BY <1>4, <1>6, <2>1, <2>2, <2>3, <3>1, <3>2 DEF RecordsInv
  <2>5. CASE st = NV(Main, "DONE")
    <3>1. Valid(Main)
      BY <1>6, <2>5
    <3>2. PICK v \in Values : flash[Main] = Image(v)
      BY <3>1 DEF Valid
    <3>3. Recoverable = v
      BY <3>1, <3>2, ImageIsValid DEF Recoverable
    <3>4. flash'[Main] = Image(sent')
      BY <1>3, <1>4, <3>2, <3>3 DEF halVars
    <3>5. RecOf(st) # Main
      BY <1>7, <2>5, RecordSectors
    <3> QED BY <1>4, <1>6, <2>1, <2>2, <2>3, <3>4, <3>5 DEF RecordsInv
  <2> QED BY <1>6, <2>4, <2>5
<1> QED BY <1>3, <1>13, <1>14, <1>15, InvHolds

LEMMA PowerLossKeeps ==
  ASSUME NumThreads = 1, NvInv, PowerLoss
  PROVE  NvInv'
<1>1. /\ flash' = flash /\ hal' = NotSuspended
      /\ state' = [m \in Mods |-> "UNINITED"] /\ queue' = [m \in Mods |-> <<>>]
      /\ cur' = [m \in Mods |-> FALSE] /\ cur_mod' = NoMod /\ cur_mod_id' = NumMods
      /\ opera_used' = 0 /\ data_used' = 0
      /\ UNCHANGED <<cpVars, allowed_cb, sync, flush_all, asserted>>
  BY DEF PowerLoss
<1>2. /\ nv_state' = IDLE /\ is_update' = FALSE /\ written' = 0 /\ ram' = Default
      /\ nvrec_init' = FALSE /\ thread' = [t \in Threads |-> Off] /\ locked' = FALSE
      /\ hook' = "off" /\ sent' = Default /\ UNCHANGED <<nv_asserted, completed>>
  BY DEF PowerLoss
<1>3. IInv /\ TypeOK /\ sync = NoSync /\ ~asserted
  BY DEF NvInv, IInv, NoAssert
<1>4. hal'.state = "NONE" /\ HalTypeOK'
  <2>1. flash \in [Sectors -> Images]
    BY <1>3 DEF TypeOK, ApiTypeOK, HalTypeOK
  <2>2. NotSuspended \in HalStates /\ NotSuspended.state = "NONE"
    BY CellsAssumption DEF NotSuspended, HalStates, SuspendStates
  <2> QED BY <1>1, <2>1, <2>2 DEF HalTypeOK
<1>5. ApiTypeOK'
  BY <1>1, <1>4, ModAssumption, PoolAssumption DEF ApiTypeOK, ModStates
<1>6. TypeOK'
  BY <1>1, <1>3, <1>5 DEF TypeOK, cpVars
<1>7. SuspendedIsCurrent' /\ DriverMatchesQueue'
  BY <1>1, <1>4 DEF SuspendedIsCurrent, DriverMatchesQueue
<1>8. NoAssert' /\ CurIsListed' /\ SyncKeepsProgress'
  BY <1>1, <1>3, ModAssumption DEF NoAssert, CurIsListed, SyncKeepsProgress
<1>9. IInv' /\ sync' = NoSync
  BY <1>1, <1>3, <1>6, <1>7, <1>8 DEF IInv
<1>10. Homed' /\ LockedIsSuspended'
  BY <1>1, NvModIs DEF Homed, LockedIsSuspended
<1>11. thread'[1] = Off /\ Off.at = "off" /\ Off.rec = Main /\ Off.seen = 0 /\ Place' = "off"
  BY <1>2, OneThread DEF Off, Place, Threads
<1>12. Off \in [at : ThreadPlaces, rec : {Main, Bak}, seen : 0..NumCells]
  BY CellsAssumption DEF Off, ThreadPlaces
<1>13. NvTypeOK' /\ ~nv_asserted'
  <2>1. NvTypeOK /\ ~nv_asserted /\ Default \in Values /\ 0 \in 0..NumCells + 1
    BY RecordAssumption, CellsAssumption DEF NvInv, Default
  <2>2. nv_state' \in NvStates
    <3>1. IDLE \in NvStates
      BY DEF NvStates
    <3> QED BY <1>2, <3>1
  <2>3. thread' \in [Threads -> [at : ThreadPlaces, rec : {Main, Bak}, seen : 0..NumCells]]
    BY <1>2, <1>12
  <2>4. {ram', sent', completed'} \subseteq Values /\ nv_asserted' = FALSE
    BY <1>2, <2>1 DEF NvTypeOK
  <2>5. {is_update', nvrec_init', locked', nv_asserted'} \subseteq BOOLEAN
    BY <1>2, <2>4
  <2> QED BY <1>2, <1>6, <2>1, <2>2, <2>3, <2>4, <2>5 DEF NvTypeOK
<1>14. Control(nv_state, Place, thread[1].rec, thread[1].seen, written, hook)'
  <2>1. IDLE # NV(Bak, "WRITTING") /\ IDLE # NV(Bak, "DONE")
    BY SameNV DEF IDLE
  <2> QED BY <1>2, <1>11, <2>1 DEF Control, OnRecord, Between
<1>15. RecordsInv'
  <2>1. \A s \in {Main, Bak} : (Valid(s)' <=> Valid(s)) /\ VersionIn(s)' = VersionIn(s)
    BY <1>1 DEF Valid, VersionIn
  <2> QED BY <1>2, <2>1 DEF NvInv, RecordsInv
<1>16. OffInv'
  BY <1>1, <1>2, <1>11 DEF OffInv
<1> QED BY <1>2, <1>9, <1>10, <1>13, <1>14, <1>15, <1>16 DEF NvInv

LEMMA NvInitHolds ==
  ASSUME NumThreads = 1, NvInit
  PROVE  NvInv
<1>1. IInv /\ sync = NoSync /\ flash \in [Sectors -> {ErasedImage}] /\ TypeOK
  BY InitIInv DEF NvInit, Init, HalInit, IInv
<1>2. /\ hal = NotSuspended
      /\ state = [m \in Mods |-> "UNINITED"] /\ queue = [m \in Mods |-> <<>>]
      /\ cur = [m \in Mods |-> FALSE] /\ cur_mod = NoMod /\ cur_mod_id = NumMods
      /\ opera_used = 0 /\ data_used = 0
  BY DEF NvInit, Init, HalInit
<1>3. /\ nv_state = IDLE /\ is_update = FALSE /\ written = 0 /\ ram = Default
      /\ nvrec_init = FALSE /\ thread = [t \in Threads |-> Off] /\ locked = FALSE
      /\ hook = "off" /\ nv_asserted = FALSE /\ sent = Default /\ completed = Default
  BY DEF NvInit
<1>4. Homed /\ LockedIsSuspended
  BY <1>2, NvModIs DEF Homed, LockedIsSuspended
<1>5. thread[1] = Off /\ Off.at = "off" /\ Off.rec = Main /\ Off.seen = 0 /\ Place = "off"
  BY <1>3 DEF Off, Place, Threads
<1>6. Off \in [at : ThreadPlaces, rec : {Main, Bak}, seen : 0..NumCells]
  BY CellsAssumption DEF Off, ThreadPlaces
<1>7. NvTypeOK /\ ~nv_asserted
  <2>1. Default \in Values /\ 0 \in 0..NumCells + 1
    BY RecordAssumption, CellsAssumption DEF Default
  <2>2. nv_state \in NvStates
    <3>1. IDLE \in NvStates
      BY DEF NvStates
    <3> QED BY <1>3, <3>1
  <2>3. thread \in [Threads -> [at : ThreadPlaces, rec : {Main, Bak}, seen : 0..NumCells]]
    BY <1>3, <1>6
  <2> QED BY <1>1, <1>3, <2>1, <2>2, <2>3 DEF NvTypeOK
<1>8. Control(nv_state, Place, thread[1].rec, thread[1].seen, written, hook)
  <2>1. IDLE # NV(Bak, "WRITTING") /\ IDLE # NV(Bak, "DONE")
    BY SameNV DEF IDLE
  <2> QED BY <1>3, <1>5, <2>1 DEF Control, OnRecord, Between
<1>9. RecordsInv
  <2>1. \A s \in {Main, Bak} : Valid(s) => VersionIn(s) >= completed
    <3> SUFFICES ASSUME NEW s \in {Main, Bak}, Valid(s) PROVE VersionIn(s) >= completed
      OBVIOUS
    <3>1. PICK v \in Values : flash[s] = Image(v)
      BY DEF Valid
    <3>2. VersionIn(s) \in Values
      BY <3>1, ImageIsValid
    <3> QED BY <1>3, <3>2, RecordAssumption DEF Default
  <2> QED BY <1>3, <2>1 DEF RecordsInv
<1>10. OffInv
  BY <1>2, <1>3, <1>5 DEF OffInv
<1> QED BY <1>1, <1>3, <1>4, <1>7, <1>8, <1>9, <1>10 DEF NvInv

LEMMA NvUnchanged ==
  ASSUME NvInv, UNCHANGED allVars
  PROVE  NvInv'
<1>1. IInv' /\ sync' = NoSync /\ TypeOK'
  <2>1. UNCHANGED vars
    BY DEF allVars
  <2>2. IInv'
    BY <2>1, NextIInv DEF NvInv
  <2>3. sync' = sync
    BY <2>1 DEF vars
  <2> QED BY <2>2, <2>3 DEF NvInv, IInv
<1>2. /\ UNCHANGED <<flash, hal>> /\ UNCHANGED apiVars /\ UNCHANGED nvVars /\ UNCHANGED flushVars
  BY DEF allVars, vars, halVars, nvVars
<1>3. NvTypeOK' /\ ~nv_asserted'
  BY <1>1, <1>2 DEF NvInv, NvTypeOK, nvVars, flushVars
<1>4. Homed' /\ LockedIsSuspended'
  BY <1>2 DEF NvInv, Homed, LockedIsSuspended, apiVars
<1>5. Place' = Place /\ Control(nv_state, Place, thread[1].rec, thread[1].seen, written, hook)'
  BY <1>2 DEF NvInv, Place, nvVars, flushVars
<1>6. (nvrec_init => QueueInv)'
  BY <1>2, <1>5 DEF NvInv, QueueInv, Registered, nvVars, flushVars, apiVars
<1>7. RecordsInv'
  BY <1>2 DEF NvInv, RecordsInv, Valid, VersionIn, nvVars, flushVars
<1>8. OffInv'
  BY <1>2, <1>5 DEF NvInv, OffInv, nvVars, flushVars, apiVars
<1> QED BY <1>1, <1>3, <1>4, <1>5, <1>6, <1>7, <1>8 DEF NvInv

LEMMA NvNextKeeps ==
  ASSUME NumThreads = 1, NvInv, [NvNext]_allVars
  PROVE  NvInv'
BY NvUnchanged, BootKeeps, PowerLossKeeps, CallsKeep, HookKeeps, ThreadKeeps, OtherFlushKeeps,
   OtherModuleStays DEF NvNext

\* With one flushing thread the queue always holds what the save that is under way has
\* handed to it, whatever the power does and whenever an operation is cut short
\* (nv_record_extension_flush and nv_record_extension_init).
THEOREM RecordInvariant == NumThreads = 1 => (NvSpec => []NvInv)
<1> SUFFICES ASSUME NumThreads = 1 PROVE NvSpec => []NvInv
  OBVIOUS
<1>1. NvInit => NvInv
  BY NvInitHolds
<1>2. NvInv /\ [NvNext]_allVars => NvInv'
  BY NvNextKeeps
<1> QED BY <1>1, <1>2, PTL DEF NvSpec

\* Types are kept and no ASSERT of nvrecord_extension.c fails: with one flushing thread
\* every page of the backup is written inside the module.
THEOREM RecordNoAssert == NumThreads = 1 => (NvSpec => []NvNoAssert)
<1> SUFFICES ASSUME NumThreads = 1 PROVE NvSpec => []NvNoAssert
  OBVIOUS
<1>1. NvInv => NvNoAssert
  BY DEF NvInv, NvNoAssert, IInv, NoAssert
<1> QED BY <1>1, RecordInvariant, PTL

\* At whatever point the power is lost, in the queue, in an erase or in a write, the
\* record that nv_record_extension_init finds is the one of the last save that came to
\* its end, or a newer one.  Two flushing threads can lose both records: the run
\* nv_record_overwrite.
THEOREM RecordNeverRollsBack == NumThreads = 1 => (NvSpec => []NeverRollsBack)
<1> SUFFICES ASSUME NumThreads = 1 PROVE NvSpec => []NeverRollsBack
  OBVIOUS
<1>1. NvInv => NeverRollsBack
  BY RecoverableIs DEF NvInv, NvTypeOK, NeverRollsBack
<1> QED BY <1>1, RecordInvariant, PTL

---------------------------------------------------------------------------
(* The records as clients of the queue.                                     *)

LEMMA FlushIsStep ==
  ASSUME NvInv, FlushQueue
  PROVE  Next
<1>1. sync = NoSync /\ ~asserted
  BY DEF NvInv, IInv, NoAssert
<1>2. norflash_api_flush
  BY <1>1 DEF FlushQueue, norflash_api_flush, Unmasked
<1> QED BY <1>2 DEF Next

LEMMA ThreadMeans ==
  ASSUME NumThreads = 1, NvInv, NEW t \in Threads, ThreadStep(t)
  PROVE  QueueStep
<1>1. CASE SyncQueueErase(t) \/ SyncWriteMain(t) \/ SyncCopy(t)
  BY <1>1, SyncQueueEraseKeeps, SyncWriteMainKeeps, SyncCopyKeeps DEF QueueStep
<1>2. CASE SyncFulls(t) \/ SyncDrain(t)
  BY <1>2, FlushIsStep DEF SyncFulls, SyncFull, SyncDrain, QueueStep
<1>3. CASE SetUpdate(t) \/ SyncLoop(t) \/ SyncSecond(t) \/ SyncCheckErase(t) \/ SyncErased(t)
           \/ SyncCheckWrite(t) \/ SyncQueued(t) \/ SyncWritten(t) \/ SyncStartBak(t)
           \/ SyncLoadSize(t) \/ SyncStoreSize(t) \/ SyncDone(t) \/ SyncIdle(t)
  BY <1>3 DEF SetUpdate, SyncLoop, SyncSecond, SyncCheckErase, SyncErased, SyncCheckWrite,
              SyncQueued, SyncWritten, SyncStartBak, SyncLoadSize, SyncStoreSize, SyncDone,
              SyncIdle, QueueStep
<1> QED BY <1>1, <1>2, <1>3 DEF ThreadStep

LEMMA HookMeans ==
  ASSUME NumThreads = 1, NvInv, HookNext
  PROVE  QueueStep
<1>1. CASE HookWriteMain \/ HookCopy
  BY <1>1, HookWriteMainKeeps, HookCopyKeeps DEF QueueStep
<1>2. ASSUME NEW rec \in {Main, Bak}, HookErase(rec) PROVE QueueStep
  BY <1>2, HookEraseKeeps DEF QueueStep
<1>3. ASSUME NEW rec \in {Main, Bak}, HookDone(rec) PROVE QueueStep
  BY <1>3 DEF HookDone, QueueStep
<1>4. ASSUME NEW rec \in {Main, Bak}, HookDrain(rec) PROVE QueueStep
  BY <1>4, FlushIsStep DEF HookDrain, QueueStep
<1>5. CASE HookFlush
  BY <1>5, FlushIsStep DEF HookFlush, QueueStep
<1> QED BY <1>1, <1>2, <1>3, <1>4, <1>5 DEF HookNext

\* A power loss before nv_record_extension_init changes nothing.
LEMMA OffIsOff ==
  ASSUME NvInv, PowerLoss, ~nvrec_init
  PROVE  UNCHANGED vars
BY DEF PowerLoss, NvInv, OffInv, vars, halVars, apiVars

LEMMA StepMeans ==
  ASSUME NumThreads = 1, NvInv, NvNext, nvrec_init' \/ ~nvrec_init
  PROVE  QueueStep
<1>1. CASE Boot
  BY <1>1, NvModIs DEF Boot, QueueStep, Next, Client
<1>2. CASE PowerLoss
  <2>1. nvrec_init' = FALSE
    BY <1>2 DEF PowerLoss
  <2> QED BY <1>2, <2>1, OffIsOff DEF QueueStep
<1>3. CASE NvCalls
  BY <1>3 DEF NvCalls, SetRecord, StartFlush, AddBleRecord, SetAndFlush, QueueStep
<1>4. CASE HookNext
  BY <1>4, HookMeans
<1>5. ASSUME NEW t \in Threads, ThreadStep(t) PROVE QueueStep
  BY <1>5, ThreadMeans
<1>6. CASE OtherFlush
  BY <1>6, FlushIsStep DEF OtherFlush, QueueStep
<1>7. CASE OtherModule
  BY <1>7, OtherModuleKeeps DEF NvInv, QueueKept, QueueStep
<1> QED BY <1>1, <1>2, <1>3, <1>4, <1>5, <1>6, <1>7 DEF NvNext

\* The records are erased before they are written and never while the erase would meet
\* the hazard of _e_opera_add: every step of the record, its hook and the other modules
\* between two power losses is one of norflash_api, whose theorems then hold.
THEOREM RecordUsesQueueAsMeant == NumThreads = 1 => (NvSpec => UsesQueueAsMeant)
<1> SUFFICES ASSUME NumThreads = 1 PROVE NvSpec => UsesQueueAsMeant
  OBVIOUS
<1>1. NvInv /\ [NvNext]_allVars => [nvrec_init' \/ ~nvrec_init => QueueStep]_allVars
  BY StepMeans
<1> QED BY <1>1, RecordInvariant, PTL DEF NvSpec, UsesQueueAsMeant

---------------------------------------------------------------------------
(* No update is forgotten.                                                  *)

\* The invariant and UpdateInv.
UpdateKept == NumThreads = 1 /\ NvInv /\ UpdateInv

LEMMA UpdateStays ==
  ASSUME UpdateInv, nvrec_init, UNCHANGED <<ram, sent, is_update>>,
         Place = "update" => Place' = "update", Place' # "queued",
         nv_state' = IDLE =>
           \/ flash'[Main] = Image(sent)
           \/ nv_state = IDLE /\ Place # "erased" /\ flash'[Main] = flash[Main]
           \/ Place' = "erased"
  PROVE  UpdateInv'
BY DEF UpdateInv

\* Nothing has been handed to the queue before the save leaves its first state.
LEMMA IdleFlash ==
  ASSUME NumThreads = 1, NvInv, nvrec_init, FlushQueue, nv_state = IDLE, Place # "erased"
  PROVE  flash'[Main] = flash[Main]
<1>1. BeginsIn(IDLE)
  <2>1. StartOf(Main) = IDLE
    BY DEF StartOf
  <2> QED BY <2>1, Stages DEF StageIs
<1>2. queue[NvMod] = <<>> /\ QueueKept
  BY <1>1, InvGives DEF Saves, EraseHanded
<1> QED BY <1>2, FlushIdle

\* After the backup the main record is in flash.
LEMMA MainIsSaved ==
  ASSUME NumThreads = 1, NvInv, nvrec_init, RecOf(nv_state) = Bak
  PROVE  flash[Main] = Image(sent)
BY InvGives, RecordSectors DEF RecordsInv

LEMMA NotIdle ==
  /\ ~WritesIn(IDLE) /\ ~DrainsIn(IDLE)
  /\ \A r, s : r \in {Main, Bak} => NV(r, s) # IDLE
<1>1. StartOf(Main) = IDLE
  BY DEF StartOf
<1>2. ~WritesIn(IDLE) /\ ~DrainsIn(IDLE)
  BY <1>1, Stages DEF StageIs
<1> QED BY <1>2, SameNV, RecordSectors DEF IDLE

LEMMA PlaceAfter ==
  ASSUME NumThreads = 1, NvInv, NEW t \in Threads
  PROVE  /\ \A p \in ThreadPlaces : Goto(t, p) => Place' = p
         /\ \A r \in {Main, Bak} : Enter(t, r) => Place' = "check"
         /\ UNCHANGED thread => Place' = Place
<1>1. t = 1 /\ NvTypeOK
  BY OneThread DEF NvInv
<1> QED BY <1>1, OneThread DEF Moves, Place

\* The steps of the thread that leave the state and the flash alone.
LEMMA QuietStepUpdates ==
  ASSUME UpdateKept, NEW t \in Threads,
         \/ SyncLoop(t) \/ SyncSecond(t) \/ SyncCheckErase(t) \/ SyncCheckWrite(t)
         \/ SyncLoadSize(t) \/ SyncStoreSize(t)
  PROVE  UpdateInv'
<1>1. /\ NumThreads = 1 /\ NvInv /\ UpdateInv /\ t = 1
  BY OneThread DEF UpdateKept, NvInv
<1>2. PICK p \in {"loop", "second", "check", "check2", "load", "store"} : At(t, p)
  BY DEF SyncLoop, SyncSecond, SyncCheckErase, SyncCheckWrite, SyncLoadSize, SyncStoreSize
<1>3. FromPlace(p)
  BY <1>1, <1>2, StepOf
<1>4. Place \notin {"update", "erased"} /\ nvrec_init
  BY <1>2, <1>3 DEF FromPlace
<1>5. UNCHANGED <<vars, nv_state, is_update, ram, sent>>
  BY DEF SyncLoop, SyncSecond, SyncCheckErase, SyncCheckWrite, SyncLoadSize, SyncStoreSize,
         flushVars, sinceBoot
<1>6. Place' # "queued"
  <2>1. CASE SyncLoop(t)
    BY <1>1, <2>1, PlaceAfter DEF SyncLoop, ThreadPlaces
  <2>2. CASE SyncSecond(t)
    BY <1>1, <2>2, PlaceAfter DEF SyncSecond, ThreadPlaces
  <2>3. CASE SyncCheckErase(t)
    BY <1>1, <2>3, PlaceAfter DEF SyncCheckErase, ThreadPlaces
  <2>4. CASE SyncCheckWrite(t)
    BY <1>1, <2>4, PlaceAfter DEF SyncCheckWrite, ThreadPlaces
  <2>5. CASE SyncLoadSize(t)
    <3>1. At(t, "load")
      BY <2>5 DEF SyncLoadSize
    <3>2. FromPlace("load")
      BY <1>1, <3>1, StepOf
    <3>3. written \in 0..NumCells
      <4>1. written \in 0..NumCells - 1
        BY <3>2 DEF FromPlace, Control
      <4> QED BY <4>1, CellsAssumption
    <3> QED BY <1>1, <2>5, <3>2, <3>3, OneThread DEF SyncLoadSize, FromPlace, Moves, Place
  <2>6. CASE SyncStoreSize(t)
    BY <1>1, <2>6, PlaceAfter DEF SyncStoreSize, ThreadPlaces
  <2> QED BY <2>1, <2>2, <2>3, <2>4, <2>5, <2>6
<1> QED BY <1>1, <1>4, <1>5, <1>6, UpdateStays DEF vars, halVars

\* The steps of the thread after which a save is under way.
LEMMA SavingStepUpdates ==
  ASSUME UpdateKept, NEW t \in Threads,
         \/ SyncErased(t) \/ SyncWritten(t) \/ SyncStartBak(t) \/ SyncDone(t)
         \/ SyncCopy(t) \/ SyncDrain(t)
  PROVE  UpdateInv'
<1>1. /\ NumThreads = 1 /\ NvInv /\ UpdateInv /\ t = 1
  BY OneThread DEF UpdateKept, NvInv
<1>2. PICK p \in {"erased", "written", "start", "done", "copy", "drain"} : At(t, p)
  BY DEF SyncErased, SyncWritten, SyncStartBak, SyncDone, SyncCopy, SyncDrain
<1>3. FromPlace(p)
  BY <1>1, <1>2, StepOf
<1>4. /\ Place = p /\ nvrec_init /\ thread[1].rec \in {Main, Bak}
      /\ Control(nv_state, p, thread[1].rec, thread[1].seen, written, "off")
  BY <1>3 DEF FromPlace
<1>5. UNCHANGED <<is_update, ram, sent>>
  BY DEF SyncErased, SyncWritten, SyncStartBak, SyncDone, SyncCopy, SyncDrain, flushVars, sinceBoot
<1>6. nv_state' # IDLE
  <2>1. CASE SyncErased(t) \/ SyncWritten(t) \/ SyncStartBak(t) \/ SyncDone(t)
    BY <1>1, <1>4, <2>1, NotIdle DEF SyncErased, SyncWritten, SyncStartBak, SyncDone
  <2>2. CASE SyncCopy(t)
    <3>1. At(t, "copy") /\ nv_state' = nv_state
      BY <2>2 DEF SyncCopy, flushVars
    <3>2. FromPlace("copy")
      BY <1>1, <3>1, StepOf
    <3>3. nv_state = NV(Bak, "WRITTING")
      BY <3>2 DEF FromPlace, Control
    <3> QED BY <3>1, <3>3, NotIdle
  <2>3. CASE SyncDrain(t)
    <3>1. At(t, "drain") /\ nv_state' = nv_state
      BY <2>3 DEF SyncDrain, flushVars
    <3>2. FromPlace("drain")
      BY <1>1, <3>1, StepOf
    <3>3. DrainsIn(nv_state)
      BY <3>2 DEF FromPlace, Control
    <3> QED BY <3>1, <3>3, NotIdle
  <2> QED BY <2>1, <2>2, <2>3
<1>7. Place' # "queued"
  <2>1. CASE SyncErased(t) \/ SyncWritten(t) \/ SyncStartBak(t)
    BY <1>1, <2>1, PlaceAfter DEF SyncErased, SyncWritten, SyncStartBak, ThreadPlaces
  <2>2. CASE SyncDone(t)
    BY <1>1, <2>2, PlaceAfter DEF SyncDone, ThreadPlaces
  <2>3. CASE SyncCopy(t)
    <3>1. UNCHANGED thread \/ \E q \in {"copy_full", "load"} : Goto(t, q)
      BY <2>3 DEF SyncCopy
    <3>2. Place # "queued"
      BY <1>2, <1>4
    <3> QED BY <1>1, <3>1, <3>2, PlaceAfter DEF ThreadPlaces
  <2>4. CASE SyncDrain(t)
    BY <1>1, <2>4, PlaceAfter DEF SyncDrain, ThreadPlaces
  <2> QED BY <2>1, <2>2, <2>3, <2>4
<1>8. Place # "update"
  BY <1>2, <1>4
<1> QED BY <1>1, <1>4, <1>5, <1>6, <1>7, <1>8, UpdateStays

LEMMA ThreadUpdates ==
  ASSUME UpdateKept, NEW t \in Threads, ThreadStep(t)
  PROVE  UpdateInv'
<1>1. /\ NumThreads = 1 /\ NvInv /\ UpdateInv /\ t = 1
  BY OneThread DEF UpdateKept, NvInv
<1>2. CASE SetUpdate(t)
  <2>1. Place' = "loop"
    BY <1>1, <1>2, PlaceAfter DEF SetUpdate, ThreadPlaces
  <2> QED BY <1>2, <2>1 DEF SetUpdate, UpdateInv
<1>3. CASE SyncQueueErase(t)
  <2>1. At(t, "erase")
    BY <1>3 DEF SyncQueueErase
  <2>2. Place = "erase" /\ nvrec_init
    BY <1>1, <2>1, StepOf DEF FromPlace
  <2>3. /\ UNCHANGED <<nv_state, is_update, ram, sent>> /\ flash' = flash
        /\ \E q \in {"erase_full", "erased"} : Goto(t, q)
    BY <1>3 DEF SyncQueueErase, QueueErase, flushVars, sinceBoot, halVars
  <2>4. Place' # "queued"
    BY <1>1, <2>3, PlaceAfter DEF ThreadPlaces
  <2> QED BY <1>1, <2>2, <2>3, <2>4, UpdateStays
<1>4. CASE SyncFulls(t)
  <2>1. PICK full \in {"erase_full", "write_full", "copy_full"} : At(t, full)
    BY <1>4 DEF SyncFulls, SyncFull
  <2>2. Place = full /\ nvrec_init
    BY <1>1, <2>1, StepOf DEF FromPlace
  <2>3. /\ UNCHANGED <<nv_state, is_update, ram, sent>> /\ FlushQueue
        /\ \E q \in {"erase_full", "write_full", "copy_full", "erase", "write", "copy"} : Goto(t, q)
    BY <1>4 DEF SyncFulls, SyncFull, flushVars, sinceBoot
  <2>4. Place' # "queued"
    BY <1>1, <2>3, PlaceAfter DEF ThreadPlaces
  <2>5. nv_state = IDLE => flash'[Main] = flash[Main]
    BY <1>1, <2>2, <2>3, IdleFlash
  <2> QED BY <1>1, <2>2, <2>3, <2>4, <2>5, UpdateStays
<1>5. CASE SyncWriteMain(t)
  <2>1. At(t, "write")
    BY <1>5 DEF SyncWriteMain
  <2>2. FromPlace("write")
    BY <1>1, <2>1, StepOf
  <2>3. Place = "write" /\ nvrec_init /\ WritesIn(nv_state)
    BY <2>2 DEF FromPlace, Control
  <2>4. UNCHANGED <<nv_state, is_update, ram>> /\ nv_state' # IDLE
    BY <1>5, <2>3, NotIdle DEF SyncWriteMain, flushVars
  <2>5. (Goto(t, "write_full") /\ sent' = sent) \/ (Goto(t, "queued") /\ sent' = ram)
    BY <1>5 DEF SyncWriteMain
  <2>6. CASE Goto(t, "write_full") /\ sent' = sent
    <3>1. Place' = "write_full"
      BY <1>1, <2>6, PlaceAfter DEF ThreadPlaces
    <3> QED BY <1>1, <2>3, <2>4, <2>6, <3>1, UpdateStays
  <2>7. CASE sent' = ram
    BY <2>4, <2>7 DEF UpdateInv
  <2> QED BY <2>5, <2>6, <2>7
<1>6. CASE SyncQueued(t)
  <2>1. At(t, "queued")
    BY <1>6 DEF SyncQueued
  <2>2. FromPlace("queued")
    BY <1>1, <2>1, StepOf
  <2>3. Place = "queued" /\ nvrec_init /\ WritesIn(nv_state)
    BY <2>2 DEF FromPlace, Control
  <2>4. ram = sent /\ UNCHANGED <<nv_state, ram, sent>>
    BY <1>1, <1>6, <2>3 DEF UpdateInv, SyncQueued, sinceBoot
  <2> QED BY <2>3, <2>4, NotIdle DEF UpdateInv
<1>7. CASE SyncIdle(t)
  <2>1. At(t, "idle")
    BY <1>7 DEF SyncIdle
  <2>2. FromPlace("idle")
    BY <1>1, <2>1, StepOf
  <2>3. Place = "idle" /\ nvrec_init /\ nv_state = NV(Bak, "DONE")
    BY <2>2 DEF FromPlace, Control
  <2>4. RecOf(nv_state) = Bak
    BY <2>3, Stages DEF StageIs
  <2>5. UNCHANGED <<is_update, ram, sent, flash>> /\ Goto(t, "loop")
    BY <1>7 DEF SyncIdle, sinceBoot, vars, halVars
  <2>6. Place' = "loop"
    BY <1>1, <2>5, PlaceAfter DEF ThreadPlaces
  <2>7. flash'[Main] = Image(sent)
    BY <1>1, <2>3, <2>4, <2>5, MainIsSaved
  <2> QED BY <1>1, <2>3, <2>5, <2>6, <2>7, UpdateStays
<1> QED BY <1>2, <1>3, <1>4, <1>5, <1>6, <1>7, QuietStepUpdates, SavingStepUpdates DEF ThreadStep

LEMMA HookUpdates ==
  ASSUME UpdateKept, HookNext
  PROVE  UpdateInv'
<1>1. NumThreads = 1 /\ NvInv /\ UpdateInv /\ 1 \in Threads
  BY DEF UpdateKept, Threads
<1>2. nvrec_init
  BY <1>1 DEF HookNext, HookErase, HookDone, HookDrain, HookWriteMain, HookCopy, HookFlush,
              HookStarts, Running, NvInv, OffInv
<1>3. Place = "off" /\ Place' = "off"
  <2>1. Place = "off"
    <3>1. hook # "off" => Place = "off"
      BY <1>1, <1>2, InvGives DEF Control
    <3>2. HookStarts => Place = "off"
      BY <1>1 DEF HookStarts, NoThread, Place
    <3> QED BY <3>1, <3>2 DEF HookNext, HookErase, HookDone, HookDrain, HookWriteMain, HookCopy,
                              HookFlush
  <2>2. UNCHANGED thread
    BY DEF HookNext, HookErase, HookDone, HookDrain, HookWriteMain, HookCopy, HookFlush, nvVars
  <2> QED BY <1>1, <2>1, <2>2, PlaceAfter
<1>4. ASSUME NEW rec \in {Main, Bak}, HookErase(rec) PROVE UpdateInv'
  <2>1. UNCHANGED <<is_update, ram, sent>> /\ nv_state' # IDLE
    BY <1>4, NotIdle DEF HookErase
  <2> QED BY <1>1, <1>2, <1>3, <2>1, UpdateStays
<1>5. ASSUME NEW rec \in {Main, Bak}, HookDone(rec) PROVE UpdateInv'
  <2>1. UNCHANGED <<is_update, ram, sent, flash>> /\ nv_state = NV(rec, "WRITTEN")
    BY <1>5 DEF HookDone, vars, halVars
  <2>2. CASE rec = Main
    <3>1. nv_state' # IDLE
      BY <1>5, <2>2, NotIdle, RecordSectors DEF HookDone
    <3> QED BY <1>1, <1>2, <1>3, <2>1, <3>1, UpdateStays
  <2>3. CASE rec = Bak
    <3>1. RecOf(nv_state) = Bak
      BY <2>1, <2>3, Stages DEF StageIs
    <3>2. flash'[Main] = Image(sent)
      BY <1>1, <1>2, <2>1, <3>1, MainIsSaved
    <3> QED BY <1>1, <1>2, <1>3, <2>1, <3>2, UpdateStays
  <2> QED BY <2>2, <2>3
<1>6. ASSUME NEW rec \in {Main, Bak}, HookDrain(rec) PROVE UpdateInv'
  <2>1. UNCHANGED <<is_update, ram, sent, nv_state>> /\ nv_state # IDLE
    BY <1>6, NotIdle DEF HookDrain, nvVars, flushVars
  <2> QED BY <1>1, <1>2, <1>3, <2>1, UpdateStays
<1>7. CASE HookWriteMain
  <2>1. ram' = ram /\ nv_state' # IDLE
    BY <1>7, NotIdle DEF HookWriteMain
  <2>2. UNCHANGED <<is_update, sent>> \/ sent' = ram
    BY <1>7 DEF HookWriteMain
  <2>3. CASE UNCHANGED <<is_update, sent>>
    BY <1>1, <1>2, <1>3, <2>1, <2>3, UpdateStays
  <2>4. CASE sent' = ram
    BY <1>3, <2>1, <2>4 DEF UpdateInv
  <2> QED BY <2>2, <2>3, <2>4
<1>8. CASE HookCopy
  <2>1. UNCHANGED <<is_update, ram, sent>> /\ nv_state' # IDLE
    BY <1>8, NotIdle DEF HookCopy
  <2> QED BY <1>1, <1>2, <1>3, <2>1, UpdateStays
<1>9. CASE HookFlush
  <2>1. UNCHANGED <<is_update, ram, sent, nv_state>> /\ FlushQueue
    BY <1>9 DEF HookFlush, flushVars
  <2>2. nv_state = IDLE => flash'[Main] = flash[Main]
    BY <1>1, <1>2, <1>3, <2>1, IdleFlash
  <2> QED BY <1>1, <1>2, <1>3, <2>1, <2>2, UpdateStays
<1> QED BY <1>4, <1>5, <1>6, <1>7, <1>8, <1>9 DEF HookNext

\* The setters: one that runs while a thread flushes might be overtaken by SyncQueued.
LEMMA CallUpdates ==
  ASSUME UpdateKept, ~SetterPreempts, NvCalls
  PROVE  UpdateInv'
<1>1. NumThreads = 1 /\ NvInv /\ UpdateInv /\ 1 \in Threads
  BY DEF UpdateKept, Threads
<1>2. CASE SetRecord
  <2>1. Place = "off" /\ UNCHANGED thread
    BY <1>1, <1>2 DEF SetRecord, NoThread, Place
  <2>2. Place' = "off"
    BY <1>1, <2>1, PlaceAfter
  <2> QED BY <1>2, <2>2 DEF SetRecord, UpdateInv
<1>3. ASSUME NEW t \in Threads, StartFlush(t) PROVE UpdateInv'
  <2>1. At(t, "off") /\ Goto(t, "loop") /\ UNCHANGED <<flash, nv_state, is_update, ram, sent>>
    BY <1>3 DEF StartFlush, Starts, vars, halVars, flushVars
  <2>2. Place = "off" /\ nvrec_init
    BY <1>1, <2>1, StepOf DEF FromPlace
  <2>3. Place' = "loop"
    BY <1>1, <2>1, PlaceAfter DEF ThreadPlaces
  <2> QED BY <1>1, <2>1, <2>2, <2>3, UpdateStays
<1>4. ASSUME NEW t \in Threads, AddBleRecord(t) PROVE UpdateInv'
  <2>1. At(t, "off") /\ Goto(t, "update") /\ UNCHANGED <<flash, nv_state, is_update, sent>>
    BY <1>4 DEF AddBleRecord, Starts, vars, halVars, flushVars
  <2>2. Place = "off" /\ nvrec_init
    BY <1>1, <2>1, StepOf DEF FromPlace
  <2>3. Place' = "update"
    BY <1>1, <2>1, PlaceAfter DEF ThreadPlaces
  <2> QED BY <1>1, <2>1, <2>2, <2>3 DEF UpdateInv
<1>5. ASSUME NEW t \in Threads, SetAndFlush(t) PROVE UpdateInv'
  <2>1. Goto(t, "loop") /\ is_update' = TRUE
    BY <1>5 DEF SetAndFlush
  <2>2. Place' = "loop"
    BY <1>1, <2>1, PlaceAfter DEF ThreadPlaces
  <2> QED BY <2>1, <2>2 DEF UpdateInv
<1> QED BY <1>2, <1>3, <1>4, <1>5 DEF NvCalls

LEMMA BootUpdates ==
  ASSUME UpdateKept, Boot
  PROVE  UpdateInv'
<1>1. NumThreads = 1 /\ NvInv /\ 1 \in Threads
  BY DEF UpdateKept, Threads
<1>2. /\ ram' = Recoverable /\ sent' = Recoverable /\ is_update' = NeedsUpdate
      /\ flash' = flash /\ \E q \in {"loop", "off"} : Goto(1, q)
  BY DEF Boot, Register, halVars, Goto
<1>3. Place' # "queued"
  BY <1>1, <1>2, PlaceAfter DEF ThreadPlaces
<1>4. ~NeedsUpdate => flash'[Main] = Image(sent')
  <2> SUFFICES ASSUME ~NeedsUpdate PROVE flash'[Main] = Image(sent')
    OBVIOUS
  <2>1. Valid(Main)
    BY DEF NeedsUpdate
  <2>2. PICK v \in Values : flash[Main] = Image(v)
    BY <2>1 DEF Valid
  <2>3. Recoverable = v
    BY <2>1, <2>2, ImageIsValid DEF Recoverable
  <2> QED BY <1>2, <2>2, <2>3
<1> QED BY <1>2, <1>3, <1>4 DEF UpdateInv

LEMMA NextUpdates ==
  ASSUME UpdateKept, ~SetterPreempts, [NvNext]_allVars
  PROVE  UpdateInv'
<1>1. NumThreads = 1 /\ NvInv /\ UpdateInv /\ 1 \in Threads
  BY DEF UpdateKept, Threads
<1>2. CASE PowerLoss
  BY <1>2 DEF PowerLoss, UpdateInv
<1>3. CASE OtherFlush
  <2>1. nvrec_init /\ FlushQueue /\ UNCHANGED <<nv_state, is_update, ram, sent, thread>>
    BY <1>3 DEF OtherFlush, Interleaves, Running, nvVars, flushVars
  <2>2. Place' = Place
    BY <1>1, <2>1, PlaceAfter
  <2>3. nv_state = IDLE /\ Place # "erased" => flash'[Main] = flash[Main]
    BY <1>1, <2>1, IdleFlash
  <2> QED BY <1>1, <2>1, <2>2, <2>3 DEF UpdateInv
<1>4. CASE OtherModule
  <2>1. UNCHANGED <<nv_state, is_update, ram, sent, thread, nvrec_init>>
    BY <1>4 DEF OtherModule, nvVars, flushVars
  <2>2. Place' = Place
    BY <1>1, <2>1, PlaceAfter
  <2>3. flash' = flash
    BY <1>1, <1>4, OtherModuleKeeps DEF NvInv, QueueKept, halVars
  <2> QED BY <1>1, <2>1, <2>2, <2>3 DEF UpdateInv
<1>5. CASE UNCHANGED allVars
  BY <1>1, <1>5 DEF UpdateInv, Place, allVars, vars, halVars, nvVars, flushVars
<1> QED BY <1>2, <1>3, <1>4, <1>5, BootUpdates, CallUpdates, HookUpdates, ThreadUpdates DEF NvNext

\* When nothing is under way and nothing is marked as changed, the record in RAM is the
\* one in flash: no update is forgotten, by a flush or by the sleep hook, whatever the
\* power does ("need to flush the nv record").  It holds while no setter runs in the
\* middle of a flush: is_update is cleared after the record has been handed to the queue
\* and outside the lock of the setters.
THEOREM RecordNothingForgotten ==
  NumThreads = 1 /\ ~SetterPreempts => (NvSpec => []NothingForgotten)
<1> SUFFICES ASSUME NumThreads = 1, ~SetterPreempts PROVE NvSpec => []NothingForgotten
  OBVIOUS
<1>1. NvInit => NvInv /\ UpdateInv
  BY NvInitHolds DEF NvInit, UpdateInv
<1>2. NvInv /\ UpdateInv /\ [NvNext]_allVars => (NvInv /\ UpdateInv)'
  BY NvNextKeeps, NextUpdates DEF UpdateKept
<1>3. NvInv /\ UpdateInv => NothingForgotten
  <2> SUFFICES ASSUME NvInv, UpdateInv, Quiet PROVE flash[Main] = Image(ram)
    BY DEF NothingForgotten
  <2>1. nvrec_init /\ nv_state = IDLE /\ ~is_update /\ Place = "off"
    BY DEF Quiet, Running, NoThread, Threads, Place
  <2> QED BY <2>1 DEF UpdateInv
<1> QED BY <1>1, <1>2, <1>3, PTL DEF NvSpec
=============================================================================
