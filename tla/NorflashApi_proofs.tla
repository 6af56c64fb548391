------------------------- MODULE NorflashApi_proofs -------------------------
(***************************************************************************)
(* Proofs about NorflashApi, for any number of sectors, client modules,    *)
(* nodes and buffers.                                                      *)
(***************************************************************************)
EXTENDS NorflashApi, SequenceTheorems, WellFoundedInduction, TLAPS

-----------------------------------------------------------------------------
(***************************************************************************)
(* The list operators of OperaQueue.                                       *)
(***************************************************************************)

\* A non-empty set of places in a list has a newest one.
LEMMA NewestIsMax ==
  ASSUME NEW n \in Nat, NEW I \in SUBSET (1..n), I # {}
  PROVE  Newest(I) \in I /\ \A j \in I : j <= Newest(I)
<1> DEFINE T == {k \in Nat : n - k \in I}
           R == OpToRel(<, Nat)
<1>1. T \subseteq Nat
  OBVIOUS
<1>2. T # {}
  <2>1. PICK i \in I : TRUE
    OBVIOUS
  <2>2. n - i \in Nat /\ n - (n - i) = i
    BY <2>1
  <2> QED BY <2>1, <2>2
<1>3. \A x, y \in Nat : x < y => <<x, y>> \in R
  BY DEF OpToRel
<1>4. PICK x \in T : \A y \in T : ~(<<y, x>> \in R)
  <2> HIDE DEF T, R
  <2> QED BY <1>1, <1>2, WFMin, NatLessThanWellFounded DEF R
<1>5. \A y \in T : ~(y < x)
  BY <1>1, <1>3, <1>4
<1>6. ASSUME NEW j \in I PROVE j <= n - x
  <2>1. n - j \in T
    BY <1>6
  <2> QED BY <1>5, <2>1, <1>6
<1>7. n - x \in I /\ \A j \in I : j <= n - x
  BY <1>6
<1> QED BY <1>7 DEF Newest

\* Removing a place of a list leaves a shorter list, and its oldest node where it
\* was if that was not the one removed.
LEMMA RemoveIndexProperties ==
  ASSUME NEW S, NEW q \in Seq(S), NEW i \in 1..Len(q)
  PROVE  /\ RemoveIndex(q, i) \in Seq(S)
         /\ Len(RemoveIndex(q, i)) = Len(q) - 1
         /\ i > 1 => RemoveIndex(q, i)[1] = q[1]
<1>1. /\ SubSeq(q, 1, i - 1) \in Seq(S)
      /\ Len(SubSeq(q, 1, i - 1)) = i - 1
      /\ \A j \in 1..(i - 1) : SubSeq(q, 1, i - 1)[j] = q[j]
  BY SubSeqProperties, LenProperties
<1>2. /\ SubSeq(q, i + 1, Len(q)) \in Seq(S)
      /\ Len(SubSeq(q, i + 1, Len(q))) = Len(q) - i
  BY SubSeqProperties, LenProperties
<1> DEFINE front == SubSeq(q, 1, i - 1)
           back == SubSeq(q, i + 1, Len(q))
<1>3. /\ front \o back \in Seq(S)
      /\ Len(front \o back) = Len(front) + Len(back)
      /\ \A j \in 1..(Len(front) + Len(back)) :
           (front \o back)[j] = IF j <= Len(front) THEN front[j] ELSE back[j - Len(front)]
  <2> HIDE DEF front, back
  <2> QED BY <1>1, <1>2, ConcatProperties DEF front, back
<1>4. Len(q) \in Nat
  BY LenProperties
<1>5. RemoveIndex(q, i) = front \o back
  BY DEF RemoveIndex
<1>6. Len(front) = i - 1 /\ Len(back) = Len(q) - i /\ (i > 1 => front[1] = q[1])
  BY <1>1, <1>2, <1>4
<1> QED
  <2> HIDE DEF front, back
  <2>1. RemoveIndex(q, i) \in Seq(S)
    BY <1>3, <1>5
  <2>2. Len(RemoveIndex(q, i)) = (i - 1) + (Len(q) - i)
    BY <1>3, <1>5, <1>6
  <2>3. Len(RemoveIndex(q, i)) = Len(q) - 1
    BY <1>4, <2>2
  <2>4. ASSUME i > 1 PROVE RemoveIndex(q, i)[1] = q[1]
    BY <1>3, <1>4, <1>5, <1>6, <2>4
  <2> QED BY <2>1, <2>3, <2>4

\* What an erase leaves of a list: the node being performed stays in its place.
LEMMA DeleteNewestProperties ==
  ASSUME NEW S, NEW q \in Seq(S), NEW locked \in BOOLEAN, NEW s
  PROVE  /\ DeleteNewest(q, locked, s) \in Seq(S)
         /\ Len(DeleteNewest(q, locked, s)) <= Len(q)
         /\ locked /\ q # <<>> => /\ DeleteNewest(q, locked, s) # <<>>
                                  /\ DeleteNewest(q, locked, s)[1] = q[1]
<1> DEFINE U == Unlocked(q, locked, s)
<1>1. U \in SUBSET (1..Len(q)) /\ (locked => 1 \notin U)
  BY DEF Unlocked, On
<1>2. CASE U = {}
  BY <1>2 DEF DeleteNewest
<1>3. CASE U # {}
  <2>1. Newest(U) \in U
    BY <1>1, <1>3, NewestIsMax, LenProperties
  <2>2. DeleteNewest(q, locked, s) = RemoveIndex(q, Newest(U))
    BY <1>3 DEF DeleteNewest
  <2>3. /\ RemoveIndex(q, Newest(U)) \in Seq(S)
        /\ Len(RemoveIndex(q, Newest(U))) = Len(q) - 1
        /\ Newest(U) > 1 => RemoveIndex(q, Newest(U))[1] = q[1]
    BY <1>1, <2>1, RemoveIndexProperties
  <2>4. ASSUME locked PROVE Newest(U) > 1 /\ Len(q) > 1
    <3>1. Newest(U) \in 1..Len(q) /\ Newest(U) # 1 /\ Len(q) \in Nat
      BY <1>1, <2>1, <2>4, LenProperties
    <3> QED BY <3>1
  <2> QED BY <2>2, <2>3, <2>4, LenProperties, EmptySeq
<1> QED BY <1>2, <1>3

\* The whole walk deletes twice: it keeps the locked node in front and shrinks the
\* list by what it deletes.
LEMMA DeletePendingProperties ==
  ASSUME NEW S, NEW q \in Seq(S), NEW locked \in BOOLEAN, NEW s
  PROVE  /\ DeletePending(q, locked, s) \in Seq(S)
         /\ Len(DeletePending(q, locked, s)) <= Len(q)
         /\ locked /\ q # <<>> => /\ DeletePending(q, locked, s) # <<>>
                                  /\ DeletePending(q, locked, s)[1] = q[1]
<1> DEFINE once == DeleteNewest(q, locked, s)
<1>1. /\ once \in Seq(S)
      /\ Len(once) <= Len(q)
      /\ locked /\ q # <<>> => once # <<>> /\ once[1] = q[1]
  BY DeleteNewestProperties
<1>2. /\ DeleteNewest(once, locked, s) \in Seq(S)
      /\ Len(DeleteNewest(once, locked, s)) <= Len(once)
      /\ locked /\ once # <<>> => /\ DeleteNewest(once, locked, s) # <<>>
                                  /\ DeleteNewest(once, locked, s)[1] = once[1]
  BY <1>1, DeleteNewestProperties
<1> QED BY <1>1, <1>2, LenProperties DEF DeletePending

\* The write that a new write is merged into is on the list and is not the one
\* being performed.
LEMMA MergedWriteIsUnlocked ==
  ASSUME NEW S, NEW q \in Seq(S), NEW locked \in BOOLEAN, NEW s,
         WriteMerged(q, locked, s)
  PROVE  LET i == Newest(Stops(q, locked, s))
         IN  i \in 1..Len(q) /\ (locked => i # 1)
<1>1. Stops(q, locked, s) \in SUBSET (1..Len(q))
  BY DEF Stops, On
<1>2. Newest(Stops(q, locked, s)) \in Stops(q, locked, s)
  BY <1>1, NewestIsMax, LenProperties DEF WriteMerged
<1> QED BY <1>1, <1>2 DEF WriteMerged, Stops, Unlocked

-----------------------------------------------------------------------------
(***************************************************************************)
(* The driver of HalNorflash.                                              *)
(***************************************************************************)

\* Programming pages leaves an image of a sector.
LEMMA ProgramType ==
  ASSUME NEW image \in Images, NEW buf \in Images, NEW lo, NEW hi
  PROVE  Program(image, buf, lo, hi) \in Images
<1>1. ASSUME NEW K \in SUBSET Contents PROVE Wired(K) \in Contents
  BY <1>1 DEF Wired, Contents
<1>2. ASSUME NEW c \in Cells
      PROVE  (IF c \in lo..hi THEN Wired({image[c], buf[c]}) ELSE image[c]) \in Contents
  <2>1. image[c] \in Contents /\ {image[c], buf[c]} \in SUBSET Contents
    BY <1>2 DEF Images
  <2> QED BY <1>1, <2>1
<1> QED BY <1>2 DEF Program, Images

\* What the driver keeps while operation n of norflash_api is suspended.
Keeps(h, n) ==
  /\ h.state = IF n.type = "WRITTING" THEN "PROGRAM" ELSE "ERASE"
  /\ h.sec = n.sec
  /\ n.type = "WRITTING" => h.next \in n.lo..n.hi /\ h.last = n.hi

\* The driver's functions keep their types.
LEMMA HalStepType ==
  ASSUME HalTypeOK, NEW s \in Sectors \cup {NoSector}, NEW buf \in Images,
         NEW lo \in 0..NumCells, NEW hi \in 0..NumCells, NEW suspend, NEW result,
         \/ EraseInt(s, suspend, result)
         \/ WriteInt(s, buf, lo, hi, suspend, result)
         \/ BadOp(result)
  PROVE  HalTypeOK'
<1> USE CellsAssumption
<1>1. CASE BadOp(result)
  BY <1>1 DEF BadOp, HalTypeOK, halVars
<1>2. CASE EraseInt(s, suspend, result)
  <2>1. ErasedImage \in Images /\ TornImage \in Images
    BY DEF ErasedImage, TornImage, Images, Contents
  <2>2. flash' \in [Sectors -> Images]
    BY <1>2, <2>1 DEF EraseInt, HalTypeOK
  <2>3. hal' \in HalStates
    BY <1>2 DEF EraseInt, HalTypeOK, HalStates, NotSuspended, SuspendStates
  <2> QED BY <2>2, <2>3 DEF HalTypeOK
<1>3. CASE WriteInt(s, buf, lo, hi, suspend, result)
  <2>1. ASSUME NEW a, NEW b, flash' = [flash EXCEPT ![s] = Program(@, buf, a, b)]
        PROVE  flash' \in [Sectors -> Images]
    <3>1. CASE s \in Sectors
      <4>1. Program(flash[s], buf, a, b) \in Images
        BY <3>1, ProgramType DEF HalTypeOK
      <4> QED BY <2>1, <3>1, <4>1 DEF HalTypeOK
    <3>2. CASE s \notin Sectors
      BY <2>1, <3>2 DEF HalTypeOK
    <3> QED BY <3>1, <3>2
  <2>2. flash' \in [Sectors -> Images]
    BY <1>3, <2>1 DEF WriteInt
  <2>3. hal' \in HalStates
    BY <1>3 DEF WriteInt, HalStates, NotSuspended, SuspendStates
  <2> QED BY <2>2, <2>3 DEF HalTypeOK
<1> QED BY <1>1, <1>2, <1>3

\* An operation that is started while the driver is free, or resumed while the
\* driver keeps it, is accepted; what is suspended is that operation.
LEMMA HalCallAccepted ==
  ASSUME HalTypeOK, NEW n \in Nodes, NEW st, NEW suspend \in BOOLEAN, NEW result,
         HalCall(n, st, suspend, result),
         \/ st = "IDLE" /\ hal.state = "NONE"
         \/ st = SuspendedState(n) /\ Keeps(hal, n)
  PROVE  /\ HalTypeOK'
         /\ \/ result = "OK" /\ hal' = NotSuspended
            \/ suspend /\ result = "SUSPENDED" /\ Keeps(hal', n)
<1> USE CellsAssumption
<1>1. /\ n.sec \in Sectors /\ n.buf \in Images /\ n.type \in {"WRITTING", "ERASING"}
      /\ n.lo \in 1..NumCells /\ n.hi \in 0..NumCells
  BY DEF Nodes
<1>2. /\ hal.sec \in Sectors \cup {NoSector}
      /\ hal.next \in 0..NumCells /\ hal.last \in 0..NumCells
  BY DEF HalTypeOK, HalStates
<1>3. CASE st = "IDLE" /\ hal.state = "NONE"
  <2>1. CASE n.type = "WRITTING"
    <3>1. WriteInt(n.sec, n.buf, n.lo, n.hi, suspend, result)
      BY <1>3, <2>1 DEF HalCall, HalWrite
    <3>2. HalTypeOK'
      BY <1>1, <3>1, HalStepType
    <3>3. \/ result = "OK" /\ hal' = NotSuspended
          \/ suspend /\ result = "SUSPENDED" /\ Keeps(hal', n)
      BY <2>1, <3>1 DEF WriteInt, Keeps
    <3> QED BY <3>2, <3>3
  <2>2. CASE n.type = "ERASING"
    <3>1. EraseInt(n.sec, suspend, result)
      BY <1>3, <2>2 DEF HalCall, HalErase
    <3>2. HalTypeOK'
      BY <1>1, <3>1, HalStepType
    <3>3. \/ result = "OK" /\ hal' = NotSuspended
          \/ suspend /\ result = "SUSPENDED" /\ Keeps(hal', n)
      BY <2>2, <3>1 DEF EraseInt, Keeps
    <3> QED BY <3>2, <3>3
  <2> QED BY <1>1, <2>1, <2>2
<1>4. CASE st = SuspendedState(n) /\ Keeps(hal, n)
  <2>1. CASE n.type = "WRITTING"
    <3>1. WriteInt(hal.sec, n.buf, hal.next, hal.last, suspend, result)
      BY <1>4, <2>1 DEF HalCall, HalWriteResume, SuspendedState, Keeps
    <3>2. HalTypeOK'
      BY <1>1, <1>2, <3>1, HalStepType
    <3>3. \/ result = "OK" /\ hal' = NotSuspended
          \/ suspend /\ result = "SUSPENDED" /\ Keeps(hal', n)
      BY <1>1, <1>2, <1>4, <2>1, <3>1 DEF WriteInt, Keeps
    <3> QED BY <3>2, <3>3
  <2>2. CASE n.type = "ERASING"
    <3>1. EraseInt(hal.sec, suspend, result)
      BY <1>4, <2>2 DEF HalCall, HalEraseResume, SuspendedState, Keeps
    <3>2. HalTypeOK'
      BY <1>1, <1>2, <3>1, HalStepType
    <3>3. \/ result = "OK" /\ hal' = NotSuspended
          \/ suspend /\ result = "SUSPENDED" /\ Keeps(hal', n)
      BY <1>4, <2>2, <3>1 DEF EraseInt, Keeps
    <3> QED BY <3>2, <3>3
  <2> QED BY <1>1, <2>1, <2>2
<1> QED BY <1>3, <1>4

-----------------------------------------------------------------------------
(***************************************************************************)
(* One step of a queued operation.                                         *)
(***************************************************************************)

\* The types of the oldest node and of what is left without it.
LEMMA HeadTailType ==
  ASSUME NEW q \in Seq(Nodes), q # <<>>
  PROVE  Head(q) \in Nodes /\ Tail(q) \in Seq(Nodes)
BY HeadTailProperties

\* The invariants say that a module is suspended exactly as its oldest node is
\* kept by the driver.
LEMMA ReadyToFlush ==
  ASSUME TypeOK, SuspendedIsCurrent, DriverMatchesQueue,
         NEW m \in Mods, Registered(m), queue[m] # <<>>, ~OtherSuspended(m)
  PROVE  \/ state[m] = "IDLE" /\ hal.state = "NONE"
         \/ state[m] = SuspendedState(Head(queue[m])) /\ Keeps(hal, Head(queue[m]))
<1>1. /\ Head(queue[m]).type \in {"WRITTING", "ERASING"}
      /\ hal.state \in SuspendStates
      /\ state[m] \in ModStates
  BY HeadTailType DEF TypeOK, ApiTypeOK, Nodes, HalTypeOK, HalStates
<1>2. CASE state[m] = "IDLE"
  <2>1. hal.state = "NONE"
    BY <1>1, <1>2, ModAssumption DEF DriverMatchesQueue, OtherSuspended, SuspendStates
  <2> QED BY <1>2, <2>1
<1>3. CASE state[m] \in {"WRITTING_SUSPEND", "ERASE_SUSPEND"}
  <2>1. /\ m = cur_mod
        /\ state[m] = SuspendedState(Head(queue[m]))
        /\ hal.sec = Head(queue[m]).sec
    BY <1>3 DEF SuspendedIsCurrent
  <2>2. Keeps(hal, Head(queue[m]))
    BY <1>1, <1>3, <2>1
       DEF DriverMatchesQueue, Keeps, SuspendedState, SuspendStates
  <2> QED BY <2>1, <2>2
<1> QED BY <1>1, <1>2, <1>3 DEF ModStates, Registered

\* A flush of m completes its oldest node or suspends it, and no ASSERT fails.
LEMMA OperaFlushSteps ==
  ASSUME TypeOK, SuspendedIsCurrent, DriverMatchesQueue,
         NEW m \in Mods, Registered(m), ~OtherSuspended(m),
         NEW suspend \in BOOLEAN, Opera_flush(m, suspend)
  PROVE  /\ queue[m] # <<>>
         /\ HalTypeOK'
         /\ UNCHANGED asserted
         /\ \/ /\ hal' = NotSuspended
               /\ state' = [state EXCEPT ![m] = "IDLE"]
               /\ cur' = [cur EXCEPT ![m] = FALSE]
               /\ Opera_del(m)
            \/ /\ suspend
               /\ Keeps(hal', Head(queue[m]))
               /\ state' = [state EXCEPT ![m] = SuspendedState(Head(queue[m]))]
               /\ cur' = [cur EXCEPT ![m] = TRUE]
               /\ UNCHANGED <<queue, opera_used, data_used>>
<1> DEFINE n == Head(queue[m])
<1>1. queue[m] # <<>>
  BY DEF Opera_flush
<1>2. n \in Nodes
  BY <1>1, HeadTailType DEF TypeOK, ApiTypeOK
<1>3. \/ state[m] = "IDLE" /\ hal.state = "NONE"
      \/ state[m] = SuspendedState(n) /\ Keeps(hal, n)
  BY <1>1, ReadyToFlush
<1>4. ASSUME NEW result, HalCall(n, state[m], suspend, result)
      PROVE  /\ HalTypeOK'
             /\ \/ result = "OK" /\ hal' = NotSuspended
                \/ suspend /\ result = "SUSPENDED" /\ Keeps(hal', n)
  <2> HIDE DEF n
  <2> QED BY <1>2, <1>3, <1>4, HalCallAccepted DEF TypeOK, ApiTypeOK
<1>5. CASE /\ HalCall(n, state[m], suspend, "OK")
           /\ state' = [state EXCEPT ![m] = "IDLE"]
           /\ cur' = [cur EXCEPT ![m] = FALSE]
           /\ Opera_del(m)
           /\ UNCHANGED asserted
  <2>1. HalTypeOK' /\ hal' = NotSuspended
    BY <1>4, <1>5
  <2> QED BY <1>1, <1>5, <2>1
<1>6. CASE /\ HalCall(n, state[m], suspend, "SUSPENDED")
           /\ state' = [state EXCEPT ![m] = SuspendedState(n)]
           /\ cur' = [cur EXCEPT ![m] = TRUE]
           /\ UNCHANGED <<queue, opera_used, data_used, asserted>>
  <2>1. HalTypeOK' /\ suspend /\ Keeps(hal', n)
    BY <1>4, <1>6
  <2> QED BY <1>1, <1>6, <2>1
<1>7. CASE \E result \in {"BAD_OP", "BAD_STATE"} : HalCall(n, state[m], suspend, result)
  BY <1>4, <1>7
<1> QED BY <1>5, <1>6, <1>7 DEF Opera_flush

\* What Opera_del leaves is well typed.
LEMMA OperaDelType ==
  ASSUME TypeOK, NEW m \in Mods, queue[m] # <<>>, Opera_del(m)
  PROVE  /\ queue' \in [Mods -> Seq(Nodes)]
         /\ opera_used' \in Int /\ opera_used' <= OpraLen
         /\ data_used' \in Int /\ data_used' <= BuffLen
BY HeadTailType, PoolAssumption DEF Opera_del, TypeOK, ApiTypeOK

(***************************************************************************)
(* The part of the inductive invariant that is about the queues and the    *)
(* driver, and the three ways in which a call changes them.                *)
(***************************************************************************)
Core ==
  /\ ApiTypeOK
  /\ SuspendedIsCurrent
  /\ DriverMatchesQueue
  /\ CurIsListed

\* The invariant holds where no module is suspended and the driver is free.
LEMMA NothingSuspended ==
  ASSUME ApiTypeOK, hal.state = "NONE",
         \A m \in Mods : state[m] \in {"UNINITED", "IDLE"}
  PROVE  SuspendedIsCurrent /\ DriverMatchesQueue
BY DEF SuspendedIsCurrent, DriverMatchesQueue

\* norflash_api_flush on a module whose turn it is.
LEMMA FlushStepCore ==
  ASSUME TypeOK, Core, NEW m \in Mods, FlushStep(m)
  PROVE  Core' /\ UNCHANGED asserted
<1>1. (cur_mod = m \/ cur_mod = NoMod) /\ Registered(m)
  BY DEF FlushStep, IsCurMod, Pending, Core, CurIsListed
<1>2. \A o \in Mods : o # m => state[o] \in {"UNINITED", "IDLE"}
  BY <1>1, ModAssumption DEF Core, SuspendedIsCurrent, ApiTypeOK, ModStates
<1>3. CASE Opera_flush(m, TRUE) /\ cur_mod' = m
  <2> DEFINE n == Head(queue[m])
  <2>1. /\ queue[m] # <<>>
        /\ HalTypeOK'
        /\ UNCHANGED asserted
        /\ \/ /\ hal' = NotSuspended
              /\ state' = [state EXCEPT ![m] = "IDLE"]
              /\ cur' = [cur EXCEPT ![m] = FALSE]
              /\ Opera_del(m)
           \/ /\ Keeps(hal', n)
              /\ state' = [state EXCEPT ![m] = SuspendedState(n)]
              /\ cur' = [cur EXCEPT ![m] = TRUE]
              /\ UNCHANGED <<queue, opera_used, data_used>>
    BY <1>1, <1>3, OperaFlushSteps DEF Core, OtherSuspended
  <2>2. cur_mod_id' \in 0..NumMods
    BY ModAssumption DEF FlushStep, Mods
  <2>3. n \in Nodes
    BY <2>1, HeadTailType DEF Core, ApiTypeOK
  <2>4. CASE /\ hal' = NotSuspended
             /\ state' = [state EXCEPT ![m] = "IDLE"]
             /\ cur' = [cur EXCEPT ![m] = FALSE]
             /\ Opera_del(m)
    <3>1. ApiTypeOK'
      BY <1>3, <2>1, <2>2, <2>4, OperaDelType DEF Core, ApiTypeOK, ModStates
    <3>2. SuspendedIsCurrent' /\ DriverMatchesQueue'
      BY <1>2, <2>4, <3>1 DEF SuspendedIsCurrent, DriverMatchesQueue, NotSuspended,
                              Core, ApiTypeOK
    <3>3. CurIsListed'
      BY <1>1, <1>3, <2>4 DEF Core, ApiTypeOK, CurIsListed, Opera_del, Registered
    <3> QED BY <2>1, <3>1, <3>2, <3>3 DEF Core
  <2>5. CASE /\ Keeps(hal', n)
             /\ state' = [state EXCEPT ![m] = SuspendedState(n)]
             /\ cur' = [cur EXCEPT ![m] = TRUE]
             /\ UNCHANGED <<queue, opera_used, data_used>>
    <3>1. ApiTypeOK'
      BY <1>3, <2>1, <2>2, <2>5 DEF Core, ApiTypeOK, ModStates, SuspendedState
    <3>2. SuspendedIsCurrent'
      BY <1>2, <1>3, <2>1, <2>5 DEF SuspendedIsCurrent, Keeps, Core, ApiTypeOK
    <3>3. DriverMatchesQueue'
      BY <1>3, <2>3, <2>5
         DEF DriverMatchesQueue, Keeps, SuspendedState, Core, ApiTypeOK, Nodes
    <3>4. CurIsListed'
      BY <1>1, <1>3, <2>1, <2>5
         DEF Core, ApiTypeOK, CurIsListed, Registered, SuspendedState
    <3> QED BY <2>1, <3>1, <3>2, <3>3, <3>4 DEF Core
  <2> QED BY <2>1, <2>4, <2>5
<1>4. CASE /\ queue[m] = <<>>
           /\ cur_mod' = NoMod
           /\ UNCHANGED <<halVars, state, queue, cur, opera_used, data_used, asserted>>
  <2>1. state[m] \in {"UNINITED", "IDLE"}
    BY <1>4 DEF Core, SuspendedIsCurrent, ApiTypeOK, ModStates
  <2>2. hal.state = "NONE"
    BY <1>1, <1>2, <2>1, ModAssumption
       DEF Core, DriverMatchesQueue, ApiTypeOK, HalTypeOK, HalStates, SuspendStates
  <2>3. ApiTypeOK'
    BY <1>4, ModAssumption, SMTT(30)
       DEF Core, ApiTypeOK, FlushStep, Mods, HalTypeOK, halVars
  <2>4. SuspendedIsCurrent' /\ DriverMatchesQueue'
    BY <1>2, <1>4, <2>1, <2>2 DEF SuspendedIsCurrent, DriverMatchesQueue, halVars
  <2>5. CurIsListed'
    BY <1>4, ModAssumption DEF Core, CurIsListed
  <2> QED BY <1>4, <2>3, <2>4, <2>5 DEF Core
<1> QED BY <1>3, <1>4 DEF FlushStep

\* The flush of a synchronous call, which nothing suspends: afterwards no module
\* is suspended.
LEMMA SyncFlushCore ==
  ASSUME TypeOK, Core, NEW m \in Mods, Registered(m), ~OtherSuspended(m),
         Opera_flush(m, FALSE), UNCHANGED <<cur_mod, cur_mod_id>>
  PROVE  /\ Core'
         /\ UNCHANGED asserted
         /\ state' = [state EXCEPT ![m] = "IDLE"]
<1>1. /\ queue[m] # <<>>
      /\ HalTypeOK'
      /\ UNCHANGED asserted
      /\ hal' = NotSuspended
      /\ state' = [state EXCEPT ![m] = "IDLE"]
      /\ cur' = [cur EXCEPT ![m] = FALSE]
      /\ Opera_del(m)
  BY OperaFlushSteps DEF Core
<1>2. \A o \in Mods : o # m => state[o] \in {"UNINITED", "IDLE"}
  BY ModAssumption
     DEF Core, SuspendedIsCurrent, ApiTypeOK, ModStates, OtherSuspended
<1>3. ApiTypeOK'
  BY <1>1, OperaDelType DEF Core, ApiTypeOK, ModStates
<1>4. SuspendedIsCurrent' /\ DriverMatchesQueue'
  <2>1. hal'.state = "NONE"
    BY <1>1 DEF NotSuspended
  <2>2. \A o \in Mods : state'[o] \in {"UNINITED", "IDLE"}
    BY <1>1, <1>2 DEF Core, ApiTypeOK
  <2> QED BY <2>1, <2>2 DEF SuspendedIsCurrent, DriverMatchesQueue
<1>5. CurIsListed'
  BY <1>1 DEF Core, ApiTypeOK, CurIsListed, Opera_del, Registered
<1> QED BY <1>1, <1>3, <1>4, <1>5 DEF Core

\* A change of one queue that leaves the node being performed where it is.
QueueChange(m, q) ==
  /\ q \in Seq(Nodes)
  /\ cur[m] => q # <<>> /\ Head(q) = Head(queue[m])
  /\ queue' = [queue EXCEPT ![m] = q]
  /\ opera_used' \in Int /\ opera_used' <= OpraLen
  /\ data_used' \in Int /\ data_used' <= BuffLen
  /\ UNCHANGED <<halVars, state, cur, cur_mod, cur_mod_id>>

\* A client call that leaves the locked nodes and the driver alone keeps the core of
\* the invariant.
LEMMA QueueCore ==
  ASSUME Core, NEW m \in Mods, NEW q, QueueChange(m, q)
  PROVE  Core' /\ LockedNodeStays
<1> USE DEF QueueChange
<1>1. ApiTypeOK'
  BY DEF Core, ApiTypeOK, HalTypeOK, halVars
<1>2. \A o \in Mods : cur[o] => queue'[o] # <<>> /\ Head(queue'[o]) = Head(queue[o])
  BY DEF Core, ApiTypeOK, CurIsListed
<1>3. SuspendedIsCurrent'
  BY <1>2 DEF Core, SuspendedIsCurrent, halVars
<1>4. DriverMatchesQueue'
  <2>1. ASSUME hal.state = "PROGRAM"
        PROVE  cur_mod \in Mods /\ Head(queue'[cur_mod]) = Head(queue[cur_mod])
    BY <1>2, <2>1 DEF Core, DriverMatchesQueue, SuspendedIsCurrent
  <2> QED BY <2>1 DEF Core, DriverMatchesQueue, halVars
<1>5. CurIsListed'
  BY <1>2 DEF Core, CurIsListed, Registered
<1> QED BY <1>1, <1>2, <1>3, <1>4, <1>5 DEF Core, LockedNodeStays

\* _e_opera_add keeps the node being performed and gives back what it deletes.
LEMMA EraseChange ==
  ASSUME Core, NEW s \in Sectors, norflash_api_erase(s)
  PROVE  \E q : QueueChange(Owner[s], q)
<1> DEFINE m == Owner[s]
           kept == DeletePending(queue[m], cur[m], s)
           freed == Len(queue[m]) - Len(kept)
<1>1. m \in Mods /\ queue[m] \in Seq(Nodes) /\ cur[m] \in BOOLEAN
  BY ModAssumption DEF Core, ApiTypeOK
<1>2. /\ kept \in Seq(Nodes)
      /\ Len(kept) <= Len(queue[m])
      /\ cur[m] => kept # <<>> /\ kept[1] = queue[m][1]
  <2>1. cur[m] => queue[m] # <<>>
    BY <1>1 DEF Core, CurIsListed
  <2> QED BY <1>1, <2>1, DeletePendingProperties
<1>3. freed \in Nat
  <2> HIDE DEF m, kept
  <2> QED BY <1>1, <1>2, LenProperties
<1>4. /\ data_used' = data_used - BuffersOf(queue[m], cur[m], s)
      /\ \/ /\ queue' = [queue EXCEPT ![m] = kept]
            /\ opera_used' = opera_used - freed
         \/ /\ opera_used - freed # OpraLen
            /\ queue' = [queue EXCEPT ![m] = Append(kept, ErasingNode(s))]
            /\ opera_used' = opera_used - freed + 1
      /\ UNCHANGED <<halVars, state, cur, cur_mod, cur_mod_id>>
  BY DEF norflash_api_erase, E_opera_add
<1>5. data_used' \in Int /\ data_used' <= BuffLen
  BY <1>4, PoolAssumption DEF BuffersOf, Core, ApiTypeOK
<1>6. opera_used' \in Int /\ opera_used' <= OpraLen
  <2> HIDE DEF freed
  <2> QED BY <1>3, <1>4, PoolAssumption DEF Core, ApiTypeOK
<1>7. ErasingNode(s) \in Nodes
  BY CellsAssumption DEF ErasingNode, Nodes, ErasedImage, Images, Contents
<1>8. /\ Append(kept, ErasingNode(s)) \in Seq(Nodes)
      /\ Append(kept, ErasingNode(s)) # <<>>
      /\ kept # <<>> => Append(kept, ErasingNode(s))[1] = kept[1]
  <2> HIDE DEF kept
  <2> QED BY <1>2, <1>7, AppendProperties, LenProperties, EmptySeq
<1> HIDE DEF m, kept, freed
<1>9. CASE queue' = [queue EXCEPT ![m] = kept]
  <2>1. cur[m] => kept # <<>> /\ Head(kept) = Head(queue[m])
    BY <1>2
  <2> QED BY <1>2, <1>4, <1>5, <1>6, <1>9, <2>1 DEF QueueChange, m
<1>10. CASE queue' = [queue EXCEPT ![m] = Append(kept, ErasingNode(s))]
  <2>1. cur[m] => /\ Append(kept, ErasingNode(s)) # <<>>
                  /\ Head(Append(kept, ErasingNode(s))) = Head(queue[m])
    BY <1>2, <1>8
  <2> QED BY <1>4, <1>5, <1>6, <1>8, <1>10, <2>1 DEF QueueChange, m
<1> QED BY <1>4, <1>9, <1>10

\* _w_opera_add changes a node only if it is not the one being performed.
LEMMA WriteChange ==
  ASSUME Core, NEW s \in Sectors, NEW lo \in Cells, NEW hi \in Cells, NEW v \in Values,
         norflash_api_write(s, lo, hi, v)
  PROVE  \E q : QueueChange(Owner[s], q)
<1> DEFINE m == Owner[s]
<1>1. m \in Mods /\ queue[m] \in Seq(Nodes) /\ cur[m] \in BOOLEAN
  BY ModAssumption DEF Core, ApiTypeOK
<1>2. cur[m] => queue[m] # <<>>
  BY <1>1 DEF Core, CurIsListed
<1>3. /\ W_opera_add(m, s, lo, hi, v)
      /\ UNCHANGED <<halVars, state, cur, cur_mod, cur_mod_id>>
  BY DEF norflash_api_write
<1>4. ASSUME NEW buf \in Images PROVE Fill(buf, lo, hi, v) \in Images
  BY <1>4 DEF Fill, Images, Contents
<1>5. CASE WriteMerged(queue[m], cur[m], s)
  <2> DEFINE i == Newest(Stops(queue[m], cur[m], s))
             n == queue[m][i]
             merged == MergedNode(n, lo, hi, v)
             q == [queue[m] EXCEPT ![i] = merged]
  <2>1. i \in 1..Len(queue[m]) /\ (cur[m] => i # 1)
    BY <1>1, <1>5, MergedWriteIsUnlocked
  <2>2. n \in Nodes
    <3> HIDE DEF i
    <3> QED BY <1>1, <2>1
  <2>3. merged \in Nodes
    <3> HIDE DEF n
    <3>1. MinOf(n.lo, lo) \in 1..NumCells /\ MaxOf(n.hi, hi) \in 0..NumCells
      BY <2>2, CellsAssumption DEF Nodes, MinOf, MaxOf, Cells
    <3>2. Fill(n.buf, lo, hi, v) \in Images
      BY <1>4, <2>2 DEF Nodes
    <3> QED BY <2>2, <3>1, <3>2 DEF MergedNode, Nodes
  <2>4. q \in Seq(Nodes) /\ (cur[m] => q # <<>> /\ Head(q) = Head(queue[m]))
    <3> HIDE DEF i, merged
    <3>1. q \in Seq(Nodes) /\ Len(q) = Len(queue[m])
      BY <1>1, <2>1, <2>3, ExceptSeq
    <3>2. ASSUME cur[m] PROVE q # <<>> /\ q[1] = queue[m][1]
      <4>1. queue[m] # <<>> /\ 1 # i
        BY <1>2, <2>1, <3>2
      <4>2. 1 \in 1..Len(queue[m])
        BY <1>1, <4>1
      <4> QED BY <1>1, <2>1, <2>3, <3>1, <4>1, <4>2, ExceptSeq, EmptySeq
    <3> QED BY <3>1, <3>2
  <2>5. queue' = [queue EXCEPT ![m] = q] /\ UNCHANGED <<opera_used, data_used>>
    <3>1. MergeWrite(m, i, lo, hi, v)
      BY <1>3, <1>5 DEF W_opera_add
    <3> HIDE DEF m, i
    <3> QED BY <1>1, <2>1, <3>1 DEF MergeWrite, Core, ApiTypeOK
  <2>6. QueueChange(m, q)
    <3> HIDE DEF m, q
    <3> QED BY <1>3, <2>4, <2>5 DEF QueueChange, Core, ApiTypeOK
  <2> QED BY <2>6
<1>6. CASE ~WriteMerged(queue[m], cur[m], s)
  <2> DEFINE base == IF Stops(queue[m], cur[m], s) = {} THEN flash[s] ELSE ErasedImage
             new == WrittingNode(s, lo, hi, Fill(base, lo, hi, v))
  <2>1. \/ UNCHANGED <<queue, opera_used, data_used>>
        \/ /\ opera_used # OpraLen /\ data_used # BuffLen
           /\ queue' = [queue EXCEPT ![m] = Append(queue[m], new)]
           /\ opera_used' = opera_used + 1
           /\ data_used' = data_used + 1
    BY <1>3, <1>6 DEF W_opera_add, AddWrite
  <2>2. CASE UNCHANGED <<queue, opera_used, data_used>>
    <3>1. QueueChange(m, queue[m])
      BY <1>1, <1>2, <1>3, <2>2 DEF QueueChange, Core, ApiTypeOK
    <3> QED BY <3>1
  <2>3. CASE /\ opera_used # OpraLen /\ data_used # BuffLen
             /\ queue' = [queue EXCEPT ![m] = Append(queue[m], new)]
             /\ opera_used' = opera_used + 1
             /\ data_used' = data_used + 1
    <3>1. base \in Images
      BY DEF Core, ApiTypeOK, HalTypeOK, ErasedImage, Images, Contents
    <3>2. Fill(base, lo, hi, v) \in Images
      <4> HIDE DEF base
      <4> QED BY <1>4, <3>1
    <3>3. new \in Nodes
      <4> HIDE DEF base
      <4> QED BY <3>2, CellsAssumption DEF WrittingNode, Nodes, Cells
    <3>4. /\ Append(queue[m], new) \in Seq(Nodes)
          /\ Append(queue[m], new) # <<>>
          /\ queue[m] # <<>> => Head(Append(queue[m], new)) = Head(queue[m])
      <4> HIDE DEF new
      <4> QED BY <1>1, <3>3, AppendProperties, LenProperties, EmptySeq
    <3>5. /\ opera_used' \in Int /\ opera_used' <= OpraLen
          /\ data_used' \in Int /\ data_used' <= BuffLen
      BY <2>3, PoolAssumption DEF Core, ApiTypeOK
    <3>6. QueueChange(m, Append(queue[m], new))
      <4> HIDE DEF m, new
      <4> QED BY <1>2, <1>3, <2>3, <3>4, <3>5 DEF QueueChange
    <3> QED BY <3>6
  <2> QED BY <2>1, <2>2, <2>3
<1> QED BY <1>5, <1>6

\* The core of the invariant speaks of the queue and the driver only.
LEMMA CoreUnchanged ==
  ASSUME Core, UNCHANGED <<halVars, apiVars>>
  PROVE  Core'
BY DEF Core, ApiTypeOK, HalTypeOK, SuspendedIsCurrent, DriverMatchesQueue,
       CurIsListed, Registered, halVars, apiVars

\* A module that registers has nothing queued and nothing suspended.
LEMMA RegisterCore ==
  ASSUME Core, NEW m \in Mods, Register(m)
  PROVE  Core'
<1>1. state' = [state EXCEPT ![m] = "IDLE"] /\ state[m] = "UNINITED"
  BY DEF Register, Registered
<1>2. ApiTypeOK'
  BY <1>1 DEF Core, ApiTypeOK, HalTypeOK, ModStates, Register, halVars
<1>3. SuspendedIsCurrent'
  BY <1>1 DEF Core, ApiTypeOK, SuspendedIsCurrent, Register, halVars
<1>4. DriverMatchesQueue'
  BY <1>1 DEF Core, ApiTypeOK, DriverMatchesQueue, Register, halVars
<1>5. CurIsListed'
  BY <1>1 DEF Core, ApiTypeOK, CurIsListed, Register, Registered
<1> QED BY <1>2, <1>3, <1>4, <1>5 DEF Core

\* norflash_api_flush whatever it finds.
LEMMA FlushCore ==
  ASSUME TypeOK, Core, Flush
  PROVE  Core' /\ UNCHANGED asserted /\ allowed_cb' \in BOOLEAN
<1>1. allowed_cb' \in BOOLEAN
  BY DEF Flush, AskFlushIsAllowed
<1>2. CASE \E m \in Mods : FlushStep(m)
  BY <1>1, <1>2, FlushStepCore
<1>3. CASE UNCHANGED <<halVars, apiVars, asserted>>
  BY <1>1, <1>3, CoreUnchanged
<1> QED BY <1>2, <1>3 DEF Flush

-----------------------------------------------------------------------------
(***************************************************************************)
(* Synchronous calls.                                                      *)
(***************************************************************************)
\* What is known of a synchronous call under way.
LEMMA SyncType ==
  ASSUME TypeOK, sync # NoSync
  PROVE  /\ sync \in SyncCalls
         /\ sync.node.sec \in Sectors
         /\ Owner[sync.node.sec] \in Mods
BY ModAssumption DEF TypeOK, SyncCalls, Nodes

\* A synchronous call begins where its module needs it to.
LEMMA SyncStartIInv ==
  ASSUME IInv, NEW n \in Nodes, SyncStart(n)
  PROVE  IInv'
<1> DEFINE m == Owner[n.sec]
<1>1. m \in Mods
  BY ModAssumption DEF Nodes
<1>2. Core'
  BY CoreUnchanged DEF SyncStart, IInv, Core, TypeOK
<1>3. /\ sync' = [pc |-> IF OtherSuspended(m) THEN "other" ELSE "own",
                  node |-> n, bresult |-> FALSE]
      /\ sync' \in SyncCalls
      /\ sync'.node.sec = n.sec
  BY DEF SyncStart, SyncCalls
<1>4. TypeOK' /\ NoAssert'
  BY <1>2, <1>3 DEF SyncStart, IInv, Core, TypeOK, NoAssert, cpVars
<1>5. SyncKeepsProgress'
  BY <1>1, <1>3
     DEF SyncStart, SyncKeepsProgress, OtherSuspended, Registered, FlushIsAllowed,
         apiVars, cpVars
<1> QED BY <1>2, <1>4, <1>5 DEF IInv, Core

\* The suspended operation of another module is finished, so the driver is free.
LEMMA SyncFlushOtherIInv ==
  ASSUME IInv, SyncFlushOther
  PROVE  IInv'
<1> DEFINE m == Owner[sync.node.sec]
<1>1. sync \in SyncCalls /\ m \in Mods
  BY SyncType DEF SyncFlushOther, NoSync, IInv
<1>2. Registered(m) /\ OtherSuspended(m) /\ sync.pc = "other" /\ FlushIsAllowed
  BY DEF SyncFlushOther, NoSync, IInv, SyncKeepsProgress
<1>3. cur_mod \in Mods /\ cur_mod # m /\ Registered(cur_mod)
  BY <1>2 DEF IInv, TypeOK, ApiTypeOK, OtherSuspended, CurIsListed
<1>4. /\ Core'
      /\ UNCHANGED asserted
      /\ state' = [state EXCEPT ![cur_mod] = "IDLE"]
  <2>1. ~OtherSuspended(cur_mod) /\ TypeOK /\ Core
    BY DEF OtherSuspended, IInv, Core, TypeOK
  <2>2. Opera_flush(cur_mod, FALSE) /\ UNCHANGED <<cur_mod, cur_mod_id>>
    BY DEF SyncFlushOther
  <2> QED BY <1>3, <2>1, <2>2, SyncFlushCore
<1>5. /\ sync' = [sync EXCEPT !.pc = "own", !.bresult = TRUE]
      /\ sync' \in SyncCalls
      /\ sync'.node = sync.node
      /\ sync'.pc = "own"
  BY <1>1 DEF SyncFlushOther, SyncCalls
<1>6. TypeOK' /\ NoAssert'
  BY <1>4, <1>5
     DEF SyncFlushOther, IInv, Core, TypeOK, NoAssert, cpVars, AskFlushIsAllowed
<1>7. Registered(m)' /\ ~OtherSuspended(m)'
  BY <1>1, <1>2, <1>3, <1>4
     DEF SyncFlushOther, Registered, OtherSuspended, IInv, TypeOK, ApiTypeOK
<1>8. FlushIsAllowed'
  BY <1>2 DEF SyncFlushOther, FlushIsAllowed, AskFlushIsAllowed, cpVars
<1> QED BY <1>4, <1>5, <1>6, <1>7, <1>8 DEF IInv, Core, SyncKeepsProgress

\* One operation of its own module is finished.
LEMMA SyncFlushOwnIInv ==
  ASSUME IInv, SyncFlushOwn
  PROVE  IInv'
<1> DEFINE m == Owner[sync.node.sec]
<1>1. sync \in SyncCalls /\ m \in Mods
  BY SyncType DEF SyncFlushOwn, NoSync, IInv
<1>2. Registered(m) /\ ~OtherSuspended(m) /\ sync.pc = "own" /\ FlushIsAllowed
  BY DEF SyncFlushOwn, NoSync, IInv, SyncKeepsProgress
<1>3. /\ Core'
      /\ UNCHANGED asserted
      /\ state' = [state EXCEPT ![m] = "IDLE"]
  <2>1. TypeOK /\ Core
    BY DEF IInv, Core, TypeOK
  <2>2. Opera_flush(m, FALSE) /\ UNCHANGED <<cur_mod, cur_mod_id>>
    BY DEF SyncFlushOwn
  <2> QED BY <1>1, <1>2, <2>1, <2>2, SyncFlushCore
<1>4. /\ sync' = [sync EXCEPT !.bresult = TRUE]
      /\ sync' \in SyncCalls
      /\ sync'.node = sync.node
      /\ sync'.pc = "own"
  BY <1>1, <1>2 DEF SyncFlushOwn, SyncCalls
<1>5. TypeOK' /\ NoAssert'
  BY <1>3, <1>4
     DEF SyncFlushOwn, IInv, Core, TypeOK, NoAssert, cpVars, AskFlushIsAllowed
<1>6. Registered(m)' /\ ~OtherSuspended(m)'
  BY <1>1, <1>2, <1>3
     DEF SyncFlushOwn, Registered, OtherSuspended, IInv, TypeOK, ApiTypeOK
<1>7. FlushIsAllowed'
  BY <1>2 DEF SyncFlushOwn, FlushIsAllowed, AskFlushIsAllowed, cpVars
<1> QED BY <1>3, <1>4, <1>5, <1>6, <1>7 DEF IInv, Core, SyncKeepsProgress

\* The do-while ends; while flushing is allowed it ends with an empty queue.
LEMMA SyncDrainedIInv ==
  ASSUME IInv, SyncDrained
  PROVE  IInv'
<1> DEFINE m == Owner[sync.node.sec]
<1>1. sync \in SyncCalls /\ m \in Mods
  BY SyncType DEF SyncDrained, NoSync, IInv
<1>2. /\ Registered(m)
      /\ ~OtherSuspended(m)
      /\ sync.pc = "own"
      /\ ~SyncDuringCpBoot => FlushIsAllowed
  BY DEF SyncDrained, NoSync, IInv, SyncKeepsProgress
<1>3. Core'
  BY CoreUnchanged DEF SyncDrained, IInv, Core, TypeOK
<1>4. /\ sync' = [sync EXCEPT !.pc = "hal"]
      /\ sync' \in SyncCalls
      /\ sync'.node = sync.node
      /\ sync'.pc = "hal"
  BY <1>1, <1>2 DEF SyncDrained, SyncCalls
<1>5. TypeOK' /\ NoAssert'
  BY <1>3, <1>4
     DEF SyncDrained, IInv, Core, TypeOK, NoAssert, cpVars, AskFlushIsAllowed
<1>6. /\ Registered(m)'
      /\ ~OtherSuspended(m)'
      /\ ~SyncDuringCpBoot => FlushIsAllowed' /\ queue'[m] = <<>>
  <2>1. Registered(m)' /\ ~OtherSuspended(m)'
    BY <1>2 DEF SyncDrained, Registered, OtherSuspended, apiVars
  <2>2. FlushIsAllowed => FlushIsAllowed'
    BY DEF SyncDrained, FlushIsAllowed, AskFlushIsAllowed, cpVars
  <2>3. FlushIsAllowed => queue'[m] = <<>>
    BY DEF SyncDrained, apiVars
  <2> QED BY <1>2, <2>1, <2>2, <2>3
<1> QED BY <1>3, <1>4, <1>5, <1>6 DEF IInv, Core, SyncKeepsProgress

\* The driver performs the operation or, while another one is suspended, refuses it.
LEMMA SyncHalIInv ==
  ASSUME IInv, SyncHal
  PROVE  IInv'
<1>1. sync \in SyncCalls /\ sync.node \in Nodes
  BY SyncType DEF SyncHal, NoSync, IInv, SyncCalls
<1>2. PICK result \in {"OK", "BAD_OP"} : HalCall(sync.node, "IDLE", FALSE, result)
  BY DEF SyncHal
<1>3. Core'
  <2>1. CASE hal.state = "NONE"
    <3>1. HalTypeOK' /\ hal' = NotSuspended
      <4> DEFINE n == sync.node
      <4>1. HalCall(n, "IDLE", FALSE, result) /\ n \in Nodes
        BY <1>1, <1>2
      <4>2. HalTypeOK /\ hal.state = "NONE"
        BY <2>1 DEF IInv, TypeOK, ApiTypeOK
      <4> HIDE DEF n
      <4> QED BY <4>1, <4>2, HalCallAccepted
    <3>2. ApiTypeOK'
      BY <3>1 DEF SyncHal, IInv, TypeOK, ApiTypeOK, apiVars
    <3>3. hal'.state = "NONE" /\ \A m \in Mods : state'[m] \in {"UNINITED", "IDLE"}
      BY <2>1, <3>1 DEF SyncHal, IInv, DriverMatchesQueue, NotSuspended, apiVars
    <3>4. SuspendedIsCurrent' /\ DriverMatchesQueue'
      BY <3>3 DEF SuspendedIsCurrent, DriverMatchesQueue
    <3>5. CurIsListed'
      BY DEF SyncHal, IInv, CurIsListed, Registered, apiVars
    <3> QED BY <3>2, <3>4, <3>5 DEF Core
  <2>2. CASE hal.state # "NONE"
    <3>1. UNCHANGED halVars
      BY <1>1, <1>2, <2>2
         DEF HalCall, HalWrite, HalErase, BadOp, SuspendedState, Nodes
    <3> QED BY <3>1, CoreUnchanged DEF SyncHal, IInv, Core, TypeOK
  <2> QED BY <2>1, <2>2
<1>4. TypeOK' /\ NoAssert' /\ SyncKeepsProgress'
  BY <1>3 DEF SyncHal, IInv, Core, TypeOK, NoAssert, SyncKeepsProgress, cpVars
<1> QED BY <1>3, <1>4 DEF IInv, Core

-----------------------------------------------------------------------------
(***************************************************************************)
(* The invariant.                                                          *)
(***************************************************************************)
\* The invariant holds after norflash_api_init.
LEMMA InitIInv == Init => IInv
<1> SUFFICES ASSUME Init PROVE IInv
  OBVIOUS
<1> USE CellsAssumption, ModAssumption, PoolAssumption DEF Init
<1>1. HalTypeOK /\ hal.state = "NONE"
  BY DEF HalInit, HalTypeOK, HalStates, NotSuspended, SuspendStates, ErasedImage,
         Images, Contents
<1>2. ApiTypeOK
  BY <1>1 DEF ApiTypeOK, ModStates
<1>3. TypeOK
  BY <1>2 DEF TypeOK
<1>4. SuspendedIsCurrent /\ DriverMatchesQueue
  BY <1>1 DEF SuspendedIsCurrent, DriverMatchesQueue
<1>5. NoAssert /\ CurIsListed /\ SyncKeepsProgress
  BY DEF NoAssert, CurIsListed, SyncKeepsProgress
<1> QED BY <1>3, <1>4, <1>5 DEF IInv

\* The calls of clients and of the sleeping thread, between two synchronous calls.
LEMMA UnmaskedIInv ==
  ASSUME IInv, sync = NoSync, sync' = NoSync, Core', UNCHANGED asserted,
         allowed_cb' \in BOOLEAN, cp' \in {"off", "disabled", "opened", "running"},
         cp_inited' \in BOOLEAN, flush_all' \in BOOLEAN
  PROVE  IInv'
BY DEF IInv, TypeOK, Core, NoAssert, SyncKeepsProgress

\* The calls of the clients keep the invariant.
LEMMA ClientIInv ==
  ASSUME IInv, Client
  PROVE  IInv'
<1> USE DEF Unmasked
<1>1. Core /\ TypeOK
  BY DEF IInv, Core, TypeOK
<1>2. ASSUME NEW m \in Mods, Register(m) PROVE IInv'
  BY <1>1, <1>2, RegisterCore, UnmaskedIInv DEF Register, TypeOK, cpVars
<1>3. ASSUME NEW s \in Sectors, norflash_api_erase(s) PROVE IInv'
  <2>1. Core'
    BY <1>1, <1>3, EraseChange, QueueCore, ModAssumption
  <2> QED BY <1>1, <1>3, <2>1, UnmaskedIInv DEF norflash_api_erase, TypeOK, cpVars
<1>4. ASSUME NEW s \in Sectors, SyncErase(s) PROVE IInv'
  <2>1. ErasingNode(s) \in Nodes
    BY CellsAssumption DEF ErasingNode, Nodes, ErasedImage, Images, Contents
  <2> QED BY <1>4, <2>1, SyncStartIInv DEF SyncErase
<1>5. ASSUME NEW s \in Sectors, NEW lo \in Cells, NEW hi \in Cells, NEW v \in Values,
             norflash_api_write(s, lo, hi, v)
      PROVE  IInv'
  <2>1. Core'
    BY <1>1, <1>5, WriteChange, QueueCore, ModAssumption
  <2> QED BY <1>1, <1>5, <2>1, UnmaskedIInv DEF norflash_api_write, TypeOK, cpVars
<1>6. ASSUME NEW s \in Sectors, NEW lo \in Cells, NEW hi \in Cells, NEW v \in Values,
             SyncWrite(s, lo, hi, v)
      PROVE  IInv'
  <2>1. WrittingNode(s, lo, hi, Fill(ErasedImage, lo, hi, v)) \in Nodes
    BY CellsAssumption
       DEF WrittingNode, Fill, Nodes, ErasedImage, Images, Contents, Cells
  <2> QED BY <1>6, <2>1, SyncStartIInv DEF SyncWrite
<1>7. CASE FlushAllStart
  BY <1>1, <1>7, CoreUnchanged, UnmaskedIInv DEF FlushAllStart, TypeOK, cpVars
<1> QED BY <1>2, <1>3, <1>4, <1>5, <1>6, <1>7 DEF Client

\* Starting and stopping the CP keeps the invariant.
LEMMA CpIInv ==
  ASSUME IInv, CpNext
  PROVE  IInv'
<1> USE DEF Unmasked
<1>1. Core'
  BY CoreUnchanged
     DEF CpNext, FlushDisable, CpOpen, CpInitDone, FlushEnable, CpClose, IInv, Core,
         TypeOK
<1>2. CASE FlushDisable \/ CpOpen \/ FlushEnable \/ CpClose
  BY <1>1, <1>2, UnmaskedIInv
     DEF FlushDisable, CpOpen, FlushEnable, CpClose, IInv, TypeOK
<1>3. CASE CpInitDone
  <2>1. TypeOK' /\ NoAssert'
    BY <1>1, <1>3 DEF CpInitDone, IInv, Core, TypeOK, NoAssert
  <2>2. SyncKeepsProgress'
    BY <1>3 DEF CpInitDone, IInv, SyncKeepsProgress, Registered, OtherSuspended,
                FlushIsAllowed, apiVars
  <2> QED BY <1>1, <2>1, <2>2 DEF IInv, Core
<1> QED BY <1>2, <1>3 DEF CpNext

\* Every step keeps the invariant.
LEMMA NextIInv == IInv /\ [Next]_vars => IInv'
<1> SUFFICES ASSUME IInv, [Next]_vars PROVE IInv'
  OBVIOUS
<1>1. Core /\ TypeOK
  BY DEF IInv, Core, TypeOK
<1>2. CASE Client
  BY <1>2, ClientIInv
<1>3. CASE norflash_api_flush
  BY <1>1, <1>3, FlushCore, UnmaskedIInv
     DEF norflash_api_flush, Unmasked, TypeOK, cpVars
<1>4. CASE FlushAllStep
  BY <1>1, <1>4, FlushCore, UnmaskedIInv DEF FlushAllStep, Unmasked, TypeOK, cpVars
<1>5. CASE SyncNext
  BY <1>5, SyncFlushOtherIInv, SyncFlushOwnIInv, SyncDrainedIInv, SyncHalIInv
     DEF SyncNext
<1>6. CASE CpNext
  BY <1>6, CpIInv
<1>7. CASE UNCHANGED vars
  <2>1. Core'
    BY <1>1, <1>7, CoreUnchanged DEF vars
  <2>2. TypeOK' /\ NoAssert'
    BY <1>7, <2>1 DEF vars, IInv, Core, TypeOK, NoAssert, cpVars
  <2>3. SyncKeepsProgress'
    BY <1>7 DEF vars, IInv, SyncKeepsProgress, Registered, OtherSuspended,
                FlushIsAllowed, apiVars, cpVars
  <2> QED BY <2>1, <2>2, <2>3 DEF IInv, Core
<1> QED BY <1>2, <1>3, <1>4, <1>5, <1>6, <1>7 DEF Next

(***************************************************************************)
(* Theorems.                                                               *)
(***************************************************************************)

\* The inductive invariant holds in every reachable state.
THEOREM Invariant == Spec => []IInv
<1> QED BY InitIInv, NextIInv, PTL DEF Spec

\* Types are kept and neither pool is ever exceeded.
THEOREM TypeCorrect == Spec => []TypeOK
<1>1. IInv => TypeOK
  BY DEF IInv
<1> QED BY <1>1, Invariant, PTL

\* No ASSERT of _opera_flush fails: whatever clients, sleeps and CP starts do, the
\* driver accepts every call for a queued operation.
THEOREM NoAssertFails == Spec => []NoAssert
<1>1. IInv => NoAssert
  BY DEF IInv
<1> QED BY <1>1, Invariant, PTL

\* The operation the driver keeps is the oldest node of the current module, and
\* no other module is suspended.
THEOREM ResumesWhatItStarted == Spec => [](SuspendedIsCurrent /\ DriverMatchesQueue)
<1>1. IInv => SuspendedIsCurrent /\ DriverMatchesQueue
  BY DEF IInv
<1> QED BY <1>1, Invariant, PTL

\* What a synchronous call keeps is enough for its operation.
LEMMA SyncOrder ==
  ASSUME ~SyncDuringCpBoot, IInv
  PROVE  SyncDrainsQueue /\ SyncFindsDriverFree
<1> SUFFICES ASSUME sync.pc = "hal"
             PROVE  queue[Owner[sync.node.sec]] = <<>> /\ hal.state = "NONE"
  BY DEF SyncDrainsQueue, SyncFindsDriverFree
<1> DEFINE m == Owner[sync.node.sec]
<1>1. queue[m] = <<>> /\ ~OtherSuspended(m)
  BY DEF IInv, SyncKeepsProgress, NoSync
<1>2. m \in Mods
  BY SyncType DEF IInv, NoSync
<1>3. hal.state \in SuspendStates
  BY DEF IInv, TypeOK, ApiTypeOK, HalTypeOK, HalStates
<1>4. ASSUME hal.state \in {"ERASE", "PROGRAM"} PROVE FALSE
  <2>1. cur_mod \in Mods /\ state[cur_mod] \in {"WRITTING_SUSPEND", "ERASE_SUSPEND"}
    BY <1>4 DEF IInv, DriverMatchesQueue
  <2>2. cur_mod = m
    BY <1>1, <2>1, ModAssumption DEF OtherSuspended
  <2> QED BY <1>1, <1>2, <2>1, <2>2 DEF IInv, SuspendedIsCurrent
<1> QED BY <1>1, <1>3, <1>4 DEF SuspendStates

\* Clients that make no synchronous call while the CP boots get what the comments
\* "flush all of cur module opera." and "Handle the suspend operation." say: the
\* operation finds its module's queue empty and the driver free.
THEOREM SyncIsOrdered ==
  ~SyncDuringCpBoot => (Spec => [](SyncDrainsQueue /\ SyncFindsDriverFree))
<1>1. ~SyncDuringCpBoot /\ IInv => SyncDrainsQueue /\ SyncFindsDriverFree
  BY SyncOrder
<1>2. CASE ~SyncDuringCpBoot
  BY <1>1, <1>2, Invariant, PTL
<1>3. CASE SyncDuringCpBoot
  BY <1>3
<1> QED BY <1>2, <1>3

-----------------------------------------------------------------------------
(***************************************************************************)
(* The node being performed.                                               *)
(***************************************************************************)
\* A flush touches the current node only to complete it.
LEMMA FlushKeepsLocked ==
  ASSUME IInv, NEW m \in Mods, Registered(m), ~OtherSuspended(m),
         NEW suspend \in BOOLEAN, Opera_flush(m, suspend)
  PROVE  LockedNodeStays
<1>1. \/ cur' = [cur EXCEPT ![m] = FALSE] /\ Opera_del(m)
      \/ cur' = [cur EXCEPT ![m] = TRUE] /\ UNCHANGED queue
  BY OperaFlushSteps DEF IInv
<1>2. CASE cur' = [cur EXCEPT ![m] = FALSE] /\ Opera_del(m)
  BY <1>2 DEF IInv, TypeOK, ApiTypeOK, CurIsListed, LockedNodeStays, Opera_del
<1>3. CASE cur' = [cur EXCEPT ![m] = TRUE] /\ UNCHANGED queue
  BY <1>3 DEF IInv, TypeOK, ApiTypeOK, CurIsListed, LockedNodeStays
<1> QED BY <1>1, <1>2, <1>3

\* A step that leaves the queues alone leaves the current nodes alone.
LEMMA QueueUnchanged ==
  ASSUME IInv, UNCHANGED <<queue, cur>>
  PROVE  LockedNodeStays
BY DEF IInv, CurIsListed, LockedNodeStays

\* norflash_api_flush touches the current node only to complete it.
LEMMA FlushNextKeepsLocked ==
  ASSUME IInv, Flush
  PROVE  LockedNodeStays
<1>1. CASE UNCHANGED <<halVars, apiVars, asserted>>
  BY <1>1, QueueUnchanged DEF apiVars
<1>2. ASSUME NEW m \in Mods, FlushStep(m) PROVE LockedNodeStays
  <2>1. CASE Opera_flush(m, TRUE)
    <3>1. Registered(m) /\ ~OtherSuspended(m)
      BY <1>2 DEF FlushStep, IsCurMod, Pending, OtherSuspended, IInv, CurIsListed
    <3> QED BY <2>1, <3>1, FlushKeepsLocked
  <2>2. CASE UNCHANGED <<queue, cur>>
    BY <2>2, QueueUnchanged
  <2> QED BY <1>2, <2>1, <2>2 DEF FlushStep
<1> QED BY <1>1, <1>2 DEF Flush

\* While an operation is being performed, nothing but its completion touches its
\* node, from whose buffer the driver still programs.
THEOREM LockedNodeIsSafe == Spec => LockedNodeIsStable
<1>1. IInv /\ [Next]_vars => [LockedNodeStays]_vars
  <2> SUFFICES ASSUME IInv, Next PROVE LockedNodeStays
    OBVIOUS
  <2>1. CASE Client
    <3>1. ASSUME NEW s \in Sectors, norflash_api_erase(s) PROVE LockedNodeStays
      BY <3>1, EraseChange, QueueCore, ModAssumption DEF IInv, Core, TypeOK
    <3>2. ASSUME NEW s \in Sectors, NEW lo \in Cells, NEW hi \in Cells,
                 NEW v \in Values, norflash_api_write(s, lo, hi, v)
          PROVE  LockedNodeStays
      BY <3>2, WriteChange, QueueCore, ModAssumption DEF IInv, Core, TypeOK
    <3>3. ASSUME NEW n, SyncStart(n) PROVE LockedNodeStays
      BY <3>3, QueueUnchanged DEF SyncStart, apiVars
    <3>4. CASE FlushAllStart \/ \E m \in Mods : Register(m)
      BY <3>4, QueueUnchanged DEF FlushAllStart, Register, apiVars
    <3> QED BY <2>1, <3>1, <3>2, <3>3, <3>4 DEF Client, SyncErase, SyncWrite
  <2>2. CASE norflash_api_flush \/ FlushAllStep
    BY <2>2, FlushNextKeepsLocked DEF norflash_api_flush, FlushAllStep
  <2>3. CASE SyncFlushOther
    <3>1. cur_mod \in Mods /\ Registered(cur_mod) /\ ~OtherSuspended(cur_mod)
      BY <2>3 DEF SyncFlushOther, NoSync, IInv, SyncKeepsProgress, OtherSuspended,
                  TypeOK, ApiTypeOK, CurIsListed
    <3> QED BY <2>3, <3>1, FlushKeepsLocked DEF SyncFlushOther
  <2>4. CASE SyncFlushOwn
    <3> DEFINE m == Owner[sync.node.sec]
    <3>1. m \in Mods
      BY <2>4, SyncType DEF SyncFlushOwn, NoSync, IInv
    <3>2. Registered(m) /\ ~OtherSuspended(m)
      BY <2>4 DEF SyncFlushOwn, NoSync, IInv, SyncKeepsProgress
    <3>3. Opera_flush(m, FALSE)
      BY <2>4 DEF SyncFlushOwn
    <3> HIDE DEF m
    <3> QED BY <3>1, <3>2, <3>3, FlushKeepsLocked
  <2>5. CASE SyncDrained \/ SyncHal
    BY <2>5, QueueUnchanged DEF SyncDrained, SyncHal, apiVars
  <2>6. CASE CpNext
    BY <2>6, QueueUnchanged
       DEF CpNext, FlushDisable, CpOpen, CpInitDone, FlushEnable, CpClose, apiVars
  <2> QED BY <2>1, <2>2, <2>3, <2>4, <2>5, <2>6 DEF Next, SyncNext
<1> QED BY <1>1, Invariant, PTL DEF Spec, LockedNodeIsStable
=============================================================================
