---------------------------- MODULE NorflashApi -----------------------------
(***************************************************************************)
(* The asynchronous flash queue of src/services/norflash_api.              *)
(*                                                                         *)
(* A client module (the log dump, the user data, the crash dump ...) owns  *)
(* some sectors.  Its asynchronous erases and writes are queued in RAM;    *)
(* norflash_api_flush, called by the clients and by the idle thread before *)
(* it sleeps, performs one step of one of them at a time.  A synchronous   *)
(* erase or write first drains the queue and then works on the flash.      *)
(*                                                                         *)
(* Every function runs with the interrupts locked, so one call is one      *)
(* step.  A synchronous call is the exception here: it is unfolded into    *)
(* one step per flash operation (the variable sync) so that its loops are  *)
(* visible.  The interrupts stay locked through it: only the CP core runs. *)
(*                                                                         *)
(* In the source a module's list starts at the newest node; queue[m] is    *)
(* that list read from its tail (OperaQueue): queue[m][1] is the node      *)
(* _get_tail finds.                                                        *)
(***************************************************************************)
EXTENDS HalNorflash, OperaQueue, FiniteSets

CONSTANTS
  NumMods,             \* NORFLASH_API_MODULE_ID_COUNT
  Owner,               \* Owner[s]: the module that registered sector s
  OpraLen,             \* NORFLASH_API_OPRA_LIST_LEN
  BuffLen,             \* NORFLASH_API_WRITE_BUFF_LEN
  SyncDuringCpBoot,    \* may a client call a synchronous operation while
                       \* flushing is disabled for the CP to boot?
  NoMod                \* cur_mod == NULL

Mods == 0..(NumMods - 1)

ASSUME ModAssumption == /\ NumMods \in Nat \ {0}
                        /\ NoMod \notin Mods
                        /\ Owner \in [Sectors -> Mods]
ASSUME PoolAssumption == /\ OpraLen \in Nat
                         /\ BuffLen \in Nat
                         /\ SyncDuringCpBoot \in BOOLEAN

VARIABLES
  state,       \* mod_info[m].state
  queue,       \* mod_info[m].opera_info, oldest node first
  cur,         \* mod_info[m].cur_opera_info # NULL: the oldest node is locked
  cur_mod,     \* norflash_api_info.cur_mod
  cur_mod_id,  \* norflash_api_info.cur_mod_id
  opera_used,  \* nodes of opera_info_list in use
  data_used,   \* buffers of data_list in use
  allowed_cb,  \* allowed_cb[NORFLASH_API_USER_CP] is registered
  cp,          \* the thread that starts the CP: what it has done so far
  cp_inited,   \* what the callback, cp_accel_init_done, returns
  sync,        \* the synchronous call under way
  flush_all,   \* a thread is in norflash_api_flush_all
  asserted     \* an ASSERT of _opera_flush has failed

apiVars == <<state, queue, cur, cur_mod, cur_mod_id, opera_used, data_used>>
cpVars == <<cp, cp_inited>>
vars == <<halVars, apiVars, cpVars, allowed_cb, sync, flush_all, asserted>>

-----------------------------------------------------------------------------
(***************************************************************************)
(* Types.                                                                  *)
(***************************************************************************)
ModStates == {"UNINITED", "IDLE", "WRITTING_SUSPEND", "ERASE_SUSPEND"}

Nodes == [type : {"WRITTING", "ERASING"}, sec : Sectors,
          lo : 1..NumCells, hi : 0..NumCells, buf : Images]

\* A node with no buffer: w_len is 0 and buff is NULL.
ErasingNode(s) ==
  [type |-> "ERASING", sec |-> s, lo |-> 1, hi |-> 0, buf |-> ErasedImage]

WrittingNode(s, lo, hi, buf) ==
  [type |-> "WRITTING", sec |-> s, lo |-> lo, hi |-> hi, buf |-> buf]

NoSync == [pc |-> "none"]

SyncCalls == [pc : {"other", "own", "hal"}, node : Nodes, bresult : BOOLEAN]

ApiTypeOK ==
  /\ HalTypeOK
  /\ state \in [Mods -> ModStates]
  /\ queue \in [Mods -> Seq(Nodes)]
  /\ cur \in [Mods -> BOOLEAN]
  /\ cur_mod \in Mods \cup {NoMod}
  /\ cur_mod_id \in 0..NumMods
  /\ opera_used \in Int /\ opera_used <= OpraLen
  /\ data_used \in Int /\ data_used <= BuffLen

\* The types, and the capacity of the two pools.
TypeOK ==
  /\ ApiTypeOK
  /\ allowed_cb \in BOOLEAN
  /\ cp \in {"off", "disabled", "opened", "running"}
  /\ cp_inited \in BOOLEAN
  /\ sync \in {NoSync} \cup SyncCalls
  /\ flush_all \in BOOLEAN
  /\ asserted \in BOOLEAN

-----------------------------------------------------------------------------
\* data_list buffers that the deleted nodes give back.
BuffersOf(q, locked, s) ==
  IF \E i \in Unlocked(q, locked, s) : q[i].type = "WRITTING" THEN 1 ELSE 0

\* What norflash_api_read returns (_opera_read): the newest node of the sector
\* answers, the flash when there is none.
View(s) ==
  LET q == queue[Owner[s]]
  IN  IF On(q, s) = {} THEN flash[s] ELSE q[Newest(On(q, s))].buf

-----------------------------------------------------------------------------
(***************************************************************************)
(* What the clients in the repository keep to: they erase a sector before  *)
(* they write it again, as NOR flash demands, and EraseIsSafe.             *)
(***************************************************************************)
IsErased(s, lo, hi) == \A c \in lo..hi : View(s)[c] = Blank

-----------------------------------------------------------------------------
(***************************************************************************)
(* Asynchronous erase and write: queue the operation or refuse it with     *)
(* NORFLASH_API_BUFFER_FULL.                                               *)
(***************************************************************************)
Unmasked == sync = NoSync /\ ~asserted

Registered(m) == state[m] # "UNINITED"

Register(m) ==
  /\ Unmasked
  /\ ~Registered(m)
  /\ state' = [state EXCEPT ![m] = "IDLE"]
  /\ UNCHANGED <<halVars, queue, cur, cur_mod, cur_mod_id, opera_used, data_used,
                 cpVars, allowed_cb, sync, flush_all, asserted>>

\* Deliberately wrong: the pool is found full before the deleted nodes are back.
E_opera_addTooEarly(m, s) ==
  LET kept  == DeletePending(queue[m], cur[m], s)
      freed == Len(queue[m]) - Len(kept)
  IN  /\ data_used' = data_used - BuffersOf(queue[m], cur[m], s)
      /\ IF EraseMerged(queue[m], cur[m], s) \/ opera_used = OpraLen
         THEN /\ queue' = [queue EXCEPT ![m] = kept]
              /\ opera_used' = opera_used - freed
         ELSE /\ queue' = [queue EXCEPT ![m] = Append(kept, ErasingNode(s))]
              /\ opera_used' = opera_used - freed + 1

\* _e_opera_add
E_opera_add(m, s) ==
  LET kept  == DeletePending(queue[m], cur[m], s)
      freed == Len(queue[m]) - Len(kept)
  IN  /\ data_used' = data_used - BuffersOf(queue[m], cur[m], s)
      /\ IF EraseMerged(queue[m], cur[m], s) \/ opera_used - freed = OpraLen
         THEN /\ queue' = [queue EXCEPT ![m] = kept]
              /\ opera_used' = opera_used - freed
         ELSE /\ queue' = [queue EXCEPT ![m] = Append(kept, ErasingNode(s))]
              /\ opera_used' = opera_used - freed + 1

norflash_api_erase(s) ==
  LET m == Owner[s]
  IN  /\ Unmasked
      /\ Registered(m)
      /\ EraseIsSafe(queue[m], cur[m], s)
      /\ E_opera_add(m, s)
      /\ UNCHANGED <<halVars, state, cur, cur_mod, cur_mod_id,
                     cpVars, allowed_cb, sync, flush_all, asserted>>

Fill(buf, lo, hi, v) == [c \in Cells |-> IF c \in lo..hi THEN v ELSE buf[c]]

MinOf(a, b) == IF a <= b THEN a ELSE b
MaxOf(a, b) == IF a >= b THEN a ELSE b

\* Deliberately wrong: the data are merged and the range is not.
MergedNodeKeepsRange(n, lo, hi, v) == [n EXCEPT !.buf = Fill(@, lo, hi, v)]

\* The write is merged into node i: one buffer, one range that covers both.
MergedNode(n, lo, hi, v) ==
  [n EXCEPT !.lo = MinOf(@, lo), !.hi = MaxOf(@, hi), !.buf = Fill(@, lo, hi, v)]

MergeWrite(m, i, lo, hi, v) ==
  /\ queue' = [queue EXCEPT ![m][i] = MergedNode(@, lo, hi, v)]
  /\ UNCHANGED <<opera_used, data_used>>

\* A node and a buffer of its own, filled with 0xff behind a pending erase and
\* from the flash otherwise.
AddWrite(m, s, lo, hi, v) ==
  LET base == IF Stops(queue[m], cur[m], s) = {} THEN flash[s] ELSE ErasedImage
  IN  IF opera_used = OpraLen \/ data_used = BuffLen
      THEN UNCHANGED <<queue, opera_used, data_used>>
      ELSE /\ queue' = [queue EXCEPT ![m] =
                          Append(@, WrittingNode(s, lo, hi, Fill(base, lo, hi, v)))]
           /\ opera_used' = opera_used + 1
           /\ data_used' = data_used + 1

\* _w_opera_add
W_opera_add(m, s, lo, hi, v) ==
  IF WriteMerged(queue[m], cur[m], s)
  THEN MergeWrite(m, Newest(Stops(queue[m], cur[m], s)), lo, hi, v)
  ELSE AddWrite(m, s, lo, hi, v)

norflash_api_write(s, lo, hi, v) ==
  LET m == Owner[s]
  IN  /\ Unmasked
      /\ Registered(m)
      /\ IsErased(s, lo, hi)
      /\ W_opera_add(m, s, lo, hi, v)
      /\ UNCHANGED <<halVars, state, cur, cur_mod, cur_mod_id,
                     cpVars, allowed_cb, sync, flush_all, asserted>>

-----------------------------------------------------------------------------
(***************************************************************************)
(* Performing a queued operation.                                          *)
(***************************************************************************)

SuspendedState(n) ==
  IF n.type = "WRITTING" THEN "WRITTING_SUSPEND" ELSE "ERASE_SUSPEND"

\* The hal call for node n of a module in state st.  A state that is not the
\* node's own fails an ASSERT before any call.
HalCall(n, st, suspend, result) ==
  \/ /\ n.type = "WRITTING" /\ st = "IDLE"
     /\ HalWrite(n.sec, n.buf, n.lo, n.hi, suspend, result)
  \/ /\ n.type = "WRITTING" /\ st = "WRITTING_SUSPEND"
     /\ HalWriteResume(n.buf, suspend, result)
  \/ /\ n.type = "ERASING" /\ st = "IDLE"
     /\ HalErase(n.sec, suspend, result)
  \/ /\ n.type = "ERASING" /\ st = "ERASE_SUSPEND"
     /\ HalEraseResume(suspend, result)
  \/ /\ st \notin {"IDLE", SuspendedState(n)}
     /\ result = "BAD_STATE"
     /\ UNCHANGED halVars

\* Deliberately wrong: the node is freed and its buffer is not.
Opera_delLeaksBuffer(m) ==
  /\ queue' = [queue EXCEPT ![m] = Tail(@)]
  /\ opera_used' = opera_used - 1
  /\ UNCHANGED data_used

\* _opera_del of the oldest node.
Opera_del(m) ==
  /\ queue' = [queue EXCEPT ![m] = Tail(@)]
  /\ opera_used' = opera_used - 1
  /\ data_used' = IF Head(queue[m]).type = "WRITTING" THEN data_used - 1 ELSE data_used

\* _opera_flush on a module that has an operation, which becomes its current one.
Opera_flush(m, suspend) ==
  /\ queue[m] # <<>>
  /\ \/ /\ HalCall(Head(queue[m]), state[m], suspend, "OK")
        /\ state' = [state EXCEPT ![m] = "IDLE"]
        /\ cur' = [cur EXCEPT ![m] = FALSE]
        /\ Opera_del(m)
        /\ UNCHANGED asserted
     \/ /\ HalCall(Head(queue[m]), state[m], suspend, "SUSPENDED")
        /\ state' = [state EXCEPT ![m] = SuspendedState(Head(queue[m]))]
        /\ cur' = [cur EXCEPT ![m] = TRUE]
        /\ UNCHANGED <<queue, opera_used, data_used, asserted>>
     \/ /\ \E result \in {"BAD_OP", "BAD_STATE"} :
             HalCall(Head(queue[m]), state[m], suspend, result)
        /\ cur' = [cur EXCEPT ![m] = TRUE]
        /\ asserted' = TRUE
        /\ UNCHANGED <<state, queue, opera_used, data_used>>

\* _flush_is_allowed, which forgets the callback once that has returned true.
FlushIsAllowed == allowed_cb => cp_inited
AskFlushIsAllowed == allowed_cb' = (allowed_cb /\ ~cp_inited)

-----------------------------------------------------------------------------
(***************************************************************************)
(* norflash_api_flush: one step of one operation.                          *)
(***************************************************************************)
Pending(m) == Registered(m) /\ queue[m] # <<>>

\* How far module m is from the start of the round of _get_cur_mod.
Turn(m) ==
  LET start == IF cur_mod_id + 1 >= NumMods THEN 0 ELSE cur_mod_id + 1
  IN  (m + NumMods - start) % NumMods

\* Deliberately wrong: the module that was being served is forgotten.
IsCurModByTurn(m) ==
  Pending(m) /\ \A other \in Mods : Pending(other) => Turn(m) <= Turn(other)

\* _get_cur_mod: the module that was being served, else the next one in turn.
IsCurMod(m) ==
  IF cur_mod # NoMod THEN m = cur_mod
  ELSE Pending(m) /\ \A other \in Mods : Pending(other) => Turn(m) <= Turn(other)

\* Deliberately wrong: a module with nothing left to do stays the current one.
FlushStepKeepsModule(m) ==
  /\ IsCurMod(m)
  /\ cur_mod_id' = m
  /\ cur_mod' = m
  /\ \/ Opera_flush(m, TRUE)
     \/ /\ queue[m] = <<>>
        /\ UNCHANGED <<halVars, state, queue, cur, opera_used, data_used, asserted>>

FlushStep(m) ==
  /\ IsCurMod(m)
  /\ cur_mod_id' = m
  /\ \/ /\ Opera_flush(m, TRUE)
        /\ cur_mod' = m
     \/ /\ queue[m] = <<>>
        /\ cur_mod' = NoMod
        /\ UNCHANGED <<halVars, state, queue, cur, opera_used, data_used, asserted>>

\* What norflash_api_flush returns when it is called in this state.
FlushReturns ==
  IF FlushIsAllowed /\ \E m \in Mods : IsCurMod(m) THEN 1 ELSE 0

Flush ==
  /\ AskFlushIsAllowed
  /\ \/ FlushIsAllowed /\ \E m \in Mods : FlushStep(m)
     \/ FlushReturns = 0 /\ UNCHANGED <<halVars, apiVars, asserted>>

\* Called by the idle thread's sleep hook and by the clients.
norflash_api_flush ==
  /\ Unmasked
  /\ Flush
  /\ UNCHANGED <<cpVars, sync, flush_all>>

\* norflash_api_flush_all enables flushing and flushes until it returns 0; other
\* threads run between two of its flushes.
FlushAllStart ==
  /\ Unmasked
  /\ ~flush_all
  /\ flush_all' = TRUE
  /\ allowed_cb' = FALSE
  /\ UNCHANGED <<halVars, apiVars, cpVars, sync, asserted>>

FlushAllStep ==
  /\ Unmasked
  /\ flush_all
  /\ Flush
  /\ flush_all' = (FlushReturns = 1)
  /\ UNCHANGED <<cpVars, sync>>

-----------------------------------------------------------------------------
(***************************************************************************)
(* norflash_api_erase and norflash_api_write with async false, as a node   *)
(* that is never queued.                                                   *)
(***************************************************************************)
\* Deliberately wrong: what another module has suspended is not looked at.
OtherSuspendedNever(m) == FALSE

OtherSuspended(m) == cur_mod \notin {NoMod, m} /\ state[cur_mod] # "IDLE"

SyncStart(n) ==
  LET m == Owner[n.sec]
  IN  /\ Unmasked
      /\ Registered(m)
      /\ SyncDuringCpBoot \/ FlushIsAllowed
      /\ sync' = [pc |-> IF OtherSuspended(m) THEN "other" ELSE "own",
                  node |-> n, bresult |-> FALSE]
      /\ UNCHANGED <<halVars, apiVars, cpVars, allowed_cb, flush_all, asserted>>

SyncErase(s) == SyncStart(ErasingNode(s))

SyncWrite(s, lo, hi, v) ==
  /\ IsErased(s, lo, hi)
  /\ SyncStart(WrittingNode(s, lo, hi, Fill(ErasedImage, lo, hi, v)))

\* Deliberately wrong: the loop waits for a module to become idle that it does not
\* flush.
SyncFlushOtherForever ==
  /\ ~asserted
  /\ sync.pc = "other"
  /\ FlushIsAllowed
  /\ Opera_flush(cur_mod, FALSE)
  /\ AskFlushIsAllowed
  /\ sync' = [sync EXCEPT !.bresult = TRUE]
  /\ UNCHANGED <<cur_mod, cur_mod_id, cpVars, flush_all>>

\* Finish the suspended operation of another module; without a suspension one
\* call is enough.  The loop spins while flushing is not allowed.
SyncFlushOther ==
  /\ ~asserted
  /\ sync.pc = "other"
  /\ FlushIsAllowed
  /\ Opera_flush(cur_mod, FALSE)
  /\ AskFlushIsAllowed
  /\ sync' = [sync EXCEPT !.pc = "own", !.bresult = TRUE]
  /\ UNCHANGED <<cur_mod, cur_mod_id, cpVars, flush_all>>

\* "flush all of cur module opera.": one turn of the do-while that finds an
\* operation.
SyncFlushOwn ==
  /\ ~asserted
  /\ sync.pc = "own"
  /\ FlushIsAllowed
  /\ Opera_flush(Owner[sync.node.sec], FALSE)
  /\ AskFlushIsAllowed
  /\ sync' = [sync EXCEPT !.bresult = TRUE]
  /\ UNCHANGED <<cur_mod, cur_mod_id, cpVars, flush_all>>

\* Deliberately wrong: one flush is taken for all of them.
SyncDrainedEarly ==
  /\ ~asserted
  /\ sync.pc = "own"
  /\ AskFlushIsAllowed
  /\ sync' = [sync EXCEPT !.pc = "hal"]
  /\ UNCHANGED <<halVars, apiVars, cpVars, flush_all, asserted>>

\* The end of the do-while: nothing is left, or flushing is not allowed and
\* "continue" goes to the loop's condition, which the last flush has set.
SyncDrained ==
  /\ ~asserted
  /\ sync.pc = "own"
  /\ IF FlushIsAllowed THEN queue[Owner[sync.node.sec]] = <<>> ELSE ~sync.bresult
  /\ AskFlushIsAllowed
  /\ sync' = [sync EXCEPT !.pc = "hal"]
  /\ UNCHANGED <<halVars, apiVars, cpVars, flush_all, asserted>>

\* The operation itself; the driver refuses it while another one is suspended.
SyncHal ==
  /\ sync.pc = "hal"
  /\ \E result \in {"OK", "BAD_OP"} : HalCall(sync.node, "IDLE", FALSE, result)
  /\ sync' = NoSync
  /\ UNCHANGED <<apiVars, cpVars, allowed_cb, flush_all, asserted>>

-----------------------------------------------------------------------------
(***************************************************************************)
(* The thread that starts the CP (a2dp_cp_init and its likes) disables     *)
(* flushing, starts the CP, waits for it and enables flushing.             *)
(***************************************************************************)
FlushDisable ==
  /\ Unmasked
  /\ cp = "off"
  /\ allowed_cb' = TRUE
  /\ cp' = "disabled"
  /\ UNCHANGED <<halVars, apiVars, cp_inited, sync, flush_all, asserted>>

CpOpen ==
  /\ Unmasked
  /\ cp = "disabled"
  /\ cp' = "opened"
  /\ UNCHANGED <<halVars, apiVars, cp_inited, allowed_cb, sync, flush_all, asserted>>

\* The CP core does this, whatever the MCU core is doing.
CpInitDone ==
  /\ cp = "opened"
  /\ ~cp_inited
  /\ cp_inited' = TRUE
  /\ UNCHANGED <<halVars, apiVars, cp, allowed_cb, sync, flush_all, asserted>>

FlushEnable ==
  /\ Unmasked
  /\ cp = "opened"
  /\ cp_inited
  /\ allowed_cb' = FALSE
  /\ cp' = "running"
  /\ UNCHANGED <<halVars, apiVars, cp_inited, sync, flush_all, asserted>>

CpClose ==
  /\ Unmasked
  /\ cp = "running"
  /\ cp' = "off"
  /\ cp_inited' = FALSE
  /\ UNCHANGED <<halVars, apiVars, allowed_cb, sync, flush_all, asserted>>

-----------------------------------------------------------------------------
Init ==
  /\ HalInit
  /\ state = [m \in Mods |-> "UNINITED"]
  /\ queue = [m \in Mods |-> <<>>]
  /\ cur = [m \in Mods |-> FALSE]
  /\ cur_mod = NoMod
  /\ cur_mod_id = NumMods
  /\ opera_used = 0
  /\ data_used = 0
  /\ allowed_cb = FALSE
  /\ cp = "off"
  /\ cp_inited = FALSE
  /\ sync = NoSync
  /\ flush_all = FALSE
  /\ asserted = FALSE

Client ==
  \/ \E m \in Mods : Register(m)
  \/ \E s \in Sectors : norflash_api_erase(s) \/ SyncErase(s)
  \/ \E s \in Sectors, lo, hi \in Cells, v \in Values :
       /\ lo <= hi
       /\ norflash_api_write(s, lo, hi, v) \/ SyncWrite(s, lo, hi, v)
  \/ FlushAllStart

SyncNext == SyncFlushOther \/ SyncFlushOwn \/ SyncDrained \/ SyncHal

CpNext == FlushDisable \/ CpOpen \/ CpInitDone \/ FlushEnable \/ CpClose

Next == Client \/ norflash_api_flush \/ FlushAllStep \/ SyncNext \/ CpNext

Spec == Init /\ [][Next]_vars

(***************************************************************************)
(* Fairness.  The idle thread flushes whenever no thread is ready, and     *)
(* again and again some flush is not cut short by an interrupt; so do the  *)
(* flushes of norflash_api_flush_all.  A synchronous call has the MCU to   *)
(* itself.  The thread that starts the CP and the CP itself get on with    *)
(* it.  Clients are under no obligation to call anything.                  *)
(***************************************************************************)
NotCutShort == hal'.state = "NONE"

Fairness ==
  /\ SF_vars(norflash_api_flush /\ NotCutShort)
  /\ SF_vars(FlushAllStep /\ NotCutShort)
  /\ WF_vars(SyncNext)
  /\ SF_vars(CpOpen)
  /\ SF_vars(FlushEnable)
  /\ WF_vars(CpInitDone)

FairSpec == Spec /\ Fairness

-----------------------------------------------------------------------------
(***************************************************************************)
(* What must hold.                                                         *)
(***************************************************************************)

\* The driver keeps one suspended operation, and norflash_api resumes whatever
\* the driver kept.  So at most one module is suspended, it is cur_mod, and what
\* the driver keeps is that module's oldest node, which is locked: _opera_flush
\* never resumes a different operation than the one it started.
SuspendedIsCurrent ==
  \A m \in Mods :
    state[m] \in {"WRITTING_SUSPEND", "ERASE_SUSPEND"} =>
      /\ m = cur_mod
      /\ cur[m]
      /\ queue[m] # <<>>
      /\ state[m] = SuspendedState(Head(queue[m]))
      /\ hal.sec = Head(queue[m]).sec

\* The driver's side of it: an operation is suspended in the driver exactly while
\* a module is in a suspended state of that kind, and a resumed write covers
\* pages of the node that was started.
DriverMatchesQueue ==
  /\ hal.state = "NONE" => \A m \in Mods : state[m] \in {"UNINITED", "IDLE"}
  /\ hal.state = "ERASE" => cur_mod \in Mods /\ state[cur_mod] = "ERASE_SUSPEND"
  /\ hal.state = "PROGRAM" =>
       /\ cur_mod \in Mods
       /\ state[cur_mod] = "WRITTING_SUSPEND"
       /\ LET n == Head(queue[cur_mod])
          IN  hal.next \in n.lo..n.hi /\ hal.last = n.hi

\* No ASSERT of _opera_flush fails: the driver never refuses a queued operation
\* and a node is never resumed in the other kind's state.
NoAssert == ~asserted

\* Nodes and buffers are neither leaked nor freed twice: the pools count exactly
\* the nodes and write buffers that are on some list.
PoolsMatchLists ==
  LET nodes == UNION {{m} \X (1..Len(queue[m])) : m \in Mods}
  IN  /\ opera_used = Cardinality(nodes)
      /\ data_used = Cardinality({n \in nodes : n[2] \in Writes(queue[n[1]])})

\* What page c of sector s will hold once the queue has been performed.
Final(s) ==
  LET q == queue[Owner[s]]
      erases == {i \in On(q, s) : q[i].type = "ERASING"}
      later(i) == \A e \in erases : e < i
      written(c) == {q[i].buf[c] : i \in {j \in On(q, s) : later(j) /\ c \in q[j].lo..q[j].hi}}
  IN  [c \in Cells |->
         Wired(written(c) \cup IF erases = {} THEN {flash[s][c]} ELSE {Blank})]

\* Reading through the API answers with what will be stored: nothing a client
\* reads back is lost or altered on its way to the flash.
ReadsWhatIsStored == \A s \in Sectors : View(s) = Final(s)

\* A synchronous operation works on the flash after everything that was queued
\* before it in its module ("flush all of cur module opera.").
SyncDrainsQueue == sync.pc = "hal" => queue[Owner[sync.node.sec]] = <<>>

Reads == INSTANCE FlashStore WITH store <- [s \in Sectors |-> View(s)]

ReadsAreAtomic == Reads!Spec

\* While an operation is being performed nothing but its completion touches its
\* node: the driver still programs from that node's buffer (op_next_buf).
LockedNodeStays ==
  \A m \in Mods : cur[m] =>
    \/ cur'[m] /\ queue'[m] # <<>> /\ Head(queue'[m]) = Head(queue[m])
    \/ ~cur'[m] /\ queue'[m] = Tail(queue[m])
LockedNodeIsStable == [][LockedNodeStays]_vars

\* A synchronous operation finds the driver free: a suspended operation of any
\* module has been finished first ("Handle the suspend operation.").
SyncFindsDriverFree == sync.pc = "hal" => hal.state = "NONE"

\* Why these hold: the parts that no single function makes true.  A current node
\* is on its list and cur_mod is a module that has registered ...
CurIsListed ==
  /\ \A m \in Mods : cur[m] => queue[m] # <<>>
  /\ cur_mod \in Mods => Registered(cur_mod)

\* ... and a synchronous call keeps what it has established: no other module's
\* operation is suspended any more, and, unless it may meet the boot of the CP,
\* flushing stays allowed and the owner's queue ends up empty.
SyncKeepsProgress ==
  sync # NoSync =>
    LET m == Owner[sync.node.sec]
    IN  /\ Registered(m)
        /\ sync.pc = "other" => OtherSuspended(m)
        /\ sync.pc = "own" => ~OtherSuspended(m)
        /\ ~SyncDuringCpBoot =>
             /\ FlushIsAllowed
             /\ sync.pc = "hal" => queue[m] = <<>> /\ ~OtherSuspended(m)

\* The inductive invariant of NorflashApi_proofs.
IInv ==
  /\ TypeOK
  /\ NoAssert
  /\ SuspendedIsCurrent
  /\ DriverMatchesQueue
  /\ CurIsListed
  /\ SyncKeepsProgress

\* A synchronous call that found flushing disabled by a thread that has not started
\* the CP yet: it spins with the interrupts locked, so that nobody ever will.
Spins == sync # NoSync /\ allowed_cb /\ cp = "disabled"

\* Once the clients are quiet, everything queued reaches the flash and every
\* norflash_api_flush_all returns, suspensions and CP starts notwithstanding.
Flushed == ~flush_all /\ \A m \in Mods : queue[m] = <<>>
QueueDrains == <>[][~Client]_vars => <>[](Flushed \/ Spins)

\* A synchronous call returns, unless it spins.
SyncEnds == (sync # NoSync) ~> (sync = NoSync \/ Spins)
=============================================================================
