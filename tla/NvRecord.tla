------------------------------ MODULE NvRecord ------------------------------
(***************************************************************************)
(* The user data record of services/nv_section/userdata_section: a copy in *)
(* RAM that the setters change, and two copies in flash, the main and the  *)
(* backup record.  A save erases and writes the main record, and when it   *)
(* is in flash copies it page by page to the backup, so that at any moment *)
(* a power loss leaves one record that is valid.                           *)
(*                                                                         *)
(* nv_record_flash_flush saves in the calling thread; the sleep hook of    *)
(* the idle thread does one step of a save at a time.  Both work through   *)
(* the queue of NorflashApi and share nv_flsh_state.                       *)
(*                                                                         *)
(* Threads are numbered by priority.  A flush never blocks, so a thread is *)
(* preempted by higher ones only, and each of those runs to its end; what  *)
(* the code does under int_lock_global is one step.  The hook runs when no *)
(* thread is ready, with the interrupts locked: while hook is not "off"    *)
(* nothing else happens.                                                   *)
(*                                                                         *)
(* A record is its version: a setter makes the next one.  What does not    *)
(* verify (crc32) is a sector that is not filled with one version.         *)
(***************************************************************************)
EXTENDS NorflashApi

CONSTANTS
  Main, Bak,        \* the sectors of the two records
  NumThreads,       \* threads that call nv_record_flash_flush
  SetterPreempts,   \* may a setter run while a thread is flushing?
  MaxRecord         \* bound: the versions of a run are 0..MaxRecord

ASSUME RecordAssumption == /\ {Main, Bak} \subseteq Sectors
                           /\ Main # Bak
                           /\ Owner[Main] = Owner[Bak]
                           /\ MaxRecord \in Nat
                           /\ Values = 0..MaxRecord
ASSUME ThreadAssumption == /\ NumThreads \in Nat \ {0}
                           /\ SetterPreempts \in BOOLEAN

VARIABLES
  nv_state,     \* nv_flsh_state.state
  is_update,    \* nv_flsh_state.is_update
  written,      \* nv_flsh_state.written_size, in pages
  ram,          \* the version in local_extension_data
  nvrec_init,   \* nv_record_extension_init has run since power on
  thread,       \* thread[t]: where thread t is in nv_record_extension_flush
  locked,       \* the running thread called it under int_lock_global
  hook,         \* what the sleep hook has yet to do before it returns
  nv_asserted,  \* an ASSERT of nvrecord_extension.c has failed
  sent,         \* history: the version last handed to norflash_api_write
  completed     \* history: the version of the last save that came to its end

flushVars == <<nv_state, is_update, written>>
nvVars == <<flushVars, ram, nvrec_init, thread, locked, hook, nv_asserted,
            sent, completed>>
allVars == <<vars, nvVars>>

-----------------------------------------------------------------------------
NvMod == Owner[Main]
Threads == 1..NumThreads
Default == 0

\* NV_STATE_<record>_<step>, and NV_STATE_IDLE.
NV(rec, step) == [rec |-> rec, step |-> step]
IDLE == NV(NoSector, "IDLE")
NvSteps == {"ERASING", "ERASED", "WRITTING", "WRITTEN", "DONE"}
NvStates == {IDLE} \cup {NV(rec, step) : rec \in {Main, Bak}, step \in NvSteps}

\* The state in which the save of a record begins.
StartOf(rec) == IF rec = Main THEN IDLE ELSE NV(Main, "DONE")

Off == [at |-> "off", rec |-> Main, seen |-> 0]
ThreadPlaces == {"off", "update", "loop", "check", "erase", "erase_full", "erased",
                 "check2", "write", "write_full", "queued", "written", "start", "copy",
                 "copy_full", "load", "store", "drain", "done", "idle", "second"}

NvTypeOK ==
  /\ TypeOK
  /\ nv_state \in NvStates
  /\ is_update \in BOOLEAN
  /\ written \in 0..(NumCells + 1)
  /\ {ram, sent, completed} \subseteq Values
  /\ nvrec_init \in BOOLEAN
  /\ thread \in [Threads -> [at : ThreadPlaces, rec : {Main, Bak}, seen : 0..NumCells]]
  /\ locked \in BOOLEAN
  /\ hook \in {"off", "flush", "copy"}
  /\ nv_asserted \in BOOLEAN

-----------------------------------------------------------------------------
(***************************************************************************)
(* The calls to norflash_api, and what they return.                        *)
(***************************************************************************)
EraseIsFull(s) ==
  LET kept == DeletePending(queue[NvMod], cur[NvMod], s)
  IN  /\ ~EraseMerged(queue[NvMod], cur[NvMod], s)
      /\ opera_used - (Len(queue[NvMod]) - Len(kept)) = OpraLen

WriteIsFull(s) == /\ ~WriteMerged(queue[NvMod], cur[NvMod], s)
                  /\ opera_used = OpraLen \/ data_used = BuffLen

QueueErase(s) ==
  /\ E_opera_add(NvMod, s)
  /\ UNCHANGED <<halVars, state, cur, cur_mod, cur_mod_id, cpVars, allowed_cb,
                 sync, flush_all, asserted>>

QueueWrite(s, lo, hi, v) ==
  /\ W_opera_add(NvMod, s, lo, hi, v)
  /\ UNCHANGED <<halVars, state, cur, cur_mod, cur_mod_id, cpVars, allowed_cb,
                 sync, flush_all, asserted>>

FlushQueue == Flush /\ UNCHANGED <<cpVars, sync, flush_all>>

\* norflash_api_get_free_buffer_count(type) == 0: all nodes of the pool are in use,
\* and of this type.
AllOfType(type) ==
  /\ opera_used = OpraLen
  /\ \A m \in Mods : \A i \in 1..Len(queue[m]) : queue[m][i].type = type

Used == queue[NvMod] # <<>>

-----------------------------------------------------------------------------
(***************************************************************************)
(* Power on.                                                               *)
(***************************************************************************)
Image(v) == [c \in Cells |-> v]

\* nv_record_data_is_valid
Valid(s) == \E v \in Values : flash[s] = Image(v)
VersionIn(s) == flash[s][1]

\* What nv_record_extension_init loads.
Recoverable == IF Valid(Main) THEN VersionIn(Main)
               ELSE IF Valid(Bak) THEN VersionIn(Bak) ELSE Default

\* Deliberately wrong: the record in the backup is loaded and not saved again.
NeedsUpdateUnlessLoaded == ~Valid(Main) /\ ~Valid(Bak)

NeedsUpdate == ~Valid(Main) \/ ~Valid(Bak)

\* nv_record_extension_init: the records are checked, one is loaded, and the thread
\* flushes if either was invalid.
Boot ==
  /\ ~nvrec_init
  /\ Register(NvMod)
  /\ nvrec_init' = TRUE
  /\ ram' = Recoverable
  /\ is_update' = NeedsUpdate
  /\ nv_state' = IF Valid(Main) /\ ~Valid(Bak) THEN NV(Main, "DONE") ELSE IDLE
  /\ written' = 0
  /\ thread' = [thread EXCEPT ![1].at = IF NeedsUpdate THEN "loop" ELSE "off"]
  /\ sent' = Recoverable
  /\ UNCHANGED <<locked, hook, nv_asserted, completed>>

\* Everything but the flash is lost.  An erase or a write that the power loss cuts
\* short leaves what a suspension at that point leaves.
PowerLoss ==
  /\ flash' = flash
  /\ hal' = NotSuspended
  /\ state' = [m \in Mods |-> "UNINITED"]
  /\ queue' = [m \in Mods |-> <<>>]
  /\ cur' = [m \in Mods |-> FALSE]
  /\ cur_mod' = NoMod
  /\ cur_mod_id' = NumMods
  /\ opera_used' = 0
  /\ data_used' = 0
  /\ nv_state' = IDLE
  /\ is_update' = FALSE
  /\ written' = 0
  /\ ram' = Default
  /\ nvrec_init' = FALSE
  /\ thread' = [t \in Threads |-> Off]
  /\ locked' = FALSE
  /\ hook' = "off"
  /\ sent' = Default
  /\ UNCHANGED <<cpVars, allowed_cb, sync, flush_all, asserted, nv_asserted, completed>>

-----------------------------------------------------------------------------
(***************************************************************************)
(* Who runs.                                                               *)
(***************************************************************************)
Running == /\ nvrec_init
           /\ hook = "off"
           /\ Unmasked
           /\ ~nv_asserted

NoThread == \A t \in Threads : thread[t].at = "off"

\* Thread t is at this place and no thread above it is ready.
At(t, place) ==
  /\ Running
  /\ thread[t].at = place
  /\ \A u \in Threads : u > t => thread[u].at = "off"

Goto(t, place) == thread' = [thread EXCEPT ![t].at = place]

\* Another thread or an interrupt gets in.
Interleaves == Running /\ ~locked

(***************************************************************************)
(* The setters and the callers of nv_record_flash_flush.                   *)
(***************************************************************************)
NextVersion == ram < MaxRecord /\ ram' = ram + 1

\* nv_record_ddbrec_add and the like: the record and is_update, under one lock.
SetRecord ==
  /\ Interleaves
  /\ SetterPreempts \/ NoThread
  /\ NextVersion
  /\ is_update' = TRUE
  /\ UNCHANGED <<vars, nv_state, written, nvrec_init, thread, locked, hook,
                 nv_asserted, sent, completed>>

Starts(t) == /\ At(t, "off")
             /\ ~locked

\* nv_record_flash_flush
StartFlush(t) ==
  /\ Starts(t)
  /\ Goto(t, "loop")
  /\ UNCHANGED <<vars, flushVars, ram, nvrec_init, locked, hook, nv_asserted, sent,
                 completed>>

\* nv_record_blerec_add: the record under the lock, is_update without it.
AddBleRecord(t) ==
  /\ Starts(t)
  /\ NextVersion
  /\ Goto(t, "update")
  /\ UNCHANGED <<vars, flushVars, nvrec_init, locked, hook, nv_asserted, sent,
                 completed>>

SetUpdate(t) ==
  /\ At(t, "update")
  /\ is_update' = TRUE
  /\ Goto(t, "loop")
  /\ UNCHANGED <<vars, nv_state, written, ram, nvrec_init, locked, hook, nv_asserted,
                 sent, completed>>

\* nv_record_rebuild and nv_record_extension_update_tws_ble_info: the record,
\* is_update and the whole flush under one lock.
SetAndFlush(t) ==
  /\ Starts(t)
  /\ NextVersion
  /\ is_update' = TRUE
  /\ locked' = TRUE
  /\ Goto(t, "loop")
  /\ UNCHANGED <<vars, nv_state, written, nvrec_init, hook, nv_asserted, sent, completed>>

-----------------------------------------------------------------------------
(***************************************************************************)
(* nv_record_extension_flush(false) in thread t, and the two functions it  *)
(* calls, one step between two points where another thread may get in.     *)
(***************************************************************************)
sinceBoot == <<ram, nvrec_init, hook, sent>>

SavesMain == nv_state = IDLE \/ (nv_state.rec = Main /\ nv_state.step # "DONE")

Enter(t, rec) == thread' = [thread EXCEPT ![t].at = "check", ![t].rec = rec]

SyncLoop(t) ==
  /\ At(t, "loop")
  /\ \/ /\ nv_state = IDLE /\ ~is_update
        /\ Goto(t, "off")
        /\ locked' = FALSE
     \/ /\ nv_state # IDLE \/ is_update
        /\ Enter(t, IF SavesMain THEN Main ELSE Bak)
        /\ UNCHANGED locked
  /\ UNCHANGED <<vars, flushVars, sinceBoot, nv_asserted, completed>>

\* After nv_record_extension_flush_main the loop goes on to the backup.
SyncSecond(t) ==
  /\ At(t, "second")
  /\ IF SavesMain THEN Goto(t, "loop") ELSE Enter(t, Bak)
  /\ UNCHANGED <<vars, flushVars, sinceBoot, locked, nv_asserted, completed>>

SyncCheckErase(t) ==
  /\ At(t, "check")
  /\ LET rec == thread[t].rec
     IN  Goto(t, IF nv_state \in {StartOf(rec), NV(rec, "ERASING")} THEN "erase" ELSE "check2")
  /\ UNCHANGED <<vars, flushVars, sinceBoot, locked, nv_asserted, completed>>

SyncQueueErase(t) ==
  /\ At(t, "erase")
  /\ QueueErase(thread[t].rec)
  /\ Goto(t, IF EraseIsFull(thread[t].rec) THEN "erase_full" ELSE "erased")
  /\ UNCHANGED <<flushVars, sinceBoot, locked, nv_asserted, completed>>

\* "while(norflash_api_get_free_buffer_count(..) == 0)", then the call again.
SyncFull(t, full, type, again) ==
  /\ At(t, full)
  /\ FlushQueue
  /\ Goto(t, IF AllOfType(type)' THEN full ELSE again)
  /\ UNCHANGED <<flushVars, sinceBoot, locked, nv_asserted, completed>>

SyncFulls(t) == \/ SyncFull(t, "erase_full", "ERASING", "erase")
                \/ SyncFull(t, "write_full", "WRITTING", "write")
                \/ SyncFull(t, "copy_full", "WRITTING", "copy")

SyncErased(t) ==
  /\ At(t, "erased")
  /\ nv_state' = NV(thread[t].rec, "ERASED")
  /\ Goto(t, "check2")
  /\ UNCHANGED <<vars, is_update, written, sinceBoot, locked, nv_asserted, completed>>

SyncCheckWrite(t) ==
  /\ At(t, "check2")
  /\ LET rec == thread[t].rec
     IN  Goto(t, IF nv_state \notin {NV(rec, "ERASED"), NV(rec, "WRITTING")} THEN "drain"
                 ELSE IF rec = Main THEN "write" ELSE "start")
  /\ UNCHANGED <<vars, flushVars, sinceBoot, locked, nv_asserted, completed>>

SyncWriteMain(t) ==
  /\ At(t, "write")
  /\ QueueWrite(Main, 1, NumCells, ram)
  /\ IF WriteIsFull(Main)
     THEN Goto(t, "write_full") /\ UNCHANGED sent
     ELSE Goto(t, "queued") /\ sent' = ram
  /\ UNCHANGED <<flushVars, ram, nvrec_init, hook, locked, nv_asserted, completed>>

\* is_update is cleared outside the lock under which the record was written.
SyncQueued(t) ==
  /\ At(t, "queued")
  /\ is_update' = FALSE
  /\ Goto(t, "written")
  /\ UNCHANGED <<vars, nv_state, written, sinceBoot, locked, nv_asserted, completed>>

SyncWritten(t) ==
  /\ At(t, "written")
  /\ nv_state' = NV(thread[t].rec, "WRITTEN")
  /\ Goto(t, "drain")
  /\ UNCHANGED <<vars, is_update, written, sinceBoot, locked, nv_asserted, completed>>

\* Deliberately wrong: the copy goes on where the last one has stopped.
SyncStartBakKeepsSize(t) ==
  /\ At(t, "start")
  /\ nv_state' = NV(Bak, "WRITTING")
  /\ Goto(t, "copy")
  /\ UNCHANGED <<vars, is_update, written, sinceBoot, locked, nv_asserted, completed>>

SyncStartBak(t) ==
  /\ At(t, "start")
  /\ nv_state' = NV(Bak, "WRITTING")
  /\ written' = 0
  /\ Goto(t, "copy")
  /\ UNCHANGED <<vars, is_update, sinceBoot, locked, nv_asserted, completed>>

\* A page of the main record, as norflash_api_read returns it, goes to the backup.
\* Behind the backup the module's sectors end: norflash_api_read or norflash_api_write
\* returns BAD_ADDR, which fails an ASSERT.
CopyPage(page) == QueueWrite(Bak, page, page, View(Main)[page])

SyncCopy(t) ==
  /\ At(t, "copy")
  /\ IF written >= NumCells
     THEN nv_asserted' = TRUE /\ UNCHANGED <<vars, thread>>
     ELSE /\ CopyPage(written + 1)
          /\ Goto(t, IF WriteIsFull(Bak) THEN "copy_full" ELSE "load")
          /\ UNCHANGED nv_asserted
  /\ UNCHANGED <<flushVars, sinceBoot, locked, completed>>

\* written_size += NV_EXTENSION_PAGE_SIZE, outside the lock: a load and a store.
SyncLoadSize(t) ==
  /\ At(t, "load")
  /\ thread' = [thread EXCEPT ![t].at = "store", ![t].seen = written]
  /\ UNCHANGED <<vars, flushVars, sinceBoot, locked, nv_asserted, completed>>

SyncStoreSize(t) ==
  /\ At(t, "store")
  /\ written' = thread[t].seen + 1
  /\ Goto(t, IF written' = NumCells THEN "written" ELSE "copy")
  /\ UNCHANGED <<vars, nv_state, is_update, sinceBoot, locked, nv_asserted, completed>>

\* Deliberately wrong: one flush is taken for all of them.
SyncDrainOnce(t) ==
  /\ At(t, "drain")
  /\ FlushQueue
  /\ Goto(t, "done")
  /\ UNCHANGED <<flushVars, sinceBoot, locked, nv_asserted, completed>>

\* "while(norflash_api_get_used_buffer_count(..) > 0)"
SyncDrain(t) ==
  /\ At(t, "drain")
  /\ FlushQueue
  /\ Goto(t, IF Used' THEN "drain" ELSE "done")
  /\ UNCHANGED <<flushVars, sinceBoot, locked, nv_asserted, completed>>

SyncDone(t) ==
  /\ At(t, "done")
  /\ nv_state' = NV(thread[t].rec, "DONE")
  /\ Goto(t, IF thread[t].rec = Main THEN "second" ELSE "idle")
  /\ UNCHANGED <<vars, is_update, written, sinceBoot, locked, nv_asserted, completed>>

SyncIdle(t) ==
  /\ At(t, "idle")
  /\ IF nv_state = NV(Bak, "DONE")
     THEN nv_state' = IDLE /\ completed' = sent
     ELSE UNCHANGED <<nv_state, completed>>
  /\ Goto(t, "loop")
  /\ UNCHANGED <<vars, is_update, written, sinceBoot, locked, nv_asserted>>

ThreadStep(t) ==
  \/ SetUpdate(t) \/ SyncLoop(t) \/ SyncSecond(t)
  \/ SyncCheckErase(t) \/ SyncQueueErase(t) \/ SyncErased(t)
  \/ SyncCheckWrite(t) \/ SyncWriteMain(t) \/ SyncQueued(t) \/ SyncWritten(t)
  \/ SyncStartBak(t) \/ SyncCopy(t) \/ SyncLoadSize(t) \/ SyncStoreSize(t)
  \/ SyncFulls(t) \/ SyncDrain(t) \/ SyncDone(t) \/ SyncIdle(t)

-----------------------------------------------------------------------------
(***************************************************************************)
(* nv_record_flash_flush_in_sleep: nv_record_extension_flush(true), one    *)
(* step of a save.  When a call is refused the hook flushes before it      *)
(* returns.                                                                *)
(***************************************************************************)
\* Deliberately wrong: the hook sees to it only while there is an update.
HookIsDueOnUpdate == is_update

\* From IDLE a save begins only for an update, and when the timer has expired.
HookIsDue == nv_state # IDLE \/ is_update

HookStarts == /\ Running
              /\ NoThread
              /\ HookIsDue

\* Deliberately wrong: an erase that is refused is taken for one that is queued.
HookEraseUnchecked(rec) ==
  /\ HookStarts
  /\ nv_state \in {StartOf(rec), NV(rec, "ERASING")}
  /\ QueueErase(rec)
  /\ nv_state' = NV(rec, "ERASED")
  /\ UNCHANGED <<is_update, written, ram, nvrec_init, thread, locked, hook,
                 nv_asserted, sent, completed>>

HookErase(rec) ==
  /\ HookStarts
  /\ nv_state \in {StartOf(rec), NV(rec, "ERASING")}
  /\ QueueErase(rec)
  /\ IF EraseIsFull(rec)
     THEN nv_state' = NV(rec, "ERASING") /\ hook' = "flush"
     ELSE nv_state' = NV(rec, "ERASED") /\ UNCHANGED hook
  /\ UNCHANGED <<is_update, written, ram, nvrec_init, thread, locked, nv_asserted,
                 sent, completed>>

HookWriteMain ==
  /\ HookStarts
  /\ nv_state \in {NV(Main, "ERASED"), NV(Main, "WRITTING")}
  /\ QueueWrite(Main, 1, NumCells, ram)
  /\ IF WriteIsFull(Main)
     THEN /\ nv_state' = NV(Main, "WRITTING")
          /\ hook' = "flush"
          /\ UNCHANGED <<is_update, sent>>
     ELSE /\ nv_state' = NV(Main, "WRITTEN")
          /\ is_update' = FALSE
          /\ sent' = ram
          /\ UNCHANGED hook
  /\ UNCHANGED <<written, ram, nvrec_init, thread, locked, nv_asserted, completed>>

\* The loop over the pages of the backup: it ends when one is refused.
HookCopy ==
  /\ \/ HookStarts /\ nv_state \in {NV(Bak, "ERASED"), NV(Bak, "WRITTING")}
     \/ hook = "copy"
  /\ LET page == IF nv_state = NV(Bak, "ERASED") THEN 1 ELSE written + 1
         full == WriteIsFull(Bak)
     IN  /\ CopyPage(page)
         /\ written' = IF full THEN page - 1 ELSE page
         /\ nv_state' = NV(Bak, IF ~full /\ page = NumCells THEN "WRITTEN" ELSE "WRITTING")
         /\ hook' = IF full THEN "flush" ELSE IF page = NumCells THEN "off" ELSE "copy"
  /\ UNCHANGED <<is_update, ram, nvrec_init, thread, locked, nv_asserted, sent, completed>>

HookFlush ==
  /\ hook = "flush"
  /\ FlushQueue
  /\ hook' = "off"
  /\ UNCHANGED <<flushVars, ram, nvrec_init, thread, locked, nv_asserted, sent, completed>>

\* The main record, or the whole save, is over once the queue is empty.
HookDone(rec) ==
  /\ HookStarts
  /\ nv_state = NV(rec, "WRITTEN")
  /\ ~Used
  /\ \/ rec = Main /\ nv_state' = NV(Main, "DONE") /\ UNCHANGED completed
     \/ rec = Bak /\ nv_state' = IDLE /\ completed' = sent
  /\ UNCHANGED <<vars, is_update, written, ram, nvrec_init, thread, locked, hook,
                 nv_asserted, sent>>

HookDrain(rec) ==
  /\ HookStarts
  /\ nv_state = NV(rec, "WRITTEN")
  /\ Used
  /\ FlushQueue
  /\ UNCHANGED nvVars

HookNext ==
  \/ \E rec \in {Main, Bak} : HookErase(rec) \/ HookDone(rec) \/ HookDrain(rec)
  \/ HookWriteMain \/ HookCopy \/ HookFlush

-----------------------------------------------------------------------------
(***************************************************************************)
(* Other modules and other users of the queue, and the whole.              *)
(***************************************************************************)
OtherFlush == /\ Interleaves
              /\ FlushQueue
              /\ UNCHANGED nvVars

OtherModule ==
  /\ Interleaves
  /\ \/ \E m \in Mods \ {NvMod} : Register(m)
     \/ \E s \in Sectors : /\ Owner[s] # NvMod
                           /\ \/ norflash_api_erase(s)
                              \/ norflash_api_write(s, 1, NumCells, Default)
  /\ UNCHANGED nvVars

NvInit ==
  /\ Init
  /\ nv_state = IDLE
  /\ is_update = FALSE
  /\ written = 0
  /\ ram = Default
  /\ nvrec_init = FALSE
  /\ thread = [t \in Threads |-> Off]
  /\ locked = FALSE
  /\ hook = "off"
  /\ nv_asserted = FALSE
  /\ sent = Default
  /\ completed = Default

NvCalls == \/ SetRecord
           \/ \E t \in Threads : StartFlush(t) \/ AddBleRecord(t) \/ SetAndFlush(t)

NvNext == \/ Boot \/ PowerLoss \/ NvCalls \/ HookNext
          \/ \E t \in Threads : ThreadStep(t)
          \/ OtherFlush \/ OtherModule

NvSpec == NvInit /\ [][NvNext]_allVars

(***************************************************************************)
(* Fairness.  A thread that is ready runs, and no flush is cut short for   *)
(* ever; the idle thread gets to sleep again and again, and the timer of   *)
(* the hook expires.                                                       *)
(***************************************************************************)
NvFairness ==
  /\ WF_allVars(Boot)
  /\ WF_allVars(\E t \in Threads : ThreadStep(t))
  /\ SF_allVars(\E t \in Threads : (SyncDrain(t) \/ SyncFulls(t)) /\ NotCutShort)
  /\ SF_allVars(HookNext)
  /\ SF_allVars((HookFlush \/ HookDrain(Main) \/ HookDrain(Bak)) /\ NotCutShort)

NvFairSpec == NvSpec /\ NvFairness

-----------------------------------------------------------------------------
(***************************************************************************)
(* What must hold.                                                         *)
(***************************************************************************)
\* At whatever point the power is lost, in the queue, in an erase or in a write: the
\* record found at the next boot is the one of the last save that came to its end,
\* or a newer one ("Check main sector", "Check bak secotr").
NeverRollsBack == Recoverable >= completed

\* Types are kept and no ASSERT of nvrecord_extension.c fails: every page of the
\* backup is written inside the module ("norflash_api_write err").
NvNoAssert == NvTypeOK /\ ~nv_asserted /\ ~asserted

\* Nothing is under way and nothing is marked as changed ...
Quiet == /\ Running /\ NoThread
         /\ nv_state = IDLE /\ ~is_update

\* ... only when the record that is in RAM is in flash: no update is forgotten
\* ("need to flush the nv record").
NothingForgotten == Quiet => flash[Main] = Image(ram)

\* The records use the queue as its clients must: erase before write, and no erase
\* that meets the hazard of _e_opera_add.  Every step but a power loss is a step of
\* NorflashApi, whose theorems then hold between two power losses.
QueueStep == Next \/ UNCHANGED vars
UsesQueueAsMeant == [][nvrec_init' \/ ~nvrec_init => QueueStep]_allVars

\* Once the setters are quiet and the power stays on, the record is in flash and
\* stays there.
Saved == Quiet /\ Recoverable = ram
NvSaves == <>[][~(NvCalls \/ PowerLoss)]_allVars => <>[]Saved
=============================================================================
