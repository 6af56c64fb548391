# little-buddy: verification of flash storage, timers and keys

The repository is the firmware of a pair of wireless earbuds (BES 2300, RTX RTOS,
one Cortex-M MCU core and a second core, the "CP", for audio). This directory holds
TLA+ models of two stacks of it, with TLC runs on small instances, TLAPS proofs for
all instances of the flash queue, the user data record, the trace log, the timers, the
keys and the count of key events, and the plan for the components that come next:

* everything persistent: the asynchronous flash queue, and above it the user data
  record and the trace log;
* the way of a key press: software timers, debouncing and click counting, and the
  application thread that is told of the events.

Paths below are relative to the repository's root; line numbers are those of
`services/norflash_api/norflash_api.cpp` unless another file is named.

## 1. Inventory

| component | state | operations | hard behaviour | what makes it correct |
|---|---|---|---|---|
| `services/norflash_api` | per client module: state, list of pending operations, current operation; current module and turn; static pools of nodes and sector buffers; callbacks that may forbid flushing | register, read, erase, write (asynchronous or synchronous), flush, flush_all, flush_disable/enable | clients in several threads, operations suspended by interrupts and resumed by a later flush, deletion and merging of pending operations, pools that run out | nothing resumed but what was started; reads answer with what will be stored; nothing leaked; the queue drains |
| `platform/hal/hal_norflash.c` | the chip; one suspended operation (state, next address, remaining length, buffer) | erase, write, suspend, resume | the driver keeps one suspension for the whole system | a resumed operation finishes the one that was suspended |
| `services/cp_accel`, `a2dp_decoder_cp.c` | CP open, CP inited, messages | open, init-done (CP core), close, send | a second core; the CP runs from flash, so flushing is forbidden while it boots | flushing is always allowed again |
| `services/nv_section/userdata_section/nvrecord_extension.c` | record in RAM, `is_update`, flush state, size copied; main and backup sectors | init/recover, update, flush (sleep hook), flush (synchronous), rebuild | power loss at any flash step; two threads flushing | a valid record survives; an update is not forgotten |
| `services/nv_section/log_section` | ring of sector buffers, write and flush positions, flash offset and state | trace, flush (sleep hook), flush all (power-off), crash start and end, boot | trace output overtakes the flash; a crash or a loss of power between any two steps | the ring stays in order, a crash log reaches the flash, the newest sector survives |
| `utils/hwtimer_list`, `platform/hal/hal_timer.c` | free, active (delta) and fired lists over one hardware timer | alloc, free, start, stop, interrupt | interrupt against stop and restart, callbacks with interrupts open | a timer fires once, never after stop, never early but by a bounded amount |
| `platform/hal/hal_sleep.c`, `hal_sysfreq.c` | wake locks, hooks, requested frequencies | lock, unlock, enter sleep | interrupts between the check and the sleep | no sleep while somebody holds a lock |
| `platform/hal/hal_key.c` | per key: debounced, settling, down; gesture in progress; interrupts and timer armed | key interrupts, timer run, open, close | interrupts that disable each other, levels that change between reads, a close that is interrupted | no key left unwatched, every press in one click event, quiet after close |
| `apps/key`, `apps/common/app_thread.c` | mailbox, count of key events in flight | send, receive, count down, open, close | the count is raised in an interrupt and lowered in a thread without a lock | the count is right, keys neither fill the mailbox nor are refused for ever |
| `apps/battery`, `services/bt_app/app_bt_media_manager.cpp`, `apps/main` | state machines of charging, of audio streams, of power | event handlers | order of events | one stream active, shutdown completes |
| `utils/heap`, `utils/list`, `utils/kfifo`, `utils/cqueue` | blocks, nodes, ring positions | alloc, free, put, get | boundaries and wrap-around | contents preserved |
| Bluetooth profiles, IBRT, audio processing, OTA, drivers, vendored code | - | - | behaviour lives in libraries that are not in the repository, or in registers and signal processing | not modelled |

How they meet: clients of the flash queue (log, user data, crash dump, factory
section, OTA) call it from their threads; the idle thread runs the sleep hooks with
interrupts locked and with them the flush of the queue; a thread that starts the
audio accelerator forbids flushing, starts the CP and allows flushing again. Every function of
the queue runs with interrupts locked. Keys interrupt; the interrupt starts a software
timer, whose runs, in the timer interrupt, watch the keys and mail events to
`app_thread`. `PROJECT.json` lists every component with its
status and the hazards at their lines.

## 2. The model

### Modules

| module | what | source |
|---|---|---|
| `HalNorflash` | the chip and the driver's one suspended operation | `platform/hal/hal_norflash.c:956-1210` |
| `OperaQueue` | what the walks of `_e_opera_add` and `_w_opera_add` compute, over sequences | 175-192, 421-607 |
| `NorflashApi` | the queue: modules, pools, turns, synchronous calls, CP start; composes the two above | 123-1496 |
| `FlashStore` | abstract specification: a store of sectors that are erased and written atomically | - |
| `OperaList` | the linked lists the source really keeps, in a pool of nodes; checked against `OperaQueue` | 28-157, 421-808 |
| `NorflashApi_proofs` | theorems about `NorflashApi`: driver and queue agree | - |
| `NorflashReads_proofs` | the same: the accounts of the pools, what readers see, the refinement of `FlashStore` | - |
| `OperaList_proofs` | theorems about `OperaList`: the lists are lists, and the walk of `_e_opera_add` is `OperaQueue`'s | - |
| `DataLemmas` | lemmas about numbers, sequences and lists without doublets, for all proofs | - |
| `NvRecord` | main and backup record, power loss and recovery, flushing threads and the sleep hook; extends `NorflashApi`, whose operations its steps are made of | `nvrecord_extension.c:198-1089`, the setters |
| `NvRecord_proofs` | theorems about `NvRecord` with one flushing thread | - |
| `LogSection` | the ring of sector buffers and the ring of flash sectors, over an abstract flash queue | `log_section.c` |
| `LogSection_proofs` | theorems about `LogSection` | - |
| `TimerService` | abstract specification: what a software timer promises its client | - |
| `HwTimer` | the delta list over the hardware timer; implements `TimerService` | `hwtimer_list.c`, `hal_timer.c:583-675` |
| `HwTimer_proofs` | theorems about `HwTimer`, and that its steps are `TimerService`'s | - |
| `HalKey` | keys, their interrupts, the timer's runs, opening and closing | `hal_key.c` |
| `AppKey` | the count of key events and the application thread; extends `HalKey`, whose events it takes | `app_key.cpp`, `app_thread.c` |
| `AppKey_proofs` | theorems about `HalKey` and `AppKey` | - |
| `MCNorflashApi`, `MCOperaList`, `MCNvRecord`, `MCLogSection`, `MCHwTimer`, `MCHalKey`, `MCAppKey` | instances for TLC | - |

### Correspondence

*Flash.* A sector is a function from its pages (`Cells`) to contents; a page is
`Blank`, one of `Values`, or `Mixed` when it was programmed twice with different data
(NOR flash only clears bits). `hal` is `suspend_state`, `op_next_addr`,
`op_remain_len` and `op_next_buf`. A page is programmed whole, as the driver checks
for interrupts between pages; a write may stop before any of its pages, and a suspended
erase leaves the whole sector `Mixed` until it is resumed and completes. The page in progress when a
write is suspended is taken to be untouched until the write is resumed, and the driver's checks of address and
length are left out, as no caller modelled can fail them.

*Queue.* `queue[m]` is the list of module `m`, oldest first; the code links it newest
first. `cur[m]` says that the oldest node is `cur_opera_info` and locked. A node holds
type, sector, the range of pages to program (`w_offs`, `w_len`) and its buffer. The
pools are counts in `NorflashApi` and real nodes with `next` pointers in `OperaList`.

*Atomicity.* Each function of the API runs between `int_lock_global` and
`int_unlock_global` on the only MCU core, so a call is one step, trailing bookkeeping
included. Synchronous erase and write are unfolded into one step per flash operation
(`sync`), because what they do in their loops matters; the interrupts stay locked, so
of all other actions only the CP core's is enabled in between. `norflash_api_flush_all`
does not lock and other threads run between its flushes.

*Clients.* `Client` enumerates every call with every sector, range and value, in any
order. Three things the clients of the repository keep to are guards, and named:
`IsErased` (a range is written after it has been erased), `EraseIsSafe` (no erase of a
sector whose erase and write are both pending with a later operation behind them) and
`SyncDuringCpBoot` (FALSE: no synchronous call while a thread has flushing disabled).
What happens without the last two is told under *Observed behaviour*.

*Record.* `NvRecord` keeps the variables of `NorflashApi` and adds `nv_flsh_state`
(`nv_state`, `is_update`, `written`), the copy in RAM, and the place of each thread in
`nv_record_extension_flush`. A record is its version number, and a sector is valid when
all its pages hold one version, which is what the checksum tells; trailing pages that the
checksum does not cover are left out. A power loss clears everything but the flash;
one in the middle of an erase or a write leaves what a suspension there leaves, so
`PowerLoss` needs no cases of its own. `sent` and `completed` are history.

Steps of a synchronous flush end where the code unlocks the interrupts, and everything the
code does without the lock - the assignments to `nv_flsh_state` after each call, the load
and the store of `written_size +=` - is a step of its own. Threads are strictly nested: a
flush never blocks, so only a thread of higher priority gets in and runs to its end
(`BesbtThread` is above normal, `app_thread` high, the BLE threads normal). The
hook runs in the idle thread, when no thread is ready, under the lock. Three kinds of
callers are modelled as they are: a setter that changes the record and `is_update` under
one lock, one that sets `is_update` after the lock (`AddBleRecord`), and two that keep the lock
through the whole flush (`SetAndFlush`). That a save uses the queue as `NorflashApi`'s
clients must is not assumed but checked (`UsesQueueAsMeant`).

*Log.* A sector buffer is its state, how full it is (empty, in part, whole) and the
sequence number in its header; a flash sector is the sequence number it holds.
`log_dump_output_handler` splits a line at the end of a buffer, and one action stands for
the part that goes to one buffer; traces and the sleep hook run with interrupts off and are one
action each. `log_dump_flush_all` runs in a thread and has interrupts off only while it calls the flash queue. It
is unfolded into one action per access to what it shares with traces and a crash: the state after an erase
(`AllErased`), the choice of the buffer (`AllPick`), the write, and then lines 280-287 one by one: the buffer
freed (`AllFree`), `log_dump_f_seqnum` loaded and stored, the offset moved by what the buffer holds at that
time (`AllMove`), the state (`AllIdle`). Traces, a crash and a loss of power come between any two of them.

The flash queue is abstract here: operations that are performed in order (`FlashPerforms`), refused when
there are too many (`Full`), lost with the power; a synchronous one (`Request`) waits until all
before it are performed. `Stored` is what reads answer, the flash after all that is queued.
That `norflash_api` gives its clients just this is what
`ReadsWhatIsStored`, `ReadsAreAtomic` and `SyncDrainsQueue` say. Nothing checks that a sector is blank before it is
programmed, in the code or in the model: a header programmed over another one leaves the bits set in both (`And`
in `Apply`), and `mixed` records it. `WriteBehind` is the write at an unaligned offset that a crash
between lines 285 and 287 leads to. `strayed`, `mixed`, `cut` and `owed` are history: the ring out of order, two headers
mixed, the step of the thread a crash came at, and what was in memory when the dump ended.

*Timers.* The hardware timer is a one-shot counter with a pending interrupt and the time
since it was started. `hal_timer_reload` takes `HAL_TIMER_LOAD_DELTA` off what it loads because the
load may take that long to arrive (`fresh`); `held` in `Tick` is whether it did. Every operation
holds `int_lock` and is one action; the handler is unfolded where it gives the lock up,
before it takes it and around each callback. While it does, only its callback and
interrupts of higher priority run; the model lets any operation happen there. `left` is what is left of the time a client asked for. Two things make it differ from what the list and
the hardware say, and each is kept apart: `drift` is what loading the hardware may have cost the timer, operation by
operation, and `ahead` the head start of a timer that was started while the first one was
overdue (`HeadStart`, the delay of the interrupt until then). `DeltasAddUp` and `OnTime` allow these two and no more.

*Keys.* Time is in intervals of the timer, and each stored time is kept as its age up to
the threshold it is compared with. The interrupts of keys and timer have one priority, so
handlers are one action; `hal_key_close` runs in a thread and is one action per call. GPIO
interrupts are on level, and the handler reads the pin anew, which may have changed; the
power key's edge is latched by the power management unit, and lost when it falls while its interrupt is
disabled (`edge'` is then either). The run of the timer is the composition of
its parts in the order of the code: `PwrScan`, `GpioScan`, then `Ups`, `Clicks`, `Downs`,
`LongPresses`, each from a `key_status` and the events so far to the next. A build is a record of whether
`NO_GROUPKEY` is defined and of the keys the board has, and a constant of a behaviour (`noGroupKey`, `fitted`); a run
checks several. This build defines `NO_GROUPKEY` and has the power key only; GPIO keys, without or beside it
(`NO_PWRKEY`), are the other configurations'. `taps` is history: the presses that make up the next click event, and
whether others before them have been dropped without an event (`lost`).

*Application thread.* `Run` composes a timer run with `key_event_process` for each event it
sends. `key_event_cnt--` is a load and a store, and a run may come in between. Messages of other
modules only delay the thread and are left out.

*What is abstracted.* Addresses within a page, the address remapping of OTA builds,
statistics and traces, completion callbacks (the one in use only traces), the counts
returned to clients, bursts of several sectors in one driver call; the text of the log;
the units of time.

### Findings

Two disagreements between the code and what it says of itself have a violation run each:

* `nv_record_overwrite` - two threads that flush share `nv_flsh_state` without a lock. One
  that preempts the other between the write and `NV_STATE_MAIN_WRITTEN` writes over the
  main record without an erase, and copies the result: both records are lost.
* `key_taps` - a tap followed within the double-click time by a hold is neither reported nor
  forgotten: `code_click` survives the long press, and the next tap, however much later, is
  reported as a double click (`hal_key.c:932`). A user who taps, holds and later taps gets
  "next track" instead of "play/pause" (`README.md:9-15`). The run has the power key alone.

### Observed behaviour

Other things the models show. Most were met when a guard or a bound was lifted; none
has a run of its own, and where a configuration shows it again it is named.

*Flash queue.*
* A synchronous call drains its module's queue in `do { if(!_flush_is_allowed()) continue;
  ... } while(bresult)` (`:1159-1165`); `continue` goes to the condition, so while flushing is disabled the
  loop ends at once and the operation overtakes the queue (`SyncDrainsQueue` with
  `SyncDuringCpBoot = TRUE`).
* With several write buffers (`FLASH_API_HIGHPERFORMANCE`), a write behind a write being
  performed takes its base from the flash, and readers see a state that never was
  (`ReadsWhatIsStored` with `BuffLen = 2`).
* The walk of `_e_opera_add` takes a node it has just freed as the predecessor of the next
  (`NoFreedNodeListed` with `AnyErase = TRUE`); no client erases in a way that needs it.

*Record.*
* `is_update` is cleared after the lock is released under which the record was handed to the
  queue: an update in between is forgotten (`NothingForgotten` with `SetterPreempts = TRUE`).
* With two threads, one that is preempted in the copy goes on behind the backup's end, which
  fails an ASSERT (`NvNoAssert` with `NumThreads = 2`).
* After a power loss between the save of the main record and its copy, both records are valid
  and differ. The boot loads the main one and repairs nothing, so a power loss in the next save
  falls back to the older one. `NeverRollsBack` speaks of saves that came to their end.

*Log.*
* After a buffer was flushed half full (power-off that does not come about), the offset stays
  unaligned, which no branch of `_log_dump_flush` handles: nothing reaches the flash until the next boot
  (`NothingAfterPartialFlush`), and the flush after a crash loops for ever. `CrashFlushEnds` excepts this.
* When the ring is full, the buffer at the writer's position is the oldest and is flushed after newer ones.
* `log_dump_flush_all` uses `log_dump_f_seqnum`, the buffer and the state with interrupts on. Traces that come
  between the return of its write and the freeing of the buffer are lost. Traces that fill the ring move
  `log_dump_f_seqnum` as well, so that the thread's `++` goes one too far or undoes it; traces that take the buffer again
  after it was freed change the length by which the offset moves, and an offset that is no longer aligned
  is the case above. After either, `log_dump_flush_all` and the flush after a crash may loop for ever: `_log_dump_flush` looks
  at a buffer that is free while another is not. `strayed` marks all this, and `RingOrdered` and `CrashFlushEnds` except it.
* Once the buffer at the writer's position has been flushed, `log_dump_f_seqnum` is one past the writer, at a buffer
  that is free; the flush after a crash that comes then loops for ever over it. This is `strayed` too.
* A crash that comes while `log_dump_flush_all` is between its write and the end of its bookkeeping finds a
  half-done state, and the dump is lost in whole or in part. `CrashLogStored`, `ErasedBeforeWritten` and `CrashFlushEnds` except
  just these places (`cut`):
  - between 272 and 280, if the dump fills the ring: `log_dump_f_seqnum` moves on with the state still `WRITTING`, and the next
    buffer is programmed over the one just written;
  - between 280 and 281: `log_dump_f_seqnum` is at a buffer that is free, and the loop of
    `_log_dump_flush_remain` never ends;
  - between 281 and 285: the next buffer is programmed over the one just written;
  - between 285 and 287: the next sector is programmed without having been erased, or, if a part was written, the next
    buffer goes behind it, garbles the next sector's header or, in the last sector, fails an ASSERT.

*Timers.*
* Each time the hardware is set anew, the timers that wait behind may come one tick early (`drift`).
* A timer started while the first one is overdue is called back early by the time the interrupt has been held off until then:
  it is put into the list as from now (`hwtimer_list.c:251-276`), and the handler takes the whole delay off everything in the
  list (`:82-105`). `ahead` is that time, and `OnTime` and `DeltasAddUp` except it.

*Keys.*
* The power key's time is not set by its interrupt (`hal_key.c:390`), so that its first press is
  reported after one interval instead of two.
* A press of the power key whose edge falls while its interrupt is disabled may go unnoticed.
* `hal_key_close` clears the GPIO keys' state and then disables their interrupts again; an
  interrupt enabled by a run in between leaves state behind, and if the thread is held up for another interval a
  second run enables the interrupt after the close. `ClosedIsQuiet` holds for one run per close and fails for two
  (`MaxCloseRuns = 2`).
* The debounce time is one for all GPIO keys (`hal_key.c:507`), and the interrupt of each sets it again. A key that bounces
  settles and interrupts again and again, and meanwhile another one that is held may never be noticed. `KeysNoticed` is about what
  happens once the other GPIO keys are left alone.
* One run of the timer may send five events with two keys; the limit drops the last although the thread has caught up.
* One increment of `key_event_cnt` that the decrement overwrites is never made up for: with nothing in flight the
  count is 255, and no key event passes until the next boot. `CountOfEvents` says so exactly, and
  `BlockEnds` excepts it.

## 3. Runs

| run | instance | shows |
|---|---|---|
| `norflash_api` | 2 modules, 1 sector of 2 pages each, 3 nodes, 1 buffer, 1 value | no ASSERT fails; `SuspendedIsCurrent`; `PoolsMatchLists`; `SyncDrainsQueue`; `ReadsWhatIsStored`; `LockedNodeIsStable`; `ReadsAreAtomic`, the refinement of `FlashStore` by what readers see |
| `norflash_live` | module 0 with 2 sectors, module 1 with 1, pages 1, 2 nodes, fair, synchronous calls during the CP's boot too | `IInv`, the proof's invariant; `QueueDrains`; `SyncEnds` |
| `opera_list` | 4 nodes, 2 modules, 3 sectors | lists end, hold no freed node, share no node, `cur_opera_info` is the tail, and the pointer walks do what `OperaQueue` says |
| `nv_record` | 1 flushing thread, setters that do not preempt it, 2 pages, versions 0 to 2, pool of 1 node, power losses, fair | `NothingForgotten`: nothing is under way only when RAM and flash agree; `NvSaves`: a record that is no longer changed is saved |
| `nv_record_queue` | the same with setters that preempt, 2 nodes and 1 buffer, and another module that competes for them | no ASSERT fails; `NeverRollsBack`, whatever step the power is lost at; `UsesQueueAsMeant` |
| `nv_record_overwrite` | two threads | `NeverRollsBack` violated, see findings |
| `log_section` | 3 buffers, 4 sectors, 2 queued operations, sequence numbers 0 to 7, crashes and power losses, fair | `NextBufferUsable` (the ASSERT); `RingOrdered`; `ErasedBeforeWritten`; `CrashLogStored`, `CrashFlushEnds`; `NewestKept` |
| `hw_timer` | 3 timers (symmetric), durations 0, 2 and 4, interrupt up to 2 ticks late | `ListsMatchStates`; `NoCollapse` (the ASSERTs); `DeltasAddUp`; `OnTime` |
| `hw_timer_service` | 2 timers, durations 0, 2 and 4, fair | `TimerServiceSpec`: the refinement of `TimerService`, liveness included |
| `hal_key` | two GPIO keys; the power key and one GPIO key, with and without `NO_GROUPKEY`; fair | `KeyAsserts`; `NoKeyForgotten`; `CountsTaps`; `ClosedIsQuiet`; `KeysSettle`; `KeysNoticed` |
| `key_taps` | the power key alone | `TapsTogether` violated, see findings |
| `app_key` | power key, limit 3 as in the code, fair | `CountOfEvents`; `FewKeyMails`; `BlockEnds` |

*Why the bounds are enough.* One write buffer is the build's own value
(`NORFLASH_API_WRITE_BUFF_LEN` is 1 without `FLASH_API_HIGHPERFORMANCE`); three nodes
instead of six are fewer than two busy modules want, so every pool runs out. Two pages
make partial and merged ranges and a suspension in mid-write; one value beside
`Blank` and `Mixed` is enough as contents are only copied and compared, and a page written twice
differently shows as `Blank` against the value. Two modules are what turns, pinning of
`cur_mod` and "another module" need; with three sectors a list has nodes of two sectors around
a locked one. In `OperaList` four nodes give lists of four, one more than the walks look at
(current, previous, next). For the record, versions 0 to 2 are the one saved, the one being
saved and the next; with one node every second call of a save is refused, and with another
module in the queue every call can be; two pages tell a copy that has begun
from one that is over. Power losses are not bounded.

For the log, three buffers instead of four tell the one being filled, the one being flushed and
one in between; four sectors and eight sequence numbers let both rings go round twice, and two queued operations are an
erase and its write. A trace stops at `MaxSeqnum`; what is in memory by then is still flushed. For
timers, three make a first, a middle and a last; a duration of 4 leaves room to start another before,
at and behind it, 2 is between, and 0 is raised to the smallest one; two ticks of latency make a timer
overdue and reach the next. `MaxDrift`: no timer is started or stopped while an active one has drifted by three ticks, that is,
while the hardware has been set three times since that one was started. For keys, the thresholds keep the order of the real
ones (double click, long press, longer press; a repeat of one or two); the click event is due two runs after a release, so
that a second press of any key can come before it. Two presses are the most a click counts instead of
five, which is the first count at which it can go wrong and the one at which it
ends. Two keys make combinations, two GPIO keys share the debounce time, and a third would
only repeat them. `MaxCloseRuns = 1`: the steps of
`hal_key_close` take microseconds and the timer runs every few tens of milliseconds. In `app_key`
the count overtakes the limit, one increment is overwritten (`MaxRaced`), and two events arrive after a close
(`MaxStray`).

*Deadlock* is checked in every run but `norflash_live`: there a synchronous call made
after flushing was disabled and before the CP was opened spins for ever with interrupts
locked. `SyncEnds` says that this is the only way.

*Fairness.* `norflash_api_flush` that is not cut short: strong. The idle thread
calls the flush whenever no thread is ready, for ever, and whether an interrupt cuts
an operation short does not depend on the operation; a flash that was interrupted at each attempt
for ever would not make progress in the firmware either. It is strong, not weak,
because threads that disable flushing again and again interrupt its enabledness.
Synchronous calls: weak, they have the MCU. CP start: weak for the CP core,
strong for the thread, which waits for synchronous calls. For the record: a ready thread runs (weak), its flushes
and the hook's are not cut short for ever, and the idle thread sleeps again and again with
the hook's timer expired (strong). Setters and power losses are under no obligation, and
`NvSaves` assumes that they stop. Clients have no fairness, and
`QueueDrains` assumes that they become quiet: a client that keeps its queue filled keeps
`cur_mod` and starves the others, which the code accepts.

The log's flush after a crash is weakly fair: nothing else runs any more. A hardware timer counts, its interrupt is taken
and callbacks return: weak fairness of `Tick` and of the handler; clients may stop a timer or never
start one. Each key's interrupt that stays pending is taken, and the timer runs an interval
after its start, which is what `TimerServiceSpec` gives: weak fairness of each. Keys and closing are
under no obligation. `app_thread` is not held up for ever: weak. `KeysNoticed` is about a GPIO key in a build without
`NO_GROUPKEY`, and once the other GPIO keys are left alone, whatever the power key does; with `NO_GROUPKEY` a key
waits for the release of the others.

## 4. Proofs

Every result is for all values of the constants that satisfy the named assumptions of its
module (`ModAssumption`, `PoolAssumption` and those of `HalNorflash` for the queue, `ListAssumption`,
`RecordAssumption` and `ThreadAssumption`, `LogAssumption`, `HwTimerAssumption`, `HalKeyAssumption`,
`AppKeyAssumption`); a theorem with a further hypothesis says so. Every safety property that a run
finds to hold is proved, those of `NvRecord` for one flushing thread, as its runs have it.

| module | theorem | says |
|---|---|---|
| `NorflashApi_proofs` | `Invariant`, `TypeCorrect`, `NoAssertFails`, `ResumesWhatItStarted` | `IInv` and its parts `TypeOK`, `NoAssert`, `SuspendedIsCurrent` |
| | `SyncIsOrdered` | `SyncDrainsQueue`, unless clients make synchronous calls while flushing is disabled |
| | `LockedNodeIsSafe` | the action property `LockedNodeIsStable` |
| `NorflashReads_proofs` | `SectorsHaveTwoNodes`, `PoolsAreCounted` | `ShapeInv`, and from it `PoolsMatchLists`: neither pool leaks |
| | `ReadsAreStored`, `QueueIsAStore` | `ReadsWhatIsStored` and the refinement of `FlashStore`, with one buffer and `SyncDuringCpBoot` FALSE |
| `OperaList_proofs` | `ListsAreChains`, `WalksEnd`, `FreedNodesAreGone` | `ListInv`; `ListsEnd` and `NoFreedNodeListed` |
| | `PoolIsDivided`, `CurrentIsOldest`, `WalkIsDeletion` | `UsedOnOneList`, `CurIsTail` and `EraseWalkDeletesPending`; all six with `AnyErase` FALSE |
| `NvRecord_proofs` | `RecordInvariant`, `RecordNoAssert`, `RecordNeverRollsBack` | `NvInv`; `NvNoAssert` (the ASSERTs) and `NeverRollsBack`, for one flushing thread |
| | `RecordUsesQueueAsMeant` | the action property `UsesQueueAsMeant`, for one flushing thread |
| | `RecordNothingForgotten` | `NothingForgotten`, for one flushing thread and `SetterPreempts` FALSE |
| `LogSection_proofs` | `Invariant`, `NoBufferIsLost`, `RingIsOrdered` | `LogInv`; `NextBufferUsable` (the ASSERT) and `RingOrdered` |
| | `CrashIsLogged` | `CrashLogStored` |
| | `ErasedFirst`, `NewestSurvives`, `PartEndsTheLog` | the action properties `ErasedBeforeWritten`, `NewestKept` and `NothingAfterPartialFlush` |
| `HwTimer_proofs` | `EveryTimerIsListed`, `HardwareFollowsTheList` | `ListsMatchStates` and `NoCollapse` (the ASSERTs) |
| | `TimersKeepTheirTime`, `NoCallbackIsEarly` | `DeltasAddUp` and `OnTime` |
| | `TimersAreServed` | the refinement of `TimerService` without its liveness |
| `AppKey_proofs` | `AssertsHold`, `TapsAreCounted` | `KeyAsserts` and `CountsTaps` |
| | `ClosesQuietly`, `NoKeyIsForgotten` | `ClosedIsQuiet` and `NoKeyForgotten`, for `MaxCloseRuns <= 1` |
| | `CountIsRight`, `MailboxIsSpared` | `CountOfEvents` and `FewKeyMails` |

In every module there is one lemma per action, the facts about an operator are stated once
before them, and the theorems come last. An invariant that had to be found was checked by TLC before it was
proved; what those checks were is told below.

*The driver and the queue.* `NoAssert` holds because the driver accepts every call for a queued
operation, which needs the module's state and the driver's to agree on kind and sector
(`SuspendedIsCurrent`, `DriverMatchesQueue`). Those are kept by a flush because
`_get_cur_mod` insists on `cur_mod`, and by the clients because the walks of
`_e_opera_add` and `_w_opera_add` pass the locked node over. Neither is inductive: a
synchronous call flushes a module that need not be `cur_mod`, and is right only because
it has dealt with another module's suspension before, which `SyncKeepsProgress`
records; and deletion of the oldest node needs the current node to be listed
(`CurIsListed`). `IInv` is the conjunction; TLC checks it in `norflash_live`, the
most permissive instance. The facts about
sequences (`DeletePendingProperties`, `RemoveIndexProperties`) and about the driver
(`HalCallAccepted`) are stated once.

*The pools.* The counts are updated operation by operation, by what the walks of `_e_opera_add` and `_w_opera_add`
free and take, and have to stay the number of nodes and of writes in all lists. `ShapeInv` bounds what a walk can meet: of a
sector, the nodes that are not locked are an erase, a write, or an erase and then a write, and behind an erase that
is being performed there is no other erase. So there is one node, or there are two, to delete, of which one has a buffer.
No hypothesis on the constants is needed.

*What readers see.* `Final`, the flash after all nodes of a list, takes all of the sector's nodes into account, while a
reader is answered from the buffer of the newest one. The two agree by `ReadInv`, the
conjunction of `IInv`, `PoolsMatchLists`, `ShapeInv` and three more parts. `BufInv`: the buffer of a write fits its
sector: behind an erase it is blank outside the range to be programmed; else it agrees
with the flash outside the range, and inside the range the flash is blank or has what the buffer has. `DoneInv`: the
pages a suspended write has programmed hold what its buffer does. `SyncInv`: the pages a synchronous write was
called for are still erased when it is made. A client's erase, a client's write with its
merging, a flush and each step of a synchronous call are a lemma each (`EraseReads`, `WriteReads`, `FlushReads`,
`SyncHalReads`), and from what they say of the readers' view follows that each step is a step of `FlashStore` or a stutter
(`StoreStep`). TLC checked the candidate on the instance of `norflash_api` (2.3 million states).
The hypotheses are needed: `BuffLen <= 1` is this build's (`NORFLASH_API_WRITE_BUFF_LEN` without
`FLASH_API_HIGHPERFORMANCE`), `SyncDuringCpBoot` FALSE what its clients do, and without either of them TLC finds the
property violated (see *Observed behaviour*).

*The lists.* `ListInv` says that each module's pointers are a chain (`IsChain`) of different nodes, that the current node
is its last, that the used nodes are divided among the chains, and of each sector what `ShapeInv` says of the queue. It
speaks of the pointers only through the chain: `PushedLists` and `RestIsChain` say what putting a node in front
and taking nodes away make of it. The walk of
`_e_opera_add` changes pointers while it follows them and takes a node it has just unlinked as predecessor, so its
invariant, `WalkAt`, is over the places already passed: from each listed place the pointers lead, over deleted
places only, to the next listed one (`LeadsPast`). It holds as long as two neighbours are deleted only at the head of the
list (`SafeToWalk`), which is what `EraseIsSafe` says of the queue; with `AnyErase` TRUE the theorems are false (see
*Observed behaviour*), hence their hypothesis. That the walk leaves what `EraseAdd` computes then follows as both keep
the same places (`Keeps`), in the same order.

*The record.* `NeverRollsBack` is about the two sectors only, but what reaches them is what the queue still
holds, possibly suspended, and the queue is shared with other modules and may be full at any call. `NvInv`
therefore says at each place of the flush (`Control`: the place of the thread or the hook against
`nv_flsh_state.state` and `written_size`) what has been handed over: an erase or none, and pages 1 to `k`.
`Handed` says what such a prefix looks like in the queue and in flash: at most two nodes; an erase ahead, or
a flash whose pages are blank or have the new version; each page up to `k` either there or still ahead of
the driver. It is kept wherever an operation is cut short, by the writes that merge, and by the copy of the
backup page by page, where `ViewIs`, of the proofs about the queue, tells what `norflash_api_read` answers.
`RecordsInv` follows: the record being saved is torn or the new version; meanwhile the other one is valid
(the main record, equal to `sent`, while the backup is saved); no valid one is older than `completed`. A
loss of power may come at any step (`PowerLossKeeps`); `OffInv` is what is left until the next boot. `IInv`
of `NorflashApi` is a conjunct, because each step is shown to be one of the queue's, which is
`UsesQueueAsMeant`: an erase is queued only when the module has nothing else in the queue, so that
`EraseIsSafe` holds, and pages are written behind it. Two threads make `Control` false, as the place of one
says nothing about a state that the other has moved on (`nv_record_overwrite`). `NothingForgotten` needs
`UpdateInv` besides: a record in RAM that has not been handed over is marked as changed. `is_update` is
cleared after the record has been queued and outside the lock of the setters, so that an update made in
between is forgotten; hence `SetterPreempts` FALSE. TLC checked `NvInv` on the instance of `nv_record_queue`
and `UpdateInv` on that of `nv_record`.

*The log.* What all else rests on is that the state of the flush, the offset and the place of the thread belong
together (`FlushInv`), which a crash between two of its steps disturbs: the exceptions are in terms of `cut`. `CleanInv`
says that the sector at the offset is erased, for readers, whenever something is about to be programmed there, and that every
queued operation finds its sector so; `ErasedBeforeWritten` follows. `RingInv` has what the thread is about to do
between freeing a buffer and moving on, `UseInv` what it still holds. `CrashInv` counts the buffers that the
crash handler has brought to sectors that it will not come back to (`EndFlushed`).
That the newest sector is not erased (`NewestKept`) is not about the flash alone: when the ring of buffers overtakes the flush,
sectors are written out of order, and the flash offset could come round to the newest one. It does not because
of `AgeInv`: the sectors written since the newest one, plus the buffers in use that are older than it, are no more than
there are buffers, and `LogAssumption` has more sectors than buffers. What the queue still has to do is
covered by `QueueInv`, which says of every prefix of it that sequence numbers stay distinct (`AllDiffer`) and
that the next operation spares the newest sector (`Safe`), so that losing the rest with the power is covered as well. These two and
`NumbersInv` make up `NewestInv` and hold as long as no two headers are mixed.
TLC checked `LogInv` on the instance of `log_section`.

*The timers.* `ListsInv` has the lists disjoint, without doublets and equal to what the states say; `ClockInv` relates hardware, list
and handler (`RunsFor`: the counter runs for the first timer of the list, or for one that was stopped with its interrupt
pending). `SumInv` (`Fits`) carries `DeltasAddUp`, with the head starts taken off, to the places between two steps of the
handler, and `DueInv` has the timers that are fired no earlier than `drift` and `ahead` say, from which `OnTime` follows. Sums of deltas are a recursive function of the place in the list; how insertion and
removal change them is proved by induction over the place. TLC checked the invariant on the instance of `hw_timer`.
`TimersAreServed` is the safety part, `TimerService`'s `SafeSpec`.

*The keys.* The asserts are local to a run of the timer once `PinInv` (a pin is in one of its states, and its interrupt is off meanwhile) and
`StatusInv` hold; a run is a composition of six functions, and each has a lemma that says what it makes of them.
`CountsTaps` rests on `TapsInv`: the key and the count that wait for
their click event are those of the presses in `taps`, and no earlier ones have been dropped (`lost`). `ClosedIsQuiet` needs to know which of the steps of `hal_key_close` the timer's one
run came behind: `CloseInv` says that before it all is as the steps have left it, and that after it nothing is left
that could enable an interrupt again. With two runs in one close the property is false (see *Observed behaviour*), and
`MaxCloseRuns <= 1` is what the times of the code give: the close takes microseconds and the timer's interval is tens of
milliseconds.

*The count of key events.* `CountInv`: the difference between `key_event_cnt` and what is in flight only
changes when the store of the decrement writes back an old value, and by just what was
counted in between, which `loaded` pins down; what passes the limit never takes the count above
`KEY_EVENT_CNT_LIMIT + 1` (`PassedFits`), so the count itself never wraps upwards and the only way below 0 is
an overwritten increment. That a run sends a finite sequence of events comes from the
lemmas about `HalKey` in the same module.

*Only model-checked.* Everything with fairness - `QueueDrains`, `SyncEnds`, `NvSaves`, the liveness of
`TimerServiceSpec` (`Served`), `CrashFlushEnds`, `KeysSettle`, `KeysNoticed`, `BlockEnds` - as liveness is out of the prover's reach;
`NeverRollsBack` with two threads is violated, so there is nothing to prove. The library's induction theorems cannot be
used with the provers at hand, as they take an operator as a parameter; `AllNaturals` and `LeastOf` of `DataLemmas` state induction for a
set of numbers instead, which is enough for what is proved here about recursive functions.

## 5. Plan

1. Models: `HalSleep` (wake locks, hooks and the check before sleep, with `hal_sysfreq`),
   `MediaManager`, the message exchange of `cp_accel`, `Kfifo`; the address arithmetic of
   `norflash_api_write` as an operator against a reference definition; `nv_record_sector_clear`
   and the paired devices' list.

## 6. Not modelled

See the component list of `PROJECT.json` for the reason of each: Bluetooth and IBRT code
handles events of stacks that are only present as libraries; audio processing and
drivers are signal processing and registers; vendored code, generated tables and assets,
which are most of the repository's lines, are left aside. Of the modelled components: keys on an ADC and the power-key check at boot
(compiled out), the list of key handlers, `log_dump_clear` and `app_key_simulate_key_event` (no caller), the
wrap-around of the 32-bit system timer.
