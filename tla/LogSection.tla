----------------------------- MODULE LogSection -----------------------------
(***************************************************************************)
(* src/services/nv_section/log_section/log_section.c: the trace log goes   *)
(* to a ring of sector buffers, and from there to a ring of flash sectors, *)
(* each with a header that carries its sequence number.                    *)
(*                                                                         *)
(* log_dump_output_handler runs in whatever context traces, with           *)
(* interrupts off, and so does log_dump_flush, the sleep hook: each is one *)
(* action.  log_dump_flush_all, called at power-off, runs in a thread that *)
(* traces of other contexts interrupt: it has one action for each access   *)
(* to what they share.  A crash interrupts everything and ends in          *)
(* log_dump_notify_handler.  The power may fail in any state.              *)
(*                                                                         *)
(* norflash_api is what NorflashApi shows of it: a queue of erases and     *)
(* writes that reach the flash in order and are lost without power.  A     *)
(* synchronous operation waits until all before it are performed, each at  *)
(* its own time, and is performed before it returns.                       *)
(***************************************************************************)
EXTENDS Integers, Sequences, FiniteSets, SequencesExt, FiniteSetsExt

CONSTANTS
  NumBuffers,   \* LOG_DUMP_SECTOR_BUFFER_COUNT
  NumSectors,   \* log_dump_flash_len / LOG_DUMP_SECTOR_SIZE
  QueueLen,     \* operations norflash_api queues for this client
  MaxSeqnum     \* bound on log_dump_cur_dump_seqnum: no trace past it

ASSUME LogAssumption ==
  /\ NumBuffers \in Nat /\ NumBuffers > 1
  /\ NumSectors \in Nat /\ NumSectors > NumBuffers
  /\ QueueLen \in Nat \ {0}
  /\ MaxSeqnum \in Nat

Buffers == 0..NumBuffers - 1
Sectors == 0..NumSectors - 1
None == -1  \* no valid header; no buffer

VARIABLES
  buf,      \* data_buffer_list: state, fill (0, 1 for a part, 2 for a whole
            \* sector) and the seqnum of the header
  w, f,     \* log_dump_w_seqnum, log_dump_f_seqnum
  sector,   \* log_dump_flash_offs / LOG_DUMP_SECTOR_SIZE
  ragged,   \* log_dump_flash_offs % LOG_DUMP_SECTOR_SIZE # 0
  flashState, \* log_dump_flash_state
  seqnum,   \* log_dump_cur_dump_seqnum
  immediately, \* log_dump_is_immediately
  flash,    \* the seqnum in the header of each flash sector, or None
  queue,    \* operations of this client pending in norflash_api
  pc,       \* who flushes: "run" (only the sleep hook does), one of InThread (a
            \* thread is in log_dump_flush_all), "crash" (dumping), "end" (in
            \* _log_dump_flush_remain after a crash), "dead"
  db,       \* data_buff of the thread
  next,     \* what the thread is about to store in log_dump_f_seqnum
  \* Auxiliary, what happened:
  strayed,  \* since boot the buffer at w was flushed, or a trace or a crash
            \* came between two steps of the thread that count on each other
  mixed,    \* a sector was programmed that held something else
  cut,      \* pc of the thread when a crash came, or "none"
  owed      \* the seqnums in the buffers when the dump ended

vars == <<buf, w, f, sector, ragged, flashState, seqnum, immediately, flash, queue,
          pc, db, next, strayed, mixed, cut, owed>>

\* The steps of the thread: the next one is to look for a buffer ("all"), to use
\* the result of an erase ("erased"), to look at a buffer and write it ("picked"),
\* to free it ("written"), to load f ("freed"), to store it ("loaded"), to move the
\* offset ("moved"), to set the state ("counted"), to wait for the queue ("drain").
Halfway == {"freed", "loaded", "moved", "counted"}
OnFlash == {"written"} \cup Halfway
InThread == {"all", "erased", "picked", "drain"} \cup OnFlash

BufferStates == {"FREE", "WRITTING", "WRITTEN"}

NextBuffer(i) == (i + 1) % NumBuffers
NextSector(s) == (s + 1) % NumSectors

---------------------------------------------------------------------------
(* The flash.                                                               *)

Bits(n) == {i \in 0..n : (n \div 2^i) % 2 = 1}

\* Programming only clears bits: of two headers the bits set in both are left.
And(m, n) ==
  LET common == {k \in 1..m : Bits(k) \subseteq Bits(m) \cap Bits(n)}
  IN IF common = {} THEN 0 ELSE Max(common)

Apply(fl, op) ==
  [fl EXCEPT ![op.sec] = IF op.seq = None \/ @ \in {None, op.seq} THEN op.seq
                         ELSE And(@, op.seq)]

\* What norflash_api reads back: of each sector what the newest operation queued
\* on it makes of it, or what is on the flash.
AfterAll(fl, ops) ==
  [s \in Sectors |->
     LET on == {i \in 1..Len(ops) : ops[i].sec = s}
     IN IF on = {} THEN fl[s] ELSE ops[Max(on)].seq]

Stored == AfterAll(flash, queue)

Erase(s) == [sec |-> s, seq |-> None]
Write(s, n) == [sec |-> s, seq |-> n]

Full == Len(queue) >= QueueLen

\* _flash_api_erase and _flash_api_write: they try again until a synchronous
\* operation is accepted, and give up an asynchronous one that is not.
Request(op, async) ==
  /\ mixed' = (mixed \/ (op.seq # None /\ Stored[op.sec] \notin {None, op.seq}))
  /\ IF async THEN ~Full /\ queue' = Append(queue, op) /\ UNCHANGED flash
              ELSE queue = <<>> /\ flash' = Apply(flash, op) /\ UNCHANGED queue

\* norflash_api performs the oldest operation.
FlashPerforms ==
  /\ queue # <<>>
  /\ flash' = Apply(flash, queue[1])
  /\ queue' = Tail(queue)
  /\ UNCHANGED <<buf, w, f, sector, ragged, flashState, seqnum, immediately, pc, db,
                 next, strayed, mixed, cut, owed>>

---------------------------------------------------------------------------
(* Tracing.                                                                 *)

\* The buffer at w, made ready: a free or an old buffer starts with a header.
Opened ==
  IF buf[w].state = "WRITTING" THEN buf[w]
  ELSE [state |-> "WRITTING", fill |-> 0, seq |-> seqnum]

\* Deliberately wrong: does not move f when the writer has come round.
OutputLeavesF(fill) ==
  /\ pc \notin {"end", "dead"}
  /\ seqnum <= MaxSeqnum
  /\ seqnum' = IF Opened.fill = 0 THEN seqnum + 1 ELSE seqnum
  /\ buf' = [buf EXCEPT ![w] = [Opened EXCEPT !.fill = fill,
                                  !.state = IF fill = 2 THEN "WRITTEN" ELSE @]]
  /\ w' = IF fill = 2 THEN NextBuffer(w) ELSE w
  /\ UNCHANGED <<f, sector, ragged, flashState, immediately, flash, queue, pc, db, next,
                 strayed, mixed, cut, owed>>

\* Deliberately wrong: forgets to say that the buffer is full.
OutputStaysWritting(fill) ==
  /\ pc \notin {"end", "dead"}
  /\ seqnum <= MaxSeqnum
  /\ seqnum' = IF Opened.fill = 0 THEN seqnum + 1 ELSE seqnum
  /\ buf' = [buf EXCEPT ![w] = [Opened EXCEPT !.fill = fill]]
  /\ IF fill = 2
     THEN /\ w' = NextBuffer(w)
          /\ f' = IF w' = f THEN NextBuffer(f) ELSE f
     ELSE UNCHANGED <<w, f>>
  /\ strayed' = (strayed \/ (pc \in {"freed", "loaded"} /\ f' # f))
  /\ UNCHANGED <<sector, ragged, flashState, immediately, flash, queue, pc, db, next, mixed,
                 cut, owed>>

\* log_dump_output_handler, for as much of a line as goes to one buffer: a part
\* of it, or all that is left of it.
log_dump_output_handler(fill) ==
  /\ pc \notin {"end", "dead"}
  /\ seqnum <= MaxSeqnum
  /\ seqnum' = IF Opened.fill = 0 THEN seqnum + 1 ELSE seqnum
  /\ buf' = [buf EXCEPT ![w] = [Opened EXCEPT !.fill = fill,
                                  !.state = IF fill = 2 THEN "WRITTEN" ELSE @]]
  /\ IF fill = 2
     THEN /\ w' = NextBuffer(w)
          /\ f' = IF w' = f THEN NextBuffer(f) ELSE f
     ELSE UNCHANGED <<w, f>>
  /\ strayed' = (strayed \/ (pc \in {"freed", "loaded"} /\ f' # f))
  /\ UNCHANGED <<sector, ragged, flashState, immediately, flash, queue, pc, db, next, mixed,
                 cut, owed>>

---------------------------------------------------------------------------
(* _log_dump_flush with interrupts off, as the sleep hook and the handler of *)
(* a crash run it.                                                           *)

EraseSector(async) ==
  /\ flashState = "IDLE" /\ ~ragged
  /\ Request(Erase(sector), async)
  /\ flashState' = "ERASED"
  /\ UNCHANGED <<buf, f, sector, ragged, strayed>>

Flushable(b, states) == buf[b].state \in states /\ buf[b].fill > 0

MayWrite(states) == flashState \in {"ERASED", "WRITTING"} /\ Flushable(f, states)

WriteRefused(async, states) ==
  /\ async /\ Full /\ MayWrite(states)
  /\ flashState' = "WRITTING"
  /\ UNCHANGED <<buf, f, sector, ragged, strayed, mixed, flash, queue>>

\* Deliberately wrong: stays in its sector.
CompleteStays ==
  /\ buf' = [buf EXCEPT ![f].state = "FREE"]
  /\ f' = NextBuffer(f)
  /\ sector' = sector
  /\ ragged' = (buf[f].fill = 1)
  /\ flashState' = "IDLE"
  /\ strayed' = (strayed \/ f = w)

\* Deliberately wrong: forgets that the next sector is not erased.
CompleteKeepsState ==
  /\ buf' = [buf EXCEPT ![f].state = "FREE"]
  /\ f' = NextBuffer(f)
  /\ sector' = IF buf[f].fill = 2 THEN NextSector(sector) ELSE sector
  /\ ragged' = (buf[f].fill = 1)
  /\ flashState' = "WRITTING"
  /\ strayed' = (strayed \/ f = w)

\* After the write: the buffer is free, and the offset moves by what it holds.
Complete ==
  /\ buf' = [buf EXCEPT ![f].state = "FREE"]
  /\ f' = NextBuffer(f)
  /\ sector' = IF buf[f].fill = 2 THEN NextSector(sector) ELSE sector
  /\ ragged' = (buf[f].fill = 1)
  /\ flashState' = "IDLE"
  /\ strayed' = (strayed \/ f = w)

WriteBuffer(async, states) ==
  /\ MayWrite(states) /\ ~ragged
  /\ Request(Write(sector, buf[f].seq), async)
  /\ Complete

FlushStep(async, states) ==
  \/ EraseSector(async)
  \/ WriteRefused(async, states)
  \/ WriteBuffer(async, states)

Unfree == {i \in Buffers : buf[i].state # "FREE"}
AllStates == {"WRITTING", "WRITTEN"}

---------------------------------------------------------------------------
(* The sleep hook.  The idle thread does not run while another one flushes.  *)

log_dump_flush ==
  /\ pc = "run"
  /\ FlushStep(~immediately, {"WRITTEN"})
  /\ UNCHANGED <<w, seqnum, immediately, pc, db, next, cut, owed>>

---------------------------------------------------------------------------
(* log_dump_flush_all in the thread that powers off: _log_dump_flush with    *)
(* interrupts on but for the operations on the flash.                        *)

log_dump_flush_all ==
  /\ pc = "run"
  /\ immediately' = TRUE
  /\ pc' = "all"
  /\ UNCHANGED <<buf, w, f, sector, ragged, flashState, seqnum, flash, queue, db, next,
                 strayed, mixed, cut, owed>>

AllErase ==
  /\ pc = "all" /\ Unfree # {}
  /\ flashState = "IDLE" /\ ~ragged
  /\ Request(Erase(sector), FALSE)
  /\ pc' = "erased"
  /\ UNCHANGED <<buf, w, f, sector, ragged, flashState, seqnum, immediately, db, next,
                 strayed, cut, owed>>

AllErased ==
  /\ pc = "erased"
  /\ flashState' = "ERASED"
  /\ pc' = "all"
  /\ UNCHANGED <<buf, w, f, sector, ragged, seqnum, immediately, flash, queue, db, next,
                 strayed, mixed, cut, owed>>

AllPick ==
  /\ pc = "all" /\ Unfree # {}
  /\ flashState # "IDLE"
  /\ db' = f /\ pc' = "picked"
  /\ UNCHANGED <<buf, w, f, sector, ragged, flashState, seqnum, immediately, flash, queue,
                 next, strayed, mixed, cut, owed>>

\* A buffer that is in use stays so until this thread frees it, and what the traces
\* add to it, or put in its place, before the write is written.
AllWrite ==
  /\ pc = "picked"
  /\ Flushable(db, AllStates)
  /\ Request(Write(sector, buf[db].seq), FALSE)
  /\ flashState' = "WRITTING" /\ pc' = "written"
  /\ UNCHANGED <<buf, w, f, sector, ragged, seqnum, immediately, db, next, strayed, cut,
                 owed>>

AllNothing ==
  /\ pc = "picked"
  /\ ~Flushable(db, AllStates)
  /\ pc' = "all" /\ db' = None
  /\ UNCHANGED <<buf, w, f, sector, ragged, flashState, seqnum, immediately, flash, queue,
                 next, strayed, mixed, cut, owed>>

AllFree ==
  /\ pc = "written"
  /\ buf' = [buf EXCEPT ![db].state = "FREE"]
  /\ strayed' = (strayed \/ db = w \/ db # f)
  /\ pc' = "freed"
  /\ UNCHANGED <<w, f, sector, ragged, flashState, seqnum, immediately, flash, queue, db,
                 next, mixed, cut, owed>>

AllLoad ==
  /\ pc = "freed"
  /\ next' = NextBuffer(f) /\ pc' = "loaded"
  /\ UNCHANGED <<buf, w, f, sector, ragged, flashState, seqnum, immediately, flash, queue,
                 db, strayed, mixed, cut, owed>>

AllStore ==
  /\ pc = "loaded"
  /\ f' = next /\ next' = None /\ pc' = "moved"
  /\ UNCHANGED <<buf, w, sector, ragged, flashState, seqnum, immediately, flash, queue, db,
                 strayed, mixed, cut, owed>>

\* By what the buffer holds now: a trace may have taken it again since it was freed.
AllMove ==
  /\ pc = "moved"
  /\ sector' = IF buf[db].fill = 2 THEN NextSector(sector) ELSE sector
  /\ ragged' = (buf[db].fill = 1)
  /\ strayed' = (strayed \/ buf[db].state # "FREE")
  /\ pc' = "counted" /\ db' = None
  /\ UNCHANGED <<buf, w, f, flashState, seqnum, immediately, flash, queue, next, mixed, cut,
                 owed>>

AllIdle ==
  /\ pc = "counted"
  /\ flashState' = "IDLE" /\ pc' = "all"
  /\ UNCHANGED <<buf, w, f, sector, ragged, seqnum, immediately, flash, queue, db, next,
                 strayed, mixed, cut, owed>>

AllFreed ==
  /\ pc = "all" /\ Unfree = {}
  /\ pc' = "drain"
  /\ UNCHANGED <<buf, w, f, sector, ragged, flashState, seqnum, immediately, flash, queue,
                 db, next, strayed, mixed, cut, owed>>

\* norflash_api is flushed as well.
AllDone ==
  /\ pc = "drain"
  /\ queue = <<>>
  /\ pc' = "run"
  /\ UNCHANGED <<buf, w, f, sector, ragged, flashState, seqnum, immediately, flash, queue,
                 db, next, strayed, mixed, cut, owed>>

---------------------------------------------------------------------------
(* A crash: log_dump_notify_handler at its start and at its end, with the    *)
(* dump traced in between.  Nothing else runs any more.                      *)

CrashStart ==
  /\ pc \in {"run"} \cup InThread
  /\ immediately' = TRUE
  /\ pc' = "crash" /\ cut' = pc /\ db' = None /\ next' = None
  /\ strayed' = (strayed \/ pc \in {"freed", "loaded"})
  /\ UNCHANGED <<buf, w, f, sector, ragged, flashState, seqnum, flash, queue, mixed, owed>>

CrashEnd ==
  /\ pc = "crash"
  /\ pc' = "end"
  /\ owed' = {buf[i].seq : i \in Unfree}
  /\ UNCHANGED <<buf, w, f, sector, ragged, flashState, seqnum, immediately, flash, queue,
                 db, next, strayed, mixed, cut>>

\* A thread that was interrupted just before it set the state to IDLE has left the
\* offset in a sector: the write goes behind what is there, and what does not fit
\* garbles the header of the next sector, or is beyond the last one: an ASSERT.
WriteBehind ==
  /\ MayWrite(AllStates) /\ ragged
  /\ queue = <<>>
  /\ \E over \in BOOLEAN :
       /\ buf[f].fill = 2 => over
       /\ over => NextSector(sector) # 0
       /\ flash' = IF over THEN [flash EXCEPT ![NextSector(sector)] = None] ELSE flash
       /\ sector' = IF over THEN NextSector(sector) ELSE sector
       /\ mixed' = (mixed \/ over)
  /\ buf' = [buf EXCEPT ![f].state = "FREE"]
  /\ f' = NextBuffer(f)
  /\ flashState' = "IDLE"
  /\ strayed' = (strayed \/ f = w)
  /\ UNCHANGED <<ragged, queue>>

\* Deliberately wrong: takes only full buffers.
EndFlushFull ==
  /\ pc = "end" /\ Unfree # {}
  /\ FlushStep(FALSE, {"WRITTEN"}) \/ WriteBehind
  /\ UNCHANGED <<w, seqnum, immediately, pc, db, next, cut, owed>>

EndFlush ==
  /\ pc = "end" /\ Unfree # {}
  /\ FlushStep(FALSE, AllStates) \/ WriteBehind
  /\ UNCHANGED <<w, seqnum, immediately, pc, db, next, cut, owed>>

EndDone ==
  /\ pc = "end" /\ Unfree = {}
  /\ queue = <<>>
  /\ pc' = "dead"
  /\ UNCHANGED <<buf, w, f, sector, ragged, flashState, seqnum, immediately, flash, queue,
                 db, next, strayed, mixed, cut, owed>>

---------------------------------------------------------------------------
(* Power on.                                                                 *)

\* _get_seqnum: the log goes on after the (first) sector with the highest seqnum.
Newest(fl) ==
  IF \A s \in Sectors : fl[s] = None THEN None
  ELSE CHOOSE s \in Sectors : \A r \in Sectors : fl[r] < fl[s] \/ (fl[r] = fl[s] /\ s <= r)

\* Deliberately wrong: goes back to the newest sector.
NextFreeIsNewest == IF Newest(flash) = None THEN 0 ELSE Newest(flash)

NextSeqnum == IF Newest(flash) = None THEN 0 ELSE flash[Newest(flash)] + 1

NextFree == IF Newest(flash) = None THEN 0 ELSE NextSector(Newest(flash))

FreeBuffers == [i \in Buffers |-> [state |-> "FREE", fill |-> 0, seq |-> None]]

\* The power fails: memory and the operations still queued are lost, and
\* log_dump_init starts from what the flash holds.
Reboot ==
  /\ buf' = FreeBuffers
  /\ w' = 0 /\ f' = 0
  /\ sector' = NextFree /\ ragged' = FALSE
  /\ flashState' = "IDLE"
  /\ seqnum' = NextSeqnum
  /\ immediately' = FALSE
  /\ queue' = <<>>
  /\ pc' = "run" /\ db' = None /\ next' = None
  /\ strayed' = FALSE /\ cut' = "none" /\ owed' = {}
  /\ UNCHANGED <<flash, mixed>>

Init ==
  /\ flash = [s \in Sectors |-> None]
  /\ buf = FreeBuffers
  /\ w = 0 /\ f = 0
  /\ sector = 0 /\ ragged = FALSE
  /\ flashState = "IDLE"
  /\ seqnum = 0
  /\ immediately = FALSE
  /\ queue = <<>>
  /\ pc = "run" /\ db = None /\ next = None
  /\ strayed = FALSE /\ mixed = FALSE /\ cut = "none" /\ owed = {}

FlushAll ==
  \/ AllErase \/ AllErased
  \/ AllPick \/ AllNothing \/ AllWrite \/ AllFree \/ AllLoad \/ AllStore \/ AllMove \/ AllIdle
  \/ AllFreed \/ AllDone

\* It waits for norflash_api by having it perform what is queued.
Crashed == EndFlush \/ EndDone \/ (pc = "end" /\ FlashPerforms)

Next ==
  \/ \E fill \in {1, 2} : log_dump_output_handler(fill)
  \/ log_dump_flush
  \/ log_dump_flush_all \/ FlushAll
  \/ CrashStart \/ CrashEnd \/ Crashed
  \/ FlashPerforms
  \/ Reboot

Spec == Init /\ [][Next]_vars

\* The flush after a crash is all that runs.
FairSpec == Spec /\ WF_vars(Crashed)

---------------------------------------------------------------------------
\* The types of the variables; the positions stay within their rings.
TypeOK ==
  /\ buf \in [Buffers -> [state : BufferStates, fill : 0..2, seq : Int]]
  /\ w \in Buffers /\ f \in Buffers
  /\ sector \in Sectors /\ ragged \in BOOLEAN
  /\ flashState \in {"IDLE", "ERASED", "WRITTING"}
  /\ seqnum \in Nat /\ immediately \in BOOLEAN
  /\ flash \in [Sectors -> Int]
  /\ queue \in Seq([sec : Sectors, seq : Int])
  /\ pc \in {"run", "crash", "end", "dead"} \cup InThread
  /\ db \in Buffers \cup {None} /\ next \in Buffers \cup {None}
  /\ strayed \in BOOLEAN /\ mixed \in BOOLEAN
  /\ cut \in {"none", "run"} \cup InThread /\ owed \subseteq Int

\* Types, and the ASSERT "data_buff state error": only the buffer at w is being filled, so
\* the next one may be taken over whenever this one is full.
NextBufferUsable == TypeOK /\ \A i \in Buffers \ {w} : buf[i].state # "WRITTING"

\* The oldest buffer in use; the thread frees one just before it moves f past it.
Oldest == IF pc \in {"freed", "loaded"} THEN NextBuffer(f) ELSE f

\* The places from there up to w.
Waiting == {i \in Buffers : (i - Oldest) % NumBuffers < (w - Oldest) % NumBuffers}

\* log_dump_f_seqnum and log_dump_w_seqnum delimit what waits for the flash,
\* oldest first, until the buffer at w itself is flushed (a part of a sector, or
\* the oldest one when the ring is full and the writer is about to reuse it), a
\* thread's flush is overtaken by a whole round of traces, or a crash stops it
\* between freeing a buffer and moving f.
RingOrdered ==
  ~strayed => \A i \in Buffers \ {w} :
                buf[i].state = IF i \in Waiting THEN "WRITTEN" ELSE "FREE"

\* A sector is erased before it is programmed, or it holds the beginning of the
\* same buffer, unless a crash stopped the thread after a write and before it set
\* log_dump_flash_state back to IDLE.
ErasedBeforeWritten == [][mixed' = mixed \/ cut \in OnFlash]_vars

\* When the handler of a crash returns, every sector that was in memory at the
\* end of the dump is on the flash, whatever was queued, erased or half done.
\* There are two exceptions: the crash stopped log_dump_flush_all between freeing
\* a buffer and setting log_dump_flash_state back; or it did so just before, and
\* then the traces of the dump put another buffer in the place of the one written.
CrashLogStored ==
  pc = "dead" /\ cut \notin Halfway /\ ~(cut = "written" /\ mixed) =>
    owed \subseteq {flash[s] : s \in Sectors}

\* The handler of a crash does return, unless the ring was left out of order: its
\* loop waits for buffers that log_dump_f_seqnum does not point to.
CrashFlushEnds == (pc = "end" /\ ~strayed) ~> pc # "end"

\* The newest sector on the flash is never erased: not by the flush that goes
\* round the ring, and not after a boot that has to find it again, as long as
\* no two headers are mixed.
NewestKept ==
  [][ ~mixed' /\ Newest(flash) # None => flash'[Newest(flash)] # None ]_vars

\* Once a part of a sector has been flushed the offset stays inside it, and no
\* later flush, of any kind, reaches the flash before the next boot.
NothingAfterPartialFlush ==
  [][ flashState = "IDLE" /\ ragged =>
        Reboot \/ (UNCHANGED <<flashState, ragged, sector>> /\ Stored' = Stored) ]_vars
=============================================================================
