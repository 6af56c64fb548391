---------------------------- MODULE HalNorflash -----------------------------
(***************************************************************************)
(* The NOR flash as the driver src/platform/hal/hal_norflash.c presents it *)
(* when it is built with FLASH_SUSPEND: a sector is erased, a range of     *)
(* pages is programmed, and either operation may come back SUSPENDED       *)
(* because an interrupt wants the bus, to be resumed later.  The driver    *)
(* keeps ONE suspended operation for the whole chip.                       *)
(*                                                                         *)
(* A sector is an image: one content per cell, a cell standing for a       *)
(* program page.  Programming can only clear bits, so a page that is       *)
(* programmed with two different values ends up with their AND, which is   *)
(* neither: Mixed.  A page being erased is Mixed as well until the erase   *)
(* is over.                                                                *)
(***************************************************************************)
EXTENDS Integers, Sequences

CONSTANTS
  Sectors,    \* the flash sectors
  NumCells,   \* program pages per sector
  Values,     \* what a client programs into a page
  Blank,      \* an erased page, all 0xff
  Mixed,      \* neither erased nor a value some client wrote
  NoSector    \* op_next_addr while nothing is suspended

ASSUME CellsAssumption == NumCells \in Nat \ {0}
ASSUME ContentAssumption == /\ Blank \notin Values
                            /\ Mixed \notin Values
                            /\ Mixed # Blank
ASSUME SectorAssumption == NoSector \notin Sectors

VARIABLES
  flash,   \* flash[s][c]: what page c of sector s holds
  hal      \* suspend_state, with op_next_addr as a sector and a page

halVars == <<flash, hal>>

Cells == 1..NumCells
Contents == Values \cup {Blank, Mixed}
Images == [Cells -> Contents]
ErasedImage == [c \in Cells |-> Blank]
TornImage == [c \in Cells |-> Mixed]

(***************************************************************************)
(* What a page holds once everything in K has been programmed into it: the *)
(* AND of all of it.  0xff clears no bit.                                  *)
(***************************************************************************)
Wired(K) ==
  LET written == K \ {Blank}
  IN  IF written = {} THEN Blank
      ELSE IF \E v \in Values : written = {v}
           THEN CHOOSE v \in Values : written = {v}
           ELSE Mixed

\* The image after pages lo..hi are programmed from buf.
Program(image, buf, lo, hi) ==
  [c \in Cells |-> IF c \in lo..hi THEN Wired({image[c], buf[c]}) ELSE image[c]]

-----------------------------------------------------------------------------
(***************************************************************************)
(* The driver.  result is what the function returns; suspend is the        *)
(* argument that permits a suspension.                                     *)
(***************************************************************************)
SuspendStates == {"NONE", "ERASE", "PROGRAM"}

HalStates == [state : SuspendStates, sec : Sectors \cup {NoSector},
              next : 0..NumCells, last : 0..NumCells]

NotSuspended == [state |-> "NONE", sec |-> NoSector, next |-> 0, last |-> 0]

HalTypeOK == /\ flash \in [Sectors -> Images]
             /\ hal \in HalStates

HalInit == /\ flash \in [Sectors -> {ErasedImage}]
           /\ hal = NotSuspended

\* hal_norflash_erase_int: the sector is erased, or the erase is cut short
\* and its pages hold anything.
EraseInt(s, suspend, result) ==
  \/ /\ result = "OK"
     /\ flash' = [flash EXCEPT ![s] = ErasedImage]
     /\ hal' = NotSuspended
  \/ /\ suspend
     /\ result = "SUSPENDED"
     /\ flash' = [flash EXCEPT ![s] = TornImage]
     /\ hal' = [state |-> "ERASE", sec |-> s, next |-> 0, last |-> 0]

BadOp(result) == result = "BAD_OP" /\ UNCHANGED halVars

\* hal_norflash_erase_suspend; hal_norflash_erase is the call with suspend FALSE.
HalErase(s, suspend, result) ==
  IF hal.state = "NONE" THEN EraseInt(s, suspend, result) ELSE BadOp(result)

HalEraseResume(suspend, result) ==
  IF hal.state = "ERASE" THEN EraseInt(hal.sec, suspend, result) ELSE BadOp(result)

\* hal_norflash_write_int from page "from" on: every page up to hi is programmed,
\* or the operation stops in page k, which is done when it is resumed.
WriteInt(s, buf, from, hi, suspend, result) ==
  \/ /\ result = "OK"
     /\ flash' = [flash EXCEPT ![s] = Program(@, buf, from, hi)]
     /\ hal' = NotSuspended
  \/ /\ suspend
     /\ result = "SUSPENDED"
     /\ \E k \in from..hi :
          /\ flash' = [flash EXCEPT ![s] = Program(@, buf, from, k - 1)]
          /\ hal' = [state |-> "PROGRAM", sec |-> s, next |-> k, last |-> hi]

HalWrite(s, buf, lo, hi, suspend, result) ==
  IF hal.state = "NONE" THEN WriteInt(s, buf, lo, hi, suspend, result)
                        ELSE BadOp(result)

\* The driver remembers where it stopped, how much remains, and the caller's
\* buffer by its address (op_next_buf): buf is what that memory holds by the
\* time the write is resumed.
HalWriteResume(buf, suspend, result) ==
  IF hal.state = "PROGRAM"
  THEN WriteInt(hal.sec, buf, hal.next, hal.last, suspend, result)
  ELSE BadOp(result)
=============================================================================
