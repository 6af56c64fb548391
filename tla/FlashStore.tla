----------------------------- MODULE FlashStore -----------------------------
(***************************************************************************)
(* What src/services/norflash_api promises its clients: sectors that are   *)
(* erased and written at once, however the flash is busy, suspended or     *)
(* queued behind.  NorflashApi implements this specification twice: with   *)
(* store the contents norflash_api_read returns, and with store the        *)
(* contents the flash will have once everything queued has reached it.     *)
(***************************************************************************)
EXTENDS Naturals

CONSTANTS Sectors, NumCells, Values, Blank

VARIABLE store

Erased == [c \in 1..NumCells |-> Blank]

Init == store = [s \in Sectors |-> Erased]

Erase(s) == store' = [store EXCEPT ![s] = Erased]

\* Only erased pages are written: the rest of the sector keeps its contents.
Write(s, lo, hi, v) ==
  /\ \A c \in lo..hi : store[s][c] = Blank
  /\ store' = [store EXCEPT ![s] =
                 [c \in 1..NumCells |-> IF c \in lo..hi THEN v ELSE @[c]]]

Next == \E s \in Sectors :
          \/ Erase(s)
          \/ \E lo, hi \in 1..NumCells, v \in Values : Write(s, lo, hi, v)

Spec == Init /\ [][Next]_store
=============================================================================
