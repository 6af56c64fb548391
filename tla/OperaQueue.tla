----------------------------- MODULE OperaQueue -----------------------------
(***************************************************************************)
(* The list of pending operations of one client module of                  *)
(* src/services/norflash_api, as a sequence with the oldest node first.    *)
(* The source links the nodes from the newest to the oldest; OperaList     *)
(* models those links and checks that they implement these operators.      *)
(*                                                                         *)
(* A node is a record with at least the fields type ("WRITTING" or         *)
(* "ERASING") and sec, its sector (opera_info->addr).  locked says that    *)
(* the oldest node is cur_opera_info and has its lock set.                 *)
(***************************************************************************)
EXTENDS Naturals, Sequences

Newest(I) == CHOOSE i \in I : \A j \in I : j <= i

RemoveIndex(q, i) == SubSeq(q, 1, i - 1) \o SubSeq(q, i + 1, Len(q))

\* The places of a sector's nodes, and of those that may still be changed.
On(q, s) == {i \in 1..Len(q) : q[i].sec = s}

\* Deliberately wrong: the lock is ignored.
UnlockedIgnoresLock(q, locked, s) == On(q, s)

Unlocked(q, locked, s) == {i \in On(q, s) : ~(locked /\ i = 1)}

Writes(q) == {i \in 1..Len(q) : q[i].type = "WRITTING"}

\* One deletion of the walk in _e_opera_add, which meets the newest node first.
DeleteNewest(q, locked, s) ==
  IF Unlocked(q, locked, s) = {} THEN q
  ELSE RemoveIndex(q, Newest(Unlocked(q, locked, s)))

\* The whole walk: at most an erase and the write behind it are unlocked
\* (EraseWalkDeletesPending of OperaList compares it with the code's loop).
DeletePending(q, locked, s) == DeleteNewest(DeleteNewest(q, locked, s), locked, s)

\* The erase of s is being performed already: a new one is merged into it.
EraseMerged(q, locked, s) ==
  locked /\ Len(q) > 0 /\ q[1].sec = s /\ q[1].type = "ERASING"

\* Deliberately wrong: a write is merged into the node that is being performed.
StopsAtLocked(q, locked, s) == On(q, s)

\* The nodes at which the walk of _w_opera_add for sector s stops: an erase, or
\* a write that is not being performed.
Stops(q, locked, s) ==
  {i \in On(q, s) : q[i].type = "ERASING" \/ i \in Unlocked(q, locked, s)}

\* The walk of _w_opera_add finds a write it can merge the new one into.
WriteMerged(q, locked, s) ==
  /\ Stops(q, locked, s) # {}
  /\ q[Newest(Stops(q, locked, s))].type = "WRITTING"

(***************************************************************************)
(* What no client in the repository does: erase a sector again while its   *)
(* erase and its write are both still pending, with another operation      *)
(* queued after them.  The walk of _e_opera_add then keeps the node it has *)
(* just freed as the predecessor of the next one.                          *)
(***************************************************************************)
EraseIsSafe(q, locked, s) ==
  ~ \E i \in 1..Len(q) : /\ i + 2 <= Len(q)
                         /\ {i, i + 1} \subseteq Unlocked(q, locked, s)
=============================================================================
