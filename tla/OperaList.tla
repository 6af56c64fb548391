------------------------------ MODULE OperaList -----------------------------
(***************************************************************************)
(* The linked lists of src/services/norflash_api/norflash_api.cpp: the     *)
(* pool opera_info_list, the next pointers, and the functions that walk    *)
(* and relink them while the interrupts are locked.  OperaQueue describes  *)
(* the same lists as sequences; here is what the pointers do.              *)
(*                                                                         *)
(* A slot keeps its fields and its next pointer when it is freed: only     *)
(* is_used changes.  A walk over a list that has become a ring never ends, *)
(* so the functions that walk a list are enabled only while it ends.       *)
(***************************************************************************)
EXTENDS OperaQueue, FiniteSets

CONSTANTS
  Mods,           \* the client modules, which share the pool
  Sectors,
  Owner,          \* Owner[s]: the module that registered sector s
  OpraLen,        \* NORFLASH_API_OPRA_LIST_LEN
  BuffLen,        \* NORFLASH_API_WRITE_BUFF_LEN
  AnyErase,       \* do clients erase whatever EraseIsSafe says?
  NULL

Slots == 1..OpraLen

ASSUME ListAssumption == /\ OpraLen \in Nat \ {0}
                         /\ BuffLen \in Nat
                         /\ Sectors # {}
                         /\ Owner \in [Sectors -> Mods]
                         /\ AnyErase \in BOOLEAN
                         /\ NULL \notin Slots

VARIABLES
  is_used,     \* is_used[i] of opera_info_list
  info,        \* type and addr of the node in slot i
  next,        \* its next pointer
  opera_info,  \* opera_info[m]: the newest node of module m
  cur,         \* cur_opera_info[m]: the node being performed, which is locked
  data_used    \* buffers of data_list in use

vars == <<is_used, info, next, opera_info, cur, data_used>>

Infos == [type : {"WRITTING", "ERASING"}, sec : Sectors]

TypeOK ==
  /\ is_used \in [Slots -> BOOLEAN]
  /\ info \in [Slots -> Infos]
  /\ next \in [Slots -> Slots \cup {NULL}]
  /\ opera_info \in [Mods -> Slots \cup {NULL}]
  /\ cur \in [Mods -> Slots \cup {NULL}]
  /\ data_used \in 0..BuffLen

Init ==
  /\ is_used = [i \in Slots |-> FALSE]
  /\ info = [i \in Slots |-> CHOOSE f \in Infos : TRUE]
  /\ next = [i \in Slots |-> NULL]
  /\ opera_info = [m \in Mods |-> NULL]
  /\ cur = [m \in Mods |-> NULL]
  /\ data_used = 0

-----------------------------------------------------------------------------
(***************************************************************************)
(* Walking a list.                                                         *)
(***************************************************************************)

\* The first OpraLen + 1 places a walk from slot i along the pointers nx visits.
Walk(nx, i) ==
  LET at[k \in 1..(OpraLen + 1)] ==
        IF k = 1 THEN i ELSE IF at[k - 1] = NULL THEN NULL ELSE nx[at[k - 1]]
  IN  at

\* A list with no end comes back to one of its nodes within OpraLen places.
Ends(m) == Walk(next, opera_info[m])[OpraLen + 1] = NULL

Nodes(m) == {Walk(next, opera_info[m])[k] : k \in 1..OpraLen} \ {NULL}

\* A list that ends, as OperaQueue has it: the walk visits its newest node first.
QueueFrom(nx, i) ==
  LET at == Walk(nx, i)
      len == Cardinality({k \in DOMAIN at : at[k] # NULL})
  IN  [k \in 1..len |-> info[at[len + 1 - k]]]

Queue(m) == QueueFrom(next, opera_info[m])

Tails(m) == {i \in Nodes(m) : next[i] = NULL}

\* _norflash_api_malloc: the first slot that is not used.
Free(used) == {i \in Slots : ~used[i]}
FirstFree(used) == CHOOSE i \in Free(used) : \A j \in Free(used) : i <= j

\* A new node at the front of m's list, in the lists as they are in w.
PushFront(w, m, f) ==
  LET i == FirstFree(w.is_used)
  IN  /\ is_used' = [w.is_used EXCEPT ![i] = TRUE]
      /\ info' = [info EXCEPT ![i] = f]
      /\ next' = [w.next EXCEPT ![i] = w.head]
      /\ opera_info' = [opera_info EXCEPT ![m] = i]

-----------------------------------------------------------------------------
(***************************************************************************)
(* _e_opera_add.  One turn of its loop at node w.tmp: an unlocked node of  *)
(* the sector is unlinked and freed, a locked erase ends the walk.         *)
(* pre_node becomes the node just visited, also when that node was freed.  *)
(***************************************************************************)
Matches(w, s) == info[w.tmp].sec = s

\* Deliberately wrong: the node is freed and its predecessor still points to it.
UnlinkFirstOnly(w) ==
  [w EXCEPT !.head = IF w.tmp = w.head THEN next[w.tmp] ELSE @,
            !.is_used = [@ EXCEPT ![w.tmp] = FALSE],
            !.freed = IF info[w.tmp].type = "WRITTING" THEN @ + 1 ELSE @]

Unlink(w) ==
  [w EXCEPT !.head = IF w.tmp = w.head THEN next[w.tmp] ELSE @,
            !.next = IF w.tmp = w.head THEN @ ELSE [@ EXCEPT ![w.pre] = w.next[w.tmp]],
            !.is_used = [@ EXCEPT ![w.tmp] = FALSE],
            !.freed = IF info[w.tmp].type = "WRITTING" THEN @ + 1 ELSE @]

\* Deliberately wrong: the newest node is taken for the predecessor.
AdvanceToTail(w, old) == [w EXCEPT !.tmp = old.next[old.tmp], !.pre = old.head]

Advance(w, old) ==
  [w EXCEPT !.tmp = old.next[old.tmp],
            !.pre = IF old.next[old.tmp] # NULL THEN old.tmp ELSE @]

\* Deliberately wrong: the lock is ignored.
EraseTurnIgnoresLock(w, m, s) ==
  IF w.tmp = NULL THEN w
  ELSE IF Matches(w, s) THEN Advance(Unlink(w), w)
  ELSE Advance(w, w)

EraseTurn(w, m, s) ==
  IF w.tmp = NULL \/ w.merged THEN w
  ELSE IF Matches(w, s) /\ w.tmp # cur[m] THEN Advance(Unlink(w), w)
  ELSE IF Matches(w, s) /\ info[w.tmp].type = "ERASING" THEN [w EXCEPT !.merged = TRUE]
  ELSE Advance(w, w)

EraseWalk(m, s) ==
  LET start == [tmp |-> opera_info[m], pre |-> opera_info[m], head |-> opera_info[m],
                next |-> next, is_used |-> is_used, freed |-> 0, merged |-> FALSE]
      turns[k \in 0..OpraLen] == IF k = 0 THEN start ELSE EraseTurn(turns[k - 1], m, s)
  IN  turns[OpraLen]

E_opera_add(s) ==
  LET m == Owner[s]
      w == EraseWalk(m, s)
  IN  /\ Ends(m)
      /\ AnyErase \/ EraseIsSafe(Queue(m), cur[m] # NULL, s)
      /\ data_used' = data_used - w.freed
      /\ IF w.merged \/ Free(w.is_used) = {}
         THEN /\ is_used' = w.is_used
              /\ next' = w.next
              /\ opera_info' = [opera_info EXCEPT ![m] = w.head]
              /\ UNCHANGED info
         ELSE PushFront(w, m, [type |-> "ERASING", sec |-> s])
      /\ UNCHANGED cur

\* _w_opera_add: nothing is relinked; a write that is not merged is a new node
\* with a buffer, or is refused for want of either.
W_opera_add(s) ==
  LET m == Owner[s]
      w == [head |-> opera_info[m], next |-> next, is_used |-> is_used]
  IN  /\ Ends(m)
      /\ ~WriteMerged(Queue(m), cur[m] # NULL, s)
      /\ Free(is_used) # {}
      /\ data_used < BuffLen
      /\ PushFront(w, m, [type |-> "WRITTING", sec |-> s])
      /\ data_used' = data_used + 1
      /\ UNCHANGED cur

\* _opera_flush with _get_tail: the oldest node becomes the current one and stays
\* so while it is suspended.
FlushSuspended(m) ==
  /\ Ends(m)
  /\ opera_info[m] # NULL
  /\ cur[m] = NULL
  /\ \E i \in Tails(m) : cur' = [cur EXCEPT ![m] = i]
  /\ UNCHANGED <<is_used, info, next, opera_info, data_used>>

\* Deliberately wrong: the node stays on the list when it is freed.
FlushCompletedNotCut(m) ==
  /\ Ends(m)
  /\ opera_info[m] # NULL
  /\ \E i \in IF cur[m] # NULL THEN {cur[m]} ELSE Tails(m) :
       /\ i \in Nodes(m)
       /\ opera_info' = [opera_info EXCEPT ![m] = IF @ = i THEN NULL ELSE @]
       /\ is_used' = [is_used EXCEPT ![i] = FALSE]
       /\ data_used' = IF info[i].type = "WRITTING" THEN data_used - 1 ELSE data_used
  /\ cur' = [cur EXCEPT ![m] = NULL]
  /\ UNCHANGED <<info, next>>

\* Deliberately wrong: the list is cut and the node is not freed.
FlushCompletedLeaks(m) ==
  /\ Ends(m)
  /\ opera_info[m] # NULL
  /\ \E i \in IF cur[m] # NULL THEN {cur[m]} ELSE Tails(m) :
       /\ i \in Nodes(m)
       /\ IF opera_info[m] = i
          THEN opera_info' = [opera_info EXCEPT ![m] = NULL] /\ UNCHANGED next
          ELSE /\ next' = [j \in Slots |->
                             IF j \in Nodes(m) /\ next[j] = i THEN NULL ELSE next[j]]
               /\ UNCHANGED opera_info
  /\ cur' = [cur EXCEPT ![m] = NULL]
  /\ UNCHANGED <<info, is_used, data_used>>

\* _opera_flush when the operation is completed, with _opera_del: the list is cut
\* in front of the node, wherever that is.
FlushCompleted(m) ==
  /\ Ends(m)
  /\ opera_info[m] # NULL
  /\ \E i \in IF cur[m] # NULL THEN {cur[m]} ELSE Tails(m) :
       /\ i \in Nodes(m)
       /\ IF opera_info[m] = i
          THEN opera_info' = [opera_info EXCEPT ![m] = NULL] /\ UNCHANGED next
          ELSE /\ next' = [j \in Slots |->
                             IF j \in Nodes(m) /\ next[j] = i THEN NULL ELSE next[j]]
               /\ UNCHANGED opera_info
       /\ is_used' = [is_used EXCEPT ![i] = FALSE]
       /\ data_used' = IF info[i].type = "WRITTING" THEN data_used - 1 ELSE data_used
  /\ cur' = [cur EXCEPT ![m] = NULL]
  /\ UNCHANGED info

Next ==
  \/ \E s \in Sectors : E_opera_add(s) \/ W_opera_add(s)
  \/ \E m \in Mods : FlushSuspended(m) \/ FlushCompleted(m)

Spec == Init /\ [][Next]_vars

-----------------------------------------------------------------------------
(***************************************************************************)
(* What must hold.                                                         *)
(***************************************************************************)

\* Every link leads to a node of the pool or to NULL, the pools are not exceeded, and
\* no list is a ring: a walk over it with the interrupts locked ends.
ListsEnd == TypeOK /\ \A m \in Mods : Ends(m)

\* "delete opera nodes with the same address when add the erase opera node.": a
\* node that has been freed is not on any list.
NoFreedNodeListed == \A m \in Mods : \A i \in Nodes(m) : is_used[i]

\* The pool is neither leaked nor shared: a used slot is on exactly one list.
UsedOnOneList ==
  \A i \in Slots : is_used[i] =>
    \E m \in Mods : i \in Nodes(m) /\ \A o \in Mods \ {m} : i \notin Nodes(o)

\* The node being performed stays the last of its module's list, so that cutting
\* the list in front of it removes that node alone.
CurIsTail == \A m \in Mods : cur[m] # NULL => Tails(m) = {cur[m]}

\* The pointers do what OperaQueue says of the sequence: whatever the state, the
\* walk of _e_opera_add for a sector leaves the list without its pending nodes.
EraseWalkDeletesPending ==
  \A s \in Sectors :
    LET m == Owner[s]
        w == EraseWalk(m, s)
    IN  EraseIsSafe(Queue(m), cur[m] # NULL, s) =>
          /\ QueueFrom(w.next, w.head) = DeletePending(Queue(m), cur[m] # NULL, s)
          /\ w.merged = EraseMerged(Queue(m), cur[m] # NULL, s)
=============================================================================
