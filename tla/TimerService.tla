--------------------------- MODULE TimerService -----------------------------
(***************************************************************************)
(* What src/utils/hwtimer_list promises its clients, without lists, deltas *)
(* or hardware: a timer that was started calls its client back once, one   *)
(* client at a time, unless it is stopped first; a timer whose callback is *)
(* running cannot be stopped, only started anew.  HwTimer implements it.   *)
(***************************************************************************)
CONSTANTS Timers, NoTimer

VARIABLES running,   \* the timers that were started and have not called back
          calling    \* the timer whose callback is running

Init == running = {} /\ calling = NoTimer

Start(t) == t \notin running /\ running' = running \cup {t} /\ UNCHANGED calling

\* The timer whose callback runs is running only if it was started again.
Stop(t) == t \in running /\ running' = running \ {t} /\ UNCHANGED calling

\* The handler goes from one callback to the next without a pause.
CallBack(t) == t \in running /\ running' = running \ {t} /\ calling' = t

Finish == calling # NoTimer /\ calling' = NoTimer /\ UNCHANGED running

Next ==
  \/ Finish
  \/ \E t \in Timers : Start(t) \/ Stop(t) \/ CallBack(t)

\* The steps the service may take.
SafeSpec == Init /\ [][Next]_<<running, calling>>

\* Every timer that is running calls back or is stopped.
Served == \A t \in Timers : t \in running ~> t \notin running

Spec == SafeSpec /\ Served
=============================================================================
