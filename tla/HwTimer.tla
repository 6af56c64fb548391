------------------------------ MODULE HwTimer -------------------------------
(***************************************************************************)
(* src/utils/hwtimer_list/hwtimer_list.c over the one-shot hardware timer  *)
(* of src/platform/hal/hal_timer.c: many software timers on one hardware   *)
(* timer.  The active timers are a delta list: the first one's time is     *)
(* what the hardware was loaded with, each other one's is counted from the *)
(* expiry of the one before it.                                            *)
(*                                                                         *)
(* Every operation holds int_lock from its first test to its return and is *)
(* one action.  The interrupt handler gives the lock up around a callback: *)
(* threads cannot run then, the callback itself and interrupts of a higher *)
(* priority can, and so can they before the handler gets the lock at all.  *)
(***************************************************************************)
EXTENDS Integers, Sequences, FiniteSets, SequencesExt, FiniteSetsExt

CONSTANTS
  Timers,      \* hwtimer_list.timer
  NoTimer,
  Durations,   \* the ticks clients ask for
  MaxLatency,  \* ticks the interrupt may be held off; time waits at the bound
  MaxDrift     \* bound: no start and no stop while an active timer has drifted by that much

LoadDelta == 1  \* HAL_TIMER_LOAD_DELTA

ASSUME HwTimerAssumption ==
  /\ NoTimer \notin Timers
  /\ Durations \subseteq Nat
  /\ MaxLatency \in Nat
  /\ MaxDrift \in Nat

VARIABLES
  state,    \* of each timer; those in state FREE make up hwtimer_list.free
  time,     \* of each timer: its delta; 0 outside the active list
  active,   \* hwtimer_list.active
  fired,    \* hwtimer_list.fired
  handler,  \* the interrupt handler: "idle", "entered" (before int_lock) or
            \* "callback" (between int_unlock and int_lock)
  current,  \* `last`, the timer the handler is calling back
  hw,       \* TIMER01: enabled, value, fresh (the load has not reached the
            \* counter), irq pending, elapsed since start_time
  left,     \* auxiliary: ticks an active timer has left of what was asked
  drift,    \* auxiliary: ticks by which loading the hardware may be off for it
  ahead     \* auxiliary: ticks the first timer was overdue when it was started

vars == <<state, time, active, fired, handler, current, hw, left, drift, ahead>>

States == {"FREE", "ALLOC", "ACTIVE", "FIRED", "CALLBACK"}

Max2(a, b) == IF a >= b THEN a ELSE b

---------------------------------------------------------------------------
(* The hardware timer.                                                      *)

Stopped == [enabled |-> FALSE, value |-> 0, fresh |-> FALSE, irq |-> FALSE, elapsed |-> 0]

\* hal_timer_start: hal_timer_reload takes LoadDelta off what it loads.  An
\* interrupt that is pending stays so.
Loaded(h, ticks) ==
  [h EXCEPT !.enabled = TRUE, !.value = Max2(ticks - LoadDelta, 1), !.fresh = TRUE,
            !.elapsed = 0]

\* What the hardware was started for.
DueAfter == IF active = <<>> THEN 0 ELSE time[active[1]]

\* The first tick may find the counter not loaded yet: that is LoadDelta.
Tick ==
  /\ hw.enabled
  /\ hw.elapsed <= DueAfter + MaxLatency
  /\ \E held \in {0, 1} :
       /\ held = 1 => hw.fresh
       /\ LET v == IF hw.value = 0 THEN 0 ELSE hw.value - 1 + held
          IN hw' = [hw EXCEPT !.value = v, !.fresh = FALSE,
                              !.irq = @ \/ (hw.value > 0 /\ v = 0),
                              !.elapsed = @ + 1]
  /\ left' = [t \in Timers |-> IF state[t] = "ACTIVE" THEN left[t] - 1 ELSE left[t]]
  /\ UNCHANGED <<state, time, active, fired, handler, current, drift, ahead>>

---------------------------------------------------------------------------
(* The delta list.                                                          *)

\* What the timers after the first add up to, as far as place j.
UpTo(j) ==
  LET sum[i \in 1..Len(active)] == IF i = 1 THEN 0 ELSE sum[i - 1] + time[active[i]]
  IN sum[j]

\* Ticks the first timer is overdue, by hal_timer_get_elapsed_time.
Overrun == Max2(hw.elapsed - DueAfter, 0)

\* The places up to the first timer an overrun does not reach.
Reached(over) == {1} \cup {j \in 2..Len(active) : UpTo(j) <= over}

\* The walk that spends an overrun on the timers after the first one.
Spent(over) ==
  [t \in Timers |->
     IF \E j \in 2..Len(active) : active[j] = t
     THEN LET j == CHOOSE i \in 2..Len(active) : active[i] = t
          IN Max2(UpTo(j), over) - Max2(UpTo(j - 1), over)
     ELSE IF t = active[1] THEN 0 ELSE time[t]]

\* Ticks by which a first timer that is not due yet will be late, because it was
\* started for less than the hardware can wait.
Foreseen ==
  IF hw.value = 0 THEN 0
  ELSE Max2(hw.elapsed + hw.value + (IF hw.fresh THEN LoadDelta ELSE 0) - DueAfter, 0)

\* Ticks the interrupt of the first timer has been held off.
HeadStart == IF active # <<>> /\ hw.value = 0 THEN Overrun ELSE 0

\* Every load may fall short by LoadDelta for the timers that wait behind it.
Drifted(ts) == [t \in Timers |-> IF t \in ts THEN drift[t] + LoadDelta ELSE drift[t]]

---------------------------------------------------------------------------
(* The operations.                                                          *)

\* The auxiliary variables when a timer starts to wait, and when it no longer does.
Asks(t, ticks) ==
  left' = [left EXCEPT ![t] = ticks] /\ ahead' = [ahead EXCEPT ![t] = HeadStart]

Ends(t) == left' = [left EXCEPT ![t] = 0] /\ ahead' = [ahead EXCEPT ![t] = 0]

Forget(t) == Ends(t) /\ drift' = [drift EXCEPT ![t] = 0]

MayOperate == \A t \in ToSet(active) : drift[t] < MaxDrift

hwtimer_alloc(t) ==
  /\ state[t] = "FREE"
  /\ state' = [state EXCEPT ![t] = "ALLOC"]
  /\ UNCHANGED <<time, active, fired, handler, current, hw, left, drift, ahead>>

hwtimer_free(t) ==
  /\ state[t] = "ALLOC"
  /\ state' = [state EXCEPT ![t] = "FREE"]
  /\ UNCHANGED <<time, active, fired, handler, current, hw, left, drift, ahead>>

\* No timer is active: the hardware is started.
StartFirst(t, ticks) ==
  /\ active = <<>>
  /\ active' = <<t>>
  /\ time' = [time EXCEPT ![t] = ticks]
  /\ hw' = Loaded(hw, ticks)
  /\ drift' = [drift EXCEPT ![t] = LoadDelta]

\* The new timer is due before the one the hardware is running for.
StartBefore(t, ticks) ==
  /\ active # <<>> /\ hw.value > ticks
  /\ active' = <<t>> \o active
  /\ time' = [time EXCEPT ![active[1]] = hw.value - ticks, ![t] = ticks]
  /\ hw' = Loaded(Stopped, ticks)
  /\ drift' = [Drifted(ToSet(active)) EXCEPT ![t] = LoadDelta]

\* The new timer takes its place behind the first one.  hal_timer_get says how
\* long that one still takes, 0 when it is overdue, but the handler will count
\* its overrun from when it was due: the new timer has a head start.
StartBehind(t, ticks) ==
  /\ active # <<>> /\ hw.value <= ticks
  /\ LET rest == ticks - hw.value
         after == {j \in 2..Len(active) : UpTo(j) >= rest}
         at == IF after = {} THEN Len(active) + 1 ELSE Min(after)
         delta == rest - UpTo(at - 1)
     IN /\ active' = InsertAt(active, at, t)
        /\ time' = [u \in Timers |->
                      IF u = t THEN delta
                      ELSE IF after # {} /\ u = active[at] THEN time[u] - delta
                      ELSE time[u]]
  /\ drift' = [drift EXCEPT ![t] = Foreseen]
  /\ UNCHANGED hw

\* __hwtimer_start_int
hwtimer_start(t, asked) ==
  /\ MayOperate
  /\ state[t] \in {"ALLOC", "CALLBACK"}
  /\ state' = [state EXCEPT ![t] = "ACTIVE"]
  /\ LET ticks == Max2(asked, LoadDelta)
     IN /\ StartFirst(t, ticks) \/ StartBefore(t, ticks) \/ StartBehind(t, ticks)
        /\ Asks(t, ticks)
  /\ UNCHANGED <<fired, handler, current>>

\* Deliberately wrong: leaves the hardware running.
StopFirstKeepsHw(t) ==
  /\ active # <<>> /\ t = active[1]
  /\ active' = Tail(active)
  /\ time' = IF hw.value = 0 THEN Spent(Overrun)
             ELSE [u \in Timers |->
                     IF u = t THEN 0
                     ELSE IF Len(active) > 1 /\ u = active[2] THEN time[u] + hw.value
                     ELSE time[u]]
  /\ drift' = [Drifted(ToSet(active')) EXCEPT ![t] = 0]
  /\ UNCHANGED hw

\* The hardware is set to the timer after the one that is stopped.
StopFirst(t) ==
  /\ active # <<>> /\ t = active[1]
  /\ active' = Tail(active)
  /\ time' = IF hw.value = 0 THEN Spent(Overrun)
             ELSE [u \in Timers |->
                     IF u = t THEN 0
                     ELSE IF Len(active) > 1 /\ u = active[2] THEN time[u] + hw.value
                     ELSE time[u]]
  /\ hw' = IF active' = <<>> THEN Stopped ELSE Loaded(Stopped, time'[active'[1]])
  /\ drift' = [Drifted(ToSet(active')) EXCEPT ![t] = 0]

\* Deliberately wrong: the next timer loses the time of the one that is stopped.
StopBehindLosesTime(t) ==
  /\ \E j \in 2..Len(active) :
       /\ active[j] = t
       /\ time' = [time EXCEPT ![t] = 0]
       /\ active' = RemoveAt(active, j)
  /\ drift' = [drift EXCEPT ![t] = 0]
  /\ UNCHANGED hw

StopBehind(t) ==
  /\ \E j \in 2..Len(active) :
       /\ active[j] = t
       /\ time' = [u \in Timers |->
                     IF u = t THEN 0
                     ELSE IF j < Len(active) /\ u = active[j + 1] THEN time[u] + time[t]
                     ELSE time[u]]
       /\ active' = RemoveAt(active, j)
  /\ drift' = [drift EXCEPT ![t] = 0]
  /\ UNCHANGED hw

\* hwtimer_stop of an active timer.
StopActive(t) ==
  /\ MayOperate
  /\ state[t] = "ACTIVE"
  /\ state' = [state EXCEPT ![t] = "ALLOC"]
  /\ Ends(t)
  /\ StopFirst(t) \/ StopBehind(t)
  /\ UNCHANGED <<fired, handler, current>>

\* Deliberately wrong: leaves the timer on the list.
StopFiredStaysListed(t) ==
  /\ state[t] = "FIRED"
  /\ state' = [state EXCEPT ![t] = "ALLOC"]
  /\ Forget(t)
  /\ UNCHANGED <<time, active, fired, handler, current, hw>>

\* hwtimer_stop of a timer whose callback is still to come.
StopFired(t) ==
  /\ state[t] = "FIRED"
  /\ state' = [state EXCEPT ![t] = "ALLOC"]
  /\ \E j \in 1..Len(fired) : fired[j] = t /\ fired' = RemoveAt(fired, j)
  /\ Forget(t)
  /\ UNCHANGED <<time, active, handler, current, hw>>

---------------------------------------------------------------------------
(* The interrupt.                                                           *)

\* hal_timer01_irq_handler clears the interrupt before it calls the handler.
hal_timer01_irq_handler ==
  /\ hw.irq /\ handler = "idle"
  /\ hw' = [hw EXCEPT !.irq = FALSE]
  /\ handler' = "entered"
  /\ UNCHANGED <<state, time, active, fired, current, left, drift, ahead>>

\* Deliberately wrong: only knows the interrupt without an active timer.
EarlyIfEmpty == active = <<>>

\* The timer the interrupt was for has been stopped in the meantime.
Early == active # <<>> => time[active[1]] > hw.elapsed + LoadDelta

HandlerEarly ==
  /\ handler = "entered" /\ Early
  /\ handler' = "idle"
  /\ UNCHANGED <<state, time, active, fired, current, hw, left, drift, ahead>>

\* Every timer that is due is moved to the fired list, the hardware is set for
\* the next one, and the first callback is called.  The interrupt may have been
\* for a timer that was stopped: a tick the counter still has is given away.
HandlerFires ==
  /\ handler = "entered" /\ ~Early
  /\ LET n == Max(Reached(Overrun))
         due == SubSeq(active, 1, n)
         rest == SubSeq(active, n + 1, Len(active))
     IN /\ state' = [t \in Timers |-> IF t = due[1] THEN "CALLBACK"
                                      ELSE IF t \in ToSet(due) THEN "FIRED"
                                      ELSE state[t]]
        /\ active' = rest
        /\ fired' = Tail(due)
        /\ current' = due[1]
        /\ time' = Spent(Overrun)
        /\ hw' = IF rest = <<>> THEN Stopped ELSE Loaded(hw, time'[rest[1]])
        /\ drift' = [t \in Timers |->
                       drift[t] + (IF t \in ToSet(active) /\ hw.value > 0 THEN LoadDelta ELSE 0)
                                + (IF t \in ToSet(rest) THEN LoadDelta ELSE 0)]
  /\ handler' = "callback"
  /\ UNCHANGED <<left, ahead>>

Forgotten ==
  IF state[current] = "CALLBACK" THEN Forget(current) ELSE UNCHANGED <<left, drift, ahead>>

\* Deliberately wrong: drops the timers that fired together with the first one.
CallbackReturnsOnce ==
  /\ handler = "callback"
  /\ state' = [t \in Timers |-> IF state[t] \in {"CALLBACK", "FIRED"} THEN "ALLOC"
                                ELSE state[t]]
  /\ fired' = <<>> /\ handler' = "idle" /\ current' = NoTimer
  /\ Forgotten
  /\ UNCHANGED <<time, active, hw>>

\* The callback returns: the next fired timer's is called, or the handler ends.
CallbackReturns ==
  /\ handler = "callback"
  /\ LET ended == [state EXCEPT ![current] = IF @ = "CALLBACK" THEN "ALLOC" ELSE @]
     IN IF fired = <<>>
        THEN /\ state' = ended /\ handler' = "idle" /\ current' = NoTimer
             /\ UNCHANGED fired
        ELSE /\ state' = [ended EXCEPT ![fired[1]] = "CALLBACK"]
             /\ current' = fired[1] /\ fired' = Tail(fired)
             /\ UNCHANGED handler
  /\ Forgotten
  /\ UNCHANGED <<time, active, hw>>

---------------------------------------------------------------------------
Init ==
  /\ state = [t \in Timers |-> "FREE"]
  /\ time = [t \in Timers |-> 0]
  /\ active = <<>> /\ fired = <<>>
  /\ handler = "idle" /\ current = NoTimer
  /\ hw = Stopped
  /\ left = [t \in Timers |-> 0] /\ drift = [t \in Timers |-> 0]
  /\ ahead = [t \in Timers |-> 0]

Handler == hal_timer01_irq_handler \/ HandlerEarly \/ HandlerFires \/ CallbackReturns

Next ==
  \/ Tick
  \/ Handler
  \/ \E t \in Timers : \/ hwtimer_alloc(t) \/ hwtimer_free(t)
                       \/ \E ticks \in Durations : hwtimer_start(t, ticks)
                       \/ StopActive(t) \/ StopFired(t)

Spec == Init /\ [][Next]_vars

\* Time passes, a pending interrupt is taken and callbacks return.
FairSpec == Spec /\ WF_vars(Tick) /\ WF_vars(Handler)

---------------------------------------------------------------------------
\* The types of the variables; no delta and no counter becomes negative.
TypeOK ==
  /\ state \in [Timers -> States]
  /\ time \in [Timers -> Nat]
  /\ active \in Seq(Timers) /\ fired \in Seq(Timers)
  /\ handler \in {"idle", "entered", "callback"}
  /\ current \in Timers \cup {NoTimer}
  /\ hw \in [enabled : BOOLEAN, value : Nat, fresh : BOOLEAN, irq : BOOLEAN, elapsed : Nat]
  /\ left \in [Timers -> Int] /\ drift \in [Timers -> Nat] /\ ahead \in [Timers -> Nat]

\* The ASSERTs "HWTIMER collapsed", in any state in which their function may
\* run: an interrupt without an active timer finds the hardware stopped, one
\* that is early finds it running, the counter never exceeds what the first
\* timer waits for, and a counter at 0 is never early.  And while a timer is active
\* the hardware will interrupt for it: it counts, or its interrupt is pending or
\* being handled.
NoCollapse ==
  /\ active # <<>> => hw.enabled /\ (hw.value > 0 \/ hw.irq \/ handler = "entered")
  /\ handler = "entered" => (active = <<>> => ~hw.enabled)
  /\ handler = "entered" /\ active # <<>> /\ Early => hw.enabled
  /\ active # <<>> =>
       /\ hw.value <= Max2(time[active[1]], LoadDelta)
       /\ Len(active) > 1 /\ hw.value = 0 => hw.elapsed + LoadDelta >= time[active[1]]

\* Types are kept and a timer is on the list its state names, once: no stop returns
\* E_HWTIMER_NOT_FOUND, and none of the lists loses or shares a timer.
ListsMatchStates ==
  /\ TypeOK
  /\ {t \in Timers : state[t] = "ACTIVE"} = ToSet(active)
  /\ {t \in Timers : state[t] = "FIRED"} = ToSet(fired)
  /\ Cardinality(ToSet(active)) = Len(active)
  /\ Cardinality(ToSet(fired)) = Len(fired)
  /\ {t \in Timers : state[t] = "CALLBACK"} \subseteq {current}

\* When the timer will be called back, by the list and the hardware.
Expected(t) ==
  LET j == CHOOSE i \in DOMAIN active : active[i] = t
      over == Max2(hw.elapsed + hw.value - DueAfter, 0)
  IN hw.value + Max2(UpTo(j) - over, 0)

\* However timers are started before, behind and between each other, stopped and
\* overrun, the sum of the deltas in front of a timer is what is left of the time
\* its client asked for, but for the ticks that loading the hardware may cost; one
\* started while the first timer is overdue counts from when that one was due.
DeltasAddUp ==
  \A t \in ToSet(active) :
    /\ left[t] - ahead[t] - Expected(t) <= drift[t]
    /\ Expected(t) <= Max2(left[t] - ahead[t], 0) + drift[t] + 1

\* No callback comes earlier than loading the hardware may make it, even when the
\* interrupt that leads to it was for a timer that was stopped while it was pending,
\* with one exception: a timer started while the first one is overdue is called
\* back early by what the interrupt had been held off by then.
OnTime ==
  handler = "callback" /\ state[current] = "CALLBACK" =>
    left[current] <= drift[current] + ahead[current]

Service == INSTANCE TimerService WITH
  running <- {t \in Timers : state[t] \in {"ACTIVE", "FIRED"}},
  calling <- IF handler = "callback" THEN current ELSE NoTimer

\* The lists, the hardware and the handler give clients what TimerService promises:
\* one callback per start, none after a stop, one at a time, and every timer that
\* is not stopped is called back.
TimerServiceSpec == Service!Spec
=============================================================================
