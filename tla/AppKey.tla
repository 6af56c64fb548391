------------------------------- MODULE AppKey -------------------------------
(***************************************************************************)
(* src/apps/key/app_key.cpp and its use of src/apps/common/app_thread.c:   *)
(* the events of HalKey are counted, mailed to app_thread, and counted     *)
(* down there before their handler is looked up.  key_event_process runs   *)
(* in the timer interrupt, which may come between the load and the store   *)
(* of app_thread's decrement.                                              *)
(***************************************************************************)
EXTENDS HalKey

CONSTANTS
  EventLimit,  \* KEY_EVENT_CNT_LIMIT
  MaxRaced,    \* bound: increments app_thread overwrites
  MaxStray     \* bound: events taken while no handler is registered

ASSUME AppKeyAssumption ==
  /\ EventLimit \in Nat /\ EventLimit < 255
  /\ MaxRaced \in Nat /\ MaxStray \in Nat

VARIABLES
  cnt,         \* key_event_cnt
  mails,       \* key events in app_mailbox
  registered,  \* is mod_handler[APP_MODUAL_KEY] set?
  taken,       \* app_thread: "none", "load" (it has an event to count down), or
               \* "store" (it has loaded cnt)
  loaded,      \* what it loaded
  raced,       \* auxiliary: increments that were overwritten
  stray        \* auxiliary: events that were taken and not counted down

appVars == <<cnt, mails, registered, taken, loaded, raced, stray>>
vars == <<keyVars, appVars>>

UInt8 == 256

\* Deliberately wrong: everything is sent.
PassedAll(n) == n

\* key_event_process for each event: what passes the limit is not sent.
Passed(n) == IF cnt > EventLimit THEN 0
             ELSE IF cnt + n > EventLimit + 1 THEN EventLimit + 1 - cnt ELSE n

\* Deliberately wrong: counts before it refuses.
CountsRefused(n) ==
  /\ cnt' = cnt + n
  /\ mails' = mails + Passed(n)

key_event_process(n) ==
  /\ cnt' = cnt + Passed(n)
  /\ mails' = mails + Passed(n)

\* The timer runs while app_thread is anywhere.
Run ==
  /\ hal_key_debounce_handler
  /\ key_event_process(Len(out'))
  /\ taken = "store" => raced + cnt' - loaded <= MaxRaced
  /\ UNCHANGED <<registered, taken, loaded, raced, stray>>

---------------------------------------------------------------------------
(* app_thread                                                               *)

\* HalKey's variables but out, which is what the last step sent.
KeysRest == out' = <<>> /\ UNCHANGED <<noGroupKey, fitted, hardware, pwr, pin,
                                       timerActive, timer, status, phase, closeRuns, taps>>

app_mailbox_get ==
  /\ taken = "none" /\ mails > 0
  /\ mails' = mails - 1
  /\ IF registered THEN taken' = "load" /\ UNCHANGED stray
     ELSE stray < MaxStray /\ stray' = stray + 1 /\ UNCHANGED taken
  /\ KeysRest
  /\ UNCHANGED <<cnt, registered, loaded, raced>>

\* app_key_handle_process: key_event_cnt--, and the client's function is called.
LoadCount ==
  /\ taken = "load"
  /\ taken' = "store"
  /\ loaded' = cnt
  /\ KeysRest
  /\ UNCHANGED <<cnt, mails, registered, raced, stray>>

\* Deliberately wrong: does not count down.
StoreCountKeeps ==
  /\ taken = "store"
  /\ taken' = "none"
  /\ cnt' = loaded
  /\ raced' = raced + cnt - loaded
  /\ loaded' = 0
  /\ KeysRest
  /\ UNCHANGED <<mails, registered, stray>>

StoreCount ==
  /\ taken = "store"
  /\ taken' = "none"
  /\ cnt' = (loaded - 1) % UInt8
  /\ raced' = raced + cnt - loaded
  /\ loaded' = 0
  /\ KeysRest
  /\ UNCHANGED <<mails, registered, stray>>

AppThread == app_mailbox_get \/ LoadCount \/ StoreCount

---------------------------------------------------------------------------
(* Opening and closing.  app_key_close frees the list of handlers and leaves *)
(* the pointer: nothing opens the keys again before the next boot.           *)

app_key_open ==
  /\ ~registered
  /\ hal_key_open
  /\ registered' = TRUE
  /\ UNCHANGED <<cnt, mails, taken, loaded, raced, stray>>

\* Between hal_key_close and this the list is freed.
Unregister ==
  /\ phase = "closed" /\ registered
  /\ registered' = FALSE
  /\ KeysRest
  /\ UNCHANGED <<cnt, mails, taken, loaded, raced, stray>>

app_key_close == (hal_key_close /\ UNCHANGED appVars) \/ Unregister

Init ==
  /\ KeyInit
  /\ cnt = 0 /\ mails = 0
  /\ registered = FALSE
  /\ taken = "none" /\ loaded = 0
  /\ raced = 0 /\ stray = 0

Keyboard == (\E k \in Keys : Press(k) \/ Release(k)) \/ Idle \/ Irq

Next ==
  \/ Keyboard /\ UNCHANGED appVars
  \/ Run
  \/ AppThread
  \/ app_key_open \/ app_key_close

Spec == Init /\ [][Next]_vars

\* Interrupts are taken, the timer runs, and app_thread is not held up for ever.
FairSpec ==
  Spec /\ WF_vars(Irq /\ UNCHANGED appVars) /\ WF_vars(Run) /\ WF_vars(AppThread)

---------------------------------------------------------------------------
\* The types of the variables that are not HalKey's; key_event_cnt is a uint8_t.
TypeOK ==
  /\ cnt \in 0..UInt8 - 1 /\ loaded \in 0..UInt8 - 1
  /\ mails \in Nat
  /\ registered \in BOOLEAN
  /\ taken \in {"none", "load", "store"}
  /\ raced \in Nat /\ stray \in Nat

InFlight == mails + IF taken = "none" THEN 0 ELSE 1

\* Types are kept, and key_event_cnt is the number of events in flight, but for the
\* increments that app_thread's decrement has overwritten and the events dropped
\* after a close.  One overwritten increment leaves 255 when nothing is in flight,
\* and then key_event_process lets nothing pass ever again.
CountOfEvents == TypeOK /\ cnt = (InFlight + stray - raced) % UInt8

\* The limit does its work: of the blocks of app_mailbox, whose exhaustion is an
\* ASSERT, key events never take more than KEY_EVENT_CNT_LIMIT + 1, beside the one
\* whose handler runs.
FewKeyMails == InFlight + stray <= EventLimit + 1 + raced

\* Events that are refused are refused for a while: app_thread catches up, unless
\* the count is off for good.
BlockEnds == cnt > EventLimit ~> cnt <= EventLimit \/ raced + stray > 0
=============================================================================
