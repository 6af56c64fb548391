------------------------------- MODULE HalKey -------------------------------
(***************************************************************************)
(* src/platform/hal/hal_key.c: a key interrupt starts a timer, the timer's *)
(* runs watch the keys that interrupted until they are released, and turn  *)
(* what they see into the events clients are told of: down, up, long       *)
(* presses, clicks of one to five presses.  There are keys on GPIO pins,   *)
(* whose interrupt is on level, and the power key, whose is on edges.      *)
(*                                                                         *)
(* The interrupts of the keys and of the timer have one priority, so each  *)
(* handler is one action.  hal_key_close runs in a thread that they        *)
(* interrupt.  Time is counted in KEY_CHECKER_INTERVALs.  The debounce     *)
(* timer is what HwTimer shows: it runs once an interval after its start.  *)
(* Keys with an ADC are compiled out of every configuration.               *)
(***************************************************************************)
EXTENDS Integers, Sequences, FiniteSets, SequencesExt

CONSTANTS
  PwrKey,        \* HAL_KEY_CODE_PWR
  GpioKeys,      \* the keys of cfg_hw_gpio_key_cfg
  Builds,        \* NO_GROUPKEY or not, and the keys there are: with NO_PWRKEY and on
                 \* other boards there are fewer
  LongPress, LongLongPress, DoubleClick, Repeat,
                 \* CFG_SW_KEY_*_THRESH_MS in intervals
  MaxClicks,     \* MAX_KEY_CLICK_COUNT
  MaxCloseRuns   \* runs of the timer during one hal_key_close

Keys == {PwrKey} \cup GpioKeys

ASSUME HalKeyAssumption ==
  /\ PwrKey \notin GpioKeys /\ IsFiniteSet(GpioKeys)
  /\ Builds # {} /\ Builds \subseteq [noGroupKey : BOOLEAN, keys : SUBSET Keys]
  /\ {LongPress, LongLongPress, DoubleClick, Repeat, MaxClicks} \subseteq Nat \ {0}
  /\ MaxCloseRuns \in Nat

DebounceInterval == 2  \* KEY_DEBOUNCE_INTERVAL
DitherInterval == 1    \* KEY_DITHER_INTERVAL

VARIABLES
  noGroupKey,  \* NO_GROUPKEY
  fitted,      \* the keys there are; no others are ever pressed
  raw,         \* the keys that are pressed
  irqOn,       \* the keys whose interrupt is enabled
  edge,        \* POWER_ON_PRESS of the power management unit
  pwr,         \* pwr_key; age: time since its time
  pin,         \* gpio_key: debounce, dither, down, and the ages of its times
  timerActive, \* timer_active
  timer,       \* debounce_timer: "none", "stopped" or "running"
  status,      \* key_status, with ages for times
  phase,       \* "closed", "open", or the step hal_key_close has done
  closeRuns,   \* auxiliary: runs since hal_key_close was called
  taps,        \* auxiliary: the presses of ready since its last click event that
               \* were not long: code, count, apart (a long one came after them),
               \* lost (others before them have had no event)
  out          \* the events sent in the last step

hardware == <<raw, irqOn, edge>>
keyVars == <<noGroupKey, fitted, hardware, pwr, pin, timerActive, timer, status, phase,
             closeRuns, taps, out>>

Older(age, cap) == IF age < cap THEN age + 1 ELSE cap

NoPwr == [debounce |-> FALSE, dither |-> FALSE, pressed |-> FALSE, age |-> DebounceInterval]

NoPin == [debounce |-> {}, dither |-> {}, down |-> {},
          debounceAge |-> DebounceInterval, ditherAge |-> DitherInterval]

NoStatus == [down |-> {}, ready |-> {}, click |-> {}, event |-> "NONE",
             updown |-> LongLongPress, clicked |-> DoubleClick, repeats |-> 0, clicks |-> 0]

NoTaps == [code |-> {}, count |-> 0, apart |-> FALSE, lost |-> FALSE]

---------------------------------------------------------------------------
(* The keys.                                                                *)

\* An edge is latched for sure while its interrupt is enabled.
Press(k) ==
  /\ k \in fitted \ raw
  /\ raw' = raw \cup {k}
  /\ edge' \in IF k # PwrKey THEN {edge}
               ELSE IF k \in irqOn THEN {TRUE} ELSE {edge, TRUE}
  /\ out' = <<>>
  /\ UNCHANGED <<noGroupKey, fitted, irqOn, pwr, pin, timerActive, timer, status, phase,
                 closeRuns, taps>>

Release(k) ==
  /\ k \in raw
  /\ raw' = raw \ {k}
  /\ out' = <<>>
  /\ UNCHANGED <<noGroupKey, fitted, irqOn, edge, pwr, pin, timerActive, timer, status,
                 phase, closeRuns, taps>>

\* An interval goes by without the timer.
Idle ==
  /\ timer # "running"
  /\ pwr' = [pwr EXCEPT !.age = Older(@, DebounceInterval)]
  /\ out' = <<>>
  /\ UNCHANGED <<noGroupKey, fitted, hardware, pin, timerActive, timer, status, phase,
                 closeRuns, taps>>

---------------------------------------------------------------------------
(* The interrupts.                                                          *)

\* hal_key_debounce_timer_restart; without a timer hwtimer_start does nothing.
Restart ==
  /\ timerActive' = TRUE
  /\ timer' = IF timerActive \/ timer = "none" THEN timer ELSE "running"

\* Disabling the power key's interrupt clears its edge.
Disable(k) ==
  /\ irqOn' = IF noGroupKey THEN {} ELSE irqOn \ {k}
  /\ edge' = IF noGroupKey \/ k = PwrKey THEN FALSE ELSE edge

\* What was set since the last run is not an interval old in the next one.
New == IF timerActive THEN -1 ELSE 0

\* The level that interrupts may be gone when the handler reads the pin.
hal_gpiokey_irqhandler(k) ==
  /\ k \in irqOn \cap raw
  /\ Disable(k)
  /\ raw' \in {raw, raw \ {k}}
  /\ pin' = IF k \in raw'
            THEN [pin EXCEPT !.debounce = @ \cup {k}, !.debounceAge = New]
            ELSE [pin EXCEPT !.dither = @ \cup {k}, !.ditherAge = New]
  /\ Restart
  /\ out' = <<>>
  /\ UNCHANGED <<noGroupKey, fitted, pwr, status, phase, closeRuns, taps>>

\* The time of pwr_key is left alone.  hal_pwrkey_close removes the handler.
hal_pwrkey_irqhandler ==
  /\ edge /\ PwrKey \in irqOn
  /\ phase \in {"open", "disabled", "pwr reset"}
  /\ Disable(PwrKey)
  /\ pwr' = [pwr EXCEPT !.pressed = PwrKey \in raw,
                        !.debounce = @ \/ PwrKey \in raw,
                        !.dither = @ \/ PwrKey \notin raw]
  /\ Restart
  /\ out' = <<>>
  /\ UNCHANGED <<noGroupKey, fitted, raw, pin, status, phase, closeRuns, taps>>

---------------------------------------------------------------------------
(* A run of the timer looks at the keys that interrupted: each operator      *)
(* gives what becomes of them, the keys found down and those found up.       *)

PwrScan ==
  LET p == [pwr EXCEPT !.age = Older(@, DebounceInterval)]
      pressed == PwrKey \in raw
      sure == p.debounce /\ pressed /\ p.age >= DebounceInterval
      settled == ~p.debounce /\ p.dither /\ p.age >= DitherInterval
      watched == ~p.debounce /\ ~p.dither /\ p.pressed
  IN [keep |-> IF sure THEN [p EXCEPT !.pressed = TRUE, !.debounce = FALSE, !.dither = FALSE]
               ELSE IF p.debounce /\ pressed
               THEN [p EXCEPT !.pressed = TRUE, !.dither = FALSE]
               ELSE IF p.debounce
               THEN [debounce |-> FALSE, dither |-> TRUE, pressed |-> FALSE, age |-> 0]
               ELSE IF settled THEN [p EXCEPT !.dither = FALSE, !.pressed = FALSE]
               ELSE IF watched THEN [p EXCEPT !.pressed = pressed]
               ELSE p,
      down |-> IF sure \/ (watched /\ pressed) THEN {PwrKey} ELSE {},
      up |-> IF settled \/ (watched /\ ~pressed) THEN {PwrKey} ELSE {}]

\* Deliberately wrong: a key found up again is not waited for any more.
GpioScanDropsBounced ==
  LET p == [pin EXCEPT !.debounceAge = Older(@, DebounceInterval),
                       !.ditherAge = Older(@, DitherInterval)]
      settled == IF p.ditherAge >= DitherInterval THEN p.dither ELSE {}
      held == p.down \cap raw
      added == IF p.debounceAge >= DebounceInterval THEN p.debounce \cap raw ELSE {}
  IN [keep |-> [p EXCEPT !.debounce = (@ \ added) \cap raw, !.dither = @ \ settled,
                         !.down = held \cup added],
      down |-> held \cup added,
      up |-> settled \cup (p.down \ raw)]

GpioScan ==
  LET p == [pin EXCEPT !.debounceAge = Older(@, DebounceInterval),
                       !.ditherAge = Older(@, DitherInterval)]
      settled == IF p.ditherAge >= DitherInterval THEN p.dither ELSE {}
      held == p.down \cap raw
      added == IF p.debounceAge >= DebounceInterval THEN p.debounce \cap raw ELSE {}
      bounced == p.debounce \ raw
  IN [keep |-> [p EXCEPT !.debounce = @ \ (added \cup bounced),
                         !.dither = (@ \ settled) \cup bounced,
                         !.down = held \cup added],
      down |-> held \cup added,
      up |-> settled \cup (p.down \ raw)]

\* Deliberately wrong: keys that settle are not watched.
WatchingDown(p, g) == p.debounce \/ p.pressed \/ g.debounce \cup g.down # {}

Watching(p, g) == p.debounce \/ p.dither \/ p.pressed \/ g.debounce \cup g.dither \cup g.down # {}

---------------------------------------------------------------------------
(* Then it works out the events.                                            *)

Event(code, event) == [code |-> code, event |-> event, clicks |-> 0, taps |-> NoTaps]

\* HAL_KEY_EVENT_CLICK + cnt_click
Clicked(s, t) == [code |-> s.click, event |-> "CLICK", clicks |-> s.clicks, taps |-> t]

Long == {"LONGPRESS", "LONGLONGPRESS"}

Aged(s) == [s EXCEPT !.updown = Older(@, LongLongPress), !.clicked = Older(@, DoubleClick)]

\* Each step of the handler takes a key_status, the events sent so far and the
\* taps, and gives what becomes of them when `down` are the keys that are down.

\* The events of some keys, one key after the other.
Sent(o, keys, events) ==
  LET order == SetToSeq(keys)
      n == Len(events)
  IN o \o [i \in 1..n * Len(order) |->
             Event({order[1 + (i - 1) \div n]}, events[1 + ((i - 1) % n)])]

\* The first press of other keys than those of t.
NewTap(t, code) ==
  [code |-> code, count |-> 1, apart |-> FALSE, lost |-> t.lost \/ t.count > 0]

\* Deliberately wrong: a long press does not end.
UpsKeepsLong(x, down) ==
  LET s == x.s
      up == s.down \ down
      tap == up # {} /\ s.event = "DOWN"
  IN [s |-> [s EXCEPT !.event = IF tap THEN "UP" ELSE @,
                      !.updown = IF up # {} THEN 0 ELSE @],
      o |-> Sent(x.o, up, <<"UP">>),
      t |-> IF ~tap THEN x.t
            ELSE IF x.t.code = s.ready THEN [x.t EXCEPT !.count = @ + 1]
            ELSE NewTap(x.t, s.ready)]

Ups(x, down) ==
  LET s == x.s
      up == s.down \ down
      long == s.event \in Long
      tap == up # {} /\ s.event = "DOWN"
  IN [s |-> [s EXCEPT !.event = IF long /\ up # {} /\ s.ready \cap down = {} THEN "NONE"
                                ELSE IF tap THEN "UP" ELSE @,
                      !.updown = IF up # {} THEN 0 ELSE @],
      o |-> Sent(x.o, up, IF long THEN <<"UP", "UP_AFTER_LONGPRESS">> ELSE <<"UP">>),
      t |-> IF ~tap THEN x.t
            ELSE IF x.t.code = s.ready THEN [x.t EXCEPT !.count = @ + 1]
            ELSE NewTap(x.t, s.ready)]

\* Deliberately wrong: the count goes on when the keys are others.
ClicksGoOn(x, down) ==
  LET s == x.s
      other == s.click = {} \/ s.click # s.ready
      again == s.down \ down # {} /\ s.click # {}
      counted == [s EXCEPT !.click = s.ready, !.clicks = IF again THEN @ + 1 ELSE @,
                           !.clicked = IF other \/ again THEN 0 ELSE @]
      ends == counted.clicked >= DoubleClick \/ counted.clicks >= MaxClicks
  IN IF s.event # "UP" THEN x
     ELSE [s |-> IF ends THEN [counted EXCEPT !.click = {}, !.clicks = 0, !.event = "NONE"]
                         ELSE counted,
           o |-> x.o \o (IF ends THEN <<Clicked(counted, x.t)>> ELSE <<>>),
           t |-> IF ends THEN NoTaps ELSE x.t]

\* The event for other keys, if one is due, then this press is counted; its event is
\* due when the next press has not come in time or no more are counted.
Clicks(x, down) ==
  LET s == x.s
      other == s.click = {} \/ s.click # s.ready
      again == ~other /\ s.down \ down # {} /\ s.down = s.click
      counted == [s EXCEPT !.click = IF other THEN s.ready ELSE @,
                           !.clicks = IF other THEN 0 ELSE IF again THEN @ + 1 ELSE @,
                           !.clicked = IF other \/ again THEN 0 ELSE @]
      ends == counted.clicked >= DoubleClick \/ counted.clicks >= MaxClicks
      told == IF other /\ s.click # {} THEN [x.t EXCEPT !.lost = FALSE] ELSE x.t
  IN IF s.event # "UP" THEN x
     ELSE [s |-> IF ends THEN [counted EXCEPT !.click = {}, !.clicks = 0, !.event = "NONE"]
                         ELSE counted,
           o |-> x.o \o (IF other /\ s.click # {} THEN <<Clicked(s, taps)>> ELSE <<>>)
                     \o (IF ends THEN <<Clicked(counted, told)>> ELSE <<>>),
           t |-> IF ends THEN NoTaps ELSE told]

\* Deliberately wrong: code_ready stays that of the first key.
DownsKeepsReady(x, down) ==
  LET s == x.s
      new == down \ s.down
      first == new # {} /\ s.event = "NONE"
      which == IF s.event = "NONE" THEN "FIRST_DOWN" ELSE "CONTINUED_DOWN"
  IN [s |-> [s EXCEPT !.down = down,
                      !.ready = IF first THEN down ELSE @,
                      !.updown = IF new # {} THEN 0 ELSE @,
                      !.event = IF new # {} /\ ~(s.event \in Long) THEN "DOWN" ELSE @],
      o |-> Sent(x.o, new, <<"DOWN", which>>),
      t |-> x.t]

Downs(x, down) ==
  LET s == x.s
      new == down \ s.down
      short == s.event \in {"NONE", "DOWN", "UP"}
      which == IF s.event = "NONE" THEN "FIRST_DOWN" ELSE "CONTINUED_DOWN"
  IN [s |-> [s EXCEPT !.down = down,
                      !.ready = IF new # {} /\ short THEN down ELSE @,
                      !.updown = IF new # {} THEN 0 ELSE @,
                      !.event = IF new # {} /\ short THEN "DOWN" ELSE @],
      o |-> Sent(x.o, new, <<"DOWN", which>>),
      t |-> x.t]

\* Only while all keys of a long press are down.
LongPresses(x) ==
  LET s == x.s
      starts == s.event = "DOWN" /\ s.updown >= LongPress
      goes == s.event \in Long
      repeats == goes /\ s.repeats + 1 = Repeat
      lasts == s.event = "LONGPRESS" /\ s.updown >= LongLongPress
  IN IF ~(s.ready \subseteq s.down) THEN x
     ELSE [s |-> [s EXCEPT !.event = IF starts THEN "LONGPRESS"
                                     ELSE IF lasts THEN "LONGLONGPRESS" ELSE @,
                           !.repeats = IF starts \/ repeats THEN 0
                                       ELSE IF goes THEN @ + 1 ELSE @],
           o |-> x.o \o (IF starts THEN <<Event(s.ready, "LONGPRESS")>> ELSE <<>>)
                     \o (IF repeats THEN <<Event(s.ready, "REPEAT")>> ELSE <<>>)
                     \o (IF lasts THEN <<Event(s.ready, "LONGLONGPRESS")>> ELSE <<>>),
           t |-> IF starts /\ x.t.count > 0 THEN [x.t EXCEPT !.apart = TRUE] ELSE x.t]

Start == [s |-> Aged(status), o |-> <<>>, t |-> taps]

hal_key_debounce_handler ==
  /\ timer = "running"
  /\ phase # "open" => closeRuns < MaxCloseRuns
  /\ \E p \in {PwrScan}, g \in {GpioScan} :
     \E down \in {p.down \cup g.down}, up \in {p.up \cup g.up} :
     \E ups \in {Ups(Start, down)} :
     \E clicks \in {Clicks(ups, down)} :
     \E downs \in {Downs(clicks, down)} :
     \E x \in {LongPresses(downs)} :
     \E again \in {Watching(p.keep, g.keep) \/ x.s.event # "NONE"} :
        /\ pwr' = p.keep
        /\ pin' = g.keep
        /\ irqOn' = IF noGroupKey /\ up # {} THEN Keys ELSE irqOn \cup up
        /\ status' = x.s
        /\ taps' = x.t
        /\ out' = IF phase = "closed" THEN <<>> ELSE x.o
        /\ timerActive' = again
        /\ timer' = IF phase \in {"stopped", "closed"} THEN "none"
                    ELSE IF again THEN "running" ELSE "stopped"
  /\ closeRuns' = IF phase = "open" THEN 0 ELSE closeRuns + 1
  /\ UNCHANGED <<noGroupKey, fitted, raw, edge, phase>>

---------------------------------------------------------------------------
(* Opening and closing.                                                     *)

hal_key_open ==
  /\ phase = "closed"
  /\ phase' = "open" /\ closeRuns' = 0
  /\ status' = NoStatus /\ taps' = NoTaps
  /\ pwr' = NoPwr /\ pin' = NoPin
  /\ timer' = "stopped"
  /\ irqOn' = Keys
  /\ out' = <<>>
  /\ UNCHANGED <<noGroupKey, fitted, raw, edge, timerActive>>

\* hal_key_close, step by step.
CloseStep(from, to) ==
  /\ phase = from /\ phase' = to
  /\ out' = <<>>
  /\ UNCHANGED <<noGroupKey, fitted, raw, status, closeRuns, taps>>

hal_key_disable_allint ==
  /\ CloseStep("open", "disabled")
  /\ irqOn' = {} /\ edge' = FALSE
  /\ UNCHANGED <<pwr, pin, timerActive, timer>>

hal_pwrkey_reset ==
  /\ CloseStep("disabled", "pwr reset")
  /\ pwr' = NoPwr
  /\ UNCHANGED <<irqOn, edge, pin, timerActive, timer>>

hal_pwrkey_close ==
  /\ CloseStep("pwr reset", "pwr closed")
  /\ irqOn' = irqOn \ {PwrKey} /\ edge' = FALSE
  /\ UNCHANGED <<pwr, pin, timerActive, timer>>

hal_gpiokey_reset ==
  /\ CloseStep("pwr closed", "gpio reset")
  /\ pin' = NoPin
  /\ UNCHANGED <<irqOn, edge, pwr, timerActive, timer>>

hal_gpiokey_close ==
  /\ CloseStep("gpio reset", "gpio closed")
  /\ irqOn' = irqOn \ GpioKeys
  /\ UNCHANGED <<edge, pwr, pin, timerActive, timer>>

\* Deliberately wrong: the timer is only freed.
StopTimerNot ==
  /\ CloseStep("gpio closed", "timer stopped")
  /\ UNCHANGED <<irqOn, edge, pwr, pin, timerActive, timer>>

\* hwtimer_stop; hwtimer_free refuses a timer that has been started in between.
StopTimer ==
  /\ CloseStep("gpio closed", "timer stopped")
  /\ timer' = "stopped"
  /\ UNCHANGED <<irqOn, edge, pwr, pin, timerActive>>

FreeTimer ==
  /\ CloseStep("timer stopped", "stopped")
  /\ timer' = IF timer = "stopped" THEN "none" ELSE timer
  /\ UNCHANGED <<irqOn, edge, pwr, pin, timerActive>>

Closed ==
  /\ CloseStep("stopped", "closed")
  /\ timerActive' = FALSE
  /\ UNCHANGED <<irqOn, edge, pwr, pin, timer>>

hal_key_close ==
  \/ hal_key_disable_allint
  \/ hal_pwrkey_reset \/ hal_pwrkey_close
  \/ hal_gpiokey_reset \/ hal_gpiokey_close
  \/ StopTimer \/ FreeTimer \/ Closed

---------------------------------------------------------------------------
KeyInit ==
  /\ \E b \in Builds : noGroupKey = b.noGroupKey /\ fitted = b.keys
  /\ raw = {} /\ irqOn = {} /\ edge = FALSE
  /\ pwr = NoPwr /\ pin = NoPin
  /\ timerActive = FALSE /\ timer = "none"
  /\ status = NoStatus
  /\ phase = "closed" /\ closeRuns = 0
  /\ taps = NoTaps /\ out = <<>>

Irq == hal_pwrkey_irqhandler \/ \E k \in GpioKeys : hal_gpiokey_irqhandler(k)

KeyNext ==
  \/ \E k \in Keys : Press(k) \/ Release(k)
  \/ Idle
  \/ Irq
  \/ hal_key_debounce_handler
  \/ hal_key_open \/ hal_key_close

KeySpec == KeyInit /\ [][KeyNext]_keyVars

\* Each interrupt that stays pending is taken, and the timer runs.
KeyFairSpec ==
  /\ KeySpec
  /\ WF_keyVars(hal_pwrkey_irqhandler)
  /\ \A k \in GpioKeys : WF_keyVars(hal_gpiokey_irqhandler(k))
  /\ WF_keyVars(hal_key_debounce_handler)

---------------------------------------------------------------------------
Events == {"DOWN", "FIRST_DOWN", "CONTINUED_DOWN", "UP", "UP_AFTER_LONGPRESS", "LONGPRESS",
           "LONGLONGPRESS", "REPEAT", "CLICK"}

Taps == [code : SUBSET Keys, count : Nat, apart : BOOLEAN, lost : BOOLEAN]

OutIsSequence ==
  out \in Seq([code : SUBSET Keys, event : Events, clicks : 0..MaxClicks, taps : Taps])

\* The types of the variables; the counters of key_status stay below their limits.
KeyTypeOK ==
  /\ noGroupKey \in BOOLEAN
  /\ fitted \subseteq Keys /\ raw \subseteq Keys /\ irqOn \subseteq Keys /\ edge \in BOOLEAN
  /\ pwr \in [debounce : BOOLEAN, dither : BOOLEAN, pressed : BOOLEAN, age : 0..DebounceInterval]
  /\ pin \in [debounce : SUBSET GpioKeys, dither : SUBSET GpioKeys, down : SUBSET GpioKeys,
              debounceAge : -1..DebounceInterval, ditherAge : -1..DitherInterval]
  /\ timerActive \in BOOLEAN /\ timer \in {"none", "stopped", "running"}
  /\ status \in [down : SUBSET Keys, ready : SUBSET Keys, click : SUBSET Keys,
                 event : {"NONE", "DOWN", "UP"} \cup Long, updown : 0..LongLongPress,
                 clicked : 0..DoubleClick, repeats : 0..Repeat - 1, clicks : 0..MaxClicks - 1]
  /\ phase \in {"closed", "open", "disabled", "pwr reset", "pwr closed", "gpio reset",
                "gpio closed", "timer stopped", "stopped"}
  /\ closeRuns \in 0..MaxCloseRuns
  /\ taps \in Taps
  /\ OutIsSequence

Tracked == (IF pwr.debounce \/ pwr.dither \/ pwr.pressed THEN {PwrKey} ELSE {})
             \cup pin.debounce \cup pin.dither \cup pin.down

\* A key whose interrupt is off is being looked at by the timer, so none is left
\* without either; with NO_GROUPKEY one key that is looked at is enough, because
\* all interrupts come back with it.  And the timer is set while it has work.
NoKeyForgotten ==
  phase = "open" =>
    /\ timerActive = (timer = "running")
    /\ Tracked # {} \/ status.event # "NONE" => timerActive
    /\ IF noGroupKey THEN irqOn = Keys \/ Tracked # {} ELSE Keys \ irqOn = Tracked
    /\ status.down \subseteq Tracked

\* Types, and the ASSERT "Bad gpio_key pin map": no pin is debounced and settling at
\* once, whatever its level does between an interrupt and the reads of it.  Then
\* "Bad code_ready", which is commented out: what the long presses and the clicks
\* take for granted of code_ready and code_click.
KeyAsserts ==
  /\ KeyTypeOK
  /\ pin.debounce \cap pin.dither = {}
  /\ status.event = "DOWN" => status.ready = status.down /\ status.down # {}
  /\ status.event = "UP" => status.ready # {} /\ status.click = status.ready
  /\ status.event \in Long => status.ready \cap status.down # {}

\* A click event of n presses comes after exactly n short presses of just these keys
\* since their last one, and those of other keys have had theirs: no press is lost,
\* counted twice or given to other keys.
CountsTaps ==
  \A e \in ToSet(out) : e.event = "CLICK" =>
    e.code = e.taps.code /\ e.clicks + 1 = e.taps.count /\ ~e.taps.lost

\* The taps that make one click event are one gesture: no long press, which is an
\* action of its own, has come between them.  README.md:9-15 maps taps and hold.
TapsTogether == \A e \in ToSet(out) : e.event = "CLICK" => ~e.taps.apart

\* After hal_key_close nothing is armed any more, though interrupts and the timer
\* come between its steps and enable and start things again.
ClosedIsQuiet ==
  phase = "closed" => timer = "none" /\ ~timerActive /\ irqOn \cap GpioKeys = {} /\ out = <<>>

\* When the keys are left alone the timer stops, every interrupt is enabled again
\* and the last gesture has ended.
KeysSettle ==
  <>[](raw = {} /\ phase = "open") => <>[](irqOn = Keys /\ ~timerActive /\ status.event = "NONE")

\* A GPIO key that is held is found down in the end, whatever the power key does, once
\* the other GPIO keys no longer change: time_debounce is one for all of them, and one
\* that chatters sets it again and again.  (With NO_GROUPKEY a key waits for all the
\* others; an edge of the power key may be lost.)
KeysNoticed ==
  \A k \in GpioKeys :
    /\ <>[](~noGroupKey /\ phase = "open" /\ k \in raw)
    /\ <>[][\A j \in GpioKeys \ {k} : j \in raw' <=> j \in raw]_raw
    => <>[](k \in status.down)
=============================================================================
