--------------------------- MODULE AppKey_proofs ----------------------------
(***************************************************************************)
(* Proofs about the keys.  First HalKey, for any finite number of keys on  *)
(* GPIO pins, either build, and any thresholds; then AppKey, whose steps   *)
(* are made of HalKey's, for any limit below 255 and any number of events. *)
(* That what a run of the timer sends is a sequence comes from the types   *)
(* of HalKey.                                                              *)
(***************************************************************************)
EXTENDS AppKey, FiniteSetTheorems, SequenceTheorems, TLAPS

---------------------------------------------------------------------------
(* The inductive invariants.                                                *)

PinTracked == pin.debounce \cup pin.dither \cup pin.down
PwrTracked == pwr.debounce \/ pwr.dither \/ pwr.pressed

\* A pin is in one state at a time, and while a key is looked at its interrupt is off;
\* with NO_GROUPKEY that of every key is, and no two keys are looked at.
PinInv ==
  /\ pin.debounce \cap pin.dither = {}
  /\ pin.down \cap (pin.debounce \cup pin.dither) = {}
  /\ ~(pwr.debounce /\ pwr.dither)
  /\ IF noGroupKey
     THEN /\ irqOn = {} \/ Tracked = {}
          /\ \A j, k \in Tracked : j = k
     ELSE irqOn \cap Tracked = {}

\* What an event of key_status says of the keys.  In "UP" some key of the press is up.
StatusInv ==
  /\ status.event = "DOWN" => status.ready = status.down /\ status.down # {}
  /\ status.event = "UP" => /\ status.ready # {} /\ status.click = status.ready
                            /\ ~(status.ready \subseteq status.down)
  /\ status.event \in Long => status.ready \cap status.down # {}

\* The clicks counted are the taps since the last click event, and no others wait.
TapsInv ==
  /\ ~taps.lost
  /\ IF status.click = {} THEN taps.code = {} /\ taps.count = 0
     ELSE taps.code = status.click /\ taps.count = status.clicks + 1

Closing == {"disabled", "pwr reset", "pwr closed", "gpio reset", "gpio closed",
            "timer stopped", "stopped"}

\* A hal_key_close that the timer interrupts once, at most: before that run all is off,
\* and there is no other to turn on again what is turned off after it.
CloseInv ==
  /\ phase = "open" => timer # "none" /\ closeRuns = 0
  /\ phase \in Closing /\ closeRuns = 0 => irqOn = {}
  /\ phase \in Closing \ {"disabled"} /\ closeRuns = 0 => ~PwrTracked
  /\ phase \in {"gpio reset", "gpio closed", "timer stopped", "stopped"} /\ closeRuns = 0
       => PinTracked = {}
  /\ phase \in {"gpio closed", "timer stopped", "stopped", "closed"} => irqOn \cap GpioKeys = {}
  /\ phase = "timer stopped" => timer = "stopped"
  /\ phase = "stopped" => timer = "none"
  /\ ClosedIsQuiet

---------------------------------------------------------------------------
(* The types of what the steps of the handler hand on.                       *)

Sendable == [code : SUBSET Keys, event : Events, clicks : 0..MaxClicks, taps : Taps]

Statuses ==
  [down : SUBSET Keys, ready : SUBSET Keys, click : SUBSET Keys,
   event : {"NONE", "DOWN", "UP"} \cup Long, updown : 0..LongLongPress,
   clicked : 0..DoubleClick, repeats : 0..Repeat - 1, clicks : 0..MaxClicks - 1]

Handed == [s : Statuses, o : Seq(Sendable), t : Taps]

Pwrs == [debounce : BOOLEAN, dither : BOOLEAN, pressed : BOOLEAN, age : 0..DebounceInterval]

Pins == [debounce : SUBSET GpioKeys, dither : SUBSET GpioKeys, down : SUBSET GpioKeys,
         debounceAge : -1..DebounceInterval, ditherAge : -1..DitherInterval]

LEMMA KeyCounts ==
  /\ LongPress \in Nat \ {0} /\ LongLongPress \in Nat \ {0} /\ DoubleClick \in Nat \ {0}
  /\ Repeat \in Nat \ {0} /\ MaxClicks \in Nat \ {0} /\ MaxCloseRuns \in Nat
  BY HalKeyAssumption

LEMMA NoTapsType == NoTaps \in Taps
<1>1. {} \in SUBSET Keys /\ 0 \in Nat /\ FALSE \in BOOLEAN
  OBVIOUS
<1> QED BY <1>1, Zenon DEF NoTaps, Taps

LEMMA EventType ==
  ASSUME NEW code \in SUBSET Keys, NEW event \in Events
  PROVE  Event(code, event) \in Sendable
<1>1. 0 \in 0..MaxClicks
  BY KeyCounts
<1> QED BY <1>1, NoTapsType, Zenon DEF Event, Sendable

LEMMA ClickedType ==
  ASSUME NEW code \in SUBSET Keys, NEW n \in 0..MaxClicks, NEW t \in Taps,
         NEW s, s.click = code, s.clicks = n
  PROVE  Clicked(s, t) \in Sendable
<1>1. "CLICK" \in Events
  BY DEF Events
<1> QED BY <1>1, Zenon DEF Clicked, Sendable

\* The keys of a finite set, one after the other.
LEMMA KeysInOrder ==
  ASSUME NEW S, IsFiniteSet(S)
  PROVE  SetToSeq(S) \in [1..Cardinality(S) -> S] /\ Cardinality(S) \in Nat
<1>1. Cardinality(S) \in Nat /\ ExistsBijection(1..Cardinality(S), S)
  BY FS_CardinalityType
<1>2. \E f \in [1..Cardinality(S) -> S] : IsInjective(f)
  BY <1>1 DEF ExistsBijection, Bijection, Injection
<1> QED BY <1>1, <1>2 DEF SetToSeq

LEMMA KeysFinite ==
  ASSUME NEW S \in SUBSET Keys
  PROVE  IsFiniteSet(S)
<1>1. IsFiniteSet(Keys)
  BY HalKeyAssumption, FS_AddElement DEF Keys
<1> QED BY <1>1, FS_Subset

\* What Sent adds: events it is given, each of a key.
LEMMA SentAdds ==
  ASSUME NEW o \in Seq(Sendable), NEW keys \in SUBSET Keys, NEW evs \in Seq(Events),
         Len(evs) \in {1, 2}
  PROVE  \E q \in Seq(Sendable) :
           /\ Sent(o, keys, evs) = o \o q
           /\ \A i \in 1..Len(q) : \E j \in 1..Len(evs) : q[i].event = evs[j]
<1> DEFINE order == SetToSeq(keys)
           n == Len(evs)
           m == Cardinality(keys)
           el(i) == Event({order[1 + (i - 1) \div n]}, evs[1 + ((i - 1) % n)])
           q == [i \in 1..n * Len(order) |-> el(i)]
<1>1. order \in [1..m -> keys] /\ m \in Nat
  BY KeysFinite, KeysInOrder
<1>2. order \in Seq(keys) /\ Len(order) = m
  BY <1>1
<1>3. n * m \in Nat /\ n \in {1, 2}
  <2>1. CASE n = 1
    BY <2>1, <1>1
  <2>2. CASE n = 2
    BY <2>2, <1>1
  <2> QED BY <2>1, <2>2
<1>4. ASSUME NEW i \in 1..n * m
      PROVE  1 + ((i - 1) \div n) \in 1..m /\ 1 + ((i - 1) % n) \in 1..n
  <2>1. CASE n = 1
    BY <2>1, <1>1
  <2>2. CASE n = 2
    BY <2>2, <1>1
  <2> QED BY <2>1, <2>2, <1>3
<1>5. ASSUME NEW i \in 1..n * m
      PROVE  /\ el(i) \in Sendable
             /\ \E j \in 1..n : el(i).event = evs[j]
  <2>1. order[1 + ((i - 1) \div n)] \in keys
    BY <1>1, <1>4, <1>5
  <2>2. evs[1 + ((i - 1) % n)] \in Events
    BY <1>4, <1>5
  <2>3. el(i) \in Sendable
    BY <2>1, <2>2, EventType
  <2>4. el(i).event = evs[1 + ((i - 1) % n)]
    BY Zenon DEF Event
  <2> QED BY <2>3, <2>4, <1>4, <1>5
<1> HIDE DEF el
<1>6. q = [i \in 1..n * m |-> el(i)]
  BY <1>2
<1>7. q \in [1..n * m -> Sendable]
  BY <1>5, <1>6
<1>8. q \in Seq(Sendable) /\ Len(q) = n * m
  BY <1>3, <1>7
<1>9. \A i \in 1..Len(q) : \E j \in 1..Len(evs) : q[i].event = evs[j]
  BY <1>5, <1>6, <1>8
<1>10. Sent(o, keys, evs) = o \o q
  BY DEF Sent, el
<1> QED BY <1>8, <1>9, <1>10

LEMMA HandedType ==
  ASSUME NEW x \in Handed
  PROVE  /\ x.s \in Statuses /\ x.o \in Seq(Sendable) /\ x.t \in Taps
         /\ x.s.down \in SUBSET Keys /\ x.s.ready \in SUBSET Keys /\ x.s.click \in SUBSET Keys
         /\ x.s.event \in {"NONE", "DOWN", "UP", "LONGPRESS", "LONGLONGPRESS"}
         /\ x.s.updown \in 0..LongLongPress /\ x.s.clicked \in 0..DoubleClick
         /\ x.s.repeats \in 0..Repeat - 1 /\ x.s.clicks \in 0..MaxClicks - 1
         /\ x.t.code \in SUBSET Keys /\ x.t.count \in Nat /\ x.t.apart \in BOOLEAN
  BY DEF Handed, Statuses, Taps, Long

LEMMA SentType ==
  ASSUME NEW o \in Seq(Sendable), NEW keys \in SUBSET Keys, NEW evs \in Seq(Events),
         Len(evs) \in {1, 2}
  PROVE  Sent(o, keys, evs) \in Seq(Sendable)
<1> PICK q \in Seq(Sendable) : Sent(o, keys, evs) = o \o q
  BY SentAdds
<1> QED OBVIOUS

LEMMA TapsChange ==
  /\ \A t \in Taps : [t EXCEPT !.count = @ + 1] \in Taps /\ [t EXCEPT !.apart = TRUE] \in Taps
  /\ \A t \in Taps : [t EXCEPT !.lost = FALSE] \in Taps
  /\ \A t \in Taps, code \in SUBSET Keys : NewTap(t, code) \in Taps
<1>1. ASSUME NEW t \in Taps
      PROVE  [t EXCEPT !.count = @ + 1] \in Taps
  BY DEF Taps
<1>2. ASSUME NEW t \in Taps
      PROVE  [t EXCEPT !.apart = TRUE] \in Taps
  BY Zenon DEF Taps
<1>3. ASSUME NEW t \in Taps
      PROVE  [t EXCEPT !.lost = FALSE] \in Taps
  BY Zenon DEF Taps
<1>4. ASSUME NEW t \in Taps, NEW code \in SUBSET Keys
      PROVE  NewTap(t, code) \in Taps
  <2> DEFINE lost == t.lost \/ t.count > 0
  <2>1. lost \in BOOLEAN
    BY DEF Taps
  <2>2. NewTap(t, code) = [code |-> code, count |-> 1, apart |-> FALSE, lost |-> lost]
    BY DEF NewTap
  <2> HIDE DEF lost
  <2>3. \A b \in BOOLEAN :
           [code |-> code, count |-> 1, apart |-> FALSE, lost |-> b] \in Taps
    BY <1>4, 1 \in Nat, FALSE \in BOOLEAN, Zenon DEF Taps
  <2> QED BY <2>1, <2>2, <2>3, Zenon
<1> QED BY <1>1, <1>2, <1>3, <1>4

LEMMA NewTapFields ==
  ASSUME NEW t, NEW code
  PROVE  /\ NewTap(t, code).code = code /\ NewTap(t, code).count = 1
         /\ ~t.lost /\ t.count = 0 => ~NewTap(t, code).lost
<1>1. ASSUME ~t.lost, t.count = 0
      PROVE  ~(t.lost \/ t.count > 0)
  BY <1>1
<1>2. NewTap(t, code).lost <=> t.lost \/ t.count > 0
  BY Zenon DEF NewTap
<1> QED BY <1>1, <1>2 DEF NewTap

LEMMA UpsType ==
  ASSUME NEW x \in Handed, NEW down \in SUBSET Keys
  PROVE  Ups(x, down) \in Handed
<1> DEFINE s == x.s
           up == s.down \ down
           long == s.event \in Long
           evs == IF long THEN <<"UP", "UP_AFTER_LONGPRESS">> ELSE <<"UP">>
           y == Ups(x, down)
           event == IF long /\ up # {} /\ s.ready \cap down = {} THEN "NONE"
                    ELSE IF up # {} /\ s.event = "DOWN" THEN "UP" ELSE s.event
           updown == IF up # {} THEN 0 ELSE s.updown
<1>1. s \in Statuses /\ x.o \in Seq(Sendable) /\ x.t \in Taps /\ up \in SUBSET Keys
  BY HandedType
<1>2. evs \in Seq(Events) /\ Len(evs) \in {1, 2}
  <2>1. <<"UP">> \in Seq(Events) /\ Len(<<"UP">>) = 1
    BY DEF Events
  <2>2. /\ <<"UP", "UP_AFTER_LONGPRESS">> \in Seq(Events)
        /\ Len(<<"UP", "UP_AFTER_LONGPRESS">>) = 2
    BY DEF Events
  <2> QED BY <2>1, <2>2, Zenon
<1>3. Sent(x.o, up, evs) \in Seq(Sendable)
  BY <1>1, <1>2, SentType
<1>4. y.s \in Statuses
  <2>1. event \in {"NONE", "DOWN", "UP"} \cup Long
    BY <1>1, HandedType DEF Long
  <2>2. updown \in 0..LongLongPress
    BY <1>1, HandedType, KeyCounts
  <2>3. y.s = [s EXCEPT !.event = event, !.updown = updown]
    BY Zenon DEF Ups
  <2> HIDE DEF event, updown
  <2> QED BY <1>1, <2>1, <2>2, <2>3 DEF Statuses
<1>5. y.t \in Taps
  <2>1. [x.t EXCEPT !.count = @ + 1] \in Taps
    BY <1>1, TapsChange, HandedType
  <2>2. NewTap(x.t, s.ready) \in Taps
    BY <1>1, TapsChange, HandedType
  <2> QED BY <1>1, <2>1, <2>2, Zenon DEF Ups
<1>6. y.o = Sent(x.o, up, evs)
  BY DEF Ups
<1>7. y = [s |-> y.s, o |-> y.o, t |-> y.t]
  BY DEF Ups
<1> QED BY <1>3, <1>4, <1>5, <1>6, <1>7 DEF Handed

\* What Clicks finds in key_status s when the keys down are now `down`.
Other(s) == s.click = {} \/ s.click # s.ready
Again(s, down) == ~Other(s) /\ s.down \ down # {} /\ s.down = s.click
Code(s) == IF Other(s) THEN s.ready ELSE s.click
Count(s, down) == IF Other(s) THEN 0 ELSE IF Again(s, down) THEN s.clicks + 1 ELSE s.clicks
Since(s, down) == IF Other(s) \/ Again(s, down) THEN 0 ELSE s.clicked
Ends(s, down) == Since(s, down) >= DoubleClick \/ Count(s, down) >= MaxClicks
Told(s, t) == IF Other(s) /\ s.click # {} THEN [t EXCEPT !.lost = FALSE] ELSE t
Before(s) == IF Other(s) /\ s.click # {} THEN <<Clicked(s, taps)>> ELSE <<>>

\* What it sends, o, after o0.
ClicksOut(s, down, t, o0, o) ==
  \E c : /\ c.click = Code(s) /\ c.clicks = Count(s, down)
         /\ o = o0 \o Before(s) \o (IF Ends(s, down) THEN <<Clicked(c, t)>> ELSE <<>>)

\* A press that has ended: what is counted, and the events.
LEMMA ClicksFields ==
  ASSUME NEW x \in Handed, NEW down \in SUBSET Keys, x.s.event = "UP",
         NEW s, s = x.s, NEW y, y = Clicks(x, down)
  PROVE  /\ Count(s, down) \in 0..MaxClicks
         /\ y.s \in Statuses
         /\ y.s.down = s.down /\ y.s.ready = s.ready
         /\ y.s.event = (IF Ends(s, down) THEN "NONE" ELSE "UP")
         /\ y.s.click = (IF Ends(s, down) THEN {} ELSE Code(s))
         /\ y.s.clicks = (IF Ends(s, down) THEN 0 ELSE Count(s, down))
         /\ y.t = (IF Ends(s, down) THEN NoTaps ELSE Told(s, x.t))
         /\ ClicksOut(s, down, Told(s, x.t), x.o, y.o)
<1> DEFINE c == [s EXCEPT !.click = Code(s), !.clicks = Count(s, down), !.clicked = Since(s, down)]
           none == [c EXCEPT !.click = {}, !.clicks = 0, !.event = "NONE"]
<1>1. s \in Statuses /\ x.o \in Seq(Sendable) /\ x.t \in Taps
  BY HandedType
<1>2. /\ s.down \in SUBSET Keys /\ s.ready \in SUBSET Keys /\ s.click \in SUBSET Keys
      /\ s.clicked \in 0..DoubleClick /\ s.clicks \in 0..MaxClicks - 1
  BY HandedType
<1>3. /\ Count(s, down) \in 0..MaxClicks /\ Since(s, down) \in 0..DoubleClick
      /\ Code(s) \in SUBSET Keys
  BY <1>2, KeyCounts DEF Count, Since, Code
<1>4. /\ c.click = Code(s) /\ c.clicks = Count(s, down) /\ c.clicked = Since(s, down)
      /\ c.event = "UP" /\ c.down = s.down /\ c.ready = s.ready
      /\ c.repeats = s.repeats /\ c.updown = s.updown
  BY <1>1 DEF Statuses
<1>5. /\ y.s = (IF Ends(s, down) THEN none ELSE c)
      /\ y.t = (IF Ends(s, down) THEN NoTaps ELSE Told(s, x.t))
      /\ y.o = x.o \o Before(s)
                   \o (IF Ends(s, down) THEN <<Clicked(c, Told(s, x.t))>> ELSE <<>>)
  <2>1. c.clicked = Since(s, down) /\ c.clicks = Count(s, down)
    BY <1>4
  <2>2. Ends(s, down) <=> c.clicked >= DoubleClick \/ c.clicks >= MaxClicks
    BY <2>1, Zenon DEF Ends
  <2> QED BY <2>2, Zenon DEF Clicks, Other, Again, Code, Count, Since, Before, Told
<1>6. c \in [down : SUBSET Keys, ready : SUBSET Keys, click : SUBSET Keys,
            event : {"NONE", "DOWN", "UP"} \cup Long, updown : 0..LongLongPress,
            clicked : 0..DoubleClick, repeats : 0..Repeat - 1, clicks : 0..MaxClicks]
  <2>1. s \in [down : SUBSET Keys, ready : SUBSET Keys, click : SUBSET Keys,
            event : {"NONE", "DOWN", "UP"} \cup Long, updown : 0..LongLongPress,
            clicked : 0..DoubleClick, repeats : 0..Repeat - 1, clicks : 0..MaxClicks]
    BY <1>1, KeyCounts DEF Statuses
  <2> QED BY <2>1, <1>3
<1> HIDE DEF c
<1>7. /\ none \in Statuses /\ none.down = s.down /\ none.ready = s.ready /\ none.event = "NONE"
      /\ none.click = {} /\ none.clicks = 0
  <2>1. 0 \in 0..MaxClicks - 1 /\ {} \in SUBSET Keys
    BY KeyCounts
  <2>2. none \in Statuses
    BY <1>6, <2>1 DEF Statuses
  <2>3. none.down = c.down /\ none.ready = c.ready
    BY <1>6
  <2>4. none.event = "NONE" /\ none.click = {} /\ none.clicks = 0
    BY <1>6
  <2> QED BY <1>4, <2>2, <2>3, <2>4
<1>8. ~Ends(s, down) => c \in Statuses
  <2>1. ~Ends(s, down) => c.clicks \in 0..MaxClicks - 1
    BY <1>3, <1>4, KeyCounts DEF Ends
  <2> QED BY <2>1, <1>6 DEF Statuses
<1> HIDE DEF none
<1>9. ClicksOut(s, down, Told(s, x.t), x.o, y.o)
  BY <1>4, <1>5, Zenon DEF ClicksOut
<1> QED BY <1>3, <1>4, <1>5, <1>7, <1>8, <1>9, Zenon

LEMMA ClicksType ==
  ASSUME NEW x \in Handed, NEW down \in SUBSET Keys, taps \in Taps
  PROVE  Clicks(x, down) \in Handed
<1> DEFINE s == x.s
           y == Clicks(x, down)
           t == Told(s, x.t)
<1>0. t \in Taps
  BY HandedType, TapsChange DEF Told
<1>1. CASE s.event # "UP"
  BY <1>1, Zenon DEF Clicks
<1>2. CASE s.event = "UP"
  <2> HIDE DEF t
  <2>1. /\ Count(s, down) \in 0..MaxClicks /\ y.s \in Statuses
        /\ y.t = (IF Ends(s, down) THEN NoTaps ELSE t)
        /\ ClicksOut(s, down, t, x.o, y.o)
    BY <1>2, ClicksFields DEF t
  <2>2. PICK c : /\ c.click = Code(s) /\ c.clicks = Count(s, down)
                 /\ y.o = x.o \o Before(s)
                              \o (IF Ends(s, down) THEN <<Clicked(c, t)>> ELSE <<>>)
    BY <2>1 DEF ClicksOut
  <2> DEFINE after == IF Ends(s, down) THEN <<Clicked(c, t)>> ELSE <<>>
  <2>3. y.t \in Taps
    BY <1>0, <2>1, NoTapsType
  <2>4. Clicked(c, t) \in Sendable
    <3>1. c.click \in SUBSET Keys
      BY <2>2, HandedType DEF Code
    <3> QED BY <1>0, <3>1, <2>1, <2>2, ClickedType
  <2>5. Clicked(s, taps) \in Sendable
    <3>1. s.clicks \in 0..MaxClicks
      BY HandedType, KeyCounts
    <3> QED BY <3>1, HandedType, ClickedType
  <2>6. Before(s) \in Seq(Sendable) /\ after \in Seq(Sendable) /\ x.o \in Seq(Sendable)
    BY <2>4, <2>5, HandedType DEF Before
  <2>7. y.o \in Seq(Sendable)
    <3> HIDE DEF after
    <3>1. y.o = (x.o \o Before(s)) \o after
      BY <2>2 DEF after
    <3> QED BY <2>6, <3>1
  <2>8. y = [s |-> y.s, o |-> y.o, t |-> y.t]
    BY <1>2 DEF Clicks
  <2> HIDE DEF y
  <2>9. y \in Handed
    BY <2>1, <2>3, <2>7, <2>8, Zenon DEF Handed
  <2> QED BY <2>9 DEF y
<1> QED BY <1>1, <1>2

\* Two events for each of some keys, none of them a click.
PairsSent(keys, o0, o) ==
  \E evs \in Seq(Events) : /\ Len(evs) = 2 /\ evs[1] # "CLICK" /\ evs[2] # "CLICK"
                           /\ o = Sent(o0, keys, evs)

\* What a key that was not down makes of key_status s, unless in a long press.
PressedNow(s, down, s1) ==
  IF down \ s.down # {} /\ ~(s.event \in Long)
  THEN s1.ready = down /\ s1.event = "DOWN"
  ELSE s1.ready = s.ready /\ s1.event = s.event

\* The keys that are down now.
LEMMA DownsFields ==
  ASSUME NEW x \in Handed, NEW down \in SUBSET Keys,
         NEW s, s = x.s, NEW y, y = Downs(x, down)
  PROVE  /\ y \in Handed
         /\ y.s.down = down /\ y.s.click = s.click /\ y.s.clicks = s.clicks
         /\ PressedNow(s, down, y.s)
         /\ y.t = x.t
         /\ PairsSent(down \ s.down, x.o, y.o)
<1> DEFINE new == down \ s.down
           short == s.event \in {"NONE", "DOWN", "UP"}
           ready == IF new # {} /\ short THEN down ELSE s.ready
           updown == IF new # {} THEN 0 ELSE s.updown
           event == IF new # {} /\ short THEN "DOWN" ELSE s.event
           which == IF s.event = "NONE" THEN "FIRST_DOWN" ELSE "CONTINUED_DOWN"
           evs == <<"DOWN", which>>
<1>1. s \in Statuses /\ x.o \in Seq(Sendable) /\ x.t \in Taps
  BY HandedType
<1>2. short <=> ~(s.event \in Long)
  BY HandedType DEF Long
<1>3. y.s = [s EXCEPT !.down = down, !.ready = ready, !.updown = updown, !.event = event]
  BY Zenon DEF Downs
<1>4. /\ ready \in SUBSET Keys /\ updown \in 0..LongLongPress
      /\ event \in {"NONE", "DOWN", "UP"} \cup Long
  BY HandedType, KeyCounts DEF Long
<1>5. y.s \in Statuses /\ y.s.down = down /\ y.s.click = s.click /\ y.s.clicks = s.clicks
      /\ y.s.ready = ready /\ y.s.event = event
  <2> HIDE DEF ready, updown, event
  <2> QED BY <1>1, <1>3, <1>4 DEF Statuses
<1>6. y.t = x.t /\ y.o = Sent(x.o, down \ s.down, evs)
  BY Zenon DEF Downs
<1>7. evs \in Seq(Events) /\ Len(evs) = 2 /\ evs[1] # "CLICK" /\ evs[2] # "CLICK"
  BY DEF Events
<1>8. y.o \in Seq(Sendable)
  <2> HIDE DEF evs
  <2>1. down \ s.down \in SUBSET Keys
    OBVIOUS
  <2> QED BY <1>1, <1>6, <1>7, <2>1, SentType
<1>9. y \in Handed
  <2>1. y = [s |-> y.s, o |-> y.o, t |-> y.t]
    BY DEF Downs
  <2> QED BY <1>1, <1>5, <1>6, <1>8, <2>1, Zenon DEF Handed
<1>10. PressedNow(s, down, y.s)
  BY <1>2, <1>5 DEF PressedNow
<1> HIDE DEF evs
<1>11. PairsSent(down \ s.down, x.o, y.o)
  BY <1>6, <1>7 DEF PairsSent
<1> QED BY <1>5, <1>6, <1>9, <1>10, <1>11

\* Events that are no clicks.
OthersSent(o0, o) ==
  \E q \in Seq(Sendable) : (\A i \in 1..Len(q) : q[i].event # "CLICK") /\ o = o0 \o q

\* The long presses that are due.
LEMMA LongPressesFields ==
  ASSUME NEW x \in Handed, NEW s, s = x.s, NEW y, y = LongPresses(x)
  PROVE  /\ y \in Handed
         /\ y.s.down = s.down /\ y.s.ready = s.ready
         /\ y.s.click = s.click /\ y.s.clicks = s.clicks
         /\ \/ y.s.event = s.event
            \/ s.event \in Long \cup {"DOWN"} /\ y.s.event \in Long /\ s.ready \subseteq s.down
         /\ y.t.code = x.t.code /\ y.t.count = x.t.count /\ y.t.lost = x.t.lost
         /\ OthersSent(x.o, y.o)
<1> DEFINE starts == s.event = "DOWN" /\ s.updown >= LongPress
           goes == s.event \in Long
           repeats == goes /\ s.repeats + 1 = Repeat
           lasts == s.event = "LONGPRESS" /\ s.updown >= LongLongPress
           event == IF starts THEN "LONGPRESS" ELSE IF lasts THEN "LONGLONGPRESS" ELSE s.event
           n == IF starts \/ repeats THEN 0 ELSE IF goes THEN s.repeats + 1 ELSE s.repeats
           q1 == IF starts THEN <<Event(s.ready, "LONGPRESS")>> ELSE <<>>
           q2 == IF repeats THEN <<Event(s.ready, "REPEAT")>> ELSE <<>>
           q3 == IF lasts THEN <<Event(s.ready, "LONGLONGPRESS")>> ELSE <<>>
<1>1. s \in Statuses /\ x.o \in Seq(Sendable) /\ x.t \in Taps /\ s.ready \in SUBSET Keys
  BY HandedType
<1>2. CASE ~(s.ready \subseteq s.down)
  <2>1. y = x
    BY <1>2, Zenon DEF LongPresses
  <2>2. x.o = x.o \o <<>> /\ <<>> \in Seq(Sendable) /\ 1..Len(<<>>) = {}
    BY <1>1
  <2>3. \A i \in 1..Len(<<>>) : <<>>[i].event # "CLICK"
    BY <2>2
  <2>4. OthersSent(x.o, x.o)
    BY <2>2, <2>3 DEF OthersSent
  <2> QED BY <2>1, <2>4
<1>3. CASE s.ready \subseteq s.down
  <2>1. /\ y.s = [s EXCEPT !.event = event, !.repeats = n]
        /\ y.o = x.o \o q1 \o q2 \o q3
        /\ y.t = (IF starts /\ x.t.count > 0 THEN [x.t EXCEPT !.apart = TRUE] ELSE x.t)
        /\ y = [s |-> y.s, o |-> y.o, t |-> y.t]
    BY <1>3 DEF LongPresses
  <2>2. n \in 0..Repeat - 1
    BY HandedType, KeyCounts, SMTT(30)
  <2>3. /\ event \in {"NONE", "DOWN", "UP"} \cup Long
        /\ event = s.event \/ (s.event \in Long \cup {"DOWN"} /\ event \in Long)
    BY HandedType DEF Long
  <2>4. /\ y.s \in Statuses /\ y.s.down = s.down /\ y.s.ready = s.ready
        /\ y.s.click = s.click /\ y.s.clicks = s.clicks /\ y.s.event = event
    <3> HIDE DEF event, n
    <3> QED BY <1>1, <2>1, <2>2, <2>3 DEF Statuses
  <2>5. y.t \in Taps
    <3>1. [x.t EXCEPT !.apart = TRUE] \in Taps
      BY <1>1, TapsChange
    <3> QED BY <1>1, <2>1, <3>1, Zenon
  <2>6. y.t.code = x.t.code /\ y.t.count = x.t.count /\ y.t.lost = x.t.lost
    <3>1. /\ [x.t EXCEPT !.apart = TRUE].code = x.t.code
          /\ [x.t EXCEPT !.apart = TRUE].count = x.t.count
          /\ [x.t EXCEPT !.apart = TRUE].lost = x.t.lost
      BY <1>1 DEF Taps
    <3> QED BY <2>1, <3>1, Zenon
  <2>7. \A e \in {"LONGPRESS", "REPEAT", "LONGLONGPRESS"} :
           Event(s.ready, e) \in Sendable /\ Event(s.ready, e).event # "CLICK"
    <3>1. \A e \in {"LONGPRESS", "REPEAT", "LONGLONGPRESS"} : e \in Events /\ e # "CLICK"
      BY DEF Events
    <3>2. \A e : Event(s.ready, e).event = e
      BY Zenon DEF Event
    <3> QED BY <1>1, <3>1, <3>2, EventType
  <2>8. \A q \in {q1, q2, q3} : q \in Seq(Sendable) /\ \A i \in 1..Len(q) : q[i].event # "CLICK"
    <3>1. ASSUME NEW e \in {"LONGPRESS", "REPEAT", "LONGLONGPRESS"}
          PROVE  /\ <<Event(s.ready, e)>> \in Seq(Sendable)
                 /\ \A i \in 1..Len(<<Event(s.ready, e)>>) :
                      <<Event(s.ready, e)>>[i].event # "CLICK"
      BY <2>7, <3>1
    <3>2. <<>> \in Seq(Sendable) /\ \A i \in 1..Len(<<>>) : <<>>[i].event # "CLICK"
      BY Len(<<>>) = 0
    <3> QED BY <3>1, <3>2, Zenon
  <2> HIDE DEF q1, q2, q3
  <2>9. q1 \o q2 \o q3 \in Seq(Sendable) /\ y.o = x.o \o (q1 \o q2 \o q3)
    <3>1. q1 \in Seq(Sendable) /\ q2 \in Seq(Sendable) /\ q3 \in Seq(Sendable)
      BY <2>8
    <3>2. q1 \o q2 \o q3 \in Seq(Sendable)
      BY <3>1
    <3> DEFINE o == x.o
    <3>3. o \in Seq(Sendable)
      BY <1>1
    <3> HIDE DEF o
    <3>4. o \o (q1 \o q2 \o q3) = o \o q1 \o q2 \o q3
      BY ONLY <3>1, <3>3, SMTT(30)
    <3>5. y.o = o \o q1 \o q2 \o q3
      BY <2>1 DEF o
    <3> QED BY <3>2, <3>4, <3>5, Zenon DEF o
  <2>10. \A i \in 1..Len(q1 \o q2 \o q3) : (q1 \o q2 \o q3)[i].event # "CLICK"
    <3>1. /\ q1 \o q2 \in Seq(Sendable)
          /\ \A i \in 1..Len(q1 \o q2) : (q1 \o q2)[i].event # "CLICK"
      BY <2>8
    <3> QED BY <2>8, <3>1
  <2>11. y \in Handed
    <3>1. y.o \in Seq(Sendable)
      BY <1>1, <2>9
    <3> QED BY <2>1, <2>4, <2>5, <3>1, Zenon DEF Handed
  <2>12. OthersSent(x.o, y.o)
    BY <2>9, <2>10 DEF OthersSent
  <2> HIDE DEF event
  <2> QED BY <1>3, <2>3, <2>4, <2>6, <2>11, <2>12
<1> QED BY <1>2, <1>3

---------------------------------------------------------------------------
(* A run of the timer, step by step.                                         *)

DownNow == PwrScan.down \cup GpioScan.down
UpNow == PwrScan.up \cup GpioScan.up

AfterUps == Ups(Start, DownNow)
AfterClicks == Clicks(AfterUps, DownNow)
AfterDowns == Downs(AfterClicks, DownNow)
AfterLong == LongPresses(AfterDowns)

Goes == Watching(PwrScan.keep, GpioScan.keep) \/ AfterLong.s.event # "NONE"

LEMMA RunStep ==
  ASSUME hal_key_debounce_handler
  PROVE  /\ timer = "running"
         /\ phase # "open" => closeRuns < MaxCloseRuns
         /\ pwr' = PwrScan.keep /\ pin' = GpioScan.keep
         /\ irqOn' = (IF noGroupKey /\ UpNow # {} THEN Keys ELSE irqOn \cup UpNow)
         /\ status' = AfterLong.s /\ taps' = AfterLong.t
         /\ out' = (IF phase = "closed" THEN <<>> ELSE AfterLong.o)
         /\ timerActive' = Goes
         /\ timer' = (IF phase \in {"stopped", "closed"} THEN "none"
                      ELSE IF Goes THEN "running" ELSE "stopped")
         /\ closeRuns' = (IF phase = "open" THEN 0 ELSE closeRuns + 1)
         /\ UNCHANGED <<noGroupKey, fitted, raw, edge, phase>>
<1>1. PICK p \in {PwrScan}, g \in {GpioScan} :
      \E down \in {p.down \cup g.down}, up \in {p.up \cup g.up} :
      \E ups \in {Ups(Start, down)} :
      \E clicks \in {Clicks(ups, down)} :
      \E downs \in {Downs(clicks, down)} :
      \E x \in {LongPresses(downs)} :
      \E again \in {Watching(p.keep, g.keep) \/ x.s.event # "NONE"} :
         /\ pwr' = p.keep
         /\ pin' = g.keep
         /\ irqOn' = IF noGroupKey /\ up # {} THEN Keys ELSE irqOn \cup up
         /\ status' = x.s
         /\ taps' = x.t
         /\ out' = IF phase = "closed" THEN <<>> ELSE x.o
         /\ timerActive' = again
         /\ timer' = IF phase \in {"stopped", "closed"} THEN "none"
                     ELSE IF again THEN "running" ELSE "stopped"
  BY Zenon DEF hal_key_debounce_handler
<1>2. PICK down \in {p.down \cup g.down}, up \in {p.up \cup g.up} :
      \E ups \in {Ups(Start, down)} :
      \E clicks \in {Clicks(ups, down)} :
      \E downs \in {Downs(clicks, down)} :
      \E x \in {LongPresses(downs)} :
      \E again \in {Watching(p.keep, g.keep) \/ x.s.event # "NONE"} :
         /\ pwr' = p.keep
         /\ pin' = g.keep
         /\ irqOn' = IF noGroupKey /\ up # {} THEN Keys ELSE irqOn \cup up
         /\ status' = x.s
         /\ taps' = x.t
         /\ out' = IF phase = "closed" THEN <<>> ELSE x.o
         /\ timerActive' = again
         /\ timer' = IF phase \in {"stopped", "closed"} THEN "none"
                     ELSE IF again THEN "running" ELSE "stopped"
  BY <1>1, Zenon
<1>3. p = PwrScan /\ g = GpioScan /\ down = DownNow /\ up = UpNow
  BY DEF DownNow, UpNow
<1>4. /\ pwr' = PwrScan.keep /\ pin' = GpioScan.keep
      /\ irqOn' = (IF noGroupKey /\ UpNow # {} THEN Keys ELSE irqOn \cup UpNow)
      /\ status' = AfterLong.s /\ taps' = AfterLong.t
      /\ out' = (IF phase = "closed" THEN <<>> ELSE AfterLong.o)
      /\ timerActive' = Goes
      /\ timer' = (IF phase \in {"stopped", "closed"} THEN "none"
                   ELSE IF Goes THEN "running" ELSE "stopped")
  <2>1. /\ AfterUps = Ups(Start, down)
        /\ AfterClicks = Clicks(AfterUps, down)
        /\ AfterDowns = Downs(AfterClicks, down)
        /\ AfterLong = LongPresses(AfterDowns)
        /\ Goes = (Watching(p.keep, g.keep) \/ AfterLong.s.event # "NONE")
    BY <1>3, Zenon DEF AfterUps, AfterClicks, AfterDowns, AfterLong, Goes
  <2>2. PICK again \in {Goes} :
         /\ pwr' = p.keep
         /\ pin' = g.keep
         /\ irqOn' = IF noGroupKey /\ up # {} THEN Keys ELSE irqOn \cup up
         /\ status' = AfterLong.s
         /\ taps' = AfterLong.t
         /\ out' = IF phase = "closed" THEN <<>> ELSE AfterLong.o
         /\ timerActive' = again
         /\ timer' = IF phase \in {"stopped", "closed"} THEN "none"
                     ELSE IF again THEN "running" ELSE "stopped"
    BY <1>2, <2>1
  <2>3. again = Goes
    OBVIOUS
  <2>4. pwr' = PwrScan.keep /\ pin' = GpioScan.keep
    BY <1>3, <2>2, Zenon
  <2>5. irqOn' = (IF noGroupKey /\ UpNow # {} THEN Keys ELSE irqOn \cup UpNow)
    BY <1>3, <2>2, Zenon
  <2>6. /\ status' = AfterLong.s /\ taps' = AfterLong.t
        /\ out' = (IF phase = "closed" THEN <<>> ELSE AfterLong.o)
    BY <2>2, Zenon
  <2>7. /\ timerActive' = Goes
        /\ timer' = (IF phase \in {"stopped", "closed"} THEN "none"
                     ELSE IF Goes THEN "running" ELSE "stopped")
    BY <2>2, <2>3, Zenon
  <2> QED BY <2>4, <2>5, <2>6, <2>7, Zenon
<1>5. /\ timer = "running"
      /\ phase # "open" => closeRuns < MaxCloseRuns
      /\ closeRuns' = (IF phase = "open" THEN 0 ELSE closeRuns + 1)
      /\ UNCHANGED <<noGroupKey, fitted, raw, edge, phase>>
  BY DEF hal_key_debounce_handler
<1> QED BY <1>4, <1>5

\* What becomes of the power key.
LEMMA PwrScanFacts ==
  ASSUME pwr \in Pwrs
  PROVE  /\ PwrScan.keep \in Pwrs
         /\ PwrScan.down \in SUBSET {PwrKey} /\ PwrScan.up \in SUBSET {PwrKey}
<1> DEFINE p == [pwr EXCEPT !.age = Older(@, DebounceInterval)]
<1>1. p \in Pwrs
  BY DEF Pwrs, Older, DebounceInterval
<1>2. PwrScan.down \in SUBSET {PwrKey} /\ PwrScan.up \in SUBSET {PwrKey}
  BY DEF PwrScan
<1> DEFINE pressed == PwrKey \in raw
<1>3. /\ [p EXCEPT !.pressed = TRUE, !.debounce = FALSE, !.dither = FALSE] \in Pwrs
      /\ [p EXCEPT !.pressed = TRUE, !.dither = FALSE] \in Pwrs
      /\ [p EXCEPT !.dither = FALSE, !.pressed = FALSE] \in Pwrs
      /\ [p EXCEPT !.pressed = pressed] \in Pwrs
  <2> HIDE DEF p
  <2>1. TRUE \in BOOLEAN /\ FALSE \in BOOLEAN /\ pressed \in BOOLEAN
    OBVIOUS
  <2> HIDE DEF pressed
  <2> QED BY <1>1, <2>1 DEF Pwrs
<1>4. [debounce |-> FALSE, dither |-> TRUE, pressed |-> FALSE, age |-> 0] \in Pwrs
  BY 0 \in 0..2, Zenon DEF Pwrs, DebounceInterval
<1>5. PwrScan.keep \in {[p EXCEPT !.pressed = TRUE, !.debounce = FALSE, !.dither = FALSE],
                        [p EXCEPT !.pressed = TRUE, !.dither = FALSE],
                        [debounce |-> FALSE, dither |-> TRUE, pressed |-> FALSE, age |-> 0],
                        [p EXCEPT !.dither = FALSE, !.pressed = FALSE],
                        [p EXCEPT !.pressed = pressed], p}
  BY Zenon DEF PwrScan
<1> HIDE DEF p
<1> QED BY <1>1, <1>2, <1>3, <1>4, <1>5

\* What becomes of the keys on GPIO pins.
LEMMA GpioScanFacts ==
  ASSUME pin \in Pins
  PROVE  /\ GpioScan.keep \in Pins
         /\ GpioScan.down \in SUBSET GpioKeys /\ GpioScan.up \in SUBSET GpioKeys
<1> DEFINE p == [pin EXCEPT !.debounceAge = Older(@, DebounceInterval),
                            !.ditherAge = Older(@, DitherInterval)]
           settled == IF p.ditherAge >= DitherInterval THEN p.dither ELSE {}
           held == p.down \cap raw
           added == IF p.debounceAge >= DebounceInterval THEN p.debounce \cap raw ELSE {}
           bounced == p.debounce \ raw
<1>1. /\ p \in Pins /\ p.debounce = pin.debounce /\ p.dither = pin.dither /\ p.down = pin.down
  <2>1. pin.debounceAge \in -1..2 /\ pin.ditherAge \in -1..1
    BY DEF Pins, DebounceInterval, DitherInterval
  <2>2. /\ Older(pin.debounceAge, DebounceInterval) \in -1..DebounceInterval
        /\ Older(pin.ditherAge, DitherInterval) \in -1..DitherInterval
    BY <2>1 DEF Older, DebounceInterval, DitherInterval
  <2> QED BY <2>2 DEF Pins
<1>2. /\ GpioScan.keep = [p EXCEPT !.debounce = @ \ (added \cup bounced),
                                   !.dither = (@ \ settled) \cup bounced,
                                   !.down = held \cup added]
      /\ GpioScan.down = held \cup added
      /\ GpioScan.up = settled \cup (p.down \ raw)
  BY Zenon DEF GpioScan
<1>3. /\ settled \in SUBSET GpioKeys /\ held \in SUBSET GpioKeys /\ added \in SUBSET GpioKeys
      /\ bounced \in SUBSET GpioKeys /\ p.down \in SUBSET GpioKeys
  BY <1>1 DEF Pins
<1> HIDE DEF p, settled, held, added, bounced
<1> QED BY <1>1, <1>2, <1>3 DEF Pins

\* What the next run starts from.
LEMMA StartFields ==
  ASSUME KeyTypeOK
  PROVE  /\ Start \in Handed
         /\ Start.s.down = status.down /\ Start.s.ready = status.ready
         /\ Start.s.click = status.click /\ Start.s.event = status.event
         /\ Start.s.clicks = status.clicks
         /\ Start.t = taps /\ Start.o = <<>>
<1>1. status \in Statuses /\ taps \in Taps
  BY DEF KeyTypeOK, Statuses
<1>2. /\ Older(status.updown, LongLongPress) \in 0..LongLongPress
      /\ Older(status.clicked, DoubleClick) \in 0..DoubleClick
  BY <1>1, KeyCounts DEF Older, Statuses
<1>3. /\ Aged(status) \in Statuses
      /\ Aged(status).down = status.down /\ Aged(status).ready = status.ready
      /\ Aged(status).click = status.click /\ Aged(status).event = status.event
      /\ Aged(status).clicks = status.clicks
  BY <1>1, <1>2 DEF Aged, Statuses
<1>4. /\ Start = [s |-> Aged(status), o |-> <<>>, t |-> taps]
      /\ Start.s = Aged(status) /\ Start.t = taps /\ Start.o = <<>>
  BY Zenon DEF Start
<1>5. <<>> \in Seq(Sendable)
  OBVIOUS
<1> QED BY <1>1, <1>3, <1>4, <1>5, Zenon DEF Handed

LEMMA RunTypes ==
  ASSUME KeyTypeOK
  PROVE  /\ PwrScan.keep \in Pwrs /\ GpioScan.keep \in Pins
         /\ DownNow \in SUBSET Keys /\ UpNow \in SUBSET Keys
         /\ AfterUps \in Handed /\ AfterClicks \in Handed
         /\ AfterDowns \in Handed /\ AfterLong \in Handed
<1>1. pwr \in Pwrs /\ pin \in Pins /\ taps \in Taps
  BY DEF KeyTypeOK, Pwrs, Pins
<1>2. /\ PwrScan.keep \in Pwrs
      /\ PwrScan.down \in SUBSET {PwrKey} /\ PwrScan.up \in SUBSET {PwrKey}
  BY <1>1, PwrScanFacts
<1>3. /\ GpioScan.keep \in Pins
      /\ GpioScan.down \in SUBSET GpioKeys /\ GpioScan.up \in SUBSET GpioKeys
  BY <1>1, GpioScanFacts
<1>4. DownNow \in SUBSET Keys /\ UpNow \in SUBSET Keys
  BY <1>2, <1>3 DEF DownNow, UpNow, Keys
<1>5. AfterUps \in Handed
  BY <1>4, StartFields, UpsType DEF AfterUps
<1>6. AfterClicks \in Handed
  BY <1>1, <1>4, <1>5, ClicksType DEF AfterClicks
<1>7. AfterDowns \in Handed
  BY <1>4, <1>6, DownsFields DEF AfterDowns
<1>8. AfterLong \in Handed
  BY <1>7, LongPressesFields DEF AfterLong
<1> QED BY <1>2, <1>3, <1>4, <1>5, <1>6, <1>7, <1>8

---------------------------------------------------------------------------
(* The types are kept.                                                       *)

\* The types in the words of the proofs.
KeyTypes ==
  /\ noGroupKey \in BOOLEAN
  /\ fitted \subseteq Keys /\ raw \subseteq Keys /\ irqOn \subseteq Keys /\ edge \in BOOLEAN
  /\ pwr \in Pwrs /\ pin \in Pins
  /\ timerActive \in BOOLEAN /\ timer \in {"none", "stopped", "running"}
  /\ status \in Statuses
  /\ phase \in {"closed", "open"} \cup Closing
  /\ closeRuns \in 0..MaxCloseRuns
  /\ taps \in Taps
  /\ out \in Seq(Sendable)

LEMMA Types == (KeyTypeOK <=> KeyTypes) /\ (KeyTypeOK' <=> KeyTypes')
<1>1. {"closed", "open"} \cup Closing =
      {"closed", "open", "disabled", "pwr reset", "pwr closed", "gpio reset",
       "gpio closed", "timer stopped", "stopped"}
  BY DEF Closing
<1> QED BY <1>1, Zenon DEF KeyTypeOK, KeyTypes, OutIsSequence, Pwrs, Pins, Statuses, Sendable

LEMMA RunKeepsTypes == KeyTypeOK /\ hal_key_debounce_handler => KeyTypeOK'
<1> SUFFICES ASSUME KeyTypeOK, hal_key_debounce_handler PROVE KeyTypeOK'
  OBVIOUS
<1>1. /\ pwr' \in Pwrs /\ pin' \in Pins /\ status' \in Statuses /\ taps' \in Taps
      /\ AfterLong.o \in Seq(Sendable)
  BY RunStep, RunTypes, HandedType
<1>2. out' \in Seq(Sendable)
  <2>1. <<>> \in Seq(Sendable)
    OBVIOUS
  <2> QED BY <1>1, <2>1, RunStep, Zenon
<1>3. irqOn' \subseteq Keys
  BY RunStep, RunTypes, Types DEF KeyTypes
<1>4. Goes \in BOOLEAN
  BY Zenon DEF Goes
<1>5. timerActive' \in BOOLEAN
  BY <1>4, RunStep, Zenon
<1>6. timer' \in {"none", "stopped", "running"}
  BY RunStep
<1>7. closeRuns' \in 0..MaxCloseRuns
  BY RunStep, Types, KeyCounts DEF KeyTypes
<1>8. noGroupKey' = noGroupKey /\ fitted' = fitted /\ raw' = raw /\ edge' = edge /\ phase' = phase
  BY RunStep
<1> QED BY <1>1, <1>2, <1>3, <1>5, <1>6, <1>7, <1>8, Types, Zenon DEF KeyTypes

LEMMA NothingSent == <<>> \in Seq(Sendable)
  OBVIOUS

LEMMA NoTypes == NoPwr \in Pwrs /\ NoPin \in Pins /\ NoStatus \in Statuses /\ NoTaps \in Taps
<1>1. NoPwr \in Pwrs
  <2>1. DebounceInterval \in 0..DebounceInterval
    BY DEF DebounceInterval
  <2> QED BY <2>1, Zenon DEF NoPwr, Pwrs
<1>2. NoPin \in Pins
  <2>1. DebounceInterval \in -1..DebounceInterval /\ DitherInterval \in -1..DitherInterval
    BY DEF DebounceInterval, DitherInterval
  <2>2. {} \in SUBSET GpioKeys
    OBVIOUS
  <2> QED BY <2>1, <2>2, Zenon DEF NoPin, Pins
<1>3. NoStatus \in Statuses
  <2>1. /\ LongLongPress \in 0..LongLongPress /\ DoubleClick \in 0..DoubleClick
        /\ 0 \in 0..Repeat - 1 /\ 0 \in 0..MaxClicks - 1
        /\ {} \in SUBSET Keys /\ "NONE" \in {"NONE", "DOWN", "UP"} \cup Long
    BY KeyCounts
  <2> QED BY <2>1, Zenon DEF NoStatus, Statuses
<1> QED BY <1>1, <1>2, <1>3, NoTapsType

LEMMA InitTypes == KeyInit => KeyTypeOK
<1> SUFFICES ASSUME KeyInit PROVE KeyTypes
  BY Types
<1>1. noGroupKey \in BOOLEAN /\ fitted \subseteq Keys /\ 0 \in 0..MaxCloseRuns
  BY HalKeyAssumption DEF KeyInit
<1>2. edge \in BOOLEAN /\ timerActive \in BOOLEAN
  BY Zenon DEF KeyInit
<1>3. /\ raw \subseteq Keys /\ irqOn \subseteq Keys /\ timer \in {"none", "stopped", "running"}
      /\ phase \in {"closed", "open"} \cup Closing /\ closeRuns = 0
      /\ out \in Seq(Sendable)
  BY DEF KeyInit
<1>4. pwr \in Pwrs /\ pin \in Pins /\ status \in Statuses /\ taps \in Taps
  BY NoTypes DEF KeyInit
<1> QED BY <1>1, <1>2, <1>3, <1>4, Zenon DEF KeyTypes

\* The interrupts turn some off and start the timer.
LEMMA DisableTypes ==
  ASSUME KeyTypeOK, NEW k, Disable(k), Restart
  PROVE  /\ irqOn' \in SUBSET Keys /\ edge' \in BOOLEAN
         /\ timerActive' \in BOOLEAN /\ timer' \in {"none", "stopped", "running"}
<1>1. KeyTypes
  BY Types
<1>2. irqOn' \in SUBSET Keys
  BY <1>1 DEF KeyTypes, Disable
<1>3. edge' \in BOOLEAN
  BY <1>1, Zenon DEF KeyTypes, Disable
<1>4. timerActive' \in BOOLEAN
  BY Zenon DEF Restart
<1>5. timer' \in {"none", "stopped", "running"}
  BY <1>1 DEF KeyTypes, Restart
<1> QED BY <1>2, <1>3, <1>4, <1>5

LEMMA GpioIrqTypes ==
  ASSUME KeyTypeOK, NEW k \in GpioKeys, hal_gpiokey_irqhandler(k)
  PROVE  KeyTypeOK'
<1> SUFFICES KeyTypes'
  BY Types
<1>1. KeyTypes /\ Disable(k) /\ Restart
  BY Types DEF hal_gpiokey_irqhandler
<1>2. /\ irqOn' \subseteq Keys /\ edge' \in BOOLEAN
      /\ timerActive' \in BOOLEAN /\ timer' \in {"none", "stopped", "running"}
  BY <1>1, DisableTypes
<1>3. raw' \subseteq Keys
  BY <1>1 DEF KeyTypes, hal_gpiokey_irqhandler
<1>4. pin' \in Pins
  <2>1. New \in -1..2 /\ New \in -1..1
    BY DEF New
  <2>2. /\ pin \in Pins
        /\ \/ pin' = [pin EXCEPT !.debounce = @ \cup {k}, !.debounceAge = New]
           \/ pin' = [pin EXCEPT !.dither = @ \cup {k}, !.ditherAge = New]
    BY <1>1 DEF KeyTypes, hal_gpiokey_irqhandler
  <2> QED BY <2>1, <2>2, ZenonT(30) DEF Pins, DebounceInterval, DitherInterval
<1>5. out' \in Seq(Sendable)
  BY DEF hal_gpiokey_irqhandler
<1>6. UNCHANGED <<noGroupKey, fitted, pwr, status, phase, closeRuns, taps>>
  BY DEF hal_gpiokey_irqhandler
<1> QED BY <1>1, <1>2, <1>3, <1>4, <1>5, <1>6, Zenon DEF KeyTypes

LEMMA PwrIrqTypes ==
  ASSUME KeyTypeOK, hal_pwrkey_irqhandler
  PROVE  KeyTypeOK'
<1> SUFFICES KeyTypes'
  BY Types
<1>1. KeyTypes /\ Disable(PwrKey) /\ Restart
  BY Types DEF hal_pwrkey_irqhandler
<1>2. /\ irqOn' \subseteq Keys /\ edge' \in BOOLEAN
      /\ timerActive' \in BOOLEAN /\ timer' \in {"none", "stopped", "running"}
  BY <1>1, DisableTypes
<1>3. pwr' \in Pwrs
  <2> DEFINE a == PwrKey \in raw
             b == pwr.debounce \/ PwrKey \in raw
             c == pwr.dither \/ PwrKey \notin raw
  <2>1. a \in BOOLEAN /\ b \in BOOLEAN /\ c \in BOOLEAN
    OBVIOUS
  <2>2. pwr \in Pwrs /\ pwr' = [pwr EXCEPT !.pressed = a, !.debounce = b, !.dither = c]
    BY <1>1, Zenon DEF KeyTypes, hal_pwrkey_irqhandler
  <2> HIDE DEF a, b, c
  <2> QED BY <2>1, <2>2 DEF Pwrs
<1>4. out' \in Seq(Sendable)
  BY NothingSent DEF hal_pwrkey_irqhandler
<1>5. UNCHANGED <<noGroupKey, fitted, raw, pin, status, phase, closeRuns, taps>>
  BY DEF hal_pwrkey_irqhandler
<1> QED BY <1>1, <1>2, <1>3, <1>4, <1>5, Zenon DEF KeyTypes

LEMMA HandTypes ==
  ASSUME KeyTypeOK, (\E k \in Keys : Press(k) \/ Release(k)) \/ Idle
  PROVE  KeyTypeOK'
<1> SUFFICES KeyTypes'
  BY Types
<1>1. KeyTypes
  BY Types
<1>2. out' \in Seq(Sendable)
  BY NothingSent DEF Press, Release, Idle
<1>3. UNCHANGED <<noGroupKey, fitted, irqOn, pin, timerActive, timer, status, phase, closeRuns, taps>>
  BY DEF Press, Release, Idle, hardware
<1>4. raw' \subseteq Keys
  BY <1>1 DEF KeyTypes, Press, Release, Idle, hardware
<1>5. pwr' \in Pwrs
  <2>1. CASE UNCHANGED pwr
    BY <1>1, <2>1 DEF KeyTypes
  <2>2. CASE Idle
    <3>1. pwr \in Pwrs /\ pwr.age \in 0..2
      BY <1>1 DEF KeyTypes, Pwrs, DebounceInterval
    <3>2. Older(pwr.age, DebounceInterval) \in 0..DebounceInterval
      BY <3>1 DEF Older, DebounceInterval
    <3> QED BY <2>2, <3>1, <3>2 DEF Idle, Pwrs
  <2> QED BY <2>1, <2>2 DEF Press, Release
<1>6. edge' \in BOOLEAN
  <2>1. edge' = edge \/ edge' = TRUE
    BY DEF Press, Release, Idle, hardware
  <2> QED BY <1>1, <2>1, Zenon DEF KeyTypes
<1> QED BY <1>1, <1>2, <1>3, <1>4, <1>5, <1>6, Zenon DEF KeyTypes

LEMMA OpenTypes ==
  ASSUME KeyTypeOK, hal_key_open
  PROVE  KeyTypeOK'
<1> SUFFICES KeyTypes'
  BY Types
<1>1. KeyTypes
  BY Types
<1>2. /\ pwr' \in Pwrs /\ pin' \in Pins /\ status' \in Statuses /\ taps' \in Taps
  BY NoTypes DEF hal_key_open
<1>3. /\ irqOn' \subseteq Keys /\ timer' \in {"none", "stopped", "running"}
      /\ phase' \in {"closed", "open"} \cup Closing
      /\ out' \in Seq(Sendable) /\ closeRuns' \in 0..MaxCloseRuns
  BY KeyCounts DEF hal_key_open
<1>4. UNCHANGED <<noGroupKey, fitted, raw, edge, timerActive>>
  BY DEF hal_key_open
<1> QED BY <1>1, <1>2, <1>3, <1>4, Zenon DEF KeyTypes

\* What a step of hal_key_close may change.
LEMMA CloseStepType ==
  ASSUME hal_key_close
  PROVE  /\ UNCHANGED <<noGroupKey, fitted, raw, status, closeRuns, taps>> /\ out' = <<>>
         /\ pwr' \in {pwr, NoPwr} /\ pin' \in {pin, NoPin}
         /\ irqOn' \in {irqOn, {}, irqOn \ {PwrKey}, irqOn \ GpioKeys}
         /\ edge' = edge \/ edge' = FALSE
         /\ timer' \in {timer, "stopped", "none"}
         /\ timerActive' = timerActive \/ timerActive' = FALSE
         /\ phase' \in {"closed"} \cup Closing
  BY DEF hal_key_close, hal_key_disable_allint, hal_pwrkey_reset, hal_pwrkey_close,
     hal_gpiokey_reset, hal_gpiokey_close, StopTimer, FreeTimer, Closed, CloseStep, Closing

LEMMA CloseTypes ==
  ASSUME KeyTypeOK, hal_key_close
  PROVE  KeyTypeOK'
<1> SUFFICES KeyTypes'
  BY Types
<1>1. KeyTypes
  BY Types
<1>2. pwr' \in Pwrs /\ pin' \in Pins
  BY <1>1, CloseStepType, NoTypes DEF KeyTypes
<1>3. edge' \in BOOLEAN /\ timerActive' \in BOOLEAN
  BY <1>1, CloseStepType, Zenon DEF KeyTypes
<1>4. /\ irqOn' \subseteq Keys /\ timer' \in {"none", "stopped", "running"}
      /\ phase' \in {"closed", "open"} \cup Closing /\ out' \in Seq(Sendable)
  BY <1>1, CloseStepType DEF KeyTypes
<1>5. UNCHANGED <<noGroupKey, fitted, raw, status, closeRuns, taps>>
  BY CloseStepType
<1> QED BY <1>1, <1>2, <1>3, <1>4, <1>5, Zenon DEF KeyTypes

\* A step of the keys, of whatever specification, keeps the types.
LEMMA KeyStepTypes == KeyTypeOK /\ [KeyNext]_keyVars => KeyTypeOK'
<1> SUFFICES ASSUME KeyTypeOK, [KeyNext]_keyVars PROVE KeyTypeOK'
  OBVIOUS
<1>1. CASE UNCHANGED keyVars
  <2>1. /\ UNCHANGED <<noGroupKey, fitted, raw, irqOn, edge, pwr, pin, timerActive, timer>>
        /\ UNCHANGED <<status, phase, closeRuns, taps, out>>
    BY <1>1 DEF keyVars, hardware
  <2>2. KeyTypes => KeyTypes'
    BY <2>1, Zenon DEF KeyTypes
  <2> QED BY <2>2, Types
<1>2. CASE (\E k \in Keys : Press(k) \/ Release(k)) \/ Idle
  BY <1>2, HandTypes
<1>3. CASE Irq
  BY <1>3, GpioIrqTypes, PwrIrqTypes DEF Irq
<1>4. CASE hal_key_debounce_handler
  BY <1>4, RunKeepsTypes
<1>5. CASE hal_key_open \/ hal_key_close
  BY <1>5, OpenTypes, CloseTypes
<1> QED BY <1>1, <1>2, <1>3, <1>4, <1>5 DEF KeyNext

---------------------------------------------------------------------------
(* The keys that are looked at.                                              *)

Busy(p) == p.debounce \/ p.dither \/ p.pressed
Pinned(g) == g.debounce \cup g.dither \cup g.down

\* The power key is looked at until it is found up.
LEMMA PwrScanKeeps ==
  ASSUME pwr \in Pwrs, ~(pwr.debounce /\ pwr.dither), NEW k, k = PwrScan.keep
  PROVE  /\ ~(k.debounce /\ k.dither)
         /\ Busy(k) => Busy(pwr) /\ PwrScan.up = {}
         /\ Busy(pwr) /\ ~Busy(k) => PwrScan.up = {PwrKey}
         /\ PwrScan.up # {} => Busy(pwr)
         /\ PwrScan.down # {} => Busy(k)
<1> DEFINE p == [pwr EXCEPT !.age = Older(@, DebounceInterval)]
           pressed == PwrKey \in raw
           sure == p.debounce /\ pressed /\ p.age >= DebounceInterval
           settled == ~p.debounce /\ p.dither /\ p.age >= DitherInterval
           watched == ~p.debounce /\ ~p.dither /\ p.pressed
<1>1. /\ p \in Pwrs /\ p.debounce = pwr.debounce /\ p.dither = pwr.dither
      /\ p.pressed = pwr.pressed
  <2>1. Older(pwr.age, DebounceInterval) \in 0..DebounceInterval
    BY DEF Pwrs, Older, DebounceInterval
  <2> QED BY <2>1 DEF Pwrs
<1>2. /\ k = (IF sure THEN [p EXCEPT !.pressed = TRUE, !.debounce = FALSE, !.dither = FALSE]
              ELSE IF p.debounce /\ pressed
              THEN [p EXCEPT !.pressed = TRUE, !.dither = FALSE]
              ELSE IF p.debounce
              THEN [debounce |-> FALSE, dither |-> TRUE, pressed |-> FALSE, age |-> 0]
              ELSE IF settled THEN [p EXCEPT !.dither = FALSE, !.pressed = FALSE]
              ELSE IF watched THEN [p EXCEPT !.pressed = pressed]
              ELSE p)
      /\ PwrScan.down = (IF sure \/ (watched /\ pressed) THEN {PwrKey} ELSE {})
      /\ PwrScan.up = (IF settled \/ (watched /\ ~pressed) THEN {PwrKey} ELSE {})
  BY Zenon DEF PwrScan
<1> HIDE DEF p
<1>3. CASE sure
  <2>1. k = [p EXCEPT !.pressed = TRUE, !.debounce = FALSE, !.dither = FALSE]
    BY <1>2, <1>3, Zenon
  <2>2. ~k.debounce /\ ~k.dither /\ k.pressed
    BY <1>1, <2>1 DEF Pwrs
  <2> QED BY <1>1, <1>2, <1>3, <2>2, Zenon DEF Busy
<1>4. CASE ~sure /\ p.debounce /\ pressed
  <2>1. k = [p EXCEPT !.pressed = TRUE, !.dither = FALSE]
    BY <1>2, <1>4, Zenon
  <2>2. ~k.dither /\ k.pressed
    BY <1>1, <2>1 DEF Pwrs
  <2> QED BY <1>1, <1>2, <1>4, <2>2, Zenon DEF Busy
<1>5. CASE p.debounce /\ ~pressed
  <2>1. k = [debounce |-> FALSE, dither |-> TRUE, pressed |-> FALSE, age |-> 0]
    BY <1>2, <1>5, Zenon
  <2>2. ~k.debounce /\ k.dither
    BY <2>1
  <2> QED BY <1>1, <1>2, <1>5, <2>2, Zenon DEF Busy
<1>6. CASE settled
  <2>1. k = [p EXCEPT !.dither = FALSE, !.pressed = FALSE]
    BY <1>2, <1>6, Zenon
  <2>2. k.debounce = p.debounce /\ ~k.dither /\ ~k.pressed
    BY <1>1, <2>1 DEF Pwrs
  <2> QED BY <1>1, <1>2, <1>6, <2>2, Zenon DEF Busy
<1>7. CASE watched
  <2>1. k = [p EXCEPT !.pressed = pressed]
    BY <1>2, <1>7, Zenon
  <2>2. pressed \in BOOLEAN
    OBVIOUS
  <2>3. k.debounce = p.debounce /\ k.dither = p.dither /\ k.pressed = pressed
    <3> HIDE DEF pressed
    <3> QED BY <1>1, <2>1, <2>2 DEF Pwrs
  <2> QED BY <1>1, <1>2, <1>7, <2>3, Zenon DEF Busy
<1>8. CASE ~p.debounce /\ ~settled /\ ~watched
  <2>1. k = p /\ PwrScan.up = {} /\ PwrScan.down = {}
    BY <1>2, <1>8, Zenon
  <2> QED BY <1>1, <1>8, <2>1, Zenon DEF Busy
<1> HIDE DEF sure, settled, watched
<1> QED BY <1>3, <1>4, <1>5, <1>6, <1>7, <1>8, Zenon DEF sure

\* So is a key on a pin.
LEMMA GpioScanKeeps ==
  ASSUME pin \in Pins, pin.debounce \cap pin.dither = {},
         pin.down \cap (pin.debounce \cup pin.dither) = {},
         NEW g, g = GpioScan.keep
  PROVE  /\ g.debounce \cap g.dither = {}
         /\ g.down \cap (g.debounce \cup g.dither) = {}
         /\ Pinned(g) = Pinned(pin) \ GpioScan.up
         /\ GpioScan.up \subseteq Pinned(pin)
         /\ GpioScan.down \subseteq Pinned(g)
<1> DEFINE p == [pin EXCEPT !.debounceAge = Older(@, DebounceInterval),
                            !.ditherAge = Older(@, DitherInterval)]
           settled == IF p.ditherAge >= DitherInterval THEN p.dither ELSE {}
           held == p.down \cap raw
           added == IF p.debounceAge >= DebounceInterval THEN p.debounce \cap raw ELSE {}
           bounced == p.debounce \ raw
<1>1. p.debounce = pin.debounce /\ p.dither = pin.dither /\ p.down = pin.down
  BY DEF Pins
<1>2. /\ g = [p EXCEPT !.debounce = @ \ (added \cup bounced),
                       !.dither = (@ \ settled) \cup bounced,
                       !.down = held \cup added]
      /\ GpioScan.down = held \cup added
      /\ GpioScan.up = settled \cup (p.down \ raw)
  BY Zenon DEF GpioScan
<1>3. DOMAIN p = {"debounce", "dither", "down", "debounceAge", "ditherAge"}
  BY DEF Pins
<1>4. /\ settled = p.dither \/ settled = {}
      /\ added = p.debounce \cap raw \/ added = {}
  BY Zenon
<1> HIDE DEF p, settled, added
<1>5. /\ g.debounce = p.debounce \ (added \cup bounced)
      /\ g.dither = (p.dither \ settled) \cup bounced
      /\ g.down = held \cup added
  BY <1>2, <1>3
<1> QED BY <1>1, <1>2, <1>4, <1>5 DEF Pinned

\* A run lets go of the keys it finds up, and goes on looking at those it finds down.
LEMMA RunTracked ==
  ASSUME KeyTypeOK, PinInv, hal_key_debounce_handler
  PROVE  /\ Tracked' = Tracked \ UpNow /\ UpNow \subseteq Tracked
         /\ DownNow \subseteq Tracked'
         /\ pin'.debounce \cap pin'.dither = {}
         /\ pin'.down \cap (pin'.debounce \cup pin'.dither) = {}
         /\ ~(pwr'.debounce /\ pwr'.dither)
<1> DEFINE k == PwrScan.keep
           g == GpioScan.keep
           P == IF Busy(pwr) THEN {PwrKey} ELSE {}
           P1 == IF Busy(k) THEN {PwrKey} ELSE {}
<1>1. /\ pwr \in Pwrs /\ pin \in Pins
      /\ PwrScan.up \subseteq {PwrKey} /\ GpioScan.up \subseteq GpioKeys
      /\ PwrScan.down \subseteq {PwrKey} /\ GpioScan.down \subseteq GpioKeys
  BY Types, PwrScanFacts, GpioScanFacts DEF KeyTypes
<1>2. pwr' = k /\ pin' = g
  BY RunStep
<1>3. Tracked = P \cup Pinned(pin) /\ Tracked' = P1 \cup Pinned(g)
  <2>1. Tracked = P \cup Pinned(pin)
    BY DEF Tracked, Busy, Pinned
  <2>2. Tracked' = (IF Busy(pwr') THEN {PwrKey} ELSE {}) \cup Pinned(pin')
    BY DEF Tracked, Busy, Pinned
  <2> QED BY <1>2, <2>1, <2>2
<1>4. /\ ~(k.debounce /\ k.dither)
      /\ Busy(k) => Busy(pwr) /\ PwrScan.up = {}
      /\ Busy(pwr) /\ ~Busy(k) => PwrScan.up = {PwrKey}
      /\ PwrScan.up # {} => Busy(pwr)
      /\ PwrScan.down # {} => Busy(k)
  BY <1>1, PwrScanKeeps DEF PinInv
<1>5. P1 = P \ PwrScan.up /\ PwrScan.up \subseteq P /\ PwrScan.down \subseteq P1
  <2> HIDE DEF k
  <2> QED BY <1>1, <1>4
<1>6. /\ g.debounce \cap g.dither = {}
      /\ g.down \cap (g.debounce \cup g.dither) = {}
      /\ Pinned(g) = Pinned(pin) \ GpioScan.up
      /\ GpioScan.up \subseteq Pinned(pin)
      /\ GpioScan.down \subseteq Pinned(g)
  BY <1>1, GpioScanKeeps DEF PinInv
<1>7. Pinned(pin) \subseteq GpioKeys /\ P \subseteq {PwrKey} /\ PwrKey \notin GpioKeys
  BY <1>1, HalKeyAssumption DEF Pinned, Pins
<1> HIDE DEF k, g, P, P1
<1>8. Tracked' = Tracked \ UpNow /\ UpNow \subseteq Tracked /\ DownNow \subseteq Tracked'
  BY <1>1, <1>3, <1>5, <1>6, <1>7 DEF UpNow, DownNow
<1> QED BY <1>2, <1>4, <1>6, <1>8, Zenon

LEMMA RunPins == KeyTypeOK /\ PinInv /\ hal_key_debounce_handler => PinInv'
<1> SUFFICES ASSUME KeyTypeOK, PinInv, hal_key_debounce_handler PROVE PinInv'
  OBVIOUS
<1>1. Tracked' = Tracked \ UpNow /\ UpNow \subseteq Tracked
  BY RunTracked
<1>2. /\ noGroupKey' = noGroupKey
      /\ irqOn' = (IF noGroupKey /\ UpNow # {} THEN Keys ELSE irqOn \cup UpNow)
  BY RunStep
<1>3. CASE noGroupKey
  <2>1. (irqOn = {} \/ Tracked = {}) /\ \A i, j \in Tracked : i = j
    BY <1>3 DEF PinInv
  <2>2. irqOn' = {} \/ Tracked' = {}
    <3>1. CASE UpNow = {}
      BY <1>1, <1>2, <2>1, <3>1
    <3>2. CASE UpNow # {}
      BY <1>1, <2>1, <3>2
    <3> QED BY <3>1, <3>2
  <2>3. \A i, j \in Tracked' : i = j
    BY <1>1, <2>1
  <2> QED BY <1>2, <1>3, <2>2, <2>3, RunTracked, Zenon DEF PinInv
<1>4. CASE ~noGroupKey
  <2>1. irqOn' \cap Tracked' = {}
    BY <1>1, <1>2, <1>4 DEF PinInv
  <2> QED BY <1>2, <1>4, <2>1, RunTracked, Zenon DEF PinInv
<1> QED BY <1>3, <1>4

\* An interrupt is turned off and its key is looked at.
LEMMA IrqPins ==
  ASSUME PinInv, NEW k \in Keys, k \in irqOn, Disable(k), noGroupKey' = noGroupKey,
         Tracked' = Tracked \cup {k}
  PROVE  IF noGroupKey'
         THEN /\ irqOn' = {} \/ Tracked' = {}
              /\ \A i, j \in Tracked' : i = j
         ELSE irqOn' \cap Tracked' = {}
  BY DEF PinInv, Disable

LEMMA GpioIrqTracks ==
  ASSUME KeyTypeOK, NEW k \in GpioKeys, hal_gpiokey_irqhandler(k)
  PROVE  /\ Tracked' = Tracked \cup {k}
         /\ pin'.down = pin.down
         /\ \/ pin'.debounce = pin.debounce \cup {k} /\ pin'.dither = pin.dither
            \/ pin'.debounce = pin.debounce /\ pin'.dither = pin.dither \cup {k}
<1>1. pin \in Pins /\ UNCHANGED pwr
  BY Types DEF KeyTypes, hal_gpiokey_irqhandler
<1>2. /\ pin'.down = pin.down
      /\ \/ pin'.debounce = pin.debounce \cup {k} /\ pin'.dither = pin.dither
         \/ pin'.debounce = pin.debounce /\ pin'.dither = pin.dither \cup {k}
  BY <1>1 DEF hal_gpiokey_irqhandler, Pins
<1>3. Tracked' = Tracked \cup {k}
  BY <1>1, <1>2 DEF Tracked
<1> QED BY <1>2, <1>3

LEMMA PwrIrqTracks ==
  ASSUME KeyTypeOK, PinInv, hal_pwrkey_irqhandler
  PROVE  Tracked' = Tracked \cup {PwrKey} /\ ~(pwr'.debounce /\ pwr'.dither)
<1>1. pwr \in Pwrs
  BY Types DEF KeyTypes
<1>2. PwrKey \in irqOn /\ Disable(PwrKey) /\ UNCHANGED <<noGroupKey, fitted, pin>>
  BY DEF hal_pwrkey_irqhandler
<1>3. PwrKey \notin Tracked
  BY <1>2 DEF PinInv
<1>4. ~pwr.debounce /\ ~pwr.dither
  BY <1>3 DEF Tracked
<1>5. (pwr'.debounce <=> PwrKey \in raw) /\ (pwr'.dither <=> PwrKey \notin raw)
  <2> DEFINE a == PwrKey \in raw
             b == pwr.debounce \/ PwrKey \in raw
             c == pwr.dither \/ PwrKey \notin raw
  <2>1. pwr' = [pwr EXCEPT !.pressed = a, !.debounce = b, !.dither = c]
    BY Zenon DEF hal_pwrkey_irqhandler
  <2>2. (b <=> PwrKey \in raw) /\ (c <=> PwrKey \notin raw)
    BY <1>4, Zenon
  <2> HIDE DEF a, b, c
  <2>3. pwr'.debounce = b /\ pwr'.dither = c
    BY <1>1, <2>1 DEF Pwrs
  <2> QED BY <2>2, <2>3, Zenon
<1>6. Tracked' = Tracked \cup {PwrKey}
  <2>1. PwrKey \in Tracked' /\ Tracked' \subseteq {PwrKey} \cup Pinned(pin')
    BY <1>5 DEF Tracked, Pinned
  <2>2. Tracked' \cup {PwrKey} = {PwrKey} \cup Pinned(pin')
    BY DEF Tracked, Pinned
  <2>3. Tracked \cup {PwrKey} = {PwrKey} \cup Pinned(pin)
    BY DEF Tracked, Pinned
  <2> QED BY <1>2, <2>1, <2>2, <2>3
<1>7. ~(pwr'.debounce /\ pwr'.dither)
  BY <1>5, Zenon
<1> QED BY <1>6, <1>7

LEMMA GpioIrqPins ==
  ASSUME KeyTypeOK, PinInv, NEW k \in GpioKeys, hal_gpiokey_irqhandler(k)
  PROVE  PinInv'
<1>2. k \in irqOn /\ Disable(k) /\ UNCHANGED <<noGroupKey, fitted, pwr>>
  BY DEF hal_gpiokey_irqhandler
<1>3. k \notin Tracked
  BY <1>2 DEF PinInv
<1>4. k \notin pin.debounce \cup pin.dither \cup pin.down
  BY <1>3 DEF Tracked
<1>5. /\ pin'.down = pin.down
      /\ \/ pin'.debounce = pin.debounce \cup {k} /\ pin'.dither = pin.dither
         \/ pin'.debounce = pin.debounce /\ pin'.dither = pin.dither \cup {k}
  BY GpioIrqTracks
<1>6. Tracked' = Tracked \cup {k}
  BY GpioIrqTracks
<1>7. k \in Keys
  BY DEF Keys
<1>8. /\ pin'.debounce \cap pin'.dither = {}
      /\ pin'.down \cap (pin'.debounce \cup pin'.dither) = {}
  BY <1>4, <1>5 DEF PinInv
<1>9. IF noGroupKey'
      THEN /\ irqOn' = {} \/ Tracked' = {}
           /\ \A i, j \in Tracked' : i = j
      ELSE irqOn' \cap Tracked' = {}
  BY <1>2, <1>6, <1>7, IrqPins
<1> QED BY <1>2, <1>8, <1>9, Zenon DEF PinInv

LEMMA PwrIrqPins ==
  ASSUME KeyTypeOK, PinInv, hal_pwrkey_irqhandler
  PROVE  PinInv'
<1>1. PwrKey \in irqOn /\ Disable(PwrKey) /\ UNCHANGED <<noGroupKey, fitted, pin>> /\ PwrKey \in Keys
  BY DEF hal_pwrkey_irqhandler, Keys
<1>2. Tracked' = Tracked \cup {PwrKey} /\ ~(pwr'.debounce /\ pwr'.dither)
  BY PwrIrqTracks
<1>3. IF noGroupKey'
      THEN /\ irqOn' = {} \/ Tracked' = {}
           /\ \A i, j \in Tracked' : i = j
      ELSE irqOn' \cap Tracked' = {}
  BY <1>1, <1>2, IrqPins
<1> QED BY <1>1, <1>2, <1>3, Zenon DEF PinInv

\* Opening starts with no key looked at; closing turns interrupts off and forgets keys.
LEMMA ClosePins ==
  ASSUME KeyTypeOK, PinInv, hal_key_open \/ hal_key_close
  PROVE  PinInv'
<1>1. /\ pwr' \in {pwr, NoPwr} /\ pin' \in {pin, NoPin}
      /\ noGroupKey' = noGroupKey
      /\ (pwr' = NoPwr /\ pin' = NoPin) \/ irqOn' \subseteq irqOn
  BY CloseStepType DEF hal_key_open
<1>2. /\ NoPin.debounce = {} /\ NoPin.dither = {} /\ NoPin.down = {}
      /\ ~NoPwr.debounce /\ ~NoPwr.dither /\ ~NoPwr.pressed
  BY DEF NoPin, NoPwr
<1>3. Tracked' \subseteq Tracked
  BY <1>1, <1>2 DEF Tracked
<1>4. Tracked' = {} \/ irqOn' \subseteq irqOn
  BY <1>1, <1>2 DEF Tracked
<1>5. /\ pin'.debounce \cap pin'.dither = {}
      /\ pin'.down \cap (pin'.debounce \cup pin'.dither) = {}
  BY <1>1, <1>2 DEF PinInv
<1>6. ~(pwr'.debounce /\ pwr'.dither)
  BY <1>1, <1>2 DEF PinInv
<1>7. IF noGroupKey'
      THEN /\ irqOn' = {} \/ Tracked' = {}
           /\ \A i, j \in Tracked' : i = j
      ELSE irqOn' \cap Tracked' = {}
  BY <1>1, <1>3, <1>4 DEF PinInv
<1> QED BY <1>5, <1>6, <1>7, Zenon DEF PinInv

\* Nothing a hand does, and no time that goes by, changes what is looked at.
LEMMA HandPins ==
  ASSUME KeyTypeOK, PinInv, (\E k \in Keys : Press(k) \/ Release(k)) \/ Idle
  PROVE  PinInv'
<1>1. UNCHANGED <<noGroupKey, fitted, irqOn, pin>>
  BY DEF Press, Release, Idle, hardware
<1>2. /\ pwr'.debounce = pwr.debounce /\ pwr'.dither = pwr.dither
      /\ pwr'.pressed = pwr.pressed
  <2>1. CASE UNCHANGED pwr
    BY <2>1
  <2>2. CASE Idle
    BY <2>2, Types DEF Idle, KeyTypes, Pwrs
  <2> QED BY <2>1, <2>2 DEF Press, Release
<1>3. Tracked' = Tracked
  BY <1>1, <1>2 DEF Tracked
<1> QED BY <1>1, <1>2, <1>3, Zenon DEF PinInv

LEMMA NextPins == KeyTypeOK /\ PinInv /\ [KeyNext]_keyVars => PinInv'
<1> SUFFICES ASSUME KeyTypeOK, PinInv, [KeyNext]_keyVars PROVE PinInv'
  OBVIOUS
<1>1. CASE UNCHANGED keyVars
  <2>1. UNCHANGED <<noGroupKey, fitted, irqOn, pin, pwr>>
    BY <1>1 DEF keyVars, hardware
  <2> QED BY <2>1, Zenon DEF PinInv, Tracked
<1>2. CASE (\E k \in Keys : Press(k) \/ Release(k)) \/ Idle
  BY <1>2, HandPins
<1>3. CASE Irq
  BY <1>3, GpioIrqPins, PwrIrqPins DEF Irq
<1>4. CASE hal_key_debounce_handler
  BY <1>4, RunPins
<1>5. CASE hal_key_open \/ hal_key_close
  BY <1>5, ClosePins
<1> QED BY <1>1, <1>2, <1>3, <1>4, <1>5 DEF KeyNext

---------------------------------------------------------------------------
(* The events.                                                               *)

\* Each click event tells of the taps of its keys.
Counted(o) ==
  \A i \in 1..Len(o) : o[i].event = "CLICK" => /\ o[i].code = o[i].taps.code
                                               /\ o[i].clicks + 1 = o[i].taps.count
                                               /\ ~o[i].taps.lost

LEMMA CountedBoth ==
  ASSUME NEW S, NEW p \in Seq(S), NEW q \in Seq(S), Counted(p), Counted(q)
  PROVE  Counted(p \o q)
  BY DEF Counted

LEMMA CountedOthers ==
  ASSUME NEW q, \A i \in 1..Len(q) : q[i].event # "CLICK"
  PROVE  Counted(q)
  BY DEF Counted

LEMMA CountedClick ==
  ASSUME NEW s, NEW t, t.code = s.click, t.count = s.clicks + 1, ~t.lost
  PROVE  Counted(<<Clicked(s, t)>>)
<1>1. Clicked(s, t) = [code |-> s.click, event |-> "CLICK", clicks |-> s.clicks, taps |-> t]
  BY DEF Clicked
<1>2. Clicked(s, t).code = s.click /\ Clicked(s, t).clicks = s.clicks /\ Clicked(s, t).taps = t
  BY <1>1
<1>3. \A i \in 1..Len(<<Clicked(s, t)>>) : <<Clicked(s, t)>>[i] = Clicked(s, t)
  OBVIOUS
<1> QED BY <1>2, <1>3 DEF Counted

LEMMA CountedNothing == Counted(<<>>)
  BY Len(<<>>) = 0 DEF Counted

\* Keys that are up end a press, or the long press all of whose keys they are.
LEMMA UpsFields ==
  ASSUME NEW x \in Handed, NEW down \in SUBSET Keys, Counted(x.o),
         NEW s, s = x.s, NEW y, y = Ups(x, down)
  PROVE  /\ y.s.down = s.down /\ y.s.ready = s.ready
         /\ y.s.click = s.click /\ y.s.clicks = s.clicks
         /\ y.s.event = (IF s.event \in Long /\ s.down \ down # {} /\ s.ready \cap down = {}
                         THEN "NONE"
                         ELSE IF s.down \ down # {} /\ s.event = "DOWN" THEN "UP" ELSE s.event)
         /\ y.t = (IF s.down \ down = {} \/ s.event # "DOWN" THEN x.t
                   ELSE IF x.t.code = s.ready THEN [x.t EXCEPT !.count = @ + 1]
                   ELSE NewTap(x.t, s.ready))
         /\ Counted(y.o)
<1> DEFINE up == s.down \ down
           long == s.event \in Long
           event == IF long /\ up # {} /\ s.ready \cap down = {} THEN "NONE"
                    ELSE IF up # {} /\ s.event = "DOWN" THEN "UP" ELSE s.event
           updown == IF up # {} THEN 0 ELSE s.updown
           evs == IF long THEN <<"UP", "UP_AFTER_LONGPRESS">> ELSE <<"UP">>
<1>1. s \in Statuses /\ x.o \in Seq(Sendable) /\ up \in SUBSET Keys
  BY HandedType
<1>2. y.s = [s EXCEPT !.event = event, !.updown = updown] /\ y.o = Sent(x.o, up, evs)
  BY Zenon DEF Ups
<1>3. y.t = (IF s.down \ down = {} \/ s.event # "DOWN" THEN x.t
             ELSE IF x.t.code = s.ready THEN [x.t EXCEPT !.count = @ + 1]
             ELSE NewTap(x.t, s.ready))
  BY Zenon DEF Ups
<1>4. evs \in Seq(Events) /\ Len(evs) \in {1, 2} /\ \A j \in 1..Len(evs) : evs[j] # "CLICK"
  <2>1. /\ <<"UP">> \in Seq(Events) /\ Len(<<"UP">>) = 1
        /\ \A j \in 1..Len(<<"UP">>) : <<"UP">>[j] # "CLICK"
    BY DEF Events
  <2>2. /\ <<"UP", "UP_AFTER_LONGPRESS">> \in Seq(Events)
        /\ Len(<<"UP", "UP_AFTER_LONGPRESS">>) = 2
        /\ \A j \in 1..Len(<<"UP", "UP_AFTER_LONGPRESS">>) :
             <<"UP", "UP_AFTER_LONGPRESS">>[j] # "CLICK"
    BY DEF Events
  <2> QED BY <2>1, <2>2, Zenon
<1> HIDE DEF evs
<1>5. Counted(y.o)
  <2>1. PICK q \in Seq(Sendable) :
          /\ y.o = x.o \o q
          /\ \A i \in 1..Len(q) : \E j \in 1..Len(evs) : q[i].event = evs[j]
    <3>1. Len(evs) \in {1, 2} /\ evs \in Seq(Events)
      BY <1>4
    <3>2. \E q \in Seq(Sendable) :
            /\ Sent(x.o, up, evs) = x.o \o q
            /\ \A i \in 1..Len(q) : \E j \in 1..Len(evs) : q[i].event = evs[j]
      BY <1>1, <3>1, SentAdds
    <3> QED BY <1>2, <3>2
  <2>2. Counted(q)
    BY <1>4, <2>1, CountedOthers
  <2> QED BY <1>1, <2>1, <2>2, CountedBoth
<1>6. /\ y.s.down = s.down /\ y.s.ready = s.ready
      /\ y.s.click = s.click /\ y.s.clicks = s.clicks /\ y.s.event = event
  <2> HIDE DEF event, updown
  <2> QED BY <1>1, <1>2 DEF Statuses
<1> QED BY <1>3, <1>5, <1>6

\* What the events of a key_status say of keys, down.
Says(s, down) ==
  /\ s.event = "DOWN" => s.ready = down /\ down # {}
  /\ s.event = "UP" => s.ready # {} /\ s.click = s.ready /\ ~(s.ready \subseteq down)
  /\ s.event \in Long => s.ready \cap down # {}

Tapped(s, t) ==
  /\ ~t.lost
  /\ IF s.click = {} THEN t.code = {} /\ t.count = 0
     ELSE t.code = s.click /\ t.count = s.clicks + 1

\* A press that ends is a tap, and is counted as one.
LEMMA PressEnds ==
  ASSUME KeyTypeOK, StatusInv, TapsInv
  PROVE  /\ AfterClicks.s.down = status.down
         /\ AfterClicks.s.event = "DOWN" => /\ AfterClicks.s.ready = status.down
                                            /\ status.down \subseteq DownNow
                                            /\ status.down # {}
         /\ AfterClicks.s.event = "UP" => /\ AfterClicks.s.ready # {}
                                          /\ AfterClicks.s.click = AfterClicks.s.ready
                                          /\ DownNow \subseteq status.down
                                               => ~(AfterClicks.s.ready \subseteq DownNow)
         /\ AfterClicks.s.event \in Long => AfterClicks.s.ready \cap DownNow # {}
         /\ Tapped(AfterClicks.s, AfterClicks.t)
         /\ Counted(AfterClicks.o)
<1> DEFINE D == DownNow
           s == status
           u == AfterUps
           y == AfterClicks
           up == s.down \ D
           tap == up # {} /\ s.event = "DOWN"
<1>1. /\ D \in SUBSET Keys /\ u \in Handed /\ u.s \in Statuses /\ u.t \in Taps
      /\ u.o \in Seq(Sendable) /\ y \in Handed
      /\ s \in Statuses /\ taps \in Taps
  BY RunTypes, HandedType, Types DEF KeyTypes
<1>2. /\ u.s.down = s.down /\ u.s.ready = s.ready
      /\ u.s.click = s.click /\ u.s.clicks = s.clicks
      /\ u.s.event = (IF s.event \in Long /\ up # {} /\ s.ready \cap D = {}
                      THEN "NONE" ELSE IF tap THEN "UP" ELSE s.event)
      /\ u.t = (IF ~tap THEN taps
                ELSE IF taps.code = s.ready THEN [taps EXCEPT !.count = @ + 1]
                ELSE NewTap(taps, s.ready))
      /\ Counted(u.o)
  <2>1. Counted(Start.o)
    BY StartFields, CountedNothing
  <2> QED BY <1>1, <2>1, StartFields, UpsFields DEF AfterUps
<1>3. /\ s.event = "DOWN" => s.ready = s.down /\ s.down # {}
      /\ s.event = "UP" => s.ready # {} /\ s.click = s.ready /\ ~(s.ready \subseteq s.down)
      /\ s.event \in Long => s.ready \cap s.down # {}
  BY DEF StatusInv
<1>4. /\ Tapped(s, taps) /\ taps.count \in Nat /\ s.clicks \in Nat
      /\ s.down \in SUBSET Keys /\ s.ready \in SUBSET Keys /\ s.click \in SUBSET Keys
  <2>1. Tapped(s, taps)
    BY DEF Tapped, TapsInv
  <2>2. s.clicks \in 0..MaxClicks - 1
    BY <1>1 DEF Statuses
  <2> QED BY <1>1, <2>1, <2>2, KeyCounts DEF Statuses, Taps
<1>5. CASE u.s.event # "UP"
  <2>1. y = u
    BY <1>5, Zenon DEF Clicks, AfterClicks
  <2>2. ~tap /\ u.t = taps
    BY <1>2, <1>5 DEF Long
  <2>3. Tapped(u.s, u.t)
    BY <1>2, <1>4, <2>2 DEF Tapped
  <2>4. u.s.event = "DOWN" => s.event = "DOWN" /\ up = {}
    BY <1>2, <2>2 DEF Long
  <2>5. u.s.event \in Long => s.event \in Long /\ (up = {} \/ s.ready \cap D # {})
    BY <1>2 DEF Long
  <2>6. u.s.event \in Long => s.ready \cap D # {}
    BY <1>3, <2>5
  <2>7. u.s.event = "DOWN" => s.ready = s.down /\ s.down \subseteq D /\ s.down # {}
    BY <1>3, <2>4
  <2> QED BY <1>2, <1>5, <2>1, <2>3, <2>6, <2>7
<1>6. CASE u.s.event = "UP"
  <2> DEFINE ends == Ends(u.s, D)
             t == Told(u.s, u.t)
  <2>1. /\ y.s.down = u.s.down /\ y.s.ready = u.s.ready
        /\ y.s.event = (IF ends THEN "NONE" ELSE "UP")
        /\ y.s.click = (IF ends THEN {} ELSE Code(u.s))
        /\ y.s.clicks = (IF ends THEN 0 ELSE Count(u.s, D))
        /\ y.t = (IF ends THEN NoTaps ELSE t)
        /\ ClicksOut(u.s, D, t, u.o, y.o)
    BY <1>1, <1>6, ClicksFields DEF AfterClicks
  <2>2. tap \/ (~tap /\ s.event = "UP")
    BY <1>2, <1>6
  <2>3. s.ready # {} /\ (D \subseteq s.down => ~(s.ready \subseteq D))
    BY <1>3, <2>2
  <2>4. Code(u.s) = s.ready
    BY <1>2 DEF Code, Other
  <2>5. Count(u.s, D) \in Nat /\ t.code = s.ready /\ t.count = Count(u.s, D) + 1 /\ ~t.lost
    <3>0. t.code = u.t.code /\ t.count = u.t.count
      BY <1>1 DEF Told, Taps
    <3>1. CASE tap
      <4>1. s.ready = s.down
        BY <1>3, <3>1
      <4>2. CASE taps.code = s.ready
        <5>1. u.t.code = s.ready /\ u.t.count = taps.count + 1
          BY <1>1, <1>2, <3>1, <4>2 DEF Taps
        <5>2. s.click = s.ready /\ taps.count = s.clicks + 1
          BY <1>4, <2>3, <4>2 DEF Tapped
        <5>3. Again(u.s, D) /\ ~Other(u.s)
          BY <1>2, <2>3, <3>1, <4>1, <5>2 DEF Again, Other
        <5>4. ~u.t.lost
          BY <1>1, <1>2, <1>4, <3>1, <4>2 DEF Tapped, Taps
        <5>5. t = u.t
          BY <5>3 DEF Told
        <5> QED BY <1>2, <1>4, <5>1, <5>2, <5>3, <5>4, <5>5 DEF Count
      <4>3. CASE taps.code # s.ready
        <5>1. /\ u.t.code = s.ready /\ u.t.count = 1
              /\ ~taps.lost /\ taps.count = 0 => ~u.t.lost
          <6>1. u.t = NewTap(taps, s.ready)
            BY <1>2, <3>1, <4>3
          <6> QED BY <6>1, NewTapFields
        <5>2. Other(u.s)
          BY <1>2, <1>4, <2>3, <4>3 DEF Tapped, Other
        <5>3. ~t.lost
          <6>1. CASE u.s.click # {}
            <7>1. t = [u.t EXCEPT !.lost = FALSE]
              BY <5>2, <6>1 DEF Told
            <7> QED BY <1>1, <7>1 DEF Taps
          <6>2. CASE u.s.click = {}
            <7>1. t = u.t
              BY <6>2 DEF Told
            <7>2. ~taps.lost /\ taps.count = 0
              BY <1>2, <1>4, <6>2 DEF Tapped
            <7> QED BY <5>1, <7>1, <7>2
          <6> QED BY <6>1, <6>2
        <5> QED BY <3>0, <5>1, <5>2, <5>3 DEF Count
      <4> QED BY <4>2, <4>3
    <3>2. CASE ~tap /\ s.event = "UP"
      <4>1. u.t = taps /\ s.click = s.ready /\ ~(s.ready \subseteq s.down)
        BY <1>2, <1>3, <3>2
      <4>2. ~Other(u.s) /\ ~Again(u.s, D)
        BY <1>2, <2>3, <4>1 DEF Again, Other
      <4>3. t = u.t
        BY <4>2 DEF Told
      <4> QED BY <1>2, <1>4, <2>3, <4>1, <4>2, <4>3 DEF Count, Tapped
    <3> QED BY <2>2, <3>1, <3>2
  <2>6. Tapped(y.s, y.t)
    <3>1. NoTaps.code = {} /\ NoTaps.count = 0 /\ ~NoTaps.lost
      BY DEF NoTaps
    <3> QED BY <2>1, <2>3, <2>4, <2>5, <3>1 DEF Tapped
  <2>7. Counted(y.o)
    <3>1. PICK c : /\ c.click = Code(u.s) /\ c.clicks = Count(u.s, D)
                   /\ y.o = u.o \o Before(u.s) \o (IF ends THEN <<Clicked(c, t)>> ELSE <<>>)
      BY <2>1 DEF ClicksOut
    <3> DEFINE after == IF ends THEN <<Clicked(c, t)>> ELSE <<>>
    <3>2. Counted(after)
      BY <2>4, <2>5, <3>1, CountedClick, CountedNothing, Zenon
    <3>3. Counted(Before(u.s))
      <4>1. u.s.click # {} =>
              taps.code = u.s.click /\ taps.count = u.s.clicks + 1 /\ ~taps.lost
        BY <1>2, <1>4 DEF Tapped
      <4> QED BY <4>1, CountedClick, CountedNothing, Zenon DEF Before
    <3>4. u.s.clicks \in 0..MaxClicks /\ Count(u.s, D) \in 0..MaxClicks
      <4>1. u.s.clicks \in 0..MaxClicks
        BY <1>1, HandedType, KeyCounts
      <4>2. Count(u.s, D) \in 0..MaxClicks
        BY <1>1, <1>6, ClicksFields
      <4> QED BY <4>1, <4>2
    <3>5. Before(u.s) \in Seq(Sendable)
      <4>1. Clicked(u.s, taps) \in Sendable
        BY <1>1, <1>2, <1>4, <3>4, ClickedType
      <4> QED BY <4>1 DEF Before
    <3>6. after \in Seq(Sendable)
      <4>1. t \in Taps
        BY <1>1, TapsChange DEF Told
      <4>2. Clicked(c, t) \in Sendable
        BY <4>1, <1>4, <2>4, <3>1, <3>4, ClickedType
      <4> QED BY <4>2
    <3> HIDE DEF after
    <3>7. Counted(u.o \o Before(u.s)) /\ u.o \o Before(u.s) \in Seq(Sendable)
      BY <1>1, <1>2, <3>3, <3>5, CountedBoth
    <3>8. Counted((u.o \o Before(u.s)) \o after)
      BY <3>2, <3>6, <3>7, CountedBoth
    <3> QED BY <3>1, <3>8 DEF after
  <2> QED BY <1>2, <2>1, <2>3, <2>4, <2>6, <2>7 DEF Long
<1> QED BY <1>5, <1>6

\* A run leaves a key_status that says what is so, and the taps that it counts.
LEMMA RunStatus ==
  ASSUME KeyTypeOK, StatusInv, TapsInv, hal_key_debounce_handler
  PROVE  StatusInv' /\ TapsInv' /\ CountsTaps' /\ status'.down = DownNow
<1> DEFINE D == DownNow
           c == AfterClicks
           d == AfterDowns
           y == AfterLong
<1>1. /\ D \in SUBSET Keys /\ c \in Handed /\ d \in Handed /\ y \in Handed
      /\ c.s \in Statuses /\ c.o \in Seq(Sendable) /\ d.o \in Seq(Sendable)
      /\ y.o \in Seq(Sendable)
  BY RunTypes, HandedType
<1>2. /\ c.s.down = status.down
      /\ c.s.event = "DOWN" => /\ c.s.ready = status.down
                               /\ status.down \subseteq D
                               /\ status.down # {}
      /\ c.s.event = "UP" => /\ c.s.ready # {}
                             /\ c.s.click = c.s.ready
                             /\ D \subseteq status.down => ~(c.s.ready \subseteq D)
      /\ c.s.event \in Long => c.s.ready \cap D # {}
      /\ Tapped(c.s, c.t)
      /\ Counted(c.o)
  BY PressEnds
<1>3. /\ d.s.down = D /\ d.s.click = c.s.click /\ d.s.clicks = c.s.clicks
      /\ PressedNow(c.s, D, d.s)
      /\ d.t = c.t
      /\ PairsSent(D \ c.s.down, c.o, d.o)
  <2>1. d = Downs(c, D)
    BY DEF AfterDowns
  <2> HIDE DEF c, d, D
  <2>2. c \in Handed /\ D \in SUBSET Keys
    BY <1>1
  <2> QED BY <2>1, <2>2, DownsFields
<1>4. Says(d.s, D)
  <2>1. CASE D \ c.s.down # {} /\ ~(c.s.event \in Long)
    BY <1>3, <2>1 DEF Says, Long, PressedNow
  <2>2. CASE D \ c.s.down # {} /\ c.s.event \in Long
    BY <1>2, <1>3, <2>2 DEF Says, Long, PressedNow
  <2>3. CASE D \subseteq c.s.down
    <3>1. d.s.ready = c.s.ready /\ d.s.event = c.s.event
      BY <1>3, <2>3 DEF PressedNow
    <3>2. c.s.event = "DOWN" => c.s.ready = D /\ D # {}
      BY <1>2, <2>3
    <3> QED BY <1>2, <1>3, <2>3, <3>1, <3>2 DEF Says
  <2> QED BY <2>1, <2>2, <2>3
<1>5. Counted(d.o)
  <2>1. PICK evs \in Seq(Events) : /\ Len(evs) = 2 /\ evs[1] # "CLICK" /\ evs[2] # "CLICK"
                                   /\ d.o = Sent(c.o, D \ c.s.down, evs)
    BY <1>3 DEF PairsSent
  <2> DEFINE new == D \ c.s.down
  <2>2. new \in SUBSET Keys /\ Len(evs) \in {1, 2}
    BY <1>1, <2>1
  <2> HIDE DEF new
  <2>3. \E q \in Seq(Sendable) :
          /\ Sent(c.o, new, evs) = c.o \o q
          /\ \A i \in 1..Len(q) : \E j \in 1..Len(evs) : q[i].event = evs[j]
    BY <1>1, <2>2, SentAdds
  <2>4. PICK q \in Seq(Sendable) :
          /\ d.o = c.o \o q
          /\ \A i \in 1..Len(q) : \E j \in 1..Len(evs) : q[i].event = evs[j]
    BY <2>1, <2>3 DEF new
  <2>5. Counted(q)
    BY <2>1, <2>4, CountedOthers
  <2> QED BY <1>1, <1>2, <2>4, <2>5, CountedBoth
<1>6. /\ y.s.down = d.s.down /\ y.s.ready = d.s.ready
      /\ y.s.click = d.s.click /\ y.s.clicks = d.s.clicks
      /\ \/ y.s.event = d.s.event
         \/ d.s.event \in Long \cup {"DOWN"} /\ y.s.event \in Long /\ d.s.ready \subseteq d.s.down
      /\ y.t.code = d.t.code /\ y.t.count = d.t.count /\ y.t.lost = d.t.lost
      /\ OthersSent(d.o, y.o)
  BY <1>1, LongPressesFields DEF AfterLong
<1>7. Counted(y.o)
  BY <1>1, <1>5, <1>6, CountedOthers, CountedBoth DEF OthersSent
<1>8. Says(y.s, D)
  BY <1>3, <1>4, <1>6 DEF Says, Long
<1>9. Tapped(y.s, y.t)
  BY <1>2, <1>3, <1>6 DEF Tapped
<1>10. status' = y.s /\ taps' = y.t /\ out' = (IF phase = "closed" THEN <<>> ELSE y.o)
  BY RunStep
<1>11. status'.down = D
  BY <1>3, <1>6, <1>10
<1>12. StatusInv'
  BY <1>8, <1>10, <1>11 DEF Says, StatusInv
<1>13. TapsInv'
  BY <1>9, <1>10 DEF Tapped, TapsInv
<1>14. CountsTaps'
  <2>1. Counted(out') /\ out' \in Seq(Sendable)
    BY <1>1, <1>7, <1>10, CountedNothing, NothingSent, Zenon
  <2> QED BY <2>1 DEF CountsTaps, Counted, ToSet
<1> QED BY <1>11, <1>12, <1>13, <1>14

\* The other steps send nothing; only opening changes key_status.
LEMMA OtherStatus ==
  ASSUME StatusInv, TapsInv, CountsTaps,
         \/ UNCHANGED keyVars
         \/ (\E k \in Keys : Press(k) \/ Release(k)) \/ Idle \/ Irq
         \/ hal_key_open \/ hal_key_close
  PROVE  StatusInv' /\ TapsInv' /\ CountsTaps'
<1>1. \/ UNCHANGED <<status, taps>>
      \/ status' = NoStatus /\ taps' = NoTaps
  BY CloseStepType DEF keyVars, Press, Release, Idle, Irq, hal_pwrkey_irqhandler,
     hal_gpiokey_irqhandler, hal_key_open
<1>2. out' = out \/ out' = <<>>
  BY CloseStepType DEF keyVars, Press, Release, Idle, Irq, hal_pwrkey_irqhandler,
     hal_gpiokey_irqhandler, hal_key_open
<1>3. CountsTaps'
  BY <1>2 DEF CountsTaps, ToSet
<1>4. CASE UNCHANGED <<status, taps>>
  BY <1>3, <1>4, Zenon DEF StatusInv, TapsInv
<1>5. CASE status' = NoStatus /\ taps' = NoTaps
  <2>1. /\ NoStatus.event = "NONE" /\ NoStatus.click = {} /\ NoTaps.code = {}
        /\ NoTaps.count = 0 /\ ~NoTaps.lost
    BY DEF NoStatus, NoTaps
  <2> QED BY <1>3, <1>5, <2>1 DEF StatusInv, TapsInv, Long
<1> QED BY <1>1, <1>4, <1>5

---------------------------------------------------------------------------
(* The invariant.                                                            *)

KeyInv == KeyTypeOK /\ PinInv /\ StatusInv /\ TapsInv /\ CountsTaps

LEMMA InitKeys == KeyInit => KeyInv
<1> SUFFICES ASSUME KeyInit PROVE KeyInv
  OBVIOUS
<1>1. pwr = NoPwr /\ pin = NoPin /\ status = NoStatus /\ taps = NoTaps /\ out = <<>> /\ irqOn = {}
  BY DEF KeyInit
<1>2. /\ NoPin.debounce = {} /\ NoPin.dither = {} /\ NoPin.down = {}
      /\ ~NoPwr.debounce /\ ~NoPwr.dither /\ ~NoPwr.pressed
      /\ NoStatus.event = "NONE" /\ NoStatus.click = {}
      /\ NoTaps.code = {} /\ NoTaps.count = 0 /\ ~NoTaps.lost
  BY DEF NoPin, NoPwr, NoStatus, NoTaps
<1>3. Tracked = {}
  BY <1>1, <1>2 DEF Tracked
<1>4. PinInv
  BY <1>1, <1>2, <1>3 DEF PinInv
<1>5. StatusInv /\ TapsInv
  BY <1>1, <1>2 DEF StatusInv, TapsInv, Long
<1>6. CountsTaps
  BY <1>1 DEF CountsTaps, ToSet
<1> QED BY <1>4, <1>5, <1>6, InitTypes DEF KeyInv

LEMMA KeyStep == KeyInv /\ [KeyNext]_keyVars => KeyInv'
<1> SUFFICES ASSUME KeyInv, [KeyNext]_keyVars PROVE KeyInv'
  OBVIOUS
<1>1. KeyTypeOK' /\ PinInv'
  BY KeyStepTypes, NextPins DEF KeyInv
<1>2. StatusInv' /\ TapsInv' /\ CountsTaps'
  BY RunStatus, OtherStatus DEF KeyInv, KeyNext
<1> QED BY <1>1, <1>2 DEF KeyInv

LEMMA KeyInvariant == KeySpec => []KeyInv
  BY InitKeys, KeyStep, PTL DEF KeySpec

\* The assertion of hal_key.c on its pin map, and the one on code_ready that is
\* commented out, hold, whatever the pins do between an interrupt and the reads of
\* them, and however hal_key_close is interrupted.
THEOREM AssertsHold == KeySpec => []KeyAsserts
<1>1. KeyInv => KeyAsserts
  <2> SUFFICES ASSUME KeyInv PROVE KeyAsserts
    OBVIOUS
  <2> QED BY DEF KeyInv, KeyAsserts, PinInv, StatusInv
<1> QED BY <1>1, KeyInvariant, PTL

\* A click event tells of exactly the short presses of its keys since their last one.
THEOREM TapsAreCounted == KeySpec => []CountsTaps
<1>1. KeyInv => CountsTaps
  BY DEF KeyInv
<1> QED BY <1>1, KeyInvariant, PTL

---------------------------------------------------------------------------
(* Closing.  hal_key_close is a few microseconds of register writes, far     *)
(* less than a KEY_CHECKER_INTERVAL, so a timer that runs once while it is   *)
(* at work cannot run again before it is done: MaxCloseRuns <= 1.            *)

\* A run in the midst of hal_key_close finds nothing to enable once the pins are reset.
LEMMA RunCloses ==
  ASSUME MaxCloseRuns <= 1, KeyInv, CloseInv, hal_key_debounce_handler
  PROVE  CloseInv'
<1>1. /\ timer = "running" /\ phase' = phase
      /\ phase # "open" => closeRuns < MaxCloseRuns
      /\ irqOn' = (IF noGroupKey /\ UpNow # {} THEN Keys ELSE irqOn \cup UpNow)
      /\ timer' = (IF phase \in {"stopped", "closed"} THEN "none"
                   ELSE IF Goes THEN "running" ELSE "stopped")
      /\ closeRuns' = (IF phase = "open" THEN 0 ELSE closeRuns + 1)
  BY RunStep
<1>2. phase \notin {"timer stopped", "stopped", "closed"}
  BY <1>1 DEF CloseInv, ClosedIsQuiet
<1>3. closeRuns \in Nat /\ phase \in {"open"} \cup Closing
  <2>1. KeyTypes
    BY Types DEF KeyInv
  <2>2. closeRuns \in Nat
    BY <2>1, KeyCounts DEF KeyTypes
  <2> QED BY <1>2, <2>1, <2>2 DEF KeyTypes
<1>4. CASE phase = "open"
  <2>1. timer' # "none" /\ closeRuns' = 0
    BY <1>1, <1>4, Zenon
  <2> QED BY <1>1, <1>4, <2>1 DEF CloseInv, ClosedIsQuiet, Closing
<1>5. CASE phase \in Closing
  <2>1. closeRuns = 0 /\ closeRuns' = 1 /\ phase # "open"
    <3>1. phase # "open"
      BY <1>5 DEF Closing
    <3>2. closeRuns < MaxCloseRuns /\ closeRuns' = closeRuns + 1
      BY <1>1, <3>1
    <3> QED BY <1>3, <3>1, <3>2, KeyCounts
  <2>2. phase = "gpio closed" => irqOn' \cap GpioKeys = {}
    <3> SUFFICES ASSUME phase = "gpio closed" PROVE irqOn' = {}
      OBVIOUS
    <3>1. irqOn = {} /\ ~PwrTracked /\ PinTracked = {}
      BY <2>1 DEF CloseInv, Closing
    <3>2. UpNow \subseteq Tracked
      BY RunTracked DEF KeyInv
    <3>3. UpNow = {}
      BY <3>1, <3>2 DEF Tracked, PwrTracked, PinTracked
    <3> QED BY <1>1, <3>1, <3>3
  <2>3. phase' = phase /\ closeRuns' # 0
    BY <1>1, <2>1
  <2> QED BY <1>2, <2>1, <2>2, <2>3 DEF CloseInv, ClosedIsQuiet
<1> QED BY <1>3, <1>4, <1>5

\* An interrupt comes after such a run, or when all is open.
LEMMA IrqCloses ==
  ASSUME KeyInv, CloseInv, Irq
  PROVE  CloseInv'
<1>1. /\ phase \in {"open", "disabled", "pwr reset", "pwr closed", "gpio reset"}
      /\ phase # "open" => closeRuns # 0
  <2>1. phase \in {"closed", "open"} \cup Closing
    BY Types DEF KeyInv, KeyTypes
  <2>2. irqOn # {} /\ (phase \in {"open", "disabled", "pwr reset"} \/ irqOn \cap GpioKeys # {})
    BY DEF Irq, hal_gpiokey_irqhandler, hal_pwrkey_irqhandler
  <2> QED BY <2>1, <2>2 DEF CloseInv, ClosedIsQuiet, Closing
<1>2. /\ phase' = phase /\ closeRuns' = closeRuns
      /\ timer # "none" => timer' # "none"
  <2>1. phase' = phase /\ closeRuns' = closeRuns /\ Restart
    BY DEF Irq, hal_gpiokey_irqhandler, hal_pwrkey_irqhandler
  <2> QED BY <2>1 DEF Restart
<1> QED BY <1>1, <1>2 DEF CloseInv, ClosedIsQuiet, Closing

\* Each step of hal_key_close does its part.
LEMMA StepCloses ==
  ASSUME KeyInv, CloseInv, hal_key_close
  PROVE  CloseInv'
<1>1. UNCHANGED closeRuns /\ out' = <<>>
  BY CloseStepType
<1>2. ~NoPwr.debounce /\ ~NoPwr.dither /\ ~NoPwr.pressed
  BY DEF NoPwr
<1>3. NoPin.debounce = {} /\ NoPin.dither = {} /\ NoPin.down = {}
  BY DEF NoPin
<1>4. CASE hal_key_disable_allint
  BY <1>1, <1>4 DEF hal_key_disable_allint, CloseStep, CloseInv, ClosedIsQuiet, Closing
<1>5. CASE hal_pwrkey_reset
  <2>1. ~PwrTracked' /\ irqOn' = irqOn /\ phase = "disabled" /\ phase' = "pwr reset"
    BY <1>2, <1>5 DEF hal_pwrkey_reset, CloseStep, PwrTracked
  <2> QED BY <1>1, <2>1 DEF CloseInv, ClosedIsQuiet, Closing
<1>6. CASE hal_pwrkey_close
  <2>1. /\ PwrTracked' <=> PwrTracked
        /\ irqOn = {} => irqOn' = {}
        /\ phase = "pwr reset" /\ phase' = "pwr closed"
    BY <1>6 DEF hal_pwrkey_close, CloseStep, PwrTracked
  <2> QED BY <1>1, <2>1 DEF CloseInv, ClosedIsQuiet, Closing
<1>7. CASE hal_gpiokey_reset
  <2>1. /\ PwrTracked' <=> PwrTracked
        /\ PinTracked' = {} /\ irqOn' = irqOn
        /\ phase = "pwr closed" /\ phase' = "gpio reset"
    BY <1>3, <1>7 DEF hal_gpiokey_reset, CloseStep, PwrTracked, PinTracked
  <2> QED BY <1>1, <2>1 DEF CloseInv, ClosedIsQuiet, Closing
<1>8. CASE hal_gpiokey_close
  <2>1. /\ PwrTracked' <=> PwrTracked
        /\ PinTracked' = PinTracked /\ irqOn' = irqOn \ GpioKeys
        /\ phase = "gpio reset" /\ phase' = "gpio closed"
    BY <1>8 DEF hal_gpiokey_close, CloseStep, PwrTracked, PinTracked
  <2> QED BY <1>1, <2>1 DEF CloseInv, ClosedIsQuiet, Closing
<1>9. CASE StopTimer \/ FreeTimer \/ Closed
  <2>1. /\ PwrTracked' <=> PwrTracked
        /\ PinTracked' = PinTracked /\ irqOn' = irqOn
    BY <1>9 DEF StopTimer, FreeTimer, Closed, PwrTracked, PinTracked
  <2>2. \/ phase = "gpio closed" /\ phase' = "timer stopped" /\ timer' = "stopped"
        \/ /\ phase = "timer stopped" /\ phase' = "stopped"
           /\ timer' = (IF timer = "stopped" THEN "none" ELSE timer)
        \/ phase = "stopped" /\ phase' = "closed" /\ timer' = timer /\ timerActive' = FALSE
    BY <1>9 DEF StopTimer, FreeTimer, Closed, CloseStep
  <2> QED BY <1>1, <2>1, <2>2 DEF CloseInv, ClosedIsQuiet, Closing
<1> QED BY <1>4, <1>5, <1>6, <1>7, <1>8, <1>9 DEF hal_key_close

LEMMA NextCloses ==
  ASSUME MaxCloseRuns <= 1, KeyInv, CloseInv, [KeyNext]_keyVars
  PROVE  CloseInv'
<1>1. CASE UNCHANGED keyVars
  BY <1>1 DEF keyVars, hardware, CloseInv, ClosedIsQuiet, PwrTracked, PinTracked
<1>2. CASE (\E k \in Keys : Press(k) \/ Release(k)) \/ Idle
  <2>1. UNCHANGED <<irqOn, pin, timerActive, timer, phase, closeRuns>> /\ out' = <<>>
    BY <1>2 DEF Press, Release, Idle, hardware
  <2>2. PwrTracked' <=> PwrTracked
    <3>1. CASE UNCHANGED pwr
      BY <3>1 DEF PwrTracked
    <3>2. CASE Idle
      BY <3>2, Types DEF KeyInv, KeyTypes, Pwrs, Idle, PwrTracked
    <3> QED BY <1>2, <3>1, <3>2 DEF Press, Release
  <2> QED BY <2>1, <2>2 DEF CloseInv, ClosedIsQuiet, PinTracked
<1>3. CASE Irq
  BY <1>3, IrqCloses
<1>4. CASE hal_key_debounce_handler
  BY <1>4, RunCloses
<1>5. CASE hal_key_open
  BY <1>5 DEF hal_key_open, CloseInv, ClosedIsQuiet, Closing
<1>6. CASE hal_key_close
  BY <1>6, StepCloses
<1> QED BY <1>1, <1>2, <1>3, <1>4, <1>5, <1>6 DEF KeyNext

---------------------------------------------------------------------------
(* While it is open.                                                         *)

LEMMA RunForgetsNone ==
  ASSUME KeyInv, NoKeyForgotten, hal_key_debounce_handler
  PROVE  NoKeyForgotten'
<1> SUFFICES ASSUME phase = "open" PROVE NoKeyForgotten'
  BY RunStep DEF NoKeyForgotten
<1>1. /\ noGroupKey' = noGroupKey
      /\ irqOn' = (IF noGroupKey /\ UpNow # {} THEN Keys ELSE irqOn \cup UpNow)
      /\ timerActive' = Goes
      /\ timer' = (IF Goes THEN "running" ELSE "stopped")
      /\ status' = AfterLong.s
  BY RunStep, Zenon
<1>2. Tracked' = Tracked \ UpNow /\ UpNow \subseteq Tracked /\ DownNow \subseteq Tracked'
  BY RunTracked DEF KeyInv
<1>3. status'.down = DownNow
  BY RunStatus DEF KeyInv
<1>4. Tracked' # {} \/ status'.event # "NONE" => Goes
  <2>1. Tracked' # {} => Watching(PwrScan.keep, GpioScan.keep)
    <3>1. pwr' = PwrScan.keep /\ pin' = GpioScan.keep
      BY RunStep
    <3> HIDE DEF PwrScan, GpioScan
    <3> QED BY <3>1 DEF Tracked, Watching
  <2> QED BY <1>1, <2>1 DEF Goes
<1>5. timerActive' = (timer' = "running")
  <2>1. Goes \in BOOLEAN
    BY Zenon DEF Goes
  <2> HIDE DEF Goes
  <2>2. timer' = "running" <=> Goes
    BY <1>1
  <2> QED BY <1>1, <2>1, <2>2, Zenon
<1>6. Tracked \subseteq Keys
  BY Types DEF KeyInv, KeyTypes, Pins, Tracked, Keys
<1>7. IF noGroupKey' THEN irqOn' = Keys \/ Tracked' # {} ELSE Keys \ irqOn' = Tracked'
  BY <1>1, <1>2, <1>6 DEF NoKeyForgotten
<1>8. timerActive' <=> Goes
  BY <1>1, Zenon
<1> QED BY <1>2, <1>3, <1>4, <1>5, <1>7, <1>8, Zenon DEF NoKeyForgotten

LEMMA IrqForgetsNone ==
  ASSUME KeyInv, CloseInv, NoKeyForgotten, Irq
  PROVE  NoKeyForgotten'
<1> SUFFICES ASSUME phase = "open" PROVE NoKeyForgotten'
  BY DEF NoKeyForgotten, Irq, hal_gpiokey_irqhandler, hal_pwrkey_irqhandler
<1>1. timerActive' = TRUE /\ timer' = "running"
  <2>1. Restart
    BY DEF Irq, hal_gpiokey_irqhandler, hal_pwrkey_irqhandler
  <2>2. timer # "none" /\ timerActive = (timer = "running")
    BY DEF CloseInv, NoKeyForgotten
  <2> QED BY <2>1, <2>2 DEF Restart
<1>2. noGroupKey' = noGroupKey /\ fitted' = fitted /\ status' = status
  BY DEF Irq, hal_gpiokey_irqhandler, hal_pwrkey_irqhandler
<1>3. PICK k \in Keys : k \in irqOn /\ Disable(k) /\ Tracked' = Tracked \cup {k}
  <2>1. CASE hal_pwrkey_irqhandler
    <3>1. PwrKey \in Keys /\ PwrKey \in irqOn /\ Disable(PwrKey)
      BY <2>1 DEF hal_pwrkey_irqhandler, Keys
    <3>2. Tracked' = Tracked \cup {PwrKey}
      BY <2>1, PwrIrqTracks DEF KeyInv
    <3> QED BY <3>1, <3>2
  <2>2. ASSUME NEW j \in GpioKeys, hal_gpiokey_irqhandler(j)
        PROVE  j \in Keys /\ j \in irqOn /\ Disable(j) /\ Tracked' = Tracked \cup {j}
    <3>1. j \in Keys /\ j \in irqOn /\ Disable(j)
      BY <2>2 DEF hal_gpiokey_irqhandler, Keys
    <3>2. Tracked' = Tracked \cup {j}
      BY <2>2, GpioIrqTracks DEF KeyInv
    <3> QED BY <3>1, <3>2
  <2> QED BY <2>1, <2>2 DEF Irq
<1>4. Tracked \subseteq Keys
  BY Types DEF KeyInv, KeyTypes, Pins, Tracked, Keys
<1>5. IF noGroupKey' THEN irqOn' = Keys \/ Tracked' # {} ELSE Keys \ irqOn' = Tracked'
  BY <1>2, <1>3 DEF NoKeyForgotten, Disable
<1>6. status'.down \subseteq Tracked'
  BY <1>2, <1>3 DEF NoKeyForgotten
<1> QED BY <1>1, <1>5, <1>6 DEF NoKeyForgotten

LEMMA NextForgetsNone ==
  ASSUME KeyInv, CloseInv, NoKeyForgotten, [KeyNext]_keyVars
  PROVE  NoKeyForgotten'
<1>1. CASE UNCHANGED keyVars
  <2>1. UNCHANGED <<noGroupKey, fitted, irqOn, pin, pwr, timerActive, timer, phase, status>>
    BY <1>1 DEF keyVars, hardware
  <2> QED BY <2>1, Zenon DEF NoKeyForgotten, Tracked
<1>2. CASE (\E k \in Keys : Press(k) \/ Release(k)) \/ Idle
  <2>1. UNCHANGED <<noGroupKey, fitted, irqOn, pin, timerActive, timer, phase, status>>
    BY <1>2 DEF Press, Release, Idle, hardware
  <2>2. Tracked' = Tracked
    <3>1. CASE UNCHANGED pwr
      BY <2>1, <3>1 DEF Tracked
    <3>2. CASE Idle
      <4>1. /\ pwr'.debounce = pwr.debounce /\ pwr'.dither = pwr.dither
            /\ pwr'.pressed = pwr.pressed
        BY <3>2, Types DEF KeyInv, KeyTypes, Pwrs, Idle
      <4> QED BY <2>1, <4>1 DEF Tracked
    <3> QED BY <1>2, <3>1, <3>2 DEF Press, Release
  <2> QED BY <2>1, <2>2, Zenon DEF NoKeyForgotten
<1>3. CASE Irq
  BY <1>3, IrqForgetsNone
<1>4. CASE hal_key_debounce_handler
  BY <1>4, RunForgetsNone
<1>5. CASE hal_key_open
  <2>1. /\ pwr' = NoPwr /\ pin' = NoPin /\ status' = NoStatus /\ irqOn' = Keys
        /\ timer' = "stopped" /\ timerActive' = timerActive /\ timerActive = FALSE
    BY <1>5 DEF hal_key_open, CloseInv, ClosedIsQuiet, KeyInv, KeyTypeOK
  <2>2. Tracked' = {} /\ status'.event = "NONE" /\ status'.down = {}
    BY <2>1 DEF Tracked, NoPwr, NoPin, NoStatus
  <2> QED BY <2>1, <2>2 DEF NoKeyForgotten
<1>6. CASE hal_key_close
  <2>1. phase' # "open"
    BY <1>6, CloseStepType DEF Closing
  <2> QED BY <2>1 DEF NoKeyForgotten
<1> QED BY <1>1, <1>2, <1>3, <1>4, <1>5, <1>6 DEF KeyNext

LEMMA OpenInvariant ==
  ASSUME MaxCloseRuns <= 1
  PROVE  KeySpec => [](CloseInv /\ NoKeyForgotten)
<1>1. KeyInit => CloseInv /\ NoKeyForgotten
  BY DEF KeyInit, CloseInv, ClosedIsQuiet, NoKeyForgotten, Closing
<1>2. KeyInv /\ (CloseInv /\ NoKeyForgotten) /\ [KeyNext]_keyVars => (CloseInv /\ NoKeyForgotten)'
  BY NextCloses, NextForgetsNone
<1> QED BY <1>1, <1>2, KeyInvariant, PTL DEF KeySpec

\* After hal_key_close nothing is armed, though interrupts, and one run of the timer,
\* come between its steps and enable and start things again.
THEOREM ClosesQuietly ==
  ASSUME MaxCloseRuns <= 1
  PROVE  KeySpec => []ClosedIsQuiet
<1>1. CloseInv => ClosedIsQuiet
  BY DEF CloseInv
<1> QED BY <1>1, OpenInvariant, PTL

\* While it is open each key has its interrupt on or is being looked at, and the timer
\* is set while it has work.
THEOREM NoKeyIsForgotten ==
  ASSUME MaxCloseRuns <= 1
  PROVE  KeySpec => []NoKeyForgotten
  BY OpenInvariant, PTL
-----------------------------------------------------------------------------
(***************************************************************************)
(* The count of key events.                                                *)
(***************************************************************************)

\* What app_thread has loaded is never more than the count: only key_event_process
\* comes between its load and its store.
CountInv ==
  /\ CountOfEvents
  /\ FewKeyMails
  /\ taken = "store" => loaded <= cnt

\* What passes the limit is a number that does not take the count past it.
LEMMA PassedFits ==
  ASSUME NEW n \in Nat, cnt \in 0..255
  PROVE  /\ Passed(n) \in Nat
         /\ Passed(n) = 0 \/ cnt + Passed(n) <= EventLimit + 1
  BY AppKeyAssumption DEF Passed

\* Nothing is in flight at first.
LEMMA InitCounts == Init => CountInv
<1> SUFFICES ASSUME Init PROVE CountInv
  OBVIOUS
<1>1. /\ cnt = 0 /\ mails = 0 /\ loaded = 0 /\ raced = 0 /\ stray = 0
      /\ taken = "none" /\ registered = FALSE
  BY DEF Init
<1>2. InFlight = 0
  BY <1>1 DEF InFlight
<1>3. CountOfEvents
  <2>1. cnt = (InFlight + stray - raced) % UInt8
    BY <1>1, <1>2 DEF UInt8
  <2>2. registered \in BOOLEAN
    BY <1>1, Zenon
  <2>3. TypeOK
    BY <1>1, <2>2 DEF TypeOK, UInt8
  <2> QED BY <2>1, <2>3 DEF CountOfEvents
<1>4. FewKeyMails
  BY <1>1, <1>2, AppKeyAssumption DEF FewKeyMails
<1> QED BY <1>1, <1>3, <1>4 DEF CountInv

\* More events are in flight, and as many more are counted.
LEMMA RunCounts == CountInv /\ OutIsSequence' /\ Run => CountInv'
<1> SUFFICES ASSUME CountInv, OutIsSequence', Run PROVE CountInv'
  OBVIOUS
<1> DEFINE n == Passed(Len(out'))
<1>1. Len(out') \in Nat
  BY DEF OutIsSequence
<1>2. cnt \in 0..255 /\ mails \in Nat /\ raced \in Nat /\ stray \in Nat
  BY DEF CountInv, CountOfEvents, TypeOK, UInt8
<1>3. n \in Nat /\ (n = 0 \/ cnt + n <= EventLimit + 1)
  BY <1>1, <1>2, PassedFits
<1>4. /\ cnt' = cnt + n /\ mails' = mails + n
      /\ UNCHANGED <<registered, taken, loaded, raced, stray>>
  BY DEF Run, key_event_process
<1> HIDE DEF n
<1>5. InFlight \in Nat /\ InFlight' = InFlight + n
  BY <1>2, <1>3, <1>4 DEF InFlight
<1>6. cnt = (InFlight + stray - raced) % 256
  BY DEF CountInv, CountOfEvents, UInt8
<1>7. cnt' \in 0..255
  BY <1>2, <1>3, <1>4, AppKeyAssumption
<1>8. CountOfEvents'
  <2>1. cnt' = (InFlight' + stray' - raced') % 256
    BY <1>2, <1>3, <1>4, <1>5, <1>6, <1>7
  <2> QED
    BY <2>1, <1>2, <1>3, <1>4, <1>7 DEF CountInv, CountOfEvents, TypeOK, UInt8
<1>9. FewKeyMails'
  <2>1. InFlight + stray <= EventLimit + 1 + raced
    BY DEF CountInv, FewKeyMails
  <2>2. InFlight + stray - raced <= cnt
    BY <2>1, <1>2, <1>5, <1>6, AppKeyAssumption
  <2>3. InFlight' + stray' <= EventLimit + 1 + raced'
    BY <2>1, <2>2, <1>2, <1>3, <1>4, <1>5, AppKeyAssumption
  <2> QED BY <2>3 DEF FewKeyMails
<1>10. (taken = "store" => loaded <= cnt)'
  BY <1>2, <1>3, <1>4 DEF CountInv, CountOfEvents, TypeOK, UInt8
<1> QED BY <1>8, <1>9, <1>10 DEF CountInv

\* An event changes hands, or is taken for nobody and stays counted.
LEMMA GetCounts == CountInv /\ app_mailbox_get => CountInv'
<1> SUFFICES ASSUME CountInv, app_mailbox_get PROVE CountInv'
  OBVIOUS
<1>1. /\ cnt \in 0..255 /\ mails \in Nat \ {0} /\ raced \in Nat /\ stray \in Nat
      /\ taken = "none"
  BY DEF CountInv, CountOfEvents, TypeOK, UInt8, app_mailbox_get
<1>2. /\ mails' = mails - 1 /\ UNCHANGED <<cnt, registered, loaded, raced>>
      /\ \/ taken' = "load" /\ stray' = stray
         \/ taken' = "none" /\ stray' = stray + 1
  BY <1>1 DEF app_mailbox_get
<1>3. InFlight' + stray' = InFlight + stray /\ InFlight' \in Nat /\ InFlight \in Nat
  BY <1>1, <1>2 DEF InFlight
<1>4. CountOfEvents'
  <2>1. TypeOK'
    BY <1>1, <1>2 DEF CountInv, CountOfEvents, TypeOK, UInt8
  <2>2. InFlight' + stray' - raced' = InFlight + stray - raced
    BY <1>1, <1>2, <1>3
  <2> QED BY <2>1, <2>2, <1>2 DEF CountInv, CountOfEvents, UInt8
<1>5. FewKeyMails'
  BY <1>2, <1>3 DEF CountInv, FewKeyMails
<1> QED BY <1>2, <1>4, <1>5 DEF CountInv

\* The event stays in flight while app_thread handles it.
LEMMA LoadCounts == CountInv /\ LoadCount => CountInv'
  BY DEF CountInv, CountOfEvents, TypeOK, FewKeyMails, InFlight, UInt8, LoadCount

\* One event is counted down; what was counted since the load is overwritten.
LEMMA StoreCounts == CountInv /\ StoreCount => CountInv'
<1> SUFFICES ASSUME CountInv, StoreCount PROVE CountInv'
  OBVIOUS
<1>1. /\ cnt \in 0..255 /\ loaded \in 0..255 /\ loaded <= cnt
      /\ mails \in Nat /\ raced \in Nat /\ stray \in Nat /\ taken = "store"
  BY DEF CountInv, CountOfEvents, TypeOK, UInt8, StoreCount
<1>2. /\ taken' = "none" /\ loaded' = 0
      /\ cnt' = (loaded - 1) % 256
      /\ raced' = raced + cnt - loaded
      /\ UNCHANGED <<mails, registered, stray>>
  BY DEF StoreCount, UInt8
<1>3. InFlight = mails + 1 /\ InFlight' = mails
  BY <1>1, <1>2 DEF InFlight
<1>4. cnt = (mails + 1 + stray - raced) % 256
  BY <1>3 DEF CountInv, CountOfEvents, UInt8
<1>5. raced' \in Nat /\ cnt' \in 0..255
  BY <1>1, <1>2
<1>6. cnt' = (mails + stray - raced') % 256
  BY <1>1, <1>2, <1>4
<1>7. CountOfEvents'
  BY <1>1, <1>2, <1>3, <1>5, <1>6 DEF CountInv, CountOfEvents, TypeOK, UInt8
<1>8. FewKeyMails'
  BY <1>1, <1>2, <1>3, AppKeyAssumption DEF CountInv, FewKeyMails
<1> QED BY <1>2, <1>7, <1>8 DEF CountInv

\* Steps of the keys other than the timer's runs.
LEMMA UnchangedCounts == CountInv /\ UNCHANGED appVars => CountInv'
  BY DEF CountInv, CountOfEvents, TypeOK, FewKeyMails, InFlight, appVars

\* Every step keeps the count, whatever the keys do.
LEMMA NextCounts == CountInv /\ OutIsSequence' /\ [Next]_vars => CountInv'
<1> SUFFICES ASSUME CountInv, OutIsSequence', [Next]_vars PROVE CountInv'
  OBVIOUS
<1>1. CASE Run
  BY <1>1, RunCounts
<1>2. CASE AppThread
  BY <1>2, GetCounts, LoadCounts, StoreCounts DEF AppThread
<1>3. CASE app_key_open \/ Unregister
  BY <1>3 DEF app_key_open, Unregister, CountInv, CountOfEvents, TypeOK, FewKeyMails, InFlight
<1>4. CASE UNCHANGED appVars
  BY <1>4, UnchangedCounts
<1> QED BY <1>1, <1>2, <1>3, <1>4 DEF Next, vars, app_key_close

\* A step of app_thread, and the handlers' registering, leave the keys alone.
LEMMA NextKeys == KeyInv /\ [Next]_vars => KeyInv'
<1> SUFFICES ASSUME KeyInv, [Next]_vars PROVE KeyInv'
  OBVIOUS
<1>1. CASE [KeyNext]_keyVars
  BY <1>1, KeyStep
<1>2. CASE KeysRest
  <2>1. /\ UNCHANGED <<noGroupKey, fitted, raw, irqOn, edge, pwr, pin, timerActive, timer>>
        /\ UNCHANGED <<status, phase, closeRuns, taps>> /\ out' = <<>>
    BY <1>2 DEF KeysRest, hardware
  <2>2. KeyTypes'
    BY <2>1, NothingSent, Types, Zenon DEF KeyInv, KeyTypes
  <2>3. PinInv' /\ StatusInv' /\ TapsInv'
    BY <2>1, Zenon DEF KeyInv, PinInv, StatusInv, TapsInv, Tracked
  <2>4. CountsTaps'
    BY <2>1 DEF CountsTaps, ToSet
  <2> QED BY <2>2, <2>3, <2>4, Types DEF KeyInv
<1>3. [KeyNext]_keyVars \/ KeysRest
  BY DEF Next, vars, Keyboard, KeyNext, Run, AppThread, app_mailbox_get, LoadCount, StoreCount,
     app_key_open, app_key_close, Unregister
<1> QED BY <1>1, <1>2, <1>3

\* The keys of AppKey keep the invariants of HalKey's.
LEMMA KeysInvariant == Spec => []KeyInv
<1>1. Init => KeyInv
  BY InitKeys DEF Init
<1> QED BY <1>1, NextKeys, PTL DEF Spec

LEMMA CountInvariant == Spec => []CountInv
<1>1. KeyInv => OutIsSequence
  BY DEF KeyInv, KeyTypeOK
<1> QED BY <1>1, KeysInvariant, InitCounts, NextCounts, PTL DEF Spec

\* key_event_cnt counts the events in flight, up to the increments that were
\* overwritten and the events nobody took.
THEOREM CountIsRight == Spec => []CountOfEvents
<1>1. CountInv => CountOfEvents
  BY DEF CountInv
<1> QED BY <1>1, CountInvariant, PTL

\* However the timer and app_thread alternate, key events never take more than
\* KEY_EVENT_CNT_LIMIT + 1 blocks of app_mailbox, but for overwritten increments.
THEOREM MailboxIsSpared == Spec => []FewKeyMails
<1>1. CountInv => FewKeyMails
  BY DEF CountInv
<1> QED BY <1>1, CountInvariant, PTL
=============================================================================
