------------------------------ MODULE Display -------------------------------
(***************************************************************************)
(* src/yldisp.c: the timers behind the LED and behind the first line of    *)
(* the display, which shows the date or the duration of a call.            *)
(*                                                                         *)
(* The functions of yldisp.h are called at any time and in any order.  The *)
(* main loop is reduced to what matters for timers: a pass calls, in the   *)
(* order of their expiries, those that have expired when it begins, each   *)
(* once; a callback may be late.  Line 3, the icons and the ringer are in  *)
(* the Handset module.                                                     *)
(***************************************************************************)
EXTENDS Integers, FiniteSets

CONSTANTS
  Fast,        (* yldisp_led_blink(150, 150): not registered               *)
  Ring,        (* yldisp_led_blink(300, 300): a call comes or goes         *)
  TalkOn,      (* yldisp_led_blink(1000, 100): ...                         *)
  TalkOff,     (* ... talking                                              *)
  Second,      (* the period of the date and of the counter                *)
  DateDelay,   (* how long the duration stays after a call (5 s)           *)
  MaxLate,     (* bound: how late a timer is called                        *)
  Room         (* entries of the event list left to these timers           *)

ASSUME DisplayAssumption ==
  /\ {Fast, Ring, TalkOn, TalkOff, Second, DateDelay} \subseteq Nat \ {0}
  /\ MaxLate \in Nat /\ Room \in Nat

VARIABLES
  disp,        (* module_data, its timers, the LED and line 1              *)
  asked,       (* what was asked for last: a pattern of the LED, a line 1  *)
  quiet        (* from now on nothing is asked for                         *)

vars == <<disp, asked, quiet>>

Blinking == {"fast", "ring", "talk"}
OnTime   == [fast |-> Fast, ring |-> Ring, talk |-> TalkOn]
OffTime  == [fast |-> Fast, ring |-> Ring, talk |-> TalkOff]

\* How late a timer may be called for the entries of a blinking LED not to pile up:
\* with the times of yldisp.c and room for 5 entries, less than 750 ms.
ASSUME RoomAssumption ==
  \A p \in Blinking : OnTime[p] + MaxLate < (Room - 2) * (OnTime[p] + OffTime[p])

(***************************************************************************)
(* An entry of the event list.  `left` is the time until it expires, less  *)
(* than zero when it is late; `turn` says that the pass will call it; n    *)
(* tells equal entries apart.                                              *)
(***************************************************************************)
Entries(d, group) == {t \in d.timers : t.group = group}

Unused(d) == CHOOSE n \in 0..Cardinality(d.timers) : \A t \in d.timers : t.n # n

Schedule(d, group, callback, first, every) ==
  [d EXCEPT !.timers = @ \cup
     {[n |-> Unused(d), group |-> group, callback |-> callback,
       left |-> first, every |-> every, turn |-> FALSE]}]

Remove(d, group) == [d EXCEPT !.timers = @ \ Entries(d, group)]

\* An aligned timer expires for the first time within its period (TimerAlign).
FirstOf(every) == 0..every

-----------------------------------------------------------------------------
(* The LED                                                                 *)

\* Mutation: every late one-shot starts a chain of its own.
LedOnKeeping(d) ==
  LET q == IF d.reschedule
           THEN Schedule(d, "BLINK", "led_on", d.onTime + d.offTime, d.onTime + d.offTime)
           ELSE d
  IN  [q EXCEPT !.lit = TRUE]

\* led_on_callback
LedOn(d) ==
  LET q == IF d.reschedule
           THEN Schedule([d EXCEPT !.reschedule = FALSE], "BLINK", "led_on",
                         d.onTime + d.offTime, d.onTime + d.offTime)
           ELSE d
  IN  [q EXCEPT !.lit = TRUE]

\* Mutation: the LED is not turned on again.
LedOffForGood(d) == [d EXCEPT !.lit = FALSE]

\* Mutation: every turn of the LED leaves one more entry.
LedOffOften(d) == [Schedule(d, "BLINK", "led_on", d.onTime, 0) EXCEPT !.lit = FALSE]

\* led_off_callback
LedOff(d) ==
  LET q == IF d.reschedule THEN Schedule(d, "BLINK", "led_on", d.onTime, 0) ELSE d
  IN  [q EXCEPT !.lit = FALSE]

\* Mutation: the timers of the pattern before go on.
StillKeeping(d, on, off) ==
  [d EXCEPT !.onTime = on, !.offTime = off, !.reschedule = FALSE]

\* How yldisp_led_blink begins.
Still(d, on, off) ==
  [Remove(d, "BLINK") EXCEPT !.onTime = on, !.offTime = off, !.reschedule = FALSE]

\* yldisp_led_blink with two positive times.
Blink(d, on, off, first) ==
  Schedule([LedOn(Still(d, on, off)) EXCEPT !.reschedule = TRUE],
           "BLINK", "led_off", first, on + off)

SteadyOn(d)  == LedOn(Still(d, 1, 0))
SteadyOff(d) == LedOff(Still(d, 0, 1))

-----------------------------------------------------------------------------
(* Line 1                                                                  *)

\* Mutation: the delay is not ended by the callback.
ShowDateWaiting(d, first) ==
  Schedule(Remove(d, "DATETIME"), "DATETIME", "delayed_date", DateDelay, 0)

\* yldisp_show_date
ShowDate(d, first) ==
  LET q == Remove(d, "DATETIME")
  IN  IF d.waitDate THEN Schedule(q, "DATETIME", "delayed_date", DateDelay, 0)
      ELSE Schedule([q EXCEPT !.line1 = "date"], "DATETIME", "show_date", first, Second)

\* Mutation: the date comes back in the middle of a call.
ShowCounterKeeping(d) == [d EXCEPT !.waitDate = TRUE, !.line1 = "counter"]

\* yldisp_show_counter
ShowCounter(d) ==
  [Remove(d, "DATETIME") EXCEPT !.waitDate = TRUE, !.line1 = "counter"]

StartCounter(d, first) ==
  Schedule(ShowCounter(d), "DATETIME", "show_counter", first, Second)

StopCounter(d) == Remove(d, "DATETIME")

\* yldisp_hide_all, and yldisp_clear: here they do the same.
HideAll(d) == [StopCounter(SteadyOff(d)) EXCEPT !.line1 = "blank"]

-----------------------------------------------------------------------------
(* The callers                                                             *)

Init ==
  /\ disp = [timers |-> {}, onTime |-> 0, offTime |-> 0, reschedule |-> FALSE, lit |-> FALSE,
             waitDate |-> FALSE, line1 |-> "blank"]
  /\ asked = [led |-> "off", line1 |-> "blank"]
  /\ quiet = FALSE

yldisp_led_blink(p) ==
  /\ \E first \in FirstOf(OnTime[p] + OffTime[p]) :
       disp' = Blink(disp, OnTime[p], OffTime[p], first)
  /\ asked' = [asked EXCEPT !.led = p]

yldisp_led_on ==
  /\ disp' = SteadyOn(disp)
  /\ asked' = [asked EXCEPT !.led = "on"]

yldisp_show_date ==
  /\ \E first \in FirstOf(Second) : disp' = ShowDate(disp, first)
  /\ asked' = [asked EXCEPT !.line1 = "date"]

yldisp_show_counter ==
  /\ disp' = ShowCounter(disp)
  /\ asked' = [asked EXCEPT !.line1 = "counter"]

yldisp_start_counter ==
  /\ \E first \in FirstOf(Second) : disp' = StartCounter(disp, first)
  /\ asked' = [asked EXCEPT !.line1 = "counter"]

yldisp_hide_all ==
  /\ disp' = HideAll(disp)
  /\ asked' = [led |-> "off", line1 |-> "blank"]

Caller ==
  /\ ~quiet /\ quiet' = FALSE
  /\ \/ \E p \in Blinking : yldisp_led_blink(p)
     \/ yldisp_led_on
     \/ yldisp_show_date \/ yldisp_show_counter \/ yldisp_start_counter
     \/ yldisp_hide_all

LeaveAlone ==
  /\ ~quiet /\ quiet' = TRUE
  /\ UNCHANGED <<disp, asked>>

-----------------------------------------------------------------------------
(* The main loop                                                           *)

Elapse ==
  /\ \A t \in disp.timers : t.left > -MaxLate
  /\ disp.timers # {}
  /\ disp' = [disp EXCEPT !.timers = {[t EXCEPT !.left = @ - 1] : t \in @}]
  /\ UNCHANGED <<asked, quiet>>

Due == {t \in disp.timers : t.turn}

\* The loop serves what has expired.  That it also serves what expires within the next
\* 50 ms (ypmainloop.c:228-233) is less than this model's unit of time.
BeginPass ==
  /\ Due = {} /\ \E t \in disp.timers : t.left <= 0
  /\ disp' = [disp EXCEPT !.timers = {[t EXCEPT !.turn = t.left <= 0] : t \in @}]
  /\ UNCHANGED <<asked, quiet>>

\* The entry has been taken away, or moved on, before its callback runs.
Served(d, t) ==
  [d EXCEPT !.timers =
     (@ \ {t}) \cup IF t.every = 0 THEN {}
                    ELSE {[t EXCEPT !.left = @ + t.every, !.turn = FALSE]}]

\* delayed_date_callback
DelayedDate(d, first) == ShowDate([d EXCEPT !.waitDate = FALSE], first)

Run(t, d) ==
  CASE t.callback = "led_on"       -> disp' = LedOn(d)
    [] t.callback = "led_off"      -> disp' = LedOff(d)
    [] t.callback = "show_date"    -> disp' = [d EXCEPT !.line1 = "date"]
    [] t.callback = "show_counter" -> disp' = [d EXCEPT !.line1 = "counter"]
    [] t.callback = "delayed_date" ->
         \E first \in FirstOf(Second) : disp' = DelayedDate(d, first)

Call ==
  /\ \E t \in Due :
       /\ \A u \in Due : t.left <= u.left
       /\ Run(t, Served(disp, t))
  /\ UNCHANGED <<asked, quiet>>

Next == Caller \/ LeaveAlone \/ Elapse \/ BeginPass \/ Call

Spec == Init /\ [][Next]_vars

\* Time passes, and the main loop calls what has expired.
FairSpec == Spec /\ WF_vars(Elapse) /\ WF_vars(BeginPass) /\ WF_vars(Call)

-----------------------------------------------------------------------------
(* Properties                                                              *)

\* A steady LED stays as it is: no callback of an earlier pattern is left that
\* would change it (yldisp.c:80-132).
SteadyLight ==
  asked.led \notin Blinking => disp.lit = (asked.led = "on") /\ Entries(disp, "BLINK") = {}

\* A blinking LED has one timer that turns it off and, once that has run, one that
\* turns it on; both belong to the pattern asked for last, and late one-shot timers
\* do not start further ones (yldisp.c:80-124).
OneChain ==
  LET blink     == Entries(disp, "BLINK")
      period(c) == {t \in blink : t.callback = c /\ t.every # 0}
  IN  asked.led \in Blinking =>
        /\ Cardinality(period("led_off")) = 1
        /\ Cardinality(period("led_on")) = IF disp.reschedule THEN 0 ELSE 1
        /\ \A t \in blink : t.every \in {0, OnTime[asked.led] + OffTime[asked.led]}

\* As long as callbacks are not too late (RoomAssumption), these timers leave the
\* event list enough room for the other entries of the program, so that it never has
\* to grow (ypmainloop.c:347).
ListFits == Cardinality(disp.timers) <= Room

\* From the beginning of a call until somebody asks for something else line 1 shows
\* its duration, whatever was shown or waited for before (yldisp.c:148-221).
CounterUndisturbed == asked.line1 = "counter" => disp.line1 = "counter"

\* Once nothing more is asked for, the date comes back if it was asked for last,
\* even if another call or a power cycle came while it was waited for
\* (yldisp.c:158-175).
DateReturns == <>[](quiet /\ asked.line1 = "date" => disp.line1 = "date")

\* Once nothing more is asked for, a blinking LED blinks for ever, though its timers
\* are called up to MaxLate late, and so several of them in one pass (yldisp.c:80-124).
BlinkGoesOn ==
  LET blinks == quiet /\ asked.led \in Blinking
  IN  []<>(blinks => disp.lit) /\ []<>(blinks => ~disp.lit)
=============================================================================
