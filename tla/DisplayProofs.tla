---------------------------- MODULE DisplayProofs ---------------------------
(***************************************************************************)
(* The timers of src/yldisp.c, for any times of the patterns, any delay of *)
(* the main loop and any order of calls: a steady LED is left alone, a     *)
(* blinking one has one chain of timers, and the duration of a call stays. *)
(***************************************************************************)
EXTENDS Display, FiniteSetTheorems, TLAPS

-----------------------------------------------------------------------------
(* The invariant                                                           *)

LedCallbacks  == {"led_on", "led_off"}
LineCallbacks == {"show_date", "show_counter", "delayed_date"}

IsEntry(t) ==
  /\ t = [n |-> t.n, group |-> t.group, callback |-> t.callback,
          left |-> t.left, every |-> t.every, turn |-> t.turn]
  /\ \/ t.group = "BLINK" /\ t.callback \in LedCallbacks
     \/ t.group = "DATETIME" /\ t.callback \in LineCallbacks

IsDisplay(d) ==
  /\ d = [timers |-> d.timers, onTime |-> d.onTime, offTime |-> d.offTime,
          reschedule |-> d.reschedule, lit |-> d.lit,
          waitDate |-> d.waitDate, line1 |-> d.line1]
  /\ d.reschedule \in BOOLEAN /\ d.lit \in BOOLEAN
  /\ \A t \in d.timers : IsEntry(t)

Chain(d, callback) == {t \in Entries(d, "BLINK") : t.callback = callback /\ t.every # 0}

One(S) == \E x : S = {x}

\* What a blinking LED needs: the times, and the chain of each callback.
ChainInv(d, led) ==
  /\ d.onTime = OnTime[led] /\ d.offTime = OffTime[led]
  /\ One(Chain(d, "led_off"))
  /\ IF d.reschedule THEN Chain(d, "led_on") = {} ELSE One(Chain(d, "led_on"))
  /\ \A t \in Entries(d, "BLINK") : t.every \in {0, OnTime[led] + OffTime[led]}

LedInv(d, led) ==
  /\ led \in Blinking \cup {"on", "off"}
  /\ led \notin Blinking => d.lit = (led = "on") /\ Entries(d, "BLINK") = {}
  /\ led \in Blinking => ChainInv(d, led)

CounterInv(d, line) ==
  line = "counter" =>
    d.line1 = "counter" /\ \A t \in Entries(d, "DATETIME") : t.callback = "show_counter"

IInv ==
  /\ IsDisplay(disp)
  /\ LedInv(disp, asked.led) /\ CounterInv(disp, asked.line1)
  /\ asked = [led |-> asked.led, line1 |-> asked.line1]

-----------------------------------------------------------------------------
(* Entries added, taken away and moved on                                  *)

SameButTimers(d, q) ==
  /\ IsDisplay(q)
  /\ q.onTime = d.onTime /\ q.offTime = d.offTime /\ q.reschedule = d.reschedule
  /\ q.lit = d.lit /\ q.waitDate = d.waitDate /\ q.line1 = d.line1

LEMMA NewTimers ==
  ASSUME NEW d, IsDisplay(d), NEW T, \A t \in T : IsEntry(t)
  PROVE  SameButTimers(d, [d EXCEPT !.timers = T]) /\ [d EXCEPT !.timers = T].timers = T
BY DEF IsDisplay, SameButTimers

NewEntry(d, group, callback, first, every) ==
  [n |-> Unused(d), group |-> group, callback |-> callback,
   left |-> first, every |-> every, turn |-> FALSE]

LEMMA ScheduleAdds ==
  ASSUME NEW d, IsDisplay(d), NEW group, NEW callback, NEW first, NEW every,
         \/ group = "BLINK" /\ callback \in LedCallbacks
         \/ group = "DATETIME" /\ callback \in LineCallbacks
  PROVE  LET q == Schedule(d, group, callback, first, every)
             e == NewEntry(d, group, callback, first, every)
         IN  /\ SameButTimers(d, q)
             /\ q.timers = d.timers \cup {e}
             /\ IsEntry(e) /\ e.group = group /\ e.callback = callback /\ e.every = every
             /\ e.left = first /\ ~e.turn
<1>. DEFINE e == NewEntry(d, group, callback, first, every)
<1>1. /\ IsEntry(e) /\ e.group = group /\ e.callback = callback /\ e.every = every
      /\ e.left = first /\ ~e.turn
  BY DEF NewEntry, IsEntry
<1>2. \A t \in d.timers \cup {e} : IsEntry(t)
  BY <1>1 DEF IsDisplay
<1>3. Schedule(d, group, callback, first, every) = [d EXCEPT !.timers = d.timers \cup {e}]
  BY DEF Schedule, NewEntry
<1>. QED
  <2>. HIDE DEF e
  <2>. QED  BY <1>1, <1>2, <1>3, NewTimers DEF e

LEMMA RemoveTakes ==
  ASSUME NEW d, IsDisplay(d), NEW group
  PROVE  /\ SameButTimers(d, Remove(d, group))
         /\ Remove(d, group).timers = d.timers \ Entries(d, group)
<1>1. \A t \in d.timers \ Entries(d, group) : IsEntry(t)
  BY DEF IsDisplay
<1>2. Remove(d, group) = [d EXCEPT !.timers = d.timers \ Entries(d, group)]
  BY DEF Remove
<1>. QED  BY <1>1, <1>2, NewTimers

\* Changes of the time left, or of the turn, are not seen by the invariant.
Alike(t, u) ==
  IsEntry(u) /\ u.group = t.group /\ u.callback = t.callback /\ u.every = t.every

LEMMA EntryMoved ==
  ASSUME NEW t, IsEntry(t), NEW left, NEW turn
  PROVE  /\ Alike(t, [t EXCEPT !.left = left]) /\ Alike(t, [t EXCEPT !.turn = turn])
         /\ Alike(t, [t EXCEPT !.left = left, !.turn = turn])
<1>1. \A u : IsEntry(u) => Alike(u, [u EXCEPT !.left = left])
  BY DEF IsEntry, Alike
<1>2. \A u : IsEntry(u) => Alike(u, [u EXCEPT !.turn = turn])
  BY DEF IsEntry, Alike
<1>3. [t EXCEPT !.left = left, !.turn = turn] = [[t EXCEPT !.left = left] EXCEPT !.turn = turn]
  BY DEF IsEntry
<1>. QED  BY <1>1, <1>2, <1>3 DEF Alike

Mapped(d, q, F) ==
  (\A t \in d.timers : Alike(t, F[t])) /\ q.timers = {F[t] : t \in d.timers}

LEMMA MapKeeps ==
  ASSUME NEW d, IsDisplay(d), NEW q, SameButTimers(d, q), NEW F, Mapped(d, q, F),
         NEW led, LedInv(d, led), NEW line, CounterInv(d, line)
  PROVE  LedInv(q, led) /\ CounterInv(q, line)
<1>1. \A group : Entries(q, group) = {F[t] : t \in Entries(d, group)}
  BY DEF Mapped, Alike, Entries
<1>2. \A c : Chain(q, c) = {F[t] : t \in Chain(d, c)}
  BY DEF Mapped, Alike, Entries, Chain
<1>3. \A c : One(Chain(d, c)) => One(Chain(q, c))
  <2>. SUFFICES ASSUME NEW c, NEW x, Chain(d, c) = {x} PROVE One(Chain(q, c))
    BY DEF One
  <2>1. Chain(q, c) = {F[x]}
    BY <1>2
  <2>. QED  BY <2>1 DEF One
<1>4. LedInv(q, led)
  BY <1>1, <1>2, <1>3 DEF LedInv, ChainInv, SameButTimers, Mapped, Alike, Entries
<1>. QED  BY <1>1, <1>4 DEF CounterInv, SameButTimers, Mapped, Alike, Entries

LEMMA ServedKeeps ==
  ASSUME NEW d, IsDisplay(d), NEW t \in d.timers,
         NEW led, LedInv(d, led), NEW line, CounterInv(d, line)
  PROVE  LET q == Served(d, t)
         IN  SameButTimers(d, q) /\ LedInv(q, led) /\ CounterInv(q, line)
<1>. DEFINE q == Served(d, t)
            m == [t EXCEPT !.left = @ + t.every, !.turn = FALSE]
            T == (d.timers \ {t}) \cup IF t.every = 0 THEN {} ELSE {m}
<1>1. Alike(t, m)
  BY EntryMoved DEF IsDisplay
<1>2. q = [d EXCEPT !.timers = T]
  BY DEF Served
<1>. HIDE DEF q, m
<1>3. \A x \in T : IsEntry(x)
  BY <1>1 DEF Alike, IsDisplay
<1>4. SameButTimers(d, q) /\ q.timers = T
  <2>. HIDE DEF T
  <2>. QED  BY <1>2, <1>3, NewTimers
<1>5. \A c : One(Chain(d, c)) => One(Chain(q, c))
  <2>. SUFFICES ASSUME NEW c, NEW x, Chain(d, c) = {x} PROVE One(Chain(q, c))
    BY DEF One
  <2>1. CASE t = x
    <3>1. t.every # 0 /\ m \in Chain(q, c)
      BY <1>1, <1>4, <2>1 DEF Alike, Chain, Entries
    <3>2. Chain(q, c) = {m}
      BY <1>4, <2>1, <3>1 DEF Chain, Entries
    <3>. QED  BY <3>2 DEF One
  <2>2. CASE t # x
    <3>1. t.every = 0 \/ m \notin Chain(q, c)
      BY <1>1, <1>4, <2>2 DEF Alike, Chain, Entries
    <3>2. Chain(q, c) = {x}
      BY <1>4, <2>2, <3>1 DEF Chain, Entries
    <3>. QED  BY <3>2 DEF One
  <2>. QED  BY <2>1, <2>2
<1>6. \A c : Chain(d, c) = {} => Chain(q, c) = {}
  BY <1>1, <1>4 DEF Alike, Chain, Entries
<1>7. \A group : \A x \in Entries(q, group) :
        \E y \in Entries(d, group) : x.callback = y.callback /\ x.every = y.every
  BY <1>1, <1>4 DEF Alike, Entries
<1>8. LedInv(q, led)
  <2>1. Entries(d, "BLINK") = {} => Entries(q, "BLINK") = {}
    BY <1>7
  <2>2. (\A x \in Entries(d, "BLINK") : x.every \in {0, OnTime[led] + OffTime[led]})
          => \A x \in Entries(q, "BLINK") : x.every \in {0, OnTime[led] + OffTime[led]}
    BY <1>7
  <2>. QED  BY <1>4, <1>5, <1>6, <2>1, <2>2 DEF LedInv, ChainInv, SameButTimers
<1>9. CounterInv(q, line)
  BY <1>4, <1>7 DEF CounterInv, SameButTimers
<1>. QED  BY <1>4, <1>8, <1>9 DEF q

-----------------------------------------------------------------------------
(* The LED                                                                 *)

LEMMA Periods ==
  ASSUME NEW p \in Blinking
  PROVE  OnTime[p] \in Nat \ {0} /\ OffTime[p] \in Nat \ {0} /\ OnTime[p] + OffTime[p] # 0
BY DisplayAssumption DEF Blinking, OnTime, OffTime

Record(timers, on, off, resched, lit, wait, line) ==
  [timers |-> timers, onTime |-> on, offTime |-> off, reschedule |-> resched, lit |-> lit,
   waitDate |-> wait, line1 |-> line]

\* A display one field of which was set, or the three yldisp_led_blink sets.
LEMMA FieldSet ==
  ASSUME NEW d, IsDisplay(d), NEW x, NEW y
  PROVE  /\ [d EXCEPT !.lit = x] =
              Record(d.timers, d.onTime, d.offTime, d.reschedule, x, d.waitDate, d.line1)
         /\ [d EXCEPT !.reschedule = x] =
              Record(d.timers, d.onTime, d.offTime, x, d.lit, d.waitDate, d.line1)
         /\ [d EXCEPT !.line1 = x] =
              Record(d.timers, d.onTime, d.offTime, d.reschedule, d.lit, d.waitDate, x)
         /\ [d EXCEPT !.waitDate = x] =
              Record(d.timers, d.onTime, d.offTime, d.reschedule, d.lit, x, d.line1)
         /\ [d EXCEPT !.onTime = x, !.offTime = y, !.reschedule = FALSE] =
              Record(d.timers, x, y, FALSE, d.lit, d.waitDate, d.line1)
<1>1. [d EXCEPT !.lit = x] =
        Record(d.timers, d.onTime, d.offTime, d.reschedule, x, d.waitDate, d.line1)
  BY DEF IsDisplay, Record
<1>2. [d EXCEPT !.reschedule = x] =
        Record(d.timers, d.onTime, d.offTime, x, d.lit, d.waitDate, d.line1)
  BY DEF IsDisplay, Record
<1>3. [d EXCEPT !.line1 = x] =
        Record(d.timers, d.onTime, d.offTime, d.reschedule, d.lit, d.waitDate, x)
  BY DEF IsDisplay, Record
<1>4. [d EXCEPT !.waitDate = x] =
        Record(d.timers, d.onTime, d.offTime, d.reschedule, d.lit, x, d.line1)
  BY DEF IsDisplay, Record
<1>5. [d EXCEPT !.onTime = x, !.offTime = y, !.reschedule = FALSE] =
        Record(d.timers, x, y, FALSE, d.lit, d.waitDate, d.line1)
  <2>1. [d EXCEPT !.onTime = x, !.offTime = y, !.reschedule = FALSE] =
          [[[d EXCEPT !.onTime = x] EXCEPT !.offTime = y] EXCEPT !.reschedule = FALSE]
    BY DEF IsDisplay
  <2>2. [d EXCEPT !.onTime = x] =
          Record(d.timers, x, d.offTime, d.reschedule, d.lit, d.waitDate, d.line1)
    BY DEF IsDisplay, Record
  <2>3. [Record(d.timers, x, d.offTime, d.reschedule, d.lit, d.waitDate, d.line1)
           EXCEPT !.offTime = y] =
          Record(d.timers, x, y, d.reschedule, d.lit, d.waitDate, d.line1)
    BY DEF Record
  <2>4. \A z : [Record(d.timers, x, y, d.reschedule, d.lit, d.waitDate, d.line1)
                  EXCEPT !.reschedule = z] =
                 Record(d.timers, x, y, z, d.lit, d.waitDate, d.line1)
    BY DEF Record
  <2>. QED  BY <2>1, <2>2, <2>3, <2>4, Zenon
<1>. QED  BY <1>1, <1>2, <1>3, <1>4, <1>5

LEMMA CounterSet ==
  ASSUME NEW d, IsDisplay(d), NEW x, NEW y
  PROVE  [d EXCEPT !.waitDate = x, !.line1 = y] =
           Record(d.timers, d.onTime, d.offTime, d.reschedule, d.lit, x, y)
<1>1. [d EXCEPT !.waitDate = x, !.line1 = y] = [[d EXCEPT !.waitDate = x] EXCEPT !.line1 = y]
  BY DEF IsDisplay
<1>2. [d EXCEPT !.waitDate = x] =
        Record(d.timers, d.onTime, d.offTime, d.reschedule, d.lit, x, d.line1)
  BY FieldSet, Zenon
<1>3. [Record(d.timers, d.onTime, d.offTime, d.reschedule, d.lit, x, d.line1) EXCEPT !.line1 = y] =
        Record(d.timers, d.onTime, d.offTime, d.reschedule, d.lit, x, y)
  BY DEF Record
<1>. QED  BY <1>1, <1>2, <1>3, Zenon

\* What led_on_callback and led_off_callback leave: the LED, and a timer if the
\* chain of led_on is still to begin.
LEMMA LedOnFacts ==
  ASSUME NEW d, IsDisplay(d)
  PROVE  LET q == LedOn(d)
         IN  /\ IsDisplay(q) /\ q.onTime = d.onTime /\ q.offTime = d.offTime
             /\ q.lit = TRUE /\ q.reschedule = FALSE
             /\ q.line1 = d.line1 /\ q.waitDate = d.waitDate
             /\ ~d.reschedule => q.timers = d.timers
             /\ d.reschedule => \E e : /\ q.timers = d.timers \cup {e}
                                       /\ e.group = "BLINK" /\ e.callback = "led_on"
                                       /\ e.every = d.onTime + d.offTime
                                       /\ e.left = e.every /\ ~e.turn
<1>. DEFINE u == [d EXCEPT !.reschedule = FALSE]
            s == Schedule(u, "BLINK", "led_on", d.onTime + d.offTime, d.onTime + d.offTime)
            w == IF d.reschedule THEN s ELSE d
<1>1. LedOn(d) = [w EXCEPT !.lit = TRUE]
  BY DEF LedOn
<1>2. \A t \in d.timers : IsEntry(t)
  BY DEF IsDisplay
<1>3. d.reschedule \in BOOLEAN /\ d.lit \in BOOLEAN
  BY DEF IsDisplay
<1>4. /\ IsDisplay(u) /\ u.timers = d.timers /\ u.onTime = d.onTime /\ u.offTime = d.offTime
      /\ u.reschedule = FALSE /\ u.line1 = d.line1 /\ u.waitDate = d.waitDate
  <2>1. u = Record(d.timers, d.onTime, d.offTime, FALSE, d.lit, d.waitDate, d.line1)
    BY FieldSet, Zenon
  <2>. HIDE DEF u
  <2>. QED  BY <1>2, <1>3, <2>1 DEF Record, IsDisplay
<1>. HIDE DEF u
<1>5. /\ SameButTimers(u, s)
      /\ \E e : /\ s.timers = d.timers \cup {e} /\ e.group = "BLINK" /\ e.callback = "led_on"
                /\ e.every = d.onTime + d.offTime /\ e.left = e.every /\ ~e.turn
  BY <1>4, ScheduleAdds DEF LedCallbacks
<1>. HIDE DEF s
<1>6. /\ IsDisplay(w) /\ w.onTime = d.onTime /\ w.offTime = d.offTime /\ w.reschedule = FALSE
      /\ w.line1 = d.line1 /\ w.waitDate = d.waitDate
      /\ ~d.reschedule => w.timers = d.timers
      /\ d.reschedule => \E e : /\ w.timers = d.timers \cup {e}
                                /\ e.group = "BLINK" /\ e.callback = "led_on"
                                /\ e.every = d.onTime + d.offTime
                                /\ e.left = e.every /\ ~e.turn
  BY <1>3, <1>4, <1>5 DEF SameButTimers
<1>. HIDE DEF w
<1>7. \A t \in w.timers : IsEntry(t)
  BY <1>6 DEF IsDisplay
<1>8. LedOn(d) = Record(w.timers, w.onTime, w.offTime, w.reschedule, TRUE, w.waitDate, w.line1)
  BY <1>1, <1>6, FieldSet
<1>. QED  BY <1>6, <1>7, <1>8 DEF Record, IsDisplay

LEMMA LedOffFacts ==
  ASSUME NEW d, IsDisplay(d)
  PROVE  LET q == LedOff(d)
         IN  /\ IsDisplay(q) /\ q.onTime = d.onTime /\ q.offTime = d.offTime
             /\ q.lit = FALSE /\ q.reschedule = d.reschedule
             /\ q.line1 = d.line1 /\ q.waitDate = d.waitDate
             /\ ~d.reschedule => q.timers = d.timers
             /\ d.reschedule => \E e : /\ q.timers = d.timers \cup {e}
                                       /\ e.group = "BLINK" /\ e.callback = "led_on"
                                       /\ e.every = 0 /\ e.left = d.onTime /\ ~e.turn
<1>. DEFINE s == Schedule(d, "BLINK", "led_on", d.onTime, 0)
            w == IF d.reschedule THEN s ELSE d
<1>1. LedOff(d) = [w EXCEPT !.lit = FALSE]
  BY DEF LedOff
<1>2. d.reschedule \in BOOLEAN
  BY DEF IsDisplay
<1>3. /\ SameButTimers(d, s)
      /\ \E e : /\ s.timers = d.timers \cup {e} /\ e.group = "BLINK" /\ e.callback = "led_on"
                /\ e.every = 0 /\ e.left = d.onTime /\ ~e.turn
  BY ScheduleAdds DEF LedCallbacks
<1>. HIDE DEF s
<1>4. /\ IsDisplay(w) /\ w.onTime = d.onTime /\ w.offTime = d.offTime
      /\ w.reschedule = d.reschedule /\ w.line1 = d.line1 /\ w.waitDate = d.waitDate
      /\ ~d.reschedule => w.timers = d.timers
      /\ d.reschedule => \E e : /\ w.timers = d.timers \cup {e}
                                /\ e.group = "BLINK" /\ e.callback = "led_on" /\ e.every = 0
                                /\ e.left = d.onTime /\ ~e.turn
  BY <1>2, <1>3 DEF SameButTimers
<1>. HIDE DEF w
<1>5. \A t \in w.timers : IsEntry(t)
  BY <1>4 DEF IsDisplay
<1>6. LedOff(d) = Record(w.timers, w.onTime, w.offTime, w.reschedule, FALSE, w.waitDate, w.line1)
  BY <1>1, <1>4, FieldSet
<1>. QED  BY <1>2, <1>4, <1>5, <1>6 DEF Record, IsDisplay

\* The LED and line 1 do not touch each other's timers.
LedSame(d, q) ==
  /\ Entries(q, "BLINK") = Entries(d, "BLINK")
  /\ q.onTime = d.onTime /\ q.offTime = d.offTime
  /\ q.reschedule = d.reschedule /\ q.lit = d.lit

LineSame(d, q) == Entries(q, "DATETIME") = Entries(d, "DATETIME") /\ q.line1 = d.line1

LEMMA LedKept ==
  ASSUME NEW d, NEW q, LedSame(d, q), NEW led, LedInv(d, led)
  PROVE  LedInv(q, led)
<1>1. \A c : Chain(q, c) = Chain(d, c)
  BY DEF LedSame, Chain
<1>. QED  BY <1>1 DEF LedInv, ChainInv, LedSame

LEMMA LineKept ==
  ASSUME NEW d, NEW q, LineSame(d, q), NEW line, CounterInv(d, line)
  PROVE  CounterInv(q, line)
BY DEF LineSame, CounterInv

\* What a timer of one group that was added changes.
LEMMA AddedTo ==
  ASSUME NEW d, NEW q, NEW e, q.timers = d.timers \cup {e}
  PROVE  /\ \A group : Entries(q, group) =
              Entries(d, group) \cup IF e.group = group THEN {e} ELSE {}
         /\ \A c : Chain(q, c) = Chain(d, c) \cup
              IF e.group = "BLINK" /\ e.callback = c /\ e.every # 0 THEN {e} ELSE {}
BY DEF Entries, Chain

BlinkGone(d, q) == q.timers = d.timers \ Entries(d, "BLINK")

LEMMA StillFacts ==
  ASSUME NEW d, IsDisplay(d), NEW on, NEW off
  PROVE  LET q == Still(d, on, off)
         IN  /\ IsDisplay(q) /\ Entries(q, "BLINK") = {} /\ LineSame(d, q)
             /\ q.onTime = on /\ q.offTime = off /\ q.reschedule = FALSE
             /\ BlinkGone(d, q)
<1>. DEFINE u == Remove(d, "BLINK")
            q == Still(d, on, off)
<1>1. SameButTimers(d, u) /\ u.timers = d.timers \ Entries(d, "BLINK")
  BY RemoveTakes
<1>2. q = [u EXCEPT !.onTime = on, !.offTime = off, !.reschedule = FALSE]
  BY DEF Still
<1>. HIDE DEF u, q
<1>3. IsDisplay(u)
  BY <1>1 DEF SameButTimers
<1>4. q = Record(u.timers, on, off, FALSE, u.lit, u.waitDate, u.line1)
  BY <1>2, <1>3, FieldSet
<1>5. /\ IsDisplay(q) /\ q.timers = u.timers /\ q.line1 = u.line1
      /\ q.onTime = on /\ q.offTime = off /\ q.reschedule = FALSE
  BY <1>3, <1>4 DEF Record, IsDisplay
<1>6. Entries(q, "BLINK") = {} /\ Entries(q, "DATETIME") = Entries(d, "DATETIME")
  BY <1>1, <1>5 DEF Entries
<1>. QED  BY <1>1, <1>5, <1>6 DEF q, LineSame, SameButTimers, BlinkGone

BlinkAdds(d, q, p, first) ==
  \E e : /\ q.timers = (d.timers \ Entries(d, "BLINK")) \cup {e}
         /\ Entries(q, "BLINK") = {e}
         /\ e.group = "BLINK" /\ e.callback = "led_off"
         /\ e.every = OnTime[p] + OffTime[p] /\ e.left = first /\ ~e.turn

LEMMA BlinkKeeps ==
  ASSUME NEW d, IsDisplay(d), NEW p \in Blinking, NEW first
  PROVE  LET q == Blink(d, OnTime[p], OffTime[p], first)
         IN  /\ IsDisplay(q) /\ LedInv(q, p) /\ LineSame(d, q) /\ q.reschedule
             /\ BlinkAdds(d, q, p, first)
<1>. DEFINE every == OnTime[p] + OffTime[p]
            u == Still(d, OnTime[p], OffTime[p])
            v == LedOn(u)
            w == [v EXCEPT !.reschedule = TRUE]
            q == Schedule(w, "BLINK", "led_off", first, every)
<1>1. /\ IsDisplay(u) /\ Entries(u, "BLINK") = {} /\ LineSame(d, u)
      /\ u.onTime = OnTime[p] /\ u.offTime = OffTime[p] /\ u.reschedule = FALSE
      /\ BlinkGone(d, u)
  BY StillFacts
<1>. HIDE DEF u
<1>2. /\ IsDisplay(v) /\ v.timers = u.timers /\ v.line1 = u.line1
      /\ v.onTime = u.onTime /\ v.offTime = u.offTime
  BY <1>1, LedOnFacts
<1>. HIDE DEF v
<1>3. w = Record(v.timers, v.onTime, v.offTime, TRUE, v.lit, v.waitDate, v.line1)
  BY <1>2, FieldSet, Zenon
<1>. HIDE DEF w
<1>4. /\ IsDisplay(w) /\ w.timers = u.timers /\ w.line1 = u.line1
      /\ w.onTime = OnTime[p] /\ w.offTime = OffTime[p] /\ w.reschedule = TRUE
  BY <1>1, <1>2, <1>3 DEF Record, IsDisplay
<1>. DEFINE e == NewEntry(w, "BLINK", "led_off", first, every)
<1>5. /\ SameButTimers(w, q) /\ q.timers = w.timers \cup {e}
      /\ e.group = "BLINK" /\ e.callback = "led_off" /\ e.every = every
      /\ e.left = first /\ ~e.turn
  BY <1>4, ScheduleAdds DEF LedCallbacks
<1>6. Blink(d, OnTime[p], OffTime[p], first) = q
  BY DEF Blink, w, v, u
<1>. HIDE DEF e, q
<1>7. Entries(q, "BLINK") = {e} /\ Entries(q, "DATETIME") = Entries(u, "DATETIME")
  BY <1>1, <1>4, <1>5 DEF Entries
<1>8. Chain(q, "led_off") = {e} /\ Chain(q, "led_on") = {}
  BY <1>5, <1>7, Periods DEF Chain
<1>9. ChainInv(q, p)
  BY <1>4, <1>5, <1>7, <1>8 DEF ChainInv, One, SameButTimers
<1>10. LedInv(q, p)
  BY <1>9 DEF LedInv
<1>11. q.timers = (d.timers \ Entries(d, "BLINK")) \cup {e}
  BY <1>1, <1>4, <1>5 DEF BlinkGone
<1>12. q.reschedule
  BY <1>4, <1>5 DEF SameButTimers
<1>13. LineSame(d, q) /\ IsDisplay(q)
  BY <1>1, <1>4, <1>5, <1>7 DEF LineSame, SameButTimers
<1>14. BlinkAdds(d, q, p, first)
  BY <1>5, <1>7, <1>11 DEF BlinkAdds
<1>. QED  BY <1>6, <1>10, <1>12, <1>13, <1>14

LEMMA SteadyKeeps ==
  ASSUME NEW d, IsDisplay(d)
  PROVE  /\ IsDisplay(SteadyOn(d)) /\ LedInv(SteadyOn(d), "on") /\ LineSame(d, SteadyOn(d))
         /\ IsDisplay(SteadyOff(d)) /\ LedInv(SteadyOff(d), "off") /\ LineSame(d, SteadyOff(d))
         /\ SteadyOn(d).timers \subseteq d.timers /\ SteadyOff(d).timers \subseteq d.timers
<1>1. ASSUME NEW on, NEW off, NEW q,
             q \in {LedOn(Still(d, on, off)), LedOff(Still(d, on, off))}
      PROVE  /\ IsDisplay(q) /\ Entries(q, "BLINK") = {} /\ LineSame(d, q)
             /\ q.timers \subseteq d.timers
  <2>. DEFINE u == Still(d, on, off)
  <2>1. /\ IsDisplay(u) /\ Entries(u, "BLINK") = {} /\ LineSame(d, u) /\ u.reschedule = FALSE
        /\ BlinkGone(d, u)
    BY StillFacts
  <2>. HIDE DEF u
  <2>2. IsDisplay(q) /\ q.timers = u.timers /\ q.line1 = u.line1
    <3>1. q = LedOn(u) \/ q = LedOff(u)
      BY <1>1 DEF u
    <3>2. CASE q = LedOn(u)
      BY <2>1, <3>2, LedOnFacts
    <3>3. CASE q = LedOff(u)
      BY <2>1, <3>3, LedOffFacts
    <3>. QED  BY <3>1, <3>2, <3>3
  <2>. QED  BY <2>1, <2>2 DEF LineSame, Entries, BlinkGone
<1>2. SteadyOn(d).lit = TRUE /\ SteadyOff(d).lit = FALSE
  BY StillFacts, LedOnFacts, LedOffFacts DEF SteadyOn, SteadyOff
<1>. QED  BY <1>1, <1>2 DEF SteadyOn, SteadyOff, LedInv, Blinking

\* led_on_callback: the first one starts the chain of its own, the later ones add
\* nothing.
LEMMA LedOnKeeps ==
  ASSUME NEW d, IsDisplay(d), NEW p \in Blinking, ChainInv(d, p)
  PROVE  LET q == LedOn(d) IN IsDisplay(q) /\ ChainInv(q, p) /\ LineSame(d, q)
<1>. DEFINE q == LedOn(d)
<1>1. /\ IsDisplay(q) /\ q.onTime = d.onTime /\ q.offTime = d.offTime
      /\ q.reschedule = FALSE /\ q.line1 = d.line1
      /\ ~d.reschedule => q.timers = d.timers
      /\ d.reschedule => \E e : /\ q.timers = d.timers \cup {e}
                                /\ e.group = "BLINK" /\ e.callback = "led_on"
                                /\ e.every = d.onTime + d.offTime
  BY LedOnFacts
<1>. HIDE DEF q
<1>2. d.reschedule \in BOOLEAN
  BY DEF IsDisplay
<1>3. CASE ~d.reschedule
  <2>1. Entries(q, "BLINK") = Entries(d, "BLINK") /\ Entries(q, "DATETIME") = Entries(d, "DATETIME")
    BY <1>1, <1>3 DEF Entries
  <2>2. \A c : Chain(q, c) = Chain(d, c)
    BY <2>1 DEF Chain
  <2>. QED  BY <1>1, <1>3, <2>1, <2>2 DEF ChainInv, LineSame, q
<1>4. CASE d.reschedule
  <2>1. PICK e : /\ q.timers = d.timers \cup {e}
                 /\ e.group = "BLINK" /\ e.callback = "led_on" /\ e.every = d.onTime + d.offTime
    BY <1>1, <1>4
  <2>2. /\ Entries(q, "BLINK") = Entries(d, "BLINK") \cup {e}
        /\ Entries(q, "DATETIME") = Entries(d, "DATETIME")
    BY <2>1 DEF Entries
  <2>3. e.every = OnTime[p] + OffTime[p] /\ e.every # 0
    BY <2>1, Periods DEF ChainInv
  <2>4. Chain(q, "led_off") = Chain(d, "led_off") /\ Chain(q, "led_on") = {e}
    <3>1. Chain(d, "led_on") = {}
      BY <1>4 DEF ChainInv
    <3>. QED  BY <2>1, <2>2, <2>3, <3>1 DEF Chain
  <2>5. One(Chain(q, "led_off")) /\ One(Chain(q, "led_on"))
    BY <2>4 DEF One, ChainInv
  <2>6. \A t \in Entries(q, "BLINK") : t.every \in {0, OnTime[p] + OffTime[p]}
    BY <2>2, <2>3 DEF ChainInv
  <2>. QED  BY <1>1, <2>2, <2>5, <2>6 DEF ChainInv, LineSame, q
<1>. QED  BY <1>2, <1>3, <1>4

\* led_off_callback: its one-shot timers are no part of the chains.
LEMMA LedOffKeeps ==
  ASSUME NEW d, IsDisplay(d), NEW p \in Blinking, ChainInv(d, p)
  PROVE  LET q == LedOff(d) IN IsDisplay(q) /\ ChainInv(q, p) /\ LineSame(d, q)
<1>. DEFINE q == LedOff(d)
<1>1. /\ IsDisplay(q) /\ q.onTime = d.onTime /\ q.offTime = d.offTime
      /\ q.reschedule = d.reschedule /\ q.line1 = d.line1
      /\ ~d.reschedule => q.timers = d.timers
      /\ d.reschedule => \E e : /\ q.timers = d.timers \cup {e}
                                /\ e.group = "BLINK" /\ e.callback = "led_on" /\ e.every = 0
  BY LedOffFacts
<1>. HIDE DEF q
<1>2. /\ \A c : Chain(q, c) = Chain(d, c)
      /\ Entries(q, "DATETIME") = Entries(d, "DATETIME")
      /\ \A t \in Entries(q, "BLINK") : t \in Entries(d, "BLINK") \/ t.every = 0
  <2>1. d.reschedule \in BOOLEAN
    BY DEF IsDisplay
  <2>2. CASE ~d.reschedule
    BY <1>1, <2>2 DEF Entries, Chain
  <2>3. CASE d.reschedule
    <3>1. PICK e : /\ q.timers = d.timers \cup {e}
                   /\ e.group = "BLINK" /\ e.callback = "led_on" /\ e.every = 0
      BY <1>1, <2>3
    <3>. QED  BY <3>1 DEF Entries, Chain
  <2>. QED  BY <2>1, <2>2, <2>3
<1>3. \A t \in Entries(q, "BLINK") : t.every \in {0, OnTime[p] + OffTime[p]}
  BY <1>2 DEF ChainInv
<1>. QED  BY <1>1, <1>2, <1>3 DEF ChainInv, LineSame, q

-----------------------------------------------------------------------------
(* Line 1                                                                  *)

\* Line 1 is set and its timers replaced, nothing else.
LineOnly(d, q) == IsDisplay(q) /\ LedSame(d, q)

LEMMA LineSet ==
  ASSUME NEW d, IsDisplay(d), NEW x, NEW y
  PROVE  /\ LineOnly(d, [d EXCEPT !.line1 = y]) /\ LineOnly(d, [d EXCEPT !.waitDate = x])
         /\ LineOnly(d, [d EXCEPT !.waitDate = x, !.line1 = y])
         /\ [d EXCEPT !.line1 = y].line1 = y /\ [d EXCEPT !.waitDate = x, !.line1 = y].line1 = y
         /\ [d EXCEPT !.line1 = y].timers = d.timers
         /\ [d EXCEPT !.waitDate = x, !.line1 = y].timers = d.timers
<1>1. ASSUME NEW wait, NEW line, NEW q,
             q = Record(d.timers, d.onTime, d.offTime, d.reschedule, d.lit, wait, line)
      PROVE  LineOnly(d, q) /\ q.timers = d.timers /\ q.line1 = line
  <2>1. IsDisplay(q) /\ q.timers = d.timers
    BY <1>1 DEF Record, IsDisplay
  <2>. QED  BY <1>1, <2>1 DEF Record, LineOnly, LedSame, Entries
<1>2. [d EXCEPT !.line1 = y] =
        Record(d.timers, d.onTime, d.offTime, d.reschedule, d.lit, d.waitDate, y)
  BY FieldSet, Zenon
<1>3. [d EXCEPT !.waitDate = x] =
        Record(d.timers, d.onTime, d.offTime, d.reschedule, d.lit, x, d.line1)
  BY FieldSet, Zenon
<1>4. [d EXCEPT !.waitDate = x, !.line1 = y] =
        Record(d.timers, d.onTime, d.offTime, d.reschedule, d.lit, x, y)
  BY CounterSet, Zenon
<1>5. LineOnly(d, [d EXCEPT !.line1 = y]) /\ [d EXCEPT !.line1 = y].line1 = y
      /\ [d EXCEPT !.line1 = y].timers = d.timers
  <2>. DEFINE q == [d EXCEPT !.line1 = y]
  <2>1. q = Record(d.timers, d.onTime, d.offTime, d.reschedule, d.lit, d.waitDate, y)
    BY <1>2
  <2>. HIDE DEF q
  <2>2. LineOnly(d, q) /\ q.timers = d.timers /\ q.line1 = y
    BY <1>1, <2>1
  <2>. QED  BY <2>2 DEF q
<1>6. LineOnly(d, [d EXCEPT !.waitDate = x])
  BY <1>1, <1>3, Zenon
<1>7. LineOnly(d, [d EXCEPT !.waitDate = x, !.line1 = y])
      /\ [d EXCEPT !.waitDate = x, !.line1 = y].line1 = y
      /\ [d EXCEPT !.waitDate = x, !.line1 = y].timers = d.timers
  <2>. DEFINE q == [d EXCEPT !.waitDate = x, !.line1 = y]
  <2>1. q = Record(d.timers, d.onTime, d.offTime, d.reschedule, d.lit, x, y)
    BY <1>4
  <2>. HIDE DEF q
  <2>2. LineOnly(d, q) /\ q.timers = d.timers /\ q.line1 = y
    BY <1>1, <2>1
  <2>. QED  BY <2>2 DEF q
<1>. QED  BY <1>5, <1>6, <1>7

LEMMA DateTimersOnly ==
  ASSUME NEW d, IsDisplay(d), NEW callback \in LineCallbacks, NEW first, NEW every
  PROVE  /\ LineOnly(d, Remove(d, "DATETIME"))
         /\ Entries(Remove(d, "DATETIME"), "DATETIME") = {}
         /\ Remove(d, "DATETIME").line1 = d.line1
         /\ LET q == Schedule(d, "DATETIME", callback, first, every)
            IN  /\ LineOnly(d, q) /\ q.line1 = d.line1
                /\ \A t \in Entries(q, "DATETIME") :
                     t \in Entries(d, "DATETIME") \/ t.callback = callback
<1>1. LET r == Remove(d, "DATETIME")
      IN  LineOnly(d, r) /\ Entries(r, "DATETIME") = {} /\ r.line1 = d.line1
  BY RemoveTakes DEF LineOnly, LedSame, SameButTimers, Entries
<1>2. LET q == Schedule(d, "DATETIME", callback, first, every)
      IN  /\ LineOnly(d, q) /\ q.line1 = d.line1
          /\ \A t \in Entries(q, "DATETIME") :
               t \in Entries(d, "DATETIME") \/ t.callback = callback
  BY ScheduleAdds DEF LineOnly, LedSame, SameButTimers, Entries
<1>. QED  BY <1>1, <1>2

LEMMA LineOnlyTwice ==
  ASSUME NEW d, NEW q, NEW r, LineOnly(d, q), LineOnly(q, r)
  PROVE  LineOnly(d, r)
BY DEF LineOnly, LedSame

LEMMA ShowDateKeeps ==
  ASSUME NEW d, IsDisplay(d), NEW first
  PROVE  LineOnly(d, ShowDate(d, first))
<1>. DEFINE u == Remove(d, "DATETIME")
            v == [u EXCEPT !.line1 = "date"]
<1>1. LineOnly(d, u)
  BY DateTimersOnly DEF LineCallbacks
<1>. HIDE DEF u
<1>2. LineOnly(u, v)
  BY <1>1, LineSet DEF LineOnly
<1>. HIDE DEF v
<1>3. LineOnly(u, Schedule(u, "DATETIME", "delayed_date", DateDelay, 0))
  BY <1>1, DateTimersOnly DEF LineOnly, LineCallbacks
<1>4. LineOnly(v, Schedule(v, "DATETIME", "show_date", first, Second))
  BY <1>2, DateTimersOnly DEF LineOnly, LineCallbacks
<1>5. ShowDate(d, first) \in {Schedule(u, "DATETIME", "delayed_date", DateDelay, 0),
                              Schedule(v, "DATETIME", "show_date", first, Second)}
  BY DEF ShowDate, u, v
<1>6. LineOnly(d, Schedule(u, "DATETIME", "delayed_date", DateDelay, 0))
  BY <1>1, <1>3, LineOnlyTwice, Zenon
<1>7. LineOnly(d, Schedule(v, "DATETIME", "show_date", first, Second))
  BY <1>1, <1>2, <1>4, LineOnlyTwice, Zenon
<1>. QED  BY <1>5, <1>6, <1>7, Zenon

LEMMA ShowCounterKeeps ==
  ASSUME NEW d, IsDisplay(d), NEW first
  PROVE  /\ LineOnly(d, ShowCounter(d)) /\ CounterInv(ShowCounter(d), "counter")
         /\ LineOnly(d, StartCounter(d, first)) /\ CounterInv(StartCounter(d, first), "counter")
<1>. DEFINE u == Remove(d, "DATETIME")
            v == [u EXCEPT !.waitDate = TRUE, !.line1 = "counter"]
            w == Schedule(v, "DATETIME", "show_counter", first, Second)
<1>1. LineOnly(d, u) /\ Entries(u, "DATETIME") = {}
  BY DateTimersOnly DEF LineCallbacks
<1>. HIDE DEF u
<1>2. LineOnly(u, v) /\ v.line1 = "counter" /\ Entries(v, "DATETIME") = {}
  <2>1. LineOnly(u, v) /\ v.line1 = "counter" /\ v.timers = u.timers
    <3>1. v = Record(u.timers, u.onTime, u.offTime, u.reschedule, u.lit, TRUE, "counter")
      BY <1>1, CounterSet, Zenon DEF LineOnly
    <3>. HIDE DEF v
    <3>2. IsDisplay(v)
      BY <1>1, <3>1 DEF Record, LineOnly, IsDisplay
    <3>. QED  BY <3>1, <3>2 DEF Record, LineOnly, LedSame, Entries
  <2>. HIDE DEF v
  <2>. QED  BY <1>1, <2>1 DEF Entries
<1>. HIDE DEF v
<1>3. /\ LineOnly(v, w) /\ w.line1 = "counter"
      /\ \A t \in Entries(w, "DATETIME") : t.callback = "show_counter"
  BY <1>2, DateTimersOnly DEF LineOnly, LineCallbacks
<1>4. LineOnly(d, v) /\ LineOnly(d, w)
  BY <1>1, <1>2, <1>3, LineOnlyTwice
<1>5. ShowCounter(d) = v /\ StartCounter(d, first) = w
  BY DEF ShowCounter, StartCounter, v, u
<1>6. CounterInv(v, "counter") /\ CounterInv(w, "counter")
  BY <1>2, <1>3 DEF CounterInv
<1>. QED  BY <1>4, <1>5, <1>6, Zenon

LEMMA HideAllKeeps ==
  ASSUME NEW d, IsDisplay(d)
  PROVE  IsDisplay(HideAll(d)) /\ LedInv(HideAll(d), "off")
<1>. DEFINE u == SteadyOff(d)
            v == StopCounter(u)
<1>1. IsDisplay(u) /\ LedInv(u, "off")
  BY SteadyKeeps
<1>. HIDE DEF u
<1>2. LineOnly(u, v)
  BY <1>1, DateTimersOnly DEF StopCounter, LineCallbacks
<1>. HIDE DEF v
<1>3. LineOnly(v, [v EXCEPT !.line1 = "blank"])
  BY <1>2, LineSet DEF LineOnly
<1>4. HideAll(d) = [v EXCEPT !.line1 = "blank"]
  BY DEF HideAll, v, u
<1>. QED  BY <1>1, <1>2, <1>3, <1>4, LedKept DEF LineOnly

-----------------------------------------------------------------------------
(* The steps                                                               *)

LEMMA CallerStep ==
  ASSUME IInv, Caller
  PROVE  IInv'
<1>. USE DEF IInv
<1>1. ASSUME NEW p \in Blinking, yldisp_led_blink(p)
      PROVE  IInv'
  <2>1. PICK first \in FirstOf(OnTime[p] + OffTime[p]) :
          disp' = Blink(disp, OnTime[p], OffTime[p], first)
    BY <1>1 DEF yldisp_led_blink
  <2>2. asked' = [led |-> p, line1 |-> asked.line1]
    BY <1>1 DEF yldisp_led_blink
  <2>3. IsDisplay(disp') /\ LedInv(disp', p) /\ LineSame(disp, disp')
    BY <2>1, BlinkKeeps
  <2>. QED  BY <2>2, <2>3, LineKept
<1>2. CASE yldisp_led_on
  <2>1. disp' = SteadyOn(disp) /\ asked' = [led |-> "on", line1 |-> asked.line1]
    BY <1>2 DEF yldisp_led_on
  <2>2. IsDisplay(disp') /\ LedInv(disp', "on") /\ LineSame(disp, disp')
    BY <2>1, SteadyKeeps
  <2>. QED  BY <2>1, <2>2, LineKept
<1>3. CASE yldisp_show_date
  <2>1. asked' = [led |-> asked.led, line1 |-> "date"] /\ LineOnly(disp, disp')
    BY <1>3, ShowDateKeeps DEF yldisp_show_date
  <2>2. CounterInv(disp', "date")
    BY DEF CounterInv
  <2>. QED  BY <2>1, <2>2, LedKept DEF LineOnly
<1>4. CASE yldisp_show_counter \/ yldisp_start_counter
  <2>1. asked' = [led |-> asked.led, line1 |-> "counter"]
    BY <1>4 DEF yldisp_show_counter, yldisp_start_counter
  <2>2. LineOnly(disp, disp') /\ CounterInv(disp', "counter")
    BY <1>4, ShowCounterKeeps DEF yldisp_show_counter, yldisp_start_counter
  <2>. QED  BY <2>1, <2>2, LedKept DEF LineOnly
<1>5. CASE yldisp_hide_all
  <2>1. asked' = [led |-> "off", line1 |-> "blank"]
    BY <1>5 DEF yldisp_hide_all
  <2>2. IsDisplay(disp') /\ LedInv(disp', "off")
    BY <1>5, HideAllKeeps DEF yldisp_hide_all
  <2>3. CounterInv(disp', "blank")
    BY DEF CounterInv
  <2>. QED  BY <2>1, <2>2, <2>3
<1>. QED  BY <1>1, <1>2, <1>3, <1>4, <1>5 DEF Caller

\* Time passes, or a pass begins: every timer goes on with what it was.
LEMMA LoopStep ==
  ASSUME IInv, Elapse \/ BeginPass
  PROVE  IInv'
<1>. USE DEF IInv
<1>1. PICK F : /\ \A t \in disp.timers : Alike(t, F[t])
               /\ disp' = [disp EXCEPT !.timers = {F[t] : t \in disp.timers}]
  <2>1. CASE Elapse
    <3>. DEFINE F == [t \in disp.timers |-> [t EXCEPT !.left = t.left - 1]]
    <3>1. disp' = [disp EXCEPT !.timers = {F[t] : t \in disp.timers}]
      BY <2>1 DEF Elapse
    <3>2. \A t \in disp.timers : Alike(t, F[t])
      BY EntryMoved DEF IsDisplay
    <3>. QED  BY <3>1, <3>2
  <2>2. CASE BeginPass
    <3>. DEFINE F == [t \in disp.timers |-> [t EXCEPT !.turn = t.left <= 0]]
    <3>1. disp' = [disp EXCEPT !.timers = {F[t] : t \in disp.timers}]
      BY <2>2 DEF BeginPass
    <3>2. \A t \in disp.timers : Alike(t, F[t])
      BY EntryMoved DEF IsDisplay
    <3>. QED  BY <3>1, <3>2
  <2>. QED  BY <2>1, <2>2
<1>. DEFINE T == {F[t] : t \in disp.timers}
<1>2. \A t \in T : IsEntry(t)
  BY <1>1 DEF Alike
<1>3. SameButTimers(disp, disp') /\ disp'.timers = T
  <2>. HIDE DEF T
  <2>. QED  BY <1>1, <1>2, NewTimers DEF T
<1>4. LedInv(disp', asked.led) /\ CounterInv(disp', asked.line1)
  <2>1. Mapped(disp, disp', F)
    BY <1>1, <1>3 DEF Mapped
  <2>2. IsDisplay(disp) /\ LedInv(disp, asked.led) /\ CounterInv(disp, asked.line1)
    OBVIOUS
  <2>. HIDE DEF IInv
  <2>. QED  BY <1>3, <2>1, <2>2, MapKeeps
<1>5. UNCHANGED asked
  BY DEF Elapse, BeginPass
<1>. QED  BY <1>3, <1>4, <1>5 DEF SameButTimers

\* A callback of the LED belongs to the pattern asked for last; one of line 1 leaves
\* the LED alone, and the duration of a call has no other callback than its own.
LEMMA CallStep ==
  ASSUME IInv, Call
  PROVE  IInv'
<1>. USE DEF IInv
<1>1. PICK t \in Due : Run(t, Served(disp, t))
  BY DEF Call
<1>. DEFINE s == Served(disp, t)
<1>2. t \in disp.timers /\ IsEntry(t)
  BY <1>1 DEF Due, IsDisplay
<1>3. SameButTimers(disp, s) /\ LedInv(s, asked.led) /\ CounterInv(s, asked.line1)
  BY <1>2, ServedKeeps
<1>4. Run(t, s)
  BY <1>1
<1>5. IsDisplay(s)
  BY <1>3 DEF SameButTimers
<1>6. UNCHANGED asked
  BY DEF Call
<1>. HIDE DEF s
<1>7. CASE t.callback \in LedCallbacks
  <2>1. t \in Entries(disp, "BLINK")
    BY <1>2, <1>7 DEF IsEntry, Entries, LedCallbacks, LineCallbacks
  <2>2. asked.led \in Blinking /\ ChainInv(s, asked.led)
    BY <1>3, <2>1 DEF LedInv
  <2>3. disp' \in {LedOn(s), LedOff(s)}
    BY <1>4, <1>7 DEF Run, LedCallbacks
  <2>4. IsDisplay(disp') /\ ChainInv(disp', asked.led) /\ LineSame(s, disp')
    <3>1. CASE disp' = LedOn(s)
      BY <1>5, <2>2, <3>1, LedOnKeeps
    <3>2. CASE disp' = LedOff(s)
      BY <1>5, <2>2, <3>2, LedOffKeeps
    <3>. QED  BY <2>3, <3>1, <3>2
  <2>. QED  BY <1>3, <1>6, <2>2, <2>4, LineKept DEF LedInv
<1>8. CASE t.callback \in LineCallbacks
  <2>1. t \in Entries(disp, "DATETIME")
    BY <1>2, <1>8 DEF IsEntry, Entries, LedCallbacks, LineCallbacks
  <2>2. LineOnly(s, disp')
    <3>1. CASE t.callback \in {"show_date", "show_counter"}
      <4>1. disp' \in {[s EXCEPT !.line1 = "date"], [s EXCEPT !.line1 = "counter"]}
        BY <1>4, <3>1 DEF Run
      <4>2. \A line : LineOnly(s, [s EXCEPT !.line1 = line])
        BY <1>5, LineSet, Zenon
      <4>. QED  BY <4>1, <4>2
    <3>2. CASE t.callback = "delayed_date"
      <4>. DEFINE u == [s EXCEPT !.waitDate = FALSE]
      <4>1. u = Record(s.timers, s.onTime, s.offTime, s.reschedule, s.lit, FALSE, s.line1)
        BY <1>5, FieldSet, Zenon
      <4>2. PICK first \in FirstOf(Second) : disp' = ShowDate(u, first)
        BY <1>4, <3>2 DEF Run, DelayedDate
      <4>. HIDE DEF u
      <4>3. IsDisplay(u)
        BY <1>5, <4>1 DEF Record, IsDisplay
      <4>4. LineOnly(s, u)
        BY <4>1, <4>3 DEF Record, LineOnly, LedSame, Entries
      <4>. QED  BY <4>2, <4>3, <4>4, ShowDateKeeps, LineOnlyTwice
    <3>. QED  BY <1>8, <3>1, <3>2 DEF LineCallbacks
  <2>3. CounterInv(disp', asked.line1)
    <3>1. SUFFICES ASSUME asked.line1 = "counter" PROVE CounterInv(disp', "counter")
      BY DEF CounterInv
    <3>2. t.callback = "show_counter"
      BY <2>1, <3>1 DEF CounterInv
    <3>3. disp' = [s EXCEPT !.line1 = "counter"]
      BY <1>4, <3>2 DEF Run
    <3>4. disp'.line1 = "counter" /\ disp'.timers = s.timers
      BY <1>5, <3>3, LineSet
    <3>. QED  BY <1>3, <3>1, <3>4 DEF CounterInv, Entries
  <2>. QED  BY <1>3, <1>6, <2>2, <2>3, LedKept DEF LineOnly
<1>. QED  BY <1>2, <1>7, <1>8 DEF IsEntry

LEMMA DisplayInvariance == Spec => []IInv
<1>1. Init => IInv
  <2>. SUFFICES ASSUME Init PROVE IInv
    OBVIOUS
  <2>1. IsDisplay(disp)
    BY DEF Init, IsDisplay
  <2>2. LedInv(disp, asked.led)
    BY DEF Init, LedInv, Blinking, Entries
  <2>3. CounterInv(disp, asked.line1) /\ asked = [led |-> asked.led, line1 |-> asked.line1]
    BY DEF Init, CounterInv
  <2>. QED  BY <2>1, <2>2, <2>3 DEF IInv
<1>2. IInv /\ [Next]_vars => IInv'
  <2>. SUFFICES ASSUME IInv, [Next]_vars PROVE IInv'
    OBVIOUS
  <2>1. CASE LeaveAlone \/ UNCHANGED vars
    BY <2>1 DEF LeaveAlone, vars, IInv
  <2>. QED  BY <2>1, CallerStep, LoopStep, CallStep DEF Next
<1>. QED  BY <1>1, <1>2, PTL DEF Spec

-----------------------------------------------------------------------------
(* Room in the event list                                                  *)
(*                                                                         *)
(* Each call of led_off leaves a one-shot led_on until the first of these  *)
(* has run.  The oldest of N one-shots is due before led_off comes again   *)
(* unless N periods fit into its time and the delay of the main loop.      *)

Timely(t) == t.left \in Int /\ -MaxLate <= t.left /\ t.every \in Nat

Timed(d) == IsFiniteSet(d.timers) /\ \A t \in d.timers : Timely(t)

OneDate(d) == \A t, u \in Entries(d, "DATETIME") : t = u

Burst(d) == {t \in Entries(d, "BLINK") : t.every = 0}

Waiting(N, p, b, u) ==
  N * (OnTime[p] + OffTime[p]) <= MaxLate + OnTime[p] + b.left - u.left

BurstInv(d, p) ==
  /\ \A t \in Burst(d) : t.callback = "led_on"
  /\ Cardinality(Burst(d)) <= IF d.reschedule THEN Room - 2 ELSE Room - 3
  /\ d.reschedule /\ Burst(d) # {} =>
       \E u \in Burst(d) : \A b \in Chain(d, "led_off") : Waiting(Cardinality(Burst(d)), p, b, u)
  /\ \A b \in Chain(d, "led_off") : \A u \in Burst(d) : b.turn /\ ~u.turn => b.left <= u.left

RoomInv(d, led) == Timed(d) /\ OneDate(d) /\ (led \in Blinking => BurstInv(d, led))

LEMMA Monotone ==
  ASSUME NEW m \in Int, NEW n \in Int, NEW p \in Nat, m <= n
  PROVE  m * p <= n * p
OBVIOUS

LEMMA Cancel ==
  ASSUME NEW m \in Int, NEW n \in Int, NEW p \in Nat, m * p < n * p
  PROVE  m < n
OBVIOUS

LEMMA OneMore ==
  ASSUME NEW n \in Int, NEW p \in Nat
  PROVE  (n + 1) * p = n * p + p
OBVIOUS

LEMMA RoomForThree == Room - 3 \in Nat
<1>. DEFINE p == OnTime["fast"] + OffTime["fast"]
<1>1. "fast" \in Blinking
  BY DEF Blinking
<1>2. p \in Nat /\ OnTime["fast"] \in Nat /\ Room \in Nat /\ MaxLate \in Nat
  BY <1>1, Periods, DisplayAssumption
<1>3. OnTime["fast"] + MaxLate < (Room - 2) * p
  BY <1>1, RoomAssumption
<1>. HIDE DEF p
<1>4. 0 * p < (Room - 2) * p
  BY <1>2, <1>3
<1>. QED  BY <1>2, <1>4, Cancel

\* The invariant leaves room for all timers.
LEMMA UnionAtMost ==
  ASSUME NEW S, NEW T, IsFiniteSet(S), IsFiniteSet(T)
  PROVE  /\ IsFiniteSet(S \cup T)
         /\ Cardinality(S) \in Nat /\ Cardinality(T) \in Nat /\ Cardinality(S \cup T) \in Nat
         /\ Cardinality(S \cup T) <= Cardinality(S) + Cardinality(T)
<1>1. Cardinality(S \cap T) \in Nat /\ Cardinality(S) \in Nat /\ Cardinality(T) \in Nat
  BY FS_Intersection, FS_CardinalityType
<1>2. IsFiniteSet(S \cup T) /\ Cardinality(S \cup T) \in Nat
  BY FS_Union, FS_CardinalityType
<1>3. Cardinality(S \cup T) = Cardinality(S) + Cardinality(T) - Cardinality(S \cap T)
  BY FS_Union
<1>. QED  BY <1>1, <1>2, <1>3

LEMMA OneElement ==
  ASSUME NEW S, One(S) PROVE IsFiniteSet(S) /\ Cardinality(S) = 1
<1>1. PICK x : S = {x}
  BY DEF One
<1>2. IsFiniteSet({x}) /\ Cardinality({x}) = 1
  BY FS_Singleton, Zenon
<1>. QED  BY <1>1, <1>2

LEMMA AtMostOne ==
  ASSUME NEW S, \A x, y \in S : x = y
  PROVE  IsFiniteSet(S) /\ Cardinality(S) <= 1
<1>1. CASE S = {}
  BY <1>1, FS_EmptySet
<1>2. CASE S # {}
  <2>1. One(S)
    BY <1>2 DEF One
  <2>. QED  BY <2>1, OneElement
<1>. QED  BY <1>1, <1>2

LEMMA RoomInvFits ==
  ASSUME NEW d, IsDisplay(d), NEW led, LedInv(d, led), RoomInv(d, led)
  PROVE  Cardinality(d.timers) <= Room
<1>. DEFINE D == Entries(d, "DATETIME")
            F == Chain(d, "led_off")
            N == Chain(d, "led_on")
            B == Burst(d)
<1>1. IsFiniteSet(D) /\ Cardinality(D) <= 1
  BY AtMostOne DEF RoomInv, OneDate
<1>2. Room \in Nat /\ 1 <= Room
  BY RoomForThree, DisplayAssumption
<1>3. CASE led \notin Blinking
  <2>1. d.timers = D
    BY <1>3 DEF LedInv, IsDisplay, IsEntry, Entries
  <2>2. Cardinality(D) \in Nat
    BY <1>1, FS_CardinalityType
  <2>. HIDE DEF D
  <2>. QED  BY <1>1, <1>2, <2>1, <2>2
<1>4. CASE led \in Blinking
  <2>1. d.timers = (B \cup N) \cup (F \cup D)
    BY DEF IsDisplay, IsEntry, Entries, Chain, Burst, LedCallbacks
  <2>2. IsFiniteSet(F) /\ Cardinality(F) <= 1
    <3>1. One(F)
      BY <1>4 DEF LedInv, ChainInv
    <3>. HIDE DEF F
    <3>. QED  BY <3>1, OneElement
  <2>3. IsFiniteSet(N) /\ Cardinality(N) <= IF d.reschedule THEN 0 ELSE 1
    <3>1. IF d.reschedule THEN N = {} ELSE One(N)
      BY <1>4 DEF LedInv, ChainInv
    <3>. HIDE DEF N
    <3>. QED  BY <3>1, OneElement, FS_EmptySet
  <2>4. IsFiniteSet(B) /\ Cardinality(B) <= IF d.reschedule THEN Room - 2 ELSE Room - 3
    <3>1. B \subseteq d.timers
      BY DEF Burst, Entries
    <3>. QED  BY <1>4, <3>1, FS_Subset DEF RoomInv, Timed, BurstInv
  <2>. HIDE DEF B, N, F, D
  <2>5. IsFiniteSet(B \cup N) /\ Cardinality(B \cup N) <= Room - 2
    BY <1>2, <2>3, <2>4, UnionAtMost
  <2>6. IsFiniteSet(F \cup D) /\ Cardinality(F \cup D) <= 2
    BY <1>1, <2>2, UnionAtMost
  <2>. QED  BY <1>2, <2>1, <2>5, <2>6, UnionAtMost
<1>. QED  BY <1>3, <1>4

\* Entries taken away and at most one entry added.
LEMMA TimedKept ==
  ASSUME NEW d, Timed(d), NEW q, NEW e, Timely(e), q.timers \subseteq d.timers \cup {e}
  PROVE  Timed(q)
<1>1. IsFiniteSet(d.timers \cup {e})
  BY FS_AddElement DEF Timed
<1>2. IsFiniteSet(q.timers)
  BY <1>1, FS_Subset
<1>. QED  BY <1>2 DEF Timed

\* The timers of line 1 are replaced by at most one.
DateReplaced(d, q) ==
  \E e : Timely(e) /\ q.timers \subseteq (d.timers \ Entries(d, "DATETIME")) \cup {e}

LEMMA DateReplacedKeeps ==
  ASSUME NEW d, NEW led, RoomInv(d, led), NEW q, DateReplaced(d, q), LedSame(d, q)
  PROVE  RoomInv(q, led)
<1>1. PICK e : Timely(e) /\ q.timers \subseteq (d.timers \ Entries(d, "DATETIME")) \cup {e}
  BY DEF DateReplaced
<1>2. Timed(q)
  BY <1>1, TimedKept DEF RoomInv
<1>3. OneDate(q)
  BY <1>1 DEF OneDate, Entries
<1>4. Burst(q) = Burst(d) /\ Chain(q, "led_off") = Chain(d, "led_off")
  BY DEF LedSame, Burst, Chain
<1>5. q.reschedule = d.reschedule
  BY DEF LedSame
<1>. QED  BY <1>2, <1>3, <1>4, <1>5 DEF RoomInv, BurstInv

LEMMA SomeTimely == \E e : Timely(e)
<1>1. Timely([left |-> 0, every |-> 0])
  BY DisplayAssumption DEF Timely
<1>. QED  BY <1>1

LEMMA LineTimers ==
  ASSUME NEW d, IsDisplay(d), NEW first \in Nat
  PROVE  /\ DateReplaced(d, ShowDate(d, first))
         /\ DateReplaced(d, ShowCounter(d)) /\ DateReplaced(d, StartCounter(d, first))
<1>. DEFINE u == Remove(d, "DATETIME")
            v == [u EXCEPT !.line1 = "date"]
            w == [u EXCEPT !.waitDate = TRUE, !.line1 = "counter"]
<1>1. IsDisplay(u) /\ u.timers = d.timers \ Entries(d, "DATETIME")
  BY RemoveTakes DEF SameButTimers
<1>. HIDE DEF u
<1>2. IsDisplay(v) /\ v.timers = u.timers /\ IsDisplay(w) /\ w.timers = u.timers
  <2>1. IsDisplay(v) /\ v.timers = u.timers
    BY <1>1, LineSet DEF LineOnly
  <2>2. IsDisplay(w) /\ w.timers = u.timers
    <3>1. w = Record(u.timers, u.onTime, u.offTime, u.reschedule, u.lit, TRUE, "counter")
      BY <1>1, CounterSet, Zenon
    <3>. HIDE DEF w
    <3>. QED  BY <1>1, <3>1 DEF Record, IsDisplay
  <2>. QED  BY <2>1, <2>2
<1>. HIDE DEF v, w
<1>3. ASSUME NEW r, IsDisplay(r), r.timers = u.timers,
             NEW c \in LineCallbacks, NEW left \in Nat, NEW every \in Nat
      PROVE  DateReplaced(d, Schedule(r, "DATETIME", c, left, every))
  <2>. DEFINE q == Schedule(r, "DATETIME", c, left, every)
              e == NewEntry(r, "DATETIME", c, left, every)
  <2>1. q.timers = r.timers \cup {e}
    BY <1>3, ScheduleAdds
  <2>2. Timely(e)
    BY <1>3, DisplayAssumption DEF NewEntry, Timely
  <2>. HIDE DEF q, e
  <2>3. DateReplaced(d, q)
    BY <1>1, <1>3, <2>1, <2>2 DEF DateReplaced
  <2>. QED  BY <2>3 DEF q
<1>4. /\ DateReplaced(d, Schedule(u, "DATETIME", "delayed_date", DateDelay, 0))
      /\ DateReplaced(d, Schedule(v, "DATETIME", "show_date", first, Second))
      /\ DateReplaced(d, Schedule(w, "DATETIME", "show_counter", first, Second))
  BY <1>1, <1>2, <1>3, DisplayAssumption DEF LineCallbacks
<1>5. DateReplaced(d, w)
  BY <1>1, <1>2, SomeTimely DEF DateReplaced
<1>6. ShowDate(d, first) \in {Schedule(u, "DATETIME", "delayed_date", DateDelay, 0),
                              Schedule(v, "DATETIME", "show_date", first, Second)}
  BY DEF ShowDate, u, v
<1>7. ShowCounter(d) = w
      /\ StartCounter(d, first) = Schedule(w, "DATETIME", "show_counter", first, Second)
  BY DEF ShowCounter, StartCounter, w, u
<1>. QED  BY <1>4, <1>5, <1>6, <1>7

LEMMA BlinkRoom ==
  ASSUME NEW d, IsDisplay(d), NEW led, RoomInv(d, led), NEW p \in Blinking, NEW first \in Nat
  PROVE  RoomInv(Blink(d, OnTime[p], OffTime[p], first), p)
<1>. DEFINE q == Blink(d, OnTime[p], OffTime[p], first)
<1>1. /\ IsDisplay(q) /\ LineSame(d, q) /\ q.reschedule
      /\ BlinkAdds(d, q, p, first)
  BY BlinkKeeps
<1>. HIDE DEF q
<1>2. PICK e : /\ q.timers = (d.timers \ Entries(d, "BLINK")) \cup {e}
               /\ Entries(q, "BLINK") = {e}
               /\ e.group = "BLINK" /\ e.callback = "led_off"
               /\ e.every = OnTime[p] + OffTime[p]
               /\ e.left = first /\ ~e.turn
  BY <1>1 DEF BlinkAdds
<1>4. Timely(e)
  BY <1>2, Periods, DisplayAssumption DEF Timely
<1>5. Timed(q)
  BY <1>2, <1>4, TimedKept DEF RoomInv
<1>6. OneDate(q)
  BY <1>1 DEF RoomInv, OneDate, LineSame
<1>7. Burst(q) = {}
  BY <1>2, Periods DEF Burst
<1>8. Cardinality(Burst(q)) <= Room - 2
  <2>1. Room - 3 \in Nat /\ Room \in Nat
    BY RoomForThree, DisplayAssumption
  <2>. QED  BY <1>7, <2>1, FS_EmptySet
<1>9. BurstInv(q, p)
  BY <1>1, <1>7, <1>8 DEF BurstInv
<1>. QED  BY <1>5, <1>6, <1>9 DEF RoomInv, q

\* Entries only taken away, and nothing that blinks left.
LEMMA SteadyRoom ==
  ASSUME NEW d, NEW led, RoomInv(d, led), NEW q, q.timers \subseteq d.timers,
         NEW steady, steady \notin Blinking
  PROVE  RoomInv(q, steady)
<1>1. Timed(q)
  BY SomeTimely, TimedKept DEF RoomInv
<1>2. OneDate(q)
  BY DEF RoomInv, OneDate, Entries
<1>. QED  BY <1>1, <1>2 DEF RoomInv

\* Time passes, or a pass begins.
LEMMA ImageSmaller ==
  ASSUME NEW S, IsFiniteSet(S), NEW F
  PROVE  Cardinality({F[t] : t \in S}) <= Cardinality(S)
<1>. DEFINE T == {F[t] : t \in S}
            f == [t \in S |-> F[t]]
<1>1. f \in [S -> T] /\ \A x \in T : \E t \in S : f[t] = x
  OBVIOUS
<1>2. f \in Surjection(S, T)
  BY <1>1, Zenon DEF Surjection
<1>. HIDE DEF f, T
<1>3. Cardinality(T) <= Cardinality(S)
  BY <1>2, FS_Surjection
<1>. QED  BY <1>3 DEF T

Shifted(d, F, k) ==
  \A t \in d.timers : F[t].left = t.left + k /\ -MaxLate <= F[t].left

InTurn(d, F) ==
  \A b \in Chain(d, "led_off") : \A u \in Burst(d) :
    F[b].turn /\ ~F[u].turn => F[b].left <= F[u].left

LEMMA MapRoom ==
  ASSUME NEW d, NEW led, RoomInv(d, led), NEW q, SameButTimers(d, q),
         NEW F, Mapped(d, q, F), NEW k \in Int, Shifted(d, F, k),
         led \in Blinking => InTurn(d, F)
  PROVE  RoomInv(q, led)
<1>1. Timed(q)
  <2>1. IsFiniteSet(q.timers)
    <3>. DEFINE f == [t \in d.timers |-> F[t]]
    <3>1. f \in [d.timers -> q.timers] /\ \A x \in q.timers : \E t \in d.timers : f[t] = x
      BY DEF Mapped
    <3>2. f \in Surjection(d.timers, q.timers)
      BY <3>1, Zenon DEF Surjection
    <3>. HIDE DEF f
    <3>. QED  BY <3>2, FS_Surjection DEF RoomInv, Timed
  <2>2. \A t \in d.timers : Timely(F[t])
    BY DEF RoomInv, Timed, Timely, Shifted, Mapped, Alike
  <2>. QED  BY <2>1, <2>2 DEF Timed, Mapped
<1>2. OneDate(q)
  BY DEF RoomInv, OneDate, Mapped, Alike, Entries
<1>3. ASSUME led \in Blinking PROVE BurstInv(q, led)
  <2>. DEFINE p == OnTime[led] + OffTime[led]
              M == Cardinality(Burst(q))
              N == Cardinality(Burst(d))
  <2>1. Burst(q) = {F[t] : t \in Burst(d)}
    BY DEF Mapped, Alike, Entries, Burst
  <2>2. Chain(q, "led_off") = {F[t] : t \in Chain(d, "led_off")}
    BY DEF Mapped, Alike, Entries, Chain
  <2>3. Burst(d) \subseteq d.timers /\ Chain(d, "led_off") \subseteq d.timers
    BY DEF Burst, Chain, Entries
  <2>4. M <= N /\ M \in Nat /\ N \in Nat
    <3>1. IsFiniteSet(Burst(d))
      BY <2>3, FS_Subset DEF RoomInv, Timed
    <3>2. M <= N
      BY <2>1, <3>1, ImageSmaller
    <3>3. Burst(q) \subseteq q.timers
      BY DEF Burst, Entries
    <3>4. IsFiniteSet(Burst(q))
      BY <1>1, <3>3, FS_Subset DEF Timed
    <3>. QED  BY <3>1, <3>2, <3>4, FS_CardinalityType
  <2>5. \A t \in Burst(q) : t.callback = "led_on"
    BY <1>3, <2>1, <2>3 DEF RoomInv, BurstInv, Mapped, Alike
  <2>6. M <= IF q.reschedule THEN Room - 2 ELSE Room - 3
    BY <1>3, <2>4, DisplayAssumption DEF RoomInv, BurstInv, SameButTimers
  <2>7. ASSUME q.reschedule, Burst(q) # {}
        PROVE  \E u \in Burst(q) : \A b \in Chain(q, "led_off") : Waiting(M, led, b, u)
    <3>1. PICK u \in Burst(d) : \A b \in Chain(d, "led_off") : Waiting(N, led, b, u)
      BY <1>3, <2>1, <2>7 DEF RoomInv, BurstInv, SameButTimers
    <3>2. ASSUME NEW b \in Chain(d, "led_off") PROVE Waiting(M, led, F[b], F[u])
      <4>1. u.left \in Int /\ b.left \in Int /\ F[u].left = u.left + k /\ F[b].left = b.left + k
        BY <2>3 DEF Shifted, RoomInv, Timed, Timely
      <4>2. p \in Nat /\ OnTime[led] \in Nat /\ MaxLate \in Nat
        BY <1>3, Periods, DisplayAssumption
      <4>3. N * p <= MaxLate + OnTime[led] + b.left - u.left
        BY <3>1 DEF Waiting
      <4>. HIDE DEF p, M, N
      <4>4. M * p <= N * p /\ M * p \in Int /\ N * p \in Int
        BY <2>4, <4>2, Monotone
      <4>5. M * p <= MaxLate + OnTime[led] + F[b].left - F[u].left
        BY <4>1, <4>2, <4>3, <4>4
      <4>. QED  BY <4>5 DEF Waiting, p
    <3>. QED  BY <2>1, <2>2, <3>2
  <2>8. \A b \in Chain(q, "led_off") : \A u \in Burst(q) : b.turn /\ ~u.turn => b.left <= u.left
    BY <1>3, <2>1, <2>2 DEF InTurn
  <2>. QED  BY <2>5, <2>6, <2>7, <2>8 DEF BurstInv
<1>. QED  BY <1>1, <1>2, <1>3 DEF RoomInv

LEMMA TurnSet ==
  ASSUME NEW t, IsEntry(t), NEW x, NEW u, u = [t EXCEPT !.turn = x]
  PROVE  u.turn = x /\ u.left = t.left
BY DEF IsEntry

LEMMA LoopRoom ==
  ASSUME IInv, RoomInv(disp, asked.led), Elapse \/ BeginPass
  PROVE  RoomInv(disp', asked'.led)
<1>1. IsDisplay(disp) /\ UNCHANGED asked
  BY DEF IInv, Elapse, BeginPass
<1>2. \A t \in disp.timers : IsEntry(t) /\ Timely(t)
  BY <1>1 DEF IsDisplay, RoomInv, Timed
<1>3. ASSUME NEW F, \A t \in disp.timers : Alike(t, F[t]),
             disp' = [disp EXCEPT !.timers = {F[t] : t \in disp.timers}]
      PROVE  SameButTimers(disp, disp') /\ Mapped(disp, disp', F)
  <2>. DEFINE T == {F[t] : t \in disp.timers}
  <2>1. \A t \in T : IsEntry(t)
    BY <1>3 DEF Alike
  <2>2. SameButTimers(disp, disp') /\ disp'.timers = T
    <3>. HIDE DEF T
    <3>. QED  BY <1>1, <1>3, <2>1, NewTimers DEF T
  <2>. QED  BY <1>3, <2>2 DEF Mapped
<1>4. CASE Elapse
  <2>. DEFINE F == [t \in disp.timers |-> [t EXCEPT !.left = t.left - 1]]
  <2>1. disp' = [disp EXCEPT !.timers = {F[t] : t \in disp.timers}]
    BY <1>4 DEF Elapse
  <2>2. \A t \in disp.timers : Alike(t, F[t])
    BY <1>2, EntryMoved
  <2>3. \A t \in disp.timers : F[t].left = t.left - 1 /\ F[t].turn = t.turn
    BY <1>2 DEF IsEntry
  <2>. HIDE DEF F
  <2>4. Shifted(disp, F, -1)
    BY <1>2, <1>4, <2>3, DisplayAssumption DEF Elapse, Shifted, Timely
  <2>5. asked.led \in Blinking => InTurn(disp, F)
    <3>1. Burst(disp) \subseteq disp.timers /\ Chain(disp, "led_off") \subseteq disp.timers
      BY DEF Burst, Chain, Entries
    <3>. QED  BY <1>2, <2>3, <3>1 DEF InTurn, RoomInv, BurstInv, Timely
  <2>. QED  BY <1>1, <1>3, <2>1, <2>2, <2>4, <2>5, MapRoom
<1>5. CASE BeginPass
  <2>. DEFINE F == [t \in disp.timers |-> [t EXCEPT !.turn = t.left <= 0]]
  <2>1. disp' = [disp EXCEPT !.timers = {F[t] : t \in disp.timers}]
    BY <1>5 DEF BeginPass
  <2>2. \A t \in disp.timers : Alike(t, F[t])
    BY <1>2, EntryMoved
  <2>3. \A t \in disp.timers : F[t].left = t.left /\ (F[t].turn <=> t.left <= 0)
    <3>1. \A t \in disp.timers : F[t] = [t EXCEPT !.turn = t.left <= 0]
      OBVIOUS
    <3>. HIDE DEF F
    <3>. SUFFICES ASSUME NEW t \in disp.timers
                  PROVE  F[t].left = t.left /\ (F[t].turn <=> t.left <= 0)
      OBVIOUS
    <3>. DEFINE x == t.left <= 0
    <3>3. F[t] = [t EXCEPT !.turn = x] /\ IsEntry(t)
      BY <1>2, <3>1, Zenon
    <3>. HIDE DEF x
    <3>4. F[t].turn = x /\ F[t].left = t.left
      BY <3>3, TurnSet
    <3>5. F[t].turn <=> x
      BY <3>4, Zenon
    <3>. QED  BY <3>4, <3>5 DEF x
  <2>. HIDE DEF F
  <2>4. Shifted(disp, F, 0)
    BY <1>2, <2>3 DEF Shifted, Timely
  <2>5. InTurn(disp, F)
    <3>1. Burst(disp) \subseteq disp.timers /\ Chain(disp, "led_off") \subseteq disp.timers
      BY DEF Burst, Chain, Entries
    <3>. QED  BY <1>2, <2>3, <3>1 DEF InTurn, Timely
  <2>6. SameButTimers(disp, disp') /\ Mapped(disp, disp', F)
    BY <1>3, <2>1, <2>2
  <2>. QED  BY <1>1, <2>4, <2>5, <2>6, MapRoom
<1>. QED  BY <1>4, <1>5

\* What calling an entry leaves of it: a periodic one is moved on by its period.
Moved(t, m) == Alike(t, m) /\ m.left = t.left + t.every /\ ~m.turn

LEMMA ServedTimers ==
  ASSUME NEW d, IsDisplay(d), NEW t \in d.timers, Timely(t)
  PROVE  LET q == Served(d, t)
         IN  /\ SameButTimers(d, q)
             /\ \E m : /\ Moved(t, m)
                       /\ q.timers = (d.timers \ {t}) \cup IF t.every = 0 THEN {} ELSE {m}
<1>. DEFINE m == [t EXCEPT !.left = @ + t.every, !.turn = FALSE]
            T == (d.timers \ {t}) \cup IF t.every = 0 THEN {} ELSE {m}
            q == Served(d, t)
<1>1. IsEntry(t)
  BY DEF IsDisplay
<1>2. Moved(t, m)
  <2>1. Alike(t, m)
    BY <1>1, EntryMoved
  <2>2. m.left = t.left + t.every /\ ~m.turn
    BY <1>1 DEF IsEntry
  <2>. HIDE DEF m
  <2>. QED  BY <2>1, <2>2 DEF Moved
<1>3. q = [d EXCEPT !.timers = T]
  BY DEF Served
<1>. HIDE DEF q, m
<1>4. \A x \in T : IsEntry(x)
  BY <1>2 DEF Moved, Alike, IsDisplay
<1>5. SameButTimers(d, q) /\ q.timers = T
  <2>. HIDE DEF T
  <2>. QED  BY <1>3, <1>4, NewTimers
<1>. QED  BY <1>2, <1>5 DEF q

LEMMA MovedTimely ==
  ASSUME NEW t, Timely(t), NEW m, Moved(t, m)
  PROVE  Timely(m)
BY DisplayAssumption DEF Timely, Moved, Alike

\* A timer of line 1 is called.
LEMMA LineServedRoom ==
  ASSUME NEW d, IsDisplay(d), NEW led, RoomInv(d, led),
         NEW t \in d.timers, t.group = "DATETIME"
  PROVE  RoomInv(Served(d, t), led)
<1>. DEFINE q == Served(d, t)
<1>1. Timely(t)
  BY DEF RoomInv, Timed
<1>2. SameButTimers(d, q)
  BY <1>1, ServedTimers
<1>3. PICK m : Moved(t, m) /\ q.timers = (d.timers \ {t}) \cup IF t.every = 0 THEN {} ELSE {m}
  BY <1>1, ServedTimers
<1>. HIDE DEF q
<1>4. Entries(d, "DATETIME") = {t}
  BY DEF RoomInv, OneDate, Entries
<1>5. DateReplaced(d, q)
  BY <1>1, <1>3, <1>4, MovedTimely DEF DateReplaced
<1>6. LedSame(d, q)
  <2>1. Entries(q, "BLINK") = Entries(d, "BLINK")
    BY <1>3 DEF Entries, Moved, Alike
  <2>. QED  BY <1>2, <2>1 DEF LedSame, SameButTimers
<1>7. RoomInv(q, led)
  BY <1>5, <1>6, DateReplacedKeeps
<1>. QED  BY <1>7 DEF q

\* A timer of the LED is called: it belongs to a pattern.
LEMMA LedServed ==
  ASSUME NEW d, IsDisplay(d), NEW led, LedInv(d, led), RoomInv(d, led),
         NEW t \in d.timers, t.group = "BLINK"
  PROVE  LET q == Served(d, t)
         IN  /\ led \in Blinking /\ ChainInv(d, led) /\ BurstInv(d, led)
             /\ t.every \in {0, OnTime[led] + OffTime[led]} /\ t.callback \in LedCallbacks
             /\ IsDisplay(q) /\ Timed(q) /\ OneDate(q) /\ ChainInv(q, led)
             /\ q.reschedule = d.reschedule
<1>. DEFINE q == Served(d, t)
<1>1. Timely(t) /\ t \in Entries(d, "BLINK")
  BY DEF RoomInv, Timed, Entries
<1>2. led \in Blinking /\ ChainInv(d, led) /\ BurstInv(d, led)
  BY <1>1 DEF LedInv, RoomInv
<1>3. t.every \in {0, OnTime[led] + OffTime[led]} /\ t.callback \in LedCallbacks
  BY <1>1, <1>2 DEF ChainInv, IsDisplay, IsEntry
<1>4. SameButTimers(d, q) /\ LedInv(q, led)
  <2>1. CounterInv(d, "none")
    BY DEF CounterInv
  <2>. QED  BY <2>1, ServedKeeps
<1>5. PICK m : Moved(t, m) /\ q.timers = (d.timers \ {t}) \cup IF t.every = 0 THEN {} ELSE {m}
  BY <1>1, ServedTimers
<1>. HIDE DEF q
<1>6. Timed(q)
  BY <1>1, <1>5, MovedTimely, TimedKept DEF RoomInv
<1>7. OneDate(q)
  BY <1>5 DEF RoomInv, OneDate, Entries, Moved, Alike
<1>. QED  BY <1>2, <1>3, <1>4, <1>6, <1>7 DEF SameButTimers, LedInv, q

LEMMA LedOnRoom ==
  ASSUME NEW d, IsDisplay(d), NEW led, LedInv(d, led), RoomInv(d, led),
         NEW t \in d.timers, t.group = "BLINK", t.callback = "led_on"
  PROVE  RoomInv(LedOn(Served(d, t)), led)
<1>. DEFINE s == Served(d, t)
            q == LedOn(s)
            per == OnTime[led] + OffTime[led]
<1>1. /\ led \in Blinking /\ ChainInv(d, led) /\ BurstInv(d, led) /\ t.every \in {0, per}
      /\ IsDisplay(s) /\ Timed(s) /\ OneDate(s) /\ ChainInv(s, led)
      /\ s.reschedule = d.reschedule
  BY LedServed
<1>2. Timely(t)
  BY DEF RoomInv, Timed
<1>3. PICK m : Moved(t, m) /\ s.timers = (d.timers \ {t}) \cup IF t.every = 0 THEN {} ELSE {m}
  BY <1>2, ServedTimers
<1>. HIDE DEF s
<1>4. /\ IsDisplay(q) /\ ~q.reschedule
      /\ ~s.reschedule => q.timers = s.timers
      /\ s.reschedule => \E e : /\ q.timers = s.timers \cup {e}
                                /\ e.group = "BLINK" /\ e.callback = "led_on"
                                /\ e.every = s.onTime + s.offTime
                                /\ e.left = e.every /\ ~e.turn
  BY <1>1, LedOnFacts
<1>5. per \in Nat \ {0} /\ s.onTime + s.offTime = per
  BY <1>1, Periods DEF ChainInv
<1>. HIDE DEF q, per
<1>6. PICK e : /\ q.timers \subseteq s.timers \cup {e} /\ Timely(e)
               /\ e.group = "BLINK" /\ e.callback = "led_on" /\ e.every # 0
  <2>1. CASE s.reschedule
    BY <1>4, <1>5, <2>1, DisplayAssumption DEF Timely
  <2>2. CASE ~s.reschedule
    <3>. DEFINE e == [group |-> "BLINK", callback |-> "led_on", left |-> 0, every |-> 1]
    <3>1. /\ q.timers \subseteq s.timers \cup {e} /\ Timely(e)
          /\ e.group = "BLINK" /\ e.callback = "led_on" /\ e.every # 0
      BY <1>4, <2>2, DisplayAssumption DEF Timely
    <3>. QED  BY <3>1
  <2>. QED  BY <2>1, <2>2
<1>7. Timed(q)
  BY <1>1, <1>6, TimedKept
<1>8. OneDate(q)
  BY <1>1, <1>6 DEF OneDate, Entries
<1>9. Burst(q) \subseteq Burst(d) /\ (t.every = 0 => t \notin Burst(q))
  BY <1>3, <1>6 DEF Burst, Entries, Moved, Alike
<1>10. Chain(q, "led_off") \subseteq Chain(d, "led_off")
  BY <1>3, <1>6 DEF Chain, Entries, Moved, Alike
<1>11. Cardinality(Burst(q)) <= Room - 3
  <2>1. Burst(d) \subseteq d.timers
    BY DEF Burst, Entries
  <2>2. IsFiniteSet(Burst(d)) /\ Cardinality(Burst(d)) \in Nat
    BY <2>1, FS_Subset, FS_CardinalityType DEF RoomInv, Timed
  <2>3. IsFiniteSet(Burst(q)) /\ Cardinality(Burst(q)) \in Nat
    BY <1>9, <2>2, FS_Subset, FS_CardinalityType
  <2>4. CASE ~d.reschedule
    <3>1. Cardinality(Burst(d)) <= Room - 3
      BY <1>1, <2>4 DEF BurstInv
    <3>2. Cardinality(Burst(q)) <= Cardinality(Burst(d))
      BY <1>9, <2>2, FS_Subset
    <3>. QED  BY <2>2, <2>3, <3>1, <3>2, DisplayAssumption
  <2>5. CASE d.reschedule
    <3>1. t \in Burst(d)
      BY <1>1, <2>5 DEF ChainInv, Chain, Burst, Entries
    <3>2. t.every = 0
      BY <3>1 DEF Burst
    <3>3. Burst(q) \subseteq Burst(d) \ {t}
      BY <1>9, <3>2
    <3>4. IsFiniteSet(Burst(d) \ {t}) /\ Cardinality(Burst(d) \ {t}) = Cardinality(Burst(d)) - 1
      BY <2>2, <3>1, FS_RemoveElement
    <3>5. Cardinality(Burst(q)) <= Cardinality(Burst(d) \ {t})
      BY <3>3, <3>4, FS_Subset
    <3>6. Cardinality(Burst(d)) <= Room - 2
      BY <1>1, <2>5 DEF BurstInv
    <3>. QED  BY <2>2, <2>3, <3>4, <3>5, <3>6, DisplayAssumption
  <2>. QED  BY <2>4, <2>5
<1>12. BurstInv(q, led)
  BY <1>1, <1>4, <1>9, <1>10, <1>11 DEF BurstInv
<1>13. RoomInv(q, led)
  BY <1>7, <1>8, <1>12 DEF RoomInv
<1>. QED  BY <1>13 DEF q, s

\* One more one-shot: the oldest was not due, so there is room for it.
LEMMA OneMoreShot ==
  ASSUME NEW p \in Blinking, NEW N \in Nat, NEW b, Timely(b), NEW m, Moved(b, m),
         b.every = OnTime[p] + OffTime[p], NEW u, Timely(u),
         Waiting(N, p, b, u), b.left <= u.left
  PROVE  N + 1 <= Room - 2 /\ Waiting(N + 1, p, m, u)
<1>. DEFINE per == OnTime[p] + OffTime[p]
<1>1. per \in Nat /\ OnTime[p] \in Nat /\ MaxLate \in Nat /\ Room \in Nat
  BY Periods, DisplayAssumption
<1>2. b.left \in Int /\ u.left \in Int /\ m.left = b.left + per
  BY DEF Timely, Moved
<1>3. N * per <= MaxLate + OnTime[p] + b.left - u.left
  BY DEF Waiting
<1>4. OnTime[p] + MaxLate < (Room - 2) * per
  BY RoomAssumption
<1>5. Waiting(N + 1, p, m, u) <=> (N + 1) * per <= MaxLate + OnTime[p] + m.left - u.left
  BY DEF Waiting
<1>. HIDE DEF per
<1>6. N * per \in Int /\ (Room - 2) * per \in Int /\ (N + 1) * per = N * per + per
  BY <1>1, OneMore
<1>7. N * per < (Room - 2) * per
  BY <1>1, <1>2, <1>3, <1>4, <1>6
<1>8. N < Room - 2
  BY <1>1, <1>7, Cancel
<1>. QED  BY <1>1, <1>2, <1>3, <1>5, <1>6, <1>8

LEMMA FirstShot ==
  ASSUME NEW p \in Blinking, NEW b, Timely(b), NEW m, Moved(b, m),
         b.every = OnTime[p] + OffTime[p], NEW e, e.left = OnTime[p]
  PROVE  1 <= Room - 2 /\ Waiting(1, p, m, e)
<1>1. OnTime[p] \in Nat /\ OffTime[p] \in Nat /\ MaxLate \in Nat /\ Room \in Nat
  BY Periods, DisplayAssumption
<1>. QED  BY <1>1, RoomForThree DEF Timely, Moved, Waiting

LEMMA LedOffRoom ==
  ASSUME NEW d, IsDisplay(d), NEW led, LedInv(d, led), RoomInv(d, led),
         NEW t \in d.timers, t.group = "BLINK", t.callback = "led_off",
         t.turn, \A u \in d.timers : u.turn => t.left <= u.left
  PROVE  RoomInv(LedOff(Served(d, t)), led)
<1>. DEFINE s == Served(d, t)
            q == LedOff(s)
            N == Cardinality(Burst(d))
<1>1. /\ led \in Blinking /\ ChainInv(d, led) /\ BurstInv(d, led)
      /\ t.every \in {0, OnTime[led] + OffTime[led]}
      /\ IsDisplay(s) /\ Timed(s) /\ OneDate(s) /\ ChainInv(s, led)
      /\ s.reschedule = d.reschedule
  BY LedServed
<1>2. Timely(t) /\ t \in Entries(d, "BLINK")
  BY DEF RoomInv, Timed, Entries
<1>3. PICK m : Moved(t, m) /\ s.timers = (d.timers \ {t}) \cup IF t.every = 0 THEN {} ELSE {m}
  BY <1>2, ServedTimers
<1>. HIDE DEF s
<1>4. /\ IsDisplay(q) /\ q.reschedule = s.reschedule
      /\ ~s.reschedule => q.timers = s.timers
      /\ s.reschedule => \E e : /\ q.timers = s.timers \cup {e}
                                /\ e.group = "BLINK" /\ e.callback = "led_on"
                                /\ e.every = 0 /\ e.left = s.onTime /\ ~e.turn
  BY <1>1, LedOffFacts
<1>. HIDE DEF q
<1>5. t.every = OnTime[led] + OffTime[led] /\ t.every # 0
  <2>1. t \notin Burst(d)
    BY <1>1 DEF BurstInv
  <2>. QED  BY <1>1, <1>2, <2>1 DEF Burst
<1>6. Chain(d, "led_off") = {t}
  BY <1>1, <1>2, <1>5 DEF ChainInv, One, Chain
<1>7. Chain(s, "led_off") = {m} /\ Burst(s) = Burst(d)
  <2>1. m \in Chain(s, "led_off")
    BY <1>2, <1>3, <1>5 DEF Chain, Entries, Moved, Alike
  <2>2. Chain(s, "led_off") \subseteq (Chain(d, "led_off") \ {t}) \cup {m}
    BY <1>3, <1>5 DEF Chain, Entries
  <2>3. Burst(s) = Burst(d)
    BY <1>3, <1>5 DEF Burst, Entries, Moved, Alike
  <2>. QED  BY <1>6, <2>1, <2>2, <2>3
<1>8. Timely(m) /\ ~m.turn
  BY <1>2, <1>3, MovedTimely DEF Moved
<1>9. \A u \in Burst(d) : Timely(u) /\ t.left <= u.left
  <2>1. \A u \in Burst(d) : u \in d.timers
    BY DEF Burst, Entries
  <2>. QED  BY <1>1, <1>6, <2>1 DEF BurstInv, RoomInv, Timed
<1>10. IsFiniteSet(Burst(d)) /\ N \in Nat
  <2>1. Burst(d) \subseteq d.timers
    BY DEF Burst, Entries
  <2>. QED  BY <2>1, FS_Subset, FS_CardinalityType DEF RoomInv, Timed
<1>. HIDE DEF N
<1>11. CASE ~d.reschedule
  <2>1. q.timers = s.timers /\ ~q.reschedule
    BY <1>1, <1>4, <1>11
  <2>2. Chain(q, "led_off") = {m} /\ Burst(q) = Burst(d)
    BY <1>7, <2>1 DEF Chain, Burst, Entries
  <2>3. Timed(q) /\ OneDate(q)
    BY <1>1, <2>1 DEF Timed, OneDate, Entries
  <2>4. BurstInv(q, led)
    BY <1>1, <1>8, <1>11, <2>1, <2>2 DEF BurstInv
  <2>5. RoomInv(q, led)
    BY <2>3, <2>4 DEF RoomInv
  <2>. QED  BY <2>5 DEF q, s
<1>12. CASE d.reschedule
  <2>1. PICK e : /\ q.timers = s.timers \cup {e}
                 /\ e.group = "BLINK" /\ e.callback = "led_on"
                 /\ e.every = 0 /\ e.left = s.onTime /\ ~e.turn
    BY <1>1, <1>4, <1>12
  <2>2. e.left = OnTime[led] /\ OnTime[led] \in Nat
    BY <1>1, <2>1, Periods DEF ChainInv
  <2>3. Timely(e)
    BY <2>1, <2>2, DisplayAssumption DEF Timely
  <2>4. Timed(q)
    BY <1>1, <2>1, <2>3, TimedKept
  <2>5. OneDate(q)
    BY <1>1, <2>1 DEF OneDate, Entries
  <2>6. Chain(q, "led_off") = {m} /\ Burst(q) = Burst(d) \cup {e}
    <3>1. Chain(q, "led_off") = Chain(s, "led_off") /\ Burst(q) = Burst(s) \cup {e}
      BY <2>1 DEF Chain, Burst, Entries
    <3>. QED  BY <1>7, <3>1
  <2>7. Cardinality(Burst(q)) \in {N, N + 1} /\ (N = 0 => Burst(d) = {})
    BY <1>10, <2>6, FS_AddElement, FS_EmptySet DEF N
  <2>8. Cardinality(Burst(q)) <= Room - 2
        /\ \E u \in Burst(q) : Waiting(Cardinality(Burst(q)), led, m, u)
    <3>1. CASE Burst(d) = {}
      <4>1. Burst(q) = {e}
        BY <2>6, <3>1
      <4>2. Cardinality(Burst(q)) = 1
        BY <4>1, OneElement DEF One
      <4>3. 1 <= Room - 2 /\ Waiting(1, led, m, e)
        BY <1>1, <1>2, <1>3, <1>5, <2>2, FirstShot
      <4>. QED  BY <4>1, <4>2, <4>3
    <3>2. CASE Burst(d) # {}
      <4>1. PICK u \in Burst(d) : Waiting(N, led, t, u)
        BY <1>1, <1>6, <1>12, <3>2 DEF BurstInv, N
      <4>2. N + 1 <= Room - 2 /\ Waiting(N + 1, led, m, u)
        BY <1>1, <1>2, <1>3, <1>5, <1>9, <1>10, <4>1, OneMoreShot
      <4>3. Waiting(N, led, m, u)
        <5>1. Timely(u) /\ Timely(t) /\ Timely(m)
          BY <1>2, <1>8, <1>9, <4>1
        <5>2. m.left = t.left + t.every
          BY <1>3 DEF Moved
        <5>3. \A x \in Int : x <= MaxLate + OnTime[led] + t.left - u.left
                               => x <= MaxLate + OnTime[led] + m.left - u.left
          BY <2>2, <5>1, <5>2, DisplayAssumption DEF Timely
        <5>4. N * (OnTime[led] + OffTime[led]) \in Int
          BY <1>1, <1>10, Periods
        <5>. QED  BY <4>1, <5>3, <5>4 DEF Waiting
      <4>4. N <= Room - 2
        BY <1>10, <4>2, DisplayAssumption
      <4>. QED  BY <2>6, <2>7, <4>1, <4>2, <4>3, <4>4
    <3>. QED  BY <3>1, <3>2
  <2>9. \A u \in Burst(q) : u.callback = "led_on"
    BY <1>1, <2>1, <2>6 DEF BurstInv
  <2>10. BurstInv(q, led)
    BY <1>1, <1>4, <1>8, <1>12, <2>6, <2>8, <2>9 DEF BurstInv
  <2>11. RoomInv(q, led)
    BY <2>4, <2>5, <2>10 DEF RoomInv
  <2>. QED  BY <2>11 DEF q, s
<1>. QED  BY <1>11, <1>12

LEMMA FirstIsNat ==
  ASSUME NEW every \in Nat, NEW first \in FirstOf(every)
  PROVE  first \in Nat
BY DEF FirstOf

LEMMA CallerRoom ==
  ASSUME IInv, RoomInv(disp, asked.led), Caller
  PROVE  RoomInv(disp', asked'.led)
<1>1. IsDisplay(disp) /\ asked = [led |-> asked.led, line1 |-> asked.line1]
  BY DEF IInv
<1>2. ASSUME NEW p \in Blinking, yldisp_led_blink(p)
      PROVE  RoomInv(disp', asked'.led)
  <2>1. PICK first \in FirstOf(OnTime[p] + OffTime[p]) :
          disp' = Blink(disp, OnTime[p], OffTime[p], first)
    BY <1>2 DEF yldisp_led_blink
  <2>2. asked'.led = p
    BY <1>1, <1>2 DEF yldisp_led_blink
  <2>3. first \in Nat
    BY FirstIsNat, Periods
  <2>. QED  BY <1>1, <2>1, <2>2, <2>3, BlinkRoom
<1>3. CASE yldisp_led_on
  <2>1. disp' = SteadyOn(disp) /\ asked'.led = "on"
    BY <1>1, <1>3 DEF yldisp_led_on
  <2>2. disp'.timers \subseteq disp.timers
    BY <1>1, <2>1, SteadyKeeps
  <2>. QED  BY <2>1, <2>2, SteadyRoom DEF Blinking
<1>4. CASE yldisp_show_date \/ yldisp_show_counter \/ yldisp_start_counter
  <2>1. asked'.led = asked.led
    BY <1>1, <1>4 DEF yldisp_show_date, yldisp_show_counter, yldisp_start_counter
  <2>2. DateReplaced(disp, disp') /\ LineOnly(disp, disp')
    <3>1. Second \in Nat /\ 0 \in FirstOf(Second)
      BY DisplayAssumption DEF FirstOf
    <3>2. PICK first \in FirstOf(Second) :
            disp' \in {ShowDate(disp, first), ShowCounter(disp), StartCounter(disp, first)}
      BY <1>4, <3>1 DEF yldisp_show_date, yldisp_show_counter, yldisp_start_counter
    <3>3. first \in Nat
      BY <3>1, FirstIsNat
    <3>. QED  BY <1>1, <3>2, <3>3, LineTimers, ShowDateKeeps, ShowCounterKeeps
  <2>. QED  BY <2>1, <2>2, DateReplacedKeeps DEF LineOnly
<1>5. CASE yldisp_hide_all
  <2>. DEFINE u == SteadyOff(disp)
              v == StopCounter(u)
  <2>1. disp' = [v EXCEPT !.line1 = "blank"] /\ asked'.led = "off"
    BY <1>5 DEF yldisp_hide_all, HideAll
  <2>2. IsDisplay(u) /\ u.timers \subseteq disp.timers
    BY <1>1, SteadyKeeps
  <2>. HIDE DEF u
  <2>3. IsDisplay(v) /\ v.timers \subseteq u.timers
    BY <2>2, RemoveTakes DEF StopCounter, SameButTimers
  <2>. HIDE DEF v
  <2>4. disp'.timers = v.timers
    BY <2>1, <2>3, LineSet
  <2>. QED  BY <2>1, <2>2, <2>3, <2>4, SteadyRoom DEF Blinking
<1>. QED  BY <1>2, <1>3, <1>4, <1>5 DEF Caller

LEMMA CallRoom ==
  ASSUME IInv, RoomInv(disp, asked.led), Call
  PROVE  RoomInv(disp', asked'.led)
<1>1. IsDisplay(disp) /\ LedInv(disp, asked.led) /\ UNCHANGED asked
  BY DEF IInv, Call
<1>2. PICK t \in Due : (\A u \in Due : t.left <= u.left) /\ Run(t, Served(disp, t))
  BY DEF Call
<1>. DEFINE s == Served(disp, t)
<1>3. /\ t \in disp.timers /\ t.turn /\ IsEntry(t)
      /\ \A u \in disp.timers : u.turn => t.left <= u.left
  BY <1>1, <1>2 DEF Due, IsDisplay
<1>4. CASE t.group = "BLINK"
  <2>1. t.callback \in LedCallbacks
    BY <1>3, <1>4 DEF IsEntry
  <2>2. CASE t.callback = "led_on"
    <3>1. disp' = LedOn(s)
      BY <1>2, <2>2 DEF Run
    <3>. HIDE DEF s
    <3>. QED  BY <1>1, <1>3, <1>4, <2>2, <3>1, LedOnRoom DEF s
  <2>3. CASE t.callback = "led_off"
    <3>1. disp' = LedOff(s)
      BY <1>2, <2>3 DEF Run
    <3>. HIDE DEF s
    <3>. QED  BY <1>1, <1>3, <1>4, <2>3, <3>1, LedOffRoom DEF s
  <2>. QED  BY <2>1, <2>2, <2>3 DEF LedCallbacks
<1>5. CASE t.group = "DATETIME"
  <2>1. t.callback \in LineCallbacks
    BY <1>3, <1>5 DEF IsEntry
  <2>2. RoomInv(s, asked.led)
    BY <1>1, <1>3, <1>5, LineServedRoom
  <2>3. IsDisplay(s)
    <3>1. Timely(t)
      BY <1>3 DEF RoomInv, Timed
    <3>. QED  BY <1>1, <1>3, <3>1, ServedTimers DEF SameButTimers
  <2>4. Run(t, s)
    BY <1>2
  <2>. HIDE DEF s
  <2>5. CASE t.callback \in {"show_date", "show_counter"}
    <3>1. disp' \in {[s EXCEPT !.line1 = "date"], [s EXCEPT !.line1 = "counter"]}
      BY <2>4, <2>5 DEF Run
    <3>2. LineOnly(s, disp') /\ disp'.timers = s.timers
      <4>1. \A line : /\ LineOnly(s, [s EXCEPT !.line1 = line])
                      /\ [s EXCEPT !.line1 = line].timers = s.timers
        BY <2>3, LineSet, Zenon
      <4>. QED  BY <3>1, <4>1
    <3>3. Burst(disp') = Burst(s) /\ \A c : Chain(disp', c) = Chain(s, c)
      BY <3>2 DEF Burst, Chain, Entries
    <3>4. disp'.reschedule = s.reschedule
      BY <3>2 DEF LineOnly, LedSame
    <3>5. RoomInv(disp', asked.led)
      BY <2>2, <3>2, <3>3, <3>4 DEF RoomInv, BurstInv, Timed, OneDate, Entries
    <3>. QED  BY <1>1, <3>5
  <2>6. CASE t.callback = "delayed_date"
    <3>. DEFINE u == [s EXCEPT !.waitDate = FALSE]
    <3>1. u = Record(s.timers, s.onTime, s.offTime, s.reschedule, s.lit, FALSE, s.line1)
      BY <2>3, FieldSet, Zenon
    <3>2. PICK first \in FirstOf(Second) : disp' = ShowDate(u, first)
      BY <2>4, <2>6 DEF Run, DelayedDate
    <3>. HIDE DEF u
    <3>3. IsDisplay(u)
      BY <2>3, <3>1 DEF Record, IsDisplay
    <3>4. RoomInv(u, asked.led)
      <4>1. u.timers = s.timers /\ u.reschedule = s.reschedule
        BY <3>1 DEF Record
      <4>2. Burst(u) = Burst(s) /\ \A c : Chain(u, c) = Chain(s, c)
        BY <4>1 DEF Burst, Chain, Entries
      <4>. QED  BY <2>2, <4>1, <4>2 DEF RoomInv, BurstInv, Timed, OneDate, Entries
    <3>5. first \in Nat
      BY FirstIsNat, DisplayAssumption
    <3>6. DateReplaced(u, disp') /\ LineOnly(u, disp')
      BY <3>2, <3>3, <3>5, LineTimers, ShowDateKeeps
    <3>. QED  BY <1>1, <3>4, <3>6, DateReplacedKeeps DEF LineOnly
  <2>. QED  BY <2>1, <2>5, <2>6 DEF LineCallbacks
<1>. QED  BY <1>3, <1>4, <1>5 DEF IsEntry

LEMMA RoomInvariance == Spec => []RoomInv(disp, asked.led)
<1>1. Init => RoomInv(disp, asked.led)
  <2>. SUFFICES ASSUME Init PROVE RoomInv(disp, asked.led)
    OBVIOUS
  <2>1. disp.timers = {} /\ asked.led \notin Blinking
    BY DEF Init, Blinking
  <2>2. IsFiniteSet(disp.timers)
    BY <2>1, FS_EmptySet
  <2>. QED  BY <2>1, <2>2 DEF RoomInv, Timed, OneDate, Entries
<1>2. IInv /\ RoomInv(disp, asked.led) /\ [Next]_vars => RoomInv(disp, asked.led)'
  <2>. SUFFICES ASSUME IInv, RoomInv(disp, asked.led), [Next]_vars
                PROVE  RoomInv(disp', asked'.led)
    BY DEF RoomInv, Timed, OneDate, BurstInv, Burst, Chain, Entries, Timely, Waiting
  <2>1. CASE LeaveAlone \/ UNCHANGED vars
    BY <2>1 DEF LeaveAlone, vars
  <2>. QED  BY <2>1, CallerRoom, LoopRoom, CallRoom DEF Next
<1>. QED  BY <1>1, <1>2, DisplayInvariance, PTL DEF Spec

-----------------------------------------------------------------------------
(* The theorems                                                            *)

\* A steady LED has the state asked for last and no timer that would change it
\* (yldisp_led_blink, yldisp.c:106-132).
THEOREM SteadyStays == Spec => []SteadyLight
<1>1. IInv => SteadyLight
  BY DEF IInv, LedInv, SteadyLight, Blinking
<1>. QED  BY <1>1, DisplayInvariance, PTL

\* A blinking LED has one chain of timers, of the pattern asked for last, however
\* late they are called (led_on_callback, led_off_callback, yldisp.c:80-104).
THEOREM ChainIsOne == Spec => []OneChain
<1>1. IInv => OneChain
  <2>. SUFFICES ASSUME IInv, asked.led \in Blinking PROVE OneChain
    BY DEF OneChain
  <2>1. ChainInv(disp, asked.led) /\ disp.reschedule \in BOOLEAN
    BY DEF IInv, LedInv, IsDisplay
  <2>2. Cardinality(Chain(disp, "led_off")) = 1
    BY <2>1, OneElement DEF ChainInv
  <2>3. Cardinality(Chain(disp, "led_on")) = IF disp.reschedule THEN 0 ELSE 1
    BY <2>1, OneElement, FS_EmptySet DEF ChainInv
  <2>. QED  BY <2>1, <2>2, <2>3 DEF OneChain, ChainInv, Chain
<1>. QED  BY <1>1, DisplayInvariance, PTL

\* The duration of a call stays in line 1 until something else is asked for
\* (yldisp_show_counter, yldisp.c:183-205).
THEOREM CounterStays == Spec => []CounterUndisturbed
<1>1. IInv => CounterUndisturbed
  BY DEF IInv, CounterInv, CounterUndisturbed
<1>. QED  BY <1>1, DisplayInvariance, PTL

\* However often the LED is turned off before a late one-shot turns it on, the timers
\* of the display never need more than their room in the event list: it does not grow
\* because of them as long as the main loop is not too late (RoomAssumption,
\* led_off_callback, yldisp.c:95-104).
THEOREM TimersFit == Spec => []ListFits
<1>1. IInv /\ RoomInv(disp, asked.led) => ListFits
  BY RoomInvFits DEF IInv, ListFits
<1>. QED  BY <1>1, DisplayInvariance, RoomInvariance, PTL
=============================================================================
