------------------------------ MODULE EventSet ------------------------------
(***************************************************************************)
(* What src/ypmainloop.h promises to the rest of the program, without the  *)
(* array it is built from: a set of armed events, each calling back its    *)
(* owner when its timer expires or its descriptor can be read.             *)
(*                                                                         *)
(*   - only an armed event calls back, and a cancelled one never does,     *)
(*     even when it had already expired;                                   *)
(*   - a timer calls back no earlier than its expiry (within Resolution),  *)
(*     and among the expired ones in the order of their expiries;          *)
(*   - a one-shot timer is disarmed before its callback runs, a periodic   *)
(*     one is moved on by exactly one interval;                            *)
(*   - a timer armed by a callback waits for the next pass, so a callback  *)
(*     that arms timers cannot keep a pass from ending;                    *)
(*   - an event that polls a descriptor calls back at most once in a pass, *)
(*     and before the timers of the pass.                                  *)
(***************************************************************************)
EXTENDS Integers

CONSTANTS
  Groups,       (* the group ids the components use to find their events   *)
  Delays,       (* the delays and intervals timers are armed with          *)
  Fds,          (* the descriptors that are polled                         *)
  Resolution    (* how much too early a timer may call back                *)

VARIABLES
  armed,        (* the events that are armed                               *)
  turn,         (* ids of the timers still to be considered in this pass   *)
  ioTurn,       (* ids of the io events still to be considered in it       *)
  firing,       (* id of the event whose callback is running, or 0         *)
  lastId,       (* id given to the event armed last                        *)
  now           (* the clock                                               *)

vars == <<armed, turn, ioTurn, firing, lastId, now>>

TimerKinds == {"TIMER", "PTIMER"}

Event(kind, id, g, fd, iv, x) ==
  [kind |-> kind, id |-> id, group |-> g, fd |-> fd, interval |-> iv, expire |-> x]

Timers == {e \in armed : e.kind \in TimerKinds}

IoEvents == {e \in armed : e.kind = "IO"}

StillArmed(ids) == {i \in ids : \E e \in armed' : e.id = i}

Init ==
  /\ armed = {} /\ turn = {} /\ ioTurn = {} /\ firing = 0 /\ lastId = 0
  /\ now \in Nat

\* A one-shot timer expires after its delay, a periodic one for the first
\* time within its interval.
ArmTimer(kind, g, d) ==
  /\ lastId' = lastId + 1
  /\ \E x \in now..(now + d) :
       /\ kind = "TIMER" => x = now + d
       /\ armed' = armed \cup {Event(kind, lastId + 1, g, 0, d, x)}
  /\ UNCHANGED <<turn, ioTurn, firing, now>>

\* A descriptor polled during a pass may be served in it.
ArmIo(g, fd) ==
  /\ lastId' = lastId + 1
  /\ armed' = armed \cup {Event("IO", lastId + 1, g, fd, 0, 0)}
  /\ ioTurn' \in {ioTurn, ioTurn \cup {lastId + 1}}
  /\ UNCHANGED <<turn, firing, now>>

Cancel(g) ==
  /\ armed' = {e \in armed : e.group # g}
  /\ turn' = StillArmed(turn) /\ ioTurn' = StillArmed(ioTurn)
  /\ UNCHANGED <<firing, lastId, now>>

StartPass ==
  /\ firing = 0
  /\ turn' = {e.id : e \in Timers}
  /\ ioTurn' \subseteq {e.id : e \in IoEvents}
  /\ UNCHANGED <<armed, firing, lastId, now>>

\* The call is the only one of e in the pass; events may lose their turn with it.
CallIo(e) ==
  /\ firing = 0 /\ firing' = e.id
  /\ e.id \in ioTurn
  /\ ioTurn' \subseteq ioTurn \ {e.id}
  /\ UNCHANGED <<armed, turn, lastId, now>>

\* The descriptors are done with; the timers follow.
EndIo ==
  /\ firing = 0
  /\ ioTurn' = {}
  /\ UNCHANGED <<armed, turn, firing, lastId, now>>

CallTimer(e) ==
  /\ firing = 0 /\ firing' = e.id
  /\ ioTurn = {} /\ e.id \in turn
  /\ e.expire <= now + Resolution
  /\ \A f \in Timers : f.id \in turn => e.expire <= f.expire
  /\ armed' = (armed \ {e}) \cup
                IF e.kind = "PTIMER"
                THEN {[e EXCEPT !.expire = e.expire + e.interval]} ELSE {}
  /\ turn' = turn \ {e.id}
  /\ UNCHANGED <<ioTurn, lastId, now>>

Return ==
  /\ firing # 0
  /\ firing' = 0
  /\ UNCHANGED <<armed, turn, ioTurn, lastId, now>>

\* yp_ml_shutdown gives every event up.
Clear ==
  /\ firing = 0
  /\ armed' = {} /\ turn' = {} /\ ioTurn' = {} /\ lastId' = 0
  /\ UNCHANGED <<firing, now>>

Tick ==
  /\ now' \in Nat /\ now' > now
  /\ UNCHANGED <<armed, turn, ioTurn, firing, lastId>>

Next ==
  \/ \E k \in TimerKinds, g \in Groups, d \in Delays : ArmTimer(k, g, d)
  \/ \E g \in Groups, fd \in Fds : ArmIo(g, fd)
  \/ \E g \in Groups : Cancel(g)
  \/ StartPass
  \/ \E e \in Timers : CallTimer(e)
  \/ \E e \in IoEvents : CallIo(e)
  \/ EndIo
  \/ Return
  \/ Clear
  \/ Tick

Spec == Init /\ [][Next]_vars
=============================================================================
