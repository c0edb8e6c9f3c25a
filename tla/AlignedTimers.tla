---------------------------- MODULE AlignedTimers ---------------------------
(***************************************************************************)
(* What a periodic timer gains when src/ypmainloop.c lines it up with one  *)
(* that is in the event list.  Every expiry of a periodic timer moves on   *)
(* by exactly its interval (CallTimer), so all instants of the two follow  *)
(* from the next one of each.                                              *)
(***************************************************************************)
EXTENDS MainLoop

CONSTANT Intervals    (* intervals the program may ask for                 *)

ASSUME AlignedAssumption == Intervals \subseteq Nat \ {0}

References == {i \in Slots : evList[i].type = "PTIMER"}

\* The instants of a timer of interval `delay`, lined up at `t` with one that
\* expires next at `ref` and every `exist` from then on.
Instant(ref, delay, t, n) == AlignTo(ref, delay, t) + n * delay

\* One of the first is shared with that timer.  It is up to Resolution ahead
\* if it has just been called early.
Meets(ref, exist, delay, t) ==
  LET score == OverlapScore(delay, exist)
  IN  \E n \in 0..(score + Resolution) :
        /\ n * delay <= score * delay + Resolution
        /\ Instant(ref, delay, t, n) >= ref
        /\ (Instant(ref, delay, t, n) - ref) % exist = 0

\* Whichever periodic timer is in the list, on time or late, a timer lined up
\* with it at any moment meets it within as many of its periods as the score
\* says (ypmainloop.c:450-478).
MeetsInTime ==
  \A i \in References, delay \in Intervals :
    OverlapScore(delay, evList[i].interval) # 0 =>
      Meets(evList[i].expire, evList[i].interval, delay, now)

\* From then on "every X ticks overlap" (ypmainloop.c:369-374): the score is
\* the least number of periods of the new timer that is also a number of
\* periods of the existing one, and not a multiple of it.
ScoreCounts ==
  \A i \in References, delay \in Intervals :
    LET score == OverlapScore(delay, evList[i].interval)
    IN  score # 0 => \A n \in 1..score : (n * delay) % evList[i].interval = 0 <=> n = score
=============================================================================
