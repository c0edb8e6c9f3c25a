----------------------------- MODULE TimerAlign -----------------------------
(***************************************************************************)
(* The arithmetic of src/ypmainloop.c that places the first expiry of a    *)
(* new timer.  A periodic timer scheduled with allow_optimize is lined up  *)
(* with a periodic timer that is already in the event list, so that both   *)
(* wake the process up at the same instants.  Times are integers, in ms.   *)
(***************************************************************************)
EXTENDS Integers

\* timer_overlap_score tries the first four multiples of the longer period.
MaxMultiple == 4

\* Mutation: periods of the longer timer are counted, not of the new one.
OverlapScoreLonger(check, exist) ==
  LET longer  == IF exist > check THEN exist ELSE check
      shorter == IF exist > check THEN check ELSE exist
      meets   == {i \in 1..MaxMultiple : (longer * i) % shorter = 0}
  IN  IF check = 0 \/ exist = 0 \/ meets = {} THEN 0
      ELSE CHOOSE i \in meets : \A j \in meets : i <= j

(***************************************************************************)
(* timer_overlap_score: how many periods of `check` pass until the new     *)
(* timer meets the existing one, 0 when they do not meet soon enough.      *)
(***************************************************************************)
OverlapScore(check, exist) ==
  LET longer  == IF exist > check THEN exist ELSE check
      shorter == IF exist > check THEN check ELSE exist
      meets   == {i \in 1..MaxMultiple : (longer * i) % shorter = 0}
      first   == CHOOSE i \in meets : \A j \in meets : i <= j
  IN  IF check = 0 \/ exist = 0 THEN 0
      ELSE IF meets = {} THEN 0
      ELSE IF exist > check THEN (exist * first) \div check
      ELSE first

(***************************************************************************)
(* The search for the timer to line up with, over a function from slots to *)
(* the periodic timers in them: the lowest score wins, the first slot      *)
(* breaks ties.                                                            *)
(***************************************************************************)
Candidates(refs, delay) ==
  {i \in DOMAIN refs : OverlapScore(delay, refs[i].interval) # 0}

BestRef(refs, delay) ==
  LET Score(i) == OverlapScore(delay, refs[i].interval)
  IN  CHOOSE i \in Candidates(refs, delay) :
        \A j \in Candidates(refs, delay) :
          \/ Score(i) < Score(j)
          \/ Score(i) = Score(j) /\ i <= j

\* Mutation: the distance is not rounded to whole delays.
AlignToUnrounded(ref, delay, now) ==
  IF ref > now THEN ref - (ref - now) ELSE ref + (now - ref) + delay

(***************************************************************************)
(* The expiry next to `now` that is a whole number of delays away from     *)
(* `ref`: rewound from a reference in the future, advanced past now from a *)
(* reference that has expired.                                             *)
(***************************************************************************)
AlignTo(ref, delay, now) ==
  IF ref > now
  THEN ref - ((ref - now) \div delay) * delay
  ELSE ref + (((now - ref) \div delay) + 1) * delay

\* The expiry yp_mlint_schedule_timer stores in the new entry.
FirstExpire(refs, delay, optimize, now) ==
  IF optimize /\ Candidates(refs, delay) # {}
  THEN AlignTo(refs[BestRef(refs, delay)].expire, delay, now)
  ELSE now + delay
=============================================================================
