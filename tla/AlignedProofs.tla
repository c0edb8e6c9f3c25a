---------------------------- MODULE AlignedProofs ---------------------------
(***************************************************************************)
(* An aligned timer meets the timer it was lined up with in time, and from *)
(* then on as often as the score says, for all intervals and however late  *)
(* the event list of src/ypmainloop.c calls its timers.                    *)
(***************************************************************************)
EXTENDS AlignedTimers, MainLoopProofs

USE DEF NextId

\* Divisibility as a product, which is what the arithmetic below is about.
LEMMA Divides ==
  ASSUME NEW a \in Int, NEW d \in Nat \ {0}
  PROVE  a % d = 0 <=> \E q \in Int : a = q * d
<1>1. ASSUME a % d = 0 PROVE \E q \in Int : a = q * d
  <2>1. a = (a \div d) * d /\ a \div d \in Int
    BY <1>1
  <2>. QED  BY <2>1
<1>2. ASSUME NEW q \in Int, a = q * d PROVE a % d = 0
  BY <1>2
<1>. QED  BY <1>1, <1>2

\* Division with remainder.
LEMMA ModRemainder ==
  ASSUME NEW a \in Nat, NEW d \in Nat \ {0}
  PROVE  a % d \in 0..(d - 1) /\ a \div d \in Nat /\ a = (a \div d) * d + (a % d)
OBVIOUS

\* Products and their order.
LEMMA Scaling ==
  ASSUME NEW a \in Int, NEW b \in Int, NEW d \in Nat \ {0}
  PROVE  /\ a * d \in Int
         /\ a * d < b * d <=> a < b
         /\ a * d <= b * d <=> a <= b
         /\ a * d = b * d <=> a = b
         /\ (a + b) * d = a * d + b * d
         /\ (a - b) * d = a * d - b * d
OBVIOUS

\* So many periods of the new timer are periods of the existing one.
Overlap(n, delay, exist) == \E q \in Int : n * delay = q * exist

Positive(n, delay, exist) == n \in Nat \ {0} /\ exist <= n * delay

Minimal(score, delay, exist) == \A n \in 1..score : Overlap(n, delay, exist) => n = score

\* The score is the least number of periods of the new timer that is also a
\* number of periods of the existing one.
LEMMA ScoreIsLeast ==
  ASSUME NEW delay \in Nat \ {0}, NEW exist \in Nat \ {0}, OverlapScore(delay, exist) # 0
  PROVE  /\ Positive(OverlapScore(delay, exist), delay, exist)
         /\ Overlap(OverlapScore(delay, exist), delay, exist)
         /\ Minimal(OverlapScore(delay, exist), delay, exist)
<1>. DEFINE score   == OverlapScore(delay, exist)
            longer  == IF exist > delay THEN exist ELSE delay
            shorter == IF exist > delay THEN delay ELSE exist
            meets   == {i \in 1..MaxMultiple : (longer * i) % shorter = 0}
            first   == CHOOSE i \in meets : \A j \in meets : i <= j
<1>1. meets # {} /\ score = IF exist > delay THEN (exist * first) \div delay ELSE first
  BY DEF OverlapScore
<1>2. meets \in SUBSET Nat /\ meets \subseteq 1..4
  BY DEF MaxMultiple
<1>3. first \in meets /\ \A j \in meets : first <= j
  BY <1>1, <1>2, LeastNatural
<1>4. first \in 1..4
  BY <1>2, <1>3
<1>5. \A i \in 1..4 : i \in meets <=> \E q \in Int : longer * i = q * shorter
  <2>1. ASSUME NEW i \in 1..4 PROVE i \in meets <=> \E q \in Int : longer * i = q * shorter
    <3>1. longer * i \in Int /\ shorter \in Nat \ {0}
      OBVIOUS
    <3>. HIDE DEF longer, shorter
    <3>. QED  BY <3>1, Divides DEF MaxMultiple
  <2>. QED  BY <2>1
<1>. HIDE DEF first, meets, score
<1>6. CASE exist > delay
  <2>1. PICK q \in Int : exist * first = q * delay
    BY <1>3, <1>4, <1>5, <1>6
  <2>2. exist * first \in Nat \ {0} /\ exist * first = first * exist
    BY <1>4
  <2>3. score = q
    BY <1>1, <1>6, <2>1
  <2>4. q \in Nat \ {0}
    BY <2>1, <2>2
  <2>5. ASSUME NEW n \in 1..score, NEW k \in Int, n * delay = k * exist PROVE n = score
    <3>1. n * delay <= score * delay /\ n * delay > 0
      BY <2>3, <2>4, Scaling
    <3>2. k <= first
      BY <2>1, <2>2, <2>3, <2>5, <3>1, <1>4, Scaling
    <3>3. k >= 1
      <4>1. 0 * exist < k * exist
        BY <2>5, <3>1
      <4>. QED  BY <4>1, Scaling
    <3>4. exist * k = n * delay
      BY <2>5
    <3>5. k \in 1..4 /\ n \in Int
      BY <1>4, <3>2, <3>3
    <3>6. k \in meets
      BY <1>5, <1>6, <3>4, <3>5
    <3>7. k = first
      BY <1>3, <1>4, <3>2, <3>5, <3>6
    <3>8. n * delay = score * delay
      BY <2>1, <2>3, <3>4, <3>7
    <3>. QED  BY <2>3, <3>5, <3>8, Scaling
  <2>6. score * delay = first * exist /\ first \in Nat \ {0}
    BY <1>4, <2>1, <2>2, <2>3
  <2>7. exist <= score * delay
    BY <2>6
  <2>8. Minimal(score, delay, exist)
    BY <2>5 DEF Minimal, Overlap
  <2>9. Overlap(score, delay, exist)
    BY <2>6 DEF Overlap
  <2>. QED  BY <2>3, <2>4, <2>7, <2>8, <2>9 DEF Positive, score
<1>7. CASE ~(exist > delay)
  <2>1. score = first
    BY <1>1, <1>7
  <2>2. PICK q \in Int : delay * first = q * exist
    BY <1>3, <1>4, <1>5, <1>7
  <2>3. score * delay = q * exist /\ score * delay > 0
    BY <1>4, <2>1, <2>2
  <2>4. q \in Nat \ {0}
    <3>1. 0 * exist < q * exist
      BY <2>3
    <3>. QED  BY <3>1, Scaling
  <2>5. ASSUME NEW n \in 1..score, NEW k \in Int, n * delay = k * exist PROVE n = score
    <3>1. n \in 1..4 /\ delay * n = k * exist
      BY <1>4, <2>1, <2>5
    <3>2. n \in meets
      BY <1>5, <1>7, <3>1
    <3>. QED  BY <1>3, <1>4, <2>1, <3>1, <3>2
  <2>6. score \in Nat \ {0} /\ exist <= score * delay
    <3>1. 1 * exist <= q * exist
      BY <2>4, Scaling
    <3>. QED  BY <1>4, <2>1, <2>3, <3>1
  <2>7. Minimal(score, delay, exist)
    BY <2>5 DEF Minimal, Overlap
  <2>8. Overlap(score, delay, exist)
    BY <2>3 DEF Overlap
  <2>. QED  BY <2>6, <2>7, <2>8 DEF Positive, score
<1>. QED  BY <1>6, <1>7

\* A new timer that is lined up with one that is at most an interval and the
\* resolution away shares an instant with it in time.
LEMMA Meeting ==
  ASSUME NEW ref \in Nat, NEW t \in Nat,
         NEW delay \in Nat \ {0}, NEW exist \in Nat \ {0}, ref <= t + Resolution + exist,
         OverlapScore(delay, exist) # 0
  PROVE  Meets(ref, exist, delay, t)
<1>. DEFINE score == OverlapScore(delay, exist)
<1>0. Resolution \in Nat
  BY LoopAssumption
<1>1. score \in Nat \ {0} /\ exist <= score * delay
  BY ScoreIsLeast DEF Positive
<1>2. PICK m \in Int : score * delay = m * exist
  BY ScoreIsLeast DEF Overlap
<1>. HIDE DEF score
<1>3. CASE ref > t
  <2>. DEFINE q == (ref - t) \div delay
  <2>1. q \in Nat /\ q * delay \in Nat /\ q * delay <= ref - t
    BY <1>3, DivRemainder
  <2>2. AlignTo(ref, delay, t) = ref - q * delay
    BY <1>3 DEF AlignTo
  <2>. HIDE DEF q
  <2>3. q * delay <= score * delay + Resolution /\ score * delay \in Nat
    BY <1>0, <1>1, <2>1, Scaling
  <2>4. q <= score + Resolution
    <3>1. Resolution <= Resolution * delay /\ Resolution * delay \in Nat
      <4>1. Resolution = 0 \/ Resolution * 1 <= Resolution * delay
        BY <1>0
      <4>. QED  BY <1>0, <4>1
    <3>2. (score + Resolution) * delay = score * delay + Resolution * delay /\ score + Resolution \in Nat
      BY <1>0, <1>1, Scaling
    <3>3. q * delay <= (score + Resolution) * delay
      BY <1>0, <2>1, <2>3, <3>1, <3>2
    <3>. QED  BY <2>1, <3>2, <3>3, Scaling
  <2>5. ref - q * delay + q * delay - ref = 0
    BY <2>1
  <2>6. 0 % exist = 0
    OBVIOUS
  <2>7. q \in 0..(score + Resolution)
    BY <1>0, <1>1, <2>1, <2>4
  <2>. QED  BY <2>1, <2>2, <2>3, <2>5, <2>6, <2>7 DEF Meets, Instant, score
<1>4. CASE ref <= t
  <2>. DEFINE k == (t - ref) \div delay + 1
              r == k % score
              c == k \div score
              n == IF r = 0 THEN 0 ELSE score - r
  <2>1. k \in Nat /\ AlignTo(ref, delay, t) = ref + k * delay
    BY <1>4, DivRemainder DEF AlignTo
  <2>. HIDE DEF k
  <2>2. r \in 0..(score - 1) /\ c \in Nat /\ k = c * score + r
    BY <1>0, <1>1, <2>1, ModRemainder
  <2>. HIDE DEF r, c
  <2>3. n \in 0..score
    BY <1>0, <1>1, <2>2
  <2>4. PICK a \in Nat : k + n = a * score
    <3>1. CASE r = 0
      BY <1>0, <1>1, <2>2, <3>1
    <3>2. CASE r # 0
      <4>1. k + n = c * score + score /\ (c + 1) * score = c * score + 1 * score
        BY <1>0, <1>1, <2>2, <3>2, Scaling
      <4>2. c + 1 \in Nat
        BY <2>2
      <4>. QED  BY <1>0, <1>1, <4>1, <4>2
    <3>. QED  BY <3>1, <3>2
  <2>. HIDE DEF n
  <2>5. (k + n) * delay = k * delay + n * delay /\ k * delay \in Nat /\ n * delay \in Nat
    BY <2>1, <2>3, Scaling
  <2>6. (k + n) * delay = (a * m) * exist
    <3>1. (a * score) * delay = a * (score * delay)
      BY <1>1
    <3>2. a * (m * exist) = (a * m) * exist
      OBVIOUS
    <3>. QED  BY <1>2, <2>4, <3>1, <3>2
  <2>7. ((k + n) * delay) % exist = 0
    <3>1. a * m \in Int /\ (k + n) * delay \in Int
      BY <2>1, <2>3
    <3>. QED  BY <2>6, <3>1, Divides
  <2>8. ref + k * delay + n * delay - ref = (k + n) * delay
    BY <2>5
  <2>9. n * delay <= score * delay /\ score * delay \in Nat /\ n \in 0..(score + Resolution)
    BY <1>0, <1>1, <2>3, Scaling
  <2>10. /\ n * delay <= score * delay + Resolution
         /\ Instant(ref, delay, t, n) >= ref /\ (Instant(ref, delay, t, n) - ref) % exist = 0
    BY <1>0, <2>1, <2>5, <2>7, <2>8, <2>9 DEF Instant
  <2>. QED  BY <2>9, <2>10 DEF Meets, score
<1>. QED  BY <1>3, <1>4

-----------------------------------------------------------------------------
\* A periodic timer is never further ahead than its interval, and the
\* resolution by which it may have been called early.
NotAhead ==
  \A i \in Live : evList[i].type = "PTIMER" =>
                    evList[i].expire <= now + Resolution + evList[i].interval

\* Entries keep their times while the clock goes on.
LEMMA KeptTimes ==
  ASSUME TypeOK, NotAhead, now' \in Nat, now <= now', Live' \subseteq Live,
         \A i \in Live' : /\ evList'[i].type = evList[i].type
                          /\ evList'[i].expire = evList[i].expire
                          /\ evList'[i].interval = evList[i].interval
  PROVE  NotAhead'
<1>1. \A i \in Live : evList[i].expire \in Nat /\ evList[i].interval \in Nat
  BY DEF TypeOK, Live, Entry
<1>2. now \in Nat /\ Resolution \in Nat
  BY LoopAssumption DEF TypeOK
<1>. QED  BY <1>1, <1>2 DEF NotAhead

LEMMA NotAheadStep ==
  ASSUME LoopInv, NotAhead, [Next]_vars
  PROVE  NotAhead'
<1>1. TypeOK /\ TypeOK' /\ PhaseOK
  BY LoopInvStep DEF LoopInv
<1>2. now \in Nat /\ now' \in Nat /\ Resolution \in Nat
  BY <1>1, LoopAssumption DEF TypeOK
<1>3. ASSUME NEW type \in TimerTypes, NEW g \in Groups, NEW d \in Delays,
             NEW optimize \in BOOLEAN, Schedule(type, g, d, optimize)
      PROVE  NotAhead'
  <2>. DEFINE e == TimerEntry(type, g, d, optimize)
  <2>1. PutEntry(e) /\ e \in Entry /\ e.type # "EMPTY"
    BY <1>1, <1>3, TimerEntryType DEF Schedule, TimerEntry, TimerTypes
  <2>2. e.expire <= now + d /\ e.interval = d /\ d \in Nat /\ e.expire \in Nat
    BY <1>1, NewExpiry, LoopAssumption DEF TimerEntry, TypeOK
  <2>3. now' = now
    BY <1>3 DEF Schedule, envVars
  <2>. HIDE DEF e
  <2>4. Live' = Live \cup {FreeSlot} /\ evList'[FreeSlot] = e /\ \A i \in Live : evList'[i] = evList[i]
    BY <1>1, <2>1, PutEntryList
  <2>. HIDE DEF FreeSlot
  <2>. QED  BY <1>2, <2>2, <2>3, <2>4 DEF NotAhead
<1>4. ASSUME NEW g \in Groups, NEW fd \in Fds, PollIo(g, fd) PROVE NotAhead'
  <2>. DEFINE e == IoEntry(g, fd)
  <2>1. PutEntry(e) /\ e \in Entry /\ e.type = "IO" /\ e.type # "EMPTY"
    BY <1>1, <1>4, IoEntryType DEF PollIo, IoEntry, NoEvent
  <2>2. now' = now
    BY <1>4 DEF PollIo, envVars
  <2>. HIDE DEF e
  <2>3. Live' = Live \cup {FreeSlot} /\ evList'[FreeSlot] = e /\ \A i \in Live : evList'[i] = evList[i]
    BY <1>1, <2>1, PutEntryList
  <2>. QED  BY <2>1, <2>2, <2>3 DEF NotAhead
<1>5. ASSUME NEW g \in Groups, RemoveGroup(g) PROVE NotAhead'
  <2>1. now' = now
    BY <1>5 DEF RemoveGroup, envVars
  <2>. QED  BY <1>1, <1>2, <1>5, <2>1, RemoveGroupList, KeptTimes
<1>6. CASE CallTimer
  <2>1. now' = now
    BY <1>6 DEF CallTimer, envVars
  <2>2. CASE evList[NextTimer].type = "TIMER"
    BY <1>1, <1>2, <1>6, <2>1, <2>2, OneShotList, KeptTimes
  <2>3. CASE evList[NextTimer].type # "TIMER"
    <3>1. /\ Live' = Live
          /\ \A i \in Live \ {NextTimer} : evList'[i] = evList[i]
          /\ evList'[NextTimer] = [evList[NextTimer] EXCEPT
               !.processed = TRUE, !.expire = evList[NextTimer].expire + evList[NextTimer].interval]
          /\ NextTimer \in Live
      BY <1>1, <1>6, <2>3, PeriodicList
    <3>2. NextTimer \in Expired
      BY <1>1, <1>6, NextTimerChosen DEF CallTimer
    <3>3. evList[NextTimer] \in Entry /\ evList[NextTimer].expire <= roundNow /\ roundNow \in Nat
      BY <1>1, <3>2 DEF Expired, Timers, TypeOK
    <3>. HIDE DEF NextTimer
    <3>4. /\ evList'[NextTimer].interval = evList[NextTimer].interval
          /\ evList'[NextTimer].expire = evList[NextTimer].expire + evList[NextTimer].interval
          /\ evList[NextTimer].interval \in Nat /\ evList[NextTimer].expire \in Nat
      BY <3>1, <3>3 DEF Entry
    <3>5. roundNow <= now + Resolution
      BY <1>1 DEF PhaseOK
    <3>6. evList'[NextTimer].expire <= now' + Resolution + evList'[NextTimer].interval
      BY <1>2, <2>1, <3>3, <3>4, <3>5
    <3>. QED  BY <2>1, <3>1, <3>6 DEF NotAhead
  <2>. QED  BY <2>2, <2>3
<1>7. CASE Prepare
  <2>1. now' = now
    BY <1>7 DEF Prepare, envVars
  <2>2. \A i \in Live : evList[i] \in Entry
    BY <1>1 DEF Live, TypeOK
  <2>3. \A e \in Entry : LET f == [e EXCEPT !.processed = FALSE]
                          IN  f.type = e.type /\ f.expire = e.expire /\ f.interval = e.interval
    BY DEF Entry
  <2>4. Live' = Live /\ \A i \in Live : \/ evList'[i] = evList[i]
                                        \/ evList'[i] = [evList[i] EXCEPT !.processed = FALSE]
    BY <1>1, <1>7, PrepareList
  <2>5. \A i \in Live' : /\ evList'[i].type = evList[i].type
                         /\ evList'[i].expire = evList[i].expire
                         /\ evList'[i].interval = evList[i].interval
    BY <2>2, <2>3, <2>4
  <2>. QED  BY <1>1, <1>2, <2>1, <2>4, <2>5, KeptTimes
<1>8. CASE SignalInSelect
  BY <1>8 DEF SignalInSelect, NotAhead, Live, Slots
<1>9. ASSUME UNCHANGED <<evList, used>>, now' = now \/ now' \in (now + 1)..MaxTime PROVE NotAhead'
  <2>1. Live' = Live /\ evList' = evList /\ now <= now'
    BY <1>2, <1>9, LoopAssumption DEF Live, Slots
  <2>. QED  BY <1>1, <1>2, <2>1, KeptTimes
<1>10. CASE OutOfMemory \/ Stop \/ Return \/ Run
  BY <1>9, <1>10 DEF OutOfMemory, Stop, Return, Run, listVars, envVars
<1>11. CASE Leave \/ SelectReady \/ SelectTimeout \/ CallIo \/ StaleScan \/ Drain \/ RoundDone
  BY <1>9, <1>11
     DEF Leave, SelectReady, SelectTimeout, CallIo, StaleScan, Drain, RoundDone, listVars, envVars
<1>12. CASE SignalStop \/ Tick \/ (\E fd \in Fds : Input(fd)) \/ UNCHANGED vars
  BY <1>9, <1>12 DEF SignalStop, Tick, Input, vars, listVars, envVars
<1>. QED
  BY <1>3, <1>4, <1>5, <1>6, <1>7, <1>8, <1>10, <1>11, <1>12 DEF Next, Loop, Interface, Environment

LEMMA NeverAhead == Spec => []NotAhead
<1>1. Init => NotAhead
  BY DEF Init, NotAhead, Live, Slots
<1>2. LoopInv /\ NotAhead /\ [Next]_vars => NotAhead'
  BY NotAheadStep
<1>. QED  BY <1>1, <1>2, LoopInvariance, PTL DEF Spec

\* A timer that is lined up with a periodic timer of the list meets it as
\* soon as the score says, whatever has been scheduled, removed, called early
\* or called late before.
THEOREM AlignedMeet == Spec => []MeetsInTime
<1>1. LoopInv /\ NotAhead => MeetsInTime
  <2>. SUFFICES ASSUME LoopInv, NotAhead, NEW i \in References, NEW delay \in Intervals,
                       OverlapScore(delay, evList[i].interval) # 0
                PROVE  Meets(evList[i].expire, evList[i].interval, delay, now)
    BY DEF MeetsInTime
  <2>1. evList[i] \in Entry /\ now \in Nat /\ delay \in Nat \ {0}
    BY AlignedAssumption DEF LoopInv, TypeOK, References
  <2>2. evList[i].expire \in Nat /\ evList[i].interval \in Nat
    BY <2>1 DEF Entry
  <2>3. evList[i].interval # 0
    BY DEF OverlapScore
  <2>4. evList[i].expire <= now + Resolution + evList[i].interval
    BY DEF NotAhead, References, Live
  <2>. QED  BY <2>1, <2>2, <2>3, <2>4, Meeting
<1>. QED  BY <1>1, LoopInvariance, NeverAhead, PTL

\* The score of a new timer beside any periodic timer of the list is the
\* number of its periods from one shared instant to the next.
THEOREM ScoresCount == Spec => []ScoreCounts
<1>1. LoopInv => ScoreCounts
  <2>. SUFFICES ASSUME LoopInv, NEW i \in References, NEW delay \in Intervals,
                       OverlapScore(delay, evList[i].interval) # 0,
                       NEW n \in 1..OverlapScore(delay, evList[i].interval)
                PROVE  (n * delay) % evList[i].interval = 0
                         <=> n = OverlapScore(delay, evList[i].interval)
    BY DEF ScoreCounts
  <2>. DEFINE exist == evList[i].interval
              score == OverlapScore(delay, exist)
  <2>1. evList[i] \in Entry /\ delay \in Nat \ {0}
    BY AlignedAssumption DEF LoopInv, TypeOK, References
  <2>2. exist \in Nat /\ exist # 0
    BY <2>1 DEF Entry, OverlapScore
  <2>3. Positive(score, delay, exist) /\ Overlap(score, delay, exist) /\ Minimal(score, delay, exist)
    BY <2>1, <2>2, ScoreIsLeast
  <2>4. n \in Int /\ n * delay \in Int
    BY <2>1, <2>3 DEF Positive
  <2>. HIDE DEF exist, score
  <2>5. (n * delay) % exist = 0 <=> Overlap(n, delay, exist)
    BY <2>2, <2>4, Divides DEF Overlap
  <2>6. n \in 1..score
    BY DEF score, exist
  <2>7. Overlap(n, delay, exist) <=> n = score
    BY <2>3, <2>6 DEF Minimal
  <2>. QED  BY <2>5, <2>7 DEF score, exist
<1>. QED  BY <1>1, LoopInvariance, PTL
=============================================================================
