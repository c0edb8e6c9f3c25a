--------------------------- MODULE MainLoopProofs ---------------------------
(***************************************************************************)
(* The event list of src/ypmainloop.c keeps LoopInv, and the loop          *)
(* implements the set of events of EventSet, for any number of events,     *)
(* groups, descriptors and callbacks, and any list size.                   *)
(*                                                                         *)
(* The three ways a step changes the list (an entry is put, a group is     *)
(* removed, a timer is called) are described by lemmas in terms of the     *)
(* live slots; everything else follows from those.                         *)
(***************************************************************************)
EXTENDS MainLoop, TimerAlignProofs, FiniteSetTheorems

\* The next id is an abbreviation wherever an entry is made.
USE DEF NextId

LEMMA GreatestNatural ==
  ASSUME NEW S \in SUBSET Nat, S # {}, NEW b \in Nat, \A n \in S : n <= b
  PROVE  Greatest(S) \in S /\ \A n \in S : n <= Greatest(S)
<1>1. PICK k \in {b - n : n \in S} : \A l \in {b - n : n \in S} : k <= l
  <2>1. \A n \in S : b - n \in Nat
    OBVIOUS
  <2>2. {b - n : n \in S} \in SUBSET Nat /\ {b - n : n \in S} # {}
    BY <2>1
  <2>. QED  BY <2>2, LeastNatural
<1>2. PICK m \in S : k = b - m
  OBVIOUS
<1>3. ASSUME NEW n \in S PROVE n <= m
  <2>1. b - m <= b - n /\ m \in Nat /\ n \in Nat
    BY <1>1, <1>2
  <2>. QED  BY <2>1
<1>. QED  BY <1>2, <1>3 DEF Greatest

LEMMA LeastOfSlots ==
  ASSUME NEW S \in SUBSET Nat, S # {}
  PROVE  Least(S) \in S /\ \A n \in S : Least(S) <= n
BY LeastNatural DEF Least

-----------------------------------------------------------------------------
(* The list                                                                *)

\* get_free_entry returns a slot that holds no event and leaves the others.
LEMMA PutEntryList ==
  ASSUME TypeOK, NEW e \in Entry, e.type # "EMPTY", PutEntry(e)
  PROVE  /\ used' \in Nat /\ evList' \in [Slots' -> Entry]
         /\ FreeSlot \notin Live
         /\ Live' = Live \cup {FreeSlot}
         /\ evList'[FreeSlot] = e
         /\ \A i \in Live : evList'[i] = evList[i]
<1>1. CASE Slots \subseteq Live
  <2>1. FreeSlot = used + 1
    BY <1>1 DEF FreeSlot
  <2>2. evList' = [i \in 1..(used + 1) |-> IF i = used + 1 THEN e ELSE evList[i]]
        /\ used' = used + 1
    BY <2>1 DEF PutEntry, WithEntry, TypeOK
  <2>. QED  BY <2>1, <2>2 DEF TypeOK, Live, Slots
<1>2. CASE ~(Slots \subseteq Live)
  <2>1. FreeSlot \in Slots \ Live
    <3>1. Slots \ Live \in SUBSET Nat /\ Slots \ Live # {}
      BY <1>2 DEF Slots, TypeOK
    <3>. QED  BY <3>1, LeastOfSlots DEF FreeSlot
  <2>2. FreeSlot \in 1..used /\ ~(FreeSlot > used)
    BY <2>1 DEF Slots, TypeOK
  <2>3. evList' = [i \in 1..used |-> IF i = FreeSlot THEN e ELSE evList[i]] /\ used' = used
    BY <2>2 DEF PutEntry, WithEntry
  <2>. HIDE DEF FreeSlot
  <2>. QED  BY <2>1, <2>2, <2>3 DEF TypeOK, Live, Slots
<1>. QED  BY <1>1, <1>2

\* Slots given up at the end of the list hold no event that stays.
LEMMA RemoveGroupList ==
  ASSUME TypeOK, NEW g \in Groups, RemoveGroup(g)
  PROVE  /\ used' \in Nat /\ evList' \in [Slots' -> Entry]
         /\ Live' = Live \ Matching(g)
         /\ \A i \in Live' : evList'[i] = evList[i]
<1>. DEFINE match == Matching(g)
            keep == IF Slots \subseteq match THEN 0 ELSE Greatest(Slots \ match)
<1>1. keep \in 0..used /\ \A i \in Slots \ match : i <= keep
  <2>1. CASE Slots \subseteq match
    BY <2>1 DEF TypeOK
  <2>2. CASE ~(Slots \subseteq match)
    <3>1. Slots \ match \in SUBSET Nat /\ Slots \ match # {} /\ \A i \in Slots \ match : i <= used
      BY <2>2 DEF Slots, TypeOK
    <3>2. used \in Nat
      BY DEF TypeOK
    <3>3. keep \in Slots \ match /\ \A i \in Slots \ match : i <= keep
      BY <2>2, <3>1, <3>2, GreatestNatural
    <3>. QED  BY <3>2, <3>3 DEF Slots
  <2>. QED  BY <2>1, <2>2
<1>2. evList' = [i \in 1..keep |-> IF i \in match THEN NoEvent ELSE evList[i]] /\ used' = keep
  BY DEF RemoveGroup
<1>3. NoEvent \in Entry /\ NoEvent.type = "EMPTY"
  BY DEF NoEvent, Entry
<1>4. match \subseteq Live
  BY DEF Matching
<1>. HIDE DEF keep, match
<1>. QED  BY <1>1, <1>2, <1>3, <1>4 DEF TypeOK, Live, Slots, match

\* The timer the rounds choose has expired, has not been called in this pass
\* and is the first of those.
LEMMA NextTimerChosen ==
  ASSUME TypeOK, Expired # {}
  PROVE  /\ NextTimer \in Expired
         /\ \A j \in Expired : evList[NextTimer].expire <= evList[j].expire
<1>. DEFINE key == [i \in Expired |-> evList[i].expire]
<1>1. Expired \in SUBSET Nat /\ \A i \in Expired : key[i] = evList[i].expire /\ key[i] \in Nat
  BY DEF Expired, Timers, Slots, TypeOK, Entry
<1>. HIDE DEF key
<1>2. \E i \in Expired : \A j \in Expired :
        \/ key[i] < key[j]
        \/ key[i] = key[j] /\ i <= j
  BY <1>1, FirstOfLowest
<1>3. /\ NextTimer \in Expired
      /\ \A j \in Expired : \/ evList[NextTimer].expire < evList[j].expire
                            \/ evList[NextTimer].expire = evList[j].expire /\ NextTimer <= j
  BY <1>1, <1>2 DEF NextTimer
<1>. QED  BY <1>1, <1>3

\* A one-shot timer leaves the list before it is called, nothing else does.
LEMMA OneShotList ==
  ASSUME TypeOK, CallTimer, evList[NextTimer].type = "TIMER"
  PROVE  /\ used' \in Nat /\ evList' \in [Slots' -> Entry]
         /\ Live' = Live \ {NextTimer}
         /\ \A i \in Live' : evList'[i] = evList[i]
<1>. DEFINE t == NextTimer
            left == Live \ {t}
            keep == IF t < used THEN used ELSE IF left = {} THEN 0 ELSE Greatest(left)
<1>1. t \in Slots /\ t \in 1..used /\ used \in Nat
  BY NextTimerChosen DEF CallTimer, Expired, Timers, Slots, TypeOK
<1>2. keep \in 0..used /\ \A i \in left : i <= keep
  <2>1. left \in SUBSET Nat /\ \A i \in left : i <= used
    BY DEF Live, Slots, TypeOK
  <2>2. left # {} => Greatest(left) \in left /\ \A i \in left : i <= Greatest(left)
    BY <1>1, <2>1, GreatestNatural
  <2>. HIDE DEF t
  <2>. QED  BY <1>1, <2>1, <2>2
<1>3. evList' = [i \in 1..keep |-> IF i = t THEN NoEvent ELSE evList[i]] /\ used' = keep
  BY DEF CallTimer
<1>4. NoEvent \in Entry /\ NoEvent.type = "EMPTY"
  BY DEF NoEvent, Entry
<1>. HIDE DEF keep, t
<1>. QED  BY <1>1, <1>2, <1>3, <1>4 DEF TypeOK, Live, Slots, t

\* A periodic timer stays in its slot, marked and moved on by its interval.
LEMMA PeriodicList ==
  ASSUME TypeOK, CallTimer, evList[NextTimer].type # "TIMER"
  PROVE  /\ used' = used /\ evList' \in [Slots' -> Entry]
         /\ Live' = Live
         /\ \A i \in Live \ {NextTimer} : evList'[i] = evList[i]
         /\ evList'[NextTimer] = [evList[NextTimer] EXCEPT
              !.processed = TRUE, !.expire = evList[NextTimer].expire + evList[NextTimer].interval]
         /\ evList[NextTimer].type = "PTIMER" /\ NextTimer \in Live
<1>1. NextTimer \in Slots /\ evList[NextTimer].type = "PTIMER"
  BY NextTimerChosen DEF CallTimer, Expired, Timers, TimerTypes
<1>2. /\ evList' = [evList EXCEPT ![NextTimer] =
              [evList[NextTimer] EXCEPT !.processed = TRUE,
                 !.expire = evList[NextTimer].expire + evList[NextTimer].interval]]
      /\ used' = used
  BY <1>1 DEF CallTimer, TypeOK
<1>3. [evList[NextTimer] EXCEPT !.processed = TRUE,
          !.expire = evList[NextTimer].expire + evList[NextTimer].interval] \in Entry
  <2>1. evList[NextTimer] \in Entry
    BY <1>1 DEF TypeOK
  <2>2. ASSUME NEW e \in Entry
        PROVE  [e EXCEPT !.processed = TRUE, !.expire = e.expire + e.interval] \in Entry
    <3>1. e.expire + e.interval \in Nat
      BY DEF Entry
    <3>2. \A x \in Nat : [e EXCEPT !.processed = TRUE, !.expire = x] \in Entry
      BY DEF Entry
    <3>. QED  BY <3>1, <3>2
  <2>. QED  BY <2>1, <2>2
<1>4. evList[NextTimer].type # "EMPTY"
  BY <1>1
<1>. HIDE DEF NextTimer
<1>. QED  BY <1>1, <1>2, <1>3, <1>4 DEF TypeOK, Live, Slots

-----------------------------------------------------------------------------
(* The types                                                               *)

\* The timers a new timer is lined up with have natural expiries and intervals.
LEMMA NewExpiry ==
  ASSUME TypeOK, NEW d \in Delays, NEW optimize \in BOOLEAN
  PROVE  /\ FirstExpire(PeriodicRefs, d, optimize, now) \in Nat
         /\ FirstExpire(PeriodicRefs, d, optimize, now) \in now..(now + d)
         /\ ~optimize => FirstExpire(PeriodicRefs, d, optimize, now) = now + d
<1>1. DOMAIN PeriodicRefs \in SUBSET Nat
  BY DEF PeriodicRefs, Slots, TypeOK
<1>2. \A i \in DOMAIN PeriodicRefs :
        PeriodicRefs[i].interval \in Nat /\ PeriodicRefs[i].expire \in Nat
  BY DEF PeriodicRefs, Slots, TypeOK, Entry
<1>3. d \in Nat /\ now \in Nat
  BY LoopAssumption DEF TypeOK
<1>4. /\ FirstExpire(PeriodicRefs, d, optimize, now) \in now..(now + d)
      /\ ~optimize => FirstExpire(PeriodicRefs, d, optimize, now) = now + d
  BY <1>1, <1>2, <1>3, FirstExpireBounds
<1>. QED  BY <1>3, <1>4

\* What Schedule and PollIo put into the list.
TimerEntry(type, g, d, optimize) ==
  [type |-> type, id |-> eventIdMax + 1, group |-> g, fd |-> 0, interval |-> d,
   expire |-> FirstExpire(PeriodicRefs, d, optimize, now), processed |-> TRUE]

IoEntry(g, fd) == [NoEvent EXCEPT !.type = "IO", !.id = eventIdMax + 1, !.group = g, !.fd = fd]

LEMMA TimerEntryType ==
  ASSUME TypeOK, NEW type \in TimerTypes, NEW g \in Groups, NEW d \in Delays,
         NEW optimize \in BOOLEAN
  PROVE  TimerEntry(type, g, d, optimize) \in Entry
<1>1. FirstExpire(PeriodicRefs, d, optimize, now) \in Nat /\ d \in Nat /\ eventIdMax + 1 \in Nat
  BY NewExpiry, LoopAssumption DEF TypeOK
<1>. QED  BY <1>1 DEF TimerEntry, Entry

LEMMA IoEntryType ==
  ASSUME TypeOK, NEW g \in Groups, NEW fd \in Fds
  PROVE  IoEntry(g, fd) \in Entry
<1>1. eventIdMax + 1 \in Nat
  BY DEF TypeOK
<1>. QED  BY <1>1 DEF IoEntry, Entry, NoEvent

\* The bound computed while a group is removed is above every descriptor that
\* stays.
LEMMA LoweredBound ==
  ASSUME TypeOK, DescriptorsWatched, NEW match
  PROVE  /\ LoweredMaxFd(match) \in Nat
         /\ \A i \in IoSlots \ match : evList[i].fd < LoweredMaxFd(match)
<1>. DEFINE F == {0} \cup {evList[i].fd : i \in IoSlots \ match}
<1>1. F \in SUBSET Nat /\ F # {}
  <2>1. \A i \in IoSlots : evList[i].fd \in Fds \cup {0}
    BY DEF IoSlots, Slots, TypeOK, Entry
  <2>2. Fds \cup {0} \subseteq Nat
    BY LoopAssumption
  <2>. QED  BY <2>1, <2>2
<1>2. \A n \in F : n <= maxFd
  BY <1>1 DEF DescriptorsWatched, TypeOK
<1>3. Greatest(F) \in F /\ \A n \in F : n <= Greatest(F)
  BY <1>1, <1>2, GreatestNatural DEF TypeOK
<1>4. LoweredMaxFd(match) = Greatest(F) + 1
  BY DEF LoweredMaxFd
<1>. HIDE DEF F
<1>5. LoweredMaxFd(match) \in Nat /\ \A n \in F : n < LoweredMaxFd(match)
  <2>1. Greatest(F) \in Nat /\ \A n \in F : n \in Nat
    BY <1>1, <1>3
  <2>. QED  BY <1>3, <1>4, <2>1
<1>. QED  BY <1>5 DEF F

ListTypes == used \in Nat /\ evList \in [Slots -> Entry]

FlagTypes == isRunning \in BOOLEAN /\ moved \in BOOLEAN

OtherTypes ==
  /\ allocated \in Nat /\ capacity \in Nat /\ eventIdMax \in Nat
  /\ masterSet \subseteq Fds \cup {WakeFd} /\ maxFd \in Nat
  /\ pipe \in Nat
  /\ pc \in PcValues /\ back \in {"io", "round"}
  /\ firing \in Nat /\ ops \in Nat
  /\ ready \subseteq Fds \cup {WakeFd} /\ ioSlot \in Nat \ {0}
  /\ deadline \in Int /\ roundNow \in Nat /\ now \in Nat
  /\ readable \subseteq Fds

LEMMA TypesSplit == TypeOK <=> ListTypes /\ FlagTypes /\ OtherTypes
BY DEF TypeOK, FlagTypes, ListTypes, OtherTypes

LEMMA ListTypesKept == ASSUME ListTypes, UNCHANGED <<used, evList>> PROVE ListTypes'
BY DEF ListTypes, Slots

\* The list has `used` entries after every step.
LEMMA ListTypesStep ==
  ASSUME TypeOK, [Next]_vars
  PROVE  ListTypes'
<1>1. ASSUME NEW type \in TimerTypes, NEW g \in Groups, NEW d \in Delays,
             NEW optimize \in BOOLEAN, Schedule(type, g, d, optimize)
      PROVE  ListTypes'
  <2>. DEFINE e == TimerEntry(type, g, d, optimize)
  <2>1. PutEntry(e) /\ e \in Entry /\ e.type # "EMPTY"
    BY <1>1, TimerEntryType DEF Schedule, TimerEntry, TimerTypes
  <2>. QED  BY <2>1, PutEntryList DEF ListTypes
<1>2. ASSUME NEW g \in Groups, NEW fd \in Fds, PollIo(g, fd)
      PROVE  ListTypes'
  <2>. DEFINE e == IoEntry(g, fd)
  <2>1. PutEntry(e) /\ e \in Entry /\ e.type # "EMPTY"
    BY <1>2, IoEntryType DEF PollIo, IoEntry, NoEvent
  <2>. QED  BY <2>1, PutEntryList DEF ListTypes
<1>3. ASSUME NEW g \in Groups, RemoveGroup(g)
      PROVE  ListTypes'
  BY <1>3, RemoveGroupList DEF ListTypes
<1>4. CASE CallTimer
  BY <1>4, OneShotList, PeriodicList DEF ListTypes, TypeOK
<1>5. CASE Prepare
  <2>1. \A e \in Entry : [e EXCEPT !.processed = FALSE] \in Entry
    BY DEF Entry
  <2>2. \A i \in Slots : evList[i] \in Entry
    BY DEF TypeOK
  <2>3. Slots' = Slots /\ used' \in Nat
    BY <1>5 DEF Prepare, Slots, TypeOK
  <2>. QED  BY <1>5, <2>1, <2>2, <2>3 DEF Prepare, ListTypes
<1>6. CASE SignalInSelect
  BY <1>6 DEF SignalInSelect, ListTypes, Slots
<1>7. ASSUME UNCHANGED <<used, evList>>
      PROVE  ListTypes'
  BY <1>7, ListTypesKept, TypesSplit
<1>8. CASE Stop \/ OutOfMemory \/ Return \/ Run
  BY <1>7, <1>8 DEF Stop, OutOfMemory, Return, Run, listVars
<1>9. CASE Leave \/ SelectReady \/ SelectTimeout \/ CallIo \/ StaleScan \/ Drain \/ RoundDone
  BY <1>7, <1>9 DEF Leave, SelectReady, SelectTimeout, CallIo, StaleScan, Drain, RoundDone, listVars
<1>10. CASE SignalStop \/ Tick \/ (\E fd \in Fds : Input(fd)) \/ UNCHANGED vars
  BY <1>7, <1>10 DEF SignalStop, Tick, Input, vars, listVars
<1>. QED
  BY <1>1, <1>2, <1>3, <1>4, <1>5, <1>6, <1>8, <1>9, <1>10
     DEF Next, Loop, Interface, Environment

\* The flags stay flags: most steps leave them alone.
LEMMA FlagTypesStep ==
  ASSUME TypeOK, [Next]_vars
  PROVE  FlagTypes'
<1>1. ASSUME NEW e, PutEntry(e), UNCHANGED isRunning
      PROVE  FlagTypes'
  <2>1. moved' \in BOOLEAN
    BY <1>1 DEF PutEntry, TypeOK
  <2>2. isRunning' \in BOOLEAN
    BY <1>1 DEF TypeOK
  <2>. QED  BY <2>1, <2>2 DEF FlagTypes
<1>2. ASSUME NEW type \in TimerTypes, NEW g \in Groups, NEW d \in Delays,
             NEW optimize \in BOOLEAN, Schedule(type, g, d, optimize)
      PROVE  FlagTypes'
  BY <1>1, <1>2 DEF Schedule
<1>3. ASSUME NEW g \in Groups, NEW fd \in Fds, PollIo(g, fd)
      PROVE  FlagTypes'
  BY <1>1, <1>3 DEF PollIo
<1>4. ASSUME isRunning' \in {isRunning, TRUE, FALSE}, moved' \in {moved, FALSE}
      PROVE  FlagTypes'
  BY <1>4 DEF TypeOK, FlagTypes
<1>5. (\E g \in Groups : RemoveGroup(g)) => FlagTypes'
  BY <1>4, Zenon DEF RemoveGroup
<1>6. Stop \/ OutOfMemory \/ Return \/ Run => FlagTypes'
  BY <1>4, Zenon DEF Stop, OutOfMemory, Return, Run
<1>7. Leave \/ Prepare \/ SelectReady \/ SelectTimeout \/ CallIo => FlagTypes'
  BY <1>4, Zenon DEF Leave, Prepare, SelectReady, SelectTimeout, CallIo
<1>8. StaleScan \/ Drain \/ CallTimer \/ RoundDone => FlagTypes'
  BY <1>4, Zenon DEF StaleScan, Drain, CallTimer, RoundDone
<1>9. SignalStop \/ SignalInSelect \/ Tick \/ (\E fd \in Fds : Input(fd)) => FlagTypes'
  BY <1>4, Zenon DEF SignalStop, SignalInSelect, Tick, Input
<1>10. UNCHANGED vars => FlagTypes'
  BY <1>4, Zenon DEF vars
<1>. QED
  BY <1>2, <1>3, <1>5, <1>6, <1>7, <1>8, <1>9, <1>10 DEF Next, Loop, Interface, Environment

\* The other variables stay within their types.
LEMMA OtherTypesStep ==
  ASSUME TypeOK, DescriptorsWatched, [Next]_vars
  PROVE  OtherTypes'
<1>. USE LoopAssumption, TypesSplit DEF OtherTypes, PcValues, listVars, fdVars, scanVars,
         frameVars, envVars
<1>1. ASSUME NEW type \in TimerTypes, NEW g \in Groups, NEW d \in Delays,
             NEW optimize \in BOOLEAN, Schedule(type, g, d, optimize)
      PROVE  OtherTypes'
  BY <1>1 DEF Schedule, PutEntry, Called
<1>2. ASSUME NEW g \in Groups, NEW fd \in Fds, PollIo(g, fd)
      PROVE  OtherTypes'
  BY <1>2 DEF PollIo, PutEntry, Called, RaisedMaxFd
<1>3. ASSUME NEW g \in Groups, RemoveGroup(g)
      PROVE  OtherTypes'
  <2>1. LoweredMaxFd(Matching(g)) \in Nat
    BY LoweredBound
  <2>2. /\ masterSet' = masterSet \ Closed(Matching(g))
        /\ maxFd' \in {maxFd, LoweredMaxFd(Matching(g))} /\ pipe' \in {pipe, pipe + 1}
        /\ ops' = ops + 1
        /\ UNCHANGED <<allocated, capacity, eventIdMax, scanVars, frameVars, envVars, pc>>
    BY <1>3 DEF RemoveGroup, Called
  <2>. QED  BY <2>1, <2>2
<1>4. CASE Stop
  BY <1>4 DEF Stop, Called, StopPipe
<1>5. CASE OutOfMemory
  BY <1>5 DEF OutOfMemory, Called
<1>6. CASE Return \/ Run \/ Leave
  BY <1>6 DEF Return, Run, Leave
<1>7. CASE RoundDone \/ StaleScan
  BY <1>7 DEF RoundDone, StaleScan
<1>8. CASE Prepare
  <2>1. {evList[i].expire : i \in Timers} \in SUBSET Nat
    BY DEF TypeOK, Timers, Slots, Entry
  <2>2. WakeupTime \in Nat
    BY <2>1, LeastOfSlots DEF WakeupTime
  <2>. QED  BY <1>8, <2>2 DEF Prepare
<1>9. CASE SelectReady
  BY <1>9 DEF SelectReady, Selected
<1>10. CASE SelectTimeout
  BY <1>10 DEF SelectTimeout, StartRound
<1>11. CASE CallIo
  <2>1. ReadySlots \in SUBSET Nat /\ ReadySlots # {}
    BY <1>11 DEF CallIo, ReadySlots, IoSlots, Slots, TypeOK
  <2>2. Least(ReadySlots) \in ReadySlots
    BY <2>1, LeastOfSlots
  <2>3. Least(ReadySlots) \in Nat /\ evList[Least(ReadySlots)].id \in Nat
    BY <2>1, <2>2 DEF ReadySlots, IoSlots, TypeOK, Entry
  <2>. QED  BY <1>11, <2>3 DEF CallIo
<1>12. CASE Drain
  BY <1>12 DEF Drain, StartRound
<1>13. CASE CallTimer
  <2>1. evList[NextTimer].id \in Nat
    BY <1>13, NextTimerChosen DEF CallTimer, Expired, Timers, TypeOK, Entry
  <2>. QED  BY <1>13, <2>1 DEF CallTimer
<1>14. CASE SignalStop
  BY <1>14 DEF SignalStop, StopPipe, StartRound
<1>15. CASE SignalInSelect
  BY <1>15 DEF SignalInSelect
<1>16. CASE (\E fd \in Fds : Input(fd)) \/ Tick
  BY <1>16 DEF Input, Tick
<1>17. CASE UNCHANGED vars
  BY <1>17 DEF vars
<1>. QED
  BY <1>1, <1>2, <1>3, <1>4, <1>5, <1>6, <1>7, <1>8, <1>9, <1>10, <1>11, <1>12, <1>13, <1>14,
     <1>15, <1>16, <1>17
     DEF Next, Loop, Interface, Environment

\* The types are those of the code's variables after every step.
LEMMA TypeStep ==
  ASSUME TypeOK, DescriptorsWatched, [Next]_vars
  PROVE  TypeOK'
BY ListTypesStep, FlagTypesStep, OtherTypesStep DEF TypeOK, ListTypes, FlagTypes, OtherTypes

-----------------------------------------------------------------------------
(* The entries                                                             *)

\* What most steps do to the list: entries may go, those that stay keep their
\* type, id and descriptor.
Kept ==
  /\ eventIdMax' = eventIdMax
  /\ Live' \subseteq Live
  /\ \A i \in Live' : /\ evList'[i].type = evList[i].type
                      /\ evList'[i].id = evList[i].id
                      /\ evList'[i].fd = evList[i].fd

LEMMA KeptIds ==
  ASSUME UniqueIds, DistinctFds, Kept
  PROVE  UniqueIds' /\ DistinctFds' /\ IoSlots' \subseteq IoSlots
<1>1. UniqueIds'
  BY DEF UniqueIds, Kept
<1>2. IoSlots' \subseteq IoSlots
  BY DEF Kept, IoSlots, Live
<1>3. \A i \in IoSlots' : i \in Live'
  BY DEF IoSlots, Live
<1>4. DistinctFds'
  BY <1>2, <1>3 DEF DistinctFds, Kept
<1>. QED  BY <1>1, <1>2, <1>4

LEMMA UnchangedKept == UNCHANGED listVars => Kept
BY DEF Kept, listVars, Live, Slots

LEMMA PrepareList ==
  ASSUME TypeOK, Prepare
  PROVE  /\ Live' = Live /\ Timers' = Timers
         /\ \A i \in Live : evList'[i] = IF i \in Timers THEN [evList[i] EXCEPT !.processed = FALSE]
                                         ELSE evList[i]
<1>1. Slots' = Slots
  BY DEF Prepare, Slots
<1>2. \A i \in Slots : evList'[i] = IF i \in Timers THEN [evList[i] EXCEPT !.processed = FALSE]
                                    ELSE evList[i]
  BY DEF Prepare
<1>3. \A i \in Slots : evList[i] \in Entry
  BY DEF TypeOK
<1>4. \A i \in Slots : evList'[i].type = evList[i].type
  BY <1>2, <1>3 DEF Entry
<1>. QED  BY <1>1, <1>2, <1>4 DEF Live, Timers, TimerTypes

\* Every step but the arming of an event and the shutdown keeps the entries.
LEMMA KeptByStep ==
  ASSUME TypeOK, [Next]_vars,
         ~ \E type \in TimerTypes, g \in Groups, d \in Delays, optimize \in BOOLEAN :
              Schedule(type, g, d, optimize),
         ~ \E g \in Groups, fd \in Fds : PollIo(g, fd),
         ~ SignalInSelect
  PROVE  Kept
<1>1. ASSUME NEW g \in Groups, RemoveGroup(g) PROVE Kept
  <2>1. eventIdMax' = eventIdMax
    BY <1>1 DEF RemoveGroup
  <2>. QED  BY <1>1, <2>1, RemoveGroupList DEF Kept
<1>2. CASE CallTimer
  <2>1. eventIdMax' = eventIdMax
    BY <1>2 DEF CallTimer
  <2>2. CASE evList[NextTimer].type = "TIMER"
    BY <1>2, <2>1, <2>2, OneShotList DEF Kept
  <2>3. CASE evList[NextTimer].type # "TIMER"
    <3>1. evList[NextTimer] \in Entry
      BY <1>2, NextTimerChosen DEF CallTimer, Expired, Timers, TypeOK
    <3>2. /\ evList'[NextTimer].type = evList[NextTimer].type
          /\ evList'[NextTimer].id = evList[NextTimer].id
          /\ evList'[NextTimer].fd = evList[NextTimer].fd
      BY <1>2, <2>3, <3>1, PeriodicList DEF Entry
    <3>. HIDE DEF NextTimer
    <3>. QED  BY <1>2, <2>1, <2>3, <3>2, PeriodicList DEF Kept
  <2>. QED  BY <2>2, <2>3
<1>3. CASE Prepare
  <2>1. \A i \in Live : evList[i] \in Entry
    BY DEF Live, TypeOK
  <2>2. \A e \in Entry : LET f == [e EXCEPT !.processed = FALSE]
                          IN  f.type = e.type /\ f.id = e.id /\ f.fd = e.fd
    BY DEF Entry
  <2>3. eventIdMax' = eventIdMax
    BY <1>3 DEF Prepare
  <2>. QED  BY <1>3, <2>1, <2>2, <2>3, PrepareList DEF Kept
<1>4. CASE OutOfMemory
  BY <1>4 DEF OutOfMemory, Kept, Live, Slots
<1>5. CASE Stop \/ Return \/ Run
  BY <1>5, UnchangedKept DEF Stop, Return, Run
<1>6. CASE Leave \/ SelectReady \/ SelectTimeout \/ CallIo \/ StaleScan \/ Drain \/ RoundDone
  BY <1>6, UnchangedKept DEF Leave, SelectReady, SelectTimeout, CallIo, StaleScan, Drain, RoundDone
<1>7. CASE SignalStop \/ Tick \/ (\E fd \in Fds : Input(fd)) \/ UNCHANGED vars
  BY <1>7, UnchangedKept DEF SignalStop, Tick, Input, vars
<1>. QED
  BY <1>1, <1>2, <1>3, <1>4, <1>5, <1>6, <1>7 DEF Next, Loop, Interface, Environment

\* An id that has been given out is never given to a second entry, and no
\* descriptor is polled by two entries.
LEMMA EntriesStep ==
  ASSUME TypeOK, UniqueIds, DistinctFds, DescriptorsWatched, [Next]_vars
  PROVE  UniqueIds' /\ DistinctFds' /\ DescriptorsWatched'
<1>1. ASSUME NEW type \in TimerTypes, NEW g \in Groups, NEW d \in Delays,
             NEW optimize \in BOOLEAN, Schedule(type, g, d, optimize)
      PROVE  UniqueIds' /\ DistinctFds' /\ DescriptorsWatched'
  <2>. DEFINE e == TimerEntry(type, g, d, optimize)
  <2>1. PutEntry(e) /\ e \in Entry /\ e.type \in TimerTypes /\ e.type # "EMPTY" /\ e.type # "IO"
    BY <1>1, TimerEntryType DEF Schedule, TimerEntry, TimerTypes
  <2>2. eventIdMax' = eventIdMax + 1 /\ e.id = eventIdMax + 1 /\ eventIdMax \in Nat
    BY <2>1 DEF PutEntry, TimerEntry, TypeOK
  <2>. HIDE DEF e
  <2>3. /\ FreeSlot \notin Live /\ Live' = Live \cup {FreeSlot} /\ evList'[FreeSlot] = e
        /\ \A i \in Live : evList'[i] = evList[i]
    BY <2>1, PutEntryList
  <2>4. UniqueIds'
    BY <2>2, <2>3 DEF UniqueIds
  <2>5. IoSlots' = IoSlots /\ \A i \in IoSlots : evList'[i] = evList[i]
    <3>1. /\ IoSlots' = {i \in Live' : evList'[i].type = "IO"}
          /\ IoSlots = {i \in Live : evList[i].type = "IO"}
      BY DEF IoSlots, Live
    <3>. QED  BY <2>1, <2>3, <3>1
  <2>6. UNCHANGED fdVars
    BY <1>1 DEF Schedule
  <2>. QED  BY <2>4, <2>5, <2>6 DEF DistinctFds, DescriptorsWatched, fdVars
<1>2. ASSUME NEW g \in Groups, NEW fd \in Fds, PollIo(g, fd)
      PROVE  UniqueIds' /\ DistinctFds' /\ DescriptorsWatched'
  <2>. DEFINE e == IoEntry(g, fd)
  <2>1. PutEntry(e) /\ e \in Entry /\ e.type = "IO" /\ e.type # "EMPTY" /\ e.fd = fd
    BY <1>2, IoEntryType DEF PollIo, IoEntry, NoEvent
  <2>2. eventIdMax' = eventIdMax + 1 /\ e.id = eventIdMax + 1 /\ eventIdMax \in Nat
    BY <2>1 DEF PutEntry, IoEntry, NoEvent, TypeOK
  <2>. HIDE DEF e
  <2>3. /\ FreeSlot \notin Live /\ Live' = Live \cup {FreeSlot} /\ evList'[FreeSlot] = e
        /\ \A i \in Live : evList'[i] = evList[i]
    BY <2>1, PutEntryList
  <2>4. UniqueIds'
    BY <2>2, <2>3 DEF UniqueIds
  <2>5. IoSlots' = IoSlots \cup {FreeSlot} /\ \A i \in IoSlots : evList'[i] = evList[i]
    <3>1. /\ IoSlots' = {i \in Live' : evList'[i].type = "IO"}
          /\ IoSlots = {i \in Live : evList[i].type = "IO"}
      BY DEF IoSlots, Live
    <3>. QED  BY <2>1, <2>3, <3>1
  <2>6. \A i \in IoSlots : evList[i].fd # fd
    BY <1>2 DEF PollIo, DescriptorsWatched
  <2>7. DistinctFds'
    BY <2>1, <2>3, <2>5, <2>6 DEF DistinctFds
  <2>8. masterSet' = masterSet \cup {fd} /\ maxFd' = RaisedMaxFd(fd)
    BY <1>2 DEF PollIo
  <2>9. DescriptorsWatched'
    <3>1. maxFd \in Nat /\ fd \in Nat /\ \A i \in IoSlots : evList[i].fd \in Nat
      <4>1. Fds \cup {0} \subseteq Nat
        BY LoopAssumption
      <4>2. \A i \in IoSlots : evList[i].fd \in Fds \cup {0}
        BY DEF TypeOK, IoSlots, Entry
      <4>. QED  BY <4>1, <4>2 DEF TypeOK
    <3>2. fd < maxFd' /\ maxFd <= maxFd' /\ maxFd' \in Nat
      BY <2>8, <3>1 DEF RaisedMaxFd
    <3>3. \A i \in IoSlots : evList'[i].fd \in masterSet' /\ evList'[i].fd < maxFd'
      BY <2>5, <2>8, <3>1, <3>2 DEF DescriptorsWatched
    <3>. QED  BY <2>1, <2>3, <2>5, <2>8, <3>2, <3>3 DEF DescriptorsWatched
  <2>. QED  BY <2>4, <2>7, <2>9
<1>3. CASE SignalInSelect
  <2>1. Live' = {} /\ IoSlots' = {}
    BY <1>3 DEF SignalInSelect, Live, IoSlots, Slots
  <2>. QED  BY <2>1 DEF UniqueIds, DistinctFds, DescriptorsWatched
<1>4. ASSUME NEW g \in Groups, RemoveGroup(g), Kept
      PROVE  UniqueIds' /\ DistinctFds' /\ DescriptorsWatched'
  <2>. DEFINE match == Matching(g)
  <2>1. Live' = Live \ match /\ \A i \in Live' : evList'[i] = evList[i]
    BY <1>4, RemoveGroupList
  <2>2. IoSlots' = IoSlots \ match /\ \A i \in IoSlots' : evList'[i] = evList[i]
    <3>1. /\ IoSlots' = {i \in Live' : evList'[i].type = "IO"}
          /\ IoSlots = {i \in Live : evList[i].type = "IO"}
      BY DEF IoSlots, Live
    <3>. QED  BY <2>1, <3>1
  <2>3. \A i \in IoSlots \ match : evList[i].fd \notin Closed(match)
    BY DEF DistinctFds, Closed
  <2>4. /\ masterSet' = masterSet \ Closed(match)
        /\ maxFd' = IF Closed(match) = {} THEN maxFd ELSE LoweredMaxFd(match)
    BY <1>4 DEF RemoveGroup
  <2>5. \A i \in IoSlots \ match : evList[i].fd < maxFd'
    BY <2>4, LoweredBound DEF DescriptorsWatched
  <2>. HIDE DEF match
  <2>6. DescriptorsWatched'
    BY <2>2, <2>3, <2>4, <2>5 DEF DescriptorsWatched
  <2>. QED  BY <1>4, <2>6, KeptIds
<1>5. ASSUME Kept, UNCHANGED fdVars
      PROVE  UniqueIds' /\ DistinctFds' /\ DescriptorsWatched'
  <2>1. \A i \in IoSlots' : i \in Live'
    BY DEF IoSlots, Live
  <2>2. IoSlots' \subseteq IoSlots /\ UniqueIds' /\ DistinctFds'
    BY <1>5, KeptIds
  <2>. QED  BY <1>5, <2>1, <2>2 DEF DescriptorsWatched, Kept, fdVars
<1>6. ASSUME ~ \E type \in TimerTypes, g \in Groups, d \in Delays, optimize \in BOOLEAN :
                  Schedule(type, g, d, optimize),
             ~ \E g \in Groups, fd \in Fds : PollIo(g, fd),
             ~ \E g \in Groups : RemoveGroup(g),
             ~ SignalInSelect
      PROVE  UNCHANGED fdVars
  <2>1. Stop \/ OutOfMemory \/ Return \/ Run => UNCHANGED fdVars
    BY DEF Stop, OutOfMemory, Return, Run
  <2>2. Leave \/ Prepare \/ SelectReady \/ SelectTimeout \/ CallIo => UNCHANGED fdVars
    BY DEF Leave, Prepare, SelectReady, SelectTimeout, CallIo
  <2>3. StaleScan \/ Drain \/ CallTimer \/ RoundDone => UNCHANGED fdVars
    BY DEF StaleScan, Drain, CallTimer, RoundDone
  <2>4. SignalStop \/ Tick \/ (\E fd \in Fds : Input(fd)) \/ UNCHANGED vars => UNCHANGED fdVars
    BY DEF SignalStop, Tick, Input, vars
  <2>. QED  BY <1>6, <2>1, <2>2, <2>3, <2>4 DEF Next, Loop, Interface, Environment
<1>. QED
  BY <1>1, <1>2, <1>3, <1>4, <1>5, <1>6, KeptByStep

-----------------------------------------------------------------------------
(* The phases, and the inductive invariant                                 *)

LEMMA PhaseStep ==
  ASSUME TypeOK, UniqueIds, PhaseOK, [Next]_vars
  PROVE  PhaseOK'
<1>. USE LoopAssumption DEF PhaseOK
<1>1. ASSUME NEW type \in TimerTypes, NEW g \in Groups, NEW d \in Delays,
             NEW optimize \in BOOLEAN, Schedule(type, g, d, optimize)
      PROVE  PhaseOK'
  <2>1. pc' \in {pc, "undefined"} /\ UNCHANGED <<back, firing, roundNow, now>>
    BY <1>1 DEF Schedule, PutEntry, scanVars, frameVars, envVars
  <2>. QED  BY <2>1
<1>2. ASSUME NEW g \in Groups, NEW fd \in Fds, PollIo(g, fd)
      PROVE  PhaseOK'
  <2>1. pc' \in {pc, "undefined"} /\ UNCHANGED <<back, firing, roundNow, now>>
    BY <1>2 DEF PollIo, PutEntry, scanVars, frameVars, envVars
  <2>. QED  BY <2>1
<1>3. ASSUME NEW g \in Groups, RemoveGroup(g)
      PROVE  PhaseOK'
  <2>1. UNCHANGED <<pc, back, firing, roundNow, now>>
    BY <1>3 DEF RemoveGroup, scanVars, frameVars, envVars
  <2>. QED  BY <2>1
<1>4. CASE Stop \/ OutOfMemory
  BY <1>4 DEF Stop, OutOfMemory, scanVars, frameVars, envVars
<1>5. CASE Return
  BY <1>5 DEF Return, TypeOK, scanVars, envVars
<1>6. CASE Run \/ Leave \/ StaleScan
  BY <1>6 DEF Run, Leave, StaleScan, scanVars, frameVars, envVars
<1>7. CASE Prepare \/ SelectReady
  BY <1>7 DEF Prepare, SelectReady, frameVars, envVars
<1>8. CASE SelectTimeout \/ Drain
  BY <1>8 DEF SelectTimeout, Drain, StartRound, TypeOK, frameVars, envVars
<1>9. CASE RoundDone
  BY <1>9 DEF RoundDone, TypeOK, frameVars, envVars
<1>10. CASE CallIo
  <2>1. ReadySlots \in SUBSET Nat /\ ReadySlots # {}
    BY <1>10 DEF CallIo, ReadySlots, IoSlots, Slots, TypeOK
  <2>2. Least(ReadySlots) \in Live
    BY <2>1, LeastOfSlots DEF ReadySlots, IoSlots, Live
  <2>3. evList[Least(ReadySlots)].id # 0
    BY <2>2 DEF UniqueIds, TypeOK
  <2>. QED  BY <1>10, <2>3 DEF CallIo
<1>11. CASE CallTimer
  <2>1. NextTimer \in Live
    BY <1>11, NextTimerChosen DEF CallTimer, Expired, Timers, TimerTypes, Live
  <2>2. evList[NextTimer].id # 0
    BY <2>1 DEF UniqueIds, TypeOK
  <2>3. /\ pc' = "cb" /\ back' = "round" /\ firing' = evList[NextTimer].id
        /\ UNCHANGED <<roundNow, now>>
    BY <1>11 DEF CallTimer, scanVars, envVars
  <2>. HIDE DEF NextTimer
  <2>. QED  BY <2>2, <2>3
<1>12. CASE SignalStop
  BY <1>12 DEF SignalStop, StartRound, TypeOK, frameVars, envVars
<1>13. CASE SignalInSelect
  BY <1>13 DEF SignalInSelect, frameVars, envVars
<1>14. CASE \E fd \in Fds : Input(fd)
  BY <1>14 DEF Input, scanVars, frameVars
<1>15. CASE Tick
  <2>1. now' \in Nat /\ now <= now'
    BY <1>15 DEF Tick, TypeOK
  <2>2. UNCHANGED <<pc, back, firing, roundNow>>
    BY <1>15 DEF Tick, scanVars, frameVars
  <2>3. roundNow \in Nat /\ now \in Nat /\ Resolution \in Nat /\ roundNow <= now + Resolution
    BY DEF TypeOK
  <2>4. \A a, b, c, d \in Nat : a <= b + d /\ b <= c => a <= c + d
    OBVIOUS
  <2>5. roundNow <= now' + Resolution
    BY <2>1, <2>3, <2>4
  <2>. QED  BY <2>2, <2>5
<1>16. CASE UNCHANGED vars
  BY <1>16 DEF vars, scanVars, frameVars, envVars
<1>. QED
  BY <1>1, <1>2, <1>3, <1>4, <1>5, <1>6, <1>7, <1>8, <1>9, <1>10, <1>11, <1>12, <1>13, <1>14,
     <1>15, <1>16
     DEF Next, Loop, Interface, Environment

LEMMA InitLoopInv == Init => LoopInv
<1>. SUFFICES ASSUME Init PROVE LoopInv
  OBVIOUS
<1>. USE LoopAssumption DEF Init
<1>1. Slots = {} /\ Live = {} /\ IoSlots = {}
  BY DEF Slots, Live, IoSlots
<1>2. TypeOK
  <2>1. ListTypes
    BY DEF ListTypes, Slots
  <2>2. FlagTypes
    BY DEF FlagTypes
  <2>3. OtherTypes
    BY DEF OtherTypes, PcValues
  <2>. QED  BY <2>1, <2>2, <2>3, TypesSplit
<1>3. UniqueIds /\ DistinctFds /\ DescriptorsWatched
  BY <1>1 DEF UniqueIds, DistinctFds, DescriptorsWatched
<1>4. PhaseOK
  BY DEF PhaseOK
<1>. QED  BY <1>2, <1>3, <1>4 DEF LoopInv

LEMMA LoopInvStep == LoopInv /\ [Next]_vars => LoopInv'
BY TypeStep, EntriesStep, PhaseStep DEF LoopInv

\* The inductive invariant of the loop: types, ids, descriptors and phases are
\* right after any history of callbacks, signals, input and failed
\* allocations, with a list of any size (ypmainloop.c:133-590).
THEOREM LoopInvariance == Spec => []LoopInv
BY InitLoopInv, LoopInvStep, PTL DEF Spec

\* Every polled descriptor is in select_master_set and below select_max_fd
\* (yp_ml_poll_io and yp_ml_remove_event).
THEOREM DescriptorsAlwaysWatched == Spec => []DescriptorsWatched
<1>1. LoopInv => DescriptorsWatched
  BY DEF LoopInv
<1>. QED  BY <1>1, LoopInvariance, PTL

\* Every variable keeps its type, and the phase of the loop is one it has
\* (ypmainloop.c:38-129).
THEOREM LoopTypes == Spec => []TypeOK
<1>1. LoopInv => TypeOK
  BY DEF LoopInv
<1>. QED  BY <1>1, LoopInvariance, PTL

-----------------------------------------------------------------------------
(* No descriptor is watched in vain                                        *)

Watched == masterSet \subseteq {WakeFd} \cup {evList[i].fd : i \in IoSlots}

IoFds == \A i \in IoSlots : evList[i].fd \in Fds

\* Only a removal and the shutdown take a polled descriptor out of the list.
LEMMA IoKept ==
  ASSUME TypeOK, [Next]_vars, ~ \E g \in Groups : RemoveGroup(g), ~SignalInSelect
  PROVE  \A i \in IoSlots : i \in IoSlots' /\ evList'[i].fd = evList[i].fd
<1>. DEFINE Stays == \A i \in IoSlots : i \in IoSlots' /\ evList'[i].fd = evList[i].fd
<1>1. ASSUME \A i \in IoSlots : i \in Live' /\ evList'[i] = evList[i]
      PROVE  Stays
  BY <1>1 DEF IoSlots, Live
<1>2. IoSlots \subseteq Live
  BY DEF IoSlots, Live
<1>3. ASSUME NEW type \in TimerTypes, NEW g \in Groups, NEW d \in Delays,
             NEW optimize \in BOOLEAN, Schedule(type, g, d, optimize)
      PROVE  Stays
  <2>1. PutEntry(TimerEntry(type, g, d, optimize)) /\ TimerEntry(type, g, d, optimize) \in Entry
        /\ TimerEntry(type, g, d, optimize).type # "EMPTY"
    BY <1>3, TimerEntryType DEF Schedule, TimerEntry, TimerTypes
  <2>. QED  BY <1>1, <1>2, <2>1, PutEntryList
<1>4. ASSUME NEW g \in Groups, NEW fd \in Fds, PollIo(g, fd)
      PROVE  Stays
  <2>1. PutEntry(IoEntry(g, fd)) /\ IoEntry(g, fd) \in Entry /\ IoEntry(g, fd).type # "EMPTY"
    BY <1>4, IoEntryType DEF PollIo, IoEntry, NoEvent
  <2>. QED  BY <1>1, <1>2, <2>1, PutEntryList
<1>5. CASE CallTimer
  <2>1. NextTimer \notin IoSlots
    BY <1>5, NextTimerChosen DEF CallTimer, Expired, Timers, TimerTypes, IoSlots
  <2>2. CASE evList[NextTimer].type = "TIMER"
    BY <1>1, <1>2, <1>5, <2>1, <2>2, OneShotList
  <2>3. CASE evList[NextTimer].type # "TIMER"
    BY <1>1, <1>2, <1>5, <2>1, <2>3, PeriodicList
  <2>. QED  BY <2>2, <2>3
<1>6. CASE Prepare
  <2>1. \A i \in IoSlots : i \notin Timers
    BY DEF IoSlots, Timers, TimerTypes
  <2>. QED  BY <1>1, <1>2, <1>6, <2>1, PrepareList
<1>7. UNCHANGED <<used, evList>> => Stays
  BY DEF IoSlots, Slots
<1>8. CASE Stop \/ OutOfMemory \/ Return \/ Run
  BY <1>7, <1>8 DEF Stop, OutOfMemory, Return, Run, listVars
<1>9. CASE Leave \/ SelectReady \/ SelectTimeout \/ CallIo \/ StaleScan \/ Drain \/ RoundDone
  BY <1>7, <1>9 DEF Leave, SelectReady, SelectTimeout, CallIo, StaleScan, Drain, RoundDone, listVars
<1>10. CASE SignalStop \/ Tick \/ (\E fd \in Fds : Input(fd)) \/ UNCHANGED vars
  BY <1>7, <1>10 DEF SignalStop, Tick, Input, vars, listVars
<1>. QED
  BY <1>3, <1>4, <1>5, <1>6, <1>8, <1>9, <1>10 DEF Next, Loop, Interface, Environment

\* What is added to select_master_set has an entry, and an entry that is
\* removed takes its descriptor out of the set.
LEMMA WatchedStep ==
  ASSUME LoopInv, Watched, IoFds, [Next]_vars
  PROVE  Watched' /\ IoFds'
<1>. USE DEF LoopInv
<1>1. ASSUME NEW g \in Groups, RemoveGroup(g)
      PROVE  Watched' /\ IoFds'
  <2>. DEFINE match == Matching(g)
  <2>1. Live' = Live \ match /\ \A i \in Live' : evList'[i] = evList[i]
    BY <1>1, RemoveGroupList
  <2>2. IoSlots' = IoSlots \ match /\ \A i \in IoSlots' : evList'[i] = evList[i]
    <3>1. /\ IoSlots' = {i \in Live' : evList'[i].type = "IO"}
          /\ IoSlots = {i \in Live : evList[i].type = "IO"}
      BY DEF IoSlots, Live
    <3>. QED  BY <2>1, <3>1
  <2>3. masterSet' = masterSet \ {evList[i].fd : i \in match \cap IoSlots}
    BY <1>1 DEF RemoveGroup, Closed
  <2>. HIDE DEF match
  <2>. QED  BY <2>2, <2>3 DEF Watched, IoFds
<1>2. CASE SignalInSelect
  BY <1>2 DEF SignalInSelect, Watched, IoFds, IoSlots, Slots
<1>3. ASSUME NEW g \in Groups, NEW fd \in Fds, PollIo(g, fd),
             \A i \in IoSlots : i \in IoSlots' /\ evList'[i].fd = evList[i].fd
      PROVE  Watched' /\ IoFds'
  <2>. DEFINE e == IoEntry(g, fd)
  <2>1. PutEntry(e) /\ e \in Entry /\ e.type = "IO" /\ e.type # "EMPTY" /\ e.fd = fd
    BY <1>3, IoEntryType DEF PollIo, IoEntry, NoEvent
  <2>. HIDE DEF e
  <2>2. /\ Live' = Live \cup {FreeSlot} /\ evList'[FreeSlot] = e
        /\ \A i \in Live : evList'[i] = evList[i]
    BY <2>1, PutEntryList
  <2>3. IoSlots' = IoSlots \cup {FreeSlot}
    <3>1. /\ IoSlots' = {i \in Live' : evList'[i].type = "IO"}
          /\ IoSlots = {i \in Live : evList[i].type = "IO"}
      BY DEF IoSlots, Live
    <3>. QED  BY <2>1, <2>2, <3>1
  <2>4. masterSet' = masterSet \cup {fd}
    BY <1>3 DEF PollIo
  <2>. QED  BY <1>3, <2>1, <2>2, <2>3, <2>4 DEF Watched, IoFds
<1>4. ASSUME NEW type \in TimerTypes, NEW g \in Groups, NEW d \in Delays,
             NEW optimize \in BOOLEAN, Schedule(type, g, d, optimize),
             \A i \in IoSlots : i \in IoSlots' /\ evList'[i].fd = evList[i].fd
      PROVE  Watched' /\ IoFds'
  <2>. DEFINE e == TimerEntry(type, g, d, optimize)
  <2>1. PutEntry(e) /\ e \in Entry /\ e.type # "IO" /\ e.type # "EMPTY"
    BY <1>4, TimerEntryType DEF Schedule, TimerEntry, TimerTypes
  <2>. HIDE DEF e
  <2>2. /\ Live' = Live \cup {FreeSlot} /\ evList'[FreeSlot] = e
        /\ \A i \in Live : evList'[i] = evList[i]
    BY <2>1, PutEntryList
  <2>3. IoSlots' \subseteq IoSlots
    <3>1. /\ IoSlots' = {i \in Live' : evList'[i].type = "IO"}
          /\ IoSlots = {i \in Live : evList[i].type = "IO"}
      BY DEF IoSlots, Live
    <3>. QED  BY <2>1, <2>2, <3>1
  <2>4. masterSet' = masterSet
    BY <1>4 DEF Schedule, fdVars
  <2>. QED  BY <1>4, <2>3, <2>4 DEF Watched, IoFds
<1>5. ASSUME Kept, UNCHANGED masterSet,
             \A i \in IoSlots : i \in IoSlots' /\ evList'[i].fd = evList[i].fd
      PROVE  Watched' /\ IoFds'
  <2>1. IoSlots' \subseteq IoSlots
    BY <1>5, KeptIds
  <2>. QED  BY <1>5, <2>1 DEF Watched, IoFds
<1>6. ASSUME ~ \E g \in Groups : RemoveGroup(g), ~SignalInSelect,
             ~ \E g \in Groups, fd \in Fds : PollIo(g, fd)
      PROVE  UNCHANGED masterSet
  <2>1. Stop \/ OutOfMemory \/ Return \/ Run => UNCHANGED masterSet
    BY DEF Stop, OutOfMemory, Return, Run, fdVars
  <2>2. Leave \/ Prepare \/ SelectReady \/ SelectTimeout \/ CallIo => UNCHANGED masterSet
    BY DEF Leave, Prepare, SelectReady, SelectTimeout, CallIo, fdVars
  <2>3. StaleScan \/ Drain \/ CallTimer \/ RoundDone => UNCHANGED masterSet
    BY DEF StaleScan, Drain, CallTimer, RoundDone, fdVars
  <2>4. SignalStop \/ Tick \/ (\E fd \in Fds : Input(fd)) \/ UNCHANGED vars => UNCHANGED masterSet
    BY DEF SignalStop, Tick, Input, vars, fdVars
  <2>5. \A type \in TimerTypes, g \in Groups, d \in Delays, optimize \in BOOLEAN :
          Schedule(type, g, d, optimize) => UNCHANGED masterSet
    BY DEF Schedule, fdVars
  <2>. QED  BY <1>6, <2>1, <2>2, <2>3, <2>4, <2>5 DEF Next, Loop, Interface, Environment
<1>. QED
  BY <1>1, <1>2, <1>3, <1>4, <1>5, <1>6, IoKept, KeptByStep

LEMMA AlwaysWatched == Spec => [](Watched /\ IoFds)
<1>1. Init => Watched /\ IoFds
  BY DEF Init, Watched, IoFds, IoSlots, Slots
<1>2. LoopInv /\ (Watched /\ IoFds) /\ [Next]_vars => (Watched /\ IoFds)'
  BY WatchedStep
<1>. QED  BY <1>1, <1>2, LoopInvariance, PTL DEF Spec

\* A descriptor that is watched has an entry, so that no closed descriptor makes
\* select return for ever (yp_ml_remove_event, ypmainloop.c:562-565).
THEOREM NoneWatchedInVain == Spec => []NoOrphanDescriptor
<1>1. Watched => NoOrphanDescriptor
  BY DEF Watched, NoOrphanDescriptor
<1>. QED  BY <1>1, AlwaysWatched, PTL

-----------------------------------------------------------------------------
(* The memory of the list                                                  *)

\* As long as realloc succeeds, the list has the memory it believes to have;
\* what can still go wrong is that it moves under the io scan.
MemoryInv ==
  /\ allocated = capacity /\ used <= capacity
  /\ pc = "undefined" => moved
  /\ moved => (pc = "cb" /\ back = "io") \/ pc \in {"io", "undefined"}
  /\ back = "io" => pc \in {"cb", "undefined"}

LEMMA PutEntryMemory ==
  ASSUME TypeOK, MemoryInv, NEW e, PutEntry(e), UNCHANGED back, pc \in {"cb", "out"}
  PROVE  MemoryInv'
<1>1. FreeSlot \in Nat /\ FreeSlot <= used + 1
  <2>1. CASE Slots \ Live = {}
    BY <2>1 DEF FreeSlot, TypeOK
  <2>2. CASE Slots \ Live # {}
    <3>1. Slots \ Live \in SUBSET Nat
      BY DEF Slots, TypeOK
    <3>2. FreeSlot \in Slots
      BY <2>2, <3>1, LeastOfSlots DEF FreeSlot
    <3>. QED  BY <3>2 DEF Slots, TypeOK
  <2>. QED  BY <2>1, <2>2
<1>2. used \in Nat /\ capacity \in Nat /\ Growth \in Nat \ {0} /\ moved \in BOOLEAN
  BY LoopAssumption DEF TypeOK
<1>3. CASE ListFull
  <2>1. pc' = pc /\ allocated' = capacity' /\ used' <= capacity'
    BY <1>1, <1>2, <1>3 DEF PutEntry, ListFull, MemoryInv
  <2>2. moved' \in {moved, back = "io"}
    BY <1>3 DEF PutEntry
  <2>. QED  BY <1>2, <2>1, <2>2 DEF MemoryInv
<1>4. CASE ~ListFull
  <2>1. ~(FreeSlot > capacity)
    BY <1>1, <1>2, <1>4 DEF ListFull, MemoryInv
  <2>2. pc' = pc /\ UNCHANGED <<allocated, capacity, moved>> /\ used' <= capacity'
    BY <1>1, <1>2, <1>4, <2>1 DEF PutEntry, ListFull, MemoryInv
  <2>. QED  BY <2>2 DEF MemoryInv
<1>. QED  BY <1>3, <1>4

\* Whatever takes entries away never makes the list longer.
LEMMA ListShortens ==
  ASSUME TypeOK, (\E g \in Groups : RemoveGroup(g)) \/ CallTimer
  PROVE  used' \in Nat /\ used' <= used
<1>1. used \in Nat
  BY DEF TypeOK
<1>2. ASSUME NEW g \in Groups, RemoveGroup(g) PROVE used' \in Nat /\ used' <= used
  <2>. DEFINE match == Matching(g)
  <2>1. used' = IF Slots \subseteq match THEN 0 ELSE Greatest(Slots \ match)
    BY <1>2 DEF RemoveGroup
  <2>. HIDE DEF match
  <2>2. ASSUME ~(Slots \subseteq match) PROVE Greatest(Slots \ match) \in Slots
    <3>1. Slots \ match \in SUBSET Nat /\ Slots \ match # {} /\ \A i \in Slots \ match : i <= used
      BY <1>1, <2>2 DEF Slots
    <3>. QED  BY <1>1, <3>1, GreatestNatural
  <2>. QED  BY <1>1, <2>1, <2>2 DEF Slots
<1>3. ASSUME CallTimer PROVE used' \in Nat /\ used' <= used
  <2>. DEFINE left == Live \ {NextTimer}
              keep == IF NextTimer < used THEN used
                      ELSE IF left = {} THEN 0 ELSE Greatest(left)
  <2>1. used' = used \/ used' = keep
    BY <1>3 DEF CallTimer
  <2>2. left \in SUBSET Nat /\ \A i \in left : i <= used
    BY DEF Live, Slots, TypeOK
  <2>3. left # {} => Greatest(left) \in left
    BY <1>1, <2>2, GreatestNatural
  <2>. HIDE DEF left
  <2>4. left # {} => Greatest(left) \in Nat /\ Greatest(left) <= used
    BY <2>2, <2>3
  <2>. QED  BY <1>1, <2>1, <2>4
<1>. QED  BY <1>2, <1>3

LEMMA MemoryStep ==
  ASSUME LoopInv, MemoryInv, ~AllocMayFail, [Next]_vars
  PROVE  MemoryInv'
<1>. USE DEF LoopInv
<1>1. ASSUME NEW type \in TimerTypes, NEW g \in Groups, NEW d \in Delays,
             NEW optimize \in BOOLEAN, Schedule(type, g, d, optimize)
      PROVE  MemoryInv'
  BY <1>1, PutEntryMemory DEF Schedule, Called, frameVars
<1>2. ASSUME NEW g \in Groups, NEW fd \in Fds, PollIo(g, fd)
      PROVE  MemoryInv'
  BY <1>2, PutEntryMemory DEF PollIo, Called, frameVars
<1>3. ASSUME NEW g \in Groups, RemoveGroup(g)
      PROVE  MemoryInv'
  <2>1. used' <= used
    BY <1>3, ListShortens
  <2>2. used' \in Nat /\ used \in Nat /\ capacity \in Nat
    BY <1>3, RemoveGroupList DEF TypeOK
  <2>. QED  BY <1>3, <2>1, <2>2 DEF RemoveGroup, frameVars, MemoryInv
<1>4. CASE CallTimer
  <2>1. used' <= used /\ used \in Nat /\ used' \in Nat /\ capacity \in Nat
    BY <1>4, ListShortens DEF TypeOK
  <2>2. UNCHANGED <<allocated, capacity, moved>> /\ pc = "round" /\ pc' = "cb" /\ back' = "round"
    BY <1>4 DEF CallTimer
  <2>. QED  BY <2>1, <2>2 DEF MemoryInv
<1>5. CASE SignalInSelect
  BY <1>5 DEF SignalInSelect, MemoryInv, frameVars
<1>6. CASE Leave \/ Prepare \/ SelectReady \/ SelectTimeout \/ RoundDone \/ Run
  BY <1>6 DEF Leave, Prepare, SelectReady, SelectTimeout, RoundDone, Run, MemoryInv, listVars,
              frameVars
<1>7. CASE CallIo \/ StaleScan \/ Drain \/ Return
  <2>1. UNCHANGED <<allocated, capacity, used>>
    BY <1>7 DEF CallIo, StaleScan, Drain, Return, listVars
  <2>2. CASE CallIo
    BY <2>1, <2>2 DEF CallIo, MemoryInv
  <2>3. CASE StaleScan
    BY <2>1, <2>3 DEF StaleScan, MemoryInv, frameVars
  <2>4. CASE Drain
    <3>1. pc = "io" /\ pc' \in {"hung", "round"} /\ ~moved' /\ back' = back
      BY <2>4 DEF Drain, frameVars
    <3>. QED  BY <2>1, <3>1 DEF MemoryInv
  <2>5. CASE Return
    BY <2>1, <2>5 DEF Return, MemoryInv, TypeOK
  <2>. QED  BY <1>7, <2>2, <2>3, <2>4, <2>5
<1>8. CASE Stop \/ OutOfMemory \/ UNCHANGED vars
  BY <1>8 DEF Stop, OutOfMemory, vars, MemoryInv, listVars, frameVars
<1>9. CASE SignalStop \/ Tick \/ (\E fd \in Fds : Input(fd))
  BY <1>9 DEF SignalStop, Tick, Input, MemoryInv, listVars, frameVars
<1>. QED
  BY <1>1, <1>2, <1>3, <1>4, <1>5, <1>6, <1>7, <1>8, <1>9 DEF Next, Loop, Interface, Environment

\* The accesses to the list are within its memory, if realloc succeeds, until a
\* scan goes on after it was moved (get_free_entry and yp_ml_run).
OnlyMoved == used <= capacity /\ (pc = "undefined" => moved)

LEMMA MemoryKept ==
  ASSUME ~AllocMayFail PROVE Spec => []MemoryInv
<1>1. Init => MemoryInv
  BY LoopAssumption DEF Init, MemoryInv
<1>2. LoopInv /\ MemoryInv /\ [Next]_vars => MemoryInv'
  BY MemoryStep
<1>. QED  BY <1>1, <1>2, LoopInvariance, PTL DEF Spec

\* With a realloc that succeeds nothing is accessed outside the memory of the
\* list but by the io scan of a list that was moved (ypmainloop.c:197, 357).
THEOREM OnlyMovedListIsLeft ==
  ASSUME ~AllocMayFail PROVE Spec => []OnlyMoved
<1>1. MemoryInv => OnlyMoved
  BY DEF MemoryInv, OnlyMoved
<1>. QED  BY <1>1, MemoryKept, PTL

\* And when only timers are used, there is no such scan: all accesses are within
\* the memory of the list, whatever its size (get_free_entry, ypmainloop.c:333-365).
THEOREM TimersStayInMemory ==
  ASSUME ~AllocMayFail, Fds = {} PROVE Spec => []MemorySafe
<1>. DEFINE Unmoved == ~moved /\ back = "round"
<1>1. Init => Unmoved
  BY DEF Init
<1>2. LoopInv /\ IoFds /\ Unmoved /\ [Next]_vars => Unmoved'
  <2>. SUFFICES ASSUME LoopInv, IoFds, Unmoved, [Next]_vars PROVE Unmoved'
    OBVIOUS
  <2>1. ~CallIo
    BY DEF CallIo, ReadySlots, IoFds
  <2>2. ASSUME NEW e, PutEntry(e) PROVE ~moved'
    BY <2>2 DEF PutEntry
  <2>3. CASE Interface
    <3>1. ASSUME NEW type, NEW g, NEW d, NEW optimize, Schedule(type, g, d, optimize)
          PROVE  Unmoved'
      BY <2>2, <3>1 DEF Schedule, frameVars
    <3>2. ASSUME NEW g, NEW fd, PollIo(g, fd)
          PROVE  Unmoved'
      BY <2>2, <3>2 DEF PollIo, frameVars
    <3>3. ASSUME NEW g, RemoveGroup(g)
          PROVE  Unmoved'
      BY <3>3 DEF RemoveGroup, frameVars
    <3>4. CASE Stop \/ OutOfMemory
      BY <3>4 DEF Stop, OutOfMemory, frameVars
    <3>. QED  BY <2>3, <3>1, <3>2, <3>3, <3>4 DEF Interface
  <2>4. CASE Leave \/ Prepare \/ SelectReady \/ SelectTimeout \/ StaleScan \/ Drain
    BY <2>4 DEF Leave, Prepare, SelectReady, SelectTimeout, StaleScan, Drain, frameVars
  <2>5. CASE CallTimer \/ RoundDone \/ Return \/ Run \/ UNCHANGED vars
    BY <2>5 DEF CallTimer, RoundDone, Return, Run, vars, frameVars
  <2>6. CASE Environment
    BY <2>6 DEF Environment, SignalStop, SignalInSelect, Input, Tick, frameVars
  <2>. QED  BY <2>1, <2>3, <2>4, <2>5, <2>6 DEF Next, Loop
<1>3. MemoryInv /\ Unmoved => MemorySafe
  BY DEF MemoryInv, MemorySafe
<1>4. Spec => []IoFds
  BY AlwaysWatched, PTL
<1>. HIDE DEF Unmoved
<1>. QED  BY <1>1, <1>2, <1>3, <1>4, LoopInvariance, MemoryKept, PTL DEF Spec

\* No more events are armed at a time than the list has room for from the start.
Few == Cardinality(Live) <= InitialSize

\* Then it never grows, and never moves.
FewInv ==
  /\ pc # "undefined" /\ ~moved
  /\ used <= capacity /\ (pc # "end" => capacity = InitialSize /\ InitialSize <= allocated)

\* An entry that makes the list longer follows entries that are all live.
LEMMA PutEntryFew ==
  ASSUME TypeOK, FewInv, Few' \/ allocated' <= InitialSize, NEW e \in Entry, e.type # "EMPTY", PutEntry(e), pc \in {"cb", "out"}
  PROVE  FewInv'
<1>1. /\ used \in Nat /\ allocated \in Nat /\ used <= InitialSize /\ capacity = InitialSize
      /\ InitialSize <= allocated /\ InitialSize \in Nat /\ ~moved
  BY LoopAssumption DEF TypeOK, FewInv
<1>2. CASE Slots \ Live = {}
  <2>1. FreeSlot = used + 1 /\ Live = Slots
    BY <1>2 DEF FreeSlot, Live
  <2>2. Live' = 1..(used + 1)
    <3>1. Live' = Live \cup {FreeSlot}
      BY PutEntryList
    <3>. HIDE DEF FreeSlot
    <3>2. Live' = (1..used) \cup {used + 1}
      BY <2>1, <3>1 DEF Slots
    <3>. HIDE DEF Live
    <3>. QED  BY <1>1, <3>2
  <2>4. used + 1 <= InitialSize
    <3>1. CASE Few'
      <4>1. Cardinality(Live') = used + 1
        BY <1>1, <2>2, FS_Interval
      <4>. QED  BY <3>1, <4>1 DEF Few
    <3>2. CASE allocated' <= InitialSize
      <4>1. Growth \in Nat \ {0}
        BY LoopAssumption
      <4>2. ~ListFull
        BY <1>1, <3>2, <4>1 DEF PutEntry
      <4>. QED  BY <1>1, <2>1, <3>2, <4>2 DEF ListFull, PutEntry
    <3>. QED  BY <3>1, <3>2
  <2>5. ~ListFull /\ ~(FreeSlot > capacity)
    BY <1>1, <2>1, <2>4 DEF ListFull
  <2>6. used' = used + 1 /\ pc' = pc /\ UNCHANGED <<allocated, capacity, moved>>
    BY <1>1, <2>1, <2>5 DEF PutEntry
  <2>. QED  BY <1>1, <2>4, <2>6 DEF FewInv
<1>3. CASE Slots \ Live # {}
  <2>1. Slots \ Live \in SUBSET Nat
    BY DEF Slots, TypeOK
  <2>2. FreeSlot \in Slots
    BY <1>3, <2>1, LeastOfSlots DEF FreeSlot
  <2>3. FreeSlot \in Nat /\ FreeSlot <= used
    BY <1>1, <2>2 DEF Slots
  <2>4. ~ListFull /\ ~(FreeSlot > used) /\ ~(FreeSlot > capacity)
    BY <1>1, <2>3 DEF ListFull
  <2>5. used' = used /\ pc' = pc /\ UNCHANGED <<allocated, capacity, moved>>
    BY <2>4 DEF PutEntry
  <2>. QED  BY <1>1, <2>5 DEF FewInv
<1>. QED  BY <1>2, <1>3

LEMMA FewStep ==
  ASSUME LoopInv, FewInv, Few' \/ allocated' <= InitialSize, [Next]_vars
  PROVE  FewInv'
<1>. USE DEF LoopInv
<1>1. ASSUME NEW type \in TimerTypes, NEW g \in Groups, NEW d \in Delays,
             NEW optimize \in BOOLEAN, Schedule(type, g, d, optimize)
      PROVE  FewInv'
  <2>. DEFINE e == TimerEntry(type, g, d, optimize)
  <2>1. PutEntry(e) /\ e \in Entry /\ e.type # "EMPTY" /\ pc \in {"cb", "out"}
    BY <1>1, TimerEntryType DEF Schedule, Called, TimerEntry, TimerTypes
  <2>. HIDE DEF e
  <2>. QED  BY <2>1, PutEntryFew
<1>2. ASSUME NEW g \in Groups, NEW fd \in Fds, PollIo(g, fd)
      PROVE  FewInv'
  <2>. DEFINE e == IoEntry(g, fd)
  <2>1. PutEntry(e) /\ e \in Entry /\ e.type # "EMPTY" /\ pc \in {"cb", "out"}
    BY <1>2, IoEntryType DEF PollIo, Called, IoEntry, NoEvent
  <2>. HIDE DEF e
  <2>. QED  BY <2>1, PutEntryFew
<1>3. CASE (\E g \in Groups : RemoveGroup(g)) \/ CallTimer
  <2>1. used' \in Nat /\ used' <= used /\ used \in Nat /\ capacity \in Nat
    BY <1>3, ListShortens DEF TypeOK
  <2>2. /\ UNCHANGED <<allocated, capacity, moved>> /\ pc' \in {pc, "cb"} /\ pc' # "undefined"
        /\ pc # "end"
    BY <1>3 DEF RemoveGroup, CallTimer, Called
  <2>. QED  BY <2>1, <2>2 DEF FewInv
<1>4. CASE OutOfMemory
  <2>1. allocated' = allocated + Growth /\ UNCHANGED <<used, capacity, pc, moved>> /\ pc # "end"
    BY <1>4 DEF OutOfMemory, Called
  <2>2. allocated <= allocated + Growth /\ allocated \in Nat /\ Growth \in Nat
        /\ InitialSize \in Nat
    BY LoopAssumption DEF TypeOK
  <2>. QED  BY <2>1, <2>2 DEF FewInv
<1>5. CASE SignalInSelect
  BY <1>5 DEF SignalInSelect, FewInv
<1>6. CASE StaleScan
  BY <1>6 DEF StaleScan, FewInv
<1>7. CASE Return
  BY <1>7 DEF Return, TypeOK, FewInv, listVars
<1>8. CASE Drain
  <2>1. /\ pc # "end" /\ pc' \in {"hung", "round"} /\ ~moved'
        /\ UNCHANGED <<used, allocated, capacity>>
    BY <1>8 DEF Drain, listVars
  <2>. QED  BY <2>1 DEF FewInv
<1>9. CASE Leave \/ Prepare \/ SelectReady \/ SelectTimeout \/ CallIo \/ RoundDone \/ Run
  BY <1>9 DEF Leave, Prepare, SelectReady, SelectTimeout, CallIo, RoundDone, Run, FewInv, listVars
<1>10. CASE Stop \/ SignalStop \/ Tick \/ (\E fd \in Fds : Input(fd)) \/ UNCHANGED vars
  BY <1>10 DEF Stop, SignalStop, Tick, Input, vars, FewInv, listVars
<1>. QED
  BY <1>1, <1>2, <1>3, <1>4, <1>5, <1>6, <1>7, <1>8, <1>9, <1>10
     DEF Next, Loop, Interface, Environment

\* As long as no more events are armed at a time than the list has room for from the
\* start, it is never read or written outside its memory, descriptors or not, and
\* whether or not realloc would succeed (ypmainloop.c:43, 333-365).
THEOREM FewEventsStayInMemory == Spec /\ []Few => []MemorySafe
<1>1. Init => FewInv
  BY LoopAssumption DEF Init, FewInv
<1>2. LoopInv /\ FewInv /\ Few' /\ [Next]_vars => FewInv'
  BY FewStep
<1>3. FewInv => MemorySafe
  BY DEF FewInv, MemorySafe
<1>. QED  BY <1>1, <1>2, <1>3, LoopInvariance, PTL DEF Spec

\* Only the end of the loop gives memory back.
LEMMA AllocatedGrows ==
  ASSUME LoopInv, [Next]_vars
  PROVE  \/ pc # "end" /\ pc' # "end" /\ allocated \in Nat /\ allocated <= allocated'
         \/ pc' = "end" /\ (used' <= capacity' \/ (pc = "end" /\ UNCHANGED <<used, capacity>>))
<1>1. allocated \in Nat /\ Growth \in Nat
  BY LoopAssumption DEF LoopInv, TypeOK
<1>2. CASE Interface
  <2>1. pc # "end" /\ pc' # "end" /\ allocated' \in {allocated, allocated + Growth}
    <3>1. ASSUME NEW e, PutEntry(e), Called
          PROVE  pc # "end" /\ pc' # "end" /\ allocated' \in {allocated, allocated + Growth}
      BY <3>1 DEF PutEntry, Called
    <3>2. CASE \E type \in TimerTypes, g \in Groups, d \in Delays, optimize \in BOOLEAN :
                 Schedule(type, g, d, optimize)
      BY <3>1, <3>2, Zenon DEF Schedule
    <3>3. CASE \E g \in Groups, fd \in Fds : PollIo(g, fd)
      BY <3>1, <3>3, Zenon DEF PollIo
    <3>4. CASE (\E g \in Groups : RemoveGroup(g)) \/ Stop \/ OutOfMemory
      BY <3>4 DEF RemoveGroup, Stop, OutOfMemory, Called, listVars
    <3>. QED  BY <1>2, <3>2, <3>3, <3>4 DEF Interface
  <2>. QED  BY <1>1, <2>1
<1>3. CASE Loop \/ Return \/ Run
  <2>1. pc # "end" /\ pc' # "end" /\ allocated' = allocated
    BY <1>3 DEF Loop, Leave, Prepare, SelectReady, SelectTimeout, CallIo, StaleScan, Drain,
       CallTimer, RoundDone, Return, Run, listVars, LoopInv, PhaseOK, TypeOK
  <2>. QED  BY <1>1, <2>1
<1>4. CASE SignalInSelect
  BY <1>4 DEF SignalInSelect
<1>5. CASE SignalStop \/ (\E fd \in Fds : Input(fd)) \/ Tick \/ UNCHANGED vars
  <2>1. allocated' = allocated /\ UNCHANGED <<used, capacity>> /\ (pc' = "end" <=> pc = "end")
    BY <1>5 DEF SignalStop, Input, Tick, vars, listVars
  <2>. QED  BY <1>1, <2>1
<1>. QED  BY <1>2, <1>3, <1>4, <1>5 DEF Next, Environment

UngrownInv == IF pc = "end" THEN used <= capacity ELSE allocated <= InitialSize => FewInv

\* Until the list has to grow nothing is read or written outside its memory,
\* descriptors or not, and whether or not realloc would fail (SafeUntilGrown,
\* get_free_entry, ypmainloop.c:333-370).
THEOREM UngrownStaysInMemory == Spec => []SafeUntilGrown
<1>1. Init => UngrownInv
  BY LoopAssumption DEF Init, FewInv, UngrownInv
<1>2. LoopInv /\ UngrownInv /\ [Next]_vars => UngrownInv'
  <2>. SUFFICES ASSUME LoopInv, UngrownInv, [Next]_vars PROVE UngrownInv'
    OBVIOUS
  <2>1. CASE pc # "end" /\ pc' # "end" /\ allocated \in Nat /\ allocated <= allocated'
    <3>1. ASSUME allocated' <= InitialSize PROVE FewInv'
      <4>1. allocated \in Nat /\ allocated' \in Nat /\ InitialSize \in Nat
        BY LoopAssumption, LoopInvStep DEF LoopInv, TypeOK
      <4>2. allocated <= InitialSize
        BY <2>1, <3>1, <4>1
      <4>. QED  BY <2>1, <3>1, <4>2, FewStep DEF UngrownInv
    <3>. QED  BY <2>1, <3>1 DEF UngrownInv
  <2>2. CASE pc' = "end" /\ (used' <= capacity' \/ (pc = "end" /\ UNCHANGED <<used, capacity>>))
    BY <2>2 DEF UngrownInv
  <2>. QED  BY <2>1, <2>2, AllocatedGrows
<1>3. LoopInv /\ UngrownInv => SafeUntilGrown
  BY DEF UngrownInv, FewInv, SafeUntilGrown, MemorySafe
<1>. QED  BY <1>1, <1>2, <1>3, LoopInvariance, PTL DEF Spec

-----------------------------------------------------------------------------
(* The refinement                                                          *)

\* The armed timers are the live timer slots.
LEMMA ArmedTimers ==
  ASSUME TypeOK
  PROVE  ES!Timers = {EventOf(evList[i]) : i \in Timers}
<1>1. Timers = {i \in Live : evList[i].type \in TimerTypes}
  BY DEF Timers, Live, TimerTypes
<1>2. \A i \in Live : EventOf(evList[i]).kind = evList[i].type
  BY DEF EventOf
<1>. QED  BY <1>1, <1>2 DEF ES!Timers, ES!TimerKinds, Armed, TimerTypes

\* The armed io events are the live io slots.
LEMMA ArmedIo ==
  ASSUME TypeOK
  PROVE  ES!IoEvents = {EventOf(evList[i]) : i \in IoSlots}
<1>1. IoSlots = {i \in Live : evList[i].type = "IO"}
  BY DEF IoSlots, Live
<1>2. \A i \in Live : EventOf(evList[i]).kind = evList[i].type
  BY DEF EventOf
<1>. QED  BY <1>1, <1>2 DEF ES!IoEvents, Armed

LEMMA IoAheadOf == IoAhead = {i \in Live : evList[i].type = "IO" /\ i >= ioSlot}
BY DEF IoAhead, IoSlots, Live

\* An id of Turn belongs to one timer that is not marked.
LEMMA TurnOf ==
  ASSUME UniqueIds, NEW i \in Timers, evList[i].id \in Turn
  PROVE  ~evList[i].processed
BY DEF Turn, UniqueIds, Timers, Live, TimerTypes

\* Arming an event.
LEMMA ScheduleArms ==
  ASSUME TypeOK, NEW type \in TimerTypes, NEW g \in Groups, NEW d \in Delays,
         NEW optimize \in BOOLEAN, Schedule(type, g, d, optimize)
  PROVE  ES!ArmTimer(type, g, d)
<1>. DEFINE e == TimerEntry(type, g, d, optimize)
            x == FirstExpire(PeriodicRefs, d, optimize, now)
<1>1. PutEntry(e) /\ e \in Entry /\ e.type \in TimerTypes /\ e.type # "EMPTY" /\ e.processed
  BY TimerEntryType DEF Schedule, TimerEntry, TimerTypes
<1>2. EventOf(e) = ES!Event(type, eventIdMax + 1, g, 0, d, x)
  BY DEF EventOf, TimerEntry, ES!Event
<1>3. x \in now..(now + d) /\ (type = "TIMER" => x = now + d)
  BY NewExpiry DEF Schedule
<1>4. eventIdMax' = eventIdMax + 1 /\ UNCHANGED <<firing, now>>
  BY <1>1 DEF PutEntry, Schedule, frameVars, envVars
<1>. HIDE DEF e, x
<1>5. /\ FreeSlot \notin Live /\ Live' = Live \cup {FreeSlot} /\ evList'[FreeSlot] = e
      /\ \A i \in Live : evList'[i] = evList[i]
  BY <1>1, PutEntryList
<1>6. Armed' = Armed \cup {EventOf(e)}
  BY <1>5 DEF Armed
<1>7. Turn' = Turn
  <2>1. /\ Turn = {evList[i].id : i \in {j \in Live : evList[j].type \in TimerTypes /\ ~evList[j].processed}}
        /\ Turn' = {evList'[i].id : i \in {j \in Live' : evList'[j].type \in TimerTypes /\ ~evList'[j].processed}}
    BY DEF Turn, Timers, Live, TimerTypes
  <2>2. {j \in Live' : evList'[j].type \in TimerTypes /\ ~evList'[j].processed}
          = {j \in Live : evList[j].type \in TimerTypes /\ ~evList[j].processed}
    BY <1>1, <1>5
  <2>. QED  BY <1>5, <2>1, <2>2
<1>8. IoTurn' = IoTurn
  <2>1. pc \in {"cb", "out"} /\ pc' \in {pc, "undefined"} /\ UNCHANGED <<back, ioSlot>>
    BY <1>1 DEF PutEntry, Schedule, Called, frameVars, scanVars
  <2>2. IoAhead' = IoAhead /\ \A i \in IoAhead : evList'[i].id = evList[i].id
    BY <1>1, <1>5, <2>1 DEF IoAhead, IoSlots, Live, TimerTypes
  <2>. QED  BY <2>1, <2>2 DEF IoTurn
<1>. QED  BY <1>2, <1>3, <1>4, <1>6, <1>7, <1>8 DEF ES!ArmTimer

LEMMA PollArms ==
  ASSUME TypeOK, NEW g \in Groups, NEW fd \in Fds, PollIo(g, fd)
  PROVE  ES!ArmIo(g, fd)
<1>. DEFINE e == IoEntry(g, fd)
<1>1. PutEntry(e) /\ e \in Entry /\ e.type = "IO" /\ e.type # "EMPTY" /\ e.type \notin TimerTypes
  BY IoEntryType DEF PollIo, IoEntry, NoEvent, TimerTypes
<1>2. EventOf(e) = ES!Event("IO", eventIdMax + 1, g, fd, 0, 0)
  BY DEF EventOf, IoEntry, NoEvent, ES!Event
<1>4. eventIdMax' = eventIdMax + 1 /\ UNCHANGED <<firing, now>>
  BY <1>1 DEF PutEntry, PollIo, frameVars, envVars
<1>. HIDE DEF e
<1>5. /\ FreeSlot \notin Live /\ Live' = Live \cup {FreeSlot} /\ evList'[FreeSlot] = e
      /\ \A i \in Live : evList'[i] = evList[i]
  BY <1>1, PutEntryList
<1>6. Armed' = Armed \cup {EventOf(e)}
  BY <1>5 DEF Armed
<1>7. Turn' = Turn
  <2>1. /\ Turn = {evList[i].id : i \in {j \in Live : evList[j].type \in TimerTypes /\ ~evList[j].processed}}
        /\ Turn' = {evList'[i].id : i \in {j \in Live' : evList'[j].type \in TimerTypes /\ ~evList'[j].processed}}
    BY DEF Turn, Timers, Live, TimerTypes
  <2>2. {j \in Live' : evList'[j].type \in TimerTypes /\ ~evList'[j].processed}
          = {j \in Live : evList[j].type \in TimerTypes /\ ~evList[j].processed}
    BY <1>1, <1>5
  <2>. QED  BY <1>5, <2>1, <2>2
<1>8. IoTurn' \in {IoTurn, IoTurn \cup {eventIdMax + 1}}
  <2>1. pc \in {"cb", "out"} /\ pc' \in {pc, "undefined"} /\ UNCHANGED <<back, ioSlot>>
    BY <1>1 DEF PutEntry, PollIo, Called, frameVars, scanVars
  <2>2. IoAhead' \in {IoAhead, IoAhead \cup {FreeSlot}}
    BY <1>1, <1>5, <2>1, IoAheadOf DEF IoAhead, IoSlots, Live
  <2>3. evList'[FreeSlot].id = eventIdMax + 1 /\ \A i \in IoAhead : evList'[i].id = evList[i].id
    BY <1>2, <1>5, IoAheadOf DEF EventOf, ES!Event
  <2>. HIDE DEF FreeSlot
  <2>. QED  BY <2>1, <2>2, <2>3 DEF IoTurn
<1>. QED  BY <1>2, <1>4, <1>6, <1>7, <1>8 DEF ES!ArmIo

\* Removing a group cancels its events and takes them out of the pass.
LEMMA RemoveCancels ==
  ASSUME TypeOK, UniqueIds, NEW g \in Groups, RemoveGroup(g)
  PROVE  ES!Cancel(g)
<1>1. Live' = Live \ Matching(g) /\ \A i \in Live' : evList'[i] = evList[i]
  BY RemoveGroupList
<1>2. \A i \in Live : EventOf(evList[i]).group = evList[i].group /\ EventOf(evList[i]).id = evList[i].id
  BY DEF EventOf
<1>3. Armed' = {e \in Armed : e.group # g}
  BY <1>1, <1>2 DEF Armed, Matching
<1>4. Turn' = {i \in Turn : \E e \in Armed' : e.id = i}
  <2>. DEFINE T == {j \in Live : evList[j].type \in TimerTypes /\ ~evList[j].processed}
  <2>1. /\ Turn = {evList[i].id : i \in T}
        /\ Turn' = {evList'[i].id : i \in {j \in Live' : evList'[j].type \in TimerTypes /\ ~evList'[j].processed}}
    BY DEF Turn, Timers, Live, TimerTypes
  <2>2. Turn' = {evList[i].id : i \in T \ Matching(g)}
    BY <1>1, <2>1
  <2>3. ASSUME NEW i \in T
        PROVE  (\E e \in Armed' : e.id = evList[i].id) <=> i \notin Matching(g)
    <3>1. (\E e \in Armed' : e.id = evList[i].id)
            <=> \E j \in Live \ Matching(g) : evList[j].id = evList[i].id
      BY <1>1, <1>2 DEF Armed
    <3>. QED  BY <3>1 DEF UniqueIds
  <2>. HIDE DEF T
  <2>. QED  BY <2>1, <2>2, <2>3
<1>5. UNCHANGED <<firing, eventIdMax, now>>
  BY DEF RemoveGroup, frameVars, envVars
<1>6. IoTurn' = {i \in IoTurn : \E e \in Armed' : e.id = i}
  <2>1. UNCHANGED <<pc, back, ioSlot>>
    BY DEF RemoveGroup, frameVars, scanVars
  <2>2. IoAhead' = IoAhead \ Matching(g) /\ \A i \in IoAhead' : evList'[i] = evList[i]
    BY <1>1, <2>1, IoAheadOf DEF IoAhead, IoSlots, Live
  <2>3. ASSUME NEW i \in IoAhead
        PROVE  (\E e \in Armed' : e.id = evList[i].id) <=> i \notin Matching(g)
    <3>1. (\E e \in Armed' : e.id = evList[i].id)
            <=> \E j \in Live \ Matching(g) : evList[j].id = evList[i].id
      BY <1>1, <1>2 DEF Armed
    <3>. QED  BY <3>1, IoAheadOf DEF UniqueIds
  <2>. QED  BY <2>1, <2>2, <2>3 DEF IoTurn
<1>. QED  BY <1>3, <1>4, <1>5, <1>6 DEF ES!Cancel, ES!StillArmed

\* A new pass gives every armed timer its turn.
LEMMA PrepareStarts ==
  ASSUME TypeOK, PhaseOK, Prepare
  PROVE  ES!StartPass
<1>1. firing = 0 /\ UNCHANGED <<firing, eventIdMax, now>>
  BY DEF Prepare, PhaseOK, frameVars, envVars
<1>2. Live' = Live /\ Timers' = Timers
  BY PrepareList
<1>3. \A i \in Live : evList[i] \in Entry
  BY DEF Live, TypeOK
<1>4. \A i \in Live : EventOf(evList'[i]) = EventOf(evList[i]) /\ evList'[i].id = evList[i].id
                      /\ (i \in Timers => ~evList'[i].processed)
  <2>1. \A e \in Entry : LET f == [e EXCEPT !.processed = FALSE]
                         IN  EventOf(f) = EventOf(e) /\ f.id = e.id /\ ~f.processed
    BY DEF Entry, EventOf
  <2>. QED  BY <1>3, <2>1, PrepareList
<1>5. Armed' = Armed
  BY <1>2, <1>4 DEF Armed
<1>6. Turn' = {evList[i].id : i \in Timers}
  <2>1. Timers \subseteq Live
    BY DEF Timers, Live, TimerTypes
  <2>. QED  BY <1>2, <1>4, <2>1 DEF Turn
<1>7. {e.id : e \in ES!Timers} = {evList[i].id : i \in Timers}
  <2>1. \A i \in Timers : EventOf(evList[i]).id = evList[i].id
    BY DEF EventOf
  <2>. QED  BY <2>1, ArmedTimers
<1>8. IoTurn' \subseteq {e.id : e \in ES!IoEvents}
  <2>1. IoTurn' \subseteq {evList'[i].id : i \in IoAhead'}
    BY DEF IoTurn
  <2>2. IoAhead' \subseteq Live
    BY <1>2 DEF IoAhead, IoSlots, Live
  <2>3. \A i \in IoAhead' : i \in IoSlots /\ evList'[i].id = EventOf(evList[i]).id
    <3>1. ASSUME NEW i \in IoAhead' PROVE i \in IoSlots /\ evList'[i].id = EventOf(evList[i]).id
      <4>1. i \in Live /\ evList'[i].type = "IO"
        BY <2>2 DEF IoAhead, IoSlots
      <4>2. EventOf(evList'[i]).kind = "IO" /\ EventOf(evList'[i]).id = evList'[i].id
            /\ EventOf(evList[i]).kind = evList[i].type
        BY <4>1 DEF EventOf
      <4>. QED  BY <1>4, <4>1, <4>2 DEF IoSlots, Live
    <3>. QED  BY <3>1
  <2>. QED  BY <2>1, <2>3, ArmedIo
<1>. QED  BY <1>1, <1>5, <1>6, <1>7, <1>8 DEF ES!StartPass

\* The timer the loop calls has its turn, has expired, and no timer that has
\* its turn expires earlier.
LEMMA TimerCallAllowed ==
  ASSUME TypeOK, UniqueIds, PhaseOK, CallTimer, NEW e, e = EventOf(evList[NextTimer])
  PROVE  /\ e \in ES!Timers /\ e.id \in Turn /\ e.id = evList[NextTimer].id
         /\ firing = 0 /\ IoTurn = {} /\ e.expire <= now + Resolution
         /\ \A f \in ES!Timers : f.id \in Turn => e.expire <= f.expire
<1>. DEFINE t == NextTimer
<1>1. t \in Expired /\ \A j \in Expired : evList[t].expire <= evList[j].expire
  BY NextTimerChosen DEF CallTimer
<1>2. t \in Timers /\ ~evList[t].processed /\ evList[t].expire <= roundNow
  BY <1>1 DEF Expired
<1>3. e.id = evList[t].id /\ e.expire = evList[t].expire /\ e.kind = evList[t].type
  BY DEF EventOf
<1>. HIDE DEF t
<1>4. e \in ES!Timers
  BY <1>2, ArmedTimers DEF t
<1>5. e.id \in Turn
  BY <1>2, <1>3 DEF Turn
<1>6. \A i \in Timers : evList[i].expire \in Nat
  BY DEF Timers, TypeOK, Entry
<1>7. e.expire <= now + Resolution
  BY <1>2, <1>3, <1>6, LoopAssumption DEF PhaseOK, TypeOK
<1>8. ASSUME NEW f \in ES!Timers, f.id \in Turn
      PROVE  e.expire <= f.expire
  <2>1. PICK i \in Timers : f = EventOf(evList[i])
    BY ArmedTimers
  <2>2. f.id = evList[i].id /\ f.expire = evList[i].expire
    BY <2>1 DEF EventOf
  <2>3. ~evList[i].processed
    BY <1>8, <2>2, TurnOf
  <2>4. CASE evList[i].expire <= roundNow
    BY <1>1, <1>3, <2>2, <2>3, <2>4 DEF Expired
  <2>5. CASE ~(evList[i].expire <= roundNow)
    BY <1>2, <1>3, <1>6, <2>2, <2>5 DEF TypeOK
  <2>. QED  BY <2>4, <2>5
<1>9. firing = 0 /\ IoTurn = {}
  BY DEF CallTimer, PhaseOK, IoTurn
<1>. QED  BY <1>3, <1>4, <1>5, <1>7, <1>8, <1>9 DEF t

\* Calling a timer: a one-shot timer is disarmed, a periodic one moves on.
LEMMA TimerCalled ==
  ASSUME TypeOK, UniqueIds, PhaseOK, CallTimer
  PROVE  ES!CallTimer(EventOf(evList[NextTimer]))
<1>. DEFINE t == NextTimer
            e == EventOf(evList[t])
            T == {j \in Live : evList[j].type \in TimerTypes /\ ~evList[j].processed}
<1>1. firing' = evList[t].id /\ UNCHANGED <<IoTurn, eventIdMax, now>>
  BY DEF CallTimer, PhaseOK, IoTurn, envVars
<1>2. t \in T /\ t \in Live
  BY NextTimerChosen DEF CallTimer, Expired, Timers, Live, TimerTypes
<1>3. /\ Turn = {evList[i].id : i \in T}
      /\ Turn' = {evList'[i].id : i \in {j \in Live' : evList'[j].type \in TimerTypes /\ ~evList'[j].processed}}
  BY DEF Turn, Timers, Live, TimerTypes
<1>4. \A i, j \in Live : EventOf(evList[i]) = EventOf(evList[j]) => i = j
  <2>1. \A i \in Live : EventOf(evList[i]).id = evList[i].id
    BY DEF EventOf
  <2>. QED  BY <2>1 DEF UniqueIds
<1>5. e.kind = evList[t].type /\ e.id = evList[t].id
  BY DEF EventOf
<1>. HIDE DEF t
<1>6. CASE evList[t].type = "TIMER"
  <2>1. Live' = Live \ {t} /\ \A i \in Live' : evList'[i] = evList[i]
    BY <1>6, OneShotList DEF t
  <2>2. Armed' = Armed \ {e}
    BY <1>2, <1>4, <2>1 DEF Armed
  <2>3. Turn' = Turn \ {evList[t].id}
    <3>1. Turn' = {evList[i].id : i \in T \ {t}}
      BY <1>3, <2>1
    <3>2. \A i \in T \ {t} : evList[i].id # evList[t].id
      BY <1>2 DEF UniqueIds
    <3>. HIDE DEF T
    <3>. QED  BY <1>2, <1>3, <3>1, <3>2
  <2>4. e.kind # "PTIMER"
    BY <1>5, <1>6
  <2>. HIDE DEF e, T
  <2>. QED  BY <1>1, <1>5, <2>2, <2>3, <2>4, TimerCallAllowed DEF ES!CallTimer, e, t
<1>7. CASE evList[t].type # "TIMER"
  <2>. DEFINE e2 == [e EXCEPT !.expire = e.expire + e.interval]
  <2>1. /\ Live' = Live /\ evList[t].type = "PTIMER"
        /\ \A i \in Live \ {t} : evList'[i] = evList[i]
        /\ evList'[t] = [evList[t] EXCEPT !.processed = TRUE,
                           !.expire = evList[t].expire + evList[t].interval]
    BY <1>7, PeriodicList DEF t
  <2>2. EventOf(evList'[t]) = e2 /\ evList'[t].processed
    <3>1. evList[t] \in Entry
      BY <1>2 DEF TypeOK, Live
    <3>2. ASSUME NEW y \in Entry, NEW x
          PROVE  LET f == [y EXCEPT !.processed = TRUE, !.expire = x]
                 IN  f.processed = TRUE /\ EventOf(f) = [EventOf(y) EXCEPT !.expire = x]
      BY DEF Entry, EventOf
    <3>3. e.expire = evList[t].expire /\ e.interval = evList[t].interval
      BY DEF EventOf
    <3>. DEFINE x == evList[t].expire + evList[t].interval
    <3>4. evList'[t] = [evList[t] EXCEPT !.processed = TRUE, !.expire = x]
      BY <2>1
    <3>5. e2 = [EventOf(evList[t]) EXCEPT !.expire = x]
      BY <3>3
    <3>. HIDE DEF x, e2
    <3>6. evList'[t].processed = TRUE
      BY <3>1, <3>2, <3>4
    <3>7. EventOf([evList[t] EXCEPT !.processed = TRUE, !.expire = x])
            = [EventOf(evList[t]) EXCEPT !.expire = x]
      BY <3>1, <3>2
    <3>8. EventOf(evList'[t]) = e2
      BY <3>4, <3>5, <3>7
    <3>. QED  BY <3>6, <3>8
  <2>3. Armed' = (Armed \ {e}) \cup {e2}
    BY <1>2, <1>4, <2>1, <2>2 DEF Armed
  <2>4. Turn' = Turn \ {evList[t].id}
    <3>1. {j \in Live' : evList'[j].type \in TimerTypes /\ ~evList'[j].processed} = T \ {t}
      BY <2>1, <2>2
    <3>3. Turn' = {evList[i].id : i \in T \ {t}}
      BY <1>3, <2>1, <3>1
    <3>2. \A i \in T \ {t} : evList[i].id # evList[t].id
      BY <1>2 DEF UniqueIds
    <3>. HIDE DEF T
    <3>. QED  BY <1>2, <1>3, <3>2, <3>3
  <2>5. e.kind = "PTIMER"
    BY <1>5, <2>1
  <2>. HIDE DEF T
  <2>. QED  BY <1>1, <1>5, <2>3, <2>4, <2>5, TimerCallAllowed DEF ES!CallTimer, t
<1>. QED  BY <1>6, <1>7 DEF t

\* An io entry that is called is armed, and the scan does not come back to it.
LEMMA IoCalled ==
  ASSUME TypeOK, UniqueIds, PhaseOK, CallIo
  PROVE  \E e \in ES!IoEvents : ES!CallIo(e)
<1>. DEFINE i == Least(ReadySlots)
            e == EventOf(evList[i])
<1>1. ReadySlots \in SUBSET Nat /\ ReadySlots # {}
  BY DEF CallIo, ReadySlots, IoSlots, Slots, TypeOK
<1>2. i \in ReadySlots
  BY <1>1, LeastOfSlots
<1>3. i \in IoAhead /\ i \in Live /\ i \in Nat
  BY <1>1, <1>2 DEF ReadySlots, IoAhead, IoSlots, Live
<1>4. e \in ES!IoEvents
  BY <1>3, ArmedIo DEF IoAhead
<1>5. e.id = evList[i].id
  BY DEF EventOf
<1>6. /\ pc = "io" /\ firing = 0 /\ firing' = evList[i].id
      /\ back' = "io" /\ ioSlot' = i + 1 /\ UNCHANGED <<listVars, now>>
  BY DEF CallIo, PhaseOK
<1>7. UNCHANGED <<Armed, Turn, IoSlots, eventIdMax>>
  BY <1>6 DEF listVars, Armed, Turn, Live, Timers, IoSlots, Slots
<1>. HIDE DEF e, i
<1>8. e.id \in IoTurn
  BY <1>3, <1>5, <1>6 DEF IoTurn
<1>9. IoTurn' \subseteq IoTurn \ {e.id}
  <2>1. IoAhead' \subseteq IoAhead \ {i} /\ IoAhead \subseteq Live
    BY <1>3, <1>6, <1>7 DEF IoAhead, IoSlots, Live, Slots, TypeOK
  <2>2. \A j \in IoAhead' : evList[j].id # evList[i].id
    BY <1>3, <2>1 DEF UniqueIds
  <2>3. IoTurn' = {evList[j].id : j \in IoAhead'} /\ IoTurn = {evList[j].id : j \in IoAhead}
    BY <1>6 DEF IoTurn, listVars
  <2>. QED  BY <1>5, <2>1, <2>2, <2>3
<1>. QED  BY <1>4, <1>5, <1>6, <1>7, <1>8, <1>9 DEF ES!CallIo

\* Every step of the loop, its callbacks and its surroundings is a step of
\* EventSet, or one it does not see.
LEMMA StepRefines ==
  ASSUME LoopInv, [Next]_vars
  PROVE  [ES!Next]_ES!vars
<1>. USE DEF LoopInv
<1>1. ASSUME NEW type \in TimerTypes, NEW g \in Groups, NEW d \in Delays,
             NEW optimize \in BOOLEAN, Schedule(type, g, d, optimize)
      PROVE  ES!Next
  <2>1. type \in ES!TimerKinds
    BY DEF TimerTypes, ES!TimerKinds
  <2>. QED  BY <1>1, <2>1, ScheduleArms DEF ES!Next
<1>2. ASSUME NEW g \in Groups, NEW fd \in Fds, PollIo(g, fd)
      PROVE  ES!Next
  BY <1>2, PollArms DEF ES!Next
<1>3. ASSUME NEW g \in Groups, RemoveGroup(g)
      PROVE  ES!Next
  BY <1>3, RemoveCancels DEF ES!Next
<1>4. CASE Prepare
  BY <1>4, PrepareStarts DEF ES!Next
<1>5. CASE CallTimer
  <2>. DEFINE e == EventOf(evList[NextTimer])
  <2>1. ES!CallTimer(e)
    BY <1>5, TimerCalled
  <2>2. e \in ES!Timers
    BY <1>5, TimerCallAllowed
  <2>. HIDE DEF e
  <2>. QED  BY <2>1, <2>2 DEF ES!Next
<1>6. CASE CallIo
  BY <1>6, IoCalled DEF ES!Next
<1>7. CASE Return
  <2>1. /\ firing # 0 /\ firing' = 0 /\ UNCHANGED <<listVars, ioSlot, now>>
        /\ pc = "cb" /\ pc' = back /\ back' = "round" /\ back \in {"io", "round"}
    BY <1>7 DEF Return, PhaseOK, TypeOK, scanVars, envVars
  <2>2. UNCHANGED <<Armed, Turn, IoAhead, eventIdMax>>
    BY <2>1 DEF listVars, Armed, Turn, IoAhead, IoSlots, Live, Timers, Slots
  <2>3. UNCHANGED IoTurn
    BY <2>1, <2>2 DEF IoTurn, listVars
  <2>. QED  BY <2>1, <2>2, <2>3 DEF ES!Return, ES!Next
<1>8. CASE SignalInSelect
  <2>1. Live' = {} /\ Timers' = {}
    BY <1>8 DEF SignalInSelect, Live, Timers, Slots
  <2>2. Armed' = {} /\ Turn' = {} /\ IoTurn' = {}
    BY <1>8, <2>1 DEF SignalInSelect, PhaseOK, Armed, Turn, IoTurn, frameVars
  <2>3. firing = 0 /\ eventIdMax' = 0 /\ UNCHANGED <<firing, now>>
    BY <1>8 DEF SignalInSelect, PhaseOK, frameVars, envVars
  <2>. QED  BY <2>2, <2>3 DEF ES!Clear, ES!Next
<1>9. CASE Tick
  <2>1. now' \in Nat /\ now' > now
    BY <1>9 DEF Tick, TypeOK
  <2>2. UNCHANGED <<listVars, firing, pc, back, ioSlot>>
    BY <1>9 DEF Tick, scanVars, frameVars
  <2>3. UNCHANGED <<Armed, Turn, IoTurn, eventIdMax>>
    BY <2>2 DEF listVars, Armed, Turn, IoTurn, IoAhead, IoSlots, Live, Timers, Slots
  <2>. QED  BY <2>1, <2>2, <2>3 DEF ES!Tick, ES!Next
<1>10. CASE SelectTimeout \/ StaleScan \/ Drain
  <2>1. /\ firing = 0 /\ UNCHANGED <<listVars, firing, now>>
        /\ back' = "round" /\ pc' \in {"round", "hung", "undefined"}
    BY <1>10 DEF SelectTimeout, StaleScan, Drain, PhaseOK, TypeOK, frameVars, envVars
  <2>2. IoTurn' = {} /\ UNCHANGED <<Armed, Turn, eventIdMax>>
    BY <2>1 DEF listVars, Armed, Turn, IoTurn, Live, Timers, Slots
  <2>. QED  BY <2>1, <2>2 DEF ES!EndIo, ES!Next
<1>11. ASSUME UNCHANGED <<evList, used, eventIdMax, firing, now, ioSlot, back>>,
              pc = pc' \/ (pc \notin {"select", "io"} /\ pc' \notin {"select", "io"})
                       \/ (pc \in {"select", "io"} /\ pc' \in {"select", "io"})
       PROVE  UNCHANGED ES!vars
  <2>1. UNCHANGED <<Armed, Turn, IoAhead>>
    BY <1>11 DEF Armed, Turn, IoAhead, IoSlots, Live, Timers, Slots
  <2>. QED  BY <1>11, <2>1 DEF ES!vars, IoTurn
<1>12. CASE Stop \/ OutOfMemory \/ Run
  BY <1>11, <1>12 DEF Stop, OutOfMemory, Run, listVars, scanVars, frameVars, envVars
<1>13. CASE Leave \/ SelectReady \/ RoundDone
  BY <1>11, <1>13 DEF Leave, SelectReady, RoundDone, listVars, scanVars, frameVars, envVars
<1>14. CASE SignalStop \/ (\E fd \in Fds : Input(fd)) \/ UNCHANGED vars
  BY <1>11, <1>14 DEF SignalStop, Input, vars, listVars, scanVars, frameVars, envVars
<1>. QED
  BY <1>1, <1>2, <1>3, <1>4, <1>5, <1>6, <1>7, <1>8, <1>9, <1>10, <1>12, <1>13, <1>14
     DEF Next, Loop, Interface, Environment

\* The main loop implements the set of events its header promises: for any
\* callbacks, signals and timings, only armed events are called, a removed
\* event never is, expired timers are called in the order of their expiries,
\* and a timer armed meanwhile waits for the next pass (ypmainloop.c:133-590).
THEOREM LoopImplementsEventSet == Spec => ImplementsEventSet
<1>1. Init => ES!Init
  <2>. SUFFICES ASSUME Init PROVE ES!Init
    OBVIOUS
  <2>1. Live = {} /\ Timers = {}
    BY DEF Init, Live, Timers, Slots
  <2>. QED  BY <2>1 DEF Init, ES!Init, Armed, Turn, IoTurn
<1>2. LoopInv /\ [Next]_vars => [ES!Next]_ES!vars
  BY StepRefines
<1>. QED  BY <1>1, <1>2, LoopInvariance, PTL DEF Spec, ImplementsEventSet, ES!Spec

-----------------------------------------------------------------------------
(* What the owner of an event can rely on                                  *)

ArmedIds == {e.id : e \in Armed}

\* An event that is not armed any more is never armed again, and is not called.
GoneForGood == \A n \in 1..eventIdMax :
                 n \notin ArmedIds => n \notin ArmedIds' /\ (firing' = n => firing = n)

\* EventSet gives every event an id of its own and calls only the armed ones.
LEMMA SetForgets ==
  ASSUME eventIdMax \in Nat, [ES!Next]_ES!vars
  PROVE  GoneForGood
<1>. USE DEF GoneForGood, ArmedIds
<1>1. ASSUME NEW k, NEW g, NEW d, ES!ArmTimer(k, g, d) PROVE GoneForGood
  BY <1>1 DEF ES!ArmTimer, ES!Event
<1>2. ASSUME NEW g, NEW fd, ES!ArmIo(g, fd) PROVE GoneForGood
  BY <1>2 DEF ES!ArmIo, ES!Event
<1>3. ASSUME NEW g, ES!Cancel(g) PROVE GoneForGood
  BY <1>3 DEF ES!Cancel
<1>4. ASSUME NEW e \in ES!Timers, ES!CallTimer(e) PROVE GoneForGood
  <2>1. e \in Armed /\ firing' = e.id
    BY <1>4 DEF ES!CallTimer, ES!Timers
  <2>2. ASSUME NEW f \in Armed' PROVE f.id \in ArmedIds
    <3>1. f \in Armed \/ f = [e EXCEPT !.expire = e.expire + e.interval]
      BY <1>4, <2>2 DEF ES!CallTimer
    <3>2. [e EXCEPT !.expire = e.expire + e.interval].id = e.id
      BY <2>1 DEF Armed, EventOf
    <3>. QED  BY <2>1, <3>1, <3>2
  <2>. QED  BY <2>1, <2>2
<1>5. ASSUME NEW e \in ES!IoEvents, ES!CallIo(e) PROVE GoneForGood
  BY <1>5 DEF ES!CallIo, ES!IoEvents
<1>6. CASE ES!Return
  BY <1>6 DEF ES!Return
<1>7. CASE ES!StartPass \/ ES!EndIo \/ ES!Clear \/ ES!Tick \/ UNCHANGED ES!vars
  BY <1>7 DEF ES!StartPass, ES!EndIo, ES!Clear, ES!Tick, ES!vars
<1>. QED  BY <1>1, <1>2, <1>3, <1>4, <1>5, <1>6, <1>7 DEF ES!Next

\* A component that has removed its events, or whose one-shot timer has been called, is
\* not called for them again, also when they had expired already and their turn was
\* still to come in this pass (yp_ml_remove_event, ypmainloop.c:548-590).
THEOREM RemovedStaysRemoved == Spec => [][GoneForGood]_vars
<1>1. LoopInv /\ [Next]_vars => GoneForGood
  <2>. SUFFICES ASSUME LoopInv, [Next]_vars PROVE GoneForGood
    OBVIOUS
  <2>1. eventIdMax \in Nat
    BY DEF LoopInv, TypeOK
  <2>. QED  BY <2>1, StepRefines, SetForgets
<1>. QED  BY <1>1, LoopInvariance, PTL DEF Spec
=============================================================================
