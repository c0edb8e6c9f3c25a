------------------------------ MODULE MainLoop ------------------------------
(***************************************************************************)
(* src/ypmainloop.c: the event list, the select loop that serves it, and   *)
(* the functions callbacks use to change it while it is being served.      *)
(*                                                                         *)
(* ev_list is kept as the slots 1..used; what lies beyond ev_list_used is  *)
(* never read.  A callback is any sequence of at most MaxOps calls of the  *)
(* interface; what the program's own callbacks do is left open.  A local   *)
(* variable of yp_ml_run is reset once the code will not read it again.    *)
(***************************************************************************)
EXTENDS Integers, FiniteSets, TimerAlign

CONSTANTS
  Groups,        (* group ids, positive integers as in the .c files        *)
  Delays,        (* delays and intervals passed by the callers, in ms      *)
  Fds,           (* descriptors passed to yp_ml_poll_io                    *)
  WakeFd,        (* read end of the wakeup pipe                            *)
  InitialSize,   (* INITIAL_EV_LIST_SIZE                                   *)
  Growth,        (* slots added when the list is full                      *)
  DrainBuf,      (* size of the buffer the wakeup pipe is read into        *)
  Resolution,    (* TIMER_MIN_RESOLUTIN                                    *)
  IdleWait,      (* the select timeout without any timer (one hour)        *)
  AllocMayFail,  (* can realloc fail?                                      *)
  MaxEvents,     (* bound: events armed in a behaviour                     *)
  MaxOps,        (* bound: interface calls made by one callback            *)
  MaxPipe,       (* bound: bytes in the pipe at which signals cease        *)
  MaxTime        (* bound: the clock                                       *)

ASSUME LoopAssumption ==
  /\ Groups \subseteq Nat \ {0}
  /\ Delays \subseteq Nat
  /\ Fds \subseteq Nat \ {0}
  /\ WakeFd \in Nat \ Fds
  /\ InitialSize \in Nat \ {0} /\ Growth \in Nat \ {0} /\ DrainBuf \in Nat \ {0}
  /\ Resolution \in Nat /\ IdleWait \in Nat
  /\ AllocMayFail \in BOOLEAN
  /\ MaxEvents \in Nat /\ MaxOps \in Nat /\ MaxPipe \in Nat /\ MaxTime \in Nat

VARIABLES
  evList,        (* ev_list[0..ev_list_used-1], as slots 1..used           *)
  used,          (* ev_list_used                                           *)
  allocated,     (* ev_list_allocated                                      *)
  capacity,      (* the slots the memory behind ev_list really has         *)
  eventIdMax,    (* event_id_max                                           *)
  masterSet,     (* select_master_set                                      *)
  maxFd,         (* select_max_fd                                          *)
  pipe,          (* bytes waiting in the wakeup pipe                       *)
  isRunning,     (* is_running                                             *)
  pc,            (* where yp_ml_run is                                     *)
  back,          (* where it continues after the running callback          *)
  firing,        (* id of the event whose callback is running, or 0        *)
  ops,           (* interface calls made by the running callback           *)
  ready,         (* read_set as select returned it                         *)
  ioSlot,        (* the slot the io scan has come to                       *)
  moved,         (* has the list been reallocated since the scan began?    *)
  deadline,      (* when the select times out                              *)
  roundNow,      (* `now` in the timer rounds: the clock plus Resolution   *)
  now,           (* gettimeofday                                           *)
  readable       (* polled descriptors that have input                     *)

listVars  == <<evList, used, allocated, capacity, eventIdMax>>
fdVars    == <<masterSet, maxFd>>
scanVars  == <<ready, ioSlot, deadline, roundNow>>
frameVars == <<back, firing>>
envVars   == <<now, readable>>
vars == <<listVars, fdVars, scanVars, frameVars, envVars, pipe, isRunning, pc, ops, moved>>

TimerTypes == {"TIMER", "PTIMER"}

Entry == [type : {"EMPTY", "IO"} \cup TimerTypes, id : Nat, group : Groups \cup {0},
          fd : Fds \cup {0}, interval : Nat, expire : Nat, processed : BOOLEAN]

\* A slot of type EV_TYPE_EMPTY; its other fields are never read.
NoEvent == [type |-> "EMPTY", id |-> 0, group |-> 0, fd |-> 0,
            interval |-> 0, expire |-> 0, processed |-> FALSE]

Slots   == 1..used
Live    == {i \in Slots : evList[i].type # "EMPTY"}
Timers  == {i \in Slots : evList[i].type \in TimerTypes}
IoSlots == {i \in Slots : evList[i].type = "IO"}

Least(S)       == CHOOSE m \in S : \A n \in S : m <= n
Greatest(S)    == CHOOSE m \in S : \A n \in S : n <= m

(***************************************************************************)
(* yp_ml_init; the pipe's read end is the only descriptor watched.         *)
(***************************************************************************)
Init ==
  /\ evList = << >> /\ used = 0 /\ eventIdMax = 0
  /\ allocated = InitialSize /\ capacity = InitialSize
  /\ masterSet = {WakeFd} /\ maxFd = WakeFd + 1
  /\ pipe = 0 /\ isRunning = FALSE
  /\ pc = "out" /\ back = "round" /\ firing = 0 /\ ops = 0
  /\ ready = {} /\ ioSlot = 1 /\ moved = FALSE /\ deadline = 0 /\ roundNow = 0
  /\ now = 0 /\ readable = {}

-----------------------------------------------------------------------------
(* The interface.  Its functions are called by a callback, or by main      *)
(* while the loop is not running.                                          *)

Called == /\ pc \in {"cb", "out"}
          /\ ops < MaxOps
          /\ ops' = ops + 1

\* get_free_entry: the first empty slot, or one more.
FreeSlot == LET empty == Slots \ Live
            IN  IF empty = {} THEN used + 1 ELSE Least(empty)

\* Mutation: the list is extended one entry too late.
ListFullLate == FreeSlot > used /\ used > allocated

ListFull == FreeSlot > used /\ used >= allocated

\* The list with e in the slot that get_free_entry found.
WithEntry(e) ==
  [i \in 1..(IF FreeSlot > used THEN used + 1 ELSE used) |->
     IF i = FreeSlot THEN e ELSE evList[i]]

\* Mutation: an id is free again when its event is gone.
NextIdCounted == Cardinality(Live) + 1

\* ++ml_data.event_id_max, the id of a new event.
NextId == eventIdMax + 1

(***************************************************************************)
(* A successful get_free_entry followed by the assignments to the entry.   *)
(* realloc may move the list.  A slot the memory does not have is written  *)
(* when an earlier realloc failed: what happens then is undefined.         *)
(***************************************************************************)
PutEntry(e) ==
  /\ eventIdMax < MaxEvents
  /\ evList' = WithEntry(e)
  /\ used' = IF FreeSlot > used THEN used + 1 ELSE used
  /\ eventIdMax' = NextId
  /\ IF ListFull
     THEN /\ allocated' = allocated + Growth
          /\ capacity' = allocated + Growth
          /\ moved' \in {moved, back = "io"}
     ELSE UNCHANGED <<allocated, capacity, moved>>
  /\ pc' = IF FreeSlot > capacity /\ ~ListFull THEN "undefined" ELSE pc

\* get_free_entry when realloc fails: the caller returns -ENOMEM, but
\* ev_list_allocated has been raised already.
OutOfMemory ==
  /\ AllocMayFail
  /\ Called
  /\ eventIdMax < MaxEvents
  /\ ListFull
  /\ allocated' = allocated + Growth
  /\ UNCHANGED <<evList, used, capacity, eventIdMax, fdVars, scanVars, frameVars,
                 envVars, pipe, isRunning, pc, moved>>

\* The periodic timers a new one may be lined up with.
PeriodicRefs == [i \in {j \in Slots : evList[j].type = "PTIMER"} |-> evList[i]]

\* yp_mlint_schedule_timer through its two callers; only the periodic one
\* passes allow_optimize on, and no caller asks for an interval of 0.
Schedule(type, g, d, optimize) ==
  /\ optimize => type = "PTIMER"
  /\ type = "PTIMER" => d > 0
  /\ Called
  /\ PutEntry([type |-> type, id |-> NextId, group |-> g, fd |-> 0, interval |-> d,
               expire |-> FirstExpire(PeriodicRefs, d, optimize, now), processed |-> TRUE])
  /\ pipe' = pipe + 1
  /\ UNCHANGED <<fdVars, scanVars, frameVars, envVars, isRunning>>

\* Mutation: select's bound is not raised to the descriptor that equals it.
RaisedMaxFdLate(fd) == IF maxFd < fd THEN fd + 1 ELSE maxFd

RaisedMaxFd(fd) == IF maxFd <= fd THEN fd + 1 ELSE maxFd

\* yp_ml_poll_io; a caller polls a descriptor it has just opened.
PollIo(g, fd) ==
  /\ fd \notin masterSet
  /\ Called
  /\ PutEntry([NoEvent EXCEPT !.type = "IO", !.id = NextId, !.group = g, !.fd = fd])
  /\ masterSet' = masterSet \cup {fd}
  /\ maxFd' = RaisedMaxFd(fd)
  /\ pipe' = pipe + 1
  /\ UNCHANGED <<scanVars, frameVars, envVars, isRunning>>

\* Mutation: polled descriptors keep their entries.
MatchingTimers(g) == {i \in Timers : evList[i].group = g}

Matching(g) == {i \in Live : evList[i].group = g}

\* Mutation: only an entry at the end of the list has its descriptor cleared.
ClosedAtEnd(match) == {evList[i].fd : i \in match \cap IoSlots \cap {used}}

\* The descriptors taken out of select_master_set with the entries.
Closed(match) == {evList[i].fd : i \in match \cap IoSlots}

\* Mutation: the bound is the highest descriptor itself.
LoweredMaxFdShort(match) == Greatest({0} \cup {evList[i].fd : i \in IoSlots \ match})

\* max_fd + 1, over the entries that stay; the wakeup pipe has no entry.
LoweredMaxFd(match) == Greatest({0} \cup {evList[i].fd : i \in IoSlots \ match}) + 1

(***************************************************************************)
(* yp_ml_remove_event(-1, g), the only form the program uses.  The scan    *)
(* runs downwards: a match in the last slot shortens the list, any other   *)
(* is marked empty.                                                        *)
(***************************************************************************)
RemoveGroup(g) ==
  LET match == Matching(g)
      keep  == IF Slots \subseteq match THEN 0 ELSE Greatest(Slots \ match)
  IN  /\ Called
      /\ evList' = [i \in 1..keep |-> IF i \in match THEN NoEvent ELSE evList[i]]
      /\ used' = keep
      /\ masterSet' = masterSet \ Closed(match)
      /\ IF Closed(match) = {} THEN UNCHANGED <<maxFd, pipe>>
         ELSE maxFd' = LoweredMaxFd(match) /\ pipe' = pipe + 1
      /\ UNCHANGED <<allocated, capacity, eventIdMax, scanVars, frameVars, envVars,
                     isRunning, pc, moved>>

\* Mutation: the loop is not woken up.
StopPipeSilent == pipe

\* yp_ml_stop writes a byte if the loop is running.
StopPipe == IF isRunning THEN pipe + 1 ELSE pipe

Stop ==
  /\ Called
  /\ isRunning' = FALSE
  /\ pipe' = StopPipe
  /\ UNCHANGED <<listVars, fdVars, scanVars, frameVars, envVars, pc, moved>>

Return ==
  /\ pc = "cb"
  /\ pc' = back /\ back' = "round" /\ firing' = 0 /\ ops' = 0
  /\ UNCHANGED <<listVars, fdVars, scanVars, envVars, pipe, isRunning, moved>>

-----------------------------------------------------------------------------
(* yp_ml_run                                                               *)

Run ==
  /\ pc = "out"
  /\ isRunning' = TRUE /\ pc' = "top" /\ ops' = 0
  /\ UNCHANGED <<listVars, fdVars, scanVars, frameVars, envVars, pipe, moved>>

\* The loop condition fails: yp_ml_run returns 0 and may be called again.
Leave ==
  /\ pc = "top" /\ ~isRunning
  /\ pc' = "out"
  /\ UNCHANGED <<listVars, fdVars, scanVars, frameVars, envVars, pipe, isRunning, ops, moved>>

\* Mutation: the timer to expire last is looked for.
WakeupTimeLatest == IF Timers = {} THEN now + IdleWait
                    ELSE Greatest({evList[i].expire : i \in Timers})

WakeupTime == IF Timers = {} THEN now + IdleWait
              ELSE Least({evList[i].expire : i \in Timers})

\* Find the timer to expire next and take the `processed` marks off.
Prepare ==
  /\ pc = "top" /\ isRunning
  /\ evList' = [i \in Slots |-> IF i \in Timers THEN [evList[i] EXCEPT !.processed = FALSE]
                                ELSE evList[i]]
  /\ deadline' = WakeupTime
  /\ pc' = "select"
  /\ UNCHANGED <<used, allocated, capacity, eventIdMax, fdVars, ready, ioSlot, roundNow,
                 frameVars, envVars, pipe, isRunning, ops, moved>>

StartRound == roundNow' = now + Resolution

\* The descriptors select finds readable: watched, below select_max_fd, with input.
Selected == {fd \in masterSet : fd < maxFd /\ fd \in readable \cup
                                  (IF pipe > 0 THEN {WakeFd} ELSE {})}

SelectReady ==
  /\ pc = "select" /\ Selected # {}
  /\ ready' = Selected /\ deadline' = 0
  /\ pc' = "io"
  /\ UNCHANGED <<listVars, fdVars, ioSlot, roundNow, frameVars, envVars, pipe, isRunning, ops,
                 moved>>

SelectTimeout ==
  /\ pc = "select" /\ Selected = {} /\ now >= deadline
  /\ StartRound /\ deadline' = 0
  /\ pc' = "round"
  /\ UNCHANGED <<listVars, fdVars, ready, ioSlot, frameVars, envVars, pipe, isRunning, ops,
                 moved>>

\* The io entries the scan still has to call.
ReadySlots == {i \in IoSlots : i >= ioSlot /\ evList[i].fd \in ready}

\* Call the next io entry.  The callback may leave input for the next pass.
CallIo ==
  /\ pc = "io" /\ ~moved /\ ReadySlots # {}
  /\ LET i == Least(ReadySlots)
     IN  /\ firing' = evList[i].id
         /\ ioSlot' = i + 1
         /\ readable' \in {readable, readable \ {evList[i].fd}}
  /\ pc' = "cb" /\ back' = "io" /\ ops' = 0
  /\ UNCHANGED <<listVars, fdVars, ready, deadline, roundNow, now, pipe, isRunning, moved>>

\* The scan goes on with a pointer into memory the list no longer occupies.
StaleScan ==
  /\ pc = "io" /\ moved /\ ioSlot <= used
  /\ pc' = "undefined"
  /\ UNCHANGED <<listVars, fdVars, scanVars, frameVars, envVars, pipe, isRunning, ops, moved>>

\* The scan is over; the wakeup pipe is read until a read returns less than
\* the buffer holds.  A read from the empty pipe blocks, and the clock is read
\* only after it.
Drain ==
  /\ pc = "io"
  /\ IF moved THEN ioSlot > used ELSE ReadySlots = {}
  /\ pipe' = IF WakeFd \in ready THEN 0 ELSE pipe
  /\ IF WakeFd \in ready /\ pipe % DrainBuf = 0
     THEN pc' = "hung" /\ UNCHANGED roundNow
     ELSE pc' = "round" /\ StartRound
  /\ ready' = {} /\ ioSlot' = 1 /\ moved' = FALSE
  /\ UNCHANGED <<listVars, fdVars, deadline, frameVars, envVars, isRunning, ops>>

\* Mutation: the mark is not looked at.
ExpiredMarked == {i \in Timers : evList[i].expire <= roundNow}

Expired == {i \in Timers : ~evList[i].processed /\ evList[i].expire <= roundNow}

\* The expired timer with the smallest expiry, the first slot of equal ones.
NextTimer ==
  CHOOSE i \in Expired : \A j \in Expired :
    \/ evList[i].expire < evList[j].expire
    \/ evList[i].expire = evList[j].expire /\ i <= j

\* A one-shot timer leaves its slot before the callback, and trailing empty
\* slots are given up with it.  A periodic timer moves on by its interval.
CallTimer ==
  /\ pc = "round" /\ Expired # {}
  /\ LET t    == NextTimer
         left == Live \ {t}
         keep == IF t < used THEN used ELSE IF left = {} THEN 0 ELSE Greatest(left)
     IN  /\ firing' = evList[t].id
         /\ IF evList[t].type = "TIMER"
            THEN /\ evList' = [i \in 1..keep |-> IF i = t THEN NoEvent ELSE evList[i]]
                 /\ used' = keep
            ELSE /\ evList' = [evList EXCEPT ![t].processed = TRUE,
                                 ![t].expire = evList[t].expire + evList[t].interval]
                 /\ UNCHANGED used
  /\ pc' = "cb" /\ back' = "round" /\ ops' = 0
  /\ UNCHANGED <<allocated, capacity, eventIdMax, fdVars, scanVars, envVars, pipe, isRunning,
                 moved>>

RoundDone ==
  /\ pc = "round" /\ Expired = {}
  /\ pc' = "top" /\ roundNow' = 0
  /\ UNCHANGED <<listVars, fdVars, ready, ioSlot, deadline, frameVars, envVars, pipe, isRunning,
                 ops, moved>>

-----------------------------------------------------------------------------
(* Signals and the environment                                             *)

\* A signal handler calls yp_ml_stop between two steps of the loop.  A loop
\* blocked in read goes on: the read returns the byte just written.
SignalStop ==
  /\ pc \in {"top", "select", "io", "round", "cb", "hung"}
  /\ isRunning /\ pipe < MaxPipe
  /\ isRunning' = FALSE
  /\ IF pc = "hung" THEN pc' = "round" /\ StartRound /\ UNCHANGED pipe
                    ELSE pipe' = StopPipe /\ UNCHANGED <<pc, roundNow>>
  /\ UNCHANGED <<listVars, fdVars, ready, ioSlot, deadline, frameVars, envVars, ops, moved>>

\* A signal interrupts the waiting select: it returns an error, and yp_ml_run shuts the
\* loop down and returns the error.
SignalInSelect ==
  /\ pc = "select" /\ Selected = {} /\ now < deadline
  /\ isRunning' = FALSE
  /\ evList' = << >> /\ used' = 0 /\ allocated' = 0 /\ capacity' = 0 /\ eventIdMax' = 0
  /\ masterSet' = {} /\ maxFd' = 0 /\ pipe' = 0
  /\ pc' = "end" /\ deadline' = 0
  /\ UNCHANGED <<ready, ioSlot, roundNow, frameVars, envVars, ops, moved>>

\* Input arrives on a descriptor.
Input(fd) ==
  /\ fd \notin readable
  /\ readable' = readable \cup {fd}
  /\ UNCHANGED <<listVars, fdVars, scanVars, frameVars, now, pipe, isRunning, pc, ops, moved>>

\* Time passes, by any amount: the process may have been suspended.  The clock is
\* never set back here, and a write to the wakeup pipe never finds it full.
Tick ==
  /\ pc # "end"
  /\ now' \in (now + 1)..MaxTime
  /\ UNCHANGED <<listVars, fdVars, scanVars, frameVars, readable, pipe, isRunning, pc, ops, moved>>

-----------------------------------------------------------------------------
Loop == \/ Leave \/ Prepare \/ SelectReady \/ SelectTimeout
        \/ CallIo \/ StaleScan \/ Drain \/ CallTimer \/ RoundDone

Interface ==
  \/ \E type \in TimerTypes, g \in Groups, d \in Delays, optimize \in BOOLEAN :
        Schedule(type, g, d, optimize)
  \/ \E g \in Groups, fd \in Fds : PollIo(g, fd)
  \/ \E g \in Groups : RemoveGroup(g)
  \/ Stop
  \/ OutOfMemory

Environment ==
  \/ SignalStop \/ SignalInSelect
  \/ \E fd \in Fds : Input(fd)
  \/ Tick

Next == Loop \/ Interface \/ Return \/ Run \/ Environment

Spec == Init /\ [][Next]_vars

\* The thread keeps running and callbacks return; nothing is assumed of
\* signals, input or the moments callbacks choose to call the interface.
FairSpec == Spec /\ WF_vars(Loop) /\ WF_vars(Return)

-----------------------------------------------------------------------------
(* Properties                                                              *)

PcValues == {"out", "top", "select", "io", "cb", "round", "hung", "undefined", "end"}

\* The variables stay within their types: the list has exactly `used` slots,
\* and the phase of yp_ml_run agrees with whether a callback is running.
TypeOK ==
  /\ used \in Nat /\ evList \in [Slots -> Entry]
  /\ allocated \in Nat /\ capacity \in Nat /\ eventIdMax \in Nat
  /\ masterSet \subseteq Fds \cup {WakeFd} /\ maxFd \in Nat
  /\ pipe \in Nat /\ isRunning \in BOOLEAN
  /\ pc \in PcValues /\ back \in {"io", "round"}
  /\ firing \in Nat /\ ops \in Nat
  /\ ready \subseteq Fds \cup {WakeFd} /\ ioSlot \in Nat \ {0} /\ moved \in BOOLEAN
  /\ deadline \in Int /\ roundNow \in Nat /\ now \in Nat
  /\ readable \subseteq Fds

-----------------------------------------------------------------------------
\* What holds between any two steps of the loop and makes its scans right:
\* an id names one entry and has been given out, a descriptor is polled by one
\* entry, the phase says whether a callback runs and where it returns to, and the
\* timer rounds do not run ahead of the clock by more than the resolution
\* (ypmainloop.c:133-590).
UniqueIds ==
  /\ \A i \in Live : evList[i].id \in 1..eventIdMax
  /\ \A i, j \in Live : evList[i].id = evList[j].id => i = j

DistinctFds == \A i, j \in IoSlots : evList[i].fd = evList[j].fd => i = j

PhaseOK ==
  /\ pc \in {"out", "top", "select", "io", "round", "hung", "end"} => firing = 0
  /\ pc = "cb" => firing # 0
  /\ back = "io" => pc \in {"cb", "undefined"}
  /\ roundNow <= now + Resolution

\* The armed events, the timers whose turn is still to come and the descriptors the
\* scan has not come to, read off the list.
EventOf(e) == [kind |-> e.type, id |-> e.id, group |-> e.group,
               fd |-> e.fd, interval |-> e.interval, expire |-> e.expire]

Armed == {EventOf(evList[i]) : i \in Live}
Turn  == {evList[i].id : i \in {j \in Timers : ~evList[j].processed}}
IoAhead == {i \in IoSlots : i >= ioSlot}
IoTurn == IF pc \in {"select", "io"} \/ back = "io" THEN {evList[i].id : i \in IoAhead} ELSE {}

ES == INSTANCE EventSet WITH armed <- Armed, turn <- Turn, ioTurn <- IoTurn,
                             lastId <- eventIdMax

\* The callbacks yp_ml_run makes are those of a set of armed events: no event is
\* lost, called twice in a pass or called after its removal, no timer out of order
\* or in the pass it was armed in, whatever callbacks do to the list between two of
\* its scans (ypmainloop.c:133-590).
ImplementsEventSet == ES!Spec

\* Every descriptor in the list is watched and below select_max_fd, although
\* yp_ml_remove_event recomputes the maximum in the middle of its scan.
DescriptorsWatched ==
  \A i \in IoSlots : evList[i].fd \in masterSet /\ evList[i].fd < maxFd

\* No descriptor stays watched without an entry: select would return at once
\* for ever, with nobody called.
NoOrphanDescriptor ==
  pc # "end" => masterSet \subseteq {WakeFd} \cup {evList[i].fd : i \in IoSlots}

\* The inductive invariant: all of the above between any two steps, whatever
\* callbacks and signals have done (ypmainloop.c:133-590).
LoopInv == TypeOK /\ UniqueIds /\ DistinctFds /\ PhaseOK /\ DescriptorsWatched

\* No entry is written outside the memory of the list, and no scan goes on in
\* memory that realloc has given back (get_free_entry and yp_ml_run).
MemorySafe == pc # "undefined" /\ used <= capacity

\* Until the list has to grow that holds with descriptors too, and whether or not
\* realloc would fail: freed entries are used again before it grows, and no scan
\* loses the memory it walks over (get_free_entry, ypmainloop.c:333-370).
SafeUntilGrown == allocated <= InitialSize => MemorySafe

Stopped == pc \in {"out", "end"}

Overdue(n) == \E i \in Timers : evList[i].id = n /\ evList[i].expire <= now

\* An expired timer is called, however often io and other timers are served
\* first, or the loop stops.
DueTimerServed ==
  \A n \in 1..MaxEvents : Overdue(n) ~> ~Overdue(n) \/ Stopped

Polled(fd) == \E i \in IoSlots : evList[i].fd = fd

\* The callback of a descriptor with input runs, or the descriptor is given
\* up, or the loop stops.
InputServed ==
  \A fd \in Fds :
    (Polled(fd) /\ fd \in readable)
      ~> \/ ~Polled(fd) \/ Stopped
         \/ \E i \in IoSlots : evList[i].fd = fd /\ evList[i].id = firing

\* yp_ml_stop makes yp_ml_run return, also when select was about to wait.
StopHeard == ~isRunning ~> Stopped

\* The same as long as the program polls a descriptor.
StopHeardPolling == (~isRunning /\ IoSlots # {}) ~> (Stopped \/ IoSlots = {})
=============================================================================
