# Yeaphone: models, checks and proofs

Yeaphone turns a Yealink USB handset (P1K, P4K, and clones) into a SIP phone:
it reads the keys of the handset from a Linux input device, drives the display,
the LED and the ringer through files in `/sys`, and leaves the telephony to
liblinphone. It is one process with one thread. Everything after start-up runs
in callbacks of a home-made main loop, `ypmainloop.c`; the only thing that
interrupts them is the signal handler.

This directory holds TLA+ models of that program, configurations that check
them with TLC, and proofs of their main properties checked by TLAPS.
File and line references are to `src/` of this repository.

## 1. Inventory

### Components, their state and their operations

| component | source | state | operations | model |
|---|---|---|---|---|
| main loop | `ypmainloop.c` | `ev_list` (an array of slots that grows by `realloc`), `ev_list_used`, `ev_list_allocated`, `event_id_max`, the fd set and `select_max_fd`, the wakeup pipe, `is_running` | schedule a one-shot or periodic timer, poll a descriptor, remove events by id and/or group, run, stop, shut down | `MainLoop`, `EventSet` |
| alignment of timers | `ypmainloop.c:369-487` | none | `timer_overlap_score`, the choice of the first expiry | `TimerAlign`, `AlignedTimers` |
| lifecycle | `yeaphone.c`, `ylcontrol.c:862-908` | `ylcontrol_started`, `--wait`, the event device, `hard_shutdown` | find the device, start and stop a session, `terminate` | `Session` |
| handset controller | `ylcontrol.c` | `dialnum`, `dialback`, store and recall mode, `pressed`, `kshift`, `hard_shutdown`, stored numbers | keys, long keys, hook, `lps_callback`; the number of a caller | `Handset`, `CallerId` |
| phone core adapter | `lpcontrol.c` | pointer to the core, the polling timer | start, commands, polling, the callback wrapper | `Handset` |
| display and LED | `yldisp.c` | blink times, `blink_reschedule`, `wait_date_after_count`, `ring_off_delayed`, what is shown | LED patterns, date, call counter, ringer, text, hide all | `Display`, `Handset` |
| configuration | `ypconfig.c`, `ylcontrol.c:828-858` | a list of pairs, the file | read, look up, set, write, complete with defaults | `Config`, `ConfigLine`, `Settings` |
| device discovery | `ylsysfs.c`, `yeaphone.c:149-164` | model, paths and sound card of the handset | search `/sys`, read the model | `Discovery` |
| command line | `yeaphone.c` | variables set once | `parse_args`, `read_config` | options in `Discovery`, `read_config` in `Config` |
| ring tone generator, udev script | `contrib/` | - | - | not part of the program |

### How they interact

```
   signals ──terminate──► ylcontrol ──stop──► main loop ◄── yp_ml_run ── main
                             ▲  │                │
        io callback (keys) ──┘  │ commands       │ timers: keylong, polling,
        keylong timer ──────────┤                │ blink, date/counter, minring
                                ▼                ▼
                            lpcontrol ──► liblinphone ──► lps_callback (ylcontrol)
                                                             │
                                              yldisp ◄───────┘──► /sys (ylsysfs)
```

* A command given to liblinphone reports its states *before it returns*: one
  key press runs a whole chain of `lps_callback`s, each of which changes the
  numbers, the display and the timers.
* A callback of the main loop changes the event list while the loop scans it.
* A signal handler calls the same stop function as a callback does.

### What is hard here, and what would be correct

* **main loop** - callbacks add and remove events in the middle of the io scan
  and of the timer rounds; slots are reused, the array shrinks and is moved by
  `realloc`; expired timers accumulate; `yp_ml_stop` comes at any moment.
  Correct: nobody is lost, called twice, called after removal or out of order;
  every polled descriptor is watched and no other is; what is due is served;
  `yp_ml_stop` is heard; memory is not left.
* **alignment** - references that are late, far ahead or a whole number of
  delays away. Correct: first expiry within one delay, and the two timers meet
  as often as the score says.
* **handset** - typed, stored, recalled and received numbers in three buffers,
  with calls, registrations and power cycles in the middle of every mode; a
  pointer to a core that has been destroyed. Correct: the number shown is the
  number dialled; LED and ringer agree with the phone; a long press is a key
  that is held.
* **sessions** - the handset is unplugged in any state; a session starts with
  what the last one left behind. Correct: a session ends exactly when it has
  to, and leaves nothing grabbed and nothing lit.
* **display** - two chains of timers that start each other, called late.
  Correct: one pattern at a time, boundedly many timers, and what was asked for
  last is what remains.
* **configuration** - the file is emptied and written line by line, nobody looks
  at the results, and the process may end at any point. Correct: what was saved
  completely is found by every later start; no value comes back that had been
  replaced before; reading undoes what writing does to a value; with the codes that
  were read every caller has one number.
* **discovery** - a handset appears piece by piece, and disappears, while `/sys`
  is read; event numbers are used again; some failures end the search and some
  do not, and one of these returns the code of success. Correct: what is found
  are all parts of one handset, the one asked for; one that is there is found.

`PROJECT.json` lists each hazard at its line with the properties that cover it.

## 2. Modules and how they correspond to the code

**`TimerAlign`** - the arithmetic of `timer_overlap_score` and of
`yp_mlint_schedule_timer`, as operators over integers (milliseconds). Loops over
multiples and slots become sets and `CHOOSE` of the least.

**`AlignedTimers`** - EXTENDS `MainLoop` with what alignment is for. Since every
expiry of a periodic timer moves on by exactly its interval, all instants of a
new timer follow from its first one: the properties speak of the timer that the
code *would* place now, for every periodic timer that is in the list of a
reachable state, on time or late.

**`EventSet`** - the abstract specification of `ypmainloop.h`: a *set* of armed
events, the ids whose turn is still to come in this pass - of descriptors first, of
timers then - and the event whose callback is running. An event is called at most
once in a pass, and a timer only in a pass that began after it was armed: that is
what makes the timer rounds end. No array, no scan, no descriptor set.

**`MainLoop`** - the code. `ev_list` is a function over `1..used`; `pc` is where
`yp_ml_run` stands (`top`, `select`, `io`, `cb`, `round`, ...). A callback is any
sequence of at most `MaxOps` calls of the interface, so no assumption is made on
what the program's own callbacks do. One action per function or step:

| action | code |
|---|---|
| `Schedule`, `PollIo`, `RemoveGroup`, `Stop` | the interface, whole functions, including the search for a slot, the growth of the list, trailing-slot trimming and `select_max_fd` |
| `Prepare` | the search for the next expiry; the `processed` marks are cleared |
| `SelectReady`, `SelectTimeout`, `SignalInSelect` | the three results of `select` |
| `CallIo`, `Drain` | the io scan, one callback each, then the reads from the pipe |
| `CallTimer`, `RoundDone` | a timer round |
| `StaleScan`, `OutOfMemory` | the scan through a moved list; a failed `realloc` |
| `SignalStop`, `Input`, `Tick` | the environment; the clock may jump ahead by any amount |

`ImplementsEventSet` states that `MainLoop` implements `EventSet` under the
mapping `armed <- Armed` (entries that are not empty, without their slots),
`turn <- Turn` (timers not marked `processed`), `ioTurn <- IoTurn` (descriptors the
scan has not come to).

**`Handset`** - `ylcontrol.c` with `lpcontrol.c`, and the parts of `yldisp.c`
whose result the user sees. Because a command reports before it returns, the
handlers are operators from a record `phone` to a record: `OnEnd(p)` is the
`GSTATE_CALL_END` case of `lps_callback`, `Terminate(p)` is the command that
leads to it, `RedKey(p, r)` the key. Each action (`Press`, `Release`, `Shift`,
`Hook`, `LongKey`, `MinRingOver`, `Registered`, `CallArrives`, ...) is one
callback of the main loop with everything it causes. `r` is what the handler
*reads* as the state of the core: with the core destroyed these reads go through
a dangling pointer, and `r` is then any state at all (`FreedKept = FALSE`), or
the last one (`TRUE`: the memory is as it was). A *command* through such a
pointer has no defined effect; it sets `broken`, after which the model stops.

**`Session`** - EXTENDS `Handset` with `main`: look for the device, start, run,
leave, clear, again. It composes the two: the keys and core events of a session
are those of `Handset`, the end of a session changes the `phone` record. `FindDevice` is a
search that finds the handset, or none; `SearchFails` one that ends with another error,
on which `main` leaves. What a search reads is `Discovery`.

**`Display`** - the timers of `yldisp.c`: LED patterns (`led_on_callback`,
`led_off_callback`), date and call counter. The functions of `yldisp.h` are
called at any time and in any order, even within a pass of the main loop; the
main loop is reduced to passes that call what has expired in the order of
expiry, each timer once, as `EventSet` promises. The LED pattern that `Handset`
keeps as a word is what is unfolded here.

**`ConfigLine`** - a value as a line of the file: the quotes that
`ypconfig_write` puts around a value with a blank, the pair of quotes that
`ypconfig_read` takes off, and what reading makes of a line that was cut off.
A value is its text, the number of pairs of quotes around it, and whether it
needs quotes.

**`CallerId`** - `extract_callernum` as operators over sequences of digits:
`+`, access codes and country code, the candidates in their order, the
characters no number may have.

**`Settings`** - the abstract specification of `ypconfig.h`: live values, kept
values, and whether a change is safe yet. A save may break off; then each key
keeps its live value, a part of it, or nothing.

**`Config`** - the code: the list (`pairs`, in which a key may occur twice, since
the file is read as it is), the file, and one action per step that can be the
last one of the process.

| action | code |
|---|---|
| `ReadConfig` | `read_config`, `ypconfig_read`; the read may fail |
| `InitYlcontrol` | `init_ylcontrol`: defaults, and a write only if one was missing |
| `StoreNumber` | the store mode: `ypconfig_set_pair` before the write |
| `OpenFile`, `WriteLine`, `CloseFile` | `ypconfig_write`, line by line |
| `WriteFails`, `Killed` | the disk is full; the process ends in the write, perhaps within a line |
| `End` | any other end |

`MCConfig` gives it an Austrian telephone, four initial files (none, complete,
one key twice, one code missing) and callers. `ImplementsSettings` is the
refinement: `live <- Live` (what `ypconfig_get_value` returns), `kept <-
Found(file)` (what a start would read), `mode <- Mode`.

**`Discovery`** - `ylsysfs_find_device` and the loop of `main` around it. Every
`readdir`, `fopen` and `stat` that can see another tree than the one before it
is a step: `ListPort`, `FindInput`, `ReadUniq`, `FindEvent`, `StatNode`,
`FindCard`, `DetermineModel`. Between any two of them the user plugs a handset
in or out, and the kernel registers its parts one at a time (`Register`,
`RegisterSound`). Input devices have a number that is used once, as in the
kernel, event devices the lowest free one. `sure` is a history variable: a
complete handset that matches was there when the search began, and nothing has
changed since. `MCDiscovery` names two handsets of different models.

**`TimerAlignProofs`, `MainLoopProofs`, `AlignedProofs`, `HandsetProofs`,
`SessionProofs`, `DisplayProofs`, `ConfigProofs`, `DiscoveryProofs`** - the
theorems.

Definitions whose comment begins with "Mutation:" are variants of the definition
that follows them, with a plausible bug. No specification uses them: put in
the place of the original they make the property named in `PROJECT.json` fail.

## 3. What the runs check

| run | module | what is asked |
|---|---|---|
| `loop_timers` | `AlignedTimers` | `MemorySafe`, `ImplementsEventSet` with timers of two groups; `MeetsInTime`, `ScoreCounts` for the periodic timers among them |
| `loop_io` | `MainLoop` | `LoopInv` (with `TypeOK`), `DescriptorsWatched`, `NoOrphanDescriptor`, `SafeUntilGrown`, `ImplementsEventSet` with two descriptors, a list that must grow, and a `realloc` that may fail |
| `loop_live` | `MainLoop` | `DueTimerServed`, `InputServed`, `StopHeardPolling` |
| `loop_unheard` | `MainLoop` | `StopHeard` - violated, finding 1 |
| `loop_hang` | `MainLoop` | `DueTimerServed` - violated, finding 2 |
| `handset` | `Handset` | `TypeOK`, `ShownIsDialled`, `LedShowsRegistration`, `LongKeyIsHeld`, `RingingEnds`, `LastNumberShown` |
| `handset_numbers` | `Handset` | `UsesShownNumber` - violated, finding 3 |
| `session` | `Session` | `EndsOnlyWhenGone`, `DarkBetweenSessions`, `CoreLeftAlone`, `UnpluggedEnds`, `PluggedServed`; `RightInEverySession`: what `handset` asks of display, LED and ringer, now across sessions |
| `session_exit` | `Session` | `GracefulExit` - violated, finding 4 |
| `display` | `Display` | `SteadyLight`, `OneChain`, `ListFits`, `CounterUndisturbed`, `DateReturns`, `BlinkGoesOn` |
| `config` | `MCConfig` | `TypeOK`, `SavedKept`, `NothingOlder`, `CallerHasOneNumber`, `ImplementsSettings` |
| `discovery` | `MCDiscovery` | `TypeOK`, `FoundIsWhole`, `FoundIsOne`, `NotMissed`, `FoundInTheEnd` |

### Findings

1. **`yp_ml_stop` may go unheard** (`ypmainloop.c:585`). `select_max_fd` is
   recomputed over the io *entries*; the read end of the wakeup pipe has no
   entry. After the last polled descriptor is removed, `select` no longer looks
   at the pipe, and a `yp_ml_stop` waits for the next timer, up to an hour. With
   a descriptor polled (`StopHeardPolling`) all is well. The program itself
   removes its one descriptor in the callback that also stops the loop
   (`ylcontrol.c:809`), so there the flag is looked at in the same pass: the
   defect is one of the interface.
2. **The loop can block in `read`** (`ypmainloop.c:214`). The pipe is blocking
   and is read until a read returns less than 10 bytes: with a multiple of 10
   bytes waiting the last read blocks, and due timers wait.
3. **A number that is not shown is dialled** (`ylcontrol.c:572`). A long C shows
   the default text and clears `dialnum`, but leaves `dialback`.
4. **A SIGTERM may start another session** (`yeaphone.c:170`). Outside `select`
   it makes `yp_ml_run` return 0, as an unplugged handset does. Between
   `ylcontrol_started = 1` (`yeaphone.c:168`) and `is_running = 1` in `yp_ml_run` it is
   lost: it stops a loop that has not begun, which then runs all the same. `Session`
   has that too (`SignalInSession` before `Run`), and `GracefulExit` rules it out as far
   as it leads to another session, a longer trace than the one the run shows.

Not a finding of a run, but of the models: with the default country code, which
is the empty string (`ylcontrol.c:848`; `main` passes "43", which
`init_ylcontrol` does not use), *every* number counts as one of the own country.
A caller from abroad then appears with the national access code instead of the
international one. `CallerHasOneNumber` speaks of codes that tell the notations
apart (`Unambiguous`), which the empty one does not for foreign numbers.

### Bounds, and why they are enough

* `loop_timers`: 3 events armed, 2 calls per callback, clock up to 2, an initial
  list of one slot that grows by one. Three events make reuse of a slot in
  the middle, trailing trimming over more than one slot and ties of expiries
  possible; two calls let one callback remove and schedule. Two delays put
  timers in either order.
* `loop_io`: the same with two descriptors and delay 0, so that timers are due
  at once and meet the io scan; the list grows during the scan.
* `loop_live`: no growth, one call per callback; `Resolution` 1 so that timers
  are called before they are due. `MaxTime` stops the clock, not the loop.
* `loop_hang`: the buffer of 10 is scaled to 2.
* `MaxPipe` = 1 bounds the wakeup bytes signals add; further bytes differ only in
  their number modulo the buffer, which `loop_hang` is about.
  Of the alignment: intervals 1 to 3 for the new timer, longer than the existing
  one, shorter, a multiple of it or not; the existing timers are in every phase and
  late by up to the bound of the clock. `AlignedProofs` has it for all intervals,
  those that never meet included.
* `handset`, `handset_numbers`: one digit and numbers of at most two: a number is
  empty, partly typed, or full. Two are enough for two different numbers to be
  typed, shown, stored and dialled; the proofs lift the bound. Both models.
* `session`, `session_exit`: numbers of at most one digit, so one that
  is not empty, a P1K, one signal; sessions without end. `RightAlways` has
  `RightInEverySession` for all numbers. `FreedKept` is `TRUE`: what a destroyed core
  reads as anything else leads to is in `handset`.
* `display`: one unit is about 300 ms for the LED, and one second of the date is
  2 units and its delay 3. These are not the program's ratios: they put the
  expiries of all pairs of timers in every order. The times of the patterns are
  equal or different, as in the code (150/150, 300/300, 1000/100). `MaxLate` = 2
  lets a callback be later than a whole period of the fastest pattern, which
  is what makes one-shot timers pile up. `Room` = 4 is tight. In the
  program it is 5: the list begins with ten entries (`INITIAL_EV_LIST_SIZE`), and
  five are for the event device, the long key, the minimum ringing time and the
  polling, which two timers may do (`PolledWhileAlive` in `CoreLeftAlone`). With the times of `yldisp.c`
  `RoomAssumption` then means that a timer is called less than 750 ms late.

* `config`: two stored numbers, two values, one of which has quotes of its own,
  one line cut off in the middle (`MaxLosses`); restarts, crashes between lines
  and failed writes are not bounded. Two keys are needed so that one is stored
  while the other must be kept. `MaxNumber` = 5 makes numbers reach the bound of
  the buffer. A local number that begins like the country code is among them.
* `discovery`: two ports, two handsets, three pluggings, so that a handset is
  plugged in again, in either port, while the other one holds an event number
  that was free before; with and without `--id` and `--wait`.

Every module has states in which nothing
more can happen within the bounds (`pc = "end"`, `broken`, `exit`, a clock at
its maximum, a file that cannot be torn again), so the runs do not look for deadlocks. `DueTimerServed`,
`InputServed`, `UnpluggedEnds`, `BlinkGoesOn` say that work goes on.

### Fairness

* `MainLoop`: `WF(Loop)` - a thread that can run runs - and `WF(Return)` -
  callbacks return. Nothing is assumed of signals, input and the clock. The
  clock may stop for ever at its bound, so liveness is stated for timers
  that are already due.
* `Session`: weak fairness of each step of `main`, of the io callback on a dead
  descriptor (`select` reports it readable for as long as it is polled, and the loop
  is shown above to serve it). Nothing of keys, calls, plugs, signals.
* `Discovery`: `WF(Search)`, that `main` goes on (and comes back from its
  `sleep`). Nothing is assumed of users and the kernel: that the registrations are
  completed and nobody plugs any more is the premise of `FoundInTheEnd`. No
  fairness of an `opendir` that fails either.
* `Display`: `WF` of the passage of time, of a pass beginning, and of calls;
  the loop's liveness above justifies the last two. What is called, and when, is
  up to the callers until they stop (`quiet`), which they need not.

## 4. What is proved

All theorems hold for every value of the constants under the named assumptions
of the modules (`LoopAssumption`, `AlignedAssumption`, `HandsetAssumption`,
`LineAssumption`, `ConfigAssumption`, `DiscoveryAssumption`, `DisplayAssumption`,
`RoomAssumption`, `SessionAssumption`): any number of
groups, descriptors, delays, digits, keys, values, ports and handsets, any size
of list and of number.

**`TimerAlignProofs`** - `AlignBounds`, `FirstExpireBounds`: the first expiry of
a new timer lies between now and now plus its delay, and an aligned one is a whole
number of delays from its reference. `DivRemainder` carries the arithmetic.

**`MainLoopProofs`**
* `LoopInvariance`: `Spec => []LoopInv`. `LoopInv` is inductive as it stands: the
  types (`used` is the length of the list; TypeOK), `UniqueIds` (ids of live
  entries are distinct and at most `event_id_max`), `DistinctFds`, `PhaseOK`
  (the phase agrees with the running callback, and `roundNow` is not ahead of the
  clock by more than the resolution) and `DescriptorsWatched`. `UniqueIds` is
  needed because removal and "the running callback" go by id; `DistinctFds`
  because the removal of one entry takes its descriptor out of the set. The proof
  takes types, entries and phases apart, one step per action.
* `DescriptorsAlwaysWatched`: a part of it, which stands on `LoweredBound`.
  `LoopTypes` (`TypeOK`) is another.
* `NoneWatchedInVain`: `NoOrphanDescriptor`, from `Watched` and `IoFds`, which follow
  the set of descriptors and the io entries together through every step.
* `OnlyMovedListIsLeft` and `TimersStayInMemory`: with a `realloc` that succeeds
  (`~AllocMayFail`, as in `loop_timers`), `MemoryInv` says that the list has the
  memory it believes to have. What may still go wrong is the io scan over a list that
  a callback has moved, and with timers only there is none: `MemorySafe`.
* `UngrownStaysInMemory`: `Spec => []SafeUntilGrown`, with descriptors and a `realloc`
  that may fail. `FewInv` says that the list is where and as long as it was at first;
  the step that needs a proof is the new entry (`PutEntryFew`): the list gets longer
  only when all its entries are live. For the same reason `FewEventsStayInMemory` holds,
  `Spec /\ []Few => []MemorySafe`: while no more events are armed at a time than
  `InitialSize`, it never does grow. That the program keeps to it is the sum of
  `ListFits` (`Room`) and the five other entries (section 3, bounds).
* `LoopImplementsEventSet`: `Spec => ImplementsEventSet`. `Init` maps to `Init`
  and, under `LoopInv`, every step to a step of `EventSet` or a stutter
  (`StepRefines`). The lemmas before it say what each change of the array does to
  the *set*: `ScheduleArms`, `RemoveCancels`, `TimerCalled`, ... The abstract
  expiry bound comes from `FirstExpireBounds`, the order of calls from the way
  the rounds pick the least expiry (`TimerCallAllowed`).
* `RemovedStaysRemoved`: an event that is not armed any more is never armed or called
  again (`GoneForGood`). It is proved of the steps of `EventSet` (`SetForgets`) and
  holds of the array by the refinement.

**`AlignedProofs`** - `AlignedMeet` (`MeetsInTime`) and `ScoresCount`
(`ScoreCounts`), from the lemmas `ScoreIsLeast` (no smaller number of periods of
the new timer is one of the existing timer's) and `Meeting` (among that many
successive instants one is reached by both). The invariant they need beside the
types of `LoopInv` is `NotAhead`: no periodic timer is further ahead of the clock
than its interval and the resolution, since it moves on only when it is called.

**`HandsetProofs`**
* `Inductive`: `Spec => []IInv`, with `IInv` = `PhoneInv(phone)`, the type of
  `held`, and `LongKeyIsHeld`. `PhoneInv` is a predicate on the record, so
  each handler has a lemma of the form "a good phone stays good" that is cited
  wherever a chain of callbacks contains it. Its parts: the types; `CoreInv`
  (the core is powered exactly while it exists, and has no call otherwise); `NumberInv` (a number shown is `ToDial`, recall mode begins
  without typed digits, and in a call `dialnum` is empty and `dialback` the other
  side's number); `LedInv`; `RingInv`. `ShownIsDialled` alone is not inductive:
  what is shown after a call depends on `dialback` during it. That one timer polls the
  core is apart (`PolledInv`, needed for `TypeOK`), since it holds in the first session
  only: the other parts, and the lemmas on the handlers, are used by `SessionProofs`.
* `TypeCorrect`, `DisplayCorrect`, `LedCorrect`, `LongKeyCorrect`, `RingingCorrect` and
  the action property `LastNumberCorrect` follow.

**`SessionProofs`** (extends `HandsetProofs`)
* `EndsWhenGone` (`EndsOnlyWhenGone`), `DarkBetween` (`DarkBetweenSessions`).
  `Follows` says of each handler that it asks for no shutdown and leaves loop and core
  alone, `Obeys` of the long key and the shutdown that they stop the loop only if a
  shutdown was asked for. `EndInv` adds that without a signal one is asked for only
  when the event device is closed. No type of the phone is needed.
* `RightAlways` (`RightInEverySession`), `CoreAlwaysLeftAlone` (`CoreLeftAlone`) and, as an
  action property of the whole program too, `LastNumberAlways` (`LastNumberShown`): what holds of a phone in
  one session holds in all. `PowerInv` is inductive together with the invariant
  above: `PhoneInv`, how many timers poll the core, and `Rested` - a core that is
  there when the loop was stopped or between two sessions, because a long red key
  made one on the way out, has seen no registration and no call. Without it
  `yldisp_clear` between the sessions would leave a registered phone with a dark LED,
  and the start of the next one would lose a call. `LastNumberAlways` excepts a core
  that was destroyed, and the texts of a failed call or registration.
  Of `CoreLeftAlone` the first part, that only a core that lives is polled, is in
  `PowerInv`. The second, `Unharmed`, needs no type of the phone: a core that is gone and
  whose memory still reads as it was left has no power and no call in it, with which no
  handler gives a command (`GoneUnharmed`, `LongKeyUnharmed`, `StopUnharmed`); and
  without a signal a session begins with no event device left (`EndInv`), the other
  way to be broken.

**`DisplayProofs`** - `SteadyStays` (`SteadyLight`), `ChainIsOne` (`OneChain`),
`CounterStays` (`CounterUndisturbed`), `TimersFit` (`ListFits`). The invariant: entries belong to the group of
their callback; a blinking LED has the times of its pattern, one periodic timer that
turns it off and, once `blink_reschedule` is reset, one that turns it on
(`ChainInv`); while a duration is shown line 1 has no other callback (`CounterInv`).
Nothing is assumed about how late callbacks are.
Only `TimersFit` needs that, as `RoomAssumption`: a late periodic timer catches up,
once per pass, and each time schedules a one-shot timer that turns the LED on again.
`BurstInv` counts the waiting ones: the periods caught up so far fit into the time by
which the timer was late. `RoomInv` adds the date's timer, of which there is one.

**`ConfigProofs`**
* `IInv` = `TypeOK`, `PhaseOK` (what the list is at each step; in the
  write the file is a beginning of the formatted list), `SavedOK` (`saved` is what
  `ypconfig_get_value` returns, and, while the file does not fall short of the
  list, what a start would find) and `OldOK` (list and file hold only what is left
  of the values saved last). `SavedKept` alone is not inductive:
  it says nothing of the file while the program does not run.
* `OneNumber`: if the codes tell them apart, all notations of a number are turned into
  the one this telephone dials. It stands on facts about prefixes of sequences
  (`PutBefore`, `JoinInTurn`).
* `ConfigTypes`, `KeptAcrossStarts`, `NoneComesBack`, `OneNumberKept` (with
  `OneNumber`, for any list and codes) and `StoreImplemented`, the refinement.
  Of `NoneComesBack`: a start that cannot read the file begins with nothing
  saved, and what a later start finds in the file after all counts as saved then.
  They stand on `RoundTrip` (reading undoes writing), `SetGet` and `AppendGet`
  (a list with a key twice is a map all the same) and on what is left of a torn line.

**`DiscoveryProofs`**
* `IInv` = `TypeOK`, `DevicesOK` (event numbers are not shared, and a handset has
  one from its stage on), `PhaseOK` (what the search holds at each step),
  `OneHandset` (while the input directory it looks at is that of the handset in the
  port, all found so far belongs to that handset) and `SureOK` (while nothing has
  changed, all directories passed by did not match). `ChangedKeeps` is the one
  lemma for everything the environment does.
* `DiscoveryTypes`, `WholeWhenFound`, `OneWhenFound`, `NoneMissed` follow.

### Only model-checked

* All liveness (`DueTimerServed`, `InputServed`, `StopHeardPolling`,
  `UnpluggedEnds`, `PluggedServed`, `DateReturns`, `BlinkGoesOn`,
  `FoundInTheEnd`): out of the prover's reach, as is `ENABLED`.

## 5. What is not modelled

* liblinphone: external. What it reports in which order is taken from how
  `lpcontrol.c` and `ylcontrol.c` use it. A command reports synchronously; the
  core goes to `CALL_IDLE` right after `CALL_END` and `CALL_ERROR`; there is one
  call at a time.
* The work-around for linphone up to 2.1.1; DTMF and the volume keys;
  dial tone, back light, call-type mark, PSTN mode; copying of ring tone files.
  In `Handset` callers are numbers or withheld; `CallerId` says which number, the
  URL parser of osip being external.
* `kshift`: the # key is one digit with its shift events. `off_hook` of the desk
  phones only decides on the dial tone.
* In `MainLoop` the exception set of `select`, removal by a single id (its callers
  use groups), and `yp_ml_reschedule_periodic_timer`, which is not
  implemented and aborts. The clock may stand still or jump ahead, but is never set
  back, and a write to the wakeup pipe never finds it full.
* In `Display` a pass calls timers that were due when it began; that the loop also
  calls those due in the next 50 ms is less than the unit of time. The ringer's
  minimum time is in `Handset`. Callbacks later than `MaxLate`: after a long
  suspension the LED's one-shot timers pile up, one per missed period, until the
  first of them runs, and the list may then have to grow.
* In `Config`: comments and blank lines, which the first write drops; lines of
  256 characters and more, which are read as two; bytes above 127 (blanks to the
  code where `char` is signed); a national access code that is longer than a number;
  a second `ypconfig_read`, which nobody calls; failing allocations. An access code
  with quotes of its own counts as one without. A value with quotes of its own and a
  text that begins with '=' is taken to keep its need of quotes when it loses its own
  (`ConfigLine`); `SavedKept` leaves out such values.
* In `Discovery`: unplugging is one step, though the kernel removes file after
  file; an error other than "not there" in the middle of the search (it ends
  the program as `OpenFails` does); ids of 40 characters, which do not leave
  room for their terminating zero (`ylsysfs.c:242`); failing allocations; other input
  devices, which might take over the number of an event device; a handset without its
  `model` file.
* The display shows the last twelve characters of a longer number
  (`ylcontrol.c:89-100`); `Handset` shows all of it.
* Writing the control files: it changes the handset only, and its result is not
  looked at.
* Stored numbers too long for the buffers, which only a file edited by hand holds.
* What becomes of the first core when a long red key between the unplugging of the
  handset and the next session has made one: the second one takes its place
  (`lpstates_data.core_state`), the first is never destroyed. `Session` has it, with
  its two polling timers.

## 6. Plan

Done, in this order: `TimerAlign`, `EventSet`, `MainLoop` with its refinement and
proofs, `Handset` with its proofs, `Session`, `Display`; then `AlignedTimers` over
the whole loop with its proofs, `CallerId`, `Config` with `Settings` and
`Discovery`, each with their proofs.

Next:

1. Composition of `EventSet` with the program's own callbacks (polling, long key,
   LED, date, minimum ringing): that the list never has more than ten entries,
   so `realloc` never moves it, as a theorem from `TimersFit` and `CoreAlwaysLeftAlone`;
   and finding 1 in the program's own terms.
2. Further properties of the store and recall modes in `Handset`; numbers from
   `Config`.
