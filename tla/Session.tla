------------------------------- MODULE Session ------------------------------
(***************************************************************************)
(* src/yeaphone.c with start_ylcontrol and stop_ylcontrol of               *)
(* src/ylcontrol.c: the sessions of the program, from the moment a handset *)
(* is found until it is unplugged, and the signals that ask it to exit.    *)
(* What happens inside a session is the Handset module; here the user may  *)
(* also unplug the handset at any time.                                    *)
(*                                                                         *)
(* A pass of the main loop serves io first and due timers after it, and    *)
(* looks at is_running only then: a timer of the handset may still expire  *)
(* after yp_ml_stop was called.                                            *)
(***************************************************************************)
EXTENDS Handset

CONSTANTS
  WaitForDevice,   (* was the program started with --wait?                 *)
  MaxSignals       (* bound: signals sent to the program                   *)

ASSUME SessionAssumption == WaitForDevice \in BOOLEAN /\ MaxSignals \in Nat

VARIABLES
  main,            (* where main is                                        *)
  plugged,         (* is a handset connected?                              *)
  evfd,            (* the event device: "none", "good", or "dead" once the *)
                   (* handset it belongs to is gone                        *)
  signals          (* signals sent so far                                  *)

sessionVars == <<main, plugged, evfd, signals>>
allVars     == <<vars, sessionVars>>

Handsets == {Powerless(model) : model \in Models}

SessionInit ==
  /\ phone \in Handsets /\ held = "none"
  /\ main = "find" /\ plugged \in BOOLEAN /\ evfd = "none" /\ signals = 0

-----------------------------------------------------------------------------
(* main                                                                    *)

\* ylsysfs_find_device, for a handset that is there as a whole or not at all; what
\* one that is still registering does to the search is the Discovery module's matter.
FindDevice ==
  /\ main = "find"
  /\ main' = IF plugged THEN "start" ELSE IF WaitForDevice THEN "find" ELSE "exit"
  /\ UNCHANGED <<vars, plugged, evfd, signals>>

\* It returns an error other than -ENOENT.
SearchFails ==
  /\ main = "find"
  /\ main' = "exit"
  /\ UNCHANGED <<vars, plugged, evfd, signals>>

\* Mutation: a shutdown of the session before is still under way.
FreshKeepingShutdown(p) == p

\* start_ylcontrol resets these only.
Fresh(p) == [p EXCEPT !.hardShutdown = FALSE]

(***************************************************************************)
(* start_lpcontrol and start_ylcontrol.  The program aborts when the event *)
(* device cannot be opened any more, or is still grabbed.  The entry of a  *)
(* dead descriptor would have its callback read the new one, and block.    *)
(***************************************************************************)
StartSession ==
  /\ main = "start"
  /\ phone' = [Fresh(Startup(phone)) EXCEPT !.broken = evfd = "dead"]
  /\ main' = IF plugged /\ evfd # "good" THEN "ready" ELSE "aborted"
  /\ evfd' = IF plugged THEN "good" ELSE evfd
  /\ UNCHANGED <<held, plugged, signals>>

\* yp_ml_run sets is_running.
Run ==
  /\ main = "ready"
  /\ main' = "loop"
  /\ phone' = [phone EXCEPT !.stopping = FALSE]
  /\ UNCHANGED <<held, plugged, evfd, signals>>

\* yp_ml_run returns 0.
Leave ==
  /\ main = "loop" /\ phone.stopping
  /\ main' = "left"
  /\ UNCHANGED <<vars, plugged, evfd, signals>>

\* Mutation: the timers are removed, but nothing is hidden.
ClearedTimersOnly(p) == p

\* yldisp_clear
Cleared(p) == HideAll(p)

\* ylcontrol_started is reset.
Again ==
  /\ main = "left"
  /\ main' = "find"
  /\ phone' = Cleared(phone)
  /\ UNCHANGED <<held, plugged, evfd, signals>>

-----------------------------------------------------------------------------
(* The end of a session                                                    *)

\* Mutation: with the power off already there is nothing to do.
StopYlcontrolOnceOn(p, r) ==
  LET q == [p EXCEPT !.hardShutdown = TRUE]
  IN  IF r.power = "OFF" THEN HideAll(q) ELSE Shutdown(q)

\* Mutation: the core is shut down also when the power is off.
StopYlcontrolAlways(p, r) == Shutdown([p EXCEPT !.hardShutdown = TRUE])

StopYlcontrol(p, r) ==
  LET q == [p EXCEPT !.hardShutdown = TRUE]
  IN  IF r.power = "OFF" THEN [HideAll(q) EXCEPT !.stopping = TRUE] ELSE Shutdown(q)

InLoop == main = "loop" /\ Working

\* ylcontrol_io_callback cannot read from the event device, and closes it.
IoError ==
  /\ InLoop /\ ~phone.stopping /\ evfd = "dead"
  /\ \E r \in Reads(phone) : phone' = StopYlcontrol(phone, r)
  /\ evfd' = "none"
  /\ UNCHANGED <<held, main, plugged, signals>>

\* terminate while the loop waits: select is interrupted, yp_ml_run returns an
\* error, and main leaves.
SignalInSelect ==
  /\ InLoop /\ ~phone.stopping /\ signals < MaxSignals
  /\ \E r \in Reads(phone) : phone' = StopYlcontrol(phone, r)
  /\ main' = "exit"
  /\ signals' = signals + 1
  /\ UNCHANGED <<held, plugged, evfd>>

\* terminate at another moment while ylcontrol_started is set.
SignalInSession ==
  /\ main \in {"ready", "loop", "left"} /\ Working /\ signals < MaxSignals
  /\ \E r \in Reads(phone) : phone' = StopYlcontrol(phone, r)
  /\ signals' = signals + 1
  /\ UNCHANGED <<held, main, plugged, evfd>>

\* terminate without a session: the default handler ends the program.
SignalOutside ==
  /\ main \in {"find", "start"} /\ signals < MaxSignals
  /\ main' = "exit"
  /\ signals' = signals + 1
  /\ UNCHANGED <<vars, plugged, evfd>>

-----------------------------------------------------------------------------
(* The user and the session                                                *)

Unplug ==
  /\ plugged /\ plugged' = FALSE
  /\ held' = "none"
  /\ evfd' = IF evfd = "good" THEN "dead" ELSE evfd
  /\ UNCHANGED <<phone, main, signals>>

Plug ==
  /\ ~plugged /\ plugged' = TRUE
  /\ UNCHANGED <<vars, main, evfd, signals>>

HandsetEvent ==
  /\ main = "loop"
  /\ \/ ~phone.stopping /\ evfd = "good" /\ KeyEvent
     \/ ~phone.stopping /\ CoreEvent
     \/ LongKey \/ MinRingOver
  /\ UNCHANGED sessionVars

MainStep == FindDevice \/ SearchFails \/ StartSession \/ Run \/ IoError \/ Leave \/ Again

SessionNext ==
  \/ MainStep
  \/ SignalInSelect \/ SignalInSession \/ SignalOutside
  \/ Unplug \/ Plug
  \/ HandsetEvent

SessionSpec == SessionInit /\ [][SessionNext]_allVars

\* main, select and the callbacks go on; keys, calls, plugs and signals need not, and
\* no search has to fail.
FairSession ==
  /\ SessionSpec
  /\ WF_allVars(FindDevice) /\ WF_allVars(StartSession) /\ WF_allVars(Run)
  /\ WF_allVars(IoError) /\ WF_allVars(Leave) /\ WF_allVars(Again)

-----------------------------------------------------------------------------
(* Properties                                                              *)

\* A session ends only when the handset is gone or a signal came, never by the
\* long red key, in whatever state the session before was left; and it leaves no
\* event device grabbed, which would make the next one abort (yeaphone.c:166-174,
\* ylcontrol.c:799-811, 862-882).
EndsOnlyWhenGone ==
  main \in {"left", "find", "start"} /\ signals = 0 => evfd = "none"

\* Between two sessions the handset is dark and silent (yeaphone.c:174), even when
\* the red key started the phone again on the way out.
DarkBetweenSessions ==
  main \in {"find", "start"} =>
    phone.text = Word("blank") /\ phone.led = "off" /\ ~phone.ringing

\* A core that was destroyed is left alone, in any session: no timer polls it, and as
\* long as its memory still reads as it was left, its last states keep every key, hook
\* and shutdown that comes in later from commanding it through the old pointer.  One
\* that lives is polled by one timer or two: the second when the red key started the
\* phone again on the way out of a session and the next one starts it too.  Without a
\* signal no session begins with the entry of a dead event device either, the other way
\* to be broken (lpcontrol.c:210-223, 300-311, ylcontrol.c:289-295, 890-908).
PolledWhileAlive == (phone.alive <=> phone.polling > 0) /\ phone.polling <= 2
Unharmed         == FreedKept /\ signals = 0 => ~phone.broken
CoreLeftAlone    == PolledWhileAlive /\ Unharmed

\* What holds of a phone in one session (Handset) holds in all of them, whatever the
\* one before left in display, ringer and core (ylcontrol.c:862-908, yldisp.c:68-76).
RightInEverySession == ShownIsDialled /\ LedShowsRegistration /\ RingingEnds

\* A session whose handset is gone comes to an end, whether or not the phone was
\* switched on (ylcontrol.c:794-812, 890-908).
UnpluggedEnds == (main = "loop" /\ evfd = "dead") ~> (main # "loop" \/ phone.broken)

\* A handset that stays connected gets its session, with --wait or without having
\* been missed.
PluggedServed ==
  <>[](plugged /\ main \notin {"exit", "aborted"} /\ ~phone.broken) 
    => <>[](main = "loop" /\ evfd = "good")

\* A signal that is caught leads to a graceful exit: no further session begins, neither
\* because the signal ended only the session nor, when the handset is plugged in
\* again, because Run made nothing of it (yeaphone.c:122-132, 141, 166-175).
GracefulExit ==
  [][signals > 0 => main' # "start"]_allVars
=============================================================================
