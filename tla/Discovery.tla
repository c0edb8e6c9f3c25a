----------------------------- MODULE Discovery ------------------------------
(***************************************************************************)
(* src/ylsysfs.c and the loop in main that calls it: the search of /sys    *)
(* for a handset, while handsets are being plugged in and out.             *)
(*                                                                         *)
(* Each read of a directory or file is a step of its own.  In between the  *)
(* kernel registers a handset piece by piece: the directory of the driver, *)
(* the input device with its id, the event device, the node in /dev, and,  *)
(* by a driver of its own, the sound card.  Unplugging takes everything    *)
(* away at once.  Allocation does not fail.                                *)
(***************************************************************************)
EXTENDS Integers, FiniteSets

CONSTANTS
  Ports,         (* USB ports: the directories below the yealink driver    *)
  Handsets,      (* handsets a user has                                    *)
  Uniq,          (* the id of each handset                                 *)
  ModelFile,     (* what its model file says: [name, starred], or NoFile   *)
  NoFile,        (* older drivers have no model file                       *)
  Ids,           (* ids given with --id                                    *)
  Nobody,        (* no handset, no id, no path                             *)
  MaxPlugs       (* bound: times a handset is plugged in                   *)

ModelNames == {"P1K", "P4K", "B2K", "B3G", "P1KH"}

ASSUME DiscoveryAssumption ==
  /\ ModelFile \in [Handsets -> [name : ModelNames, starred : BOOLEAN] \cup {NoFile}]
  /\ NoFile \notin [name : ModelNames, starred : BOOLEAN]
  /\ DOMAIN Uniq = Handsets
  /\ Nobody \notin Ports /\ Nobody \notin Handsets /\ Nobody \notin Ids
  /\ MaxPlugs \in Nat

VARIABLES
  port,          (* what is plugged into each port                         *)
  plugs,         (* handsets plugged in so far; numbers the input devices  *)
  options,       (* cmdline_opts                                           *)
  pc,            (* where main and the search are                          *)
  listed,        (* ports that were there when the directory was opened    *)
  seen,          (* ports readdir has returned                             *)
  input,         (* number of the inputX directory being looked at         *)
  pathSysfs,     (* module_data.path_sysfs: a port                         *)
  pathEvent,     (* module_data.path_event: an event number, or 0          *)
  alsaCard,      (* module_data.alsa_card: named by the plugging, or 0     *)
  model,         (* module_data.model                                      *)
  ledInverted,   (* module_data.led_inverted                               *)
  session,       (* plugging whose event device the session reads, or 0    *)
  sure           (* was a complete handset there, and nothing changed,     *)
                 (* since the search began?                                *)

deviceVars == <<port, plugs>>
moduleVars == <<pathSysfs, pathEvent, alsaCard, model, ledInverted>>
searchVars == <<listed, seen, input>>
vars == <<deviceVars, moduleVars, searchVars, options, pc, session, sure>>

-----------------------------------------------------------------------------
(* What there is in /sys                                                   *)

\* Stages of registration: the driver's directory, then these.
InputStage == 1
EventStage == 2
NodeStage  == 3

Connected(h, n)  == [handset |-> h, number |-> n, stage |-> 0, event |-> 0, sound |-> FALSE]
Registered(d, e) == [handset |-> d.handset, number |-> d.number, stage |-> d.stage + 1,
                     event |-> e, sound |-> d.sound]
Empty == Connected(Nobody, 0)

Plugged == {p \in Ports : port[p].handset # Nobody}

EventsInUse == {port[p].event : p \in Ports} \ {0}

\* The kernel gives out the lowest free number, and so again those of
\* handsets that are gone.
FreeEvent ==
  LET free == 1..MaxPlugs \ EventsInUse
  IN  {n \in free : \A m \in free : n <= m}

Wanted(h) == options.uniq = Nobody \/ Uniq[h] = options.uniq

Complete(p) == p \in Plugged /\ port[p].stage = NodeStage /\ port[p].sound

Settled == \A p \in Plugged : Complete(p)

Present == Settled /\ \E p \in Plugged : Wanted(port[p].handset)

-----------------------------------------------------------------------------
\* parse_args; the driver is loaded when the first handset is plugged in.
Init ==
  /\ port = [p \in Ports |-> Empty] /\ plugs = 0
  /\ options \in [uniq : Ids \cup {Nobody}, wait : BOOLEAN]
  /\ pc = "open" /\ listed = {} /\ seen = {} /\ input = 0
  /\ pathSysfs = Nobody /\ pathEvent = 0 /\ alsaCard = 0
  /\ model = "UNKNOWN" /\ ledInverted = FALSE
  /\ session = 0 /\ sure = FALSE

(* The user and the kernel *)

Changed(p, device) == /\ port' = [port EXCEPT ![p] = device]
                      /\ sure' = FALSE
                      /\ UNCHANGED <<moduleVars, searchVars, options, pc, session>>

Plug(p, h) ==
  /\ p \notin Plugged /\ \A q \in Ports : port[q].handset # h
  /\ plugs < MaxPlugs /\ plugs' = plugs + 1
  /\ Changed(p, Connected(h, plugs + 1))

Register(p) ==
  /\ p \in Plugged /\ port[p].stage < NodeStage
  /\ \E e \in IF port[p].stage + 1 = EventStage THEN FreeEvent ELSE {port[p].event} :
       Changed(p, Registered(port[p], e))
  /\ UNCHANGED plugs

RegisterSound(p) ==
  /\ p \in Plugged /\ ~port[p].sound
  /\ Changed(p, [port[p] EXCEPT !.sound = TRUE])
  /\ UNCHANGED plugs

Unplug(p) == p \in Plugged /\ Changed(p, Empty) /\ UNCHANGED plugs

-----------------------------------------------------------------------------
(* find_input_dir and check_input_dir                                      *)

\* ylsysfs_find_device returns -ENOENT, and main waits, or gives up.
NotFound == pc' = IF options.wait THEN "sleep" ELSE "exit"

\* free_and_leave
PathsFreed == pathSysfs' = Nobody /\ pathEvent' = 0

\* An error in one directory ends the search in the others.
Failed == PathsFreed /\ NotFound /\ UNCHANGED <<alsaCard, model, ledInverted, input>>

OpenBase ==
  /\ pc = "open"
  /\ IF plugs = 0 THEN NotFound /\ UNCHANGED <<listed, seen, sure>>
     ELSE pc' = "list" /\ listed' = Plugged /\ seen' = {} /\ sure' = Present
  /\ UNCHANGED <<deviceVars, moduleVars, input, options, session>>

\* opendir fails with something else than ENOENT, and main leaves its loop.
OpenFails ==
  /\ pc = "open" /\ pc' = "exit"
  /\ UNCHANGED <<deviceVars, moduleVars, searchVars, options, session, sure>>

ListPort(p) ==
  /\ pc = "list" /\ pc' = "input"
  /\ p \in Plugged \ seen
  /\ seen' = seen \cup {p}
  /\ pathSysfs' = p /\ pathEvent' = 0
  /\ UNCHANGED <<deviceVars, alsaCard, model, ledInverted, listed, input, options, session, sure>>

\* The last mismatch has left 0, which the caller takes for success.
ListEnd ==
  /\ pc = "list" /\ listed \cap Plugged \subseteq seen
  /\ IF seen = {} THEN NotFound ELSE pc' = "card"
  /\ UNCHANGED <<deviceVars, moduleVars, searchVars, options, session, sure>>

FindInput ==
  /\ pc = "input"
  /\ IF port[pathSysfs].stage >= InputStage
     THEN /\ input' = port[pathSysfs].number
          /\ pc' = IF options.uniq = Nobody THEN "event" ELSE "uniq"
          /\ UNCHANGED moduleVars
     ELSE Failed
  /\ UNCHANGED <<deviceVars, listed, seen, options, session, sure>>

\* The inputX directory is still that of the handset plugged in.
SameInput == port[pathSysfs].number = input

\* Mutation: the id is not what decides.
MatchingAny == SameInput

Matching == SameInput /\ Uniq[port[pathSysfs].handset] = options.uniq

\* Mutation: a mismatch is an error like the others.
MismatchFatal == Failed

Mismatch == PathsFreed /\ pc' = "list" /\ UNCHANGED <<alsaCard, model, ledInverted, input>>

ReadUniq ==
  /\ pc = "uniq"
  /\ IF Matching THEN pc' = "event" /\ UNCHANGED <<moduleVars, input>> ELSE Mismatch
  /\ UNCHANGED <<deviceVars, listed, seen, options, session, sure>>

FindEvent ==
  /\ pc = "event"
  /\ IF SameInput /\ port[pathSysfs].stage >= EventStage
     THEN /\ pathEvent' = port[pathSysfs].event /\ pc' = "node"
          /\ UNCHANGED <<pathSysfs, alsaCard, model, ledInverted, input>>
     ELSE Failed
  /\ UNCHANGED <<deviceVars, listed, seen, options, session, sure>>

\* The ports whose handset has the node pathEvent.  Only handsets have event nodes
\* here; that another input device takes over a number is not modelled.
NodeOf == {p \in Plugged : port[p].stage = NodeStage /\ port[p].event = pathEvent}

StatNode ==
  /\ pc = "node"
  /\ IF NodeOf # {} THEN pc' = "card" /\ UNCHANGED <<moduleVars, input>> ELSE Failed
  /\ UNCHANGED <<deviceVars, listed, seen, options, session, sure>>

-----------------------------------------------------------------------------
(* find_alsa_card, determine_model and main                                *)

\* Mutation: the card of an earlier search is still there.
CardKept == IF pathSysfs # Nobody /\ port[pathSysfs].sound THEN port[pathSysfs].number ELSE alsaCard

\* Mutation: the error code is left where the number belongs.
CardOrError == IF pathSysfs # Nobody /\ port[pathSysfs].sound THEN port[pathSysfs].number ELSE -2

\* The sound card beside the interface, if there is a path to look beside.
Card == IF pathSysfs # Nobody /\ port[pathSysfs].sound THEN port[pathSysfs].number ELSE 0

FindCard ==
  /\ pc = "card"
  /\ alsaCard' = Card
  /\ IF alsaCard' # 0 THEN pc' = "model" ELSE NotFound
  /\ UNCHANGED <<deviceVars, searchVars, pathSysfs, pathEvent, model, ledInverted, options, session, sure>>

ModelText == IF pathSysfs \in Plugged THEN ModelFile[port[pathSysfs].handset] ELSE NoFile

\* Which model a model file stands for; some have only been known to drivers
\* that write the name alone.
ModelOf(text) ==
  IF text = NoFile \/ text = [name |-> "P1KH", starred |-> TRUE] THEN "P1K"
  ELSE IF text = [name |-> "B3G", starred |-> TRUE] THEN "UNKNOWN" ELSE text.name

InvertedOf(text) == text = NoFile \/ text.starred

DetermineModel ==
  /\ pc = "model" /\ pc' = "found"
  /\ model' = ModelOf(ModelText) /\ ledInverted' = InvertedOf(ModelText)
  /\ UNCHANGED <<deviceVars, searchVars, pathSysfs, pathEvent, alsaCard, options, session, sure>>

Wake ==
  /\ pc = "sleep" /\ pc' = "open"
  /\ UNCHANGED <<deviceVars, moduleVars, searchVars, options, session, sure>>

\* start_ylcontrol opens the event device, or aborts.
StartSession ==
  /\ pc = "found"
  /\ IF NodeOf = {} THEN pc' = "aborted" /\ UNCHANGED session
     ELSE pc' = "session" /\ \E p \in NodeOf : session' = port[p].number
  /\ UNCHANGED <<deviceVars, moduleVars, searchVars, options, sure>>

\* The handset was unplugged, yp_ml_run has returned 0, and main searches again.
EndSession ==
  /\ pc = "session" /\ \A p \in Ports : port[p].number # session
  /\ pc' = "open" /\ session' = 0
  /\ UNCHANGED <<deviceVars, moduleVars, searchVars, options, sure>>

Search ==
  \/ OpenBase \/ ListEnd \/ FindInput \/ ReadUniq \/ FindEvent \/ StatNode
  \/ FindCard \/ DetermineModel \/ Wake \/ StartSession \/ EndSession
  \/ \E p \in Ports : ListPort(p)

Environment ==
  \/ \E p \in Ports, h \in Handsets : Plug(p, h)
  \/ \E p \in Ports : Register(p) \/ RegisterSound(p) \/ Unplug(p)

Next == Search \/ OpenFails \/ Environment

Spec == Init /\ [][Next]_vars

\* main goes on; nothing is assumed of users and of the kernel.
FairSpec == Spec /\ WF_vars(Search)

-----------------------------------------------------------------------------
Device == [handset : Handsets \cup {Nobody}, number : Nat, stage : 0..NodeStage,
           event : Nat, sound : BOOLEAN]

TypeOK ==
  /\ port \in [Ports -> Device] /\ plugs \in Nat
  /\ options \in [uniq : Ids \cup {Nobody}, wait : BOOLEAN]
  /\ pc \in {"open", "list", "input", "uniq", "event", "node", "card", "model", "found",
             "session", "sleep", "exit", "aborted"}
  /\ listed \subseteq Ports /\ seen \subseteq Ports /\ input \in Nat
  /\ pathSysfs \in Ports \cup {Nobody} /\ pathEvent \in Nat /\ alsaCard \in Nat
  /\ model \in ModelNames \cup {"UNKNOWN"} /\ ledInverted \in BOOLEAN
  /\ session \in Nat /\ sure \in BOOLEAN

\* A search that succeeds has found all parts: with a mismatch in the last
\* directory find_input_dir returns 0 as well (ylsysfs.c:340-346), and what is
\* left of earlier searches is not taken for found.
FoundIsWhole ==
  pc = "found" => /\ pathSysfs # Nobody /\ pathEvent # 0 /\ alsaCard # 0
                  /\ pathSysfs \in seen /\ input # 0

\* And they are the parts of one handset, one that was asked for, unless it
\* was unplugged before the search was over: the input device is found by a
\* name that is used once, the others by the port and by an event number.
FoundIsOne ==
  pc = "found" /\ pathSysfs \in Plugged /\ port[pathSysfs].number = input =>
    /\ Wanted(port[pathSysfs].handset)
    /\ NodeOf = {pathSysfs}
    /\ alsaCard = input
    /\ model = ModelOf(ModelFile[port[pathSysfs].handset])
    /\ ledInverted = InvertedOf(ModelFile[port[pathSysfs].handset])

\* A complete handset that was asked for is not missed, whatever order the
\* directory is read in and whichever handsets are connected beside it,
\* complete ones that do not match included.
NotMissed == pc \in {"sleep", "exit"} => ~sure

\* With --wait the search finds it in the end, once all registrations are
\* complete and nobody plugs or unplugs any more.  (An incomplete handset in
\* another port may keep it from being found: ylsysfs.c:336.)
FoundInTheEnd ==
  options.wait /\ <>[]Present => <>[](pc \in {"session", "exit", "aborted"})
=============================================================================
