--------------------------- MODULE DiscoveryProofs --------------------------
(***************************************************************************)
(* The search of src/ylsysfs.c, for any number of handsets and ports, and  *)
(* any order in which they are plugged, registered and read: what it finds *)
(* is whole and belongs to one handset, and none is missed.                *)
(***************************************************************************)
EXTENDS Discovery, TLAPS

\* Handsets in /sys have numbers that were given out, and an event device that
\* no other has, from the stage on at which it is registered.
DevicesOK ==
  /\ \A p \in Ports : port[p] = Empty \/ (p \in Plugged /\ port[p].number \in 1..plugs)
  /\ \A p \in Plugged : /\ port[p].number # 0
                        /\ port[p].event # 0 <=> port[p].stage >= EventStage
  /\ \A p, q \in Plugged : port[p].event = port[q].event /\ port[p].event # 0 => p = q
  /\ input <= plugs

\* What the search has, or has given back, at each of its steps.
Unopened == pathSysfs = Nobody /\ pathEvent = 0
Opened   == pathSysfs \in seen /\ input # 0

PhaseOK ==
  /\ pc = "list" /\ seen # {} => Unopened
  /\ pc = "input" => pathSysfs \in seen
  /\ pc \in {"uniq", "event"} => Opened
  /\ pc = "uniq" => options.uniq # Nobody
  /\ pc \in {"node", "model", "found"} => Opened /\ pathEvent # 0
  /\ pc = "card" => Unopened \/ (Opened /\ pathEvent # 0)
  /\ pc \in {"model", "found"} => alsaCard # 0

\* The handset the search looks at has not been unplugged.
Same == pathSysfs \in Plugged /\ port[pathSysfs].number = input

\* All that has been read belongs to it.
OneHandset ==
  Same =>
    /\ pc \in {"event", "node", "card", "model", "found"} => Wanted(port[pathSysfs].handset)
    /\ pc \in {"node", "card", "model", "found"} => port[pathSysfs].event = pathEvent
    /\ pc \in {"card", "model", "found"} => port[pathSysfs].stage = NodeStage
    /\ pc \in {"model", "found"} => alsaCard = input
    /\ pc = "found" => /\ model = ModelOf(ModelFile[port[pathSysfs].handset])
                       /\ ledInverted = InvertedOf(ModelFile[port[pathSysfs].handset])

\* The ports that have been given up.
Passed == IF pc \in {"input", "uniq"} THEN seen \ {pathSysfs} ELSE seen

\* While nothing changes, the ports passed are not those asked for, and
\* nothing that is read fails.
SureOK ==
  sure =>
    /\ Present /\ seen \subseteq Plugged /\ listed = Plugged
    /\ pc \in {"list", "input", "uniq"} => \A q \in Passed : ~Wanted(port[q].handset)
    /\ pc \in {"uniq", "event", "node", "card", "model", "found"} => Same
    /\ pc = "node" => port[pathSysfs].event = pathEvent
    /\ pc = "found" => NodeOf # {}
    /\ pc = "session" => \E p \in Plugged : port[p].number = session
    /\ pc \notin {"open", "sleep", "exit"}

IInv == TypeOK /\ DevicesOK /\ PhaseOK /\ OneHandset /\ SureOK

-----------------------------------------------------------------------------
(* The environment                                                         *)

LEMMA EmptyType == Empty \in Device /\ Empty.handset = Nobody /\ Empty.number = 0
BY DEF Empty, Connected, Device, NodeStage

LEMMA ConnectedType ==
  ASSUME NEW h \in Handsets, NEW n \in Nat
  PROVE  /\ Connected(h, n) \in Device /\ Connected(h, n).handset = h
         /\ Connected(h, n).number = n /\ Connected(h, n).event = 0 /\ Connected(h, n).stage = 0
BY DEF Connected, Device, NodeStage

LEMMA RegisteredType ==
  ASSUME NEW d \in Device, d.stage < NodeStage, NEW e \in Nat
  PROVE  /\ Registered(d, e) \in Device /\ Registered(d, e).handset = d.handset
         /\ Registered(d, e).number = d.number /\ Registered(d, e).stage = d.stage + 1
         /\ Registered(d, e).event = e
<1>1. /\ d.handset \in Handsets \cup {Nobody} /\ d.number \in Nat /\ d.stage + 1 \in 0..NodeStage
      /\ d.sound \in BOOLEAN
  BY DEF Device, NodeStage
<1>. QED  BY <1>1 DEF Registered, Device

\* A change of one port, whatever the search is doing.
LEMMA ChangedKeeps ==
  ASSUME IInv, NEW p \in Ports, NEW d \in Device, Changed(p, d), plugs' \in Nat, plugs <= plugs',
         d = Empty \/ (d.handset # Nobody /\ d.number \in 1..plugs'),
         d.handset # Nobody => /\ d.number # 0
                               /\ d.event # 0 <=> d.stage >= EventStage
                               /\ d.event # 0 => \A q \in Plugged \ {p} : port[q].event # d.event,
         d.number = 0 \/ d.number > plugs
           \/ /\ p \in Plugged /\ d.number = port[p].number /\ d.handset = port[p].handset
              /\ port[p].stage >= EventStage => d.event = port[p].event
              /\ port[p].stage = NodeStage => d.stage = NodeStage
  PROVE  IInv'
<1>1. /\ port' = [port EXCEPT ![p] = d] /\ sure' = FALSE
      /\ UNCHANGED <<pathSysfs, pathEvent, alsaCard, model, ledInverted, listed, seen, input,
                     options, pc, session>>
  BY DEF Changed, moduleVars, searchVars
<1>2. port \in [Ports -> Device] /\ port'[p] = d /\ \A q \in Ports \ {p} : port'[q] = port[q]
  BY <1>1 DEF IInv, TypeOK
<1>3. TypeOK'
  BY <1>1 DEF IInv, TypeOK
<1>4. /\ Plugged' = IF d.handset = Nobody THEN Plugged \ {p} ELSE Plugged \cup {p}
      /\ plugs \in Nat /\ input \in Nat
  BY <1>1, <1>2 DEF IInv, TypeOK, Plugged
<1>5. DevicesOK'
  <2>1. \A q \in Ports : port'[q] = Empty \/ (q \in Plugged' /\ port'[q].number \in 1..plugs')
    BY <1>2, <1>4 DEF IInv, DevicesOK
  <2>2. \A q \in Plugged' : port'[q].number # 0 /\ (port'[q].event # 0 <=> port'[q].stage >= EventStage)
    BY <1>2, <1>4 DEF IInv, DevicesOK, Plugged
  <2>3. \A q, r \in Plugged' : port'[q].event = port'[r].event /\ port'[q].event # 0 => q = r
    BY <1>2, <1>4 DEF IInv, DevicesOK, Plugged
  <2>4. input' <= plugs'
    BY <1>1, <1>4 DEF IInv, DevicesOK
  <2>. QED  BY <2>1, <2>2, <2>3, <2>4 DEF DevicesOK
<1>6. PhaseOK'
  BY <1>1 DEF IInv, PhaseOK, Unopened, Opened
<1>7. OneHandset'
  <2>1. CASE p # pathSysfs
    <3>1. Same' => Same /\ port'[pathSysfs] = port[pathSysfs]
      BY <1>1, <1>2, <1>4, <2>1 DEF Same, Plugged
    <3>. QED  BY <1>1, <2>1, <3>1 DEF IInv, OneHandset, Wanted
  <2>2. CASE p = pathSysfs
    <3>. SUFFICES ASSUME Same' PROVE OneHandset'
      BY DEF OneHandset
    <3>1. d.handset # Nobody /\ d.number = input /\ d.number # 0 /\ ~(d.number > plugs)
      BY <1>1, <1>2, <1>4, <2>2 DEF Same, Plugged, IInv, DevicesOK
    <3>2. Same /\ d.handset = port[p].handset
      BY <2>2, <3>1 DEF Same
    <3>3. port[p].event # 0 <=> port[p].stage >= EventStage
      BY <2>2, <3>2 DEF Same, IInv, DevicesOK
    <3>4. /\ pc \in {"node", "card", "model", "found"} => d.event = pathEvent
          /\ pc \in {"card", "model", "found"} => d.stage = NodeStage
      BY <2>2, <3>1, <3>2, <3>3 DEF IInv, OneHandset, PhaseOK, Unopened, Same
    <3>. QED  BY <1>1, <1>2, <2>2, <3>2, <3>4 DEF IInv, OneHandset, Wanted
  <2>. QED  BY <2>1, <2>2
<1>8. SureOK'
  BY <1>1 DEF SureOK
<1>. QED  BY <1>3, <1>5, <1>6, <1>7, <1>8 DEF IInv

LEMMA EnvironmentStep ==
  ASSUME IInv, Environment
  PROVE  IInv'
<1>1. ASSUME NEW p \in Ports, NEW h \in Handsets, Plug(p, h) PROVE IInv'
  <2>. DEFINE d == Connected(h, plugs + 1)
  <2>1. plugs \in Nat /\ plugs' = plugs + 1 /\ Changed(p, d)
    BY <1>1 DEF Plug, IInv, TypeOK
  <2>2. d \in Device /\ d.handset = h /\ d.number = plugs + 1 /\ d.event = 0 /\ d.stage = 0
    BY <2>1, ConnectedType
  <2>3. h # Nobody
    BY DiscoveryAssumption
  <2>. HIDE DEF d
  <2>. QED  BY <2>1, <2>2, <2>3, ChangedKeeps DEF EventStage
<1>2. ASSUME NEW p \in Ports, Register(p) PROVE IInv'
  <2>1. PICK e \in IF port[p].stage + 1 = EventStage THEN FreeEvent ELSE {port[p].event} :
          Changed(p, Registered(port[p], e))
    BY <1>2 DEF Register
  <2>. DEFINE d == Registered(port[p], e)
  <2>2. p \in Plugged /\ port[p] \in Device /\ port[p].stage < NodeStage /\ plugs' = plugs /\ plugs \in Nat
    BY <1>2 DEF Register, IInv, TypeOK
  <2>3. \A x \in Nat : /\ Registered(port[p], x) \in Device
                       /\ Registered(port[p], x).handset = port[p].handset
                       /\ Registered(port[p], x).number = port[p].number
                       /\ Registered(port[p], x).stage = port[p].stage + 1
                       /\ Registered(port[p], x).event = x
    BY <2>2, RegisteredType
  <2>4. port[p].event \in Nat /\ port[p].stage \in 0..NodeStage /\ port[p].stage + 1 \in 0..NodeStage
    BY <2>2 DEF Device, NodeStage
  <2>5. CASE port[p].stage + 1 = EventStage
    <3>1. e \in 1..MaxPlugs /\ e \notin EventsInUse
      BY <2>1, <2>5 DEF FreeEvent
    <3>2. e \in Nat \ {0} /\ \A q \in Ports : port[q].event # e
      BY <3>1 DEF EventsInUse
    <3>3. /\ d \in Device /\ d.handset = port[p].handset /\ d.number = port[p].number
          /\ d.stage = port[p].stage + 1 /\ d.event = e
      BY <2>2, <2>3, <2>4, <3>2
    <3>4. Changed(p, d)
      BY <2>1
    <3>5. d.number # 0 /\ d.number \in 1..plugs
      BY <2>2, <3>3, EmptyType DEF IInv, DevicesOK, Plugged
    <3>. HIDE DEF d
    <3>. QED  BY <2>2, <2>4, <2>5, <3>2, <3>3, <3>4, <3>5, ChangedKeeps
              DEF EventStage, NodeStage, Plugged
  <2>6. CASE port[p].stage + 1 # EventStage
    <3>1. e = port[p].event
      BY <2>1, <2>6
    <3>2. /\ d \in Device /\ d.handset = port[p].handset /\ d.number = port[p].number
          /\ d.stage = port[p].stage + 1 /\ d.event = port[p].event
      BY <2>2, <2>3, <2>4, <3>1
    <3>3. Changed(p, d)
      BY <2>1
    <3>4. d.number # 0 /\ d.number \in 1..plugs
      BY <2>2, <3>2, EmptyType DEF IInv, DevicesOK, Plugged
    <3>5. d.event # 0 <=> d.stage >= EventStage
      BY <2>2, <2>4, <2>6, <3>2 DEF IInv, DevicesOK, EventStage
    <3>6. d.event # 0 => \A q \in Plugged \ {p} : port[q].event # d.event
      BY <2>2, <3>2 DEF IInv, DevicesOK
    <3>. HIDE DEF d
    <3>. QED  BY <2>2, <2>4, <3>2, <3>3, <3>4, <3>5, <3>6, ChangedKeeps DEF NodeStage, Plugged
  <2>. QED  BY <2>5, <2>6
<1>3. ASSUME NEW p \in Ports, RegisterSound(p) PROVE IInv'
  <2>. DEFINE d == [port[p] EXCEPT !.sound = TRUE]
  <2>1. p \in Plugged /\ port[p] \in Device /\ plugs' = plugs /\ plugs \in Nat /\ Changed(p, d)
    BY <1>3 DEF RegisterSound, IInv, TypeOK
  <2>2. /\ d \in Device /\ d.handset = port[p].handset /\ d.number = port[p].number
        /\ d.stage = port[p].stage /\ d.event = port[p].event
    BY <2>1 DEF Device
  <2>3. d.number # 0 /\ d.number \in 1..plugs
    BY <2>1, <2>2, EmptyType DEF IInv, DevicesOK, Plugged
  <2>4. d.event # 0 <=> d.stage >= EventStage
    BY <2>1, <2>2 DEF IInv, DevicesOK
  <2>5. d.event # 0 => \A q \in Plugged \ {p} : port[q].event # d.event
    BY <2>1, <2>2 DEF IInv, DevicesOK
  <2>. HIDE DEF d
  <2>. QED  BY <2>1, <2>2, <2>3, <2>4, <2>5, ChangedKeeps DEF Plugged
<1>4. ASSUME NEW p \in Ports, Unplug(p) PROVE IInv'
  <2>1. plugs' = plugs /\ plugs \in Nat /\ Changed(p, Empty) /\ Empty.number = 0
    BY <1>4, EmptyType DEF Unplug, IInv, TypeOK
  <2>. QED  BY <2>1, EmptyType, ChangedKeeps
<1>. QED  BY <1>1, <1>2, <1>3, <1>4 DEF Environment

-----------------------------------------------------------------------------
(* The search                                                              *)

LEMMA ModelTypes ==
  ASSUME TypeOK
  PROVE  /\ ModelOf(ModelText) \in ModelNames \cup {"UNKNOWN"}
         /\ InvertedOf(ModelText) \in BOOLEAN
<1>1. ModelText = NoFile \/ ModelText \in [name : ModelNames, starred : BOOLEAN]
  <2>1. pathSysfs \in Plugged => port[pathSysfs].handset \in Handsets
    BY DEF TypeOK, Device, Plugged
  <2>. QED  BY <2>1, DiscoveryAssumption DEF ModelText
<1>2. ModelText # NoFile => ModelText.name \in ModelNames /\ ModelText.starred \in BOOLEAN
  BY <1>1
<1>3. ModelOf(ModelText) \in ModelNames \cup {"UNKNOWN"}
  BY <1>1, <1>2 DEF ModelOf, ModelNames
<1>4. InvertedOf(ModelText) \in BOOLEAN
  BY <1>1, <1>2, Zenon DEF InvertedOf
<1>. QED  BY <1>3, <1>4

LEMMA SearchTypes ==
  ASSUME IInv, Search \/ OpenFails
  PROVE  TypeOK' /\ UNCHANGED <<port, plugs, options>>
<1>. USE DEF IInv, TypeOK, PhaseOK, Opened, deviceVars, moduleVars, searchVars
<1>1. CASE OpenBase \/ OpenFails \/ ListEnd \/ Wake
  BY <1>1 DEF OpenBase, OpenFails, ListEnd, Wake, NotFound, Plugged, Present
<1>0. \A p \in Ports : port[p].event \in Nat /\ port[p].number \in Nat
  BY DEF Device
<1>2. CASE FindInput
  BY <1>0, <1>2 DEF FindInput, Failed, PathsFreed, NotFound
<1>3. CASE ReadUniq
  BY <1>3 DEF ReadUniq, Mismatch, PathsFreed
<1>4. CASE FindEvent
  BY <1>0, <1>4 DEF FindEvent, Failed, PathsFreed, NotFound
<1>5. CASE StatNode
  BY <1>5 DEF StatNode, Failed, PathsFreed, NotFound
<1>6. CASE FindCard
  BY <1>0, <1>6 DEF FindCard, NotFound, Card
<1>7. CASE DetermineModel
  BY <1>7, ModelTypes DEF DetermineModel
<1>8. CASE StartSession \/ EndSession
  BY <1>0, <1>8 DEF StartSession, EndSession, NodeOf, Plugged
<1>9. ASSUME NEW p \in Ports, ListPort(p) PROVE TypeOK' /\ UNCHANGED <<port, plugs, options>>
  BY <1>9 DEF ListPort, Plugged
<1>. QED  BY <1>1, <1>2, <1>3, <1>4, <1>5, <1>6, <1>7, <1>8, <1>9 DEF Search

LEMMA SearchLeavesDevices ==
  ASSUME IInv, Search \/ OpenFails
  PROVE  DevicesOK' /\ UNCHANGED <<port, plugs, options, Plugged>>
<1>1. UNCHANGED <<port, plugs, options>>
  BY SearchTypes
<1>2. input' = input \/ (FindInput /\ pathSysfs \in Ports /\ input' = port[pathSysfs].number)
  BY DEF Search, OpenFails, OpenBase, ListEnd, FindInput, ReadUniq, FindEvent, StatNode, FindCard,
         DetermineModel, Wake, StartSession, EndSession, ListPort, Failed, Mismatch, searchVars,
         IInv, PhaseOK, TypeOK
<1>3. input' <= plugs
  <2>1. CASE input' = input
    BY <2>1 DEF IInv, DevicesOK
  <2>2. CASE pathSysfs \in Ports /\ input' = port[pathSysfs].number
    BY <2>2, EmptyType DEF IInv, DevicesOK, TypeOK
  <2>. QED  BY <1>2, <2>1, <2>2
<1>4. Plugged' = Plugged
  BY <1>1 DEF Plugged
<1>. QED  BY <1>1, <1>3, <1>4 DEF IInv, DevicesOK

\* No step of the search takes anything that it has not found.
LEMMA SearchPhases ==
  ASSUME IInv, Search \/ OpenFails
  PROVE  PhaseOK'
<1>. USE DEF IInv, PhaseOK, Unopened, Opened, moduleVars, searchVars
<1>1. CASE OpenBase \/ OpenFails \/ ListEnd \/ Wake
  BY <1>1 DEF OpenBase, OpenFails, ListEnd, Wake, NotFound
<1>2. CASE FindInput
  <2>1. port[pathSysfs].stage >= InputStage => port[pathSysfs].number # 0
    BY <1>2, EmptyType DEF FindInput, DevicesOK, TypeOK, Empty, Connected, InputStage
  <2>. QED  BY <1>2, <2>1 DEF FindInput, Failed, PathsFreed, NotFound
<1>3. CASE ReadUniq
  BY <1>3 DEF ReadUniq, Mismatch, PathsFreed
<1>4. CASE FindEvent
  <2>1. port[pathSysfs].stage >= EventStage => port[pathSysfs].event # 0
    BY <1>4, EmptyType DEF FindEvent, DevicesOK, TypeOK, Empty, Connected, EventStage, Plugged
  <2>. QED  BY <1>4, <2>1 DEF FindEvent, Failed, PathsFreed, NotFound
<1>5. CASE StatNode
  BY <1>5 DEF StatNode, Failed, PathsFreed, NotFound
<1>6. CASE FindCard
  BY <1>6 DEF FindCard, NotFound, Card
<1>7. CASE DetermineModel
  BY <1>7 DEF DetermineModel
<1>8. CASE StartSession \/ EndSession
  BY <1>8 DEF StartSession, EndSession
<1>9. ASSUME NEW p \in Ports, ListPort(p) PROVE PhaseOK'
  BY <1>9 DEF ListPort
<1>. QED  BY <1>1, <1>2, <1>3, <1>4, <1>5, <1>6, <1>7, <1>8, <1>9 DEF Search

LEMMA SearchOneHandset ==
  ASSUME IInv, Search \/ OpenFails
  PROVE  OneHandset'
<1>. SUFFICES ASSUME Same' PROVE OneHandset'
  BY DEF OneHandset
<1>. USE DEF moduleVars, searchVars
<1>1. UNCHANGED <<port, plugs, options, Plugged>>
  BY SearchLeavesDevices
<1>2. Nobody \notin Plugged /\ pathSysfs' # Nobody
  BY <1>1, DiscoveryAssumption DEF Plugged, Same
<1>3. UNCHANGED <<pathSysfs, input>> => Same
  BY <1>1 DEF Same
<1>. USE <1>1, <1>2, <1>3
<1>4. CASE OpenBase \/ OpenFails \/ ListEnd \/ Wake
  BY <1>4 DEF OpenBase, OpenFails, ListEnd, Wake, NotFound, IInv, PhaseOK, Unopened, OneHandset
<1>5. CASE FindInput
  BY <1>5 DEF FindInput, Failed, PathsFreed, OneHandset, Wanted
<1>6. CASE ReadUniq
  BY <1>6 DEF ReadUniq, Mismatch, PathsFreed, OneHandset, Wanted, Matching
<1>7. CASE FindEvent
  BY <1>7 DEF FindEvent, Failed, PathsFreed, OneHandset, IInv, Wanted
<1>8. CASE StatNode
  <2>1. CASE NodeOf # {} /\ pc' = "card" /\ UNCHANGED <<moduleVars, input>>
    <3>1. Same /\ Wanted(port[pathSysfs].handset) /\ port[pathSysfs].event = pathEvent /\ pathEvent # 0
      BY <1>8, <2>1 DEF StatNode, IInv, OneHandset, PhaseOK
    <3>2. port[pathSysfs].stage = NodeStage
      BY <2>1, <3>1 DEF NodeOf, Same, IInv, DevicesOK
    <3>. QED  BY <2>1, <3>1, <3>2 DEF OneHandset, Wanted
  <2>. QED  BY <1>8, <2>1 DEF StatNode, Failed, PathsFreed
<1>9. CASE FindCard
  BY <1>9 DEF FindCard, NotFound, Card, OneHandset, IInv, Wanted, Same
<1>10. CASE DetermineModel
  BY <1>10 DEF DetermineModel, ModelText, OneHandset, IInv, Wanted, Same, ModelOf, InvertedOf
<1>11. CASE StartSession \/ EndSession
  BY <1>11 DEF StartSession, EndSession, OneHandset
<1>12. ASSUME NEW p \in Ports, ListPort(p) PROVE OneHandset'
  BY <1>12 DEF ListPort, OneHandset
<1>. QED  BY <1>4, <1>5, <1>6, <1>7, <1>8, <1>9, <1>10, <1>11, <1>12 DEF Search

\* Only opening the directory lists it.
LEMMA SearchListed ==
  ASSUME Search \/ OpenFails, ~OpenBase
  PROVE  listed' = listed /\ sure' = sure
BY DEF Search, OpenFails, ListEnd, FindInput, ReadUniq, FindEvent, StatNode, FindCard,
       DetermineModel, Wake, StartSession, EndSession, ListPort, searchVars

LEMMA SearchSure ==
  ASSUME IInv, Search \/ OpenFails
  PROVE  SureOK'
<1>. SUFFICES ASSUME sure' PROVE SureOK'
  BY DEF SureOK
<1>. USE DEF moduleVars, searchVars
<1>1. UNCHANGED <<port, plugs, options, Plugged>> /\ Plugged \subseteq Ports
  BY SearchLeavesDevices DEF Plugged
<1>2. Present' = Present /\ \A h : Wanted(h)' = Wanted(h)
  BY <1>1 DEF Present, Settled, Complete, Wanted
<1>3. CASE OpenBase
  <2>1. sure => pc # "open"
    BY DEF IInv, SureOK
  <2>2. pc' = "list" /\ listed' = Plugged /\ seen' = {} /\ Present
    BY <1>3, <2>1 DEF OpenBase
  <2>. QED  BY <1>1, <1>2, <2>2 DEF SureOK, Passed
<1>. SUFFICES ASSUME ~OpenBase PROVE SureOK'
  BY <1>3
<1>4. sure
  BY SearchListed
<1>5. Present /\ seen \subseteq Plugged /\ listed = Plugged /\ pc \notin {"open", "sleep", "exit"}
  BY <1>4 DEF IInv, SureOK
<1>6. \A p \in Plugged : /\ port[p].stage = NodeStage /\ port[p].sound
                         /\ port[p].number # 0 /\ port[p].event # 0
  BY <1>5 DEF Present, Settled, Complete, IInv, DevicesOK, NodeStage, EventStage
<1>7. pc \in {"list", "input", "uniq"} => \A q \in Passed : ~Wanted(port[q].handset)
  BY <1>4 DEF IInv, SureOK
<1>8. pc \in {"uniq", "event", "node", "card", "model", "found"} => Same
  BY <1>4 DEF IInv, SureOK
<1>9. Same' = Same \/ ~UNCHANGED <<pathSysfs, input>>
  BY <1>1 DEF Same
<1>10. /\ Present' /\ listed' = Plugged'
       /\ seen' = seen => seen' \subseteq Plugged'
  BY <1>1, <1>2, <1>5, SearchListed
<1>11. CASE OpenFails \/ Wake
  BY <1>5, <1>11 DEF OpenFails, Wake
<1>12. CASE ListEnd
  BY <1>5, <1>7, <1>12 DEF ListEnd, Passed, Present
<1>13. CASE FindInput
  <2>1. pathSysfs \in seen
    BY <1>13 DEF FindInput, IInv, PhaseOK
  <2>2. input' = port[pathSysfs].number /\ UNCHANGED <<moduleVars, seen>>
    BY <1>5, <1>6, <1>13, <2>1 DEF FindInput, InputStage, NodeStage
  <2>3. pc = "input" /\ pc' \in {"uniq", "event"}
    BY <1>5, <1>6, <1>13, <2>1 DEF FindInput, InputStage, NodeStage
  <2>4. Same'
    BY <1>1, <1>5, <2>1, <2>2 DEF Same
  <2>5. pc' = "uniq" => \A q \in Passed' : ~Wanted(port[q].handset)
    BY <1>7, <2>2, <2>3 DEF Passed
  <2>. QED  BY <1>1, <1>2, <1>10, <2>2, <2>3, <2>4, <2>5 DEF SureOK
<1>14. CASE ReadUniq
  <2>1. Same /\ pc = "uniq" /\ options.uniq # Nobody
    BY <1>8, <1>14 DEF ReadUniq, IInv, PhaseOK
  <2>2. CASE Matching
    BY <1>1, <1>2, <1>9, <1>10, <1>14, <2>1, <2>2 DEF ReadUniq, SureOK
  <2>3. CASE ~Matching
    <3>1. ~Wanted(port[pathSysfs].handset) /\ pc' = "list" /\ seen' = seen
      BY <1>14, <2>1, <2>3 DEF ReadUniq, Mismatch, Matching, SameInput, Same, Wanted
    <3>2. \A q \in Passed' : ~Wanted(port[q].handset)
      BY <1>7, <2>1, <3>1 DEF Passed
    <3>. QED  BY <1>1, <1>2, <1>10, <3>1, <3>2 DEF SureOK
  <2>. QED  BY <2>2, <2>3
<1>15. CASE FindEvent
  <2>1. Same /\ SameInput /\ port[pathSysfs].stage >= EventStage
    BY <1>6, <1>8, <1>15 DEF FindEvent, Same, SameInput, NodeStage, EventStage
  <2>2. /\ pc' = "node" /\ pathEvent' = port[pathSysfs].event
        /\ UNCHANGED <<pathSysfs, input, seen>>
    BY <1>15, <2>1 DEF FindEvent
  <2>. QED  BY <1>1, <1>2, <1>9, <1>10, <2>1, <2>2 DEF SureOK
<1>16. CASE StatNode
  <2>1. Same /\ pathSysfs \in NodeOf
    BY <1>4, <1>6, <1>8, <1>16 DEF StatNode, NodeOf, Same, IInv, SureOK
  <2>2. pc' = "card" /\ UNCHANGED <<pathSysfs, input, seen>>
    BY <1>16, <2>1 DEF StatNode
  <2>. QED  BY <1>1, <1>2, <1>9, <1>10, <2>1, <2>2 DEF SureOK
<1>17. CASE FindCard
  <2>1. Same /\ pathSysfs # Nobody
    BY <1>1, <1>8, <1>17, DiscoveryAssumption DEF FindCard, Same
  <2>2. Card # 0
    BY <1>6, <2>1 DEF Card, Same
  <2>3. pc' = "model" /\ UNCHANGED <<pathSysfs, input, seen>>
    BY <1>17, <2>2 DEF FindCard
  <2>. QED  BY <1>1, <1>2, <1>9, <1>10, <2>1, <2>3 DEF SureOK
<1>18. CASE DetermineModel
  <2>1. Same /\ pathSysfs \in NodeOf
    BY <1>6, <1>8, <1>18 DEF DetermineModel, NodeOf, Same, IInv, OneHandset
  <2>2. pc' = "found" /\ UNCHANGED <<pathSysfs, pathEvent, input, seen>>
    BY <1>18 DEF DetermineModel
  <2>3. NodeOf' = NodeOf
    BY <1>1, <2>2 DEF NodeOf
  <2>. QED  BY <1>1, <1>2, <1>9, <1>10, <2>1, <2>2, <2>3 DEF SureOK
<1>19. CASE StartSession
  <2>1. NodeOf # {} /\ NodeOf \subseteq Plugged
    BY <1>4, <1>19 DEF StartSession, IInv, SureOK, NodeOf
  <2>2. pc' = "session" /\ seen' = seen /\ \E p \in Plugged : session' = port[p].number
    BY <1>19, <2>1 DEF StartSession
  <2>. QED  BY <1>1, <1>2, <1>10, <2>2 DEF SureOK
<1>20. CASE EndSession
  BY <1>1, <1>4, <1>20 DEF EndSession, IInv, SureOK
<1>21. ASSUME NEW p \in Ports, ListPort(p) PROVE SureOK'
  <2>1. pc = "list" /\ pc' = "input" /\ pathSysfs' = p /\ p \notin seen /\ seen' = seen \cup {p}
        /\ p \in Plugged
    BY <1>21 DEF ListPort
  <2>2. \A q \in Passed' : ~Wanted(port[q].handset)
    BY <1>7, <2>1 DEF Passed
  <2>. QED  BY <1>1, <1>2, <1>5, <1>10, <2>1, <2>2 DEF SureOK
<1>. QED  BY <1>11, <1>12, <1>13, <1>14, <1>15, <1>16, <1>17, <1>18, <1>19, <1>20, <1>21 DEF Search

-----------------------------------------------------------------------------
(* The theorems                                                            *)

LEMMA InitInv ==
  ASSUME Init PROVE IInv
<1>1. TypeOK
  BY EmptyType DEF Init, TypeOK
<1>2. Plugged = {}
  BY EmptyType DEF Init, Plugged
<1>. QED
  BY <1>1, <1>2, DiscoveryAssumption
  DEF Init, IInv, DevicesOK, PhaseOK, Unopened, Opened, OneHandset, Same, SureOK

LEMMA NextInv ==
  ASSUME IInv, [Next]_vars PROVE IInv'
<1>1. CASE Search \/ OpenFails
  BY <1>1, SearchTypes, SearchLeavesDevices, SearchPhases, SearchOneHandset, SearchSure DEF IInv
<1>2. CASE Environment
  BY <1>2, EnvironmentStep
<1>3. CASE UNCHANGED vars
  BY <1>3 DEF vars, deviceVars, moduleVars, searchVars, IInv, TypeOK, DevicesOK, PhaseOK, Unopened,
     Opened, OneHandset, Same, SureOK, Passed, Plugged, Present, Settled, Complete, Wanted, NodeOf
<1>. QED  BY <1>1, <1>2, <1>3 DEF Next

LEMMA Invariance == Spec => []IInv
<1>1. Init => IInv
  BY InitInv
<1>2. IInv /\ [Next]_vars => IInv'
  BY NextInv
<1>. QED  BY <1>1, <1>2, PTL DEF Spec

\* Every variable keeps its type, for any ports, handsets and ids: no number of
\* a card or an event is read where there is none.
THEOREM DiscoveryTypes == Spec => []TypeOK
<1>1. IInv => TypeOK
  BY DEF IInv
<1>. QED  BY <1>1, Invariance, PTL

\* What ylsysfs_find_device calls a success has a path, an event device and a
\* sound card, although find_input_dir returns 0 after a mismatch as well.
THEOREM WholeWhenFound == Spec => []FoundIsWhole
<1>1. IInv => FoundIsWhole
  BY DiscoveryAssumption DEF IInv, TypeOK, PhaseOK, Opened, FoundIsWhole
<1>. QED  BY <1>1, Invariance, PTL

\* All that the search returns belongs to one handset, which is the one asked
\* for, while that handset stays plugged in.
THEOREM OneWhenFound == Spec => []FoundIsOne
<1>1. IInv => FoundIsOne
  <2>. SUFFICES ASSUME IInv, pc = "found", Same PROVE FoundIsOne
    BY DEF FoundIsOne, Same
  <2>1. port[pathSysfs].event = pathEvent /\ port[pathSysfs].stage = NodeStage /\ pathEvent # 0
    BY DEF IInv, OneHandset, PhaseOK
  <2>2. NodeOf = {pathSysfs}
    BY <2>1 DEF NodeOf, Same, IInv, DevicesOK
  <2>. QED  BY <2>2 DEF IInv, OneHandset, FoundIsOne
<1>. QED  BY <1>1, Invariance, PTL

\* A search of a directory in which nothing changes does not end without the
\* handset, if a complete one was there that was asked for.
THEOREM NoneMissed == Spec => []NotMissed
<1>1. IInv => NotMissed
  BY DEF IInv, SureOK, NotMissed
<1>. QED  BY <1>1, Invariance, PTL
=============================================================================
