---------------------------- MODULE SessionProofs ---------------------------
(***************************************************************************)
(* The sessions of src/yeaphone.c, for any models, numbers and any number  *)
(* of signals: what ends a session, what is left of it, and that what the  *)
(* Handset module says of one session holds in all of them, although the   *)
(* core may be polled twice or still be there when the next session begins. *)
(***************************************************************************)
EXTENDS Session, HandsetProofs

-----------------------------------------------------------------------------
(* What the handlers leave alone                                           *)

Watched == {"hardShutdown", "stopping", "alive", "polling", "broken", "text", "led",
            "ringing"}

IsPhone(p) ==
  Watched \subseteq DOMAIN p /\ p = [f \in DOMAIN p |-> p[f]] /\ p.alive \in BOOLEAN

\* The program and its core go on as before.
Follows(p, q) ==
  /\ IsPhone(q)
  /\ q.hardShutdown = p.hardShutdown /\ q.stopping = p.stopping
  /\ q.alive = p.alive /\ q.polling = p.polling
  /\ p.alive => q.broken = p.broken

\* The loop is stopped only when a shutdown of the program was asked for before.
Obeys(p, q) ==
  /\ IsPhone(q)
  /\ q.hardShutdown = p.hardShutdown
  /\ q.stopping => p.stopping \/ p.hardShutdown
  /\ p.stopping => q.stopping

Dark(p) == p.text = Word("blank") /\ p.led = "off" /\ ~p.ringing

LEMMA Follow ==
  ASSUME NEW p, NEW q, NEW r, Follows(p, q), Follows(q, r)
  PROVE  Follows(p, r)
BY DEF Follows

LEMMA Obey ==
  ASSUME NEW p, NEW q
  PROVE  /\ Follows(p, q) => Obeys(p, q)
         /\ \A r : Obeys(p, q) /\ Follows(q, r) => Obeys(p, r)
         /\ \A r : Follows(p, q) /\ Obeys(q, r) => Obeys(p, r)
BY DEF Follows, Obeys

LEMMA Stay ==
  ASSUME NEW p, IsPhone(p) PROVE Follows(p, p)
BY DEF Follows

\* A field other than these is set.
LEMMA FieldSet ==
  ASSUME NEW p, IsPhone(p), NEW f, NEW v,
         f \notin {"hardShutdown", "stopping", "alive", "polling", "broken"}
  PROVE  Follows(p, [p EXCEPT ![f] = v])
BY DEF Follows, IsPhone, Watched

LEMMA RingerFollows ==
  ASSUME NEW p, IsPhone(p)
  PROVE  /\ Follows(p, RingerOn(p)) /\ Follows(p, RingerOff(p)) /\ Follows(p, RingerOffLater(p))
         /\ Follows(p, HideAll(p)) /\ Dark(HideAll(p))
<1>1. Follows(p, RingerOn(p))
  BY DEF Follows, IsPhone, RingerOn, Watched
<1>2. Follows(p, RingerOff(p))
  BY DEF Follows, IsPhone, RingerOff, Watched
<1>3. Follows(p, RingerOffLater(p))
  BY DEF Follows, IsPhone, RingerOffLater, Watched
<1>4. Follows(p, HideAll(p)) /\ Dark(HideAll(p))
  BY DEF Follows, IsPhone, HideAll, RingerOff, Watched, Dark
<1>. QED  BY <1>1, <1>2, <1>3, <1>4

LEMMA PowerFollows ==
  ASSUME NEW p, IsPhone(p)
  PROVE  /\ Obeys(p, OnPowerOff(p)) /\ OnPowerOff(p).polling = 0
         /\ p.alive => OnPowerOff(p).broken = p.broken
         /\ Follows(p, OnStartup(p)) /\ Follows(p, OnPowerOn(p)) /\ Follows(p, OnShutdown(p))
<1>1. /\ Obeys(p, OnPowerOff(p)) /\ OnPowerOff(p).polling = 0
      /\ p.alive => OnPowerOff(p).broken = p.broken
  <2>. DEFINE u == [p EXCEPT !.polling = 0]
              q == HideAll(u)
  <2>1. /\ Obeys(p, q) /\ ~(q.stopping /\ ~p.stopping) /\ q.polling = 0
        /\ p.alive => q.broken = p.broken
    <3>1. /\ Obeys(p, u) /\ u.stopping = p.stopping /\ u.polling = 0
          /\ u.alive = p.alive /\ u.broken = p.broken
      BY DEF Obeys, IsPhone, Watched
    <3>. HIDE DEF u
    <3>2. Follows(u, HideAll(u))
      BY <3>1, RingerFollows DEF Obeys
    <3>. QED  BY <3>1, <3>2 DEF Follows, Obeys
  <2>2. OnPowerOff(p) = IF q.hardShutdown THEN [q EXCEPT !.stopping = TRUE]
                        ELSE [q EXCEPT !.text = Word("off")]
    BY DEF OnPowerOff
  <2>. HIDE DEF q
  <2>. QED  BY <2>1, <2>2 DEF Obeys, IsPhone, Watched
<1>2. Follows(p, OnStartup(p)) /\ Follows(p, OnPowerOn(p))
  BY DEF Follows, IsPhone, OnStartup, OnPowerOn, Watched
<1>3. Follows(p, OnShutdown(p))
  BY RingerFollows DEF Follows, IsPhone, OnShutdown, Watched
<1>. QED  BY <1>1, <1>2, <1>3

LEMMA CoreFollows ==
  ASSUME NEW p, IsPhone(p), NEW n
  PROVE  /\ Follows(p, OnRegOk(p)) /\ Follows(p, OnRegFailed(p)) /\ Follows(p, OnIdle(p))
         /\ Follows(p, OnInvite(p, n)) /\ Follows(p, OnConnected(p)) /\ Follows(p, OnOutInvite(p))
         /\ Follows(p, OnEnd(p)) /\ Follows(p, OnError(p))
<1>1. Follows(p, OnRegOk(p)) /\ Follows(p, OnRegFailed(p)) /\ Follows(p, OnIdle(p))
  BY DEF Follows, IsPhone, OnRegOk, OnRegFailed, OnIdle, Watched
<1>2. Follows(p, OnInvite(p, n))
  BY DEF Follows, IsPhone, OnInvite, RingerOn, Watched
<1>3. Follows(p, OnConnected(p)) /\ Follows(p, OnOutInvite(p))
  BY DEF Follows, IsPhone, OnConnected, OnOutInvite, RingerOff, Watched
<1>4. Follows(p, OnEnd(p))
  BY DEF Follows, IsPhone, OnEnd, RingerOffLater, Watched
<1>5. Follows(p, OnError(p))
  BY DEF Follows, IsPhone, OnError, RingerOff, Watched
<1>. QED  BY <1>1, <1>2, <1>3, <1>4, <1>5

-----------------------------------------------------------------------------
(* Commands to the core                                                    *)

LEMMA EndFollows ==
  ASSUME NEW p, IsPhone(p)
  PROVE  Follows(p, EndCall(p)) /\ Follows(p, FailCall(p)) /\ Follows(p, Terminate(p))
<1>. DEFINE q == [p EXCEPT !.call = "IDLE", !.party = << >>]
<1>1. Follows(p, q)
  BY DEF Follows, IsPhone, Watched
<1>2. EndCall(p) = OnIdle(OnEnd(q)) /\ FailCall(p) = OnIdle(OnError(q))
  BY DEF EndCall, FailCall
<1>. HIDE DEF q
<1>3. IsPhone(q)
  BY <1>1 DEF Follows
<1>4. Follows(q, OnEnd(q)) /\ Follows(q, OnError(q))
  BY <1>3, CoreFollows
<1>5. Follows(OnEnd(q), OnIdle(OnEnd(q))) /\ Follows(OnError(q), OnIdle(OnError(q)))
  BY <1>4, CoreFollows DEF Follows
<1>6. Follows(p, EndCall(p))
  BY <1>1, <1>2, <1>4, <1>5, Follow, Zenon
<1>7. Follows(p, FailCall(p))
  BY <1>1, <1>2, <1>4, <1>5, Follow, Zenon
<1>. QED  BY <1>6, <1>7, Stay DEF Terminate

LEMMA OnCoreFollows ==
  ASSUME NEW p, IsPhone(p), NEW q, Follows(p, q)
  PROVE  Follows(p, OnCore(p, q))
BY DEF OnCore, Follows, IsPhone, Watched

LEMMA CommandFollows ==
  ASSUME NEW p, IsPhone(p), NEW n
  PROVE  /\ Follows(p, Hangup(p)) /\ Follows(p, Invite(p, n)) /\ Follows(p, Pickup(p))
<1>1. Follows(p, Hangup(p))
  BY EndFollows, OnCoreFollows DEF Hangup
<1>2. Follows(p, Invite(p, n))
  <2>. DEFINE q == [p EXCEPT !.call = "OUT_INVITE", !.party = n]
  <2>1. Follows(p, q)
    BY DEF Follows, IsPhone, Watched
  <2>2. Invite(p, n) = OnCore(p, OnOutInvite(q))
    BY DEF Invite
  <2>. HIDE DEF q
  <2>3. Follows(p, OnOutInvite(q))
    BY <2>1, CoreFollows, Follow DEF Follows
  <2>. QED  BY <2>2, <2>3, OnCoreFollows
<1>3. Follows(p, Pickup(p))
  <2>. DEFINE q == [p EXCEPT !.call = "IN_CONNECTED"]
  <2>1. Follows(p, q)
    BY FieldSet
  <2>2. Pickup(p) = OnCore(p, OnConnected(q))
    BY DEF Pickup
  <2>. HIDE DEF q
  <2>3. Follows(p, OnConnected(q))
    BY <2>1, CoreFollows, Follow DEF Follows
  <2>. QED  BY <2>2, <2>3, OnCoreFollows
<1>. QED  BY <1>1, <1>2, <1>3

\* A start goes on as a phone with a core and one polling timer more.
LEMMA StartupFollows ==
  ASSUME NEW p, IsPhone(p)
  PROVE  /\ Obeys(p, Startup(p)) /\ Startup(p).stopping = p.stopping
         /\ Startup(p).alive /\ Startup(p).polling = p.polling + 1
         /\ Startup(p).broken = p.broken
<1>. DEFINE q == [p EXCEPT !.alive = TRUE, !.polling = @ + 1, !.call = "IDLE",
                           !.party = << >>, !.reg = "NONE", !.power = "STARTUP"]
            r == OnStartup(q)
            s == [r EXCEPT !.power = "ON"]
<1>1. /\ Obeys(p, q) /\ q.stopping = p.stopping
      /\ q.alive /\ q.polling = p.polling + 1 /\ q.broken = p.broken
  BY DEF Obeys, IsPhone, Watched
<1>. HIDE DEF q
<1>2. Follows(q, r)
  BY <1>1, PowerFollows DEF Obeys
<1>. HIDE DEF r
<1>3. Follows(r, s)
  BY <1>2, FieldSet DEF Follows
<1>. HIDE DEF s
<1>4. Follows(s, OnPowerOn(s))
  BY <1>3, PowerFollows DEF Follows
<1>5. Startup(p) = OnPowerOn(s)
  BY DEF Startup, s, r, q
<1>6. Follows(q, Startup(p))
  BY <1>2, <1>3, <1>4, <1>5 DEF Follows
<1>. QED  BY <1>1, <1>6 DEF Follows, Obeys

\* After a shutdown the core is gone, and its polling timers with it.
LEMMA ShutdownFollows ==
  ASSUME NEW p, IsPhone(p)
  PROVE  /\ Obeys(p, Shutdown(p)) /\ ~Shutdown(p).alive
         /\ Shutdown(p).polling = IF p.alive THEN 0 ELSE p.polling
         /\ p.alive => Shutdown(p).broken = p.broken
<1>. DEFINE t == Terminate(p)
            q == [t EXCEPT !.power = "SHUTDOWN"]
            r == OnShutdown(q)
            s == [r EXCEPT !.power = "OFF"]
            u == OnPowerOff(s)
            v == [u EXCEPT !.alive = FALSE]
            b == [p EXCEPT !.broken = TRUE]
<1>1. Follows(p, t)
  BY EndFollows
<1>. HIDE DEF t
<1>2. Follows(t, q)
  BY <1>1, FieldSet DEF Follows
<1>. HIDE DEF q
<1>3. Follows(q, r)
  BY <1>2, PowerFollows DEF Follows
<1>. HIDE DEF r
<1>4. Follows(r, s)
  BY <1>3, FieldSet DEF Follows
<1>. HIDE DEF s
<1>5. Obeys(s, u) /\ u.polling = 0 /\ (s.alive => u.broken = s.broken)
  BY <1>4, PowerFollows DEF Follows
<1>. HIDE DEF u
<1>6. Obeys(u, v) /\ v.stopping = u.stopping /\ v.polling = 0 /\ ~v.alive /\ v.broken = u.broken
  BY <1>5 DEF Obeys, IsPhone, Watched
<1>7. Shutdown(p) = IF p.alive THEN v ELSE b
  BY DEF Shutdown, OnCore, v, u, s, r, q, t
<1>. HIDE DEF v
<1>8. Obeys(p, v)
  BY <1>1, <1>2, <1>3, <1>4, <1>5, <1>6 DEF Follows, Obeys
<1>9. p.alive => v.broken = p.broken
  BY <1>1, <1>2, <1>3, <1>4, <1>5, <1>6 DEF Follows
<1>10. ~p.alive => Follows(p, b)
  BY DEF Follows, IsPhone, Watched
<1>. HIDE DEF b
<1>. QED  BY <1>6, <1>7, <1>8, <1>9, <1>10, Obey DEF Follows, IsPhone

-----------------------------------------------------------------------------
(* Keys                                                                    *)

LEMMA DigitFollows ==
  ASSUME NEW p, IsPhone(p), NEW r, NEW d
  PROVE  Follows(p, DigitKey(p, r, d))
<1>1. Follows(p, Store(p, d))
  BY DEF Follows, IsPhone, Watched, Store
<1>2. Follows(p, Recall(p, d))
  BY DEF Follows, IsPhone, Watched, Recall
<1>3. Follows(p, TypeDigit(p, d))
  BY DEF Follows, IsPhone, Watched, TypeDigit
<1>4. Follows(p, OnCore(p, p)) /\ Follows(p, RingerOff(p)) /\ Follows(p, p)
  BY Stay, OnCoreFollows, RingerFollows
<1>. QED  BY <1>1, <1>2, <1>3, <1>4, Zenon DEF DigitKey

LEMMA KeyFollows ==
  ASSUME NEW p, IsPhone(p), NEW r, NEW k
  PROVE  Follows(p, HandleKey(p, r, k))
<1>1. Follows(p, UpKey(p, r))
  BY DEF Follows, IsPhone, Watched, UpKey
<1>2. Follows(p, CKey(p, r))
  BY DEF Follows, IsPhone, Watched, CKey
<1>3. Follows(p, GreenKey(p, r))
  <2>1. Follows(p, Dial(p))
    <3>. DEFINE q == [p EXCEPT !.dialback = ToDial(p)]
                u == Invite(q, ToDial(p))
    <3>1. Follows(p, q)
      BY FieldSet
    <3>. HIDE DEF q
    <3>2. Follows(q, u)
      BY <3>1, CommandFollows DEF Follows
    <3>3. Dial(p) = [u EXCEPT !.dialnum = << >>]
      BY DEF Dial, q
    <3>. HIDE DEF u
    <3>4. Follows(u, Dial(p))
      BY <3>2, <3>3 DEF Follows, IsPhone, Watched
    <3>. QED  BY <3>1, <3>2, <3>4 DEF Follows
  <2>. QED  BY <2>1, Stay, CommandFollows, Zenon DEF GreenKey
<1>4. Follows(p, RedKey(p, r))
  <2>. DEFINE q == RingerOff(p)
  <2>1. Follows(p, q)
    BY RingerFollows
  <2>. HIDE DEF q
  <2>2. Follows(q, Hangup(q)) /\ Follows(q, q)
    BY <2>1, CommandFollows, Stay DEF Follows
  <2>3. Follows(q, [q EXCEPT !.dialnum = << >>, !.dialback = << >>, !.prepStore = FALSE,
                             !.prepRecall = FALSE, !.storeMark = FALSE, !.text = Word("default")])
    BY <2>1 DEF Follows, IsPhone, Watched
  <2>4. RedKey(p, r) \in
          {p, Hangup(q), q,
           [q EXCEPT !.dialnum = << >>, !.dialback = << >>, !.prepStore = FALSE,
                     !.prepRecall = FALSE, !.storeMark = FALSE, !.text = Word("default")]}
    BY DEF RedKey, q
  <2>5. \A x : Follows(q, x) => Follows(p, x)
    BY <2>1, Follow
  <2>. QED  BY <2>2, <2>3, <2>4, <2>5, Stay
<1>. QED  BY <1>1, <1>2, <1>3, <1>4, DigitFollows, Stay, Zenon DEF HandleKey

LEMMA LongKeyFollows ==
  ASSUME NEW p, IsPhone(p), NEW r
  PROVE  Obeys(p, HandleLongKey(p, r))
<1>1. Obeys(p, [p EXCEPT !.dialnum = << >>, !.text = Word("default")])
  BY DEF Obeys, IsPhone, Watched
<1>2. Obeys(p, p) /\ Obeys(p, Startup(p)) /\ Obeys(p, Shutdown(p))
  BY Stay, StartupFollows, ShutdownFollows, Obey
<1>. QED  BY <1>1, <1>2, Zenon DEF HandleLongKey

LEMMA HookFollows ==
  ASSUME NEW p, IsPhone(p), NEW r, NEW up
  PROVE  Follows(p, HandleHook(p, r, up))
BY Stay, CommandFollows, Zenon DEF HandleHook

\* A key event or a report of the core stops nothing.
LEMMA EventFollows ==
  ASSUME IsPhone(phone), KeyEvent \/ CoreEvent
  PROVE  Follows(phone, phone')
<1>1. \A p : IsPhone(p) => Follows(p, Armed(p))
  BY FieldSet DEF Armed
<1>2. Follows(phone, [phone EXCEPT !.pressed = "none"])
  BY FieldSet
<1>3. ASSUME NEW k \in Keys, Press(k) PROVE Follows(phone, phone')
  <2>. DEFINE q == [phone EXCEPT !.pressed = k]
  <2>1. PICK r : phone' = Armed(HandleKey(q, r, k))
    BY <1>3 DEF Press
  <2>2. Follows(phone, q)
    BY FieldSet
  <2>. HIDE DEF q
  <2>3. Follows(q, HandleKey(q, r, k))
    BY <2>2, KeyFollows DEF Follows
  <2>. QED  BY <1>1, <2>1, <2>2, <2>3 DEF Follows
<1>4. CASE Release \/ Shift
  <2>1. phone' = Armed([phone EXCEPT !.pressed = "none"])
    BY <1>4 DEF Release, Shift
  <2>. DEFINE q == [phone EXCEPT !.pressed = "none"]
  <2>2. phone' = Armed(q) /\ Follows(phone, q)
    BY <1>2, <2>1
  <2>. HIDE DEF q
  <2>. QED  BY <1>1, <2>2 DEF Follows
<1>5. ASSUME NEW up \in BOOLEAN, Hook(up) PROVE Follows(phone, phone')
  <2>1. PICK r : phone' = Armed(HandleHook(phone, r, up))
    BY <1>5 DEF Hook
  <2>2. Follows(phone, HandleHook(phone, r, up))
    BY HookFollows, Zenon
  <2>. QED  BY <1>1, <2>1, <2>2 DEF Follows
<1>6. CASE Registered
  <2>. DEFINE q == [phone EXCEPT !.reg = "OK"]
  <2>1. Follows(phone, q)
    BY FieldSet
  <2>2. phone' = OnRegOk(q)
    BY <1>6 DEF Registered, Iterate
  <2>. HIDE DEF q
  <2>. QED  BY <2>1, <2>2, CoreFollows DEF Follows
<1>7. CASE Unregistered
  <2>. DEFINE q == [phone EXCEPT !.reg = "FAILED"]
  <2>1. Follows(phone, q)
    BY FieldSet
  <2>2. phone' = OnRegFailed(q)
    BY <1>7 DEF Unregistered, Iterate
  <2>. HIDE DEF q
  <2>. QED  BY <2>1, <2>2, CoreFollows DEF Follows
<1>8. ASSUME NEW n \in Numbers, CallArrives(n) PROVE Follows(phone, phone')
  <2>. DEFINE q == [phone EXCEPT !.call = "IN_INVITE", !.party = n]
  <2>1. Follows(phone, q)
    BY DEF Follows, IsPhone, Watched
  <2>2. phone' = OnInvite(q, n)
    BY <1>8 DEF CallArrives, Iterate
  <2>. HIDE DEF q
  <2>. QED  BY <2>1, <2>2, CoreFollows DEF Follows
<1>9. CASE Answered
  <2>. DEFINE q == [phone EXCEPT !.call = "OUT_CONNECTED"]
  <2>1. Follows(phone, q)
    BY FieldSet
  <2>2. phone' = OnConnected(q)
    BY <1>9 DEF Answered, Iterate
  <2>. HIDE DEF q
  <2>. QED  BY <2>1, <2>2, CoreFollows DEF Follows
<1>10. CASE CallEnds \/ CallFails
  BY <1>10, EndFollows DEF CallEnds, CallFails, Iterate
<1>. QED
  BY <1>3, <1>4, <1>5, <1>6, <1>7, <1>8, <1>9, <1>10 DEF KeyEvent, CoreEvent

\* Nor does the timer that ends the ringing; a long red key may stop the loop.
LEMMA TimerFollows ==
  ASSUME IsPhone(phone)
  PROVE  (MinRingOver => Follows(phone, phone')) /\ (LongKey => Obeys(phone, phone'))
<1>1. ASSUME LongKey PROVE Obeys(phone, phone')
  <2>1. PICK r : phone' = [HandleLongKey(phone, r) EXCEPT !.pressed = "none", !.keylong = FALSE]
    BY <1>1 DEF LongKey
  <2>2. Obeys(phone, HandleLongKey(phone, r))
    BY LongKeyFollows
  <2>. QED  BY <2>1, <2>2 DEF Obeys, IsPhone, Watched
<1>2. ASSUME MinRingOver PROVE Follows(phone, phone')
  BY <1>2 DEF MinRingOver, Follows, IsPhone, Watched
<1>. QED  BY <1>1, <1>2

-----------------------------------------------------------------------------
(* The sessions                                                            *)

\* Without a signal the program is asked to shut down only when it has closed the
\* event device, and the loop stops only then.
EndInv ==
  signals = 0 =>
    /\ main \in {"left", "find", "start"} => evfd = "none"
    /\ main \in {"ready", "loop"} /\ phone.hardShutdown => evfd = "none"
    /\ main = "loop" /\ phone.stopping => evfd = "none"

SInv ==
  /\ IsPhone(phone) /\ signals \in Nat
  /\ EndInv
  /\ main \in {"find", "start"} => Dark(phone)

\* StopYlcontrol leaves a phone; what it stops is seen by who calls it.
LEMMA StopIsPhone ==
  ASSUME NEW p, IsPhone(p), NEW r
  PROVE  IsPhone(StopYlcontrol(p, r))
<1>. DEFINE q == [p EXCEPT !.hardShutdown = TRUE]
<1>1. IsPhone(q)
  BY DEF IsPhone, Watched
<1>2. StopYlcontrol(p, r) = IF r.power = "OFF" THEN [HideAll(q) EXCEPT !.stopping = TRUE]
                            ELSE Shutdown(q)
  BY DEF StopYlcontrol
<1>. HIDE DEF q
<1>3. IsPhone(HideAll(q)) /\ IsPhone(Shutdown(q))
  BY <1>1, RingerFollows, ShutdownFollows DEF Follows, Obeys
<1>4. IsPhone([HideAll(q) EXCEPT !.stopping = TRUE])
  BY <1>3 DEF IsPhone, Watched
<1>. QED  BY <1>2, <1>3, <1>4, Zenon

LEMMA MainKeeps ==
  ASSUME SInv, MainStep
  PROVE  SInv'
<1>. USE DEF SInv, EndInv
<1>1. CASE FindDevice \/ SearchFails
  BY <1>1 DEF FindDevice, SearchFails, vars
<1>2. CASE StartSession
  <2>. DEFINE s == Startup(phone)
              q == [s EXCEPT !.hardShutdown = FALSE]
  <2>1. IsPhone(s)
    BY StartupFollows DEF Obeys
  <2>2. phone' = [q EXCEPT !.broken = evfd = "dead"]
    BY <1>2 DEF StartSession, Fresh
  <2>. HIDE DEF s
  <2>3. IsPhone(q) /\ ~q.hardShutdown
    BY <2>1 DEF IsPhone, Watched
  <2>. HIDE DEF q
  <2>4. IsPhone(phone') /\ phone'.hardShutdown = q.hardShutdown
    BY <2>2, <2>3 DEF IsPhone, Watched
  <2>5. main' \in {"ready", "aborted"} /\ signals' = signals
    BY <1>2 DEF StartSession
  <2>. QED  BY <2>3, <2>4, <2>5
<1>3. CASE Run
  <2>1. phone' = [phone EXCEPT !.stopping = FALSE]
    BY <1>3 DEF Run
  <2>2. IsPhone(phone') /\ phone'.hardShutdown = phone.hardShutdown /\ ~phone'.stopping
    BY <2>1 DEF IsPhone, Watched
  <2>. QED  BY <1>3, <2>2 DEF Run
<1>4. CASE IoError
  <2>1. IsPhone(phone')
    BY <1>4, StopIsPhone DEF IoError
  <2>. QED  BY <1>4, <2>1 DEF IoError, InLoop
<1>5. CASE Leave
  BY <1>5 DEF Leave, vars
<1>6. CASE Again
  <2>1. IsPhone(phone') /\ Dark(phone')
    BY <1>6, RingerFollows DEF Again, Cleared, Follows
  <2>. QED  BY <1>6, <2>1 DEF Again
<1>. QED  BY <1>1, <1>2, <1>3, <1>4, <1>5, <1>6 DEF MainStep

LEMMA OthersKeep ==
  ASSUME SInv, \/ SignalInSelect \/ SignalInSession \/ SignalOutside
               \/ Unplug \/ Plug \/ HandsetEvent
  PROVE  SInv'
<1>. USE DEF SInv, EndInv
<1>1. CASE SignalInSelect \/ SignalInSession
  <2>1. IsPhone(phone')
    BY <1>1, StopIsPhone DEF SignalInSelect, SignalInSession
  <2>2. signals' = signals + 1 /\ main' \in {"exit", "ready", "loop", "left"}
    BY <1>1 DEF SignalInSelect, SignalInSession
  <2>. QED  BY <2>1, <2>2
<1>2. CASE SignalOutside
  BY <1>2 DEF SignalOutside, vars
<1>3. CASE Unplug \/ Plug
  BY <1>3 DEF Unplug, Plug, vars
<1>4. CASE HandsetEvent
  <2>1. KeyEvent \/ CoreEvent \/ LongKey \/ MinRingOver
    BY <1>4 DEF HandsetEvent
  <2>2. Obeys(phone, phone')
    BY <2>1, EventFollows, TimerFollows, Obey
  <2>. QED  BY <1>4, <2>2 DEF HandsetEvent, sessionVars, Obeys
<1>. QED  BY <1>1, <1>2, <1>3, <1>4

LEMMA SessionInvariance == SessionSpec => []SInv
<1>1. SessionInit => SInv
  <2>. SUFFICES ASSUME SessionInit PROVE SInv
    OBVIOUS
  <2>1. PICK model \in Models : phone = Powerless(model)
    BY DEF SessionInit, Handsets
  <2>2. IsPhone(phone) /\ Dark(phone)
    BY <2>1 DEF Powerless, IsPhone, Watched, Dark
  <2>. QED  BY <2>2 DEF SessionInit, SInv, EndInv
<1>2. SInv /\ [SessionNext]_allVars => SInv'
  <2>1. ASSUME SInv, UNCHANGED allVars PROVE SInv'
    BY <2>1 DEF allVars, vars, sessionVars, SInv, EndInv
  <2>. QED  BY <2>1, MainKeeps, OthersKeep DEF SessionNext
<1>. QED  BY <1>1, <1>2, PTL DEF SessionSpec

-----------------------------------------------------------------------------
(* The phone across the sessions                                           *)

Rested(p) == p.alive => p.reg = "NONE" /\ p.call = "IDLE"

Polled(p) == (p.alive <=> p.polling > 0) /\ p.polling <= 2

\* A phone that is still on when its session has been stopped was switched on by a
\* long red key on the way out, and has seen no registration and no call.  Only the
\* start of the next session gives it its second polling timer.
PowerInv ==
  /\ PhoneInv(phone) /\ held \in Keys \cup {"none"}
  /\ phone.stopping \/ main \in {"find", "start"} => Rested(phone)
  /\ main = "left" => phone.stopping
  /\ Polled(phone)
  /\ main \in {"left", "find", "start"} \/ (main = "loop" /\ phone.stopping)
       => phone.polling <= 1

\* The marks of the program are no matter of the phone.
LEMMA MarkGood ==
  ASSUME NEW p, PhoneInv(p), NEW f \in {"hardShutdown", "stopping", "broken"}, NEW b \in BOOLEAN
  PROVE  /\ PhoneInv([p EXCEPT ![f] = b])
         /\ Rested([p EXCEPT ![f] = b]) <=> Rested(p)
<1>. DEFINE q == [p EXCEPT ![f] = b]
<1>1. p \in AnyPhone
  BY DEF PhoneInv
<1>2. q \in AnyPhone
  BY <1>1, ZenonT(60) DEF AnyPhone
<1>. QED
  BY <1>1, <1>2 DEF Rested, PhoneInv, CoreInv, NumberInv, LedInv, RingInv, ToDial, AnyPhone

LEMMA HideGood ==
  ASSUME NEW p, PhoneInv(p), Rested(p)
  PROVE  PhoneInv(HideAll(p)) /\ Rested(HideAll(p))
<1>1. p \in AnyPhone /\ HideAll(p) \in AnyPhone
  BY DisplayTypes DEF PhoneInv
<1>. QED  BY <1>1 DEF HideAll, RingerOff, Word, Rested, PhoneInv, CoreInv, NumberInv, LedInv,
              RingInv, ToDial, AnyPhone

\* Stopping a session ends its core, and the loop is not started again by it.
LEMMA StopGood ==
  ASSUME NEW p, PhoneInv(p), IsPhone(p), Polled(p), NEW r \in Reads(p)
  PROVE  /\ PhoneInv(StopYlcontrol(p, r))
         /\ ~StopYlcontrol(p, r).alive /\ StopYlcontrol(p, r).polling = 0
         /\ p.stopping => StopYlcontrol(p, r).stopping
<1>. DEFINE q == [p EXCEPT !.hardShutdown = TRUE]
            h == HideAll(q)
<1>0. ~p.alive => p.polling = 0
  BY DEF Polled, PhoneInv, AnyPhone
<1>1. PhoneInv(q) /\ q.alive = p.alive /\ q.polling = p.polling /\ q.stopping = p.stopping
  <2>1. PhoneInv(q)
    BY MarkGood
  <2>2. q.alive = p.alive /\ q.polling = p.polling /\ q.stopping = p.stopping
    BY DEF PhoneInv, AnyPhone
  <2>. QED  BY <2>1, <2>2
<1>2. IsPhone(q)
  BY DEF IsPhone, Watched
<1>3. StopYlcontrol(p, r) = IF r.power = "OFF" THEN [h EXCEPT !.stopping = TRUE] ELSE Shutdown(q)
  BY DEF StopYlcontrol
<1>. HIDE DEF q
<1>4. CASE r.power = "OFF"
  <2>1. ~p.alive
    BY <1>4, ReadsFacts DEF PhoneInv, CoreInv
  <2>2. PhoneInv(h)
    BY <1>1, <2>1, HideGood DEF Rested
  <2>3. ~h.alive /\ h.polling = 0
    BY <1>0, <1>1, <2>1 DEF HideAll, RingerOff, PhoneInv, AnyPhone
  <2>. HIDE DEF h
  <2>4. PhoneInv([h EXCEPT !.stopping = TRUE])
    BY <2>2, MarkGood
  <2>5. /\ ~[h EXCEPT !.stopping = TRUE].alive /\ [h EXCEPT !.stopping = TRUE].stopping
        /\ [h EXCEPT !.stopping = TRUE].polling = 0
    BY <2>2, <2>3 DEF PhoneInv, AnyPhone
  <2>. QED  BY <1>3, <1>4, <2>4, <2>5
<1>5. CASE r.power # "OFF"
  <2>1. PhoneInv(Shutdown(q))
    BY <1>1, ShutdownGood DEF Good
  <2>2. /\ q.stopping => Shutdown(q).stopping
        /\ ~Shutdown(q).alive /\ Shutdown(q).polling = 0
    BY <1>0, <1>1, <1>2, ShutdownFollows DEF Obeys
  <2>. QED  BY <1>1, <1>3, <1>5, <2>1, <2>2
<1>. QED  BY <1>4, <1>5

\* A long key that stops the loop destroys the core, one that starts the phone finds
\* it off, and every other one leaves it as it is.
LEMMA LongKeyStops ==
  ASSUME NEW p, PhoneInv(p), IsPhone(p), Polled(p), p.stopping => Rested(p), NEW r \in Reads(p),
         NEW h, h = HandleLongKey(p, r)
  PROVE  /\ h.stopping => Rested(h)
         /\ Polled(h) /\ (h.polling <= 1 \/ (h.polling = p.polling /\ h.stopping = p.stopping))
<1>. DEFINE c == [p EXCEPT !.dialnum = << >>, !.text = Word("default")]
<1>1. /\ c.stopping = p.stopping /\ c.alive = p.alive /\ c.polling = p.polling
      /\ c.reg = p.reg /\ c.call = p.call
  BY DEF PhoneInv, AnyPhone
<1>. HIDE DEF c
<1>2. p.polling \in Nat /\ (~p.alive => p.polling = 0)
  BY DEF Polled, PhoneInv, AnyPhone
<1>3. CASE h \in {c, p}
  BY <1>1, <1>3 DEF Rested, Polled
<1>4. CASE h = Shutdown(p)
  <2>1. ~h.alive /\ h.polling = 0
    BY <1>2, <1>4, ShutdownFollows
  <2>. QED  BY <2>1 DEF Rested, Polled
<1>5. CASE h = Startup(p) /\ r.power = "OFF"
  <2>1. ~p.alive
    BY <1>5, ReadsFacts DEF PhoneInv, CoreInv
  <2>2. h.alive /\ h.polling = 1
    BY <1>2, <1>5, <2>1, StartupFollows
  <2>3. Rested(h)
    BY <1>5, <2>1, StartupInv DEF Rested
  <2>. QED  BY <2>2, <2>3 DEF Polled
<1>6. h \in {c, p, Shutdown(p)} \/ (h = Startup(p) /\ r.power = "OFF")
  BY DEF HandleLongKey, c
<1>. QED  BY <1>3, <1>4, <1>5, <1>6

LEMMA MainPowers ==
  ASSUME SInv, PowerInv, MainStep
  PROVE  PowerInv' /\ EndShown(phone, phone')
<1>1. PhoneInv(phone) /\ IsPhone(phone) /\ phone \in AnyPhone
  BY DEF SInv, PowerInv, PhoneInv
<1>2. CASE FindDevice \/ SearchFails \/ Leave
  BY <1>2 DEF FindDevice, SearchFails, Leave, vars, PowerInv, Polled, EndShown
<1>3. CASE StartSession
  <2>. DEFINE s == Startup(phone)
              q == [s EXCEPT !.hardShutdown = FALSE]
              b == evfd = "dead"
  <2>1. ~phone.ringing /\ Rested(phone)
    BY <1>3 DEF StartSession, SInv, Dark, PowerInv
  <2>2. PhoneInv(s) /\ Rested(s)
    BY <1>1, <2>1, StartupInv DEF Rested
  <2>9. s.alive /\ s.polling \in 1..2
    <3>1. phone.polling \in Nat /\ phone.polling <= 1
      BY <1>1, <1>3 DEF AnyPhone, PowerInv, StartSession
    <3>. QED  BY <1>1, <3>1, StartupFollows
  <2>3. phone' = [q EXCEPT !.broken = b]
    BY <1>3 DEF StartSession, Fresh
  <2>. HIDE DEF s
  <2>4. PhoneInv(q) /\ Rested(q) /\ q.alive /\ q.polling = s.polling
    <3>1. PhoneInv(q) /\ Rested(q)
      BY <2>2, MarkGood
    <3>. QED  BY <2>2, <2>9, <3>1 DEF PhoneInv, AnyPhone
  <2>5. b \in BOOLEAN
    OBVIOUS
  <2>. HIDE DEF q, b
  <2>6. PhoneInv(phone') /\ Rested(phone')
    BY <2>3, <2>4, <2>5, MarkGood
  <2>10. Polled(phone')
    <3>1. phone'.alive /\ phone'.polling = s.polling
      BY <2>3, <2>4 DEF PhoneInv, AnyPhone
    <3>. QED  BY <2>9, <3>1 DEF Polled
  <2>7. held' = held /\ main' \in {"ready", "aborted"}
    BY <1>3 DEF StartSession
  <2>8. EndShown(phone, phone')
    BY <1>1, <2>1 DEF EndShown, Rested, PhoneInv, CoreInv
  <2>. QED  BY <2>6, <2>7, <2>8, <2>10 DEF PowerInv
<1>4. CASE Run
  <2>1. phone' = [phone EXCEPT !.stopping = FALSE]
    BY <1>4 DEF Run
  <2>2. /\ PhoneInv(phone') /\ ~phone'.stopping /\ phone'.call = phone.call
        /\ phone'.alive = phone.alive /\ phone'.polling = phone.polling
    BY <1>1, <2>1, MarkGood DEF AnyPhone
  <2>. QED  BY <1>4, <2>2 DEF Run, PowerInv, Polled, EndShown
<1>5. CASE IoError
  <2>1. PhoneInv(phone') /\ ~phone'.alive /\ phone'.polling = 0
    BY <1>1, <1>5, StopGood DEF IoError, PowerInv
  <2>. QED  BY <1>5, <2>1 DEF IoError, InLoop, PowerInv, Polled, Rested, EndShown
<1>6. CASE Again
  <2>1. Rested(phone)
    BY <1>6 DEF Again, PowerInv
  <2>2. PhoneInv(phone') /\ Rested(phone')
    BY <1>1, <1>6, <2>1, HideGood DEF Again, Cleared
  <2>3. phone'.call = phone.call /\ phone'.alive = phone.alive /\ phone'.polling = phone.polling
    BY <1>1, <1>6 DEF Again, Cleared, HideAll, RingerOff, AnyPhone
  <2>. QED  BY <1>6, <2>2, <2>3 DEF Again, PowerInv, Polled, EndShown
<1>. QED  BY <1>2, <1>3, <1>4, <1>5, <1>6 DEF MainStep

LEMMA OthersPower ==
  ASSUME SInv, PowerInv, \/ SignalInSelect \/ SignalInSession \/ SignalOutside
                         \/ Unplug \/ Plug \/ HandsetEvent
  PROVE  PowerInv' /\ EndShown(phone, phone')
<1>1. PhoneInv(phone) /\ IsPhone(phone) /\ phone \in AnyPhone /\ held \in Keys \cup {"none"}
  BY DEF SInv, PowerInv, PhoneInv
<1>2. CASE SignalInSelect \/ SignalInSession
  <2>1. /\ PhoneInv(phone') /\ ~phone'.alive /\ phone'.polling = 0
        /\ phone.stopping => phone'.stopping
    BY <1>1, <1>2, StopGood DEF SignalInSelect, SignalInSession, PowerInv
  <2>2. held' = held /\ (main' = "left" => main = "left")
    BY <1>2 DEF SignalInSelect, SignalInSession
  <2>. QED  BY <2>1, <2>2 DEF PowerInv, Polled, Rested, EndShown
<1>3. CASE SignalOutside \/ Plug
  BY <1>3 DEF SignalOutside, Plug, vars, PowerInv, Polled, EndShown
<1>4. CASE Unplug
  BY <1>4 DEF Unplug, PowerInv, Polled, EndShown
<1>5. CASE HandsetEvent
  <2>1. main' = main /\ main = "loop"
    BY <1>5 DEF HandsetEvent, sessionVars
  <2>2. KeyEvent \/ CoreEvent \/ LongKey \/ MinRingOver
    BY <1>5 DEF HandsetEvent
  <2>3. PhoneInv(phone') /\ held' \in Keys \cup {"none"} /\ EndShown(phone, phone')
    BY <1>1, <2>2, KeyEventStep, OtherStep DEF EventGood
  <2>. DEFINE StillGood == /\ phone'.stopping => Rested(phone')
                           /\ Polled(phone') /\ (phone'.stopping => phone'.polling <= 1)
  <2>4. StillGood
    <3>1. ASSUME KeyEvent \/ CoreEvent, ~phone.stopping PROVE StillGood
      BY <1>1, <3>1, EventFollows DEF Follows, Polled, PowerInv
    <3>2. ASSUME MinRingOver PROVE StillGood
      <4>1. /\ phone'.stopping = phone.stopping
            /\ phone'.alive = phone.alive /\ phone'.polling = phone.polling
        BY <1>1, <3>2, TimerFollows DEF Follows
      <4>2. phone'.reg = phone.reg /\ phone'.call = phone.call
        BY <1>1, <3>2 DEF MinRingOver, AnyPhone
      <4>. QED  BY <2>1, <4>1, <4>2 DEF PowerInv, Polled, Rested
    <3>3. ASSUME LongKey PROVE StillGood
      <4>1. PICK r \in Reads(phone) :
              phone' = [HandleLongKey(phone, r) EXCEPT !.pressed = "none", !.keylong = FALSE]
        BY <3>3 DEF LongKey
      <4>. DEFINE h == HandleLongKey(phone, r)
      <4>2. PhoneInv(h)
        BY <1>1, HandleLongKeyGood DEF Good
      <4>3. /\ h.stopping => Rested(h)
            /\ Polled(h)
            /\ h.polling <= 1 \/ (h.polling = phone.polling /\ h.stopping = phone.stopping)
        BY <1>1, LongKeyStops DEF PowerInv
      <4>. HIDE DEF h
      <4>4. /\ phone'.stopping = h.stopping /\ phone'.alive = h.alive /\ phone'.polling = h.polling
            /\ phone'.reg = h.reg /\ phone'.call = h.call
        BY <4>1, <4>2 DEF h, PhoneInv, AnyPhone
      <4>. QED  BY <2>1, <4>3, <4>4 DEF Rested, Polled, PowerInv
    <3>. QED  BY <1>5, <3>1, <3>2, <3>3 DEF HandsetEvent
  <2>. QED  BY <2>1, <2>3, <2>4 DEF PowerInv
<1>. QED  BY <1>2, <1>3, <1>4, <1>5

LEMMA PowerInvariance == SessionSpec => []PowerInv
<1>1. SessionInit => PowerInv
  <2>. SUFFICES ASSUME SessionInit PROVE PowerInv
    OBVIOUS
  <2>1. PICK model \in Models : phone = Powerless(model)
    BY DEF SessionInit, Handsets
  <2>2. PhoneInv(phone) /\ ~phone.alive
    BY <2>1, PowerlessGood
  <2>3. phone.polling = 0
    BY <2>1 DEF Powerless
  <2>. QED  BY <2>2, <2>3 DEF SessionInit, PowerInv, Polled, Rested
<1>2. SInv /\ PowerInv /\ [SessionNext]_allVars => PowerInv'
  <2>1. ASSUME PowerInv, UNCHANGED allVars PROVE PowerInv'
    BY <2>1 DEF allVars, vars, sessionVars, PowerInv, Polled
  <2>. QED  BY <2>1, MainPowers, OthersPower DEF SessionNext
<1>. QED  BY <1>1, <1>2, SessionInvariance, PTL DEF SessionSpec

-----------------------------------------------------------------------------
(* The pointer to a destroyed core                                         *)

\* Read as it was left, a core that is gone gives a key and the hook nothing to do and
\* a shutdown nothing to command; a long red key makes a new one.
LEMMA GoneUnharmed ==
  ASSUME NEW p, IsPhone(p), CoreInv(p), ~p.alive, FreedKept, NEW r \in Reads(p)
  PROVE  /\ \A q, k : HandleKey(q, r, k) = q
         /\ \A up : HandleHook(p, r, up) = p
         /\ HandleLongKey(p, r) \in {p, Startup(p)}
         /\ r.power = "OFF"
<1>1. r.power = "OFF" /\ r.call = "IDLE"
  BY DEF Reads, CoreInv
<1>2. \A q, k : HandleKey(q, r, k) = q
  BY <1>1, Zenon DEF HandleKey, DigitKey, UpKey, CKey, GreenKey, RedKey
<1>3. \A up : HandleHook(p, r, up) = p
  BY <1>1 DEF HandleHook, Busy
<1>4. HandleLongKey(p, r) \in {p, Startup(p)}
  BY <1>1 DEF HandleLongKey
<1>. QED  BY <1>1, <1>2, <1>3, <1>4

\* A long key harms neither a core that lives nor one that is gone.
LEMMA LongKeyUnharmed ==
  ASSUME NEW p, PhoneInv(p), IsPhone(p), FreedKept, NEW r \in Reads(p)
  PROVE  HandleLongKey(p, r).broken = p.broken
<1>1. CASE p.alive
  <2>. DEFINE c == [p EXCEPT !.dialnum = << >>, !.text = Word("default")]
  <2>1. c.broken = p.broken
    BY DEF IsPhone, Watched
  <2>2. Startup(p).broken = p.broken /\ Shutdown(p).broken = p.broken
    BY <1>1, StartupFollows, ShutdownFollows
  <2>3. HandleLongKey(p, r) \in {c, p, Startup(p), Shutdown(p)}
    BY DEF HandleLongKey
  <2>. HIDE DEF c
  <2>. QED  BY <2>1, <2>2, <2>3
<1>2. CASE ~p.alive
  BY <1>2, GoneUnharmed, StartupFollows DEF PhoneInv
<1>. QED  BY <1>1, <1>2

LEMMA StopUnharmed ==
  ASSUME NEW p, PhoneInv(p), IsPhone(p), FreedKept, NEW r \in Reads(p)
  PROVE  StopYlcontrol(p, r).broken = p.broken
<1>. DEFINE q == [p EXCEPT !.hardShutdown = TRUE]
            h == HideAll(q)
<1>1. IsPhone(q) /\ q.broken = p.broken /\ q.alive = p.alive
  BY DEF IsPhone, Watched
<1>2. StopYlcontrol(p, r) = IF r.power = "OFF" THEN [h EXCEPT !.stopping = TRUE] ELSE Shutdown(q)
  BY DEF StopYlcontrol
<1>3. ~p.alive => r.power = "OFF"
  BY GoneUnharmed DEF PhoneInv
<1>4. p.alive => r.power # "OFF"
  BY ReadsFacts DEF PhoneInv, CoreInv
<1>5. h.broken = q.broken /\ IsPhone(h)
  BY <1>1, RingerFollows DEF HideAll, RingerOff, IsPhone, Watched, Follows
<1>. HIDE DEF q, h
<1>6. [h EXCEPT !.stopping = TRUE].broken = h.broken
  BY <1>5 DEF IsPhone, Watched
<1>. QED  BY <1>1, <1>2, <1>3, <1>4, <1>5, <1>6, ShutdownFollows

\* Nothing that comes from the handset or the core harms a core that is gone.
LEMMA EventUnharmed ==
  ASSUME SInv, PowerInv, FreedKept, HandsetEvent
  PROVE  phone'.broken = phone.broken
<1>1. IsPhone(phone) /\ PhoneInv(phone) /\ Polled(phone) /\ phone.polling \in Nat
  BY DEF SInv, PowerInv, PhoneInv, AnyPhone
<1>2. KeyEvent \/ CoreEvent \/ LongKey \/ MinRingOver
  BY DEF HandsetEvent
<1>3. ASSUME KeyEvent \/ CoreEvent, phone.alive PROVE phone'.broken = phone.broken
  BY <1>1, <1>3, EventFollows DEF Follows
<1>4. ASSUME KeyEvent, ~phone.alive PROVE phone'.broken = phone.broken
  <2>1. \A q : IsPhone(q) => Armed(q).broken = q.broken
    BY DEF Armed, IsPhone, Watched
  <2>2. \A k : IsPhone([phone EXCEPT !.pressed = k])
               /\ [phone EXCEPT !.pressed = k].broken = phone.broken
    BY <1>1 DEF IsPhone, Watched
  <2>3. ASSUME NEW k \in Keys, Press(k) PROVE phone'.broken = phone.broken
    <3>1. PICK r \in Reads(phone) : phone' = Armed(HandleKey([phone EXCEPT !.pressed = k], r, k))
      BY <2>3 DEF Press
    <3>2. phone' = Armed([phone EXCEPT !.pressed = k])
      BY <1>1, <1>4, <3>1, GoneUnharmed DEF PhoneInv
    <3>. QED  BY <2>1, <2>2, <3>2
  <2>4. ASSUME Release \/ Shift PROVE phone'.broken = phone.broken
    <3>1. phone' = Armed([phone EXCEPT !.pressed = "none"])
      BY <2>4 DEF Release, Shift
    <3>. QED  BY <2>1, <2>2, <3>1
  <2>5. ASSUME NEW up \in BOOLEAN, Hook(up) PROVE phone'.broken = phone.broken
    <3>1. PICK r \in Reads(phone) : phone' = Armed(HandleHook(phone, r, up))
      BY <2>5 DEF Hook
    <3>2. phone' = Armed(phone)
      BY <1>1, <1>4, <3>1, GoneUnharmed DEF PhoneInv
    <3>. QED  BY <1>1, <2>1, <3>2
  <2>. QED  BY <1>4, <2>3, <2>4, <2>5 DEF KeyEvent
<1>5. ~(CoreEvent /\ ~phone.alive)
  BY <1>1 DEF CoreEvent, Registered, Unregistered, CallArrives, Answered, CallEnds, CallFails,
              Iterate, Polled
<1>6. ASSUME MinRingOver PROVE phone'.broken = phone.broken
  BY <1>1, <1>6 DEF MinRingOver, IsPhone, Watched
<1>7. ASSUME LongKey PROVE phone'.broken = phone.broken
  <2>1. PICK r \in Reads(phone) :
          phone' = [HandleLongKey(phone, r) EXCEPT !.pressed = "none", !.keylong = FALSE]
    BY <1>7 DEF LongKey
  <2>. DEFINE h == HandleLongKey(phone, r)
  <2>2. h.broken = phone.broken /\ IsPhone(h)
    BY <1>1, LongKeyUnharmed, LongKeyFollows DEF Obeys
  <2>. HIDE DEF h
  <2>3. phone' = [h EXCEPT !.pressed = "none", !.keylong = FALSE]
    BY <2>1 DEF h
  <2>. QED  BY <2>2, <2>3 DEF IsPhone, Watched
<1>. QED  BY <1>2, <1>3, <1>4, <1>5, <1>6, <1>7 DEF HandsetEvent

LEMMA UnharmedStep == SInv /\ PowerInv /\ Unharmed /\ [SessionNext]_allVars => Unharmed'
<1>. SUFFICES ASSUME SInv, PowerInv, Unharmed, [SessionNext]_allVars, FreedKept, signals' = 0
     PROVE  ~phone'.broken
  BY DEF Unharmed
<1>1. IsPhone(phone) /\ PhoneInv(phone) /\ signals \in Nat
  BY DEF SInv, PowerInv
<1>2. CASE UNCHANGED <<phone, signals>>
  BY <1>2 DEF Unharmed
<1>3. CASE StartSession
  <2>1. signals = 0 /\ main = "start" /\ phone' = [Fresh(Startup(phone)) EXCEPT !.broken = evfd = "dead"]
    BY <1>3 DEF StartSession
  <2>2. evfd # "dead"
    BY <2>1 DEF SInv, EndInv
  <2>3. IsPhone(Fresh(Startup(phone)))
    BY <1>1, StartupFollows DEF Obeys, Fresh, IsPhone, Watched
  <2>. QED  BY <2>1, <2>2, <2>3 DEF IsPhone, Watched
<1>4. CASE Run \/ Again
  <2>1. HideAll(phone).broken = phone.broken
    BY <1>1 DEF HideAll, RingerOff, IsPhone, Watched
  <2>2. [phone EXCEPT !.stopping = FALSE].broken = phone.broken
    BY <1>1 DEF IsPhone, Watched
  <2>. QED  BY <1>4, <2>1, <2>2 DEF Run, Again, Cleared, Unharmed
<1>5. CASE IoError
  BY <1>1, <1>5, StopUnharmed DEF IoError, Unharmed
<1>6. CASE SignalInSelect \/ SignalInSession \/ SignalOutside
  BY <1>1, <1>6 DEF SignalInSelect, SignalInSession, SignalOutside
<1>7. CASE HandsetEvent
  BY <1>7, EventUnharmed DEF HandsetEvent, sessionVars, Unharmed
<1>8. CASE FindDevice \/ SearchFails \/ Leave \/ Unplug \/ Plug \/ UNCHANGED allVars
  BY <1>2, <1>8 DEF FindDevice, SearchFails, Leave, Unplug, Plug, allVars, vars, sessionVars
<1>. QED
  BY <1>3, <1>4, <1>5, <1>6, <1>7, <1>8 DEF SessionNext, MainStep

LEMMA UnharmedInvariance == SessionSpec => []Unharmed
<1>1. SessionInit => Unharmed
  BY DEF SessionInit, Handsets, Powerless, Unharmed
<1>. QED  BY <1>1, UnharmedStep, SessionInvariance, PowerInvariance, PTL DEF SessionSpec

-----------------------------------------------------------------------------
(* The theorems                                                            *)

\* A session ends only when the handset is gone or a signal came, and leaves no
\* event device grabbed (ylcontrol.c:794-812, yeaphone.c:166-174).
THEOREM EndsWhenGone == SessionSpec => []EndsOnlyWhenGone
<1>1. SInv => EndsOnlyWhenGone
  BY DEF SInv, EndInv, EndsOnlyWhenGone
<1>. QED  BY <1>1, SessionInvariance, PTL

\* Between two sessions the handset is dark and silent (yldisp_clear, yeaphone.c:174).
THEOREM DarkBetween == SessionSpec => []DarkBetweenSessions
<1>1. SInv => DarkBetweenSessions
  BY DEF SInv, Dark, DarkBetweenSessions
<1>. QED  BY <1>1, SessionInvariance, PTL

\* A destroyed core is polled by no timer and, as long as its memory reads as it was
\* left, commanded by nobody; a living one is polled by one timer or two (CoreLeftAlone,
\* lpcontrol.c:210-223, 300-311, ylcontrol.c:289-295, 890-908).
THEOREM CoreAlwaysLeftAlone == SessionSpec => []CoreLeftAlone
<1>1. PowerInv /\ Unharmed => CoreLeftAlone
  BY DEF PowerInv, Polled, PolledWhileAlive, CoreLeftAlone
<1>. QED  BY <1>1, PowerInvariance, UnharmedInvariance, PTL

\* In every session, and between them, the number on the display is the one the green
\* key would dial, the LED shows the registration, and the ringing comes to an end
\* (RightInEverySession, ylcontrol.c:862-908).
THEOREM RightAlways == SessionSpec => []RightInEverySession
<1>1. PowerInv => ShownIsDialled
  BY DEF PowerInv, PhoneInv, NumberInv, ShownIsDialled, Ready
<1>2. PowerInv => LedShowsRegistration
  BY DEF PowerInv, PhoneInv, LedInv, LedShowsRegistration
<1>3. PowerInv => RingingEnds
  BY DEF PowerInv, PhoneInv, RingInv, RingingEnds
<1>4. PowerInv => RightInEverySession
  BY <1>1, <1>2, <1>3 DEF RightInEverySession
<1>. QED  BY <1>4, PowerInvariance, PTL

\* A call whose end the program hears of leaves the number of the other side on the
\* display, in whatever session it began, but for the texts of a failed call or
\* registration and for a core that was destroyed (LastNumberShown).
THEOREM LastNumberAlways == SessionSpec => LastNumberShown
<1>1. SInv /\ PowerInv /\ [SessionNext]_allVars =>
        [ phone.call # "IDLE" /\ phone'.call = "IDLE" /\ phone'.alive
          /\ phone'.text.kind \notin {"error", "regfailed"}
          => phone'.text = IF phone.party = << >> THEN Word("default") ELSE Shown(phone.party)
        ]_vars
  <2>1. ASSUME SInv, PowerInv, SessionNext PROVE EndShown(phone, phone')
    BY <2>1, MainPowers, OthersPower DEF SessionNext
  <2>. QED  BY <2>1 DEF allVars, EndShown
<1>. QED  BY <1>1, SessionInvariance, PowerInvariance, PTL DEF SessionSpec, LastNumberShown
=============================================================================
