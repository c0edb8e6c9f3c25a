---------------------------- MODULE HandsetProofs ---------------------------
(***************************************************************************)
(* Handset: what is proved for any digits, any length of a number, any     *)
(* handset and any contents of freed memory.                               *)
(*                                                                         *)
(* Every handler is an operator from one phone record to the next, so the  *)
(* inductive invariant is a predicate on such a record, PhoneInv, and      *)
(* there is a lemma for each operator that preserves it.                   *)
(***************************************************************************)
EXTENDS Handset, SequenceTheorems, TLAPS

\* The core is powered exactly while it exists.
CoreInv(p) ==
  IF p.alive THEN p.power = "ON" ELSE p.power = "OFF" /\ p.call = "IDLE"

\* One timer polls the core while it exists.
PolledInv(p) == p.polling = IF p.alive THEN 1 ELSE 0

\* The number that is shown is the one to dial; during a call there is only the
\* other side's.
NumberInv(p) ==
  /\ p.prepRecall => p.dialnum = << >>
  /\ p.alive /\ p.call = "IDLE" /\ p.text.kind = "number" /\ p.text.num # << >>
       => p.text.num = ToDial(p)
  /\ p.call # "IDLE" => p.dialnum = << >> /\ p.dialback = p.party

LedInv(p) ==
  p.alive /\ p.call = "IDLE" =>
    (p.reg = "OK" => p.led = "on") /\ (p.reg = "FAILED" => p.led = "fast")

RingInv(p) ==
  p.ringing /\ p.model = "P1K" =>
    p.call = "IN_INVITE" \/ (p.minring /\ p.ringOffDelayed)

PhoneInv(p) == p \in AnyPhone /\ CoreInv(p) /\ NumberInv(p) /\ LedInv(p) /\ RingInv(p)

\* The handlers leave the bookkeeping of long keys to the io callback.
SameKey(p, q) == q.pressed = p.pressed /\ q.keylong = p.keylong

\* LastNumberShown, of two records.
EndShown(p, q) ==
  p.call # "IDLE" /\ q.call = "IDLE" /\ q.alive /\ q.text.kind \notin {"error", "regfailed"}
    => q.text = IF p.party = << >> THEN Word("default") ELSE Shown(p.party)

Good(p, q) ==
  PhoneInv(q) /\ SameKey(p, q) /\ EndShown(p, q) /\ (PolledInv(p) => PolledInv(q))

-----------------------------------------------------------------------------
(* Numbers                                                                 *)

\* A number is a sequence of at most MaxLen digits.
LEMMA NumbersAreSequences ==
  /\ \A n \in Numbers : n \in Seq(Digits) /\ Len(n) \in 0..MaxLen
  /\ \A n \in Seq(Digits) : Len(n) <= MaxLen => n \in Numbers
<1>1. ASSUME NEW n \in Numbers PROVE n \in Seq(Digits) /\ Len(n) \in 0..MaxLen
  <2>1. PICK k \in 0..MaxLen : n \in [1..k -> Digits]  BY DEF Numbers
  <2> QED BY <2>1
<1>2. ASSUME NEW n \in Seq(Digits), Len(n) <= MaxLen PROVE n \in Numbers
  <2>1. n \in [1..Len(n) -> Digits] /\ Len(n) \in 0..MaxLen
    BY <1>2, HandsetAssumption, LenProperties DEF HandsetAssumption
  <2> QED BY <2>1 DEF Numbers
<1> QED BY <1>1, <1>2

\* The empty number, one digit more, and one digit less.
LEMMA NumberFacts ==
  /\ << >> \in Numbers
  /\ \A n \in Numbers, d \in Digits : Len(n) < MaxLen => Append(n, d) \in Numbers
  /\ \A n \in Numbers : n # << >> => SubSeq(n, 1, Len(n) - 1) \in Numbers
<1>1. << >> \in Numbers
  <2>1. << >> \in Seq(Digits) /\ Len(<< >>) <= MaxLen
    BY HandsetAssumption DEF HandsetAssumption
  <2> QED BY <2>1, NumbersAreSequences
<1>2. ASSUME NEW n \in Numbers, NEW d \in Digits, Len(n) < MaxLen
      PROVE  Append(n, d) \in Numbers
  <2>1. n \in Seq(Digits) /\ Len(n) \in Nat  BY NumbersAreSequences
  <2>2. Append(n, d) \in Seq(Digits) /\ Len(Append(n, d)) = Len(n) + 1
    BY <2>1, AppendProperties
  <2>3. Len(Append(n, d)) <= MaxLen
    BY <1>2, <2>1, <2>2, HandsetAssumption DEF HandsetAssumption
  <2> QED BY <2>2, <2>3, NumbersAreSequences
<1>3. ASSUME NEW n \in Numbers, n # << >> PROVE SubSeq(n, 1, Len(n) - 1) \in Numbers
  <2> DEFINE m == SubSeq(n, 1, Len(n) - 1)
  <2>1. n \in Seq(Digits) /\ Len(n) \in 0..MaxLen  BY NumbersAreSequences
  <2>2. Len(n) # 0  BY <1>3, <2>1, EmptySeq
  <2>3. Len(n) \in Nat /\ Len(n) <= MaxLen
    BY <2>1, HandsetAssumption DEF HandsetAssumption
  <2>4. m \in Seq(Digits) /\ Len(m) = Len(n) - 1
    <3> DEFINE k == Len(n) - 1
    <3>1. k \in Int /\ 1 \in Int /\ \A i \in 1..k : n[i] \in Digits  BY <2>1, <2>3, LenProperties
    <3>2. k \in Nat  BY <2>2, <2>3
    <3> HIDE DEF k
    <3>3. /\ SubSeq(n, 1, k) \in Seq(Digits)
          /\ Len(SubSeq(n, 1, k)) = IF 1 <= k THEN k - 1 + 1 ELSE 0
      BY <3>1, SubSeqProperties
    <3>4. CASE k = 0  BY <3>3, <3>4 DEF k
    <3>5. CASE 1 <= k
      <4>1. Len(SubSeq(n, 1, k)) = k - 1 + 1  BY <3>3, <3>5, Zenon
      <4>2. k - 1 + 1 = k  BY <3>2
      <4> QED BY <3>3, <4>1, <4>2 DEF k
    <3> QED BY <3>2, <3>4, <3>5
  <2>5. Len(m) <= MaxLen
    BY <2>3, <2>4, HandsetAssumption DEF HandsetAssumption
  <2> HIDE DEF m
  <2>6. m \in Numbers  BY <2>4, <2>5, NumbersAreSequences
  <2> QED BY <2>6 DEF m
<1> QED BY <1>1, <1>2, <1>3

\* What line 3 shows is a text.
LEMMA TextFacts ==
  /\ \A n \in Numbers : Shown(n) \in Texts /\ Shown(n).kind = "number" /\ Shown(n).num = n
  /\ \A w \in {"blank", "default", "off", "startup", "shutdown", "regfailed", "select",
               "anonymous", "error"} : Word(w) \in Texts /\ Word(w).kind = w
BY DEF Shown, Word, Texts

-----------------------------------------------------------------------------
(* Types.  Only Zenon is asked: these facts are about fields with Boolean   *)
(* values.                                                                 *)

LEMMA DisplayTypes ==
  ASSUME NEW p \in AnyPhone
  PROVE  /\ RingerOn(p) \in AnyPhone
         /\ RingerOff(p) \in AnyPhone
         /\ RingerOffLater(p) \in AnyPhone
         /\ HideAll(p) \in AnyPhone
<1>1. RingerOn(p) \in AnyPhone  BY Zenon DEF RingerOn, AnyPhone
<1>2. RingerOff(p) \in AnyPhone  BY Zenon DEF RingerOff, AnyPhone
<1>3. RingerOffLater(p) \in AnyPhone
  <2>1. CASE p.minring  BY <2>1, Zenon DEF RingerOffLater, AnyPhone
  <2>2. CASE ~p.minring  BY <2>2, Zenon DEF RingerOffLater, AnyPhone
  <2> QED BY <2>1, <2>2
<1>4. HideAll(p) \in AnyPhone
  <2>1. Word("blank") \in Texts  BY TextFacts
  <2> QED BY <1>2, <2>1, Zenon DEF HideAll, AnyPhone
<1> QED BY <1>1, <1>2, <1>3, <1>4

LEMMA ReportTypes ==
  ASSUME NEW p \in AnyPhone
  PROVE  /\ OnPowerOff(p) \in AnyPhone
         /\ OnStartup(p) \in AnyPhone /\ OnPowerOn(p) \in AnyPhone /\ OnShutdown(p) \in AnyPhone
         /\ OnRegOk(p) \in AnyPhone /\ OnRegFailed(p) \in AnyPhone
         /\ OnIdle(p) \in AnyPhone /\ OnConnected(p) \in AnyPhone /\ OnOutInvite(p) \in AnyPhone
         /\ OnEnd(p) \in AnyPhone /\ OnError(p) \in AnyPhone
         /\ \A n \in Numbers : OnInvite(p, n) \in AnyPhone
<1>1. /\ Word("off") \in Texts /\ Word("startup") \in Texts /\ Word("shutdown") \in Texts
      /\ Word("default") \in Texts /\ Word("regfailed") \in Texts
      /\ Word("anonymous") \in Texts /\ Word("error") \in Texts
      /\ \A n \in Numbers : Shown(n) \in Texts
      /\ << >> \in Numbers
  BY TextFacts, NumberFacts
<1>2. Redial(p) \in Texts  BY <1>1, Zenon DEF Redial, AnyPhone
<1>3. OnPowerOff(p) \in AnyPhone
  <2> DEFINE q == [p EXCEPT !.polling = 0]
             h == HideAll(q)
  <2>1. q \in AnyPhone  BY Zenon DEF AnyPhone
  <2>2. h \in AnyPhone  BY <2>1, DisplayTypes
  <2>3. OnPowerOff(p) = IF h.hardShutdown THEN [h EXCEPT !.stopping = TRUE]
                        ELSE [h EXCEPT !.text = Word("off")]
    BY DEF OnPowerOff
  <2> HIDE DEF h
  <2>4. [h EXCEPT !.stopping = TRUE] \in AnyPhone  BY <2>2, Zenon DEF AnyPhone
  <2>5. [h EXCEPT !.text = Word("off")] \in AnyPhone  BY <1>1, <2>2, Zenon DEF AnyPhone
  <2> QED BY <2>3, <2>4, <2>5, Zenon
<1>4. OnStartup(p) \in AnyPhone  BY <1>1, Zenon DEF OnStartup, AnyPhone
<1>5. OnPowerOn(p) \in AnyPhone  BY <1>1, Zenon DEF OnPowerOn, AnyPhone
<1>6. OnShutdown(p) \in AnyPhone
  <2>1. HideAll(p) \in AnyPhone  BY DisplayTypes
  <2> QED BY <1>1, <2>1, Zenon DEF OnShutdown, AnyPhone
<1>7. OnRegOk(p) \in AnyPhone
  <2> DEFINE t == IF p.dialnum = << >> THEN Redial(p) ELSE p.text
  <2>1. t \in Texts  BY <1>2, Zenon DEF AnyPhone
  <2>2. OnRegOk(p) = IF p.call # "IDLE" THEN p ELSE [p EXCEPT !.led = "on", !.text = t]
    BY DEF OnRegOk
  <2> HIDE DEF t
  <2>3. [p EXCEPT !.led = "on", !.text = t] \in AnyPhone  BY <2>1, Zenon DEF AnyPhone
  <2> QED BY <2>2, <2>3, Zenon
<1>8. OnRegFailed(p) \in AnyPhone
  <2> DEFINE t == IF p.dialnum = << >> THEN Word("regfailed") ELSE p.text
  <2>1. t \in Texts  BY <1>1, Zenon DEF AnyPhone
  <2>2. OnRegFailed(p) = IF p.call # "IDLE" THEN p ELSE [p EXCEPT !.led = "fast", !.text = t]
    BY DEF OnRegFailed
  <2> HIDE DEF t
  <2>3. [p EXCEPT !.led = "fast", !.text = t] \in AnyPhone  BY <2>1, Zenon DEF AnyPhone
  <2> QED BY <2>2, <2>3, Zenon
<1>9. OnIdle(p) \in AnyPhone
  <2>1. [p EXCEPT !.text = Word("regfailed"), !.dialnum = << >>, !.led = "fast"] \in AnyPhone
    BY <1>1, Zenon DEF AnyPhone
  <2>2. [p EXCEPT !.led = "on"] \in AnyPhone  BY Zenon DEF AnyPhone
  <2> QED BY <2>1, <2>2, Zenon DEF OnIdle
<1>10. OnConnected(p) \in AnyPhone
  <2> DEFINE q == IF p.call = "IN_CONNECTED" THEN RingerOff(p) ELSE p
  <2>1. q \in AnyPhone  BY DisplayTypes
  <2>2. OnConnected(p) = [q EXCEPT !.led = "talk"]  BY DEF OnConnected
  <2> HIDE DEF q
  <2>3. [q EXCEPT !.led = "talk"] \in AnyPhone  BY <2>1, Zenon DEF AnyPhone
  <2> QED BY <2>2, <2>3
<1>11. OnOutInvite(p) \in AnyPhone  BY Zenon DEF OnOutInvite, AnyPhone
<1>12. OnEnd(p) \in AnyPhone
  <2>1. RingerOffLater(p) \in AnyPhone  BY DisplayTypes
  <2> QED BY <1>2, <2>1, Zenon DEF OnEnd, AnyPhone
<1>13. OnError(p) \in AnyPhone
  <2>1. RingerOff(p) \in AnyPhone  BY DisplayTypes
  <2> QED BY <1>1, <2>1, Zenon DEF OnError, AnyPhone
<1>14. ASSUME NEW n \in Numbers PROVE OnInvite(p, n) \in AnyPhone
  <2> DEFINE t == IF n = << >> THEN Word("anonymous") ELSE Shown(n)
             q == [p EXCEPT !.text = t, !.dialback = n, !.dialnum = << >>, !.led = "ring"]
  <2>1. t \in Texts  BY <1>1
  <2>2. OnInvite(p, n) = RingerOn(q)  BY DEF OnInvite
  <2> HIDE DEF t
  <2>3. q \in AnyPhone  BY <1>1, <2>1, Zenon DEF AnyPhone
  <2> QED BY <2>2, <2>3, DisplayTypes
<1> QED BY <1>3, <1>4, <1>5, <1>6, <1>7, <1>8, <1>9, <1>10, <1>11, <1>12, <1>13, <1>14

\* Commands to the phone core.
LEMMA CommandTypes ==
  ASSUME NEW p \in AnyPhone
  PROVE  /\ EndCall(p) \in AnyPhone /\ FailCall(p) \in AnyPhone
         /\ Hangup(p) \in AnyPhone /\ Pickup(p) \in AnyPhone
         /\ Shutdown(p) \in AnyPhone /\ Startup(p) \in AnyPhone
         /\ \A n \in Numbers : Invite(p, n) \in AnyPhone
<1> DEFINE e == [p EXCEPT !.call = "IDLE", !.party = << >>]
           c == [p EXCEPT !.call = "IN_CONNECTED"]
<1>1. e \in AnyPhone /\ c \in AnyPhone /\ [p EXCEPT !.broken = TRUE] \in AnyPhone
  <2>1. e \in AnyPhone  BY NumberFacts, Zenon DEF AnyPhone, CallStates
  <2>2. c \in AnyPhone  BY Zenon DEF AnyPhone, CallStates
  <2>3. [p EXCEPT !.broken = TRUE] \in AnyPhone  BY Zenon DEF AnyPhone
  <2> QED BY <2>1, <2>2, <2>3
<1>2. EndCall(p) \in AnyPhone /\ FailCall(p) \in AnyPhone
  <2>1. EndCall(p) = OnIdle(OnEnd(e)) /\ FailCall(p) = OnIdle(OnError(e))
    BY DEF EndCall, FailCall
  <2> QED BY <1>1, <2>1, ReportTypes
<1>3. Terminate(p) \in AnyPhone  BY <1>2 DEF Terminate
<1>4. Hangup(p) \in AnyPhone  BY <1>1, <1>3, Zenon DEF Hangup, OnCore
<1>5. Pickup(p) \in AnyPhone
  <2>1. OnConnected(c) \in AnyPhone  BY <1>1, ReportTypes
  <2> QED BY <1>1, <2>1, Zenon DEF Pickup, OnCore
<1>6. ASSUME NEW n \in Numbers PROVE Invite(p, n) \in AnyPhone
  <2> DEFINE q == [p EXCEPT !.call = "OUT_INVITE", !.party = n]
  <2>1. q \in AnyPhone  BY Zenon DEF AnyPhone, CallStates
  <2>2. OnOutInvite(q) \in AnyPhone  BY <2>1, ReportTypes
  <2> QED BY <1>1, <2>2, Zenon DEF Invite, OnCore
<1>7. Startup(p) \in AnyPhone
  <2> DEFINE s == [p EXCEPT !.alive = TRUE, !.polling = @ + 1, !.call = "IDLE", !.party = << >>,
                            !.reg = "NONE", !.power = "STARTUP"]
             u == OnStartup(s)
             t == [u EXCEPT !.power = "ON"]
  <2>1. p.polling + 1 \in Nat  BY DEF AnyPhone
  <2>2. s \in AnyPhone
    BY <2>1, NumberFacts, ZenonT(60) DEF AnyPhone, CallStates, PowerStates, RegStates
  <2>3. u \in AnyPhone  BY <2>2, ReportTypes
  <2>4. Startup(p) = OnPowerOn(t)  BY DEF Startup
  <2> HIDE DEF u
  <2>5. t \in AnyPhone  BY <2>3, Zenon DEF AnyPhone, PowerStates
  <2> QED BY <2>4, <2>5, ReportTypes
<1>8. Shutdown(p) \in AnyPhone
  <2> DEFINE t == Terminate(p)
             a == [t EXCEPT !.power = "SHUTDOWN"]
             b == OnShutdown(a)
             f == [b EXCEPT !.power = "OFF"]
             g == OnPowerOff(f)
  <2>1. Shutdown(p) = OnCore(p, [g EXCEPT !.alive = FALSE])  BY DEF Shutdown
  <2>2. t \in AnyPhone  BY <1>3
  <2> HIDE DEF t
  <2>3. a \in AnyPhone  BY <2>2, Zenon DEF AnyPhone, PowerStates
  <2>4. b \in AnyPhone  BY <2>3, ReportTypes
  <2> HIDE DEF b
  <2>5. f \in AnyPhone  BY <2>4, Zenon DEF AnyPhone, PowerStates
  <2>6. g \in AnyPhone  BY <2>5, ReportTypes
  <2> HIDE DEF g
  <2>7. [g EXCEPT !.alive = FALSE] \in AnyPhone  BY <2>6, Zenon DEF AnyPhone
  <2> QED BY <1>1, <2>1, <2>7, Zenon DEF OnCore
<1> QED BY <1>2, <1>4, <1>5, <1>6, <1>7, <1>8

-----------------------------------------------------------------------------
(* The phone core: commands and reports                                    *)

LEMMA UndisturbedGood ==
  ASSUME NEW p, PhoneInv(p)
  PROVE  Good(p, p) /\ Good(p, [p EXCEPT !.broken = TRUE])
<1>1. [p EXCEPT !.broken = TRUE] \in AnyPhone  BY Zenon DEF PhoneInv, AnyPhone
<1> QED BY <1>1 DEF Good, PolledInv, SameKey, EndShown, PhoneInv, CoreInv, NumberInv,
           LedInv, RingInv,
                    ToDial, AnyPhone

\* Turning the ringer off disturbs nothing.
LEMMA RingerOffGood ==
  ASSUME NEW p, PhoneInv(p)
  PROVE  Good(p, RingerOff(p))
<1>1. RingerOff(p) \in AnyPhone  BY DisplayTypes DEF PhoneInv
<1> QED BY <1>1 DEF RingerOff, Good, PolledInv, EndShown, SameKey, PhoneInv, CoreInv,
           NumberInv, LedInv,
                    RingInv, ToDial, AnyPhone

\* When a call ends, its number stays on the display, the LED tells whether the
\* phone is registered, and the ringing is over or about to be.
LEMMA EndCallGood ==
  ASSUME NEW p, PhoneInv(p), p.alive, p.call # "IDLE"
  PROVE  /\ Good(p, EndCall(p)) /\ EndCall(p).call = "IDLE"
         /\ EndCall(p).alive /\ EndCall(p).power = "ON" /\ EndCall(p).polling = p.polling
<1>1. EndCall(p) \in AnyPhone  BY CommandTypes DEF PhoneInv
<1>2. p \in AnyPhone /\ p.power = "ON" /\ p.dialnum = << >> /\ p.dialback = p.party
  BY DEF PhoneInv, CoreInv, NumberInv
<1>3. /\ EndCall(p).call = "IDLE" /\ EndCall(p).alive
      /\ EndCall(p).power = "ON" /\ EndCall(p).polling = p.polling
  BY <1>2 DEF EndCall, OnIdle, OnEnd, RingerOffLater, AnyPhone
<1>4. SameKey(p, EndCall(p))
  BY <1>2 DEF EndCall, OnIdle, OnEnd, RingerOffLater, AnyPhone, SameKey
<1>5. LedInv(EndCall(p)) /\ RingInv(EndCall(p))
  BY <1>2 DEF EndCall, OnIdle, OnEnd, RingerOffLater, AnyPhone, LedInv, RingInv
<1>6. NumberInv(EndCall(p)) /\ EndShown(p, EndCall(p))
  BY <1>2 DEF EndCall, OnIdle, OnEnd, RingerOffLater, AnyPhone, NumberInv, EndShown,
             Redial, ToDial,
              Shown, Word
<1> QED BY <1>1, <1>3, <1>4, <1>5, <1>6 DEF Good, PhoneInv, CoreInv, PolledInv

LEMMA FailCallGood ==
  ASSUME NEW p, PhoneInv(p), p.alive, p.call # "IDLE"
  PROVE  Good(p, FailCall(p))
<1>1. FailCall(p) \in AnyPhone  BY CommandTypes DEF PhoneInv
<1>2. p \in AnyPhone /\ p.power = "ON" /\ p.dialnum = << >>
  BY DEF PhoneInv, CoreInv, NumberInv
<1>3. CoreInv(FailCall(p)) /\ SameKey(p, FailCall(p)) /\ (PolledInv(p) => PolledInv(FailCall(p)))
  BY <1>2 DEF FailCall, OnIdle, OnError, RingerOff, AnyPhone, SameKey, CoreInv, PolledInv
<1>4. LedInv(FailCall(p)) /\ RingInv(FailCall(p))
  BY <1>2 DEF FailCall, OnIdle, OnError, RingerOff, AnyPhone, LedInv, RingInv
<1>5. NumberInv(FailCall(p)) /\ EndShown(p, FailCall(p))
  BY <1>2 DEF FailCall, OnIdle, OnError, RingerOff, AnyPhone, NumberInv, EndShown, Word
<1> QED BY <1>1, <1>3, <1>4, <1>5 DEF Good, PhoneInv

LEMMA HangupGood ==
  ASSUME NEW p, PhoneInv(p)
  PROVE  Good(p, Hangup(p))
BY EndCallGood, UndisturbedGood DEF Hangup, OnCore, Terminate

LEMMA PickupGood ==
  ASSUME NEW p, PhoneInv(p), p.alive => p.call = "IN_INVITE"
  PROVE  Good(p, Pickup(p))
<1>1. CASE p.alive
  <2>1. Pickup(p) \in AnyPhone  BY CommandTypes DEF PhoneInv
  <2>2. p \in AnyPhone /\ p.call = "IN_INVITE"  BY <1>1 DEF PhoneInv
  <2> QED BY <1>1, <2>1, <2>2 DEF Pickup, OnCore, OnConnected, RingerOff, Good, PolledInv,
             SameKey,
             EndShown, PhoneInv, CoreInv, NumberInv, LedInv, RingInv, AnyPhone
<1>2. CASE ~p.alive  BY <1>2, UndisturbedGood DEF Pickup, OnCore
<1> QED BY <1>1, <1>2

\* The number that is dialled is the number of the call.
LEMMA DialGood ==
  ASSUME NEW p, PhoneInv(p), p.alive => p.call = "IDLE"
  PROVE  Good(p, Dial(p))
<1> DEFINE n == ToDial(p)
           b == [p EXCEPT !.dialback = n]
           i == Invite(b, n)
<1>1. p \in AnyPhone /\ n \in Numbers  BY DEF PhoneInv, AnyPhone, ToDial
<1>2. b \in AnyPhone  BY <1>1 DEF AnyPhone
<1>3. i \in AnyPhone  BY <1>1, <1>2, CommandTypes
<1>4. Dial(p) = [i EXCEPT !.dialnum = << >>]  BY DEF Dial
<1>5. Dial(p) \in AnyPhone
  <2> HIDE DEF i
  <2> QED BY <1>3, <1>4, NumberFacts DEF AnyPhone
<1>6. CASE p.alive
  BY <1>1, <1>5, <1>6 DEF Dial, Invite, OnCore, OnOutInvite, Good, PolledInv, SameKey,
     EndShown, PhoneInv, CoreInv, NumberInv, LedInv, RingInv, AnyPhone
<1>7. CASE ~p.alive
  BY <1>1, <1>5, <1>7 DEF Dial, Invite, OnCore, Good, PolledInv, SameKey,
     EndShown, PhoneInv, CoreInv, NumberInv, LedInv, RingInv, AnyPhone
<1> QED BY <1>6, <1>7

\* Powering up, even a phone that is on, unless it rings.
LEMMA StartupInv ==
  ASSUME NEW p, PhoneInv(p), ~p.alive \/ ~p.ringing
  PROVE  /\ PhoneInv(Startup(p)) /\ SameKey(p, Startup(p))
         /\ Startup(p).call = "IDLE" /\ Startup(p).reg = "NONE"
         /\ Startup(p).alive /\ Startup(p).polling = p.polling + 1
<1>1. p \in AnyPhone /\ (p.ringing => p.call = "IDLE")  BY DEF PhoneInv, CoreInv
<1>2. Startup(p) \in AnyPhone  BY <1>1, CommandTypes
<1> DEFINE q == Startup(p)
<1>3. /\ q.alive /\ q.power = "ON" /\ q.polling = p.polling + 1 /\ q.call = "IDLE"
      /\ q.reg = "NONE" /\ q.text = Word("default")
  BY <1>1 DEF Startup, OnStartup, OnPowerOn, AnyPhone
<1>4. /\ q.prepRecall = p.prepRecall /\ q.dialnum = p.dialnum
      /\ q.ringing = p.ringing /\ q.model = p.model
      /\ q.minring = p.minring /\ q.ringOffDelayed = p.ringOffDelayed
      /\ q.pressed = p.pressed /\ q.keylong = p.keylong
  BY <1>1 DEF Startup, OnStartup, OnPowerOn, AnyPhone
<1> HIDE DEF q
<1> QED BY <1>1, <1>2, <1>3, <1>4 DEF q, SameKey, PhoneInv, CoreInv,
           NumberInv, LedInv, RingInv, Word

LEMMA StartupGood ==
  ASSUME NEW p, PhoneInv(p), ~p.alive
  PROVE  Good(p, Startup(p))
<1>1. p.call = "IDLE"  BY DEF PhoneInv, CoreInv
<1> QED BY <1>1, StartupInv DEF Good, PolledInv, EndShown

\* What the reports of a shutdown leave as it is.
Kept(p, q) ==
  q.call = p.call /\ q.dialnum = p.dialnum /\ q.prepRecall = p.prepRecall /\ SameKey(p, q)

LEMMA ShutdownReports ==
  ASSUME NEW p \in AnyPhone
  PROVE  /\ Kept(p, OnShutdown(p))
         /\ Kept(p, OnPowerOff(p)) /\ OnPowerOff(p).power = p.power
         /\ OnPowerOff(p).polling = 0 /\ ~OnPowerOff(p).ringing
<1>1. ASSUME NEW x \in AnyPhone
      PROVE  Kept(x, HideAll(x)) /\ ~HideAll(x).ringing /\ HideAll(x).power = x.power
             /\ HideAll(x).polling = x.polling
  BY DEF HideAll, RingerOff, Kept, SameKey, AnyPhone
<1>2. Kept(p, OnShutdown(p))
  <2> DEFINE h == HideAll(p)
  <2>1. h \in AnyPhone /\ Kept(p, h)  BY <1>1, DisplayTypes
  <2>2. OnShutdown(p) = [h EXCEPT !.led = "fast", !.text = Word("shutdown")]  BY DEF OnShutdown
  <2> HIDE DEF h
  <2> QED BY <2>1, <2>2 DEF Kept, SameKey, AnyPhone
<1>3. /\ Kept(p, OnPowerOff(p)) /\ OnPowerOff(p).power = p.power
      /\ OnPowerOff(p).polling = 0 /\ ~OnPowerOff(p).ringing
  <2> DEFINE x == [p EXCEPT !.polling = 0]
             h == HideAll(x)
  <2>1. x \in AnyPhone  BY Zenon DEF AnyPhone
  <2>2. Kept(p, x) /\ x.power = p.power /\ x.polling = 0  BY DEF Kept, SameKey, AnyPhone
  <2>3. OnPowerOff(p) = IF h.hardShutdown THEN [h EXCEPT !.stopping = TRUE]
                        ELSE [h EXCEPT !.text = Word("off")]
    BY DEF OnPowerOff
  <2> HIDE DEF x
  <2>4. h \in AnyPhone /\ Kept(x, h) /\ ~h.ringing /\ h.power = x.power /\ h.polling = x.polling
    BY <1>1, <2>1, DisplayTypes
  <2> HIDE DEF h
  <2>5. ASSUME NEW y \in {[h EXCEPT !.stopping = TRUE], [h EXCEPT !.text = Word("off")]}
        PROVE  Kept(h, y) /\ ~y.ringing /\ y.power = h.power /\ y.polling = h.polling
    BY <2>4 DEF Kept, SameKey, AnyPhone
  <2> QED BY <2>2, <2>3, <2>4, <2>5 DEF Kept, SameKey
<1> QED BY <1>2, <1>3

LEMMA ShutdownGood ==
  ASSUME NEW p, PhoneInv(p)
  PROVE  Good(p, Shutdown(p))
<1>1. CASE p.alive
  <2> DEFINE t == Terminate(p)
             a == [t EXCEPT !.power = "SHUTDOWN"]
             b == OnShutdown(a)
             f == [b EXCEPT !.power = "OFF"]
             g == OnPowerOff(f)
             q == [g EXCEPT !.alive = FALSE]
  <2>1. Good(p, t) /\ t.call = "IDLE"  BY <1>1, EndCallGood, UndisturbedGood DEF Terminate
  <2>2. Shutdown(p) \in AnyPhone  BY CommandTypes DEF PhoneInv
  <2>3. Shutdown(p) = q  BY <1>1 DEF Shutdown, OnCore
  <2> HIDE DEF t
  <2>4. t \in AnyPhone /\ SameKey(p, t) /\ NumberInv(t)  BY <2>1 DEF Good, PhoneInv
  <2>5. a \in AnyPhone  BY <2>4, Zenon DEF AnyPhone, PowerStates
  <2>6. Kept(t, a)  BY <2>4 DEF Kept, SameKey, AnyPhone
  <2> HIDE DEF a
  <2>7. b \in AnyPhone /\ Kept(a, b)  BY <2>5, ReportTypes, ShutdownReports
  <2> HIDE DEF b
  <2>8. f \in AnyPhone  BY <2>7, Zenon DEF AnyPhone, PowerStates
  <2>9. Kept(b, f) /\ f.power = "OFF"  BY <2>7 DEF Kept, SameKey, AnyPhone
  <2> HIDE DEF f
  <2>10. g \in AnyPhone /\ Kept(f, g) /\ g.power = "OFF" /\ g.polling = 0 /\ ~g.ringing
    BY <2>8, <2>9, ReportTypes, ShutdownReports
  <2> HIDE DEF g
  <2>11. Kept(g, q) /\ ~q.alive /\ q.power = "OFF" /\ q.polling = 0 /\ ~q.ringing
    BY <2>10 DEF Kept, SameKey, AnyPhone
  <2> HIDE DEF q
  <2>12. Kept(t, q)  BY <2>6, <2>7, <2>9, <2>10, <2>11 DEF Kept, SameKey
  <2>13. CoreInv(q) /\ NumberInv(q) /\ LedInv(q) /\ RingInv(q)
    BY <2>1, <2>4, <2>11, <2>12 DEF Kept, CoreInv, NumberInv, LedInv, RingInv
  <2> QED BY <2>2, <2>3, <2>4, <2>11, <2>12, <2>13 DEF Kept, Good, PolledInv, EndShown,
             SameKey, PhoneInv
<1>2. CASE ~p.alive  BY <1>2, UndisturbedGood DEF Shutdown, OnCore
<1> QED BY <1>1, <1>2

LEMMA RegistrationGood ==
  ASSUME NEW p, PhoneInv(p), p.alive
  PROVE  /\ Good(p, OnRegOk([p EXCEPT !.reg = "OK"]))
         /\ Good(p, OnRegFailed([p EXCEPT !.reg = "FAILED"]))
<1> DEFINE a == [p EXCEPT !.reg = "OK"]
           b == [p EXCEPT !.reg = "FAILED"]
<1>1. p \in AnyPhone  BY DEF PhoneInv
<1>2. a \in AnyPhone /\ b \in AnyPhone  BY <1>1, Zenon DEF AnyPhone, RegStates
<1>3. OnRegOk(a) \in AnyPhone /\ OnRegFailed(b) \in AnyPhone  BY <1>2, ReportTypes
<1>4. Good(p, OnRegOk(a))
  BY <1>1, <1>3 DEF OnRegOk, Redial, Good, PolledInv, SameKey, EndShown, PhoneInv, CoreInv,
           NumberInv, LedInv, RingInv, ToDial, AnyPhone, Word, Shown
<1>5. Good(p, OnRegFailed(b))
  BY <1>1, <1>3 DEF OnRegFailed, Good, PolledInv, SameKey, EndShown, PhoneInv, CoreInv,
           NumberInv, LedInv, RingInv, ToDial, AnyPhone, Word, Shown
<1> QED BY <1>4, <1>5

\* A call that comes in, and one that is answered.
LEMMA CallGood ==
  ASSUME NEW p, PhoneInv(p), p.alive
  PROVE  /\ \A n \in Numbers : Good(p, OnInvite([p EXCEPT !.call = "IN_INVITE", !.party = n], n))
         /\ p.call \in {"OUT_INVITE", "OUT_CONNECTED"}
              => Good(p, OnConnected([p EXCEPT !.call = "OUT_CONNECTED"]))
<1>1. p \in AnyPhone  BY DEF PhoneInv
<1>2. ASSUME NEW n \in Numbers
      PROVE  Good(p, OnInvite([p EXCEPT !.call = "IN_INVITE", !.party = n], n))
  <2> DEFINE a == [p EXCEPT !.call = "IN_INVITE", !.party = n]
  <2>1. a \in AnyPhone  BY <1>1, Zenon DEF AnyPhone, CallStates
  <2>2. OnInvite(a, n) \in AnyPhone  BY <2>1, ReportTypes
  <2> DEFINE q == OnInvite(a, n)
  <2>3. /\ q.alive = p.alive /\ q.power = p.power /\ q.polling = p.polling
        /\ q.call = "IN_INVITE" /\ q.pressed = p.pressed /\ q.keylong = p.keylong
    BY <1>1 DEF OnInvite, RingerOn, AnyPhone
  <2>4. q.dialnum = << >> /\ q.dialback = n /\ q.party = n
    BY <1>1 DEF OnInvite, RingerOn, AnyPhone
  <2> HIDE DEF q
  <2> QED BY <2>2, <2>3, <2>4 DEF q, Good, PolledInv, SameKey, EndShown, PhoneInv, CoreInv,
             NumberInv, LedInv, RingInv
<1>3. ASSUME p.call \in {"OUT_INVITE", "OUT_CONNECTED"}
      PROVE  Good(p, OnConnected([p EXCEPT !.call = "OUT_CONNECTED"]))
  <2> DEFINE a == [p EXCEPT !.call = "OUT_CONNECTED"]
  <2>1. a \in AnyPhone  BY <1>1, Zenon DEF AnyPhone, CallStates
  <2>2. OnConnected(a) \in AnyPhone  BY <2>1, ReportTypes
  <2> QED BY <1>1, <1>3, <2>2 DEF OnConnected, Good, PolledInv, SameKey, EndShown,
             PhoneInv, CoreInv,
             NumberInv, LedInv, RingInv, ToDial, AnyPhone
<1> QED BY <1>2, <1>3

-----------------------------------------------------------------------------
(* The keys                                                                *)

\* Only a destroyed core may be read wrongly.
LEMMA ReadsFacts ==
  ASSUME NEW p, NEW r \in Reads(p), p.alive
  PROVE  r.power = p.power /\ r.reg = p.reg /\ r.call = p.call
BY DEF Reads

\* What a digit key does when it does not go to the phone core.
LEMMA DigitGood ==
  ASSUME NEW p, PhoneInv(p), p.call = "IDLE", NEW d \in Digits
  PROVE  /\ Good(p, Store(p, d))
         /\ p.prepRecall => Good(p, Recall(p, d))
         /\ ~p.prepRecall => Good(p, TypeDigit(p, d))
<1>1. p \in AnyPhone  BY DEF PhoneInv
<1>2. Good(p, Store(p, d))
  <2> DEFINE m == [p.mem EXCEPT ![d] = IF p.dialnum = << >> THEN p.dialback ELSE p.dialnum]
  <2>1. m \in [Digits -> Numbers]  BY <1>1 DEF AnyPhone
  <2>2. Store(p, d) = [p EXCEPT !.mem = m, !.prepStore = FALSE, !.storeMark = FALSE]
    BY <1>1 DEF Store, AnyPhone
  <2> HIDE DEF m
  <2>3. Store(p, d) \in AnyPhone  BY <1>1, <2>1, <2>2, ZenonT(60) DEF AnyPhone
  <2> QED BY <1>1, <2>2, <2>3 DEF Good, PolledInv, SameKey, EndShown, PhoneInv, CoreInv,
             NumberInv, LedInv, RingInv, ToDial, AnyPhone
<1>3. ASSUME p.prepRecall PROVE Good(p, Recall(p, d))
  <2> DEFINE n == IF p.mem[d] = << >> THEN p.dialback ELSE p.mem[d]
  <2>1. n \in Numbers  BY <1>1 DEF AnyPhone
  <2>2. Recall(p, d) = [p EXCEPT !.dialback = n, !.prepRecall = FALSE, !.text = Shown(n)]
    BY DEF Recall
  <2> HIDE DEF n
  <2>3. Shown(n) \in Texts /\ Shown(n).num = n  BY <2>1, TextFacts
  <2>4. Recall(p, d) \in AnyPhone  BY <1>1, <2>1, <2>2, <2>3, ZenonT(60) DEF AnyPhone
  <2>5. p.dialnum = << >>  BY <1>3 DEF PhoneInv, NumberInv
  <2> QED BY <1>1, <2>2, <2>3, <2>4, <2>5 DEF Good, PolledInv, SameKey, EndShown, PhoneInv,
             CoreInv,
             NumberInv, LedInv, RingInv, ToDial, AnyPhone
<1>4. ASSUME ~p.prepRecall PROVE Good(p, TypeDigit(p, d))
  <2> DEFINE n == Append(p.dialnum, d)
  <2>1. p.dialnum \in Numbers  BY <1>1 DEF AnyPhone
  <2>2. CASE Len(p.dialnum) < MaxLen
    <3>1. n \in Numbers /\ n # << >>
      <4>1. n \in Numbers  BY <2>1, <2>2, NumberFacts
      <4>2. p.dialnum \in Seq(Digits)  BY <2>1, NumbersAreSequences
      <4> QED BY <4>1, <4>2, AppendProperties
    <3>2. TypeDigit(p, d) = [p EXCEPT !.dialnum = n, !.text = Shown(n), !.dialback = << >>]
      BY <1>1, <2>2 DEF TypeDigit, AnyPhone
    <3> HIDE DEF n
    <3>3. Shown(n) \in Texts /\ Shown(n).num = n  BY <3>1, TextFacts
    <3>4. TypeDigit(p, d) \in AnyPhone  BY <1>1, <3>1, <3>2, <3>3, NumberFacts,
               ZenonT(60) DEF AnyPhone
    <3> QED BY <1>1, <1>4, <3>1, <3>2, <3>3, <3>4 DEF Good, PolledInv, SameKey, EndShown,
               PhoneInv, CoreInv,
               NumberInv, LedInv, RingInv, ToDial, AnyPhone
  <2>3. CASE ~(Len(p.dialnum) < MaxLen)
    <3>1. TypeDigit(p, d) = [p EXCEPT !.dialnum = @, !.text = @, !.dialback = << >>]
      BY <1>1, <2>3 DEF TypeDigit, AnyPhone
    <3>2. TypeDigit(p, d) \in AnyPhone  BY <1>1, <3>1, NumberFacts, ZenonT(60) DEF AnyPhone
    <3>3. p.dialnum # << >>  BY <2>3, EmptySeq, HandsetAssumption DEF HandsetAssumption
    <3> QED BY <1>1, <1>4, <3>1, <3>2, <3>3 DEF Good, PolledInv, SameKey, EndShown,
               PhoneInv, CoreInv,
               NumberInv, LedInv, RingInv, ToDial, AnyPhone
  <2> QED BY <2>2, <2>3
<1> QED BY <1>2, <1>3, <1>4

LEMMA DigitKeyGood ==
  ASSUME NEW p, PhoneInv(p), NEW r \in Reads(p), NEW d \in Digits
  PROVE  Good(p, DigitKey(p, r, d))
<1>1. Idle(r) => p.call = "IDLE"
  BY ReadsFacts DEF Idle, PhoneInv, CoreInv
<1>2. Good(p, p) /\ Good(p, OnCore(p, p)) /\ Good(p, RingerOff(p))
  BY UndisturbedGood, RingerOffGood DEF OnCore
<1>3. CASE Idle(r)
  BY <1>1, <1>2, <1>3, DigitGood DEF DigitKey
<1>4. CASE ~Idle(r)
  BY <1>2, <1>4 DEF DigitKey
<1> QED BY <1>3, <1>4

LEMMA UpKeyGood ==
  ASSUME NEW p, PhoneInv(p), NEW r \in Reads(p)
  PROVE  Good(p, UpKey(p, r))
<1> DEFINE s == [p EXCEPT !.prepStore = TRUE, !.storeMark = TRUE]
           c == [p EXCEPT !.prepRecall = TRUE, !.text = Word("select")]
<1>1. p \in AnyPhone  BY DEF PhoneInv
<1>2. Idle(r) => p.call = "IDLE"
  BY ReadsFacts DEF Idle, PhoneInv, CoreInv
<1>3. Good(p, p)  BY UndisturbedGood
<1>4. Good(p, s)
  <2>1. s \in AnyPhone  BY <1>1, Zenon DEF AnyPhone
  <2> QED BY <1>1, <2>1 DEF Good, PolledInv, SameKey, EndShown, PhoneInv, CoreInv,
             NumberInv, LedInv, RingInv,
             ToDial, AnyPhone
<1>5. ASSUME p.call = "IDLE", p.dialnum = << >> PROVE Good(p, c)
  <2>1. Word("select") \in Texts /\ Word("select").kind = "select"  BY TextFacts
  <2>2. c \in AnyPhone  BY <1>1, <2>1, Zenon DEF AnyPhone
  <2> QED BY <1>1, <1>5, <2>1, <2>2 DEF Good, PolledInv, SameKey, EndShown, PhoneInv,
             CoreInv, NumberInv,
             LedInv, RingInv, ToDial, AnyPhone
<1> QED BY <1>2, <1>3, <1>4, <1>5 DEF UpKey

LEMMA CKeyGood ==
  ASSUME NEW p, PhoneInv(p), NEW r \in Reads(p)
  PROVE  Good(p, CKey(p, r))
<1> DEFINE n == IF p.dialnum = << >> THEN << >> ELSE SubSeq(p.dialnum, 1, Len(p.dialnum) - 1)
           t == IF n = << >> THEN Word("default") ELSE Shown(n)
           s == [p EXCEPT !.prepStore = FALSE, !.storeMark = FALSE]
           c == [p EXCEPT !.dialnum = n, !.dialback = << >>, !.prepRecall = FALSE, !.text = t]
<1>1. p \in AnyPhone  BY DEF PhoneInv
<1>2. Idle(r) => p.call = "IDLE"
  BY ReadsFacts DEF Idle, PhoneInv, CoreInv
<1>3. Good(p, p)  BY UndisturbedGood
<1>4. Good(p, s)
  <2>1. s \in AnyPhone  BY <1>1, Zenon DEF AnyPhone
  <2> QED BY <1>1, <2>1 DEF Good, PolledInv, SameKey, EndShown, PhoneInv, CoreInv,
             NumberInv, LedInv, RingInv,
             ToDial, AnyPhone
<1>5. ASSUME p.call = "IDLE" PROVE Good(p, c)
  <2>1. n \in Numbers  BY <1>1, NumberFacts DEF AnyPhone
  <2> HIDE DEF n
  <2>2. t \in Texts /\ (t.kind = "number" => t.num = n /\ n # << >>)  BY <2>1, TextFacts
  <2> HIDE DEF t
  <2>3. c \in AnyPhone  BY <1>1, <2>1, <2>2, NumberFacts, Zenon DEF AnyPhone
  <2> QED BY <1>1, <1>5, <2>2, <2>3 DEF Good, PolledInv, SameKey, EndShown, PhoneInv,
             CoreInv, NumberInv,
             LedInv, RingInv, ToDial, AnyPhone
<1>6. CKey(p, r) = IF r.power # "ON" \/ ~Idle(r) THEN p ELSE IF p.prepStore THEN s ELSE c
  BY Zenon DEF CKey
<1> HIDE DEF s, c
<1> QED BY <1>2, <1>3, <1>4, <1>5, <1>6

LEMMA GreenKeyGood ==
  ASSUME NEW p, PhoneInv(p), NEW r \in Reads(p)
  PROVE  Good(p, GreenKey(p, r))
<1>1. Good(p, p)  BY UndisturbedGood
<1>2. ASSUME r.call = "IN_INVITE" PROVE Good(p, Pickup(p))
  BY <1>2, ReadsFacts, PickupGood
<1>3. ASSUME Idle(r) PROVE Good(p, Dial(p))
  BY <1>3, ReadsFacts, DialGood DEF Idle
<1> QED BY <1>1, <1>2, <1>3 DEF GreenKey

\* The red key ends a call after it has turned the ringer off.
LEMMA RedKeyGood ==
  ASSUME NEW p, PhoneInv(p), NEW r \in Reads(p)
  PROVE  Good(p, RedKey(p, r))
<1> DEFINE q == RingerOff(p)
           c == [q EXCEPT !.dialnum = << >>, !.dialback = << >>, !.prepStore = FALSE,
                          !.prepRecall = FALSE, !.storeMark = FALSE, !.text = Word("default")]
<1>1. p \in AnyPhone  BY DEF PhoneInv
<1>2. Idle(r) => p.call = "IDLE"
  BY ReadsFacts DEF Idle, PhoneInv, CoreInv
<1>3. Good(p, p) /\ Good(p, q)  BY UndisturbedGood, RingerOffGood
<1>4. q.call = p.call /\ q.party = p.party  BY <1>1 DEF RingerOff, AnyPhone
<1> HIDE DEF q
<1>5. ASSUME NEW h, Good(q, h) PROVE Good(p, h)
  BY <1>3, <1>4, <1>5 DEF Good, PolledInv, SameKey, EndShown
<1>6. Good(p, Hangup(q))
  <2>1. PhoneInv(q)  BY <1>3 DEF Good
  <2> QED BY <2>1, <1>5, HangupGood
<1>7. ASSUME p.call = "IDLE" PROVE Good(p, c)
  <2>1. q \in AnyPhone /\ PhoneInv(q)  BY <1>3 DEF Good, PhoneInv
  <2>2. Word("default") \in Texts /\ Word("default").kind = "default"  BY TextFacts
  <2>3. c \in AnyPhone  BY <2>1, <2>2, NumberFacts, Zenon DEF AnyPhone
  <2>4. Good(q, c)
    BY <1>4, <1>7, <2>1, <2>2, <2>3 DEF Good, PolledInv, SameKey, EndShown, PhoneInv,
               CoreInv, NumberInv,
       LedInv, RingInv, ToDial, AnyPhone
  <2> QED BY <1>5, <2>4
<1>8. RedKey(p, r) = IF r.power # "ON" THEN p
                     ELSE IF Busy(r) THEN Hangup(q) ELSE IF Idle(r) THEN c ELSE q
  BY Zenon DEF RedKey, q
<1> HIDE DEF c
<1> QED BY <1>2, <1>3, <1>6, <1>7, <1>8

LEMMA HandleKeyGood ==
  ASSUME NEW p, PhoneInv(p), NEW r \in Reads(p), NEW k \in Keys
  PROVE  Good(p, HandleKey(p, r, k))
<1>1. CASE k \in Digits
  <2>1. HandleKey(p, r, k) = DigitKey(p, r, k)
    BY <1>1, HandsetAssumption DEF HandsetAssumption, HandleKey
  <2> QED BY <1>1, <2>1, DigitKeyGood
<1>2. CASE k \notin Digits
  BY <1>2, UndisturbedGood, UpKeyGood, CKeyGood, GreenKeyGood, RedKeyGood
     DEF HandleKey, Keys, OtherKeys
<1> QED BY <1>1, <1>2

LEMMA HandleHookGood ==
  ASSUME NEW p, PhoneInv(p), NEW r \in Reads(p), NEW up \in BOOLEAN
  PROVE  Good(p, HandleHook(p, r, up))
<1>1. Good(p, p) /\ Good(p, Hangup(p))  BY UndisturbedGood, HangupGood
<1>2. ASSUME r.call = "IN_INVITE" PROVE Good(p, Pickup(p))
  BY <1>2, ReadsFacts, PickupGood
<1> QED BY <1>1, <1>2 DEF HandleHook

LEMMA HandleLongKeyGood ==
  ASSUME NEW p, PhoneInv(p), NEW r \in Reads(p)
  PROVE  Good(p, HandleLongKey(p, r))
<1> DEFINE c == [p EXCEPT !.dialnum = << >>, !.text = Word("default")]
<1>1. p \in AnyPhone  BY DEF PhoneInv
<1>2. Good(p, p) /\ Good(p, Shutdown(p))  BY UndisturbedGood, ShutdownGood
<1>3. ASSUME r.power = "OFF" PROVE Good(p, Startup(p))
  <2>1. ~p.alive  BY <1>3, ReadsFacts DEF PhoneInv, CoreInv
  <2> QED BY <2>1, StartupGood
<1>4. ASSUME r.call = "IDLE" PROVE Good(p, c)
  <2>1. p.call = "IDLE"  BY <1>4, ReadsFacts DEF PhoneInv, CoreInv
  <2>2. Word("default") \in Texts /\ Word("default").kind = "default"  BY TextFacts
  <2>3. c \in AnyPhone  BY <1>1, <2>2, NumberFacts, Zenon DEF AnyPhone
  <2> QED BY <1>1, <2>1, <2>2, <2>3 DEF Good, PolledInv, SameKey, EndShown, PhoneInv,
             CoreInv, NumberInv,
       LedInv, RingInv, ToDial, AnyPhone
<1> HIDE DEF c
<1>5. \/ HandleLongKey(p, r) = c /\ r.call = "IDLE"
      \/ HandleLongKey(p, r) \in {p, Shutdown(p)}
      \/ HandleLongKey(p, r) = Startup(p) /\ r.power = "OFF"
  BY DEF HandleLongKey, c
<1> QED BY <1>2, <1>3, <1>4, <1>5

-----------------------------------------------------------------------------
(* The specification                                                       *)

IInv == /\ PhoneInv(phone) /\ PolledInv(phone)
        /\ held \in Keys \cup {"none"}
        /\ LongKeyIsHeld

\* After a key event only the long key's timer is set.
LEMMA ArmedGood ==
  ASSUME NEW p, NEW q, Good(p, q)
  PROVE  /\ PhoneInv(Armed(q)) /\ EndShown(p, Armed(q))
         /\ PolledInv(p) => PolledInv(Armed(q))
         /\ Armed(q).pressed = p.pressed /\ Armed(q).keylong = (p.pressed # "none")
<1> DEFINE b == p.pressed # "none"
<1>1. q \in AnyPhone /\ q.pressed = p.pressed  BY DEF Good, PhoneInv, SameKey
<1>2. Armed(q) = [q EXCEPT !.keylong = b]  BY <1>1 DEF Armed
<1>3. b \in BOOLEAN  OBVIOUS
<1> HIDE DEF b
<1>4. Armed(q) \in AnyPhone  BY <1>1, <1>2, <1>3, ZenonT(60) DEF AnyPhone
<1>5. Armed(q).pressed = p.pressed /\ Armed(q).keylong = b
  BY <1>1, <1>2, <1>3 DEF AnyPhone
<1>6. /\ PhoneInv(Armed(q)) /\ EndShown(p, Armed(q))
      /\ PolledInv(p) => PolledInv(Armed(q))
  BY <1>1, <1>2, <1>4 DEF Good, EndShown, PhoneInv, CoreInv, NumberInv,
       LedInv, RingInv, PolledInv, ToDial, AnyPhone
<1> QED BY <1>5, <1>6 DEF b

\* Taking a key to be pressed, or none.
LEMMA PressedGood ==
  ASSUME NEW p, PhoneInv(p), NEW k \in Keys \cup {"none"}, NEW b \in BOOLEAN
  PROVE  /\ PhoneInv([p EXCEPT !.pressed = k])
         /\ PhoneInv([p EXCEPT !.pressed = k, !.keylong = b])
         /\ PolledInv(p) => /\ PolledInv([p EXCEPT !.pressed = k])
                            /\ PolledInv([p EXCEPT !.pressed = k, !.keylong = b])
         /\ [p EXCEPT !.pressed = k].pressed = k
         /\ Reads([p EXCEPT !.pressed = k]) = Reads(p)
         /\ \A q : EndShown([p EXCEPT !.pressed = k], q) <=> EndShown(p, q)
         /\ \A q : EndShown(q, p) => EndShown(q, [p EXCEPT !.pressed = k, !.keylong = b])
<1> DEFINE x == [p EXCEPT !.pressed = k]
           y == [p EXCEPT !.pressed = k, !.keylong = b]
<1>1. p \in AnyPhone  BY DEF PhoneInv
<1>2. x \in AnyPhone /\ y \in AnyPhone
  <2>1. x \in AnyPhone  BY <1>1, Zenon DEF AnyPhone
  <2>2. y \in AnyPhone  BY <1>1, Zenon DEF AnyPhone
  <2> QED BY <2>1, <2>2
<1>3. PhoneInv(x) /\ x.pressed = k
  BY <1>1, <1>2 DEF PhoneInv, CoreInv, NumberInv, LedInv, RingInv, ToDial, AnyPhone
<1>4. PhoneInv(y)
  BY <1>1, <1>2 DEF PhoneInv, CoreInv, NumberInv, LedInv, RingInv, ToDial, AnyPhone
<1>5. /\ x.alive = p.alive /\ x.power = p.power /\ x.reg = p.reg /\ x.call = p.call
      /\ x.party = p.party /\ y.call = p.call /\ y.alive = p.alive /\ y.text = p.text
      /\ x.polling = p.polling /\ y.polling = p.polling
  BY <1>1 DEF AnyPhone
<1> HIDE DEF x, y
<1>6. Reads(x) = Reads(p)  BY <1>5 DEF Reads
<1>7. \A q : EndShown(x, q) <=> EndShown(p, q)  BY <1>5 DEF EndShown
<1>8. \A q : EndShown(q, p) => EndShown(q, y)  BY <1>5 DEF EndShown
<1>9. PolledInv(p) => PolledInv(x) /\ PolledInv(y)  BY <1>5 DEF PolledInv
<1> QED BY <1>3, <1>4, <1>6, <1>7, <1>8, <1>9 DEF x, y

LEMMA PowerlessGood ==
  ASSUME NEW model \in Models
  PROVE  /\ PhoneInv(Powerless(model)) /\ PolledInv(Powerless(model))
         /\ ~Powerless(model).alive /\ Powerless(model).pressed = "zero"
<1> DEFINE p == Powerless(model)
<1>1. p \in AnyPhone
  <2> DEFINE m == [d \in Digits |-> << >>]
             w == Word("blank")
  <2>1. m \in [Digits -> Numbers] /\ w \in Texts /\ << >> \in Numbers  BY NumberFacts, TextFacts
  <2>2. p = [model |-> model, alive |-> FALSE, polling |-> 0, power |-> "OFF", reg |-> "NONE",
             call |-> "IDLE", party |-> << >>, broken |-> FALSE,
             dialnum |-> << >>, dialback |-> << >>, mem |-> m,
             prepStore |-> FALSE, prepRecall |-> FALSE, pressed |-> "zero", keylong |-> FALSE,
             hardShutdown |-> FALSE, stopping |-> FALSE,
             text |-> w, led |-> "off", storeMark |-> FALSE,
             ringing |-> FALSE, minring |-> FALSE, ringOffDelayed |-> FALSE]
    BY DEF Powerless
  <2> HIDE DEF m, w, p
  <2> QED BY <2>1, <2>2, Zenon DEF AnyPhone, PowerStates, RegStates, CallStates
<1> QED BY <1>1 DEF Powerless, PhoneInv, PolledInv, CoreInv, NumberInv, LedInv, RingInv

LEMMA InitIInv == Init => IInv
<1> SUFFICES ASSUME Init PROVE IInv  OBVIOUS
<1>1. PICK model \in Models : phone = Startup(Powerless(model))  BY DEF Init
<1> DEFINE p == Powerless(model)
<1>2. PhoneInv(p) /\ PolledInv(p) /\ ~p.alive /\ p.pressed = "zero"  BY PowerlessGood
<1> HIDE DEF p
<1>3. Good(p, phone)  BY <1>1, <1>2, StartupGood DEF p
<1>4. phone.pressed \notin Keys
  BY <1>2, <1>3, HandsetAssumption DEF Good, SameKey, HandsetAssumption, Keys, OtherKeys
<1> QED BY <1>2, <1>3, <1>4 DEF IInv, Init, Good, LongKeyIsHeld

\* What the key that is held down means for LongKeyIsHeld.
LEMMA NoKeyIsNone == "none" \notin Keys
BY HandsetAssumption DEF HandsetAssumption, Keys, OtherKeys

\* What an event preserves, one by one.
EventGood ==
  /\ PhoneInv(phone') /\ held' \in Keys \cup {"none"}
  /\ EndShown(phone, phone')
  /\ PolledInv(phone) => PolledInv(phone')
  /\ LongKeyIsHeld => LongKeyIsHeld'

\* Key events.
LEMMA KeyEventStep ==
  ASSUME PhoneInv(phone), held \in Keys \cup {"none"}, KeyEvent
  PROVE  EventGood
<1>1. PhoneInv(phone) /\ held \in Keys \cup {"none"} /\ phone \in AnyPhone
  BY DEF PhoneInv
<1>2. ASSUME NEW k \in Keys, Press(k) PROVE EventGood
  <2> DEFINE x == [phone EXCEPT !.pressed = k]
  <2>1. /\ PhoneInv(x) /\ x.pressed = k /\ Reads(x) = Reads(phone)
        /\ PolledInv(phone) => PolledInv(x)
        /\ \A q : EndShown(x, q) <=> EndShown(phone, q)
    BY <1>1, PressedGood
  <2>2. PICK r \in Reads(phone) : phone' = Armed(HandleKey(x, r, k))  BY <1>2 DEF Press
  <2> HIDE DEF x
  <2>3. Good(x, HandleKey(x, r, k))  BY <2>1, <2>2, HandleKeyGood
  <2>4. /\ PhoneInv(phone') /\ EndShown(phone, phone')
        /\ PolledInv(phone) => PolledInv(phone')
        /\ phone'.pressed = k /\ phone'.keylong = (k # "none")
    BY <2>1, <2>2, <2>3, ArmedGood
  <2>5. held' = k  BY <1>2 DEF Press
  <2> QED BY <2>4, <2>5, NoKeyIsNone DEF EventGood, LongKeyIsHeld
<1>3. ASSUME Release \/ Shift PROVE EventGood
  <2> DEFINE x == [phone EXCEPT !.pressed = "none"]
  <2>1. /\ PhoneInv(x) /\ x.pressed = "none" /\ (PolledInv(phone) => PolledInv(x))
        /\ \A q : EndShown(x, q) <=> EndShown(phone, q)
    BY <1>1, PressedGood
  <2>2. phone' = Armed(x) /\ held' \in {"none", held}  BY <1>3 DEF Release, Shift
  <2> HIDE DEF x
  <2>3. Good(x, x)  BY <2>1, UndisturbedGood
  <2>4. /\ PhoneInv(phone') /\ EndShown(phone, phone') /\ phone'.pressed = "none"
        /\ PolledInv(phone) => PolledInv(phone')
    BY <2>1, <2>2, <2>3, ArmedGood
  <2> QED BY <1>1, <2>2, <2>4, NoKeyIsNone DEF EventGood, LongKeyIsHeld
<1>4. ASSUME NEW up \in BOOLEAN, Hook(up) PROVE EventGood
  <2>1. PICK r \in Reads(phone) : phone' = Armed(HandleHook(phone, r, up))  BY <1>4 DEF Hook
  <2>2. Good(phone, HandleHook(phone, r, up))  BY <1>1, <2>1, HandleHookGood
  <2>3. /\ PhoneInv(phone') /\ EndShown(phone, phone')
        /\ PolledInv(phone) => PolledInv(phone')
        /\ phone'.pressed = phone.pressed /\ phone'.keylong = (phone.pressed # "none")
    BY <2>1, <2>2, ArmedGood
  <2>4. held' = held  BY <1>4 DEF Hook
  <2> QED BY <1>1, <2>3, <2>4, NoKeyIsNone DEF EventGood, LongKeyIsHeld
<1> QED BY <1>2, <1>3, <1>4 DEF KeyEvent

\* The timers of the handset, and what the phone core reports.
LEMMA OtherStep ==
  ASSUME PhoneInv(phone), held \in Keys \cup {"none"}, LongKey \/ MinRingOver \/ CoreEvent
  PROVE  EventGood
<1>1. PhoneInv(phone) /\ held \in Keys \cup {"none"} /\ phone \in AnyPhone
  BY DEF PhoneInv
<1>2. ASSUME LongKey PROVE EventGood
  <2>1. PICK r \in Reads(phone) :
          phone' = [HandleLongKey(phone, r) EXCEPT !.pressed = "none", !.keylong = FALSE]
    BY <1>2 DEF LongKey
  <2> DEFINE h == HandleLongKey(phone, r)
  <2>2. PhoneInv(h) /\ EndShown(phone, h) /\ (PolledInv(phone) => PolledInv(h))
    BY <1>1, <2>1, HandleLongKeyGood DEF Good
  <2> HIDE DEF h
  <2>3. /\ PhoneInv(phone') /\ EndShown(phone, phone')
        /\ PolledInv(phone) => PolledInv(phone')
    BY <2>1, <2>2, PressedGood DEF h
  <2>4. phone'.pressed = "none"  BY <2>1, <2>2 DEF h, PhoneInv, AnyPhone
  <2> QED BY <1>1, <1>2, <2>3, <2>4, NoKeyIsNone DEF EventGood, LongKeyIsHeld, LongKey
<1>3. ASSUME Good(phone, phone'), held' = held PROVE EventGood
  BY <1>1, <1>3 DEF Good, EventGood, LongKeyIsHeld, SameKey
<1>4. ASSUME MinRingOver PROVE Good(phone, phone') /\ held' = held
  <2> DEFINE b == phone.ringing /\ phone.model = "P4K"
             a == [phone EXCEPT !.minring = FALSE, !.ringOffDelayed = FALSE, !.ringing = b]
             c == [phone EXCEPT !.minring = FALSE]
  <2>1. (IF phone.ringOffDelayed THEN phone' = a ELSE phone' = c) /\ held' = held
    BY <1>4 DEF MinRingOver
  <2>2. b \in BOOLEAN  OBVIOUS
  <2>3. Good(phone, a)
    <3>1. a.ringing = b /\ a.model = phone.model  BY <1>1, <2>2 DEF AnyPhone
    <3>2. RingInv(a)
      <4> HIDE DEF a
      <4> QED BY <3>1 DEF RingInv
    <3> HIDE DEF b
    <3>3. a \in AnyPhone  BY <1>1, <2>2, Zenon DEF AnyPhone
    <3> QED BY <1>1, <3>2, <3>3 DEF Good, PolledInv, SameKey, EndShown, PhoneInv, CoreInv,
               NumberInv, LedInv,
               ToDial, AnyPhone
  <2>4. ASSUME ~phone.ringOffDelayed PROVE Good(phone, c)
    <3>1. c \in AnyPhone  BY <1>1, Zenon DEF AnyPhone
    <3> QED BY <1>1, <2>4, <3>1 DEF Good, PolledInv, SameKey, EndShown, PhoneInv, CoreInv,
               NumberInv, LedInv,
               RingInv, ToDial, AnyPhone
  <2> HIDE DEF a, c
  <2> QED BY <2>1, <2>3, <2>4
<1>5. ASSUME CoreEvent PROVE Good(phone, phone') /\ held' = held
  <2>1. phone.alive /\ held' = held
    BY <1>1, <1>5 DEF CoreEvent, Registered, Unregistered, CallArrives, Answered, CallEnds,
       CallFails, Iterate, PhoneInv, CoreInv
  <2>2. CASE Registered \/ Unregistered
    BY <1>1, <2>1, <2>2, RegistrationGood DEF Registered, Unregistered, Iterate
  <2>3. CASE \E n \in Numbers : CallArrives(n)
    BY <1>1, <2>1, <2>3, CallGood DEF CallArrives, Iterate
  <2>4. CASE Answered
    BY <1>1, <2>1, <2>4, CallGood DEF Answered, Iterate
  <2>5. CASE CallEnds
    BY <1>1, <2>1, <2>5, EndCallGood DEF CallEnds, Iterate
  <2>6. CASE CallFails
    BY <1>1, <2>1, <2>6, FailCallGood DEF CallFails, Iterate
  <2> QED BY <1>5, <2>2, <2>3, <2>4, <2>5, <2>6, <2>1 DEF CoreEvent
<1> QED BY <1>2, <1>3, <1>4, <1>5

LEMMA Step == IInv /\ [Next]_vars => IInv' /\ EndShown(phone, phone')
<1> SUFFICES ASSUME IInv, [Next]_vars PROVE IInv' /\ EndShown(phone, phone')  OBVIOUS
<1>1. CASE Next
  <2>1. EventGood  BY <1>1, KeyEventStep, OtherStep DEF Next, IInv
  <2> QED BY <2>1 DEF EventGood, IInv
<1>2. CASE UNCHANGED vars  BY <1>2 DEF vars, IInv, LongKeyIsHeld, EndShown
<1> QED BY <1>1, <1>2

THEOREM Inductive == Spec => []IInv
<1>1. Init => IInv  BY InitIInv
<1>2. IInv /\ [Next]_vars => IInv'  BY Step
<1> QED BY <1>1, <1>2, PTL DEF Spec

\* The types: no number outgrows its buffer, whatever the memory of a destroyed
\* core holds, and the core never has two polling timers.
THEOREM TypeCorrect == Spec => []TypeOK
<1>1. IInv => TypeOK  BY DEF IInv, PhoneInv, PolledInv, TypeOK, Phone
<1> QED BY <1>1, Inductive, PTL

\* The number on the display is the one the green key would dial (ShownIsDialled).
THEOREM DisplayCorrect == Spec => []ShownIsDialled
<1>1. IInv => ShownIsDialled
  BY DEF IInv, PhoneInv, NumberInv, ShownIsDialled, Ready
<1> QED BY <1>1, Inductive, PTL

\* Without a call the LED shows the registration (LedShowsRegistration).
THEOREM LedCorrect == Spec => []LedShowsRegistration
<1>1. IInv => LedShowsRegistration
  BY DEF IInv, PhoneInv, LedInv, LedShowsRegistration
<1> QED BY <1>1, Inductive, PTL

\* A long press is only ever one of a key that is held down (LongKeyIsHeld).
THEOREM LongKeyCorrect == Spec => []LongKeyIsHeld
<1>1. IInv => LongKeyIsHeld  BY DEF IInv
<1> QED BY <1>1, Inductive, PTL

\* The ringer is not left on (RingingEnds).
THEOREM RingingCorrect == Spec => []RingingEnds
<1>1. IInv => RingingEnds  BY DEF IInv, PhoneInv, RingInv, RingingEnds
<1> QED BY <1>1, Inductive, PTL

\* A call leaves the number of the other side on the display, but for the texts of a
\* failed call or registration and for a core that is destroyed (LastNumberShown).
THEOREM LastNumberCorrect == Spec => LastNumberShown
<1>1. IInv /\ [Next]_vars =>
        [ phone.call # "IDLE" /\ phone'.call = "IDLE" /\ phone'.alive
          /\ phone'.text.kind \notin {"error", "regfailed"}
          => phone'.text = IF phone.party = << >> THEN Word("default") ELSE Shown(phone.party)
        ]_vars
  BY Step DEF EndShown
<1> QED BY <1>1, Inductive, PTL DEF Spec, LastNumberShown
=============================================================================
