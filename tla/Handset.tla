------------------------------- MODULE Handset ------------------------------
(***************************************************************************)
(* src/ylcontrol.c and src/lpcontrol.c: what the keys of the handset and   *)
(* the phone core's changes of state do to each other, to the numbers that *)
(* are typed, stored and dialled, and to what the user sees and hears.     *)
(*                                                                         *)
(* Everything runs in callbacks of the main loop.  A command that is given *)
(* to the phone core reports the core's new states before it returns, so a *)
(* whole chain of callbacks belongs to one key; hence the record `phone`   *)
(* and operators that take it from before to after.                        *)
(*                                                                         *)
(* Of the outputs line 3, the LED, the store mark and the ringer are kept. *)
(* Left out: the dial tone, the back light and off_hook, which only the    *)
(* desk models have; the date and the call counter (the display's part);   *)
(* the volume keys and DTMF, which change nothing else; and the work-      *)
(* around for linphone <= 2.1.1, which does not build any more.            *)
(***************************************************************************)
EXTENDS Naturals, Sequences

CONSTANTS
  Digits,      (* characters the digit keys stand for; each has a memory   *)
  Hash,        (* the character that also mutes the ringing                *)
  MaxLen,      (* MAX_NUMBER_LEN - 1                                       *)
  Models,      (* the handsets in question: "P1K", or "P4K", a desk phone  *)
  FreedKept    (* does the memory of a destroyed core keep its contents?   *)

ASSUME HandsetAssumption ==
  /\ Hash \in Digits
  /\ Digits \cap {"UP", "C", "GREEN", "RED", "DOWN", "none", "zero"} = {}
  /\ MaxLen \in Nat \ {0}
  /\ Models \subseteq {"P1K", "P4K"} /\ FreedKept \in BOOLEAN

VARIABLES
  phone,       (* ylcontrol_data, the phone core and the outputs           *)
  held         (* the key that is held down, or "none"                     *)

vars == <<phone, held>>

Numbers == UNION {[1..n -> Digits] : n \in 0..MaxLen}

PowerStates == {"OFF", "STARTUP", "ON", "SHUTDOWN"}
RegStates   == {"NONE", "OK", "FAILED"}
CallStates  == {"IDLE", "IN_INVITE", "IN_CONNECTED", "OUT_INVITE", "OUT_CONNECTED"}

\* Line 3 of the display: a number, or one of the fixed texts.  Of a longer number the
\* display has the last twelve characters (ylcontrol.c:89-100); n stands for all of it.
Shown(n) == [kind |-> "number", num |-> n]
Word(w)  == [kind |-> w, num |-> << >>]

\* What a key other than a digit is called; "DOWN" stands for those without effect.
OtherKeys == {"UP", "C", "GREEN", "RED", "DOWN"}
Keys      == Digits \cup OtherKeys

(***************************************************************************)
(* Before the first session: everything is zero.  `pressed` is then a key  *)
(* code no key has.                                                        *)
(***************************************************************************)
Powerless(model) ==
  [model |-> model, alive |-> FALSE, polling |-> 0, power |-> "OFF", reg |-> "NONE", call |-> "IDLE",
   party |-> << >>, broken |-> FALSE,
   dialnum |-> << >>, dialback |-> << >>, mem |-> [d \in Digits |-> << >>],
   prepStore |-> FALSE, prepRecall |-> FALSE, pressed |-> "zero", keylong |-> FALSE,
   hardShutdown |-> FALSE, stopping |-> FALSE,
   text |-> Word("blank"), led |-> "off", storeMark |-> FALSE,
   ringing |-> FALSE, minring |-> FALSE, ringOffDelayed |-> FALSE]

-----------------------------------------------------------------------------
(* src/yldisp.c, as far as it is used here.                                *)

\* YL_RINGER_ON: minring ms from now the ringing may be ended.
RingerOn(p)  == [p EXCEPT !.ringing = TRUE, !.minring = TRUE, !.ringOffDelayed = FALSE]
RingerOff(p) == [p EXCEPT !.ringing = FALSE, !.minring = FALSE, !.ringOffDelayed = FALSE]

\* Mutation: whether the minimum time has passed already is not looked at.
RingerOffLaterAlways(p) == [p EXCEPT !.ringOffDelayed = TRUE]

\* YL_RINGER_OFF_DELAYED: at once if the minimum time has passed.
RingerOffLater(p) == IF p.minring THEN [p EXCEPT !.ringOffDelayed = TRUE]
                     ELSE [p EXCEPT !.ringing = FALSE]

\* yldisp_hide_all
HideAll(p) == [RingerOff(p) EXCEPT !.led = "off", !.storeMark = FALSE, !.text = Word("blank")]

-----------------------------------------------------------------------------
(* lps_callback, one operator for each state that is reported.             *)

\* Mutation: the polling timer is left.
OnPowerOffPolling(p) ==
  LET q == HideAll(p)
  IN  IF q.hardShutdown THEN [q EXCEPT !.stopping = TRUE]
      ELSE [q EXCEPT !.text = Word("off")]

\* The wrapper in lpcontrol.c takes the polling timer away first.
OnPowerOff(p) ==
  LET q == HideAll([p EXCEPT !.polling = 0])
  IN  IF q.hardShutdown THEN [q EXCEPT !.stopping = TRUE]
      ELSE [q EXCEPT !.text = Word("off")]

OnStartup(p)  == [p EXCEPT !.text = Word("startup"), !.led = "fast"]
OnPowerOn(p)  == [p EXCEPT !.text = Word("default")]
OnShutdown(p) == [HideAll(p) EXCEPT !.led = "fast", !.text = Word("shutdown")]

Redial(p) == IF p.dialback = << >> THEN Word("default") ELSE Shown(p.dialback)

OnRegOk(p) ==
  IF p.call # "IDLE" THEN p
  ELSE [p EXCEPT !.led = "on",
                 !.text = IF p.dialnum = << >> THEN Redial(p) ELSE @]

OnRegFailed(p) ==
  IF p.call # "IDLE" THEN p
  ELSE [p EXCEPT !.led = "fast",
                 !.text = IF p.dialnum = << >> THEN Word("regfailed") ELSE @]

\* Mutation: a registration lost during the call goes unnoticed.
OnIdleRegistered(p) == IF p.power = "ON" THEN [p EXCEPT !.led = "on"] ELSE p

OnIdle(p) ==
  IF p.power = "ON" /\ p.reg = "FAILED"
  THEN [p EXCEPT !.text = Word("regfailed"), !.dialnum = << >>, !.led = "fast"]
  ELSE IF p.power = "ON" /\ p.reg = "OK" THEN [p EXCEPT !.led = "on"]
  ELSE p

\* Mutation: the digits typed so far are kept.
OnInviteKeeping(p, n) ==
  RingerOn([p EXCEPT !.text = IF n = << >> THEN Word("anonymous") ELSE Shown(n),
                     !.dialback = n, !.led = "ring"])

\* n is the caller's number, << >> if it is withheld.
OnInvite(p, n) ==
  RingerOn([p EXCEPT !.text = IF n = << >> THEN Word("anonymous") ELSE Shown(n),
                     !.dialback = n, !.dialnum = << >>, !.led = "ring"])

OnConnected(p) == [(IF p.call = "IN_CONNECTED" THEN RingerOff(p) ELSE p) EXCEPT !.led = "talk"]
OnOutInvite(p) == [p EXCEPT !.led = "ring"]
OnEnd(p)       == [RingerOffLater(p) EXCEPT !.text = Redial(p), !.led = "on"]
OnError(p)     == [RingerOff(p) EXCEPT !.dialback = << >>, !.text = Word("error"), !.led = "on"]

-----------------------------------------------------------------------------
(* lpstates_submit_command.  The core goes to CALL_IDLE right after        *)
(* CALL_END and CALL_ERROR.  A destroyed core is still pointed to: what a  *)
(* command does to it is undefined.                                        *)

EndCall(p)  == OnIdle(OnEnd([p EXCEPT !.call = "IDLE", !.party = << >>]))
FailCall(p) == OnIdle(OnError([p EXCEPT !.call = "IDLE", !.party = << >>]))

Terminate(p) == IF p.call = "IDLE" THEN p ELSE EndCall(p)

OnCore(p, q) == IF p.alive THEN q ELSE [p EXCEPT !.broken = TRUE]

Hangup(p) == OnCore(p, Terminate(p))

Invite(p, n) ==
  OnCore(p, OnOutInvite([p EXCEPT !.call = "OUT_INVITE", !.party = n]))

Pickup(p) == OnCore(p, OnConnected([p EXCEPT !.call = "IN_CONNECTED"]))

Startup(p) ==
  OnPowerOn([OnStartup([p EXCEPT !.alive = TRUE, !.polling = @ + 1, !.call = "IDLE",
                                 !.party = << >>, !.reg = "NONE", !.power = "STARTUP"])
             EXCEPT !.power = "ON"])

Shutdown(p) ==
  OnCore(p, [OnPowerOff([OnShutdown([Terminate(p) EXCEPT !.power = "SHUTDOWN"])
                         EXCEPT !.power = "OFF"])
             EXCEPT !.alive = FALSE])

-----------------------------------------------------------------------------
(* handle_key and handle_long_key.  r is what they read as the state of    *)
(* the core; through the pointer to a destroyed one they may read anything.*)

CoreStates == [power : PowerStates, reg : RegStates, call : CallStates]

Reads(p) == IF p.alive \/ FreedKept
            THEN {[power |-> p.power, reg |-> p.reg, call |-> p.call]}
            ELSE CoreStates

Idle(r)   == r.call = "IDLE" /\ r.reg = "OK"
InCall(r) == r.call \in {"IN_CONNECTED", "OUT_CONNECTED"}
Busy(r)   == r.call # "IDLE"

Store(p, d) ==
  [p EXCEPT !.mem[d] = IF p.dialnum = << >> THEN p.dialback ELSE p.dialnum,
            !.prepStore = FALSE, !.storeMark = FALSE]

Recall(p, d) ==
  LET n == IF p.mem[d] = << >> THEN p.dialback ELSE p.mem[d]
  IN  [p EXCEPT !.dialback = n, !.prepRecall = FALSE, !.text = Shown(n)]

\* Mutation: the room for the terminating zero is forgotten.
TypeDigitTooFar(p, d) ==
  [p EXCEPT !.dialnum = IF Len(@) <= MaxLen THEN Append(@, d) ELSE @,
            !.text = IF Len(p.dialnum) <= MaxLen THEN Shown(Append(p.dialnum, d)) ELSE @,
            !.dialback = << >>]

TypeDigit(p, d) ==
  [p EXCEPT !.dialnum = IF Len(@) < MaxLen THEN Append(@, d) ELSE @,
            !.text = IF Len(p.dialnum) < MaxLen THEN Shown(Append(p.dialnum, d)) ELSE @,
            !.dialback = << >>]

DigitKey(p, r, d) ==
  IF r.power # "ON" THEN p
  ELSE IF Idle(r)
  THEN IF p.prepStore THEN Store(p, d)
       ELSE IF p.prepRecall THEN Recall(p, d)
       ELSE TypeDigit(p, d)
  ELSE IF InCall(r) THEN OnCore(p, p)      \* DTMF
  ELSE IF r.call = "IN_INVITE" /\ d = Hash THEN RingerOff(p)
  ELSE p

UpKey(p, r) ==
  IF r.power # "ON" \/ ~Idle(r) THEN p
  ELSE IF p.dialnum # << >> \/ p.dialback # << >>
       THEN [p EXCEPT !.prepStore = TRUE, !.storeMark = TRUE]
       ELSE [p EXCEPT !.prepRecall = TRUE, !.text = Word("select")]

\* Mutation: the digit is taken off, but still shown.
CKeyUnseen(p, r) ==
  IF r.power # "ON" \/ ~Idle(r) \/ p.prepStore \/ p.dialnum = << >> THEN p
  ELSE [p EXCEPT !.dialnum = SubSeq(@, 1, Len(@) - 1), !.dialback = << >>]

CKey(p, r) ==
  IF r.power # "ON" \/ ~Idle(r) THEN p
  ELSE IF p.prepStore THEN [p EXCEPT !.prepStore = FALSE, !.storeMark = FALSE]
  ELSE LET n == IF p.dialnum = << >> THEN << >> ELSE SubSeq(p.dialnum, 1, Len(p.dialnum) - 1)
       IN  [p EXCEPT !.dialnum = n, !.dialback = << >>, !.prepRecall = FALSE,
                     !.text = IF n = << >> THEN Word("default") ELSE Shown(n)]

\* The number the green key dials.
ToDial(p) == IF p.dialnum = << >> THEN p.dialback ELSE p.dialnum

\* Mutation: the number is not kept for the time after the call.
DialForgetting(p) == [Invite(p, ToDial(p)) EXCEPT !.dialnum = << >>]

Dial(p) ==
  [Invite([p EXCEPT !.dialback = ToDial(p)], ToDial(p)) EXCEPT !.dialnum = << >>]

GreenKey(p, r) ==
  IF r.power # "ON" THEN p
  ELSE IF Idle(r) THEN IF ToDial(p) = << >> THEN p ELSE Dial(p)
  ELSE IF r.call = "IN_INVITE" THEN Pickup(p)
  ELSE p

RedKey(p, r) ==
  IF r.power # "ON" THEN p
  ELSE LET q == RingerOff(p)
       IN  IF Busy(r) THEN Hangup(q)
           ELSE IF Idle(r)
           THEN [q EXCEPT !.dialnum = << >>, !.dialback = << >>, !.prepStore = FALSE,
                          !.prepRecall = FALSE, !.storeMark = FALSE, !.text = Word("default")]
           ELSE q

HandleKey(p, r, k) ==
  CASE k \in Digits  -> DigitKey(p, r, k)
    [] k = "UP"      -> UpKey(p, r)
    [] k = "C"       -> CKey(p, r)
    [] k = "GREEN"   -> GreenKey(p, r)
    [] k = "RED"     -> RedKey(p, r)
    [] OTHER         -> p

\* The hook of the desk phone picks up and hangs up.
HandleHook(p, r, up) ==
  IF up THEN IF r.call = "IN_INVITE" THEN Pickup(p) ELSE p
  ELSE IF Busy(r) THEN Hangup(p) ELSE p

HandleLongKey(p, r) ==
  CASE p.pressed = "C" /\ r.power = "ON" /\ r.call = "IDLE" ->
         [p EXCEPT !.dialnum = << >>, !.text = Word("default")]
    [] p.pressed = "RED" /\ r.power = "OFF" -> Startup(p)
    [] p.pressed = "RED" /\ r.power \notin {"OFF", "SHUTDOWN"} -> Shutdown(p)
    [] OTHER -> p

\* After a key event the timer for the long key runs anew, if a key is pressed.
Armed(p) == [p EXCEPT !.keylong = p.pressed # "none"]

-----------------------------------------------------------------------------
Working == ~phone.broken

\* ylcontrol_io_callback; the driver reports one key at a time.
Press(k) ==
  /\ Working /\ held = "none"
  /\ held' = k
  /\ \E r \in Reads(phone) : phone' = Armed(HandleKey([phone EXCEPT !.pressed = k], r, k))

Release ==
  /\ Working /\ held # "none"
  /\ held' = "none"
  /\ phone' = Armed([phone EXCEPT !.pressed = "none"])

\* The shift key belongs to the # key: it goes down before that key, and up while
\* that key is still down.
Shift ==
  /\ Working /\ held \in {"none", Hash}
  /\ phone' = Armed([phone EXCEPT !.pressed = "none"])
  /\ UNCHANGED held

\* KEY_PHONE, which only the desk phones send; handle_key takes it from any.
Hook(up) ==
  /\ Working
  /\ \E r \in Reads(phone) : phone' = Armed(HandleHook(phone, r, up))
  /\ UNCHANGED held

\* Mutation: the key remains pressed for the program.
LongKeyPressed ==
  /\ Working /\ phone.keylong
  /\ \E r \in Reads(phone) : phone' = [HandleLongKey(phone, r) EXCEPT !.keylong = FALSE]
  /\ UNCHANGED held

\* ylcontrol_keylong_callback
LongKey ==
  /\ Working /\ phone.keylong
  /\ \E r \in Reads(phone) :
        phone' = [HandleLongKey(phone, r) EXCEPT !.pressed = "none", !.keylong = FALSE]
  /\ UNCHANGED held

\* yldisp_minring_callback; on a P4K it turns off the wrong icon.
MinRingOver ==
  /\ Working /\ phone.minring
  /\ phone' = IF phone.ringOffDelayed
              THEN [phone EXCEPT !.minring = FALSE, !.ringOffDelayed = FALSE,
                                 !.ringing = @ /\ phone.model = "P4K"]
              ELSE [phone EXCEPT !.minring = FALSE]
  /\ UNCHANGED held

\* lpcontrol_timer_callback lets the core work, and the core reports a state.
Iterate(p) ==
  /\ Working /\ phone.polling > 0 /\ phone.power = "ON"
  /\ phone' = p
  /\ UNCHANGED held

Registered   == Iterate(OnRegOk([phone EXCEPT !.reg = "OK"]))
Unregistered == Iterate(OnRegFailed([phone EXCEPT !.reg = "FAILED"]))

CallArrives(n) ==
  /\ phone.call = "IDLE"
  /\ Iterate(OnInvite([phone EXCEPT !.call = "IN_INVITE", !.party = n], n))

\* Reported again when the other side picks up after early media.
Answered ==
  /\ phone.call \in {"OUT_INVITE", "OUT_CONNECTED"}
  /\ Iterate(OnConnected([phone EXCEPT !.call = "OUT_CONNECTED"]))

CallEnds  == phone.call # "IDLE" /\ Iterate(EndCall(phone))
CallFails == phone.call = "OUT_INVITE" /\ Iterate(FailCall(phone))

-----------------------------------------------------------------------------
\* The first session has just begun.
Init ==
  /\ \E model \in Models : phone = Startup(Powerless(model))
  /\ held = "none"

KeyEvent == \/ \E k \in Keys : Press(k)
            \/ Release \/ Shift
            \/ \E up \in BOOLEAN : Hook(up)

CoreEvent == \/ Registered \/ Unregistered
             \/ \E n \in Numbers : CallArrives(n)
             \/ Answered \/ CallEnds \/ CallFails

Next == KeyEvent \/ LongKey \/ MinRingOver \/ CoreEvent

Spec == Init /\ [][Next]_vars

-----------------------------------------------------------------------------
(* Properties                                                              *)

Texts == [kind : {"number"}, num : Numbers] \cup
         [kind : {"blank", "default", "off", "startup", "shutdown", "regfailed", "select",
                  "anonymous", "error"}, num : {<< >>}]

\* Every timer that polls the core is counted.
AnyPhone ==
  [model : Models, alive : BOOLEAN, polling : Nat, power : PowerStates,
   reg : RegStates, call : CallStates, party : Numbers, broken : BOOLEAN,
   dialnum : Numbers, dialback : Numbers, mem : [Digits -> Numbers],
   prepStore : BOOLEAN, prepRecall : BOOLEAN,
   pressed : Keys \cup {"none", "zero"}, keylong : BOOLEAN,
   hardShutdown : BOOLEAN, stopping : BOOLEAN,
   text : Texts, led : {"off", "on", "fast", "ring", "talk"}, storeMark : BOOLEAN,
   ringing : BOOLEAN, minring : BOOLEAN, ringOffDelayed : BOOLEAN]

Phone == {p \in AnyPhone : p.polling \in {0, 1}}

\* All fields stay within their types: a number never outgrows its buffer, and the
\* phone core is never polled by two timers.
TypeOK == phone \in Phone /\ held \in Keys \cup {"none"}

Ready == phone.alive /\ phone.call = "IDLE" /\ phone.reg = "OK"

\* While the phone is ready to dial, a number on the display is the one the
\* green key dials and the up key stores, however it came to be there: typed,
\* recalled, or left by a call (ylcontrol.c:338-511, 659-761).
ShownIsDialled ==
  Ready /\ phone.text.kind = "number" /\ phone.text.num # << >>
    => phone.text.num = ToDial(phone)

\* Without a call the LED tells whether the phone is registered, also when that
\* changed during a call, when it was not shown (ylcontrol.c:636-682, 743-761).
LedShowsRegistration ==
  phone.alive /\ phone.call = "IDLE" =>
    /\ phone.reg = "OK" => phone.led = "on"
    /\ phone.reg = "FAILED" => phone.led = "fast"

\* The timer for a long key runs as long as the program takes the key to be
\* pressed, and that key is really held down (ylcontrol.c:299-314, 785-824).
LongKeyIsHeld ==
  phone.pressed \in Keys => phone.keylong /\ held = phone.pressed

\* The P1K rings for an incoming call, or until the minimum time has passed;
\* whatever ends the call, the ringing comes to an end (yldisp.c:320-360).
RingingEnds ==
  phone.ringing /\ phone.model = "P1K" =>
    phone.call = "IN_INVITE" \/ (phone.minring /\ phone.ringOffDelayed)

\* After a call the number of the other side is shown, whatever keys were pressed
\* and states reported during the call (ylcontrol.c:459-473, 684-707, 743-751).
LastNumberShown ==
  [][ phone.call # "IDLE" /\ phone'.call = "IDLE" /\ phone'.alive
      /\ phone'.text.kind \notin {"error", "regfailed"}
      => phone'.text = IF phone.party = << >> THEN Word("default") ELSE Shown(phone.party)
    ]_vars

\* A number is only dialled or stored when it is on the display.
UsesShownNumber ==
  [][ /\ phone.call = "IDLE" /\ phone'.call = "OUT_INVITE"
          => phone.text = Shown(phone'.party)
      /\ \A d \in Digits : phone'.mem[d] # phone.mem[d]
          => phone.text = Shown(phone'.mem[d]) ]_vars
=============================================================================
