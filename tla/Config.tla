------------------------------- MODULE Config -------------------------------
(***************************************************************************)
(* src/ypconfig.c with its callers: read_config and init_ylcontrol at the  *)
(* start of the program, and the store mode of handle_key.  The file is    *)
(* kept as its lines that hold a pair; comments and blank lines are        *)
(* skipped when it is read, and gone once it is written.  A file that does *)
(* not exist reads like an empty one.                                      *)
(*                                                                         *)
(* ypconfig_write truncates the file and writes line by line; the process  *)
(* may end in between, and what reaches the disk of an unfinished file is  *)
(* any beginning of it.                                                    *)
(***************************************************************************)
EXTENDS ConfigLine, CallerId

CONSTANTS
  MemKeys,       (* "mem0".. : the keys of stored numbers                  *)
  StoreValues,   (* numbers that get stored                                *)
  JunkKey,       (* what is left of a key whose line was cut off           *)
  Files,         (* the contents the file may have at first                *)
  Locals,        (* numbers of callers, without any access or country code *)
  Countries,     (* country codes of callers from abroad                   *)
  MaxLosses      (* bound: lines cut off in the middle                     *)

Plain(t) == [text |-> t, spaced |-> FALSE, quotes |-> 0]

Intl    == "intl-access-code"
Natl    == "natl-access-code"
Country == "country-code"
Codes   == {Intl, Natl, Country}

Default == [k \in Codes |-> Plain(IF k = Intl THEN <<0, 0>> ELSE IF k = Natl THEN <<0>> ELSE << >>)]

Keys == Codes \cup MemKeys

Pair == [key : Keys \cup {JunkKey}, val : Value]

ASSUME ConfigAssumption ==
  /\ 0 \in Char
  /\ MemKeys \cap Codes = {} /\ JunkKey \notin Keys
  /\ StoreValues \subseteq Value
  /\ Files \subseteq Seq(Pair)
  /\ Plus \in Char /\ Locals \subseteq Seq(Char) /\ Countries \subseteq Seq(Char)
  /\ MaxLosses \in Nat

VARIABLES
  file,          (* the lines of the file, values as they are written      *)
  pairs,         (* yl_dll_root, the list of pairs                         *)
  pc,            (* "off", "init", "open", "write" or "idle"               *)
  behind,        (* how the file falls short of the list: it was not       *)
                 (* written ("old") or not to its end ("cut")              *)
  saved,         (* what was given last for each key, or None              *)
  spoiled,       (* has the program ever started without what was saved?   *)
  losses         (* lines cut off so far                                   *)

vars == <<file, pairs, pc, behind, saved, spoiled, losses>>

-----------------------------------------------------------------------------
(* The list                                                                *)

Places(ps, k) == {i \in DOMAIN ps : ps[i].key = k}

First(ps, k) == CHOOSE i \in Places(ps, k) : \A j \in Places(ps, k) : i <= j

\* ypconfig_get_value
GetValue(ps, k) == IF Places(ps, k) = {} THEN None ELSE ps[First(ps, k)].val

\* Mutation: the last pair of the key is replaced.
SetPairLast(ps, k, v) ==
  IF Places(ps, k) = {} THEN Append(ps, [key |-> k, val |-> v])
  ELSE [ps EXCEPT ![CHOOSE i \in Places(ps, k) : \A j \in Places(ps, k) : j <= i].val = v]

\* ypconfig_set_pair
SetPair(ps, k, v) ==
  IF Places(ps, k) = {} THEN Append(ps, [key |-> k, val |-> v])
  ELSE [ps EXCEPT ![First(ps, k)].val = v]

FormatLine(p) == [p EXCEPT !.val = Format(p.val)]
ParseLine(l)  == [l EXCEPT !.val = Parse(l.val)]

Read(lines) == [i \in DOMAIN lines |-> ParseLine(lines[i])]

\* What a start would find.
Found(lines) == [k \in Keys |-> GetValue(Read(lines), k)]

WithDefault(ps, k) == IF GetValue(ps, k) = None THEN SetPair(ps, k, Default[k]) ELSE ps

Completed(ps) == WithDefault(WithDefault(WithDefault(ps, Intl), Natl), Country)

-----------------------------------------------------------------------------
Init ==
  /\ file \in Files /\ pairs = << >> /\ pc = "off" /\ behind = {}
  /\ saved = Found(file) /\ spoiled = FALSE /\ losses = 0

\* read_config; fopen may fail, and the program goes on with an empty list.
ReadConfig ==
  /\ pc = "off" /\ pc' = "init"
  /\ \/ pairs' = Read(file) /\ UNCHANGED <<spoiled, behind>>
     \/ file # << >> /\ pairs' = << >> /\ spoiled' = TRUE /\ behind' = {"old"}
  /\ UNCHANGED <<file, saved, losses>>

\* init_ylcontrol gives the codes that are missing their defaults.
InitYlcontrol ==
  /\ pc = "init"
  /\ pairs' = Completed(pairs)
  /\ pc' = IF Completed(pairs) = pairs THEN "idle" ELSE "open"
  /\ saved' = [k \in Keys |-> IF saved[k] = None /\ k \in Codes THEN Default[k] ELSE saved[k]]
  /\ UNCHANGED <<file, behind, spoiled, losses>>

\* A digit in the store mode of handle_key.
StoreNumber(k, v) ==
  /\ pc = "idle" /\ pc' = "open"
  /\ pairs' = SetPair(pairs, k, v)
  /\ saved' = [saved EXCEPT ![k] = v]
  /\ UNCHANGED <<file, behind, spoiled, losses>>

\* Mutation: the file is opened to append to it.
EmptiedNot == file

Emptied == << >>

\* ypconfig_write: fopen with "w" truncates the file, or fails.
OpenFile ==
  /\ pc = "open"
  /\ \/ file' = Emptied /\ pc' = "write" /\ behind' = {"cut"}
     \/ pc' = "idle" /\ behind' = behind \cup {"old"} /\ UNCHANGED file
  /\ UNCHANGED <<pairs, saved, spoiled, losses>>

\* Mutation: the loop ends at the last pair, not behind it.
UnwrittenButOne == Len(file) + 1 < Len(pairs)

Unwritten == Len(file) < Len(pairs)

NextLine == FormatLine(pairs[Len(file) + 1])

WriteLine ==
  /\ pc = "write" /\ Unwritten
  /\ file' = Append(file, NextLine)
  /\ UNCHANGED <<pairs, pc, behind, saved, spoiled, losses>>

CloseFile ==
  /\ pc = "write" /\ ~Unwritten
  /\ pc' = "idle" /\ behind' = {}
  /\ UNCHANGED <<file, pairs, saved, spoiled, losses>>

\* A line that ends too early: in its key, or in its value.
TornLine(l) ==
  {[key |-> JunkKey, val |-> Plain(<< >>)]} \cup {[l EXCEPT !.val = w] : w \in Cut(l.val)}

\* The file ends here, between two lines or within one.
BreaksOff ==
  /\ pc = "write" /\ Unwritten
  /\ \/ UNCHANGED <<file, losses>>
     \/ /\ losses < MaxLosses /\ losses' = losses + 1
        /\ \E l \in TornLine(NextLine) : file' = Append(file, l)

\* The disk is full; the results of fputs and fclose are not looked at.
WriteFails ==
  /\ BreaksOff
  /\ pc' = "idle" /\ UNCHANGED behind
  /\ UNCHANGED <<pairs, saved, spoiled>>

\* The list is gone.  What has never been in the file has not been saved.
Ended ==
  /\ pc' = "off" /\ pairs' = << >> /\ behind' = {}
  /\ spoiled' = (spoiled \/ "cut" \in behind)
  /\ saved' = IF pc = "open" \/ "old" \in behind THEN Found(file) ELSE saved

\* Any end of the process that finds it outside ypconfig_write.
End == pc \in {"init", "open", "idle"} /\ Ended /\ UNCHANGED <<file, losses>>

\* The process is killed in ypconfig_write; SIGTERM does it until the session
\* begins (terminate).
Killed == BreaksOff /\ Ended

Next ==
  \/ ReadConfig \/ InitYlcontrol
  \/ \E k \in MemKeys, v \in StoreValues : StoreNumber(k, v)
  \/ OpenFile \/ WriteLine \/ CloseFile \/ WriteFails
  \/ End \/ Killed

Spec == Init /\ [][Next]_vars

-----------------------------------------------------------------------------
TypeOK ==
  /\ file \in Seq(Pair) /\ pairs \in Seq(Pair)
  /\ pc \in {"off", "init", "open", "write", "idle"}
  /\ behind \subseteq {"old", "cut"}
  /\ saved \in [Keys -> Value \cup {None}]
  /\ spoiled \in BOOLEAN /\ losses \in Nat

\* Whatever was stored or configured is what the program works with, across
\* any number of restarts, unless it could not read its file at a start or
\* was ended with an unfinished one (ypconfig_read, ypconfig_set_pair and
\* ypconfig_write undo each other).  A value that has quotes of its own, and
\* no blank, loses a pair of them with every restart (ypconfig.c:136, :226).
SavedKept ==
  pc = "idle" /\ ~spoiled =>
    \A k \in Keys : ~Enclosed(saved[k]) => GetValue(pairs, k) = saved[k]

\* v is the beginning of what was saved, behind the quotes of lines cut off.
LeftOf(v, s) ==
  /\ s # None
  /\ \E n \in 0..Len(v.text) : /\ \A i \in 1..n : v.text[i] = Quote
                               /\ IsPrefix(SubSeq(v.text, n + 1, Len(v.text)), s.text)

\* And if it was: a key has what was saved last or its default, or the
\* beginning of it, or nothing.  No older value comes back, since the file is emptied
\* before it is written (ypconfig.c:215).  A start that cannot read the file starts
\* afresh: a key without a default then has nothing saved, until a later start
\* reads the value that is still in the file, which counts as saved from there on.
NothingOlder ==
  pc = "idle" =>
    \A k \in Keys : LET v == GetValue(pairs, k)
                    IN  \/ v = None
                        \/ k \in Codes /\ LeftOf(v, Default[k])
                        \/ LeftOf(v, saved[k])

\* The text alone: codes that have quotes of their own are not told apart from
\* those that have none.
AccessCodes(value) == [intl |-> value[Intl].text, natl |-> value[Natl].text,
                       country |-> value[Country].text]

\* With the codes that were configured, a caller has one number, in however
\* many ways it is announced: that which this telephone dials.  So it gets its
\* ring tone and is called back (extract_callernum, ylcontrol.c:105-199, with
\* the codes of init_ylcontrol).
CallerHasOneNumber ==
  LET conf == AccessCodes(saved)
  IN  pc = "idle" /\ ~spoiled =>
        \A n \in Locals, country \in {conf.country} \cup Countries :
          Unambiguous(n, country, conf) =>
            \A c \in Notations(n, country, conf) :
              CallerNumber(<<c>>, AccessCodes([k \in Codes |-> GetValue(pairs, k)])) =
                Dialled(n, country, conf)

\* The file is a store of settings that outlives the program.
Live == [k \in Keys |-> GetValue(pairs, k)]

Mode == IF pc = "off" THEN "down" ELSE IF pc = "write" THEN "saving"
        ELSE IF pc = "open" \/ behind # {} THEN "unsafe" ELSE "safe"

Store == INSTANCE Settings WITH
  Standard <- Default, live <- Live, kept <- Found(file), mode <- Mode

ImplementsSettings == Store!Spec
=============================================================================
