---------------------------- MODULE ConfigProofs ----------------------------
(***************************************************************************)
(* The configuration of src/ypconfig.c, for any keys, values and contents  *)
(* of the file, and any number of starts, saves and crashes: what was      *)
(* saved is kept, and what broke off leaves nothing older behind; and the  *)
(* ways a caller is announced come to one number.                          *)
(***************************************************************************)
EXTENDS Config, WellFoundedInduction, TLAPS

-----------------------------------------------------------------------------
(* The number of a caller: extract_callernum of src/ylcontrol.c, for any   *)
(* codes and numbers.                                                      *)

\* A prefix that was put before a number is found, and taken off again.
LEMMA PutBefore ==
  ASSUME NEW S, NEW s \in Seq(S), NEW t \in Seq(S)
  PROVE  IsPrefix(s, s \o t) /\ Without(s \o t, s) = t
<1>1. /\ s \o t \in Seq(S) /\ Len(s \o t) = Len(s) + Len(t)
      /\ \A i \in 1..Len(s) : (s \o t)[i] = s[i]
      /\ \A i \in 1..Len(t) : (s \o t)[Len(s) + i] = t[i]
  OBVIOUS
<1>. DEFINE u == s \o t
<1>. HIDE DEF u
<1>2. SubSeq(s, 1, Len(s)) = SubSeq(u, 1, Len(s))
  BY <1>1 DEF u
<1>3. SubSeq(u, Len(s) + 1, Len(u)) = t
  BY <1>1 DEF u
<1>. QED  BY <1>1, <1>2, <1>3 DEF IsPrefix, Without, u

LEMMA JoinInTurn ==
  ASSUME NEW S, NEW s \in Seq(S), NEW t \in Seq(S), NEW u \in Seq(S)
  PROVE  (s \o t) \o u = s \o (t \o u)
OBVIOUS

\* One candidate is its own number.
LEMMA OneCandidate ==
  ASSUME NEW c, NEW acc
  PROVE  CallerNumber(<<c>>, acc) = Normal(c, acc)
<1>. DEFINE good == {i \in 1..Len(<<c>>) : Normal(<<c>>[i], acc) # << >>}
<1>1. Len(<<c>>) = 1 /\ <<c>>[1] = c
  OBVIOUS
<1>2. CASE Normal(c, acc) = << >>
  <2>1. good = {}
    BY <1>1, <1>2
  <2>. QED  BY <1>2, <2>1 DEF CallerNumber
<1>3. CASE Normal(c, acc) # << >>
  <2>1. good = {1}
    BY <1>1, <1>3
  <2>2. (CHOOSE i \in good : \A j \in good : i <= j) = 1
    BY <2>1
  <2>. QED  BY <1>1, <2>1, <2>2 DEF CallerNumber
<1>. QED  BY <1>2, <1>3

\* The number of a caller does not depend on how it is announced, while the
\* codes do not make one notation look like another.
THEOREM OneNumber ==
  ASSUME NEW S, Plus \in S, NEW acc \in [intl : Seq(S), natl : Seq(S), country : Seq(S)],
         NEW n \in Seq(S), NEW country \in Seq(S), Unambiguous(n, country, acc),
         NEW c \in Notations(n, country, acc)
  PROVE  CallerNumber(<<c>>, acc) = Dialled(n, country, acc)
<1>. DEFINE full == country \o n
<1>1. /\ full \in Seq(S) /\ <<Plus>> \in Seq(S) /\ Usable(full)
      /\ <<Plus>> \o country \o n = <<Plus>> \o full /\ acc.intl \o country \o n = acc.intl \o full
  <2>1. full \in Seq(S) /\ <<Plus>> \in Seq(S)
    OBVIOUS
  <2>2. Usable(full)
    BY DEF Unambiguous
  <2>3. (<<Plus>> \o country) \o n = <<Plus>> \o full
    BY <2>1, JoinInTurn
  <2>4. (acc.intl \o country) \o n = acc.intl \o full
    BY JoinInTurn
  <2>. QED  BY <2>1, <2>2, <2>3, <2>4
<1>2. IsPrefix(acc.country, full) <=> country = acc.country
  BY PutBefore DEF Unambiguous
<1>3. country = acc.country => Without(full, acc.country) = n
  BY PutBefore
\* With the country code before it, and something before that.
<1>4. ASSUME International(c, acc), Bare(c, acc) = full
      PROVE  Normal(c, acc) = Dialled(n, country, acc)
  BY <1>1, <1>2, <1>3, <1>4 DEF Normal, Dialled
<1>5. CASE c = <<Plus>> \o full
  <2>1. c # << >> /\ c[1] = Plus /\ Tail(c) = full
    BY <1>1, <1>5
  <2>. QED  BY <1>4, <2>1, OneCandidate DEF International, Bare, HasPlus
<1>6. CASE c = acc.intl \o full
  <2>1. ~HasPlus(c) /\ IsPrefix(acc.intl, c) /\ Without(c, acc.intl) = full
    BY <1>1, <1>6, PutBefore DEF Unambiguous
  <2>. QED  BY <1>4, <2>1, OneCandidate DEF International, Bare, HasAccess
<1>7. CASE country = acc.country /\ c = full
  <2>1. ~HasPlus(c) /\ ~HasAccess(c, acc) /\ IsPrefix(acc.country, c)
    BY <1>2, <1>7 DEF Unambiguous, HasAccess
  <2>. QED  BY <1>4, <1>7, <2>1, OneCandidate DEF International, Bare
<1>8. CASE country = acc.country /\ c = acc.natl \o n
  <2>1. ~International(c, acc) /\ Bare(c, acc) = c /\ Usable(c)
    BY <1>8 DEF Unambiguous, HasAccess, International, Bare
  <2>. QED  BY <1>8, <2>1, OneCandidate DEF Normal, Dialled
<1>. QED  BY <1>1, <1>5, <1>6, <1>7, <1>8 DEF Notations

-----------------------------------------------------------------------------
(* Values and lines                                                        *)

LEMMA ValueEqual ==
  ASSUME NEW v \in Value, NEW w \in Value,
         v.text = w.text, v.spaced = w.spaced, v.quotes = w.quotes
  PROVE  v = w
BY DEF Value

LEMMA FormatFields ==
  ASSUME NEW v \in Value
  PROVE  /\ Format(v) \in Value /\ Format(v).text = v.text /\ Format(v).spaced = v.spaced
         /\ Format(v).quotes = IF v.spaced THEN v.quotes + 1 ELSE v.quotes
BY DEF Value, Format

LEMMA ParseFields ==
  ASSUME NEW w \in Value
  PROVE  /\ Parse(w) \in Value /\ Parse(w).text = w.text /\ Parse(w).spaced = w.spaced
         /\ Parse(w).quotes = IF w.quotes > 0 THEN w.quotes - 1 ELSE w.quotes
BY DEF Value, Parse

\* Writing and reading undo each other, but for quotes that nobody asked for.
LEMMA RoundTrip ==
  ASSUME NEW v \in Value
  PROVE  /\ Restored(v) \in Value /\ Restored(v) # None
         /\ Restored(v).text = v.text /\ Restored(v).spaced = v.spaced
         /\ ~Enclosed(v) => Restored(v) = v
<1>1. v # None /\ v.quotes \in Nat /\ v.spaced \in BOOLEAN /\ Restored(v) = Parse(Format(v))
  BY LineAssumption DEF Value, Restored
<1>2. Restored(v) \in Value /\ Restored(v).text = v.text /\ Restored(v).spaced = v.spaced
  BY <1>1, FormatFields, ParseFields
<1>3. ASSUME ~Enclosed(v) PROVE Restored(v) = v
  BY <1>1, <1>2, <1>3, FormatFields, ParseFields, ValueEqual DEF Enclosed
<1>. QED  BY <1>2, <1>3, LineAssumption

LEMMA PairFields ==
  ASSUME NEW p \in Pair
  PROVE  /\ p.key \in Keys \cup {JunkKey} /\ p.val \in Value
         /\ \A v \in Value : /\ [p EXCEPT !.val = v] \in Pair
                             /\ [p EXCEPT !.val = v].key = p.key
                             /\ [p EXCEPT !.val = v].val = v
BY DEF Pair

LEMMA LineFields ==
  ASSUME NEW p \in Pair
  PROVE  /\ FormatLine(p) \in Pair /\ FormatLine(p).key = p.key /\ FormatLine(p).val = Format(p.val)
         /\ ParseLine(p) \in Pair /\ ParseLine(p).key = p.key /\ ParseLine(p).val = Parse(p.val)
<1>1. p.val \in Value /\ Format(p.val) \in Value /\ Parse(p.val) \in Value
  BY PairFields, FormatFields, ParseFields
<1>. QED  BY <1>1, PairFields DEF FormatLine, ParseLine

-----------------------------------------------------------------------------
(* The list                                                                *)

\* The search of a list ends at its first pair with the key.
LEMMA FirstPlace ==
  ASSUME NEW ps \in Seq(Pair), NEW k, Places(ps, k) # {}
  PROVE  /\ First(ps, k) \in 1..Len(ps) /\ ps[First(ps, k)].key = k
         /\ \A j \in Places(ps, k) : First(ps, k) <= j
<1>1. Places(ps, k) \in SUBSET Nat
  BY DEF Places
<1>2. PICK i \in Places(ps, k) : \A j \in Places(ps, k) : ~(<<j, i>> \in OpToRel(<, Nat))
  BY <1>1, NatLessThanWellFounded, WFMin
<1>3. \A j \in Places(ps, k) : i <= j
  <2>1. i \in Nat /\ \A j \in Places(ps, k) : j \in Nat
    BY <1>1
  <2>2. \A j \in Nat : j < i => <<j, i>> \in OpToRel(<, Nat)
    BY <2>1 DEF OpToRel
  <2>3. \A j \in Places(ps, k) : ~(j < i)
    BY <1>2, <2>1, <2>2
  <2>. QED  BY <2>1, <2>3
<1>4. First(ps, k) \in Places(ps, k) /\ \A j \in Places(ps, k) : First(ps, k) <= j
  BY <1>3 DEF First
<1>. QED  BY <1>4 DEF Places

\* Two lists with the same keys, up to the first n of them.
LEMMA FirstSame ==
  ASSUME NEW ps \in Seq(Pair), NEW qs \in Seq(Pair), Len(qs) = Len(ps),
         \A i \in 1..Len(ps) : ps[i].key = qs[i].key, NEW k
  PROVE  Places(qs, k) = Places(ps, k) /\ First(qs, k) = First(ps, k)
<1>1. Places(qs, k) = Places(ps, k)
  BY DEF Places
<1>. QED  BY <1>1 DEF First

LEMMA GetType ==
  ASSUME NEW ps \in Seq(Pair), NEW k
  PROVE  /\ GetValue(ps, k) \in Value \cup {None}
         /\ GetValue(ps, k) = None <=> Places(ps, k) = {}
<1>1. CASE Places(ps, k) = {}
  BY <1>1 DEF GetValue
<1>2. CASE Places(ps, k) # {}
  <2>1. ps[First(ps, k)] \in Pair
    BY <1>2, FirstPlace
  <2>2. ps[First(ps, k)].val \in Value
    BY <2>1, PairFields
  <2>. QED  BY <1>2, <2>2, LineAssumption DEF GetValue
<1>. QED  BY <1>1, <1>2

\* A pair at the end counts when there is none before it.
LEMMA AppendGet ==
  ASSUME NEW ps \in Seq(Pair), NEW l \in Pair, NEW k
  PROVE  GetValue(Append(ps, l), k) =
           IF Places(ps, k) # {} THEN GetValue(ps, k) ELSE IF l.key = k THEN l.val ELSE None
<1>. DEFINE qs == Append(ps, l)
            n == Len(ps)
<1>1. /\ qs \in Seq(Pair) /\ Len(qs) = n + 1 /\ qs[n + 1] = l
      /\ \A i \in 1..n : qs[i] = ps[i]
  OBVIOUS
<1>. HIDE DEF qs
<1>2. Places(qs, k) = Places(ps, k) \cup (IF l.key = k THEN {n + 1} ELSE {})
  BY <1>1 DEF Places
<1>3. CASE Places(ps, k) # {}
  <2>1. First(ps, k) \in Places(ps, k) /\ \A j \in Places(ps, k) : First(ps, k) <= j
    BY <1>3, FirstPlace DEF Places
  <2>2. First(qs, k) \in Places(qs, k) /\ \A j \in Places(qs, k) : First(qs, k) <= j
    BY <1>1, <1>2, <1>3, FirstPlace DEF Places
  <2>3. First(qs, k) = First(ps, k) /\ First(ps, k) \in 1..n
    BY <1>2, <2>1, <2>2 DEF Places
  <2>. QED  BY <1>1, <1>2, <1>3, <2>3 DEF GetValue, qs
<1>4. CASE Places(ps, k) = {} /\ l.key = k
  <2>1. Places(qs, k) = {n + 1} /\ First(qs, k) = n + 1
    BY <1>1, <1>2, <1>4, FirstPlace DEF Places
  <2>. QED  BY <1>1, <1>4, <2>1 DEF GetValue, qs
<1>5. CASE Places(ps, k) = {} /\ l.key # k
  BY <1>2, <1>5 DEF GetValue, qs
<1>. QED  BY <1>3, <1>4, <1>5

LEMMA SetType ==
  ASSUME NEW ps \in Seq(Pair), NEW k \in Keys, NEW v \in Value
  PROVE  SetPair(ps, k, v) \in Seq(Pair)
<1>1. CASE Places(ps, k) = {}
  <2>1. [key |-> k, val |-> v] \in Pair
    BY DEF Pair
  <2>. QED  BY <1>1, <2>1 DEF SetPair
<1>2. CASE Places(ps, k) # {}
  <2>1. First(ps, k) \in 1..Len(ps) /\ ps[First(ps, k)] \in Pair
    BY <1>2, FirstPlace
  <2>2. [ps[First(ps, k)] EXCEPT !.val = v] \in Pair
    BY <2>1, PairFields
  <2>3. SetPair(ps, k, v) = [ps EXCEPT ![First(ps, k)] = [ps[First(ps, k)] EXCEPT !.val = v]]
    BY <1>2 DEF SetPair
  <2>. QED  BY <2>1, <2>2, <2>3
<1>. QED  BY <1>1, <1>2

\* ypconfig_set_pair is seen by ypconfig_get_value, for this key alone.
LEMMA SetGet ==
  ASSUME NEW ps \in Seq(Pair), NEW k \in Keys, NEW v \in Value, NEW l
  PROVE  GetValue(SetPair(ps, k, v), l) = IF l = k THEN v ELSE GetValue(ps, l)
<1>. DEFINE qs == SetPair(ps, k, v)
<1>1. qs \in Seq(Pair)
  BY SetType
<1>2. CASE Places(ps, k) = {}
  <2>. DEFINE r == [key |-> k, val |-> v]
  <2>1. qs = Append(ps, r) /\ r \in Pair /\ r.key = k /\ r.val = v
    BY <1>2 DEF SetPair, Pair
  <2>. HIDE DEF r, qs
  <2>2. GetValue(qs, l) = IF Places(ps, l) # {} THEN GetValue(ps, l) ELSE IF k = l THEN v ELSE None
    BY <2>1, AppendGet
  <2>. QED  BY <1>2, <2>2 DEF GetValue, qs
<1>3. CASE Places(ps, k) # {}
  <2>. DEFINE f == First(ps, k)
  <2>1. f \in 1..Len(ps) /\ ps[f].key = k /\ ps[f] \in Pair
    BY <1>3, FirstPlace
  <2>2. [ps[f] EXCEPT !.val = v].key = k /\ [ps[f] EXCEPT !.val = v].val = v
    BY <2>1, PairFields
  <2>3. qs = [ps EXCEPT ![f] = [ps[f] EXCEPT !.val = v]]
    BY <1>3 DEF SetPair
  <2>4. /\ Len(qs) = Len(ps) /\ qs[f].key = k /\ qs[f].val = v
        /\ \A i \in 1..Len(ps) : i # f => qs[i] = ps[i]
    BY <2>1, <2>2, <2>3
  <2>5. \A i \in 1..Len(ps) : ps[i].key = qs[i].key
    BY <2>1, <2>4
  <2>. HIDE DEF qs
  <2>6. Places(qs, l) = Places(ps, l) /\ First(qs, l) = First(ps, l)
    BY <1>1, <2>4, <2>5, FirstSame
  <2>7. CASE l = k
    BY <1>3, <2>4, <2>6, <2>7 DEF GetValue, qs
  <2>8. CASE l # k
    <3>1. Places(ps, l) # {} => First(ps, l) \in 1..Len(ps) /\ First(ps, l) # f
      BY <2>1, <2>8, FirstPlace
    <3>. QED  BY <2>4, <2>6, <2>8, <3>1 DEF GetValue, qs
  <2>. QED  BY <2>7, <2>8
<1>. QED  BY <1>2, <1>3

\* What reading makes of the value of a key.
Parsed(v) == IF v = None THEN None ELSE Parse(v)

LEMMA ReadGet ==
  ASSUME NEW ls \in Seq(Pair), NEW k
  PROVE  Read(ls) \in Seq(Pair) /\ GetValue(Read(ls), k) = Parsed(GetValue(ls, k))
<1>1. \A i \in 1..Len(ls) : ParseLine(ls[i]) \in Pair /\ ParseLine(ls[i]).key = ls[i].key
                            /\ ParseLine(ls[i]).val = Parse(ls[i].val)
  BY LineFields
<1>2. Read(ls) \in Seq(Pair) /\ Len(Read(ls)) = Len(ls)
      /\ \A i \in 1..Len(ls) : Read(ls)[i] = ParseLine(ls[i])
  BY <1>1 DEF Read
<1>3. Places(Read(ls), k) = Places(ls, k) /\ First(Read(ls), k) = First(ls, k)
  BY <1>1, <1>2, FirstSame
<1>4. CASE Places(ls, k) = {}
  BY <1>2, <1>3, <1>4 DEF GetValue, Parsed
<1>5. CASE Places(ls, k) # {}
  <2>1. First(ls, k) \in 1..Len(ls)
    BY <1>5, FirstPlace
  <2>2. GetValue(ls, k) # None /\ GetValue(ls, k) = ls[First(ls, k)].val
    BY <1>5, GetType DEF GetValue
  <2>. QED  BY <1>1, <1>2, <1>3, <1>5, <2>1, <2>2 DEF GetValue, Parsed
<1>. QED  BY <1>4, <1>5

LEMMA FoundType ==
  ASSUME NEW ls \in Seq(Pair)
  PROVE  /\ Found(ls) \in [Keys -> Value \cup {None}]
         /\ \A k \in Keys : Found(ls)[k] = GetValue(Read(ls), k)
<1>1. \A k \in Keys : GetValue(Read(ls), k) \in Value \cup {None}
  BY ReadGet, GetType
<1>. QED  BY <1>1 DEF Found

LEMMA DefaultType ==
  /\ \A k \in Codes : Default[k] \in Value
  /\ Codes \subseteq Keys /\ MemKeys \subseteq Keys
  /\ Intl # Natl /\ Natl # Country /\ Country # Intl
<1>1. \A t \in Seq(Char) : Plain(t) \in Value
  BY DEF Plain, Value
<1>2. << >> \in Seq(Char) /\ <<0>> \in Seq(Char) /\ <<0, 0>> \in Seq(Char)
  BY ConfigAssumption
<1>. QED  BY <1>1, <1>2 DEF Default, Codes, Keys, Intl, Natl, Country

\* The defaults of init_ylcontrol fill in what is missing and touch nothing else.
LEMMA WithDefaultGet ==
  ASSUME NEW ps \in Seq(Pair), NEW c \in Codes
  PROVE  /\ WithDefault(ps, c) \in Seq(Pair)
         /\ \A k \in Keys : GetValue(WithDefault(ps, c), k) =
              IF k = c /\ GetValue(ps, k) = None THEN Default[k] ELSE GetValue(ps, k)
<1>1. c \in Keys /\ Default[c] \in Value
  BY DefaultType
<1>. QED  BY <1>1, SetType, SetGet DEF WithDefault

LEMMA CompletedGet ==
  ASSUME NEW ps \in Seq(Pair)
  PROVE  /\ Completed(ps) \in Seq(Pair)
         /\ \A k \in Keys : GetValue(Completed(ps), k) =
              IF k \in Codes /\ GetValue(ps, k) = None THEN Default[k] ELSE GetValue(ps, k)
<1>. DEFINE p1 == WithDefault(ps, Intl)
            p2 == WithDefault(p1, Natl)
            p3 == WithDefault(p2, Country)
<1>1. Intl \in Codes /\ Natl \in Codes /\ Country \in Codes
  BY DEF Codes
<1>2. p1 \in Seq(Pair) /\ \A k \in Keys : GetValue(p1, k) =
        IF k = Intl /\ GetValue(ps, k) = None THEN Default[k] ELSE GetValue(ps, k)
  BY <1>1, WithDefaultGet
<1>. HIDE DEF p1
<1>3. p2 \in Seq(Pair) /\ \A k \in Keys : GetValue(p2, k) =
        IF k = Natl /\ GetValue(p1, k) = None THEN Default[k] ELSE GetValue(p1, k)
  BY <1>1, <1>2, WithDefaultGet
<1>. HIDE DEF p2
<1>4. p3 \in Seq(Pair) /\ \A k \in Keys : GetValue(p3, k) =
        IF k = Country /\ GetValue(p2, k) = None THEN Default[k] ELSE GetValue(p2, k)
  BY <1>1, <1>3, WithDefaultGet
<1>5. Completed(ps) = p3
  BY DEF Completed, p1, p2
<1>. HIDE DEF p3
<1>. QED  BY <1>2, <1>3, <1>4, <1>5, DefaultType DEF Codes

-----------------------------------------------------------------------------
(* The file while it is being written                                      *)

\* The file holds the first of the pairs.
Begun(ls, ps) == Len(ls) <= Len(ps) /\ \A i \in 1..Len(ls) : ls[i] = FormatLine(ps[i])

LEMMA BegunFirst ==
  ASSUME NEW ls \in Seq(Pair), NEW ps \in Seq(Pair), Begun(ls, ps), NEW k
  PROVE  /\ Places(ls, k) # {} =>
              /\ Places(ps, k) # {} /\ First(ps, k) = First(ls, k)
              /\ GetValue(ls, k) = Format(GetValue(ps, k))
         /\ Places(ls, k) = {} => \A i \in Places(ps, k) : i > Len(ls)
<1>1. \A i \in 1..Len(ls) : ls[i].key = ps[i].key /\ ls[i].val = Format(ps[i].val)
  BY LineFields DEF Begun
<1>2. Places(ls, k) = {i \in Places(ps, k) : i <= Len(ls)}
  BY <1>1 DEF Places, Begun
<1>3. ASSUME Places(ls, k) # {}
      PROVE  /\ Places(ps, k) # {} /\ First(ps, k) = First(ls, k)
             /\ GetValue(ls, k) = Format(GetValue(ps, k))
  <2>1. First(ls, k) \in Places(ls, k) /\ \A j \in Places(ls, k) : First(ls, k) <= j
    BY <1>3, FirstPlace DEF Places
  <2>2. Places(ps, k) # {}
    BY <1>2, <2>1
  <2>3. First(ps, k) \in Places(ps, k) /\ \A j \in Places(ps, k) : First(ps, k) <= j
    BY <2>2, FirstPlace DEF Places
  <2>4. First(ps, k) = First(ls, k)
    BY <1>2, <2>1, <2>3 DEF Places
  <2>. QED  BY <1>1, <1>3, <2>1, <2>2, <2>4 DEF GetValue, Places
<1>4. Places(ls, k) = {} => \A i \in Places(ps, k) : i > Len(ls)
  BY <1>2 DEF Places
<1>. QED  BY <1>3, <1>4

\* So far, a start would find the values of the pairs, or none.
LEMMA BegunFound ==
  ASSUME NEW ls \in Seq(Pair), NEW ps \in Seq(Pair), Begun(ls, ps), NEW k \in Keys
  PROVE  /\ Found(ls)[k] \in {None, Restored(GetValue(ps, k))}
         /\ Len(ls) = Len(ps) => Found(ls)[k] = Restored(GetValue(ps, k))
<1>1. Found(ls)[k] = Parsed(GetValue(ls, k))
  BY FoundType, ReadGet
<1>2. CASE Places(ls, k) # {}
  <2>1. GetValue(ls, k) = Format(GetValue(ps, k)) /\ GetValue(ls, k) # None /\ GetValue(ps, k) # None
    BY <1>2, BegunFirst, GetType
  <2>. QED  BY <1>1, <2>1 DEF Parsed, Restored
<1>3. CASE Places(ls, k) = {}
  <2>1. Found(ls)[k] = None
    BY <1>1, <1>3 DEF GetValue, Parsed
  <2>2. ASSUME Len(ls) = Len(ps) PROVE Places(ps, k) = {}
    <3>1. \A i \in Places(ps, k) : i > Len(ls)
      BY <1>3, BegunFirst
    <3>2. \A i \in Places(ps, k) : i \in 1..Len(ps)
      BY DEF Places
    <3>. QED  BY <2>2, <3>1, <3>2
  <2>. QED  BY <2>1, <2>2 DEF GetValue, Restored
<1>. QED  BY <1>2, <1>3

LEMMA CutType ==
  ASSUME NEW v \in Value, NEW w \in Cut(v)
  PROVE  w \in Value
<1>1. \A q \in Prefixes(v.text) : q \in Seq(Char)
  BY DEF Value, Prefixes
<1>2. <<Quote>> \in Seq(Char) /\ << >> \in Seq(Char) /\ v.spaced \in BOOLEAN
  BY LineAssumption DEF Value
<1>3. \A q \in Seq(Char) : <<Quote>> \o q \in Seq(Char) /\ << >> \o q \in Seq(Char)
  BY <1>2
<1>4. \A t \in Seq(Char), s \in BOOLEAN : [text |-> t, spaced |-> s, quotes |-> 0] \in Value
  BY DEF Value
<1>5. CASE w = v
  BY <1>5
<1>6. ASSUME NEW q \in Prefixes(v.text), NEW s \in {FALSE, v.spaced},
             w = [text |-> (IF v.quotes > 0 THEN <<Quote>> ELSE << >>) \o q, spaced |-> s, quotes |-> 0]
      PROVE  w \in Value
  <2>1. (IF v.quotes > 0 THEN <<Quote>> ELSE << >>) \o q \in Seq(Char) /\ s \in BOOLEAN
    BY <1>1, <1>2, <1>3
  <2>. QED  BY <1>4, <1>6, <2>1
<1>. QED  BY <1>5, <1>6 DEF Cut

\* A line that was not written to its end.
LEMMA TornFound ==
  ASSUME NEW ls \in Seq(Pair), NEW ps \in Seq(Pair), Begun(ls, ps), Len(ls) < Len(ps),
         NEW l \in TornLine(FormatLine(ps[Len(ls) + 1])), NEW k \in Keys
  PROVE  Append(ls, l) \in Seq(Pair) /\ Found(Append(ls, l))[k] \in Remains(GetValue(ps, k))
<1>. DEFINE p == ps[Len(ls) + 1]
<1>1. p \in Pair /\ FormatLine(p) \in Pair /\ FormatLine(p).key = p.key /\ FormatLine(p).val = Format(p.val)
      /\ p.val \in Value /\ Format(p.val) \in Value
  BY LineFields, PairFields, FormatFields
<1>2. l \in Pair /\ (l.key = JunkKey \/ (l.key = p.key /\ l.val \in Cut(Format(p.val))))
  <2>1. CASE l = [key |-> JunkKey, val |-> Plain(<< >>)]
    BY <2>1 DEF Pair, Plain, Value
  <2>2. CASE \E w \in Cut(Format(p.val)) : l = [FormatLine(p) EXCEPT !.val = w]
    BY <1>1, <2>2, CutType, PairFields
  <2>. QED  BY <1>1, <2>1, <2>2 DEF TornLine
<1>3. Append(ls, l) \in Seq(Pair)
  BY <1>2
<1>4. Found(Append(ls, l))[k] = Parsed(GetValue(Append(ls, l), k))
  BY <1>3, FoundType, ReadGet
<1>5. CASE Places(ls, k) # {}
  <2>1. GetValue(ls, k) = Format(GetValue(ps, k)) /\ GetValue(ls, k) # None /\ GetValue(ps, k) # None
    BY <1>5, BegunFirst, GetType
  <2>2. Found(Append(ls, l))[k] = Parse(Format(GetValue(ps, k)))
    BY <1>2, <1>4, <1>5, <2>1, AppendGet DEF Parsed
  <2>. QED  BY <1>3, <2>1, <2>2 DEF Remains, Cut
<1>6. CASE Places(ls, k) = {} /\ l.key # k
  <2>1. Found(Append(ls, l))[k] = None
    BY <1>2, <1>4, <1>6, AppendGet DEF Parsed
  <2>. QED  BY <1>3, <2>1 DEF Remains
<1>7. CASE Places(ls, k) = {} /\ l.key = k
  <2>1. p.key = k /\ l.val \in Cut(Format(p.val))
    BY <1>2, <1>7, ConfigAssumption
  <2>2. Len(ls) + 1 \in Places(ps, k) /\ \A i \in Places(ps, k) : i > Len(ls)
    <3>1. \A i \in Places(ps, k) : i > Len(ls)
      BY <1>7, BegunFirst
    <3>2. Len(ls) + 1 \in Places(ps, k)
      BY <2>1 DEF Places
    <3>. QED  BY <3>1, <3>2
  <2>3. First(ps, k) = Len(ls) + 1
    <3>1. First(ps, k) \in Places(ps, k) /\ First(ps, k) \in Nat /\ First(ps, k) <= Len(ls) + 1
      BY <2>2, FirstPlace DEF Places
    <3>. QED  BY <2>2, <3>1
  <2>4. GetValue(ps, k) = p.val /\ p.val # None
    BY <1>1, <2>2, <2>3, LineAssumption DEF GetValue
  <2>5. l.val # None
    BY <1>1, <2>1, CutType, LineAssumption
  <2>6. Found(Append(ls, l))[k] = Parse(l.val)
    BY <1>2, <1>4, <1>7, <2>5, AppendGet DEF Parsed
  <2>. QED  BY <1>3, <2>1, <2>4, <2>6 DEF Remains
<1>. QED  BY <1>5, <1>6, <1>7

-----------------------------------------------------------------------------
(* What a value that was cut off has left of it                            *)

\* LeftOf, character by character: t is n quotes and the beginning of u.
Left(t, n, u) ==
  /\ n \in 0..Len(t) /\ Len(t) <= n + Len(u)
  /\ \A i \in 1..Len(t) : t[i] = IF i <= n THEN Quote ELSE u[i - n]

LEMMA LeftOfChars ==
  ASSUME NEW v \in Value, NEW s \in Value
  PROVE  LeftOf(v, s) <=> \E n \in 0..Len(v.text) : Left(v.text, n, s.text)
<1>. DEFINE t == v.text
            u == s.text
<1>1. t \in Seq(Char) /\ u \in Seq(Char) /\ s # None
  BY LineAssumption DEF Value
<1>. HIDE DEF t, u
<1>2. ASSUME NEW n \in 0..Len(t)
      PROVE  ((\A i \in 1..n : t[i] = Quote) /\ IsPrefix(SubSeq(t, n + 1, Len(t)), u)) <=> Left(t, n, u)
  <2>. DEFINE r == SubSeq(t, n + 1, Len(t))
  <2>1. r \in Seq(Char) /\ Len(r) = Len(t) - n /\ \A i \in 1..(Len(t) - n) : r[i] = t[n + i]
    BY <1>1
  <2>. HIDE DEF r
  <2>2. IsPrefix(r, u) <=> Len(r) <= Len(u) /\ \A i \in 1..Len(r) : r[i] = u[i]
    <3>1. ASSUME Len(r) <= Len(u)
          PROVE  SubSeq(r, 1, Len(r)) = SubSeq(u, 1, Len(r)) <=> \A i \in 1..Len(r) : r[i] = u[i]
      <4>1. /\ SubSeq(r, 1, Len(r)) \in Seq(Char) /\ Len(SubSeq(r, 1, Len(r))) = Len(r)
            /\ \A i \in 1..Len(r) : SubSeq(r, 1, Len(r))[i] = r[i]
        BY <2>1
      <4>2. /\ SubSeq(u, 1, Len(r)) \in Seq(Char) /\ Len(SubSeq(u, 1, Len(r))) = Len(r)
            /\ \A i \in 1..Len(r) : SubSeq(u, 1, Len(r))[i] = u[i]
        BY <1>1, <2>1, <3>1
      <4>. QED  BY <4>1, <4>2
    <3>. QED  BY <3>1 DEF IsPrefix
  <2>3. Left(t, n, u) <=> /\ Len(t) - n <= Len(u) /\ \A i \in 1..n : t[i] = Quote
                          /\ \A i \in 1..(Len(t) - n) : t[n + i] = u[i]
    BY <1>1 DEF Left
  <2>. QED  BY <1>1, <2>1, <2>2, <2>3 DEF r
<1>. QED  BY <1>1, <1>2 DEF LeftOf, t, u

LEMMA LeftOfItself ==
  ASSUME NEW v \in Value, NEW w \in Value, w.text = v.text
  PROVE  LeftOf(w, v)
<1>1. Left(w.text, 0, v.text)
  BY DEF Left, Value
<1>2. 0 \in 0..Len(w.text)
  BY DEF Value
<1>. QED  BY <1>1, <1>2, LeftOfChars

\* Another line cut off leaves the beginning of what one before has left.
LEMMA LeftOfRemains ==
  ASSUME NEW v \in Value, NEW s \in Value, LeftOf(v, s), NEW w \in Remains(v), w # None
  PROVE  w \in Value /\ LeftOf(w, s)
<1>. DEFINE t == v.text
            u == s.text
<1>1. PICK n \in 0..Len(t) : Left(t, n, u)
  BY LeftOfChars
<1>2. t \in Seq(Char) /\ u \in Seq(Char) /\ v # None
  BY LineAssumption DEF Value
<1>3. Format(v) \in Value /\ Format(v).text = t
  BY FormatFields
<1>4. PICK x \in Cut(Format(v)) : w = Parse(x)
  BY <1>2 DEF Remains
<1>5. x \in Value /\ w \in Value /\ w.text = x.text
  BY <1>3, <1>4, CutType, ParseFields
<1>. HIDE DEF t, u
<1>6. CASE x = Format(v)
  <2>1. w.text = t
    BY <1>3, <1>5, <1>6
  <2>. QED  BY <1>1, <1>5, <2>1, LeftOfChars DEF u
<1>7. ASSUME NEW q \in Prefixes(t), NEW b \in {<<Quote>>, << >>}, x.text = b \o q
      PROVE  LeftOf(w, s)
  <2>1. PICK m \in 0..Len(t) : q = SubSeq(t, 1, m)
    BY DEF Prefixes
  <2>2. q \in Seq(Char) /\ Len(q) = m /\ \A i \in 1..m : q[i] = t[i]
    BY <1>2, <2>1
  <2>. DEFINE r == IF n <= m THEN n ELSE m
              l == Len(b)
  <2>3. /\ w.text = b \o q /\ l \in 0..1 /\ Len(b \o q) = l + m
        /\ \A i \in 1..(l + m) : (b \o q)[i] = IF i <= l THEN Quote ELSE q[i - l]
    <3>1. CASE b = << >>
      BY <1>5, <1>7, <2>2, <3>1
    <3>2. CASE b = <<Quote>>
      BY <1>5, <1>7, <2>2, <3>2
    <3>. QED  BY <3>1, <3>2
  <2>4. /\ r \in 0..m /\ r <= n /\ m <= r + Len(u)
        /\ \A i \in 1..m : t[i] = IF i <= r THEN Quote ELSE u[i - r]
    <3>1. /\ n \in Nat /\ Len(t) \in Nat /\ Len(u) \in Nat /\ m <= Len(t) /\ n <= Len(t)
          /\ Len(t) <= n + Len(u) /\ m \in Nat
          /\ \A i \in 1..Len(t) : t[i] = IF i <= n THEN Quote ELSE u[i - n]
      BY <1>1, <1>2 DEF Left
    <3>2. r \in 0..m /\ r <= n /\ m <= r + Len(u)
      BY <3>1
    <3>3. \A i \in 1..m : /\ i \in 1..Len(t) /\ (i <= r <=> i <= n)
                          /\ i > r => r = n
      BY <3>1
    <3>. QED  BY <3>1, <3>2, <3>3
  <2>. HIDE DEF l, r
  <2>5. Left(w.text, l + r, u)
    <3>1. l + r \in 0..(l + m) /\ l + m <= l + r + Len(u) /\ Len(w.text) = l + m
      BY <1>2, <2>3, <2>4
    <3>2. ASSUME NEW i \in 1..(l + m)
          PROVE  w.text[i] = IF i <= l + r THEN Quote ELSE u[i - (l + r)]
      <4>1. CASE i <= l
        <5>1. i <= l + r
          BY <2>3, <2>4, <4>1
        <5>. QED  BY <2>3, <4>1, <5>1
      <4>2. CASE i > l
        <5>0. i \in Nat /\ l \in Nat /\ r \in Nat /\ m \in Nat
          BY <2>3, <2>4
        <5>1. i - l \in 1..m /\ (i - l) - r = i - (l + r) /\ w.text[i] = t[i - l]
          <6>1. i - l \in 1..m /\ (i - l) - r = i - (l + r)
            BY <4>2, <5>0
          <6>2. w.text[i] = q[i - l]
            BY <2>3, <4>2, <5>0
          <6>. QED  BY <2>2, <6>1, <6>2
        <5>2. t[i - l] = IF i - l <= r THEN Quote ELSE u[(i - l) - r]
          BY <2>4, <5>1
        <5>3. i - l <= r <=> i <= l + r
          BY <2>3, <2>4
        <5>. QED  BY <5>1, <5>2, <5>3
      <4>3. i \in Int /\ l \in Int
        BY <2>3
      <4>. QED  BY <4>1, <4>2, <4>3
    <3>. QED  BY <3>1, <3>2 DEF Left
  <2>. QED  BY <1>5, <2>5, LeftOfChars DEF u, Left
<1>8. x = Format(v) \/ \E q \in Prefixes(t), b \in {<<Quote>>, << >>} : x.text = b \o q
  <2>. SUFFICES ASSUME x # Format(v)
                PROVE  \E q \in Prefixes(t), b \in {<<Quote>>, << >>} : x.text = b \o q
    OBVIOUS
  <2>. DEFINE b == IF Format(v).quotes > 0 THEN <<Quote>> ELSE << >>
  <2>1. PICK q \in Prefixes(Format(v).text), sp \in {FALSE, Format(v).spaced} :
          x = [text |-> b \o q, spaced |-> sp, quotes |-> 0]
    BY <1>4 DEF Cut
  <2>2. b \in {<<Quote>>, << >>} /\ q \in Prefixes(t)
    BY <1>3, <2>1
  <2>3. x.text = b \o q
    BY <2>1
  <2>. HIDE DEF b
  <2>. QED  BY <2>2, <2>3
<1>. QED  BY <1>5, <1>6, <1>7, <1>8

-----------------------------------------------------------------------------
(* The invariant                                                           *)

\* What the list is at each place of the program, and how far the file is
\* written.
PhaseOK ==
  /\ pc = "off" => pairs = << >> /\ behind = {}
  /\ pc = "init" => (behind = {} /\ pairs = Read(file)) \/ (behind = {"old"} /\ spoiled)
  /\ pc = "write" => behind = {"cut"} /\ Begun(file, pairs)
  /\ pc \notin {"off", "init"} => \A k \in Codes : GetValue(pairs, k) # None

\* v is the value s, which may have lost quotes of its own.
Keeps(v, s) == v = s \/ (Enclosed(s) /\ v \in Value /\ v.text = s.text /\ ~v.spaced)

SavedOK ==
  ~spoiled => \A k \in Keys :
    /\ pc # "off" => Keeps(GetValue(pairs, k), saved[k])
    /\ pc \in {"off", "init"} \/ (pc = "idle" /\ behind = {}) => Keeps(Found(file)[k], saved[k])

\* What NothingOlder says of a value.
Remnant(v, k) == v = None \/ (k \in Codes /\ LeftOf(v, Default[k])) \/ LeftOf(v, saved[k])

OldOK ==
  \A k \in Keys : /\ Remnant(GetValue(pairs, k), k)
                  /\ pc # "open" /\ "old" \notin behind => Remnant(Found(file)[k], k)

IInv == TypeOK /\ PhaseOK /\ SavedOK /\ OldOK

\* A file that broke off.
LEMMA BreaksOffFound ==
  ASSUME TypeOK, PhaseOK, BreaksOff
  PROVE  /\ file' \in Seq(Pair) /\ losses' \in Nat
         /\ \A k \in Keys : Found(file')[k] \in Remains(GetValue(pairs, k))
<1>1. Begun(file, pairs) /\ Len(file) < Len(pairs) /\ file \in Seq(Pair) /\ pairs \in Seq(Pair)
  BY DEF TypeOK, PhaseOK, BreaksOff, Unwritten
<1>2. CASE UNCHANGED <<file, losses>>
  <2>1. \A k \in Keys : Found(file)[k] \in {None, Restored(GetValue(pairs, k))}
    BY <1>1, BegunFound
  <2>2. \A v : None \in Remains(v) /\ Restored(v) \in Remains(v)
    BY DEF Remains, Restored, Cut
  <2>. QED  BY <1>2, <2>1, <2>2 DEF TypeOK
<1>3. ASSUME NEW l \in TornLine(NextLine), file' = Append(file, l), losses' = losses + 1
      PROVE  /\ file' \in Seq(Pair) /\ losses' \in Nat
             /\ \A k \in Keys : Found(file')[k] \in Remains(GetValue(pairs, k))
  <2>1. l \in TornLine(FormatLine(pairs[Len(file) + 1]))
    BY <1>3 DEF NextLine
  <2>2. JunkKey \notin Keys /\ Intl \in Keys
    BY ConfigAssumption DEF Keys, Codes
  <2>3. \A k \in Keys : /\ Append(file, l) \in Seq(Pair)
                        /\ Found(Append(file, l))[k] \in Remains(GetValue(pairs, k))
    BY <1>1, <2>1, TornFound
  <2>. QED  BY <1>3, <2>2, <2>3 DEF TypeOK
<1>. QED  BY <1>2, <1>3 DEF BreaksOff

LEMMA TypesKept ==
  ASSUME IInv, [Next]_vars
  PROVE  TypeOK'
<1>. USE DEF IInv, TypeOK
<1>0. Read(file) \in Seq(Pair) /\ << >> \in Seq(Pair)
  BY ReadGet
<1>1. CASE ReadConfig
  BY <1>0, <1>1 DEF ReadConfig
<1>2. CASE InitYlcontrol
  <2>1. \A k \in Keys : (IF saved[k] = None /\ k \in Codes THEN Default[k] ELSE saved[k]) \in Value \cup {None}
    BY DefaultType
  <2>2. saved' \in [Keys -> Value \cup {None}]
    BY <1>2, <2>1 DEF InitYlcontrol
  <2>. QED  BY <1>2, <2>2, CompletedGet DEF InitYlcontrol
<1>3. ASSUME NEW k \in MemKeys, NEW v \in StoreValues, StoreNumber(k, v) PROVE TypeOK'
  <2>1. k \in Keys /\ v \in Value
    BY DefaultType, ConfigAssumption
  <2>. QED  BY <1>3, <2>1, SetType DEF StoreNumber
<1>4. CASE OpenFile \/ CloseFile
  BY <1>0, <1>4 DEF OpenFile, CloseFile, Emptied
<1>5. CASE WriteLine
  <2>1. pairs[Len(file) + 1] \in Pair
    BY <1>5 DEF WriteLine, Unwritten
  <2>2. NextLine \in Pair
    BY <2>1, LineFields DEF NextLine
  <2>. QED  BY <1>5, <2>2 DEF WriteLine
<1>6. CASE WriteFails
  BY <1>6, BreaksOffFound DEF WriteFails
<1>7. CASE End \/ Killed
  <2>1. file' \in Seq(Pair) /\ losses' \in Nat /\ Ended
    BY <1>7, BreaksOffFound DEF End, Killed
  <2>2. Found(file) \in [Keys -> Value \cup {None}]
    BY FoundType
  <2>3. pairs' \in Seq(Pair) /\ pc' = "off" /\ behind' = {} /\ spoiled' \in BOOLEAN
    BY <1>0, <2>1 DEF Ended
  <2>4. saved' \in [Keys -> Value \cup {None}]
    BY <2>1, <2>2 DEF Ended
  <2>. QED  BY <2>1, <2>3, <2>4
<1>8. CASE UNCHANGED vars
  BY <1>8 DEF vars
<1>. QED  BY <1>1, <1>2, <1>3, <1>4, <1>5, <1>6, <1>7, <1>8 DEF Next

LEMMA PhasesKept ==
  ASSUME IInv, [Next]_vars
  PROVE  PhaseOK'
<1>. USE DEF IInv, PhaseOK
<1>1. CASE ReadConfig
  BY <1>1 DEF ReadConfig
<1>2. CASE InitYlcontrol
  <2>1. \A k \in Codes : GetValue(Completed(pairs), k) # None
    BY CompletedGet, DefaultType, LineAssumption DEF TypeOK
  <2>. QED  BY <1>2, <2>1 DEF InitYlcontrol
<1>3. ASSUME NEW k \in MemKeys, NEW v \in StoreValues, StoreNumber(k, v) PROVE PhaseOK'
  <2>1. k \in Keys /\ v \in Value
    BY DefaultType, ConfigAssumption
  <2>2. \A l \in Codes : GetValue(SetPair(pairs, k, v), l) # None
    BY <1>3, <2>1, SetGet, LineAssumption DEF StoreNumber, TypeOK
  <2>. QED  BY <1>3, <2>2 DEF StoreNumber
<1>4. CASE OpenFile \/ CloseFile
  BY <1>4 DEF OpenFile, CloseFile, Emptied, Begun, TypeOK
<1>5. CASE WriteLine
  <2>1. file \in Seq(Pair) /\ pairs \in Seq(Pair) /\ Begun(file, pairs) /\ Len(file) < Len(pairs)
    BY <1>5 DEF WriteLine, Unwritten, TypeOK
  <2>2. file' = Append(file, FormatLine(pairs[Len(file) + 1])) /\ pairs' = pairs
    BY <1>5 DEF WriteLine, NextLine
  <2>3. Begun(file', pairs')
    BY <2>1, <2>2 DEF Begun
  <2>. QED  BY <1>5, <2>3 DEF WriteLine
<1>6. CASE WriteFails \/ End \/ Killed
  BY <1>6 DEF WriteFails, End, Killed, Ended, BreaksOff
<1>7. CASE UNCHANGED vars
  BY <1>7 DEF vars
<1>. QED  BY <1>1, <1>2, <1>3, <1>4, <1>5, <1>6, <1>7 DEF Next

\* A start reads what is in the file.
LEMMA ReadFinds ==
  ASSUME TypeOK
  PROVE  \A k \in Keys : Found(file)[k] = GetValue(Read(file), k)
BY FoundType DEF TypeOK

LEMMA KeepsRestored ==
  ASSUME NEW s, NEW v \in Value \cup {None}, Keeps(v, s)
  PROVE  Keeps(Restored(v), s)
<1>1. CASE v = None
  BY <1>1 DEF Restored
<1>2. CASE v \in Value /\ v = s
  BY <1>2, RoundTrip DEF Keeps, Enclosed
<1>3. CASE v \in Value /\ v # s
  BY <1>3, RoundTrip DEF Keeps
<1>. QED  BY <1>1, <1>2, <1>3

LEMMA SavedStep ==
  ASSUME IInv, [Next]_vars
  PROVE  SavedOK'
<1>. SUFFICES ASSUME ~spoiled', NEW k \in Keys
              PROVE  /\ pc' # "off" => Keeps(GetValue(pairs, k)', saved'[k])
                     /\ pc' \in {"off", "init"} \/ (pc' = "idle" /\ behind' = {})
                          => Keeps(Found(file')[k], saved'[k])
  BY DEF SavedOK
<1>0. /\ ~spoiled => /\ pc # "off" => Keeps(GetValue(pairs, k), saved[k])
                     /\ pc \in {"off", "init"} \/ (pc = "idle" /\ behind = {})
                          => Keeps(Found(file)[k], saved[k])
      /\ file \in Seq(Pair) /\ pairs \in Seq(Pair) /\ saved \in [Keys -> Value \cup {None}]
      /\ behind \subseteq {"old", "cut"}
  BY DEF IInv, SavedOK, TypeOK
<1>1. CASE ReadConfig
  <2>1. pc = "off" /\ ~spoiled /\ pairs' = Read(file) /\ UNCHANGED <<file, saved>>
    BY <1>1 DEF ReadConfig
  <2>2. GetValue(pairs', k) = Found(file)[k]
    BY <2>1, ReadFinds DEF IInv
  <2>. QED  BY <1>0, <2>1, <2>2
<1>2. CASE InitYlcontrol
  <2>1. /\ ~spoiled /\ pc = "init" /\ pairs' = Completed(pairs) /\ UNCHANGED <<file, behind>>
        /\ saved' = [l \in Keys |-> IF saved[l] = None /\ l \in Codes THEN Default[l] ELSE saved[l]]
        /\ pc' = IF Completed(pairs) = pairs THEN "idle" ELSE "open"
    BY <1>2 DEF InitYlcontrol
  <2>2. GetValue(pairs', k) = IF k \in Codes /\ GetValue(pairs, k) = None THEN Default[k] ELSE GetValue(pairs, k)
    BY <1>0, <2>1, CompletedGet
  <2>3. saved'[k] = IF saved[k] = None /\ k \in Codes THEN Default[k] ELSE saved[k]
    BY <2>1
  <2>4. GetValue(pairs, k) = None <=> saved[k] = None
    BY <1>0, <2>1, LineAssumption DEF Keeps, Enclosed
  <2>5. Keeps(GetValue(pairs, k)', saved'[k])
    BY <1>0, <2>1, <2>2, <2>3, <2>4 DEF Keeps
  <2>6. pc' = "idle" => Keeps(Found(file')[k], saved'[k])
    <3>. SUFFICES ASSUME pc' = "idle" PROVE Keeps(Found(file)[k], saved'[k])
      BY <2>1
    <3>1. Completed(pairs) = pairs
      BY <2>1
    <3>2. k \in Codes /\ GetValue(pairs, k) = None => Default[k] = None
      BY <1>0, <2>1, <2>2, <3>1
    <3>3. saved'[k] = saved[k]
      BY <2>3, <2>4, <3>2, DefaultType, LineAssumption
    <3>. QED  BY <1>0, <2>1, <3>3
  <2>. QED  BY <2>1, <2>5, <2>6
<1>3. ASSUME NEW l \in MemKeys, NEW v \in StoreValues, StoreNumber(l, v)
      PROVE  pc' = "open" /\ Keeps(GetValue(pairs, k)', saved'[k])
  <2>1. l \in Keys /\ v \in Value
    BY DefaultType, ConfigAssumption
  <2>2. /\ ~spoiled /\ pc = "idle" /\ pc' = "open" /\ pairs' = SetPair(pairs, l, v)
        /\ saved' = [saved EXCEPT ![l] = v]
    BY <1>3 DEF StoreNumber
  <2>3. GetValue(pairs', k) = IF k = l THEN v ELSE GetValue(pairs, k)
    BY <1>0, <2>1, <2>2, SetGet
  <2>4. saved'[k] = IF k = l THEN v ELSE saved[k]
    BY <1>0, <2>1, <2>2
  <2>. QED  BY <1>0, <2>2, <2>3, <2>4 DEF Keeps
<1>4. CASE OpenFile \/ WriteLine \/ WriteFails
  BY <1>0, <1>4 DEF OpenFile, WriteLine, WriteFails, BreaksOff, IInv, PhaseOK
<1>5. CASE CloseFile
  <2>1. /\ ~spoiled /\ pc = "write" /\ pc' = "idle" /\ UNCHANGED <<file, pairs, saved>>
        /\ Len(file) = Len(pairs) /\ Begun(file, pairs)
    BY <1>0, <1>5 DEF CloseFile, Unwritten, Begun, IInv, PhaseOK
  <2>2. Found(file)[k] = Restored(GetValue(pairs, k)) /\ GetValue(pairs, k) \in Value \cup {None}
    BY <1>0, <2>1, BegunFound, GetType
  <2>. QED  BY <1>0, <2>1, <2>2, KeepsRestored
<1>6. CASE End
  <2>1. /\ ~spoiled /\ "cut" \notin behind /\ pc \in {"init", "open", "idle"} /\ pc' = "off" /\ file' = file
        /\ saved' = IF pc = "open" \/ "old" \in behind THEN Found(file) ELSE saved
    BY <1>6 DEF End, Ended
  <2>2. CASE pc = "open" \/ "old" \in behind
    BY <2>1, <2>2 DEF Keeps
  <2>3. CASE pc # "open" /\ behind = {}
    BY <1>0, <2>1, <2>3
  <2>. QED  BY <1>0, <2>1, <2>2, <2>3
<1>7. CASE Killed
  BY <1>7 DEF Killed, BreaksOff, Ended, IInv, PhaseOK
<1>8. CASE UNCHANGED vars
  BY <1>0, <1>8 DEF vars
<1>. QED  BY <1>1, <1>2, <1>3, <1>4, <1>5, <1>6, <1>7, <1>8 DEF Next

-----------------------------------------------------------------------------
LEMMA RemnantRemains ==
  ASSUME saved \in [Keys -> Value \cup {None}],
         NEW k \in Keys, NEW v \in Value \cup {None}, Remnant(v, k), NEW w \in Remains(v)
  PROVE  Remnant(w, k)
<1>. SUFFICES ASSUME w # None PROVE Remnant(w, k)
  BY DEF Remnant
<1>1. v \in Value
  BY DEF Remains
<1>2. \A s \in Value : LeftOf(v, s) => LeftOf(w, s)
  BY <1>1, LeftOfRemains
<1>3. k \in Codes => Default[k] \in Value
  BY DefaultType
<1>. QED  BY <1>1, <1>2, <1>3, LineAssumption DEF Remnant, LeftOf

\* If what a key has is left of what was saved, so is what another save leaves.
LEMMA OldStep ==
  ASSUME IInv, [Next]_vars
  PROVE  OldOK'
<1>. SUFFICES ASSUME NEW k \in Keys
              PROVE  /\ Remnant(GetValue(pairs, k), k)'
                     /\ pc' # "open" /\ "old" \notin behind' => Remnant(Found(file)[k], k)'
  BY DEF OldOK
<1>0. /\ Remnant(GetValue(pairs, k), k)
      /\ pc # "open" /\ "old" \notin behind => Remnant(Found(file)[k], k)
      /\ file \in Seq(Pair) /\ pairs \in Seq(Pair) /\ saved \in [Keys -> Value \cup {None}]
      /\ GetValue(pairs, k) \in Value \cup {None} /\ Found(file)[k] \in Value \cup {None}
  BY GetType, FoundType DEF IInv, OldOK, TypeOK
<1>1. ASSUME UNCHANGED saved PROVE \A v : Remnant(v, k)' = Remnant(v, k)
  BY <1>1 DEF Remnant
<1>2. Remnant(None, k)'
  BY DEF Remnant
<1>3. \A v \in Value : saved'[k] = v => Remnant(v, k)'
  BY LeftOfItself DEF Remnant
<1>4. GetValue(<< >>, k) = None /\ Found(<< >>)[k] = None
  <2>1. << >> \in Seq(Pair) /\ Places(<< >>, k) = {}
    BY DEF Places
  <2>2. GetValue(<< >>, k) = None
    BY <2>1 DEF GetValue
  <2>3. Found(<< >>)[k] = Parsed(GetValue(<< >>, k))
    BY <2>1, FoundType, ReadGet
  <2>. QED  BY <2>2, <2>3 DEF Parsed
<1>5. CASE ReadConfig
  <2>1. pc = "off" /\ behind = {} /\ UNCHANGED <<file, saved>>
    BY <1>5 DEF ReadConfig, IInv, PhaseOK
  <2>2. CASE pairs' = Read(file)
    <3>1. GetValue(pairs', k) = Found(file)[k]
      BY <2>2, ReadFinds DEF IInv
    <3>. QED  BY <1>0, <1>1, <2>1, <3>1
  <2>3. CASE pairs' = << >>
    BY <1>0, <1>1, <1>2, <1>4, <2>1, <2>3
  <2>. QED  BY <1>5, <2>2, <2>3 DEF ReadConfig
<1>6. CASE InitYlcontrol
  <2>1. /\ pc = "init" /\ pairs' = Completed(pairs) /\ UNCHANGED <<file, behind>>
        /\ saved'[k] = IF saved[k] = None /\ k \in Codes THEN Default[k] ELSE saved[k]
    BY <1>6 DEF InitYlcontrol
  <2>2. GetValue(pairs', k) = IF k \in Codes /\ GetValue(pairs, k) = None THEN Default[k] ELSE GetValue(pairs, k)
    BY <1>0, <2>1, CompletedGet
  <2>3. \A v : Remnant(v, k) => Remnant(v, k)'
    BY <2>1 DEF Remnant, LeftOf
  <2>4. k \in Codes => Remnant(Default[k], k)'
    BY DefaultType, LeftOfItself DEF Remnant
  <2>. QED  BY <1>0, <2>1, <2>2, <2>3, <2>4
<1>7. ASSUME NEW l \in MemKeys, NEW v \in StoreValues, StoreNumber(l, v)
      PROVE  pc' = "open" /\ Remnant(GetValue(pairs, k), k)'
  <2>1. l \in Keys /\ v \in Value
    BY DefaultType, ConfigAssumption
  <2>2. pc' = "open" /\ pairs' = SetPair(pairs, l, v) /\ saved' = [saved EXCEPT ![l] = v]
    BY <1>7 DEF StoreNumber
  <2>3. GetValue(pairs', k) = IF k = l THEN v ELSE GetValue(pairs, k)
    BY <1>0, <2>1, <2>2, SetGet
  <2>4. saved'[k] = IF k = l THEN v ELSE saved[k]
    BY <1>0, <2>1, <2>2
  <2>5. k # l => Remnant(GetValue(pairs, k), k)'
    BY <1>0, <2>2, <2>3, <2>4 DEF Remnant
  <2>. QED  BY <1>3, <2>1, <2>2, <2>3, <2>4, <2>5
<1>8. CASE OpenFile
  <2>1. UNCHANGED <<pairs, saved>> /\ (file' = << >> \/ "old" \in behind')
    BY <1>8 DEF OpenFile, Emptied
  <2>. QED  BY <1>0, <1>1, <1>2, <1>4, <2>1
<1>9. CASE WriteLine
  <2>1. pc' = "write" /\ UNCHANGED <<pairs, saved>>
    BY <1>9 DEF WriteLine
  <2>2. Begun(file', pairs) /\ file' \in Seq(Pair)
    BY <2>1, TypesKept, PhasesKept DEF TypeOK, PhaseOK
  <2>3. Found(file')[k] \in {None, Restored(GetValue(pairs, k))}
    BY <1>0, <2>2, BegunFound
  <2>4. \A v : Restored(v) \in Remains(v)
    BY DEF Remains, Restored, Cut
  <2>. QED  BY <1>0, <1>1, <1>2, <2>1, <2>3, <2>4, RemnantRemains
<1>10. CASE CloseFile
  <2>1. pc = "write" /\ "old" \notin behind /\ UNCHANGED <<file, pairs, saved>>
    BY <1>10 DEF CloseFile, IInv, PhaseOK
  <2>. QED  BY <1>0, <1>1, <2>1
<1>11. ASSUME BreaksOff, UNCHANGED saved PROVE Remnant(Found(file)[k], k)'
  <2>1. Found(file')[k] \in Remains(GetValue(pairs, k))
    BY <1>11, BreaksOffFound DEF IInv
  <2>. QED  BY <1>0, <1>1, <1>11, <2>1, RemnantRemains
<1>12. CASE WriteFails
  <2>1. BreaksOff /\ UNCHANGED <<pairs, saved>>
    BY <1>12 DEF WriteFails
  <2>. QED  BY <1>0, <1>1, <1>11, <2>1
<1>13. CASE End
  <2>1. /\ pairs' = << >> /\ file' = file
        /\ saved' = IF pc = "open" \/ "old" \in behind THEN Found(file) ELSE saved
    BY <1>13 DEF End, Ended
  <2>2. Remnant(Found(file)[k], k)'
    <3>1. CASE pc = "open" \/ "old" \in behind
      BY <1>0, <1>2, <1>3, <2>1, <3>1
    <3>2. CASE pc # "open" /\ "old" \notin behind
      BY <1>0, <1>1, <2>1, <3>2
    <3>. QED  BY <3>1, <3>2
  <2>. QED  BY <1>2, <1>4, <2>1, <2>2
<1>14. CASE Killed
  <2>1. BreaksOff /\ pairs' = << >> /\ UNCHANGED saved
    BY <1>14 DEF Killed, BreaksOff, Ended, IInv, PhaseOK
  <2>. QED  BY <1>2, <1>4, <1>11, <2>1
<1>15. CASE UNCHANGED vars
  BY <1>0, <1>1, <1>15 DEF vars
<1>. QED  BY <1>5, <1>6, <1>7, <1>8, <1>9, <1>10, <1>12, <1>13, <1>14, <1>15 DEF Next

-----------------------------------------------------------------------------
(* The theorems                                                            *)

LEMMA ConfigInitInv ==
  ASSUME Init PROVE IInv
<1>1. file \in Seq(Pair) /\ << >> \in Seq(Pair)
  BY ConfigAssumption DEF Init
<1>2. TypeOK
  BY <1>1, FoundType, ConfigAssumption DEF Init, TypeOK
<1>3. \A k \in Keys : GetValue(<< >>, k) = None /\ Found(file)[k] \in Value \cup {None}
  BY <1>1, FoundType DEF GetValue, Places
<1>4. OldOK
  BY <1>3, LeftOfItself DEF Init, OldOK, Remnant
<1>. QED  BY <1>2, <1>4 DEF Init, IInv, PhaseOK, SavedOK, Keeps

LEMMA ConfigInvariance == Spec => []IInv
<1>1. Init => IInv
  BY ConfigInitInv
<1>2. IInv /\ [Next]_vars => IInv'
  BY TypesKept, PhasesKept, SavedStep, OldStep DEF IInv
<1>. QED  BY <1>1, <1>2, PTL DEF Spec

\* The file and the list consist of pairs with values that can be written and
\* read, for any initial contents and whatever breaks off.
THEOREM ConfigTypes == Spec => []TypeOK
<1>1. IInv => TypeOK
  BY DEF IInv
<1>. QED  BY <1>1, ConfigInvariance, PTL

\* A value that was configured or stored is kept over any number of changes,
\* saves and starts, unless a save broke off or a start could not read.
THEOREM KeptAcrossStarts == Spec => []SavedKept
<1>1. IInv => SavedKept
  BY DEF IInv, SavedOK, Keeps, SavedKept
<1>. QED  BY <1>1, ConfigInvariance, PTL

\* And if it did, no value comes back that had been replaced before, where what a
\* start reads from the file that an earlier start could not read counts as saved.
THEOREM NoneComesBack == Spec => []NothingOlder
<1>1. IInv => NothingOlder
  BY DEF IInv, OldOK, Remnant, NothingOlder
<1>. QED  BY <1>1, ConfigInvariance, PTL

\* A caller has one number, whatever was stored, saved and read before: the
\* codes the program works with are the configured ones, of which quotes are
\* no part.
THEOREM OneNumberKept == Spec => []CallerHasOneNumber
<1>. DEFINE working == AccessCodes([k \in Codes |-> GetValue(pairs, k)])
            conf  == AccessCodes(saved)
<1>1. ASSUME IInv, pc = "idle", ~spoiled
      PROVE  working = conf /\ conf \in [intl : Seq(Char), natl : Seq(Char), country : Seq(Char)]
  <2>1. \A k \in Codes : /\ GetValue(pairs, k) \in Value
                         /\ Keeps(GetValue(pairs, k), saved[k])
    BY <1>1, GetType, DefaultType DEF IInv, TypeOK, PhaseOK, SavedOK
  <2>2. \A k \in Codes : GetValue(pairs, k).text = saved[k].text /\ saved[k].text \in Seq(Char)
    BY <2>1 DEF Keeps, Value
  <2>. QED  BY <2>2 DEF AccessCodes, Codes
<1>. HIDE DEF working, conf
<1>2. ASSUME IInv, pc = "idle", ~spoiled, NEW n \in Locals, NEW country \in {conf.country} \cup Countries,
             Unambiguous(n, country, conf), NEW c \in Notations(n, country, conf)
      PROVE  CallerNumber(<<c>>, working) = Dialled(n, country, conf)
  <2>1. n \in Seq(Char) /\ country \in Seq(Char) /\ Plus \in Char
    BY <1>1, <1>2, ConfigAssumption
  <2>. QED  BY <1>1, <1>2, <2>1, OneNumber
<1>3. IInv => CallerHasOneNumber
  BY <1>2 DEF CallerHasOneNumber, working, conf
<1>. QED  BY <1>3, ConfigInvariance, PTL

-----------------------------------------------------------------------------
(* The abstract store                                                      *)

LEMMA StoreLines ==
  /\ Store!Value = Value
  /\ \A v : Store!Remains(v) = Remains(v) /\ Store!Restored(v) = Restored(v)
<1>1. Store!Value = Value
  BY DEF Store!Value, Value
<1>2. \A v : Store!Format(v) = Format(v) /\ Store!Parse(v) = Parse(v)
  BY DEF Store!Format, Format, Store!Parse, Parse
<1>3. \A t : Store!Prefixes(t) = Prefixes(t)
  BY DEF Store!Prefixes, Prefixes
<1>4. \A v : Store!Cut(v) = Cut(v)
  <2>. SUFFICES ASSUME NEW v PROVE Store!Cut(v) = Cut(v)
    OBVIOUS
  <2>1. Store!Prefixes(v.text) = Prefixes(v.text)
    BY <1>3
  <2>. DEFINE P == Prefixes(v.text)
  <2>2. Cut(v) = {v} \cup {[text |-> (IF v.quotes > 0 THEN <<Quote>> ELSE << >>) \o p, spaced |-> s,
                            quotes |-> 0] : p \in P, s \in {FALSE, v.spaced}}
    BY DEF Cut
  <2>3. Store!Cut(v) = {v} \cup {[text |-> (IF v.quotes > 0 THEN <<Quote>> ELSE << >>) \o p, spaced |-> s,
                                  quotes |-> 0] : p \in P, s \in {FALSE, v.spaced}}
    BY <2>1 DEF Store!Cut
  <2>. QED  BY <2>2, <2>3
<1>. QED  BY <1>1, <1>2, <1>4 DEF Store!Remains, Remains, Store!Restored, Restored

LEMMA StoreStep ==
  ASSUME IInv, Next
  PROVE  [Store!Next]_Store!vars
<1>. USE DEF IInv, TypeOK
<1>0. /\ Live = [k \in Keys |-> GetValue(pairs, k)] /\ Live' = [k \in Keys |-> GetValue(pairs', k)]
      /\ \A k \in Keys : Live[k] \in Value \cup {None} /\ Live'[k] \in Value \cup {None}
      /\ Found(file) \in [Keys -> Value \cup {None}] /\ Found(file') \in [Keys -> Value \cup {None}]
  BY TypesKept, FoundType, GetType DEF Live
<1>1. ASSUME UNCHANGED pairs, \A k \in Keys : Found(file')[k] \in Remains(Live[k])
      PROVE  UNCHANGED Live /\ Store!BrokenOff
  BY <1>0, <1>1, StoreLines DEF Store!BrokenOff, Live
<1>2. CASE ReadConfig
  <2>1. Mode = "down" /\ file' = file
    BY <1>2 DEF ReadConfig, Mode
  <2>2. CASE pairs' = Read(file) /\ UNCHANGED behind
    <3>1. Live' = Found(file)
      BY <1>0, <2>2 DEF Found
    <3>2. Mode' = "safe"
      BY <1>2, <2>2 DEF ReadConfig, Mode, PhaseOK
    <3>. QED  BY <2>1, <3>1, <3>2 DEF Store!Next, Store!Load
  <2>3. CASE pairs' = << >> /\ behind' = {"old"}
    <3>1. Live' = Store!Nothing
      BY <1>0, <2>3 DEF Store!Nothing, GetValue, Places
    <3>2. Mode' = "unsafe"
      BY <1>2, <2>3 DEF ReadConfig, Mode
    <3>. QED  BY <2>1, <3>1, <3>2 DEF Store!Next, Store!Load
  <2>. QED  BY <1>2, <2>2, <2>3 DEF ReadConfig
<1>3. CASE InitYlcontrol
  <2>1. pc = "init" /\ pairs' = Completed(pairs) /\ UNCHANGED <<file, behind>>
        /\ pc' = IF Completed(pairs) = pairs THEN "idle" ELSE "open"
    BY <1>3 DEF InitYlcontrol
  <2>2. CASE Completed(pairs) = pairs
    <3>1. Mode' = Mode /\ UNCHANGED Live
      BY <2>1, <2>2 DEF Mode, Live
    <3>. QED  BY <2>1, <3>1 DEF Store!vars
  <2>3. CASE Completed(pairs) # pairs
    <3>1. Mode \in {"safe", "unsafe"} /\ Mode' = "unsafe"
      BY <2>1, <2>3 DEF Mode
    <3>2. Live' = [k \in Keys |-> IF Live[k] = None /\ k \in DOMAIN Default THEN Default[k] ELSE Live[k]]
      <4>1. DOMAIN Default = Codes
        BY DEF Default
      <4>. QED  BY <1>0, <2>1, <4>1, CompletedGet
    <3>. QED  BY <2>1, <3>1, <3>2 DEF Store!Next, Store!Complete, Store!Change
  <2>. QED  BY <2>2, <2>3
<1>4. ASSUME NEW k \in MemKeys, NEW v \in StoreValues, StoreNumber(k, v)
      PROVE  Store!Next
  <2>1. k \in Keys /\ v \in Value
    BY DefaultType, ConfigAssumption
  <2>2. pc = "idle" /\ pc' = "open" /\ pairs' = SetPair(pairs, k, v) /\ UNCHANGED <<file, behind>>
    BY <1>4 DEF StoreNumber
  <2>3. Mode \in {"safe", "unsafe"} /\ Mode' = "unsafe"
    BY <2>2 DEF Mode
  <2>4. \A l \in Keys : GetValue(pairs', l) = IF l = k THEN v ELSE GetValue(pairs, l)
    BY <2>1, <2>2, SetGet
  <2>5. Live' = [Live EXCEPT ![k] = Live'[k]] /\ Live'[k] \in Value
    BY <1>0, <2>1, <2>4
  <2>6. Store!Put(k)
    BY <2>2, <2>3, <2>5, StoreLines DEF Store!Put, Store!Change
  <2>. QED  BY <2>1, <2>6 DEF Store!Next
<1>5. CASE OpenFile
  <2>1. pc = "open" /\ UNCHANGED pairs /\ Mode = "unsafe"
    BY <1>5 DEF OpenFile, Mode
  <2>2. CASE file' = << >> /\ pc' = "write"
    <3>1. \A k \in Keys : Found(file')[k] = None /\ None \in Remains(Live[k])
      <4>1. << >> \in Seq(Pair) /\ \A k : Places(<< >>, k) = {}
        BY DEF Places
      <4>2. \A k : GetValue(<< >>, k) = None
        BY <4>1 DEF GetValue
      <4>3. \A k \in Keys : Found(<< >>)[k] = Parsed(GetValue(<< >>, k))
        BY <4>1, FoundType, ReadGet
      <4>. QED  BY <2>2, <4>2, <4>3 DEF Parsed, Remains
    <3>2. Mode' = "saving"
      BY <2>2 DEF Mode
    <3>. QED  BY <1>1, <2>1, <3>1, <3>2 DEF Store!Next, Store!Save
  <2>3. CASE pc' = "idle" /\ behind' = behind \cup {"old"} /\ UNCHANGED file
    <3>1. Mode' = "unsafe" /\ UNCHANGED Live
      BY <2>1, <2>3 DEF Mode, Live
    <3>. QED  BY <2>1, <2>3, <3>1 DEF Store!vars
  <2>. QED  BY <1>5, <2>2, <2>3 DEF OpenFile, Emptied
<1>6. CASE WriteLine
  <2>1. pc = "write" /\ pc' = "write" /\ UNCHANGED pairs
    BY <1>6 DEF WriteLine
  <2>2. Begun(file', pairs) /\ file' \in Seq(Pair)
    BY <2>1, TypesKept, PhasesKept DEF PhaseOK
  <2>3. \A k \in Keys : Found(file')[k] \in {None, Restored(Live[k])}
    BY <1>0, <2>2, BegunFound
  <2>4. \A v : None \in Remains(v) /\ Restored(v) \in Remains(v)
    BY DEF Remains, Restored, Cut
  <2>5. Mode = "saving" /\ Mode' = "saving"
    BY <2>1 DEF Mode
  <2>. QED  BY <1>1, <2>1, <2>3, <2>4, <2>5 DEF Store!Next, Store!Save
<1>7. CASE CloseFile
  <2>1. /\ pc = "write" /\ pc' = "idle" /\ behind' = {} /\ UNCHANGED <<file, pairs>>
        /\ Len(file) = Len(pairs) /\ Begun(file, pairs)
    BY <1>7 DEF CloseFile, Unwritten, Begun, PhaseOK
  <2>2. \A k \in Keys : Found(file)[k] = Restored(Live[k])
    BY <1>0, <2>1, BegunFound
  <2>3. Found(file) = [k \in Keys |-> Store!Restored(Live[k])]
    BY <1>0, <2>2, StoreLines
  <2>4. Mode = "saving" /\ Mode' = "safe" /\ UNCHANGED Live
    BY <2>1 DEF Mode, Live
  <2>. QED  BY <2>1, <2>3, <2>4 DEF Store!Next, Store!Saved
<1>8. CASE WriteFails
  <2>1. pc = "write" /\ pc' = "idle" /\ behind' = {"cut"} /\ UNCHANGED pairs /\ BreaksOff
    BY <1>8 DEF WriteFails, BreaksOff, PhaseOK
  <2>2. \A k \in Keys : Found(file')[k] \in Remains(Live[k])
    BY <1>0, <2>1, BreaksOffFound
  <2>3. Mode = "saving" /\ Mode' = "unsafe"
    BY <2>1 DEF Mode
  <2>. QED  BY <1>1, <2>1, <2>2, <2>3 DEF Store!Next, Store!Save
<1>9. ASSUME Ended PROVE Mode' = "down" /\ Live' = Store!Nothing
  BY <1>0, <1>9 DEF Ended, Mode, Store!Nothing, GetValue, Places
<1>10. CASE End
  <2>1. Mode # "down" /\ Ended /\ file' = file
    BY <1>10 DEF End, Mode
  <2>. QED  BY <1>9, <2>1 DEF Store!Next, Store!Die
<1>11. CASE Killed
  <2>1. Mode = "saving" /\ Ended /\ BreaksOff
    BY <1>11 DEF Killed, BreaksOff, Mode
  <2>2. \A k \in Keys : Found(file')[k] \in Remains(Live[k])
    BY <1>0, <2>1, BreaksOffFound
  <2>3. Store!BrokenOff
    BY <1>0, <2>2, StoreLines DEF Store!BrokenOff
  <2>. QED  BY <1>9, <2>1, <2>3 DEF Store!Next, Store!Die
<1>. QED  BY <1>2, <1>3, <1>4, <1>5, <1>6, <1>7, <1>8, <1>10, <1>11 DEF Next

\* The configuration file with ypconfig_read, ypconfig_set_pair and
\* ypconfig_write is the store of settings that Settings describes: every step
\* of the program is one of the store, or is not seen by it.
THEOREM StoreImplemented == Spec => ImplementsSettings
<1>1. Init => Store!Init
  <2>. SUFFICES ASSUME Init PROVE Store!Init
    OBVIOUS
  <2>1. Mode = "down" /\ pairs = << >>
    BY DEF Init, Mode
  <2>2. Live = Store!Nothing
    BY <2>1 DEF Live, Store!Nothing, GetValue, Places
  <2>3. Found(file) \in [Keys -> Store!Value \cup {None}]
    BY ConfigInitInv, FoundType, StoreLines DEF IInv, TypeOK
  <2>. QED  BY <2>1, <2>2, <2>3 DEF Store!Init
<1>2. IInv /\ [Next]_vars => [Store!Next]_Store!vars
  <2>1. UNCHANGED vars => UNCHANGED Store!vars
    BY DEF vars, Store!vars, Live, Mode
  <2>. QED  BY <2>1, StoreStep
<1>3. Spec => Store!Spec
  BY <1>1, <1>2, ConfigInvariance, PTL DEF Spec, Store!Spec
<1>. QED  BY <1>3 DEF ImplementsSettings
=============================================================================
