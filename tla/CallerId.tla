------------------------------ MODULE CallerId ------------------------------
(***************************************************************************)
(* extract_callernum of src/ylcontrol.c: the number of a caller, in the    *)
(* notation in which this telephone dials it.  The number names the ring   *)
(* tone and the minimum ring time of the caller (ylcontrol.c:204-282), is  *)
(* shown, and is what the green key calls back.                            *)
(*                                                                         *)
(* A string is a sequence of characters: digits as they are, Plus for '+', *)
(* Blank for everything that is neither alphanumeric nor punctuation.      *)
(***************************************************************************)
EXTENDS SequencesExt

CONSTANTS
  Plus,         (* the character '+'                                       *)
  Blank,        (* a character that no number may contain                  *)
  MaxNumber     (* MAX_NUMBER_LEN - 1                                      *)

Truncated(s) == SubSeq(s, 1, IF Len(s) < MaxNumber THEN Len(s) ELSE MaxNumber)

Without(s, prefix) == SubSeq(s, Len(prefix) + 1, Len(s))

\* The number follows a '+' or the international access code, or begins with
\* the own country code.  An access code or country code that is the empty
\* string begins every number.
HasPlus(num)         == num # << >> /\ num[1] = Plus
HasAccess(num, acc)  == ~HasPlus(num) /\ IsPrefix(acc.intl, num)

\* Mutation: a number that begins with the country code itself is left as it is.
InternationalMarked(num, acc) == HasPlus(num) \/ HasAccess(num, acc)

International(num, acc) == HasPlus(num) \/ HasAccess(num, acc) \/ IsPrefix(acc.country, num)

\* The number after the '+' or the access code.
Bare(num, acc) ==
  IF HasPlus(num) THEN Tail(num)
  ELSE IF HasAccess(num, acc) THEN Without(num, acc.intl) ELSE num

Usable(num) == num # << >> /\ \A i \in 1..Len(num) : num[i] # Blank

(***************************************************************************)
(* What one candidate comes to: the empty number when it is not usable.    *)
(* num is without the quotes around it (ylcontrol.c:131-135).              *)
(* acc holds intl_access_code, natl_access_code and country_code.          *)
(***************************************************************************)
Normal(num, acc) ==
  LET bare == Bare(num, acc)
  IN  IF ~Usable(bare) THEN << >>
      ELSE IF ~International(num, acc) THEN Truncated(bare)
      ELSE IF IsPrefix(acc.country, bare)
           THEN Truncated(acc.natl \o Without(bare, acc.country))
           ELSE Truncated(acc.intl \o bare)

\* The user name of the address, its display name, and the whole line are
\* tried in turn until one gives a number.
CallerNumber(candidates, acc) ==
  LET good == {i \in 1..Len(candidates) : Normal(candidates[i], acc) # << >>}
  IN  IF good = {} THEN << >>
      ELSE Normal(candidates[CHOOSE i \in good : \A j \in good : i <= j], acc)

-----------------------------------------------------------------------------
\* The ways to announce number n of a country: with '+' or the access code,
\* and in the own country with the country code alone or the national one.
Notations(n, country, acc) ==
  {<<Plus>> \o country \o n, acc.intl \o country \o n} \cup
  (IF country = acc.country THEN {country \o n, acc.natl \o n} ELSE {})

\* The codes let these be told apart.
Unambiguous(n, country, acc) ==
  /\ Usable(country \o n) /\ ~HasPlus(acc.intl \o country \o n)
  /\ IF country = acc.country
     THEN /\ Usable(acc.natl \o n) /\ ~IsPrefix(country, acc.natl \o n)
          /\ \A c \in {country \o n, acc.natl \o n} : ~HasPlus(c) /\ ~IsPrefix(acc.intl, c)
     ELSE ~IsPrefix(acc.country, country \o n)

\* What this telephone dials.
Dialled(n, country, acc) ==
  Truncated(IF country = acc.country THEN acc.natl \o n ELSE acc.intl \o country \o n)
=============================================================================
