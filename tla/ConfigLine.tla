----------------------------- MODULE ConfigLine -----------------------------
(***************************************************************************)
(* How src/ypconfig.c turns a value into the text of a line of the         *)
(* configuration file and back, and what is left of it when the line was   *)
(* not written to its end.                                                 *)
(*                                                                         *)
(* A value is its text without the pairs of quotes that enclose it, the    *)
(* number of these pairs, and whether it has a blank in it or begins with  *)
(* '=', so that it needs quotes in the file.  Blanks around a value and    *)
(* the '=' before it, which reading skips, are not part of it.             *)
(***************************************************************************)
EXTENDS SequencesExt

CONSTANTS
  Char,         (* the characters values consist of                        *)
  Quote,        (* one of them: '"'                                        *)
  None          (* what a key without a pair has for a value               *)

Value == [text : Seq(Char), spaced : BOOLEAN, quotes : Nat]

ASSUME LineAssumption == Quote \in Char /\ None \notin Value

\* ypconfig_write
Format(v) == IF v.spaced THEN [v EXCEPT !.quotes = @ + 1] ELSE v

\* Mutation: the first and last character are taken off whatever they are.
ParseBlindly(w) == [w EXCEPT !.quotes = @ - 1]

\* ypconfig_read takes one pair of quotes off.  spaced stays as it was, which is not
\* so for a value like '"=x"': without its own quotes it would need those of the
\* file (ypconfig.c:226).  Such a value is Enclosed, which no property speaks of.
Parse(w) == IF w.quotes > 0 THEN [w EXCEPT !.quotes = @ - 1] ELSE w

\* Written and read again.
Restored(v) == IF v = None THEN None ELSE Parse(Format(v))

\* The quotes are the value's own and the file has no others to take off.
Enclosed(v) == v # None /\ v.quotes > 0 /\ ~v.spaced

(***************************************************************************)
(* The written value w, or the beginning of it: without the quote that     *)
(* ends it, the one that begins it is a character like any other.          *)
(***************************************************************************)
Cut(w) ==
  {w} \cup {[text |-> (IF w.quotes > 0 THEN <<Quote>> ELSE << >>) \o p, spaced |-> s, quotes |-> 0] :
              p \in Prefixes(w.text), s \in {FALSE, w.spaced}}

\* What reading may find of v after its line was cut off.
Remains(v) == IF v = None THEN {None} ELSE {None} \cup {Parse(w) : w \in Cut(Format(v))}
=============================================================================
