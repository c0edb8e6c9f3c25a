------------------------------ MODULE MCConfig ------------------------------
(***************************************************************************)
(* Config with the telephone of an Austrian user: the files it may start   *)
(* with, and the numbers that get stored.                                  *)
(***************************************************************************)
EXTENDS Config

MCChar == 0..12

Number(t)  == [text |-> t, spaced |-> FALSE, quotes |-> 0]
InQuotes(t) == [text |-> t, spaced |-> FALSE, quotes |-> 1]
Spaced(t)  == [text |-> t, spaced |-> TRUE, quotes |-> 0]

MCStoreValues == {Number(<<1, 2>>), InQuotes(<<3>>)}

Austria == << [key |-> Intl, val |-> Number(<<0, 0>>)],
              [key |-> Country, val |-> InQuotes(<<4, 3>>)],
              [key |-> Natl, val |-> Number(<<0>>)] >>

\* No file; a complete one; one where a key occurs twice and a value in
\* quotes has a blank; one with a code missing.
MCFiles ==
  { << >>, Austria,
    Austria \o << [key |-> "mem1", val |-> FormatLine([key |-> "mem1", val |-> Spaced(<<5, 6>>)]).val],
                  [key |-> "mem1", val |-> Number(<<7>>)] >>,
    SubSeq(Austria, 1, 2) }

MCLocals == {<<1>>, <<4, 3, 1>>}

MCCountries == {<<9>>}
=============================================================================
