------------------------------ MODULE Settings ------------------------------
(***************************************************************************)
(* What the configuration of src/ypconfig.h is to the program: a value for *)
(* each key while it runs, and what a restart will find.  A change is safe *)
(* once a save has run to its end.  A save may break off: of every key     *)
(* there is then its live value, a part of it, or nothing, never what was  *)
(* kept before.                                                            *)
(***************************************************************************)
EXTENDS ConfigLine

CONSTANTS
  Keys,         (* the keys the program uses                               *)
  Standard      (* the values some of them have when nothing is kept       *)

VARIABLES
  live,         (* the values while the program runs                       *)
  kept,         (* the values a start will read                            *)
  mode          (* "down", "safe", "unsafe" or "saving"                    *)

vars == <<live, kept, mode>>

Nothing == [k \in Keys |-> None]

Init == mode = "down" /\ live = Nothing /\ kept \in [Keys -> Value \cup {None}]

Load == /\ mode = "down" /\ UNCHANGED kept
        /\ \/ live' = kept /\ mode' = "safe"
           \/ live' = Nothing /\ mode' = "unsafe"

Change == mode \in {"safe", "unsafe"} /\ mode' = "unsafe" /\ UNCHANGED kept

Complete == /\ Change
            /\ live' = [k \in Keys |-> IF live[k] = None /\ k \in DOMAIN Standard
                                       THEN Standard[k] ELSE live[k]]

Put(k) == Change /\ live'[k] \in Value /\ live' = [live EXCEPT ![k] = live'[k]]

BrokenOff == /\ kept' \in [Keys -> Value \cup {None}]
             /\ \A k \in Keys : kept'[k] \in Remains(live[k])

Save == /\ mode \in {"unsafe", "saving"} /\ mode' \in {"saving", "unsafe"}
        /\ BrokenOff /\ UNCHANGED live

Saved == /\ mode = "saving" /\ mode' = "safe"
         /\ kept = [k \in Keys |-> Restored(live[k])]
         /\ UNCHANGED <<live, kept>>

Die == /\ mode # "down" /\ mode' = "down" /\ live' = Nothing
       /\ UNCHANGED kept \/ (mode = "saving" /\ BrokenOff)

Next == Load \/ Complete \/ (\E k \in Keys : Put(k)) \/ Save \/ Saved \/ Die

Spec == Init /\ [][Next]_vars
=============================================================================
