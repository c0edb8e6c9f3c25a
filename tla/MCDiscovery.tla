---------------------------- MODULE MCDiscovery -----------------------------
(***************************************************************************)
(* Discovery with two handsets of different ids and models, one of them    *)
(* under an older driver.                                                  *)
(***************************************************************************)
EXTENDS Discovery

MCHandsets  == {"desk", "hall"}
MCUniq      == [h \in MCHandsets |-> IF h = "desk" THEN "id1" ELSE "id2"]
MCModelFile == [h \in MCHandsets |-> [name |-> IF h = "desk" THEN "P4K" ELSE "P1K",
                                      starred |-> h = "hall"]]
=============================================================================
