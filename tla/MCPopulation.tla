---------------------------- MODULE MCPopulation ----------------------------
(***************************************************************************)
(* Four births in two epochs, room for three living Cells of which two are *)
(* active, and for one experiment.  The first two have one genome, sell    *)
(* and spend; the third signs deaths and is accused like the fourth; a     *)
(* lineage may hold three quarters of the colony.                          *)
(***************************************************************************)
EXTENDS Population

CONSTANTS c1, c2, c3, c4

MCGenomeOf == [c \in Cells |-> IF c \in {c1, c2} THEN "g1" ELSE "g2"]
MCBudgetOf == [c \in Cells |-> IF c = c1 THEN 2 ELSE 1]
MCDoes ==
  [c \in Cells |-> CASE c = c1 -> {"sells", "predicts"}
                    [] c = c2 -> {"spends", "predicts", "rests"}
                    [] c = c3 -> {"rests", "is accused", "experiments"}
                    [] OTHER -> {"is accused", "experiments"}]
=============================================================================
