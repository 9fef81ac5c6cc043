---------------------------- MODULE MCPromotions ----------------------------
(***************************************************************************)
(* One Cell, three spend requests and an experiment; a forecast, which is  *)
(* enough for a verdict; a person and a sweep at once, each of them seeing *)
(* up to one row written after it read the time.                           *)
(***************************************************************************)
EXTENDS Promotions, TLC

CONSTANTS g1, g2, g3, x1, c1, a1, a2

MCKindOf == [g \in Grants |-> IF g = x1 THEN "experiment" ELSE "spend_request"]
MCCellOf == [g \in Grants |-> c1]
MCAmountOf == [g \in Grants |-> 1]
MCOwnerOf == [f \in Forecasts |-> c1]
MCChanceOf == [f \in Forecasts |-> 3]
MCRuns ==
  [a \in Allocators |-> IF a = a1 THEN {"operator", "starter"} ELSE {"sweep"}]

MCSymmetry == Permutations(Approved)
=============================================================================
