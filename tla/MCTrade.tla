------------------------------- MODULE MCTrade -------------------------------
(***************************************************************************)
(* Two sales of one Cell, the first refunded and charged back, the second  *)
(* paying a fee; half and whole holds, with windows of one and two days;   *)
(* half and whole advances, with and without room for both.  A third sale  *)
(* is another Cell's, which lives.                                         *)
(***************************************************************************)
EXTENDS Trade

MCSellerOf == [s \in Sales |-> IF s = "s3" THEN "c2" ELSE "c1"]
MCAmountOf == [s \in Sales |-> 3]
MCSaleOf == [v \in Reversals |-> "s1"]
MCChargeOf == [f \in Fees |-> IF f = "f1" THEN "s2" ELSE "v2"]
MCReserveTerms == {<<1, 1>>, <<2, 2>>}
MCAdvanceTerms == {<<2, 1>>, <<1, 5>>}
MCFunding == [c \in Cells |-> 1]
=============================================================================
