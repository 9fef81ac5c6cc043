------------------------- MODULE MCFlightSimulator -------------------------
(***************************************************************************)
(* Two founders, four epochs and one slot: every selection policy on one  *)
(* market and one on the other, undisturbed and under each drill; a sliver *)
(* that a founder has used up after three of the epochs.                   *)
(***************************************************************************)
EXTENDS FlightSimulator

On(policy, market, static) ==
  [policy |-> policy, market |-> market, static |-> static]

MCArms ==
  {On(p, "utility_maximizing_market", FALSE) : p \in Policies}
  \cup {On("staged_funding", "rule_based_market", TRUE)}

MCDrills ==
  {[crash |-> Never, hook |-> "none", at |-> Never],
   [crash |-> 0, hook |-> "none", at |-> Never],
   [crash |-> Never, hook |-> "kill", at |-> 0],
   [crash |-> Never, hook |-> "withdraw", at |-> 1]}

\* A workflow of three calls, a parallel review.
MCCalls == [o \in Offers |-> IF o = 0 THEN 1 ELSE 3]

MCNoise == {-50, 50}
=============================================================================
