------------------------------- MODULE Permits -------------------------------
(***************************************************************************)
(* What the review queue promises of a proposal: it acts on the world only *)
(* with a permit, a person gives the permit, and the permit is used once.  *)
(* effects counts what left the colony on it.                              *)
(***************************************************************************)
EXTENDS Naturals

CONSTANT Proposals

VARIABLES permit, effects

Init ==
  /\ permit \in [Proposals -> {"unasked", "granted"}]
  /\ effects = [p \in Proposals |-> 0]

Move(p, from, to) ==
  /\ permit[p] = from
  /\ permit' = [permit EXCEPT ![p] = to]
  /\ UNCHANGED effects

Ask(p) == Move(p, "unasked", "asked")
Grant(p) == Move(p, "asked", "granted")
Refuse(p) == Move(p, "asked", "refused")
Use(p) == Move(p, "granted", "used")

Act(p) ==
  /\ permit[p] = "used" /\ effects[p] = 0
  /\ effects' = [effects EXCEPT ![p] = 1]
  /\ UNCHANGED permit

Next ==
  \E p \in Proposals : Ask(p) \/ Grant(p) \/ Refuse(p) \/ Use(p) \/ Act(p)

Spec == Init /\ [][Next]_<<permit, effects>>
=============================================================================
