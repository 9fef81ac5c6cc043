------------------------------ MODULE Delivery ------------------------------
(***************************************************************************)
(* What the event inbox promises, without transactions, workers or         *)
(* crashes (docs/EVENT_SEMANTICS.md): an admitted event takes effect once, *)
(* in the step that finishes it, or is parked after repeated failures and  *)
(* may be readmitted; a finished event is never touched again.             *)
(***************************************************************************)
EXTENDS Naturals

CONSTANT Events

VARIABLES
  state,    \* where each event is
  effects   \* how many times it has taken effect

States == {"absent", "pending", "parked", "finished"}

Init ==
  /\ state = [e \in Events |-> "absent"]
  /\ effects = [e \in Events |-> 0]

Move(e, from, to) == state[e] = from /\ state' = [state EXCEPT ![e] = to]

Admit(e) == Move(e, "absent", "pending") /\ UNCHANGED effects

Finish(e) ==
  /\ Move(e, "pending", "finished")
  /\ effects' = [effects EXCEPT ![e] = @ + 1]

Park(e) == Move(e, "pending", "parked") /\ UNCHANGED effects

Readmit(e) == Move(e, "parked", "pending") /\ UNCHANGED effects

Next == \E e \in Events : Admit(e) \/ Finish(e) \/ Park(e) \/ Readmit(e)

Spec == Init /\ [][Next]_<<state, effects>>
=============================================================================
