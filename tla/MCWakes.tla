------------------------------- MODULE MCWakes -------------------------------
(***************************************************************************)
(* One Cell.  Cron reruns one tick over two epochs, so that a wake         *)
(* outlives its epoch and spending can accelerate; or two ticks overlap on *)
(* the one wake of an epoch; or that wake has one of the three workflows.  *)
(* A call settles 1 and the alarm is at 1: a repair breaches it.           *)
(***************************************************************************)
EXTENDS Wakes

CONSTANTS c1, t1, t2

OneCell == <<c1>>

Once(ts) == [t \in Ticks |-> IF t \in ts THEN {0} ELSE {}]

Does(schedule, structure, fates) ==
  [schedule |-> schedule, structure |-> [c \in Cells |-> structure], fates |-> fates]

MCSetups ==
  {Does([t \in Ticks |-> IF t = t1 THEN {0, 1} ELSE {}], "single_pass",
        {"alive", "dormant", "dead"}),
   Does(Once(Ticks), "single_pass", {}),
   Does(Once({t1}), "iterative_refinement", {"alive", "quarantined"}),
   Does(Once({t1}), "parallel_review", {"alive", "quarantined"}),
   Does(Once({t1}), "self_critique_loop", {"alive", "quarantined"})}
=============================================================================
