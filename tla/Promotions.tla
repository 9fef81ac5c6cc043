----------------------------- MODULE Promotions -----------------------------
(***************************************************************************)
(* How capital moves up the ladder: promotion.py, autopromotion.py,        *)
(* experiment_grants.py, outcome.py and prediction.py, with the slots of   *)
(* experiments.py.                                                         *)
(*                                                                         *)
(* An approved grant moves its amount from the promotion pool to its Cell, *)
(* once, as a live experiment (rung 7), or as an expanded pilot (rung 8)   *)
(* when the Cell's last unexpanded live experiment is borne out by the     *)
(* forecasts that were open when it was funded.  An operator allocates by  *)
(* hand, a sweep unattended while its flag is on.                          *)
(*                                                                         *)
(* An allocator reads the time, and a sweep the flag and the rung, before  *)
(* it takes the write lock; everything else is read inside it.  What is    *)
(* compared is the times of forecasts with the times read by allocators:   *)
(* every forecast registered or resolved moves the clock, so no two are of *)
(* one instant and a time read is that of the last of them.                *)
(***************************************************************************)
EXTENDS Integers, FiniteSets, Sequences, FiniteSetsExt

CONSTANTS
  Cells,
  Grants,       \* approved proposals
  KindOf,       \* "spend_request" or "experiment"
  CellOf,       \* the Cell that proposed
  AmountOf,     \* its estimated_cost_minor_units
  Forecasts,    \* rows of prediction_register
  OwnerOf,      \* the Cell that made one
  ChanceOf,     \* the probability it states, in quarters
  Term,         \* time to a forecast's resolves_by
  Allocators,   \* processes that spend grants
  Runs,         \* what each runs: "operator", "sweep", "starter"
  Ttl,          \* time to a grant's expiry
  MinResolved,  \* MIN_RESOLVED_FOR_A_VERDICT
  MaxParallel,  \* colony_config.max_parallel_experiments
  Funds,        \* amounts an operator puts into the pool
  MaxFunded,    \* bound on what the pool is given
  Approved,     \* bound: the grants there are at the start
  MaxStale,     \* bound on the rows written while an allocator is on its way
  Toggled,      \* bound: the flags an operator changes
  Standings     \* bound: the statuses a Cell takes

ASSUME PromotionsAssumption ==
  /\ IsFiniteSet(Grants) /\ IsFiniteSet(Forecasts) /\ Approved \subseteq Grants
  /\ KindOf \in [Grants -> {"spend_request", "experiment"}]
  /\ CellOf \in [Grants -> Cells] /\ AmountOf \in [Grants -> Nat]
  /\ OwnerOf \in [Forecasts -> Cells] /\ ChanceOf \in [Forecasts -> 1 .. 3]
  /\ Term \in Nat \ {0} /\ Ttl \in Nat \ {0} /\ MinResolved \in Nat \ {0}
  /\ Runs \in [Allocators -> SUBSET {"operator", "sweep", "starter"}]
  /\ MaxParallel \in Nat \ {0} /\ MaxStale \in Nat
  /\ Toggled \subseteq {"auto_promotion", "real_spending"}
  /\ Standings \subseteq {"alive", "dormant", "quarantined", "dead"}
  /\ Funds \subseteq Nat \ {0} /\ MaxFunded \in Nat

VARIABLES
  clock,       \* wall time, in rows of forecasts written
  cell,        \* cells.status
  flags,       \* operator_state: the autonomy flags that are on
  funded,      \* what the operator put into the pool
  pool,        \* promotion_pool
  grant,       \* what became of a grant
  expires,     \* approval_grants.expires_at_utc
  promotions,  \* the promotions table
  forecast,    \* prediction_register
  experiment,  \* the rung of a Cell's running experiment, 0 if none
  proc         \* what an allocator has read and means to do

colony == <<cell, flags>>
capital == <<funded, pool, grant, expires, promotions, experiment>>
vars == <<clock, colony, capital, forecast, proc>>

Autonomy == {"auto_promotion", "real_spending"}
Idle == [kind |-> "idle", now |-> 0, grant |-> 0, rung |-> 0]
Unmade == [made |-> 0, resolved |-> 0, score |-> 0]
Uninformative == 4   \* UNINFORMATIVE_BRIER, in sixteenths
Live == 7            \* LADDER_RUNG_CAPPED_LIVE_EXPERIMENT
Pilot == 8           \* LADDER_RUNG_EXPANDED_PILOT

Init ==
  /\ clock = 0
  /\ cell = [c \in Cells |-> "alive"]
  /\ flags \in SUBSET Autonomy
  /\ funded = 0 /\ pool = 0
  /\ grant = [g \in Grants |-> IF g \in Approved THEN {"granted"} ELSE {}]
  /\ expires = [g \in Grants |-> IF g \in Approved THEN Ttl ELSE 0]
  /\ promotions = <<>>
  /\ forecast = [f \in Forecasts |-> Unmade]
  /\ experiment = [c \in Cells |-> 0]
  /\ proc = [a \in Allocators |-> Idle]

Stamp ==
  /\ \A a \in Allocators :
       proc[a].kind # "idle" => clock < proc[a].now + MaxStale
  /\ clock' = clock + 1

-----------------------------------------------------------------------------
(* prediction.py: registered before its outcome, resolved once. *)

BrierScore(f, occurred) ==
  LET o == IF occurred THEN 4 ELSE 0 IN (ChanceOf[f] - o) * (ChanceOf[f] - o)

Register(f) ==
  /\ forecast[f] = Unmade
  /\ Stamp
  /\ forecast' = [forecast EXCEPT ![f].made = clock']
  /\ UNCHANGED <<colony, capital, proc>>

MayResolve(f) == forecast[f].made > 0 /\ forecast[f].resolved = 0

Resolve(f, occurred) ==
  /\ MayResolve(f)
  /\ Stamp
  /\ forecast' = [forecast EXCEPT ![f].resolved = clock',
                                  ![f].score = BrierScore(f, occurred)]
  /\ UNCHANGED <<colony, capital, proc>>

Overdue(f) ==
  /\ forecast[f].made > 0 /\ forecast[f].resolved = 0
  /\ forecast[f].made + Term < clock

-----------------------------------------------------------------------------
(* outcome.py: what the forecasts say of a promotion. *)

\* Mutant: forecasts made while funded are judged too.
OpenSince(c, instant) ==
  {f \in Forecasts :
     /\ OwnerOf[f] = c /\ forecast[f].made > 0
     /\ forecast[f].resolved = 0 \/ forecast[f].resolved > instant}

OpenAt(c, instant) ==
  {f \in Forecasts :
     /\ OwnerOf[f] = c /\ forecast[f].made \in 1 .. instant
     /\ forecast[f].resolved = 0 \/ forecast[f].resolved > instant}

Scores(fs) ==
  LET done == {f \in fs : forecast[f].resolved > 0}
  IN [total |-> SumFunctionOnSet([f \in Forecasts |-> forecast[f].score], done),
      count |-> Cardinality(done)]

FundedOn(i) == OpenAt(promotions[i].cell, promotions[i].at)

\* Withheld evidence first, then too little of it, then both calibrations.
Supports(i) ==
  LET seen == Scores(FundedOn(i))
      baseline == promotions[i].baseline
  IN /\ \A f \in FundedOn(i) : ~Overdue(f)
     /\ seen.count >= MinResolved
     /\ seen.total * baseline.count <= baseline.total * seen.count
     /\ seen.total < Uninformative * seen.count

-----------------------------------------------------------------------------
(* promotion.py *)

FundPool(amount) ==
  /\ funded + amount <= MaxFunded
  /\ funded' = funded + amount
  /\ pool' = pool + amount
  /\ UNCHANGED <<clock, colony, grant, expires, promotions, experiment, forecast,
                 proc>>

Superseded == {promotions[i].supersedes : i \in DOMAIN promotions}

Unexpanded(c) ==
  {i \in DOMAIN promotions :
     /\ promotions[i].cell = c /\ promotions[i].rung = Live
     /\ i \notin Superseded}

\* The latest by created_at_utc, which a stale time can make the same for two.
LatestUnexpanded(c) ==
  {i \in Unexpanded(c) :
     \A j \in Unexpanded(c) : promotions[j].at <= promotions[i].at}

\* Mutant: a grant once approved stays good.
WasGranted(g, now) == "granted" \in grant[g] /\ now < expires[g]

\* Not consumed, and not expired at the time the process read.
IsOpen(g, now) ==
  "granted" \in grant[g] /\ "consumed" \notin grant[g] /\ now < expires[g]

\* Mutant: whatever the pool holds.
IsRequest(g) == AmountOf[g] > 0

PoolCovers(g) == AmountOf[g] > 0 /\ pool >= AmountOf[g]

\* Mutant: the flag was read when the sweep began.
HeldBefore(a) == proc[a].kind = "sweep" => proc[a].now <= clock

FlagHolds(a) == proc[a].kind = "sweep" => "auto_promotion" \in flags

MayReceive(a, c) ==
  /\ cell[c] \in {"alive", "dormant"}
  /\ "real_spending" \in flags
  /\ FlagHolds(a)

\* What a promotion may expand: nothing for a live experiment.
Predecessors(c, rung) ==
  IF rung = Live THEN {0} ELSE {i \in LatestUnexpanded(c) : Supports(i)}

Allocate(a) ==
  LET g == proc[a].grant
      c == CellOf[g]
      rung == proc[a].rung
  IN /\ proc[a].kind \in {"operator", "sweep"} /\ rung # 0
     /\ IsOpen(g, proc[a].now)
     /\ MayReceive(a, c)
     /\ PoolCovers(g)
     /\ \E i \in Predecessors(c, rung) :
          promotions' = Append(promotions,
            [grant |-> g, cell |-> c, rung |-> rung, at |-> proc[a].now,
             supersedes |-> i, auto |-> proc[a].kind = "sweep",
             baseline |-> Scores({f \in Forecasts : OwnerOf[f] = c}),
             evidence |-> IF i = 0 THEN Scores({}) ELSE Scores(FundedOn(i))])
     /\ pool' = pool - AmountOf[g]
     /\ grant' = [grant EXCEPT ![g] = @ \cup {"consumed"}]
     /\ proc' = [proc EXCEPT ![a].rung = 0]
     /\ UNCHANGED <<clock, colony, funded, expires, experiment, forecast>>

-----------------------------------------------------------------------------
(* What an allocator reads before its transaction.  A call for a grant of    *)
(* another kind is refused, and left out.                                    *)

EntitledRung(c) ==
  IF \E i \in LatestUnexpanded(c) : Supports(i) THEN Pilot ELSE Live

\* The operator names the grant; the rung is derived, never typed.
BeginByHand(a, g) ==
  /\ proc[a].kind = "idle"
  /\ KindOf[g] = "spend_request"
  /\ proc' = [proc EXCEPT ![a] = [kind |-> "operator", now |-> clock, grant |-> g,
                                  rung |-> EntitledRung(CellOf[g])]]
  /\ UNCHANGED <<clock, colony, capital, forecast>>

\* autopromotion.sweep: one time and one reading of the flag for the whole pass.
BeginSweep(a) ==
  /\ proc[a].kind = "idle"
  /\ "auto_promotion" \in flags
  /\ proc' = [proc EXCEPT ![a] = [Idle EXCEPT !.kind = "sweep", !.now = clock]]
  /\ UNCHANGED <<clock, colony, capital, forecast>>

\* The sweep's next allocatable grant, of a Cell that is alive.
Judge(a, g) ==
  /\ proc[a].kind = "sweep" /\ proc[a].rung = 0
  /\ KindOf[g] = "spend_request" /\ IsOpen(g, proc[a].now)
  /\ cell[CellOf[g]] = "alive"
  /\ proc' = [proc EXCEPT ![a].grant = g, ![a].rung = EntitledRung(CellOf[g])]
  /\ UNCHANGED <<clock, colony, capital, forecast>>

\* The call is refused, or done, or its process dies; a sweep may go on.
Leave(a) ==
  /\ proc[a].kind # "idle"
  /\ \/ proc' = [proc EXCEPT ![a] = Idle]
     \/ proc[a].kind = "sweep" /\ proc' = [proc EXCEPT ![a].rung = 0]
  /\ UNCHANGED <<clock, colony, capital, forecast>>

-----------------------------------------------------------------------------
(* experiment_grants.py *)

BeginStart(a, g) ==
  /\ proc[a].kind = "idle"
  /\ KindOf[g] = "experiment"
  /\ proc' = [proc EXCEPT ![a] = [kind |-> "starter", now |-> clock,
                                  grant |-> g, rung |-> 0]]
  /\ UNCHANGED <<clock, colony, capital, forecast>>

RungsOf(c) ==
  {promotions[i].rung : i \in {j \in DOMAIN promotions : promotions[j].cell = c}}

EntitledToRun(c) == Max({1} \cup RungsOf(c))

\* The refusals of _start_locked leave the grant as it was.
StartFromGrant(a) ==
  LET g == proc[a].grant
      c == CellOf[g]
  IN /\ proc[a].kind = "starter"
     /\ IsOpen(g, proc[a].now)
     /\ cell[c] = "alive" /\ experiment[c] = 0
     /\ Cardinality({d \in Cells : experiment[d] > 0}) < MaxParallel
     /\ experiment' = [experiment EXCEPT ![c] = EntitledToRun(c)]
     /\ grant' = [grant EXCEPT ![g] = @ \cup {"consumed"}]
     /\ proc' = [proc EXCEPT ![a] = Idle]
     /\ UNCHANGED <<clock, colony, funded, pool, expires, promotions, forecast>>

Conclude(c) ==
  /\ experiment[c] > 0
  /\ experiment' = [experiment EXCEPT ![c] = 0]
  /\ UNCHANGED <<clock, colony, funded, pool, grant, expires, promotions,
                 forecast, proc>>

-----------------------------------------------------------------------------
(* Around it: approval.py grants and lets grants lapse, operators set flags, *)
(* Cells sleep, are quarantined and die.                                     *)

Approve(g) ==
  /\ grant[g] = {}
  /\ grant' = [grant EXCEPT ![g] = {"granted"}]
  /\ expires' = [expires EXCEPT ![g] = clock + Ttl]
  /\ UNCHANGED <<clock, colony, funded, pool, promotions, experiment, forecast,
                 proc>>

\* expire_grants_due; the allocators read only consumed_at_utc and the expiry.
Lapse(g) ==
  /\ grant[g] = {"granted"} /\ expires[g] <= clock
  /\ grant' = [grant EXCEPT ![g] = @ \cup {"expired"}]
  /\ UNCHANGED <<clock, colony, funded, pool, expires, promotions, experiment,
                 forecast, proc>>

SetAutonomy(flag) ==
  /\ flags' = IF flag \in flags THEN flags \ {flag} ELSE flags \cup {flag}
  /\ UNCHANGED <<clock, cell, capital, forecast, proc>>

\* A death abandons the Cell's experiment.
ChangeStatus(c, status) ==
  /\ cell[c] # "dead" /\ status # cell[c]
  /\ cell' = [cell EXCEPT ![c] = status]
  /\ experiment' = IF status = "dead" THEN [experiment EXCEPT ![c] = 0]
                   ELSE experiment
  /\ UNCHANGED <<clock, flags, funded, pool, grant, expires, promotions, forecast,
                 proc>>

-----------------------------------------------------------------------------
(* The verbs of cli.py; an allocation, a sweep and a start from a grant are  *)
(* processes that read first and write later.                                *)

cmd_allocate(a) == "operator" \in Runs[a] /\ \E g \in Grants : BeginByHand(a, g)

cmd_auto_promote(a) == "sweep" \in Runs[a] /\ BeginSweep(a)

\* With --grant, which names the Cell and takes no rung.
cmd_start_experiment(a) ==
  "starter" \in Runs[a] /\ \E g \in Grants : BeginStart(a, g)

cmd_conclude_experiment == \E c \in Cells : Conclude(c)

cmd_fund_pool == \E amount \in Funds : FundPool(amount)

cmd_set_autonomy == \E flag \in Toggled : SetAutonomy(flag)

cmd_predict == \E f \in Forecasts : Register(f)

cmd_resolve_prediction ==
  \E f \in Forecasts, occurred \in BOOLEAN : Resolve(f, occurred)

Next ==
  \/ cmd_fund_pool \/ cmd_set_autonomy \/ cmd_conclude_experiment
  \/ cmd_predict \/ cmd_resolve_prediction
  \/ \E a \in Allocators :
       \/ cmd_allocate(a) \/ cmd_auto_promote(a) \/ cmd_start_experiment(a)
       \/ Allocate(a) \/ Leave(a) \/ StartFromGrant(a)
       \/ \E g \in Grants : Judge(a, g)
  \/ \E g \in Grants : Approve(g) \/ Lapse(g)
  \/ \E c \in Cells, s \in Standings : ChangeStatus(c, s)

Spec == Init /\ [][Next]_vars

-----------------------------------------------------------------------------
Score == [total : Nat, count : Nat]
Promotion ==
  [grant : Grants, cell : Cells, rung : {Live, Pilot}, at : Nat,
   supersedes : Nat, auto : BOOLEAN, baseline : Score, evidence : Score]

\* The pool's balance and the rows of the tables.
TypeOK ==
  /\ clock \in Nat
  /\ cell \in [Cells -> {"alive", "dormant", "quarantined", "dead"}]
  /\ flags \subseteq Autonomy
  /\ funded \in Nat /\ pool \in Nat
  /\ grant \in [Grants -> SUBSET {"granted", "consumed", "expired"}]
  /\ expires \in [Grants -> Nat]
  /\ promotions \in Seq(Promotion)
  /\ forecast \in [Forecasts -> [made : Nat, resolved : Nat,
                                  score : Nat]]
  /\ experiment \in [Cells -> Nat]
  /\ proc \in [Allocators ->
               [kind : {"idle", "operator", "sweep", "starter"},
                now : Nat, grant : Grants \cup {0},
                rung : {0, Live, Pilot}]]

\* The pool is a ceiling: what was given out is what it no longer has, and no
\* grant is paid twice, whoever retries it and whichever allocators race for it
\* (promotion._allocate_locked).
PoolIsACeiling ==
  /\ pool + SumFunctionOnSet(
              [i \in DOMAIN promotions |-> AmountOf[promotions[i].grant]],
              DOMAIN promotions) = funded
  /\ \A i, j \in DOMAIN promotions :
       i # j => promotions[i].grant # promotions[j].grant

\* An expanded pilot stands on a live experiment of the same Cell that nothing
\* else stands on, and on forecasts made before that experiment was funded
\* which beat knowing nothing (outcome.assess, migration 0030).
PilotsAreEarned ==
  \A i \in DOMAIN promotions : promotions[i].rung = Pilot =>
    LET j == promotions[i].supersedes
        e == promotions[i].evidence
    IN /\ j \in 1 .. i - 1
       /\ promotions[j].rung = Live /\ promotions[j].cell = promotions[i].cell
       /\ \A k \in DOMAIN promotions : k # i => promotions[k].supersedes # j
       /\ e.count \in MinResolved .. Cardinality(
            {f \in Forecasts : /\ OwnerOf[f] = promotions[i].cell
                               /\ forecast[f].made \in 1 .. promotions[j].at})
       /\ e.total < Uninformative * e.count

\* Capital reaches only a Cell that may receive it, and an unattended promotion
\* only while its flag is on: a sweep that outlives the flag, or the Cell's
\* standing, is stopped (promotion._allocate_locked).
CapitalMovesByConsent ==
  [][Len(promotions') > Len(promotions) =>
       LET p == promotions'[Len(promotions')]
       IN /\ cell[p.cell] \notin {"quarantined", "dead"}
          /\ "real_spending" \in flags
          /\ p.auto => "auto_promotion" \in flags]_vars
=============================================================================
