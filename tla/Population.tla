----------------------------- MODULE Population -----------------------------
(***************************************************************************)
(* Who lives: lifecycle.py, population.py, lineage.py, displacement.py,    *)
(* death.py and the slots of experiments.py.                               *)
(*                                                                         *)
(* A birth needs room in the epoch, in the colony and, for a child, in its *)
(* lineage; it may make room by evicting one failing Cell in the same      *)
(* transaction.  A reaper reads who is failing and kills in a later        *)
(* transaction; a death on an estimate is signed in one transaction and    *)
(* carried out in another.  Every death closes the Cell's experiment and   *)
(* empties its cash.                                                       *)
(*                                                                         *)
(* An id stands for a birth and its idempotency key: a birth repeated, or  *)
(* racing itself, changes nothing (the loser is rolled back, with whatever *)
(* it evicted).  What a Cell earns, spends and predicts is kept as far as  *)
(* the death criteria read it; the Cells live in one book.                 *)
(***************************************************************************)
EXTENDS Integers, FiniteSets, Sequences, Functions

CONSTANTS
  Cells,        \* births that may be asked for
  Auditors,     \* the ones asking for a Cell of type auditor or immune
  GenomeOf,     \* the genome each is born with
  BudgetOf,     \* what each is funded with
  NoCell,       \* no displaced Cell
  MaxLiving,    \* colony_config.max_living_cells
  MaxActive,    \* colony_config.max_active_cells
  MaxBirths,    \* colony_config.max_births_per_epoch
  LineageShare, \* colony_config.max_lineage_population_fraction, a percentage
  MaxParallel,  \* colony_config.max_parallel_experiments
  MaxGain,      \* bound on what is sold, and on what is spent
  Does,         \* bound: what each Cell does once born, out of Doings
  MaxWarrants,  \* bound on the processes about to kill
  MaxEpoch      \* bound on the epochs

Doings == {"rests", "spends", "sells", "predicts", "experiments", "is accused"}

\* What a colony may be.
PopulationConstants ==
  /\ IsFiniteSet(Cells)
  /\ Auditors \subseteq Cells
  /\ Does \in [Cells -> SUBSET Doings]
  /\ BudgetOf \in [Cells -> Nat \ {0}]
  /\ NoCell \notin Cells
  /\ MaxLiving \in Nat \ {0} /\ MaxActive \in Nat \ {0}
  /\ MaxBirths \in Nat \ {0} /\ LineageShare \in 0 .. 100
  /\ MaxParallel \in Nat \ {0}
  /\ MaxGain \in Nat /\ MaxWarrants \in Nat /\ MaxEpoch \in Nat

ASSUME PopulationAssumption == PopulationConstants

VARIABLES
  epoch,     \* the current epoch of simulated time
  order,     \* the cells table in rowid order
  cell,      \* cells.status
  founder,   \* cells.founder_cell_id
  bornIn,    \* cells.born_in_epoch
  cash,      \* a Cell's cash
  committed, \* whether it has an operation in flight, of value 1
  held,      \* its sale money still set aside
  revenue,   \* its net revenue
  spend,     \* what it has consumed
  brier,     \* the mean Brier score of its resolved predictions
  running,   \* whether it runs an experiment
  warrants,  \* kills decided on and not yet carried out
  signed,    \* negative_ev_death_concurred events, <<subject, auditor>>
  cause      \* coroner_reports.cause_of_death

people == <<epoch, order, cell, founder, bornIn>>
books == <<cash, committed, held, revenue, spend, brier>>
deaths == <<warrants, signed, cause>>
vars == <<people, books, running, deaths>>

Statuses == {"unborn", "alive", "dormant", "quarantined", "dead"}
Findings == {"budget_exhausted", "dominated"}
Causes == Findings \cup {"negative_ev", "displaced"}
Unscored == 2  \* worse than any score, for a Cell with no resolved prediction

Init ==
  /\ epoch = 0
  /\ order = <<>>
  /\ cell = [c \in Cells |-> "unborn"]
  /\ founder = [c \in Cells |-> c]
  /\ bornIn = [c \in Cells |-> 0]
  /\ cash = [c \in Cells |-> 0]
  /\ committed = [c \in Cells |-> 0]
  /\ held = [c \in Cells |-> 0]
  /\ revenue = [c \in Cells |-> 0]
  /\ spend = [c \in Cells |-> 0]
  /\ brier = [c \in Cells |-> Unscored]
  /\ running = {}
  /\ warrants = {}
  /\ signed = {}
  /\ cause = [c \in Cells |-> "none"]

Living(status) == {c \in Cells : status[c] \in {"alive", "dormant", "quarantined"}}
Active(status) == {c \in Cells : status[c] = "alive"}
Dead(c) == [cell EXCEPT ![c] = "dead"]

-----------------------------------------------------------------------------
(* death.py: who is failing. *)

BudgetExhausted(c) == cash[c] <= 0 /\ committed[c] = 0 /\ held[c] <= 0

NetContribution(c) == revenue[c] - spend[c]

HasRealisedRecord(c) == spend[c] # 0 \/ revenue[c] # 0 \/ brier[c] # Unscored

\* At least as good on what both are measured on, better on something.
Dominates(b, w) ==
  LET scored == brier[b] # Unscored /\ brier[w] # Unscored
  IN /\ HasRealisedRecord(b) /\ HasRealisedRecord(w)
     /\ NetContribution(b) >= NetContribution(w)
     /\ scored => brier[b] <= brier[w]
     /\ \/ NetContribution(b) > NetContribution(w)
        \/ scored /\ brier[b] < brier[w]

DominatedByNearDuplicate(c) ==
  \E p \in Living(cell) \ {c} : GenomeOf[p] = GenomeOf[c] /\ Dominates(p, c)

\* The first of a living Cell's findings, which becomes its cause of death.
Finding(c) ==
  CASE BudgetExhausted(c) -> "budget_exhausted"
    [] ~BudgetExhausted(c) /\ DominatedByNearDuplicate(c) -> "dominated"
    [] OTHER -> "none"

-----------------------------------------------------------------------------
(* population.py and displacement.py: the licence to be born. *)

\* Mutant: the dead no longer count.
LivingBirthsInEpoch == {c \in Living(cell) : bornIn[c] = epoch}

BirthsInEpoch == {c \in Range(order) : bornIn[c] = epoch}

BindingCaps(status) ==
  {cap \in {"living", "active"} :
     IF cap = "living" THEN Cardinality(Living(status)) >= MaxLiving
     ELSE Cardinality(Active(status)) >= MaxActive}

HasFundsCommitted(c) == committed[c] # 0

\* Mutant: an operation in flight does not spare its Cell.
AnyoneFailing(requireActive, exclude) ==
  {c \in Living(cell) \ exclude :
     /\ requireActive => cell[c] = "alive"
     /\ Finding(c) # "none"}

Candidates(requireActive, exclude) ==
  {c \in Living(cell) \ exclude :
     /\ requireActive => cell[c] = "alive"
     /\ ~HasFundsCommitted(c)
     /\ Finding(c) # "none"}

\* The one of them with the lowest rowid; no one, of none.
FirstBorn(cells) ==
  {c \in cells :
     \E i \in DOMAIN order :
       order[i] = c /\ \A j \in 1 .. i - 1 : order[j] \notin cells}

\* Whom a birth displaces: NoCell if there is room, no one if it must wait.
BirthLicence(displacer, exclude) ==
  LET caps == BindingCaps(cell)
      eligible == Candidates("active" \in caps, exclude)
  IN IF Cardinality(BirthsInEpoch) >= MaxBirths THEN {}
     ELSE IF caps = {} THEN {NoCell}
     ELSE IF ~displacer THEN {}
     ELSE {v \in FirstBorn(eligible) : BindingCaps(Dead(v)) = {}}

After(v) == IF v = NoCell THEN cell ELSE Dead(v)

Lineage(status, f) == {c \in Living(status) : founder[c] = f}

\* Mutant: counted before the eviction.
LicensedBefore(f, v) ==
  100 * (Cardinality(Lineage(cell, f)) + 1)
    <= LineageShare * (Cardinality(Living(cell)) + 1)

\* Counted after the eviction, which raises every surviving lineage's share.
LineageLicensed(f, v) ==
  100 * (Cardinality(Lineage(After(v), f)) + 1)
    <= LineageShare * (Cardinality(Living(After(v))) + 1)

\* The estate of v: what cash it has; a debt is left to be seen.
CashAfter(v) ==
  IF v = NoCell THEN cash ELSE [cash EXCEPT ![v] = IF @ > 0 THEN 0 ELSE @]

\* Mutant: a death that does not close the experiment.
LeftRunning(v) == running

RunningAfter(v) == running \ {v}

\* _kill_locked: the experiment is abandoned, the report filed, the cash taken.
Bury(v, why) ==
  /\ cause' = IF v = NoCell THEN cause ELSE [cause EXCEPT ![v] = why]
  /\ running' = RunningAfter(v)

Born(c, f, v) ==
  /\ order' = Append(order, c)
  /\ cell' = [After(v) EXCEPT ![c] = "alive"]
  /\ founder' = [founder EXCEPT ![c] = f]
  /\ bornIn' = [bornIn EXCEPT ![c] = epoch]
  /\ Bury(v, "displaced")
  /\ UNCHANGED <<epoch, committed, held, revenue, spend, brier, warrants, signed>>

-----------------------------------------------------------------------------
(* Births. *)

\* Mutant: what is committed is counted as if it were cash.
HasFundsToo(p, c) == cash[p] + committed[p] >= BudgetOf[c]

CanFund(p, c) == cash[p] >= BudgetOf[c]

CreateCell(c, displacer) ==
  \E v \in BirthLicence(displacer, {}) :
    /\ cell[c] = "unborn"
    /\ Born(c, c, v)
    /\ cash' = [CashAfter(v) EXCEPT ![c] = BudgetOf[c]]

\* The parent pays, and is never the one evicted.
Reproduce(c, p, displacer) ==
  \E v \in BirthLicence(displacer, {p}) :
    /\ cell[c] = "unborn" /\ cell[p] = "alive"
    /\ LineageLicensed(founder[p], v)
    /\ CanFund(p, c)
    /\ Born(c, founder[p], v)
    /\ cash' = [CashAfter(v) EXCEPT ![c] = BudgetOf[c], ![p] = @ - BudgetOf[c]]

TurnEpoch ==
  /\ epoch < MaxEpoch
  /\ epoch' = epoch + 1
  /\ UNCHANGED <<order, cell, founder, bornIn, books, running, deaths>>

-----------------------------------------------------------------------------
(* Lifecycle transitions: none of them consults a cap. *)

Transition(c, sources, target) ==
  /\ "rests" \in Does[c]
  /\ cell[c] \in sources
  /\ cell' = [cell EXCEPT ![c] = target]
  /\ UNCHANGED <<epoch, order, founder, bornIn, books, running, deaths>>

Sleep(c) == Transition(c, {"alive"}, "dormant")
Wake(c) == Transition(c, {"dormant"}, "alive")
Quarantine(c) == Transition(c, {"alive", "dormant"}, "quarantined")
ClearQuarantine(c) ==
  \E target \in {"alive", "dormant"} : Transition(c, {"quarantined"}, target)

-----------------------------------------------------------------------------
(* What the criteria read. *)

Commit(c) ==
  /\ "spends" \in Does[c]
  /\ cell[c] = "alive" /\ committed[c] = 0 /\ cash[c] > 0
  /\ cash' = [cash EXCEPT ![c] = @ - 1]
  /\ committed' = [committed EXCEPT ![c] = 1]
  /\ UNCHANGED <<people, held, revenue, spend, brier, running, deaths>>

\* Consumed, or found not to have happened; the Cell may have died meanwhile.
Resolve(c, consumed) ==
  /\ committed[c] = 1
  /\ committed' = [committed EXCEPT ![c] = 0]
  /\ IF consumed
     THEN spend' = [spend EXCEPT ![c] = @ + 1] /\ UNCHANGED cash
     ELSE cash' = [cash EXCEPT ![c] = @ + 1] /\ UNCHANGED spend
  /\ consumed => spend[c] < MaxGain
  /\ UNCHANGED <<people, held, revenue, brier, running, deaths>>

\* A sale whose proceeds are held until it can no longer be refunded.
Sell(c) ==
  /\ "sells" \in Does[c]
  /\ cell[c] = "alive" /\ revenue[c] < MaxGain
  /\ revenue' = [revenue EXCEPT ![c] = @ + 1]
  /\ held' = [held EXCEPT ![c] = @ + 1]
  /\ UNCHANGED <<people, cash, committed, spend, brier, running, deaths>>

Refund(c) ==
  /\ held[c] > 0
  /\ revenue' = [revenue EXCEPT ![c] = @ - 1]
  /\ held' = [held EXCEPT ![c] = @ - 1]
  /\ UNCHANGED <<people, cash, committed, spend, brier, running, deaths>>

ReleaseHold(c) ==
  /\ held[c] > 0
  /\ held' = [held EXCEPT ![c] = 0]
  /\ cash' = [cash EXCEPT ![c] = @ + held[c]]
  /\ UNCHANGED <<people, committed, revenue, spend, brier, running, deaths>>

ResolvePrediction(c, score) ==
  /\ "predicts" \in Does[c]
  /\ cell[c] # "unborn" /\ brier[c] = Unscored
  /\ brier' = [brier EXCEPT ![c] = score]
  /\ UNCHANGED <<people, cash, committed, held, revenue, spend, running, deaths>>

\* reclaim_settled_estates: what came back to a dead Cell since its death.
ReclaimSettledEstate(c) ==
  /\ cell[c] = "dead" /\ cash[c] > 0
  /\ cash' = CashAfter(c)
  /\ UNCHANGED <<people, committed, held, revenue, spend, brier, running, deaths>>

-----------------------------------------------------------------------------
(* Experiments. *)

RunningCount == Cardinality(running)

StartExperiment(c) ==
  /\ cell[c] = "alive"
  /\ RunningCount < MaxParallel
  /\ c \notin running
  /\ running' = running \cup {c}
  /\ UNCHANGED <<people, books, deaths>>

ConcludeExperiment(c) ==
  /\ c \in running
  /\ running' = running \ {c}
  /\ UNCHANGED <<people, books, deaths>>

-----------------------------------------------------------------------------
(* Deaths.  A warrant is a process between what it read and its kill. *)

Find(c) ==
  /\ Cardinality(warrants) < MaxWarrants
  /\ c \in Living(cell) /\ Finding(c) # "none"
  /\ warrants' = warrants \cup {<<c, Finding(c)>>}
  /\ UNCHANGED <<people, books, running, signed, cause>>

MayConcur(a, c) == a # c /\ cell[a] = "alive" /\ a \in Auditors

Concur(c, a) ==
  /\ "is accused" \in Does[c] /\ Cardinality(warrants) < MaxWarrants
  /\ cell[c] # "unborn"
  /\ MayConcur(a, c)
  /\ signed' = signed \cup {<<c, a>>}
  /\ warrants' = warrants \cup {<<c, "negative_ev">>}
  /\ UNCHANGED <<people, books, running, cause>>

\* The status is read again, the finding is not; the dead are refused.
Kill(c, why) ==
  /\ <<c, why>> \in warrants
  /\ warrants' = warrants \ {<<c, why>>}
  /\ IF c \in Living(cell)
     THEN /\ cell' = Dead(c)
          /\ cash' = CashAfter(c)
          /\ Bury(c, why)
     ELSE UNCHANGED <<cell, cash, cause, running>>
  /\ UNCHANGED <<epoch, order, founder, bornIn, committed, held, revenue, spend, brier,
                 signed>>

\* The process ends between the two.
Crash(w) ==
  /\ w \in warrants
  /\ warrants' = warrants \ {w}
  /\ UNCHANGED <<people, books, running, signed, cause>>

-----------------------------------------------------------------------------
(* The verbs of cli.py: a birth evicts nobody without --displace, the reaper *)
(* kills nobody without --execute, and either may be repeated or overlap.    *)

cmd_create_cell(c) == \E displace \in BOOLEAN : CreateCell(c, displace)

cmd_reproduce(c) ==
  \E p \in Cells \ {c}, displace \in BOOLEAN : Reproduce(c, p, displace)

cmd_reap(c) == Find(c)

cmd_resolve_prediction(c) == \E score \in {0, 1} : ResolvePrediction(c, score)

\* By hand, on any living Cell; from a grant it is Promotions' BeginStart.
cmd_start_experiment(c) == "experiments" \in Does[c] /\ StartExperiment(c)

cmd_conclude_experiment(c) == ConcludeExperiment(c)

CellStep(c) ==
  \/ cmd_create_cell(c) \/ cmd_reproduce(c)
  \/ Sleep(c) \/ Wake(c) \/ Quarantine(c) \/ ClearQuarantine(c)
  \/ Commit(c) \/ \E consumed \in BOOLEAN : Resolve(c, consumed)
  \/ Sell(c) \/ Refund(c) \/ ReleaseHold(c)
  \/ cmd_resolve_prediction(c)
  \/ ReclaimSettledEstate(c)
  \/ cmd_start_experiment(c) \/ cmd_conclude_experiment(c)
  \/ cmd_reap(c) \/ \E a \in Cells : Concur(c, a)
  \/ \E why \in Findings \cup {"negative_ev"} : Kill(c, why)

Next ==
  \/ TurnEpoch
  \/ \E c \in Cells : CellStep(c)
  \/ \E w \in warrants : Crash(w)

Spec == Init /\ [][Next]_vars

-----------------------------------------------------------------------------
\* Statuses, money and records of the cells table and the ledger.
TypeOK ==
  /\ epoch \in 0 .. MaxEpoch
  /\ order \in Seq(Cells)
  /\ cell \in [Cells -> Statuses]
  /\ founder \in [Cells -> Cells]
  /\ bornIn \in [Cells -> 0 .. MaxEpoch]
  /\ cash \in [Cells -> Nat] /\ committed \in [Cells -> {0, 1}]
  /\ held \in [Cells -> Nat] /\ revenue \in [Cells -> Int]
  /\ spend \in [Cells -> Nat]
  /\ brier \in [Cells -> {0, 1, Unscored}]
  /\ running \subseteq Cells
  /\ warrants \subseteq Cells \X Causes /\ signed \subseteq Cells \X Cells
  /\ cause \in [Cells -> Causes \cup {"none"}]

\* However births race, evict and fail, the colony never outgrows its limit
\* and no epoch sees more births than it may: killing what was born does not
\* buy another birth (population.check_birth_licence, births_in_epoch).
BirthsFit ==
  /\ Cardinality(Living(cell)) <= MaxLiving
  /\ \A e \in 0 .. epoch :
       Cardinality({c \in Range(order) : bornIn[c] = e}) <= MaxBirths

NewlyBorn(c) == cell[c] = "unborn" /\ cell'[c] # "unborn"
NewlyDead(c) == cell[c] # "dead" /\ cell'[c] = "dead"

\* A child never leaves its lineage with more than its share of the colony,
\* measured on the colony it is born into (lineage.check_lineage_licence).
ChildrenKeepTheShare ==
  [][\A c \in Cells : NewlyBorn(c) /\ founder'[c] # c =>
       100 * Cardinality({d \in Living(cell') : founder'[d] = founder'[c]})
         <= LineageShare * Cardinality(Living(cell'))]_vars

\* No death is for nothing.  An eviction buys a birth, costs one Cell, and
\* strands nothing: the Cell was failing and had no operation in flight
\* (displacement.candidates).  A death on an estimate carries the signature of
\* another Cell (death.kill_for_negative_ev).
DeathsAreAccountable ==
  [][\A v \in Cells : NewlyDead(v) =>
       /\ cause'[v] = "displaced" =>
            /\ \E c \in Cells : NewlyBorn(c)
            /\ \A d \in Cells \ {v} : ~NewlyDead(d)
            /\ Finding(v) # "none" /\ committed[v] = 0
       /\ cause'[v] = "negative_ev" =>
            \E a \in Auditors \ {v} : <<v, a>> \in signed]_vars

\* Every slot is held by a Cell that lives, so deaths never use the colony's
\* experiments up (experiments.ExperimentCoroner).
SlotsAreHeldByTheLiving ==
  /\ running \subseteq Living(cell)
  /\ Cardinality(running) <= MaxParallel
=============================================================================
