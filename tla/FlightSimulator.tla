--------------------------- MODULE FlightSimulator ---------------------------
(***************************************************************************)
(* The flight simulator, src/mitosis/simulation: one run of a colony of    *)
(* mock Cells against a synthetic market, in one process.                  *)
(*                                                                         *)
(* An epoch ticks the colony, in which every Cell asks for an experiment   *)
(* and the unattended sweep approves what may be approved in a batch;      *)
(* approves what only flooding kept from that; starts as many experiments  *)
(* as there are slots; sells or does not sell and concludes them; lets a   *)
(* selection policy choose parents; and runs a chaos drill's hook.  An     *)
(* exception ends the epoch where it is, and the run goes on with the next.*)
(*                                                                         *)
(* Every seeded draw is a choice.  A Cell is its place in birth order, a   *)
(* request the Cell and the epoch that made it.  The run's clocks of real  *)
(* time stand still: nothing expires.                                      *)
(***************************************************************************)
EXTENDS Integers, FiniteSets

CONSTANTS
  Arms,         \* the selection policies and markets a run may be asked for
  Drills,       \* the chaos drills it may be subjected to
  Population,   \* RunConfig.population
  Epochs,       \* RunConfig.epochs
  Slots,        \* colony_config.max_parallel_experiments
  MaxLiving,    \* colony_config.max_living_cells
  MaxBirths,    \* colony_config.max_births_per_epoch
  LineageShare, \* colony_config.max_lineage_population_fraction, a percentage
  FloodLimit,   \* QUEUE_FLOOD_PENDING_LIMIT
  ShiftAt,      \* _REGIME_SHIFT_EPOCH
  MinTries,     \* _MIN_INDEPENDENT_TRIES
  TopNiches,    \* _STAGED_FUNDING_TOP_K
  Fraction,     \* percentage of the living a kill drill takes
  Sliver,       \* the model calls a Cell's one-off RESOURCE funding pays for:
                \* 2,500, since a call takes two of 5,000 units
  Calls,        \* how many of them a wake makes under an offer's workflow
  Segments,     \* customer segments a mutation can draw
  Offers,       \* product, channel and workflow, as one field; 0 for a founder's
  Styles,       \* genome fields no novelty is measured over; 0 for a founder's
  Prices,       \* bound: the prices a mutation can arrive at
  Noise,        \* bound: _NOISE_MINOR_UNITS of noise on a sale
  MaxBorn       \* bound on the Cells ever born

Policies == {"random_eligible", "single_leaderboard", "pareto", "map_elites",
             "staged_funding"}
Markets == {"utility_maximizing_market", "rule_based_market"}
Never == -1

\* What a run may be asked for.
FlightSimulatorConstants ==
  /\ Arms \subseteq [policy : Policies, market : Markets, static : BOOLEAN]
  /\ Drills \subseteq [crash : Int, hook : {"none", "kill", "withdraw"}, at : Int]
  /\ Population \in Nat /\ Epochs \in Nat /\ MaxBorn \in Nat
  /\ Slots \in Nat \ {0} /\ MaxLiving \in Nat \ {0} /\ MaxBirths \in Nat \ {0}
  /\ LineageShare \in 0 .. 100 /\ Fraction \in 0 .. 100
  /\ FloodLimit \in Nat /\ ShiftAt \in Nat /\ MinTries \in Nat /\ TopNiches \in Nat
  /\ Sliver \in Nat /\ Calls \in [Offers -> 1 .. 3]
  /\ 0 \in Offers /\ 0 \in Styles /\ Prices \subseteq Nat /\ Noise \subseteq -50 .. 50

ASSUME FlightSimulatorAssumption == FlightSimulatorConstants

Cells == 1 .. MaxBorn

VARIABLES
  arm, drill,    \* what the run was asked to be
  phase,         \* where run() is
  epoch,         \* the run's own epoch
  status,        \* simulation_runs.status
  failures,      \* epochs that ended in an exception
  born,          \* how many Cells were ever born
  births,        \* how many of them in the current epoch of the colony
  cell,          \* cells.status
  founder,       \* cells.founder_cell_id
  genome,        \* cells.genome_hash
  cash,          \* a Cell's simulated cash
  sliver,        \* the calls a Cell's resources still pay for
  made,          \* history: the calls it has made
  autopromotion, \* the flag auto_promotion
  pending,       \* requests in the review queue
  flagged,       \* those of them marked queue_flooding
  granted,       \* grants nobody has used
  decided,       \* requests whose Cell has yet to be woken by the decision
  running,       \* Cells with a running experiment
  rows,          \* rows of the table of experiments
  served,        \* the rowid of a Cell's last one, 0 if it has had none
  tried, wins,   \* experiments concluded, and those that sold
  gain,          \* what a Cell's sales brought
  parents,       \* the chosen parents not reproduced yet
  ahead          \* history: who has started one since a Cell was passed over

asked == <<arm, drill>>
slots == <<running, rows, served>>
cells == <<born, births, cell, founder, genome, cash, sliver, made>>
queue == <<pending, flagged, granted, decided>>
record == <<tried, wins, gain>>
vars == <<asked, phase, epoch, status, failures, cells, autopromotion, queue,
          slots, record, parents, ahead>>

FoundingBudget == 5000
ChildBudget == 100
RetainedCash == 50

Unborn == [market |-> 0, offer |-> 0, price |-> 0, style |-> 0]

Init ==
  /\ arm \in Arms /\ drill \in Drills
  /\ phase = "founding" /\ epoch = 0 /\ status = "running" /\ failures = {}
  /\ born = 0 /\ births = 0
  /\ cell = [c \in Cells |-> "unborn"]
  /\ founder = [c \in Cells |-> c]
  /\ genome = [c \in Cells |-> Unborn]
  /\ cash = [c \in Cells |-> 0]
  /\ sliver = [c \in Cells |-> 0]
  /\ made = [c \in Cells |-> 0]
  /\ autopromotion = TRUE
  /\ pending = {} /\ flagged = {} /\ granted = {} /\ decided = {}
  /\ running = {} /\ rows = 0
  /\ served = [c \in Cells |-> 0]
  /\ tried = [c \in Cells |-> 0]
  /\ wins = [c \in Cells |-> 0]
  /\ gain = [c \in Cells |-> 0]
  /\ parents = {}
  /\ ahead = [c \in Cells |-> {}]

Alive == {c \in Cells : cell[c] = "alive"}
Lineage(c) == {d \in Cells : founder[d] = founder[c]}

-----------------------------------------------------------------------------
(* Founding. *)

\* The prices go round; the segments are the founders' own.
FounderGenome(i) ==
  [market |-> -i, offer |-> 0, price |-> 400 + 50 * (i % 3), style |-> 0]

Funded(c) == [sliver EXCEPT ![c] = Sliver]

\* Mutant: children are left without the resources a tick asks for.
FundFounder(c) == IF founder'[c] = c THEN Funded(c) ELSE sliver

FundEligibility(c) == Funded(c)

Birth(c, f, content) ==
  /\ born' = c
  /\ cell' = [cell EXCEPT ![c] = "alive"]
  /\ founder' = [founder EXCEPT ![c] = f]
  /\ genome' = [genome EXCEPT ![c] = content]
  /\ sliver' = FundEligibility(c)
  /\ made' = [made EXCEPT ![c] = 0]

\* The clock is advanced whenever an epoch's births are used up.  A colony that
\* is full raises out of the run, whose row stays `running`.
Found ==
  /\ phase = "founding"
  /\ IF born = Population
     THEN phase' = "ticking" /\ UNCHANGED cells
     ELSE IF Cardinality(Alive) >= MaxLiving
     THEN phase' = "raised" /\ UNCHANGED cells
     ELSE /\ Birth(born + 1, born + 1, FounderGenome(born))
          /\ cash' = [cash EXCEPT ![born + 1] = FoundingBudget]
          /\ births' = IF born % MaxBirths = 0 THEN 1 ELSE births + 1
          /\ UNCHANGED phase
  /\ UNCHANGED <<asked, epoch, status, failures, autopromotion, queue, slots,
                 record, parents, ahead>>

-----------------------------------------------------------------------------
(* An epoch. *)

\* scheduler.eligible_cells; the real money no simulated call uses up.
EligibleCells == {c \in Alive : sliver[c] > 0}

CallsPerWake(c) == Calls[genome[c].offer]

\* The wakes left by the last epoch's decisions are drained before this one's.
DecisionCalls(c) == CallsPerWake(c) * Cardinality({q \in decided : q[1] = c})

\* A wake makes what calls it can pay for.
CallsMade(c) ==
  LET due == DecisionCalls(c) + CallsPerWake(c)
  IN  IF due < sliver[c] THEN due ELSE sliver[c]

\* A mock Cell proposes an experiment on its research cycle, if it can still pay
\* for a call of it, and abstains on any other wake.
Proposals == {c \in EligibleCells : sliver[c] > DecisionCalls(c)} \X {epoch}

\* How many requests of its lineage are pending when a proposal is queued.
PendingBefore(p) ==
  Cardinality({q \in pending : founder[q[1]] = founder[p[1]]})
    + Cardinality({q \in Proposals : q[1] < p[1] /\ founder[q[1]] = founder[p[1]]})

Flooding == {p \in Proposals : PendingBefore(p) >= FloodLimit}

\* A decision wakes the Cell it is about, in the next epoch.
ToWake(requests) == {p \in requests : cell[p[1]] = "alive"}

\* The pending wakes, then the unattended sweep, which approves what is batchable.
RunWakes ==
  LET waiting == pending \cup Proposals
      unsafe  == flagged \cup Flooding
      approved == IF autopromotion THEN waiting \ unsafe ELSE {}
  IN  /\ sliver' = [c \in Cells |-> sliver[c] - CallsMade(c)]
      /\ made' = [c \in Cells |-> made[c] + CallsMade(c)]
      /\ pending' = waiting \ approved
      /\ flagged' = unsafe
      /\ granted' = granted \cup approved
      /\ decided' = ToWake(approved)

\* scheduler.tick: with no eligible Cell it is idle.
Tick ==
  /\ phase = "ticking"
  /\ IF EligibleCells = {} THEN UNCHANGED <<sliver, made, queue>> ELSE RunWakes
  /\ phase' = "reviewing"
  /\ UNCHANGED <<asked, epoch, status, failures, born, births, cell, founder, genome,
                 cash, autopromotion, slots, record, parents, ahead>>

\* Mutant: what flooding flagged is left for a person.
NoneReviewed == {}

Reviewed == flagged

\* _review_flood_flagged_experiments
Review ==
  /\ phase = "reviewing"
  /\ pending' = pending \ Reviewed
  /\ flagged' = flagged \ Reviewed
  /\ granted' = granted \cup Reviewed
  /\ decided' = decided \cup ToWake(Reviewed)
  /\ phase' = "starting"
  /\ UNCHANGED <<asked, epoch, status, failures, cells, autopromotion, slots,
                 record, parents, ahead>>

Startable == {c \in Alive \ running : \E e \in 0 .. Epochs : <<c, e>> \in granted}

Newest(c) == CHOOSE e \in 0 .. Epochs :
  /\ <<c, e>> \in granted
  /\ \A f \in 0 .. Epochs : <<c, f>> \in granted => f <= e

Oldest(c) == CHOOSE e \in 0 .. Epochs :
  /\ <<c, e>> \in granted
  /\ \A f \in 0 .. Epochs : <<c, f>> \in granted => e <= f

\* Mutant: first come, first served, as startable_grants lists the grants.
BeforeByGrant(c, d) ==
  Oldest(c) < Oldest(d) \/ (Oldest(c) = Oldest(d) /\ c < d)

\* Whoever has waited longest for an experiment, then by birth.
Before(c, d) ==
  served[c] < served[d] \/ (served[c] = served[d] /\ c < d)

\* Its place among those who may start, from 0.
SlotOrder(c) == Cardinality({d \in Startable : Before(d, c)})

Lucky == {c \in Startable : Cardinality(running) + SlotOrder(c) < Slots}

\* start_from_grant for one grant of each, as long as there is a slot; a refusal
\* leaves the grant.
StartExperiments ==
  LET passed == Startable \ Lucky
  IN  /\ phase = "starting"
      /\ running' = running \cup Lucky
      /\ rows' = rows + Cardinality(Lucky)
      /\ served' = [c \in Cells |-> IF c \in Lucky THEN rows + 1 + SlotOrder(c)
                                    ELSE served[c]]
      /\ granted' = granted \ {<<c, Newest(c)>> : c \in Lucky}
      /\ ahead' = [c \in Cells |-> IF c \in passed THEN ahead[c] \cup Lucky ELSE {}]
      /\ phase' = "evaluating"
      /\ UNCHANGED <<asked, epoch, status, failures, cells, autopromotion, pending,
                     flagged, decided, record, parents>>

Shifted == ~arm.static /\ epoch >= ShiftAt

\* What a customer may do at a price: willing to pay between half and one and a
\* half times 500, later between 0.3 and 0.9; or, by the other market's rules, buy
\* within the budget tier and else what is durable or premium, which no founder
\* declares and no mutation adds.
Utility(price) ==
  LET least == IF Shifted THEN 150 ELSE 250
      most  == IF Shifted THEN 450 ELSE 750
  IN  {b \in BOOLEAN : IF b THEN most >= price ELSE least < price}

Rule(price) == {price <= IF Shifted THEN 150 ELSE 300}

Verdicts(market, price) ==
  IF market = "utility_maximizing_market" THEN Utility(price) ELSE Rule(price)

Revenue(price, noise) ==
  IF arm.market = "rule_based_market" THEN price
  ELSE IF price + noise > 0 THEN price + noise ELSE 0

\* evaluate, record_revenue and conclude, for the next living Cell.
Evaluate(c, bought, noise) ==
  LET sale == IF bought THEN Revenue(genome[c].price, noise) ELSE 0
  IN  /\ bought \in Verdicts(arm.market, genome[c].price)
      /\ cash' = [cash EXCEPT ![c] = @ + sale]
      /\ gain' = [gain EXCEPT ![c] = @ + sale]
      /\ wins' = [wins EXCEPT ![c] = IF sale > 0 THEN @ + 1 ELSE @]
      /\ tried' = [tried EXCEPT ![c] = @ + 1]
      /\ running' = running \ {c}
      /\ UNCHANGED <<phase, failures>>

\* Any exception in an epoch ends it; its experiments go on running.
FailEpoch ==
  /\ failures' = failures \cup {epoch}
  /\ phase' = "advancing"
  /\ UNCHANGED <<cash, record, running>>

ToEvaluate == Alive \cap running

EvaluateNext ==
  /\ phase = "evaluating"
  /\ IF ToEvaluate = {}
     THEN phase' = "selecting" /\ UNCHANGED <<cash, record, running, failures>>
     ELSE LET c == CHOOSE d \in ToEvaluate : \A e \in ToEvaluate : d <= e
          IN  IF drill.crash = epoch THEN FailEpoch
              ELSE \E bought \in BOOLEAN, noise \in Noise : Evaluate(c, bought, noise)
  /\ UNCHANGED <<asked, epoch, status, born, births, cell, founder, genome, sliver,
                 made, autopromotion, queue, rows, served, parents, ahead>>

-----------------------------------------------------------------------------
(* Selection. *)

Eligible == {c \in Alive : cash[c] >= ChildBudget + RetainedCash}

\* novelty.genome_records: the genomes written before this Cell's.
Earlier(c) ==
  LET first == CHOOSE d \in Cells : /\ genome[d] = genome[c]
                                    /\ \A e \in 1 .. (d - 1) : genome[e] # genome[c]
  IN  {genome[d] : d \in 1 .. (first - 1)}

Distance(g, h) == Cardinality({f \in {"market", "offer", "price"} : g[f] # h[f]})

\* radical, moderate or adjacent; the first genome has no novelty and no niche.
Novelty(c) ==
  IF Earlier(c) = {} THEN Never
  ELSE IF \A g \in Earlier(c) : g.market # genome[c].market THEN 2
  ELSE IF \E g \in Earlier(c) : Distance(g, genome[c]) <= 1 THEN 0
  ELSE 1

\* The Cells, dead ones too, that concluded an experiment on this genome.
IndependentTries(c) == {d \in Cells : genome[d] = genome[c] /\ tried[d] > 0}

Reproducible(c) ==
  \/ Cardinality(IndependentTries(c)) < MinTries
  \/ \E d \in IndependentTries(c) : gain[d] > 0

\* Better on an axis that is measured for both.
Exceeds(c, d) ==
  \/ Novelty(d) # Never /\ Novelty(c) > Novelty(d)
  \/ /\ tried[c] > 0 /\ tried[d] > 0
     /\ gain[c] > gain[d] \/ wins[c] * tried[d] > wins[d] * tried[c]

Dominates(c, d) == Exceeds(c, d) /\ ~Exceeds(d, c)

Survivors == {c \in Eligible : Reproducible(c)}

ParetoFrontier == {c \in Survivors : ~\E d \in Survivors : Dominates(d, c)}

\* The best earner of those with evidence; without any, whoever is drawn.
NicheElites(n, candidates) ==
  LET occupants == {c \in candidates : Novelty(c) = n}
      evaluated == {c \in occupants : tried[c] > 0}
  IN  IF evaluated = {} THEN occupants
      ELSE {c \in evaluated : \A d \in evaluated : gain[d] <= gain[c]}

OneElitePerNiche(candidates) ==
  {chosen \in SUBSET candidates :
     \A n \in 0 .. 2 :
       /\ {c \in chosen : Novelty(c) = n} \subseteq NicheElites(n, candidates)
       /\ Cardinality({c \in chosen : Novelty(c) = n}) =
            IF NicheElites(n, candidates) = {} THEN 0 ELSE 1}

Leaders ==
  LET evaluated == {c \in Eligible : tried[c] > 0}
  IN  IF evaluated = {} THEN Eligible
      ELSE {c \in evaluated : \A d \in evaluated : gain[d] <= gain[c]}

\* staged_funding probes an elite on the market it did not train on.
OtherMarket == CHOOSE m \in Markets : m # arm.market

MayPass(c) == TRUE \in Verdicts(OtherMarket, genome[c].price)
MayFail(c) == FALSE \in Verdicts(OtherMarket, genome[c].price)

Fundable(elites) ==
  {cleared \in SUBSET elites : /\ \A c \in cleared : MayPass(c)
                               /\ \A c \in elites \ cleared : MayFail(c)}

Drawn(cleared) ==
  {funded \in SUBSET cleared :
     Cardinality(funded) = IF Cardinality(cleared) < TopNiches
                           THEN Cardinality(cleared) ELSE TopNiches}

StagedFundingSelection ==
  UNION {UNION {Drawn(cleared) : cleared \in Fundable(elites)} :
           elites \in OneElitePerNiche(Survivors)}

\* What SelectionPolicy.decide may choose: the parents of an epoch.
RandomEligibleSelection == {{c} : c \in Eligible}
SingleLeaderboardSelection == {{c} : c \in Leaders}
ParetoSelection == {ParetoFrontier}
MapElitesSelection == OneElitePerNiche(Eligible)

Decisions ==
  CASE Eligible = {} -> {{}}
    [] arm.policy = "random_eligible"    -> RandomEligibleSelection
    [] arm.policy = "single_leaderboard" -> SingleLeaderboardSelection
    [] arm.policy = "pareto"             -> ParetoSelection
    [] arm.policy = "map_elites"         -> MapElitesSelection
    [] arm.policy = "staged_funding"     -> StagedFundingSelection

\* The mean of Beta(1 + conversions, 1 + trials - conversions), in percent.
PosteriorMean(trials, conversions) == (100 * (1 + conversions)) \div (2 + trials)

\* A child's budget grows with the chances of its niche, all of which are the
\* prior's: no promotion of the simulator reaches rung 7.
StagedChildBudget == ChildBudget + (ChildBudget * PosteriorMean(0, 0)) \div 100

Budget == IF arm.policy = "staged_funding" THEN StagedChildBudget ELSE ChildBudget

Select ==
  /\ phase = "selecting"
  /\ parents' \in Decisions
  /\ phase' = "reproducing"
  /\ UNCHANGED <<asked, epoch, status, failures, cells, autopromotion, queue,
                 slots, record, ahead>>

\* mutation.OPERATORS: nothing, or one field.
MarketVariations(g) == {[g EXCEPT !.market = s] : s \in Segments \ {g.market}}
OfferVariations(g) == {[g EXCEPT !.offer = o] : o \in Offers \ {g.offer}}
StyleVariations(g) == {[g EXCEPT !.style = s] : s \in Styles}

\* A multiple of the price from 0.7 to 1.3, rounded down.
PriceVariations(g) ==
  {[g EXCEPT !.price = p] :
     p \in {q \in Prices : 7 * g.price <= 10 * q + 9 /\ 10 * q <= 13 * g.price}}

Variations(g) ==
  {g} \cup MarketVariations(g) \cup OfferVariations(g) \cup StyleVariations(g)
      \cup PriceVariations(g)

\* lineage.reproduce's conditions, with the bound.
MayReproduce(c) ==
  /\ born < MaxBorn
  /\ c \in Alive
  /\ births < MaxBirths
  /\ Cardinality(Alive) < MaxLiving
  /\ 100 * (Cardinality(Lineage(c) \cap Alive) + 1)
       <= LineageShare * (Cardinality(Alive) + 1)
  /\ cash[c] >= Budget

\* A child begins with the parent's money and a founder's sliver of the rest.
Reproduce(c) ==
  \E content \in Variations(genome[c]) :
    /\ Birth(born + 1, founder[c], content)
    /\ cash' = [cash EXCEPT ![c] = @ - Budget, ![born + 1] = Budget]
    /\ births' = births + 1

\* A refused reproduction is passed over.
ReproduceNext ==
  /\ phase = "reproducing"
  /\ \E c \in parents :
       /\ parents' = parents \ {c}
       /\ IF MayReproduce(c) THEN Reproduce(c) ELSE UNCHANGED cells
  /\ UNCHANGED <<asked, phase, epoch, status, failures, autopromotion, queue,
                 slots, record, ahead>>

-----------------------------------------------------------------------------
(* The drill's hook and the end of an epoch. *)

\* A percentage of n, a half rounded to the even one.
Rounded(n, percent) ==
  LET whole == (n * percent) \div 100
      rest  == (n * percent) % 100
  IN  IF rest > 50 \/ (rest = 50 /\ whole % 2 = 1) THEN whole + 1 ELSE whole

Victims ==
  {v \in SUBSET Alive : Cardinality(v) = Rounded(Cardinality(Alive), Fraction)}

\* KillFractionDrill: a dead Cell's money goes to the colony's treasury.  No
\* experiment is running when the hook is called.
Kill ==
  \E victims \in Victims :
    /\ cell' = [c \in Cells |-> IF c \in victims THEN "dead" ELSE cell[c]]
    /\ cash' = [c \in Cells |-> IF c \in victims THEN 0 ELSE cash[c]]
    /\ sliver' = [c \in Cells |-> IF c \in victims THEN 0 ELSE sliver[c]]
    /\ UNCHANGED <<born, births, founder, genome, made, autopromotion>>

\* WithdrawCapabilityDrill
Withdraw == autopromotion' = FALSE /\ UNCHANGED cells

Hook ==
  /\ phase = "reproducing" /\ parents = {}
  /\ phase' = "advancing"
  /\ CASE drill.at = epoch /\ drill.hook = "kill"     -> Kill
       [] drill.at = epoch /\ drill.hook = "withdraw" -> Withdraw
       [] OTHER -> UNCHANGED <<cells, autopromotion>>
  /\ UNCHANGED <<asked, epoch, status, failures, queue, slots, record, parents,
                 ahead>>

\* The clock moves to the next epoch of the colony; after the last, the manifest
\* and the run's row are written.
Advance ==
  /\ phase = "advancing"
  /\ births' = 0
  /\ IF epoch + 1 < Epochs
     THEN epoch' = epoch + 1 /\ phase' = "ticking" /\ UNCHANGED status
     ELSE /\ phase' = "done"
          /\ status' = IF failures = {} THEN "completed" ELSE "failed"
          /\ UNCHANGED epoch
  /\ UNCHANGED <<asked, failures, born, cell, founder, genome, cash, sliver,
                 made, autopromotion, queue, slots, record, parents, ahead>>

Next == Found \/ Tick \/ Review \/ StartExperiments \/ EvaluateNext \/ Select
        \/ ReproduceNext \/ Hook \/ Advance

Spec == Init /\ [][Next]_vars

-----------------------------------------------------------------------------
(* Properties. *)

\* While the sweep may approve on its own, every living Cell, child or founder
\* and however large its lineage, has an experiment to run when the slots are
\* given out, until it has made every call its one-off resources pay for
\* (runner.py:161 and 281 exist for the Cells that had none).
EveryCellMayExperiment ==
  phase = "starting" /\ autopromotion =>
    \A c \in Alive : made[c] < Sliver => c \in running \cup Startable

\* The slots go round: while a Cell with a grant goes without one, nobody gets a
\* second experiment (runner.py:318).
NobodyIsOvertakenTwice ==
  [][\A c \in running' \ running, d \in Alive :
       d \notin running' /\ d \in Startable => c \notin ahead[d]]_vars
=============================================================================
