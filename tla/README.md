# MITOSIS: a verification companion

MITOSIS (`src/src/mitosis`) is a kernel for colonies of autonomous agents
("Cells"). Cells think by calling paid model providers, propose work, are
reviewed, funded, reproduce and die. Everything is one SQLite database; every
verb is a Python function that runs one or more `BEGIN IMMEDIATE .. COMMIT`
transactions, and several operating-system processes (cron's `mitosis tick`,
`mitosis sweep`, operator commands, workers) share that database. The Charter
(`src/docs/SPEC.md`, C1 to C15) states what must hold: a ledger that is never
edited, no spending beyond a balance or a cap, crash-atomic money, effects
applied once, dead Cells that stay dead.

This directory holds TLA+ models of that kernel, the TLC configurations that
check them and the TLAPS proofs about them. `PROJECT.json` lists for every
definition the lines it models.

## 1. Inventory

| Part | State | Operations | Hard behaviour | What makes it correct |
|---|---|---|---|---|
| Ledger (`ledger.py`, `accounts.py`, `money.py`) | `ledger_transactions`, `ledger_entries`, hash chain | post, derive a balance | balances are sums over an append-only log, never stored | conservation; a balance agrees with the rows it belongs to |
| Reservations (`reservations.py`) | `reservations` | request, settle, release, mark unknown / disputed | callers, sweeper, operators and estates move one row in any order | what is held is paid or returned exactly once |
| Real-spend breaker (`real_spend_breaker.py`) | limits | check, snapshot, set limits | holds taken in one window settle in another | exposure within caps |
| Metering (`resource_metering.py`) | `resource_usage` | record usage | against a hold another process may close | usage fits in its hold |
| Sweeper (`sweeper.py`, `cli.cmd_sweep`) | none | sweep, resolve stranded calls, settle estates | works from a list read before the lock, may die anywhere, may run twice | never forgives a bill, resolves everything in the end |
| Gateway (`gateway.py`) | `model_calls` | call a model, record success or failure | five transactions and an external call with a crash between any two; same key raced; answer after the sweep | charge = what is known of the cost; one bill per key |
| Reconciliation (`reconciliation.py`) | reconciled columns | reconcile, dispute | while the call may still be in flight, or already swept | charged the invoice, once |
| Lifecycle (`lifecycle.py`) | `cells`, coroner reports | create, sleep, wake, quarantine, clear, kill, estate | death with external operations open | the estate comes home, a debt is not money |
| Events (`events.py`) | `event_inbox`, `event_outbox` | enqueue, process, record failure, replay, dispatch | at-least-once delivery, crash between handler and bookkeeping, several workers | effect once per key, in order, never dropped |
| Agent loop (`deliberation.py`, `context.py`) | `deliberations`, `proposals` | enqueue a wake, run ready wakes, record | redelivered wakes, kills in mid-wake, several calls in one wake | one record per wake, paid replies are not lost |
| Scheduler (`scheduler.py`, `clock.py`) | `scheduler_ticks`, `operator_state`, epochs | tick, heartbeat, acknowledge | crash in a tick, alarm latch, concurrent ticks | one wake per Cell and epoch, halts hold |
| Approvals (`approval.py`) | requests, grants | enqueue, approve, batch, reject, expire | decision, expiry and consumption race | one outcome per request, expired work regenerated |
| Tools (`tools.py`, `tool_registry.py`) | `tool_calls` | execute a grant | external call between claim and outcome | one execution per grant |
| External actions (`external_actions.py`, `channel_registry.py`) | `external_actions` | claim, complete, abandon | a person acts between two verbs, after a deadline | no duplicate contact, money resolved |
| Promotion, experiments (`promotion.py`, `autopromotion.py`, `experiments.py`) | allocations, experiments | fund, allocate, start, conclude | grants retried, pool shared, Cells dying | one allocation per grant, slots freed |
| Revenue (`revenue.py`, `liability.py`, `advances.py`) | revenue, holds, advances | record, reverse, release, advance | refund against release, partial reversals | never take back more than the sale |
| Population (`population.py`, `lineage.py`, `displacement.py`, `death.py`) | capacity, epochs | reproduce, displace, reap | eviction and birth in one transaction, findings read before the lock | within capacity, no needless death |
| Scoring (`prediction.py`, `outcome.py`, `novelty.py`, `selection.py`, `auditor.py`) | forecasts, scores, archive | register, resolve, score, rank | evidence changes between its reading and the allocation it justifies | a pilot stands on forecasts made before it was funded |
| Operator surface (`cli.py`, `artifacts.py`, dashboards) | artifacts, exports | one command per verb | commands race cron's | the verb's own checks hold whoever calls it |
| Simulation (`simulation/`) | runs | found, run epochs, select, drill | chaos drills, a sweep that may be withdrawn, few slots | every Cell gets its chance at an experiment |
| Schema, connections (`db.py`) | none | open, migrate | SQLite's transactions | assumed |

The parts meet in three places. **Money**: the gateway, tools, external
actions and metering reserve through `reservations`, which posts to the ledger
and asks the breaker, and a death settles the estate. **Work**: the scheduler
enqueues wakes, workers process them, deliberation calls the gateway and
queues proposals, approvals issue grants, and tools, actions and promotion
consume them. **Time**: TTLs on reservations, requests, grants and refund
windows are enforced by sweeps that race the work they time out.

`PROJECT.json` (`hazards`) lists what can go wrong at which line.

## 2. Plan

Done:

1. *Money*: `ReservationCore`, `Reservations` refining `Escrow`, and `ModelCalls`,
   which composes the kernel with the gateway, the sweep, reconciliation and death.
2. *Delivery*: `EventInbox` refining `Delivery`.
3. *Work*: `Wakes`, the agent loop with its repair and workflow calls under the
   scheduler's ticks, guards and alarm.
4. *Permits*: `Approvals`, the review queue, and `GrantedWork`, which composes it
   with its consumers (tools, external actions) and the money kernel, refining
   `Permits`.
5. *Trade*: sales, reversals, reserves, advances and fees.
6. *Growth*: `Population` (births, evictions, deaths, experiments' slots),
   `Promotions` (pool, allocation, evidence) and `FlightSimulator` (a whole
   simulated run).
7. Proofs of the kernel, the gateway, the inbox, the ticks, approved work, trade and
   growth (section 6): every safety property the passing runs check.

Left, in this order:

8. Per-provider limits and `set_limits`; `max_cells` and the tick ledger.
9. Transfers between accounts that no reservation is behind, as one ledger shared
   by `Trade`, `Promotions` and `Population`, which today each keep the accounts
   their own verbs touch.

## 3. Modules

| Module | Models | Shape |
|---|---|---|
| `ReservationCore` | the tables and the `_x_locked` functions of `reservations`, `resource_metering`, `real_spend_breaker`, `lifecycle._reclaim_locked` | no variables: a database is a record, a locked core an operator on databases, its exceptions a `May...` predicate |
| `Escrow` | what the kernel promises | one account per hold |
| `Reservations` | the public verbs, `sweeper.sweep`, kill and estate passes | one variable `db`, one action per verb |
| `SumTheorems` | | what a sum over any finite set does when a summand moves; no state |
| `ReservationsProofs` | | lemmas about each core; the theorems |
| `ModelCalls` | `gateway.py`, `reconciliation.py`, `mitosis sweep`, callers, provider, deaths | one action per transaction or external step; each caller and sweeper has a place and what it has read |
| `ModelCallsProofs` | | what any composed transaction does to the database and to a call; the theorems |
| `Delivery` | what the inbox promises | one state per event |
| `EventInbox` | `events.py`, with `lifecycle`'s status changes | one action per transaction; producers, workers and dispatchers are processes |
| `EventInboxProofs` | | the order of the outbox; one worker's invariant; the refinement |
| `Wakes` | `scheduler.py`, the wake path and the workflows of `deliberation.py` | ticks are processes that may overlap and be killed; the gateway and the inbox are reduced to what `ModelCalls` and `EventInbox` show of them |
| `WakesProofs` | | the inductive invariant of overlapping ticks; the theorems |
| `Permits` | what the review queue promises | one permit per proposal |
| `Approvals` | `approval.py`: assessment, decisions, batches, both expiry clocks | actors that read clock and list first and work item by item; no specification of its own |
| `GrantedWork` | `tools.py`, `external_actions.py`, `channel_registry.py`, the export in `artifacts.py`, composed with `Approvals` and `ReservationCore` | one action per transaction or external step; the specification of both modules |
| `GrantedWorkProofs` | | the kinds of step a grant, a process and an account can take; the theorems |
| `Trade` | `revenue.py`, `liability.py`, `advances.py`, `payment_fees.py`, estates | one action per verb over the rows of sales, holds and advances |
| `TradeProofs` | | what each verb does to a sale, a debt and the books; the theorems |
| `Population` | `lifecycle.py`, `population.py`, `lineage.py`, `displacement.py`, `death.py`, experiments' slots | one action per transaction; a reaper and a signatory keep what they found |
| `Promotions` | `promotion.py`, `autopromotion.py`, `outcome.py`, `prediction.py`, `experiments.py` | allocators are processes that keep the clock, flag and rung they read |
| `FlightSimulator` | `simulation/`: founding, epoch loop, markets, policies, drills | one process with a place; every seeded draw is a choice |
| `GrowthProofs` | | the theorems of `Promotions`, and of `Population` and `FlightSimulator` through an instance of each |
| `MC...` | the instances TLC checks | |

**Correspondence.** A function that opens a transaction is one action; a
function that opens several is several actions with a program counter
(`caller[a]`, `sweeper[w]`, `worker[w]`, `tick[t]`, an actor of `Approvals`) and
everything it read before a lock is kept in that counter until it is used. An
exception inside a transaction is a rollback: the state is unchanged and the
process goes where the exception takes it. A crash is an action of its own,
possible at every step. Balances are operators, not variables, as
`ledger.get_balance` derives them. The ledger itself is kept as what has been
posted for each reservation, sale or grant, because the idempotency keys of its
transactions are exactly that; an idempotency key is an id, and a verb repeated
with its key changes nothing.

**Abstractions.** Amounts are small naturals and what a provider bills, and how
much of a budget it meters, is any of them. The hour, day and month windows of
the breaker are one window, which reservations leave one at a time
(`SpendLeavesWindow`). The time-to-live of a hold is an action that may happen
at any moment after it is opened (`Expire`), both holds of a call sharing one
deadline; in `GrantedWork` a sweep may find any hold expired. The order in which a
sweep visits its list is arbitrary. A delayed event's ready time, its priority
and A5's total order only choose which pending event is delivered next, so any
may be. The handler of an event is its commit: it applies, or raises and is
rolled back.

`Wakes` does not repeat the gateway: a call is a key that is looked up, reserved
for, paid and resolved once, which is what `ModelCalls` checks, and a Cell's cash
is one of three levels, since the loop only asks whether there is any and the
gateway whether there is enough. A reservation, an answer and a failure may
leave the Cell at any level in `Lefts`. Heartbeats, their absence and
`autonomy.real_spending` are one switch, for the paid provider they exist for. The
request expiry and the promotion sweep that a tick also runs are in `Approvals` and
`Promotions`, where they have something to race with. What a tick has listed is kept
as a set, since the table it was read from only grows at its end and so still has
its order.

`Approvals` keeps of a proposal what its assessment reads: kind, channel, cost,
claims and the Cell's history; the text shown to a person is left out. A dormant
Cell counts as alive there, because every check treats the two alike. A row of the
external-action registry is kept with the one target its channel collides on.
`Trade` lives in the book `USD_REAL`: a synthetic sale has no hold and no advance.
`Promotions` compares times only of forecasts with times read by allocators, so its
clock moves with every forecast. `FlightSimulator` keeps of a genome the fields its
markets and policies read, and its wall clock stands still: nothing expires in it.
It counts a Cell's RESOURCE balance in model calls (a simulated call settles two of
the 5,000 units a Cell is funded with, once), and lets a wake make as many as its
workflow has and the balance pays for; the real money of `eligible_cells` is not used
up by calls that cost nothing. `Population` keeps revenue and spend apart, because a
Cell that sold and spent as much has a record all the same.

## 4. Runs

| Run | Question | Instance |
|---|---|---|
| `reservations` | do rows, ledger, cash and caps agree under any calls? | two Cells; two real holds (one without an external operation) and one RESOURCE hold; amounts 0 to 2 against 4 units of cash and caps of 3 |
| `modelcalls` | does the ledger tell the truth about each call? | two invocations of one key, one sweeper, one Cell funded for two calls and one mirror; cost 1 (remainder) or 3 (overrun), invoice 0, 1 or 3 |
| `modelcalls_liveness` | is everything resolved in the end? | one call, one fair sweeper |
| `inbox` | is each effect committed once, published in order, in the end? | three events under two keys, two producing; one worker, two dispatchers; two attempts, one replay |
| `inbox_two_workers` | does redelivery stay safe with a second worker? | the same with two workers |
| `wakes` | is each call of a wake made once, for its reason, and the wake told once and run in the end? | one Cell; five set-ups: a tick rerun over two epochs (with dormancy and death), two ticks overlapping in one epoch, and one tick under each of the three workflows (with quarantine) |
| `approvals` | can small requests add up in a batch, and can racing decisions and expiries both win? | two requests of one lineage, one recorded outside the queue; two actors; an expiry; no work |
| `granted_work` | is a grant used once, a person contacted once, and the account true to what was done? | a tool request, or two e-mails to one person from two lineages; two processes, a person reporting work after the fact, flags, hosts, exports, a death |
| `trade` | does the reserve cover what can be taken back, in any order? | three sales of two Cells, a refund and a chargeback of the first, one fee; changing terms; a clock of 0 to 3 |
| `population` | do births, evictions and deaths respect each other's limits? | four births, room for three living Cells, two active, one experiment; two epochs |
| `promotions` | is capital moved once, with consent, on evidence? | three spend grants and one experiment of one Cell; one forecast; a person and a sweep |
| `flight_simulator` | does every Cell get its chance at an experiment? | two founders, four epochs, one slot; resources for five calls, workflows of one or three; every policy on one market and one on the other; four drills |

What each property says is in the comment above it; in short:

* `CommittedIsHeld`: the ledger's committed balance is what the open rows hold.
* `ExposureWithinCap`: the caps hold under interleaving, though settlements land in
  another window than their reservations.
* `ImplementsEscrow`: the kernel refines `Escrow`.
* `ChargeIsTrue`: a call is charged its invoice, or its reported cost, or nothing.
* `BilledIsNeverForgiven`: a billed call's hold stays open until somebody knows.
* `KeyPaidOnce`: two invocations of one key never both reach the provider.
* `OutcomesStay`: neither a late answer nor a stale sweep rewrites an outcome.
* `SweepingResolves`: no call stays in flight for ever, and money that comes back to
  a dead Cell reaches the treasury.
* `EffectOncePerKey`, `DeliveredInOrder`, `DeadLetterIsolates`, `ImplementsDelivery`,
  `NothingIsLost`: what at-least-once delivery needs.
* `DeliberationsStay`: a wake's calls, record and mark commit separately, and
  overlapping or killed ticks make each call once, each for its reason, and
  record what it came to once.
* `AffordableWakesRun`: what a killed tick leaves behind is run in the end.
* `BatchedExposureStaysLow`: what one person approves in a batch is small in sum.
* `ImplementsPermits`: a proposal acts only with a permit a person gave, and once.
* `OneBusiness`: within one contact window nobody is contacted for two lineages, or
  twice on one channel, and nothing is delivered that was not let out before.
* `WorkIsPaidFor`: the hold of a tool call or an action agrees with what was done,
  whichever of the sweep, the operator and the death comes first.
* `ReserveCoversRefunds`: until the date printed when a sale was made, nothing but its
  refunds takes from what was set aside for it.
* `DebtIsBacked`: a Cell owes no more than its sales hold or have refunded.
* `ProfitIsWhatIsLeft`: the reported profit is what the colony has more than it
  started with, and no sale gives back more than it brought.
* `BirthsFit`, `ChildrenKeepTheShare`, `DeathsAreAccountable`, `SlotsAreHeldByTheLiving`: the
  limits of births, the price of an eviction, the second signature, the slots of
  the dead.
* `PoolIsACeiling`, `PilotsAreEarned`, `CapitalMovesByConsent`: one payment per grant, from
  the pool; a pilot rests on evidence older than its experiment; a sweep that
  outlives its flag is stopped.
* `EveryCellMayExperiment`, `NobodyIsOvertakenTwice`: in a simulated run every Cell asks
  for an experiment in time until its resources are used up, and the slots go round.

**Bounds.** Two units are enough for an amount to be nothing, part or all of a
hold, and three to exceed it; two calls are enough for every race on a key or a
balance, since each step involves one call and one competitor. `MaxReplays`
bounds operator replays, and one replay already re-admits an event with a fresh
attempt budget. `MaxAttempts = 2` tells the first failure from the last. In
`wakes` two epochs give a queue of two wakes, one of them left over from an
epoch that has ended; two ticks within one epoch race on one wake; and since
wakes of different Cells meet only in the queue's order, one Cell shows the
rest. `MaxRevisions = 1` is enough for a critique, a revision and the critique
that may not be followed by another. In `approvals` two requests, each below the
batch threshold and together above it, are the smallest that can add up; in
`granted_work` a tool call and two contacts do not meet, so they are two backlogs
of one run, and two contacts are the smallest number that can collide; no property
is about commercial rights, which are attested in `approvals`. In `trade` the clock
leaves room for two policies, a sale between them, and the end of its window, and
one sale with two reversals shows a refund after a refund, two sales of one Cell
a reserve shared between sales, and a second Cell a survivor. `population` has one
Cell more than there is room for, so a birth can need an eviction. In
`promotions` three grants give an experiment, the pilot on it and a second pilot
that must not stand on the same one. In `flight_simulator` one slot and two founders
make a Cell wait, and four epochs let its children wait too; five calls last a
founder three epochs and a child of a longer workflow one, so Cells with and without
resources live side by side and a tick finds nobody eligible. `MaxClock`, `MaxEpoch`,
`MaxStale`, `MaxWarrants`, `MaxBorn` and `MaxFunded` bound the clocks and counters. Symmetry is used in `modelcalls`, `approvals`, `granted_work` and
`promotions`, which check no liveness property. Deadlock is not checked: every one
of these systems may come to rest (all events processed, all calls resolved, all
grants used).

**Fairness.** `ModelCalls` assumes that time passes (weak fairness of `Expire`)
and that one operator's sweeps are run again and again without always dying at
the same step (strong fairness of each of the sweep's steps); nothing about
callers, providers, operators, or other sweepers. `EventInbox` assumes the same
of one worker and one dispatcher: cron reruns them, and strong fairness is what
"reruns until it works" gives when a run may die. A handler may fail for ever,
which is why `NothingIsLost` allows the dead-letter queue. `Wakes` assumes that
every process running ticks goes on (weak fairness of its next step: cron starts
it, a provider's timeout ends a call) and that processes are not killed for ever;
an exception in a tick is one of its own steps and may recur for ever. The other
modules state no fairness: a person may never decide, a sale may never come.

## 5. What the repository says and the code does not do

One statement is refuted by a run, `inbox_two_workers`:

* `HandledOnce` (`events.process_event`, "this is what makes at-least-once
  redelivery safe"): worker 1's handler fails and rolls back, worker 2
  processes the event, worker 1's `record_failure` then writes `pending` over
  `processed`, and the effect is applied again. With one worker at a time, as
  the CLI runs today, the run `inbox` shows that it holds.

Met while translating the code, part of the models, and worth knowing for
whoever changes it (paths under `src/src/mitosis`):

* A crash between a call's reservations and its `model_calls` row leaves an unknown
  hold no verb resolves (`gateway.py:210`), and a stranded call that was reconciled
  first is recorded `failed` with a charge on the ledger (`gateway.py:834`).
* `reservations.request` does not look at the Cell's status, and neither does a
  follow-up call of a wake: a dead Cell's money can be reserved again
  (`reservations.py:176`).
* A tick overlapping another takes a `reserved` call for a failure and records
  CALL_FAILED; the answer arrives, is paid for and cannot be recorded
  (`deliberation.py:1024`).
* A Cell with some cash but less than a call's worst case is not refused: the gateway
  raises, nothing counts the attempt, and its wake ends every tick before the
  ones behind it (`deliberation.py:1567`). `AffordableWakesRun` is what holds when no
  such Cell is there.
* The alarm is judged only after the wakes, so a killed tick never judges its own
  spending (`scheduler.py:636`); `run-wakes` drains the queue under a halt
  (`cli.py:1172`).
* A grant a sweep has listed as expired can still be consumed by a claimant whose
  `now` was read earlier (`approval.py:1308`, `promotion.py:298`): one of them wins, and
  `ImplementsPermits` is stated so that either may.
* Evidence is assessed before the write lock (`promotion.py:275`, `outcome.py:468`): an
  allocation may rest on a forecast resolved in between.
* `reap` kills on a finding made before the lock (`death.py:316`); waking a Cell or
  clearing its quarantine raises the active count with no look at the cap;
  `fund-cell` accepts a dead Cell (`cli.py:1064`).
* `complete` after a sweep has marked the action's hold unknown is refused, and no
  verb of the CLI resolves the hold (`external_actions.py:480`).
* A rights position withdrawn after an artifact's export does not stop its delivery.
* `set_limits` audits a change against limits read before the lock
  (`real_spend_breaker.py:104`).
* In a simulated run a Cell's RESOURCE funding is given once (`simulation/runner.py:161`) and
  every call takes two units of it (`gateway.py:405`): after some 1,250 epochs, sooner
  under a workflow of several calls, a living Cell is no longer eligible and proposes
  nothing more, and once all are there every tick is idle.
* In a simulated run: a staged child's budget can take a parent's whole eligibility;
  founding more Cells than may live raises out of `run()` and leaves its row
  `running`; a drill due in an epoch that crashed is skipped; the flood review goes
  on approving after auto-promotion is withdrawn; a child differs from its parent
  in one field at most, so "moderate" novelty never occurs.

## 6. Proofs

All for every value of the constants, under the named assumptions only, which say
that the constants are what their names say: `CoreAssumption`, `AmountsAssumption`,
`CallsAssumption` (the two reservations of a call are its own), `WakesAssumption`,
`InboxAssumption`, `ApprovalsAssumption`, `GrantedWorkAssumption`, `TradeAssumption`
and `PromotionsAssumption`. An instance does not carry the assumption of its module
with it, so the theorems about `Population` and `FlightSimulator` have theirs
(`PopulationConstants`, `FlightSimulatorConstants`) as a hypothesis. What a sum ranges
over is finite (reservations, events, proposals, sales, reversals, fees, grants,
Cells): they are rows of one database. Two theorems about the inbox have the
hypothesis `OneWorker`; see there.

`SumTheorems`: what `SumFunctionOnSet` does when summands move, for every finite set.
`SubsetInduction` is induction over the finite subsets of a set, stated with the set
of the good subsets in place of a predicate and proved from the well-foundedness of
the strict-subset ordering; `TableExists` and `SumUnfolds` use it to show that the
recursion behind the sum has one solution. Then a sum takes out an element
(`SumTakesOut`), moves by what one summand moves (`SumMoves`), grows with its summands
(`SumWithin`), bounds its part (`SumOfPart`) and can be taken owner by owner
(`SumByOwner`).

`ReservationsProofs`, over lemmas about what each core does, one per core:

* `HoldsStayBalanced`: `IndInv`, the inductive invariant, is `Databases`
  typing together with `HoldsBalanced`. Typing alone is not inductive: that a
  release returns a natural number needs `settled <= maximum`, which needs the
  status to say how much has been paid and returned (`Balanced`), and metered
  usage settled by the sweeper needs `metered <= maximum`.
* `TypeCorrect`, `CommittedAlwaysHeld`: consequences of it. The second is a sum
  over reservations on both sides, equal because the summands are.
* `ExposureAlwaysWithinCap`: `CapInv` adds that what has left the window was spent, and
  states the caps over two tables, committed and exposed amounts. A settlement moves an
  amount from one summand's hold to its spending and so leaves the exposure; only a
  request raises it, and a request has just asked the breaker.
* `KernelIsEscrow`: each step maps to a step of `Escrow` or a stutter; a death
  or an estate moves several holds at once, which is why `Escrow!Next` is a
  conjunction over holds.

`ModelCallsProofs`:

* `EveryKeyPaidOnce`: `KeyInv` adds to the property that a provider is asked only
  by an invocation that owns its key's row, and that no key has two rows;
  `NoNewRow` shows that only one action makes a row, and that one looks first.
* `OutcomesNeverRewritten`: `OutcomeInv` says that the database is sound, that a
  final outcome has a closed hold, and that a sweep's list, however stale, names
  `failed` only what is closed. No step reopens a hold (`DatabaseStep`, from what
  each core does to the reservations outside its call), so a handler that comes
  late finds the hold closed and is refused, and a stale list changes nothing.
* `TypeCorrect`, `ChargesAreTrue`, `NothingBilledIsForgiven`: `ChargesKnown` says of each
  call what its charge must be given its row (`CallInv`), and, since two writers meet
  there, at which places of the handler the hold may still be open and the bill
  unsent.

`EventInboxProofs`, for any number of workers and dispatchers unless said otherwise:

* `TypeCorrect` and `FirstDeliveriesInOrder`: `OutboxInv` says what each dispatcher's
  stale list still covers. A dispatcher may publish again what another has published,
  but not ahead of something older, because its list names, or others have
  delivered, all that comes before (`Covers`).
* `DeadLettersIsolate`: an action property of the one transaction that gives up.
* `OneEffectPerKey` and `InboxDelivers` assume `OneWorker`. `SingleInv` says that the
  event a worker holds is still pending and that an event has been applied exactly if
  it is processed. With two workers neither is inductive, and the run
  `inbox_two_workers` shows the property itself fail; the CLI runs one.

`WakesProofs`:

* `WakesInvariant`: `IndInv` says of each tick where it is and why (`TickSound`): one
  that is at a call has the reason the table of calls shows, and one that is
  about to record has the draft it records. The reason is read before the step
  that uses it, so the proof shows that no other tick can take it away
  (`StillTick`, `ElsewhereIsSound`): calls and answers are never withdrawn.
* `EveryWakeToldOnce`: `DeliberationsStay` follows for every step.
* `TypeCorrect`: `TypesInv` adds what a tick has in hand (`Placed`): its wakes are of the
  queue, although others go on queueing, since the queue only grows (`QueueGrows`),
  and the one it takes first is one of them (`FirstIn`, from the least place of
  the queue). That a wake is queued once rests on the look in the transaction that
  queues it, however many ticks have the same Cell in hand.

`GrantedWorkProofs`, which uses the kernel's lemmas through an instance of
`ReservationsProofs` whose holds are the proposals. A step of this system is one
of few kinds (`StepKinds`): the queue moves one proposal's grant, a process begins,
claims, reserves or sends for one, a verb closes one's account, or nothing of these
moves; every invariant is then shown for each kind and not for each verb.

* `TypeCorrect`: `Typed`, with the kernel's soundness for the database.
* `PermitsImplemented`: `GrantsKnown` (only an approval issues, only what was issued is
  consumed, a process works on one issued grant of its verb's kind) and `RunsKnown`
  (who is past the claim has consumed the grant, is alone, and has sent nothing).
  Without the second a late process could send again.
* `WorkAlwaysPaidFor`: `WorkKnown` fixes the account of each proposal by its call or
  action: untouched while anyone may be at it, whether or not a sweep has marked it,
  and closed at its price or at nothing when it is over.
* `AlwaysOneBusiness`: `ClaimsCompatible`, with `DeliveriesKnown` for what has been let
  out. A claim's time is read before the lock and may be older than a claim already
  there; its check looks at everything from the window before that time on, later
  claims included, and the proof shows that this is enough in either order.
* `BatchesStayLow`: the property counts what batches approved. `BatchesKnown` bounds more,
  what they have approved or still may (`BatchMay`), for every window: a request that
  is LOW was LOW together with all that its key had in the window when it came, and
  nothing joins the set later except through that look.

`TradeProofs`: `TradeInvariant`, the four checked properties with `SalesKept` (a hold
stands under the policy in force on the day of its sale, and nothing is set aside
for a sale not yet made).

* `TypeCorrect`, `ReserveAlwaysCovers`: a release before the printed date would need a
  later policy, and `SalesKept` says which policy printed it.
* `DebtAlwaysBacked`: a sum over a Cell's sales; what a refund takes from a hold it adds
  to the refunds, and an advance is never more than the hold made with it.
* `ProfitAlwaysLeft`: one equation between the totals of cash, holds, debts, sales,
  reversals and fees (`InBalance`), whose two sides every verb moves together, a death's
  estate included.

`GrowthProofs`, in three parts.

Of `Promotions`, `CapitalInv`:

* `CapitalTypeCorrect` and `PoolAlwaysACeiling`: what the pool still has and what it has
  paid are what it was funded with. A grant is paid once because a paid grant is
  consumed (`PaidIsConsumed`), and whoever pays asks, under the lock, for one that is
  open; a process may have read its grant long before.
* `PilotsAlwaysEarned`: the property looks back at the evidence there was when a pilot
  was paid. It is inductive because no time that was read or written is ahead of
  the clock (`ReadByNow`): a forecast made later bears a later time than every
  payment, and so never joins the evidence one was judged by.
* `CapitalAlwaysMovesByConsent`: the step that pays looks again at the flag and at the
  grant, and nothing else pays.

Of `Population`, `ColonyInv`, whatever Cells do at once:

* `ColonyTypeCorrect`, `BirthsAlwaysFit`: the counts are cardinalities of sets of Cells,
  and a birth adds one to a count it has just compared. No Cell is born in an epoch
  to come (`BornByNow`), so a new epoch starts with none.
* `SlotsAlwaysHeld`: a slot is let go in the transaction of the death, and taken in one
  that looks at the Cell's status.
* `ChildrenAlwaysKeepTheShare`, `DeathsAlwaysAccountable`: action properties; the second
  needs that an estimate somebody acts on has a signature of somebody else
  (`EstimatesAreSigned`), which was given in an earlier step.

Of `FlightSimulator`, `RunInv`, for any policy, market, drill and size:

* `EveryCellAlwaysMayExperiment`: whoever lives is funded as it is born, and what it has
  left and what it has made are together that funding (`EveryCallIsPaid`), so every tick
  asks on its behalf until all of it is made; what the flood check holds back is
  reviewed before the slots are given out (`EveryoneHasAsked`).
* `NobodyEverOvertakenTwice`: who has gone ahead of a waiting Cell has the later
  experiment of the two (`AheadCameLater`), and so comes after it in the order of the
  next slots.

Only model-checked:

* What rests on fairness (`SweepingResolves`, `NothingIsLost`, `AffordableWakesRun`): out of
  the prover's reach.

## 7. Not modelled

* The hash chain and the double-entry form of the ledger (append-only, checked by
  `verify_chain`), transfers no reservation, sale or grant is behind, prices and
  tokens (data), per-provider caps and `set_limits`.
* HTTP, redaction, `robots.txt`, tracing, dashboards and reports: input and output.
* What an agent is shown and says: `context.py`, `workflow_graph.py`, the auditors'
  texts, statements of counterparties, which are recorded and only quoted. The
  models assume `langgraph` is installed, on which the workflows run.
* `selection.py`, which ranks the review queue for its reader and changes nothing.
* `max_cells`, the tick ledger and the liveness report of the scheduler.
* `golden.py`, a scripted scenario over the verbs modelled here, and the simulation's
  batches, paired comparisons and manifest, which start runs and read them.
* SQLite and `db.py`: serialised write transactions, UNIQUE constraints and durable
  commits are what every action rests on.

`PROJECT.json` gives the status of each component.
