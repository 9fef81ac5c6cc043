------------------------------- MODULE Wakes --------------------------------
(***************************************************************************)
(* The agent loop under the scheduler: `mitosis tick` (scheduler.py) run   *)
(* by cron, possibly overlapping itself and crashing anywhere, enqueues    *)
(* one wake per eligible Cell and epoch and drains the pending ones        *)
(* (deliberation.run_ready_wakes), each with one gateway call, one         *)
(* deliberation row and one processed mark, in transactions of their own.  *)
(*                                                                         *)
(* The gateway is what ModelCalls shows it to be: a key is looked up,      *)
(* reserved for and paid once, and a call left in flight by a crash is     *)
(* resolved by a sweep.  A reply that does not validate buys one repair,   *)
(* and a draft that does buys the further calls of its genome's workflow,  *)
(* each under a key of its own.                                            *)
(***************************************************************************)
EXTENDS Naturals, FiniteSets, SequencesExt

CONSTANTS
  CellOrder,     \* the Cells, in rowid order
  MaxEpoch,      \* bound on the simulated clock
  Ticks,         \* processes running `mitosis tick`
  Setups,        \* bound: in which epochs each is started, each Cell's workflow,
                 \* and the statuses a Cell may move to
  MaxRevisions,  \* MAX_CRITIQUE_REVISIONS
  Costs,         \* what one call can settle in real money
  Lefts,         \* bound: the cash a call can leave a Cell
  AlarmAt,       \* metabolic_alarm_cents_per_epoch
  Acceleration,  \* metabolic_acceleration_factor
  BaselineEpochs \* METABOLIC_BASELINE_EPOCHS

Cells == ToSet(CellOrder)
Epochs == 0 .. MaxEpoch

\* A wake is its dedupe key, epoch:{n}:cell:{id}.
Wakes == Epochs \X Cells

CellStatuses == {"alive", "dormant", "quarantined", "dead"}

\* No cash, some, or enough for a call.
CashLevels == {"none", "little", "enough"}

Structures ==
  {"single_pass", "iterative_refinement", "parallel_review", "self_critique_loop"}

Rounds == 0 .. MaxRevisions - 1

\* The calls a wake may make; each has the key deliberation:{wake}:{step}.
Reply == <<"reply", 0>>
Repair == <<"repair", 0>>
WorkflowSteps ==
  {<<"refine", 0>>, <<"draft", 0>>, <<"review", 0>>}
    \cup ({"critique", "revise"} \X Rounds)
Steps == {Reply, Repair} \cup WorkflowSteps
Keys == Wakes \X Steps

ASSUME WakesAssumption ==
  /\ CellOrder \in Seq(Cells) /\ IsInjective(CellOrder)
  /\ MaxEpoch \in Nat /\ MaxRevisions \in Nat \ {0}
  /\ Setups \subseteq [schedule : [Ticks -> SUBSET Epochs],
                       structure : [Cells -> Structures],
                       fates : SUBSET CellStatuses]
  /\ Costs \subseteq Nat /\ Lefts \subseteq CashLevels
  /\ AlarmAt \in Nat /\ Acceleration \in Nat /\ BaselineEpochs \in Nat

VARIABLES
  setup,      \* the one of Setups that is followed
  epoch,      \* current_epoch, derived from the simulated clock
  anchor,     \* epoch_log: what had been spent when an epoch was first observed
  spent,      \* real money settled so far
  alarm,      \* operator_state.metabolic_alarm_at_utc is set
  permitted,  \* real spending is enabled and the operator is not on vacation
  cell,       \* cells.status
  cash,       \* whether a Cell has any cash, and enough for a call
  queue,      \* wakes in event_inbox, in Amendment A5's order
  processed,  \* those marked processed
  call,       \* each key's model_calls row: its status, and how its text reads
  requests,   \* requests sent to the provider under each key
  record,     \* deliberations.status by wake_key
  tick        \* where each tick is and what it has read

vars == <<setup, epoch, anchor, spent, alarm, permitted, cell, cash, queue,
          processed, call, requests, record, tick>>

time == <<setup, epoch>>
operator == <<alarm, permitted>>
colony == <<cell, cash>>
events == <<queue, processed>>
gateway == <<call, requests, spent>>

Unobserved == [seen |-> FALSE, at |-> 0]
Idle == [at |-> "idle"]
Killed == [at |-> "killed"]

Init ==
  /\ setup \in Setups
  /\ epoch = 0
  /\ anchor = [n \in Epochs |-> Unobserved]
  /\ spent = 0
  /\ alarm = FALSE
  /\ permitted = TRUE
  /\ cell = [c \in Cells |-> "alive"]
  /\ cash \in [Cells -> CashLevels]
  /\ queue = <<>>
  /\ processed = {}
  /\ call = [k \in Keys |-> "absent"]
  /\ requests = [k \in Keys |-> 0]
  /\ record = [w \in Wakes |-> "none"]
  /\ tick = [t \in Ticks |-> Idle]

Goto(t, where) == tick' = [tick EXCEPT ![t] = where]

Stop(t) == Goto(t, Idle)

\* Tick t goes on to another part of its epoch, with what it has yet to do.
On(t, place, todo) ==
  Goto(t, [at |-> place, epoch |-> tick[t].epoch, todo |-> todo])

\* The first of S in the order of a table.
First(order, S) ==
  order[CHOOSE i \in DOMAIN order :
          order[i] \in S /\ \A j \in 1 .. i - 1 : order[j] \notin S]

\* The wake tick t is running.
Current(t) == tick[t].wake

-----------------------------------------------------------------------------
(* scheduler.tick, up to the wakes. *)

IsStarted(t) == tick[t] \in {Idle, Killed} /\ epoch \in setup.schedule[t]

cmd_tick(t) ==
  /\ IsStarted(t)
  /\ Goto(t, [at |-> "opening", epoch |-> epoch])
  /\ UNCHANGED <<time, anchor, operator, colony, events, gateway, record>>

\* The tick's row and the epoch's anchor, in one transaction.
OpenTick(t) ==
  /\ tick[t].at = "opening"
  /\ LET n == tick[t].epoch
     IN  anchor' = IF anchor[n].seen THEN anchor
                   ELSE [anchor EXCEPT ![n] = [seen |-> TRUE, at |-> spent]]
  /\ Goto(t, [at |-> "guarding", epoch |-> tick[t].epoch])
  /\ UNCHANGED <<time, operator, colony, events, gateway, record>>

Guard(t) ==
  /\ tick[t].at = "guarding"
  /\ IF alarm \/ ~permitted
     THEN Stop(t)
     ELSE Goto(t, [at |-> "selecting", epoch |-> tick[t].epoch])
  /\ UNCHANGED <<time, anchor, operator, colony, events, gateway, record>>

IsEligible(c) == cell[c] = "alive" /\ cash[c] # "none"

\* Without an eligible Cell the tick is idle: nothing is drained either.
SelectCells(t) ==
  LET eligible == {c \in Cells : IsEligible(c)}
  IN  /\ tick[t].at = "selecting"
      /\ IF eligible = {}
         THEN Stop(t)
         ELSE On(t, "enqueuing", eligible)
      /\ UNCHANGED <<time, anchor, operator, colony, events, gateway, record>>

\* Mutant: only pending wakes hold their key.
IsPending(w) == w \in ToSet(queue) \ processed

IsQueued(w) == w \in ToSet(queue)

EnqueueWake(t, c) ==
  LET w == <<tick[t].epoch, c>>
  IN  /\ tick[t].at = "enqueuing"
      /\ tick[t].todo # {} /\ First(CellOrder, tick[t].todo) = c
      /\ queue' = IF IsQueued(w) THEN queue ELSE Append(queue, w)
      /\ On(t, "enqueuing", tick[t].todo \ {c})
      /\ UNCHANGED <<time, anchor, operator, colony, processed, gateway, record>>

\* Mutant: only this epoch's wakes are drained.
ReadyThisEpoch(w) == w \notin processed /\ w[1] = epoch

IsReady(w) == w \notin processed

\* The ready wakes, which are run in the queue's order.
ReadyWakes == {w \in ToSet(queue) : IsReady(w)}

SelectReady(t) ==
  /\ tick[t].at = "enqueuing" /\ tick[t].todo = {}
  /\ On(t, "draining", ReadyWakes)
  /\ UNCHANGED <<time, anchor, operator, colony, events, gateway, record>>

\* An operator drains the queue by hand: no guard, no epoch and no alarm.
NoEpoch == MaxEpoch + 1

cmd_run_wakes(t) ==
  /\ IsStarted(t)
  /\ Goto(t, [at |-> "draining", epoch |-> NoEpoch, todo |-> ReadyWakes])
  /\ UNCHANGED <<time, anchor, operator, colony, events, gateway, record>>

-----------------------------------------------------------------------------
(* What a wake does next, by how the text of a step's call reads: "none" is  *)
(* a call that could not be made or was not answered.                        *)

Ask(step) == [at |-> "calling", what |-> step]
Wait(step) == [at |-> "waiting", what |-> step]
Tell(outcome) == [at |-> "recording", what |-> outcome]
Told == [at |-> "marking", what |-> "told"]

\* The proposal in hand after `round` revisions that validated.
Kept(round) == Tell(IF round = 0 THEN "draft" ELSE "final")

AfterRefinement(text) == Kept(IF text = "valid" THEN 1 ELSE 0)

AfterReview(step, text) ==
  IF step[1] = "draft" /\ text = "valid" THEN Ask(<<"review", 0>>)
  ELSE Kept(IF step[1] = "review" /\ text = "valid" THEN 1 ELSE 0)

AfterCritique(step, text) ==
  LET round == step[2]
  IN  CASE step[1] = "critique" /\ text = "revise" -> Ask(<<"revise", round>>)
        [] step[1] = "critique" /\ text # "revise" -> Kept(round)
        [] step[1] = "revise" /\ text = "valid" ->
             IF round + 1 \in Rounds THEN Ask(<<"critique", round + 1>>)
             ELSE Kept(round + 1)
        [] OTHER -> Kept(round)

\* A draft that validated is the floor of its genome's workflow.
RunWorkflow(structure) ==
  CASE structure = "single_pass" -> Tell("draft")
    [] structure = "iterative_refinement" -> Ask(<<"refine", 0>>)
    [] structure = "parallel_review" -> Ask(<<"draft", 0>>)
    [] structure = "self_critique_loop" -> Ask(<<"critique", 0>>)

AfterRepair(structure, text) ==
  IF text = "valid" THEN RunWorkflow(structure) ELSE Tell("unparseable")

AfterReply(structure, text) ==
  CASE text = "none" -> Tell("call_failed")
    [] text = "invalid" -> Ask(Repair)
    [] text = "valid" -> RunWorkflow(structure)

After(structure, step, text) ==
  CASE step = Reply -> AfterReply(structure, text)
    [] step = Repair -> AfterRepair(structure, text)
    [] step[1] = "refine" -> AfterRefinement(text)
    [] step[1] \in {"draft", "review"} -> AfterReview(step, text)
    [] step[1] \in {"critique", "revise"} -> AfterCritique(step, text)

-----------------------------------------------------------------------------
(* deliberation.run_wake_event. *)

MayDeliberate(c) == cell[c] \in {"alive", "dormant"} /\ cash[c] # "none"

Take(t, w, place) ==
  Goto(t, [at |-> place.at, epoch |-> tick[t].epoch, todo |-> tick[t].todo \ {w},
           wake |-> w, what |-> place.what])

\* The tick goes on with the wake it is running.
To(t, place) == Take(t, Current(t), place)

\* A redelivered wake finds its deliberation and is only marked.
StartWake(t) ==
  /\ tick[t].at = "draining" /\ tick[t].todo # {}
  /\ LET w == First(queue, tick[t].todo)
     IN  CASE record[w] # "none" -> Take(t, w, Told)
           [] record[w] = "none" /\ MayDeliberate(w[2]) -> Take(t, w, Ask(Reply))
           [] OTHER -> Take(t, w, Tell("refused"))
  /\ UNCHANGED <<time, anchor, operator, colony, events, gateway, record>>

\* The key of the call that tick t makes or waits for.
KeyOf(t) == <<Current(t), tick[t].what>>

HasText(k) == call[k] \notin {"absent", "reserved", "unanswered"}

KeyUsed(k) == call[k] # "absent"

TextOf(k) == IF HasText(k) THEN call[k] ELSE "none"

\* How an answer may read: a verdict, or a proposal that validates or not.
Texts(step) ==
  IF step[1] = "critique" THEN {"keep", "revise", "invalid"} ELSE {"valid", "invalid"}

Proceed(t, text) ==
  To(t, After(setup.structure[Current(t)[2]], tick[t].what, text))

\* The gateway or a reservation refuses: out of the tick from a wake's first call,
\* and into what the wake already has from a further one.
Refused(t) == IF tick[t].what = Reply THEN Stop(t) ELSE Proceed(t, "none")

\* gateway.call_model.  The key returns the row it has, answered or not.
Call(t, left) ==
  LET k == KeyOf(t)
      c == Current(t)[2]
  IN  /\ tick[t].at = "calling"
      /\ \/ /\ KeyUsed(k)
            /\ Proceed(t, TextOf(k))
            /\ UNCHANGED <<call, requests, cash>>
         \/ /\ ~KeyUsed(k) /\ cash[c] = "enough"
            /\ call' = [call EXCEPT ![k] = "reserved"]
            /\ requests' = [requests EXCEPT ![k] = @ + 1]
            /\ cash' = [cash EXCEPT ![c] = left]
            /\ To(t, Wait(k[2]))
         \/ /\ ~KeyUsed(k) /\ cash[c] # "enough"
            /\ Refused(t)
            /\ UNCHANGED <<call, requests, cash>>
      /\ UNCHANGED <<time, anchor, operator, cell, events, spent, record>>

\* The provider answers: paid, recorded, and what is left is the Cell's.  An
\* answer to a call a sweep has already resolved cannot be recorded: no step
\* handles the error its tokens raise, and without tokens a reservation refuses.
Answered(t, cost, left) ==
  LET k == KeyOf(t)
  IN  /\ tick[t].at = "waiting"
      /\ IF call[k] = "reserved"
         THEN \E text \in Texts(k[2]) :
                /\ call' = [call EXCEPT ![k] = text]
                /\ spent' = spent + cost
                /\ cash' = [cash EXCEPT ![Current(t)[2]] = left]
                /\ Proceed(t, text)
         ELSE (Stop(t) \/ Refused(t)) /\ UNCHANGED <<call, spent, cash>>
      /\ UNCHANGED <<time, anchor, operator, cell, events, requests, record>>

\* It fails: known unbilled, and the Cell has its money back, or unknown.
ProviderFails(t, left) ==
  LET k == KeyOf(t)
  IN  /\ tick[t].at = "waiting"
      /\ IF call[k] = "reserved"
         THEN /\ call' = [call EXCEPT ![k] = "unanswered"]
              /\ cash' \in {cash, [cash EXCEPT ![Current(t)[2]] = left]}
              /\ Proceed(t, "none")
         ELSE Refused(t) /\ UNCHANGED <<call, cash>>
      /\ UNCHANGED <<time, anchor, operator, cell, events, spent, requests,
                     record>>

IsUnrecorded(w) == record[w] = "none"

Recorded(w, outcome) == [record EXCEPT ![w] = outcome]

\* deliberations.wake_key is UNIQUE: the later of two tellings of a wake raises.
Record(t) ==
  LET w == Current(t)
  IN  /\ tick[t].at = "recording"
      /\ IF IsUnrecorded(w)
         THEN /\ record' = Recorded(w, tick[t].what)
              /\ To(t, Told)
         ELSE Stop(t) /\ UNCHANGED record
      /\ UNCHANGED <<time, anchor, operator, colony, events, gateway>>

MarkProcessed(t) ==
  /\ tick[t].at = "marking"
  /\ processed' = processed \cup {Current(t)}
  /\ On(t, "draining", tick[t].todo)
  /\ UNCHANGED <<time, anchor, operator, colony, queue, gateway, record>>

-----------------------------------------------------------------------------
(* The metabolic alarm, read after the wakes. *)

\* epoch_spend_minor_units: up to the next epoch's anchor, if that was observed.
EpochSpend(n) ==
  CASE ~anchor[n].seen -> 0
    [] anchor[n].seen /\ n + 1 \in Epochs /\ anchor[n + 1].seen ->
         anchor[n + 1].at - anchor[n].at
    [] OTHER -> spent - anchor[n].at

SpendOver(S) == FoldSet(LAMBDA n, total : total + EpochSpend(n), 0, S)

Breached(n) ==
  LET prior == {m \in Epochs : m < n /\ n <= m + BaselineEpochs /\ EpochSpend(m) > 0}
  IN  \/ EpochSpend(n) > AlarmAt
      \/ /\ prior # {}
         /\ EpochSpend(n) * Cardinality(prior) > Acceleration * SpendOver(prior)

Judge(t) ==
  /\ tick[t].at = "draining" /\ tick[t].todo = {}
  /\ alarm' = (alarm \/ (tick[t].epoch # NoEpoch /\ Breached(tick[t].epoch)))
  /\ Stop(t)
  /\ UNCHANGED <<time, anchor, permitted, colony, events, gateway, record>>

\* The process is killed between two of its steps: a row `started` remains.
TickCrashes(t) ==
  /\ tick[t] \notin {Idle, Killed}
  /\ Goto(t, Killed)
  /\ UNCHANGED <<time, anchor, operator, colony, events, gateway, record>>

-----------------------------------------------------------------------------
(* What happens around the ticks. *)

cmd_advance_time ==
  /\ \E t \in Ticks : epoch + 1 \in setup.schedule[t]
  /\ epoch' = epoch + 1
  /\ UNCHANGED <<setup, anchor, operator, colony, events, gateway, record, tick>>

cmd_ack_alarm ==
  /\ alarm
  /\ alarm' = FALSE
  /\ UNCHANGED <<time, anchor, permitted, colony, events, gateway, record, tick>>

\* A heartbeat, its absence, or autonomy.real_spending.
Permit(b) ==
  /\ permitted # b
  /\ permitted' = b
  /\ UNCHANGED <<time, anchor, alarm, colony, events, gateway, record, tick>>

\* Any Cell there is, a dead one included.
cmd_fund_cell(c) ==
  /\ cash[c] # "enough"
  /\ cash' = [cash EXCEPT ![c] = "enough"]
  /\ UNCHANGED <<time, anchor, operator, cell, events, gateway, record, tick>>

CellTransitions(s) ==
  CASE s = "alive" -> {"dormant", "quarantined", "dead"}
    [] s = "dormant" -> {"alive", "quarantined", "dead"}
    [] s = "quarantined" -> {"alive", "dormant", "dead"}
    [] OTHER -> {}

\* A death takes the Cell's cash with it.
MoveCell(c, s) ==
  /\ s \in CellTransitions(cell[c]) \cap setup.fates
  /\ cell' = [cell EXCEPT ![c] = s]
  /\ cash' = IF s = "dead" THEN [cash EXCEPT ![c] = "none"] ELSE cash
  /\ UNCHANGED <<time, anchor, operator, events, gateway, record, tick>>

\* `mitosis sweep` resolves a call whose reservation has expired.
SweepStrandedCall(k) ==
  /\ call[k] = "reserved"
  /\ call' = [call EXCEPT ![k] = "unanswered"]
  /\ UNCHANGED <<time, anchor, operator, colony, events, requests, spent, record,
                 tick>>

-----------------------------------------------------------------------------
Answer(t) ==
  \E left \in Lefts :
    \/ \E cost \in Costs : Answered(t, cost, left)
    \/ ProviderFails(t, left)

TickStep(t) ==
  \/ cmd_tick(t)
  \/ OpenTick(t)
  \/ Guard(t)
  \/ SelectCells(t)
  \/ \E c \in Cells : EnqueueWake(t, c)
  \/ SelectReady(t)
  \/ StartWake(t)
  \/ \E left \in Lefts : Call(t, left)
  \/ Answer(t)
  \/ Record(t)
  \/ MarkProcessed(t)
  \/ Judge(t)

Next ==
  \/ \E t \in Ticks : TickStep(t) \/ cmd_run_wakes(t) \/ TickCrashes(t)
  \/ cmd_advance_time
  \/ cmd_ack_alarm
  \/ \E b \in BOOLEAN : Permit(b)
  \/ \E c \in Cells : cmd_fund_cell(c) \/ (\E s \in CellStatuses : MoveCell(c, s))
  \/ \E k \in Keys : SweepStrandedCall(k)

\* Cron starts ticks for ever, a call ends one way or the other
\* (provider timeouts), and processes are not killed for ever.
TicksAreRerun ==
  /\ \A t \in Ticks : WF_vars(TickStep(t))
  /\ <>[][\A t \in Ticks : ~TickCrashes(t)]_vars

Spec == Init /\ [][Next]_vars
FairSpec == Spec /\ TicksAreRerun

-----------------------------------------------------------------------------
(* Properties. *)

TickPlaces ==
  {"idle", "killed", "opening", "guarding", "selecting", "enqueuing", "draining",
   "calling", "waiting", "recording", "marking"}

\* Every table keeps its type, and no wake is queued twice in its epoch.
TypeOK ==
  /\ epoch \in Epochs
  /\ anchor \in [Epochs -> [seen : BOOLEAN, at : 0 .. spent]]
  /\ alarm \in BOOLEAN /\ permitted \in BOOLEAN
  /\ cell \in [Cells -> CellStatuses]
  /\ cash \in [Cells -> CashLevels]
  /\ queue \in Seq(Wakes) /\ IsInjective(queue)
  /\ processed \subseteq ToSet(queue)
  /\ \A k \in Keys : call[k] \in {"absent", "reserved", "unanswered"} \cup Texts(k[2])
  /\ record \in [Wakes -> {"none", "refused", "call_failed", "unparseable",
                           "draft", "final"}]
  /\ \A t \in Ticks : tick[t].at \in TickPlaces

Proposed == {"draft", "final"}

\* Whether a wake's first call, or its repair, was answered with a proposal.
IsDrafted(w) == \E step \in {Reply, Repair} : call[<<w, step>>] = "valid"

(***************************************************************************)
(* What a wake came to is told once: an overlapping tick that comes to     *)
(* another conclusion does not overwrite it.  Each of its calls is made    *)
(* once, however often it is redelivered and wherever a crash cut it off,  *)
(* and none for nothing: a repair only of a reply that did not validate, a *)
(* workflow's steps only over a draft that did, and no proposal without    *)
(* one (deliberation.py:912, _deliberate; gateway.py:149, call_model).     *)
(***************************************************************************)
DeliberationsStay ==
  [][\A w \in Wakes :
       /\ record[w] # "none" => record'[w] = record[w]
       /\ record'[w] \in Proposed => IsDrafted(w)
       /\ \A step \in Steps :
            requests'[<<w, step>>] > requests[<<w, step>>] =>
              /\ requests[<<w, step>>] = 0
              /\ step = Repair => call[<<w, Reply>>] = "invalid"
              /\ step \in WorkflowSteps => IsDrafted(w)]_vars

Unhindered ==
  /\ ~alarm /\ permitted
  /\ \E c \in Cells : IsEligible(c)

\* Wakes left behind by crashed ticks are run in the end, once nothing halts the
\* colony, some Cell is eligible, and every Cell with cash has enough for a call.
AffordableWakesRun ==
  <>[](Unhindered /\ \A c \in Cells : cash[c] # "little") =>
    \A w \in Wakes : IsQueued(w) ~> w \in processed
=============================================================================
