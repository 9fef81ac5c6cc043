------------------------------ MODULE Approvals ------------------------------
(***************************************************************************)
(* The review queue, src/mitosis/approval.py: what becomes of a proposal   *)
(* between a Cell recording it and a consumer spending the grant a person  *)
(* gave for it.  Requests are assessed when they are queued, decided one   *)
(* by one or in batches, and expire on two clocks, one for a request       *)
(* nobody decided and one for a grant nobody used.                         *)
(*                                                                         *)
(* Every public verb reads the clock, and the sweeps and the batch the     *)
(* list they will work through, before they take the write lock, so each   *)
(* runs as an actor that first reads (Begin...) and then works item by     *)
(* item, each item being one transaction.  A dormant Cell counts as alive: *)
(* every check of this component treats the two alike.                     *)
(*                                                                         *)
(* GrantedWork composes this module with the consumers of grants and has   *)
(* the specification of the whole.                                         *)
(***************************************************************************)
EXTENDS Integers, FiniteSets, Functions

CONSTANTS
  Proposals,     \* proposal ids; a request and its grant are one per proposal
  Cells,
  Actors,        \* processes: operators at the CLI, the scheduler's tick
  Proposer,      \* the Cell that made a proposal
  FounderOf,     \* the lineage of a Cell
  Kind,          \* the kind of a proposal
  Channel,       \* the channel an external action names
  Cost,          \* estimated_cost_minor_units
  Claim,         \* the risk tier the Cell claims for it, Unclaimed for none
  GenomeClaim,   \* the risk class in the Cell's genome, Unclaimed for none
  Summary,       \* what the summary normalises to
  RealCells,     \* Cells whose book is USD_REAL
  Unlisted,      \* proposals naming no registered channel or read-only tool
  Life,          \* by tier: EXPIRY_SLA_MULTIPLE times its SLA
  Window,        \* EXPOSURE_WINDOW_SECONDS
  Alarm,         \* metabolic_alarm_cents_per_epoch
  SplitMin,      \* SPLIT_MIN_REQUESTS
  FloodLimit,    \* QUEUE_FLOOD_PENDING_LIMIT
  Backlogs,      \* sets of proposals that may have been approved beforehand
  Exposed,       \* bound: Cells that are quarantined
  Mortal,        \* bound: Cells that are killed
  Sinkless,      \* proposals recorded without the queue's sink
  Hoarders,      \* Cells that may sit on overdue forecasts
  LastProposal,  \* bound on when proposals are queued
  MaxClock       \* bound on the clock

Low == 0
Medium == 1
High == 2
Critical == 3
Tiers == Low .. Critical
Unclaimed == -1
Claims == Tiers \cup {Unclaimed}

Kinds == {"experiment", "strategy", "deliverable", "spend_request",
          "tool_request", "external_action", "abstain"}

\* Kinds that ask for nothing: a lapsed grant is not asked for again.
StatementKinds == {"strategy", "deliverable"}

ASSUME ApprovalsAssumption ==
  /\ IsFiniteSet(Proposals)
  /\ Proposer \in [Proposals -> Cells]
  /\ Kind \in [Proposals -> Kinds]
  /\ Cost \in [Proposals -> Nat]
  /\ Claim \in [Proposals -> Claims] /\ GenomeClaim \in [Cells -> Claims]
  /\ RealCells \subseteq Cells /\ Unlisted \subseteq Proposals
  /\ Life \in [Tiers -> Nat \ {0}]
  /\ Window \in Nat /\ Alarm \in Nat \ {0}
  /\ SplitMin \in Nat /\ FloodLimit \in Nat
  /\ Backlogs \subseteq SUBSET Proposals /\ Exposed \subseteq Cells /\ Mortal \subseteq Cells
  /\ Sinkless \subseteq Proposals /\ Hoarders \subseteq Cells
  /\ \A p \in UNION Backlogs : Kind[p] # "abstain"
  /\ LastProposal \in Nat /\ MaxClock \in Nat

VARIABLES
  clock,     \* wall time
  cell,      \* cells.status
  proposed,  \* rows of `proposals`
  request,   \* approval_requests
  grant,     \* approval_grants: which of issued, consumed and lapsed are set
  wakes,     \* wakes enqueued for a proposal, by reason (their dedupe keys)
  actor      \* what each process is doing, when it read the clock and its list

queueVars == <<request, grant, wakes>>
approvalVars == <<clock, cell, proposed, request, grant, wakes, actor>>

CellStatuses == {"alive", "quarantined", "dead"}
Decided == {"approved", "rejected", "expired"}

Requests ==
  [status : {"absent", "pending"} \cup Decided, tier : Tiers, flagged : BOOLEAN,
   created : Nat, expires : Nat, batched : BOOLEAN]

NoRequest ==
  [status |-> "absent", tier |-> Low, flagged |-> FALSE, created |-> 0,
   expires |-> 0, batched |-> FALSE]

\* The verbs a process may be in the middle of, and a consumer's two steps.
QueueOps == {"approve", "reject", "batch", "expire", "expire grants"}
WorkOps == {"execute", "claim", "reserve", "fetch"}
Ops == {"idle"} \cup QueueOps \cup WorkOps

Idle == [op |-> "idle", now |-> 0, todo |-> {}]

-----------------------------------------------------------------------------
(* Assessment of a request, inside the transaction that queues it. *)

Maximum(tiers) == CHOOSE t \in tiers : \A u \in tiers : u <= t

Founder(p) == FounderOf[Proposer[p]]

\* The channel is the colony's, everything else is the lineage's.
AggregationKey(p) ==
  IF Kind[p] = "external_action" THEN <<"channel", Channel[p]>>
  ELSE <<Founder(p), Kind[p]>>

\* Still counted as exposure: it may yet become real.
Prior(p) ==
  {q \in Proposals : /\ AggregationKey(q) = AggregationKey(p)
                     /\ request[q].status \in {"pending", "approved"}
                     /\ request[q].created >= clock - Window}

TotalCost(ps) == SumFunctionOnSet(Cost, ps)

\* Mutant: a request is assessed on its own cost.
OwnCost(p) == Cost[p]

Exposure(p) == TotalCost(Prior(p)) + Cost[p]

\* The thresholds are half the alarm, the alarm and four alarms.
ExposureTier(exposure) ==
  CASE exposure >= 4 * Alarm -> Critical
    [] exposure < 4 * Alarm /\ exposure >= Alarm -> High
    [] exposure < Alarm /\ 2 * exposure >= Alarm -> Medium
    [] OTHER -> Low

IsReversible(p) ==
  /\ Kind[p] # "external_action"
  /\ ~(Kind[p] = "spend_request" /\ Proposer[p] \in RealCells)

KindTier(p) ==
  CASE Kind[p] = "spend_request" ->
         IF Proposer[p] \in RealCells THEN High ELSE Medium
    [] Kind[p] = "tool_request" -> IF p \in Unlisted THEN High ELSE Medium
    [] Kind[p] = "external_action" -> IF p \in Unlisted THEN Critical ELSE High
    [] OTHER -> Low

KernelTier(p) ==
  Maximum({KindTier(p), ExposureTier(Exposure(p)),
           IF cell[Proposer[p]] = "quarantined" THEN High ELSE Low})

SameLineage(p) == {q \in Proposals : Founder(q) = Founder(p)}

\* A run of modest requests whose total has crossed a tier none reaches alone.
IsSplit(p) ==
  /\ Cardinality(Prior(p)) + 1 >= SplitMin
  /\ ExposureTier(Exposure(p)) > ExposureTier(Cost[p])

IsFlood(p) ==
  Cardinality({q \in SameLineage(p) : /\ request[q].status = "pending"
                                      /\ request[q].created >= clock - Window})
    >= FloodLimit

IsRepeat(p) ==
  \E q \in SameLineage(p) : /\ request[q].status = "rejected"
                            /\ Summary[q] = Summary[p]

IsUnderstated(p) ==
  \/ Claim[p] # Unclaimed /\ Claim[p] < KernelTier(p)
  \/ Kind[p] = "spend_request" /\ Cost[p] = 0

\* selective: the Cell sits on forecasts that are past their horizon.
Escalates(p, selective) ==
  IsSplit(p) \/ IsFlood(p) \/ IsRepeat(p) \/ selective

Escalated(tier) == IF tier = Critical THEN Critical ELSE tier + 1

\* Claims only ever raise the tier.
AssessedTier(p, selective) ==
  LET tier == Maximum({KernelTier(p), Claim[p], GenomeClaim[Proposer[p]]})
  IN  IF Escalates(p, selective) THEN Escalated(tier) ELSE tier

NewRequest(p, selective) ==
  [status  |-> "pending",
   tier    |-> AssessedTier(p, selective),
   flagged |-> Escalates(p, selective) \/ IsUnderstated(p),
   created |-> clock,
   expires |-> clock + Life[AssessedTier(p, selective)],
   batched |-> FALSE]

Batchable(p) ==
  /\ request[p].tier = Low
  /\ IsReversible(p)
  /\ ~request[p].flagged

\* A first request in an empty window.
FirstRequest(p) ==
  LET tier == Maximum({KindTier(p), ExposureTier(Cost[p]), Claim[p],
                       GenomeClaim[Proposer[p]]})
  IN  [NoRequest EXCEPT !.status = "approved", !.tier = tier, !.expires = Life[tier]]

ApprovalInit ==
  /\ clock = 0
  /\ cell = [c \in Cells |-> "alive"]
  /\ proposed \in Backlogs
  /\ request = [p \in Proposals |-> IF p \in proposed THEN FirstRequest(p)
                                   ELSE NoRequest]
  /\ grant = [p \in Proposals |-> IF p \in proposed THEN {"issued"} ELSE {}]
  /\ wakes = {"human decision"} \X proposed
  /\ actor = [a \in Actors |-> Idle]

-----------------------------------------------------------------------------
(* Queueing. *)

\* _enqueue_locked.  Nothing to review in an abstention, nothing to do for a
\* proposal that is queued already.
Enqueue(p, selective) ==
  request' = IF Kind[p] = "abstain" \/ request[p].status # "absent"
             THEN request
             ELSE [request EXCEPT ![p] = NewRequest(p, selective)]

\* The transaction that records a deliberation queues its proposal too, whatever
\* has become of the Cell since its wake began.
Propose(p, selective) ==
  /\ p \notin proposed \cup Sinkless /\ clock < LastProposal
  /\ proposed' = proposed \cup {p}
  /\ Enqueue(p, selective)
  /\ UNCHANGED <<clock, cell, grant, wakes, actor>>

\* A deliberation run without the queue's sink.
ProposeUnqueued(p) ==
  /\ p \in Sinkless \ proposed /\ clock < LastProposal
  /\ proposed' = proposed \cup {p}
  /\ UNCHANGED <<clock, cell, queueVars, actor>>

\* One step of enqueue_missing, which queues what nobody queued.
EnqueueMissing(p, selective) ==
  /\ p \in proposed /\ request[p].status = "absent" /\ clock < LastProposal
  /\ Kind[p] # "abstain"
  /\ Enqueue(p, selective)
  /\ UNCHANGED <<clock, cell, proposed, grant, wakes, actor>>

-----------------------------------------------------------------------------
(* Verbs read the clock, and their list, before the first transaction. *)

Begin(a, op, todo) ==
  /\ actor[a] = Idle
  /\ todo # {}
  /\ actor' = [actor EXCEPT ![a] = [op |-> op, now |-> clock, todo |-> todo]]
  /\ UNCHANGED <<clock, cell, proposed, queueVars>>

Now(a) == actor[a].now

Doing(a, ops, p) == actor[a].op \in ops /\ p \in actor[a].todo

NextItem(a, p) ==
  actor' = IF actor[a].todo = {p} THEN [actor EXCEPT ![a] = Idle]
           ELSE [actor EXCEPT ![a].todo = @ \ {p}]

\* An exception ends the verb; the items it has not reached stay as they were.
Raise(a) == actor' = [actor EXCEPT ![a] = Idle]

Pending == {p \in Proposals : request[p].status = "pending"}

\* A verb that decides one request names it.
BeginDecision(a, p, op) == p \in Pending /\ Begin(a, op, {p})

BeginBatch(a) == Begin(a, "batch", {p \in Pending : Batchable(p)})

BeginExpiry(a) ==
  Begin(a, "expire", {p \in Pending : request[p].expires <= clock})

BeginGrantExpiry(a) ==
  Begin(a, "expire grants",
        {p \in Proposals : grant[p] = {"issued"} /\ request[p].expires <= clock})

\* The process dies between two transactions.
Crash(a) ==
  /\ actor[a] # Idle
  /\ Raise(a)
  /\ UNCHANGED <<clock, cell, proposed, queueVars>>

-----------------------------------------------------------------------------
(* Decisions. *)

MayWake(p) == cell[Proposer[p]] = "alive"

WakeFor(reason, p) ==
  wakes' = IF MayWake(p) THEN wakes \cup {<<reason, p>>} ELSE wakes

\* Mutant: the check is the one made before the lock.
DecidableWhenListed(p, now) == request[p].status # "absent"

\* _pending_or_raise_locked
MayDecide(p, now) ==
  /\ request[p].status = "pending"
  /\ now < request[p].expires

\* The expiry of the grant is its request's.
Approve(a, p) ==
  /\ Doing(a, {"approve", "batch"}, p)
  /\ MayDecide(p, Now(a))
  /\ request' = [request EXCEPT ![p].status = "approved",
                                ![p].batched = actor[a].op = "batch"]
  /\ grant' = [grant EXCEPT ![p] = {"issued"}]
  /\ WakeFor("human decision", p)
  /\ NextItem(a, p)
  /\ UNCHANGED <<clock, cell, proposed>>

Reject(a, p) ==
  /\ Doing(a, {"reject"}, p)
  /\ MayDecide(p, Now(a))
  /\ request' = [request EXCEPT ![p].status = "rejected"]
  /\ WakeFor("human decision", p)
  /\ NextItem(a, p)
  /\ UNCHANGED <<clock, cell, proposed, grant>>

\* Decided or expired since: the verb raises, a batch with the rest undone.
DecisionRefused(a, p) ==
  /\ Doing(a, {"approve", "reject", "batch"}, p)
  /\ ~MayDecide(p, Now(a))
  /\ Raise(a)
  /\ UNCHANGED <<clock, cell, proposed, queueVars>>

-----------------------------------------------------------------------------
(* Expiry: regenerated as a wake, never as an authorisation. *)

\* _expire_one: a decision made since the scan stands.
ExpireRequest(a, p) ==
  /\ Doing(a, {"expire"}, p)
  /\ IF request[p].status = "pending"
     THEN /\ request' = [request EXCEPT ![p].status = "expired"]
          /\ WakeFor("approval expired", p)
     ELSE UNCHANGED <<request, wakes>>
  /\ NextItem(a, p)
  /\ UNCHANGED <<clock, cell, proposed, grant>>

\* _expire_one_grant.  The request stays approved: a person did approve it.
ExpireGrant(a, p) ==
  /\ Doing(a, {"expire grants"}, p)
  /\ IF grant[p] = {"issued"}
     THEN /\ grant' = [grant EXCEPT ![p] = @ \cup {"lapsed"}]
          /\ IF Kind[p] \in StatementKinds THEN UNCHANGED wakes
             ELSE WakeFor("grant expired", p)
     ELSE UNCHANGED <<grant, wakes>>
  /\ NextItem(a, p)
  /\ UNCHANGED <<clock, cell, proposed, request>>

-----------------------------------------------------------------------------
(* The rest of the colony. *)

Tick ==
  /\ clock < MaxClock
  /\ clock' = clock + 1
  /\ UNCHANGED <<cell, proposed, queueVars, actor>>

QuarantineCell(c) ==
  /\ cell[c] = "alive"
  /\ cell' = [cell EXCEPT ![c] = "quarantined"]
  /\ UNCHANGED <<clock, proposed, queueVars, actor>>

ClearQuarantine(c) ==
  /\ cell[c] = "quarantined"
  /\ cell' = [cell EXCEPT ![c] = "alive"]
  /\ UNCHANGED <<clock, proposed, queueVars, actor>>

KillCell(c) ==
  /\ cell[c] # "dead"
  /\ cell' = [cell EXCEPT ![c] = "dead"]
  /\ UNCHANGED <<clock, proposed, queueVars, actor>>

(* The verbs of cli.py. *)
cmd_approve(a) == \E p \in Proposals : BeginDecision(a, p, "approve")
cmd_reject(a) == \E p \in Proposals : BeginDecision(a, p, "reject")
cmd_approve_batch(a) == BeginBatch(a)

\* Its two sweeps read the clock and their lists one after the other.
cmd_expire_approvals(a) == BeginExpiry(a) \/ BeginGrantExpiry(a)

Expiries(a) ==
  \/ cmd_expire_approvals(a)
  \/ \E p \in Proposals : ExpireRequest(a, p) \/ ExpireGrant(a, p)

Decisions(a) ==
  \/ cmd_approve(a) \/ cmd_reject(a) \/ cmd_approve_batch(a)
  \/ \E p \in Proposals : Approve(a, p) \/ Reject(a, p) \/ DecisionRefused(a, p)

Queueing ==
  \E p \in Proposals :
     \/ ProposeUnqueued(p)
     \/ \E selective \in BOOLEAN :
          /\ selective => Proposer[p] \in Hoarders
          /\ Propose(p, selective) \/ EnqueueMissing(p, selective)

ColonyStep ==
  Tick \/ \E c \in Exposed : QuarantineCell(c) \/ ClearQuarantine(c)

ApprovalNext ==
  \/ Queueing \/ ColonyStep
  \/ \E a \in Actors : Decisions(a) \/ Expiries(a) \/ Crash(a)

ApprovalTypeOK ==
  /\ clock \in 0 .. MaxClock
  /\ cell \in [Cells -> CellStatuses]
  /\ proposed \subseteq Proposals
  /\ request \in [Proposals -> Requests]
  /\ grant \in [Proposals -> SUBSET {"issued", "consumed", "lapsed"}]
  /\ actor \in [Actors -> [op : Ops, now : 0 .. MaxClock, todo : SUBSET Proposals]]

-----------------------------------------------------------------------------
(***************************************************************************)
(* Splitting does not buy a batch: the requests of one aggregation key     *)
(* that were approved in batches, unread, and queued within one exposure   *)
(* window never add up to what would make a single request MEDIUM, though  *)
(* each was assessed at its own time, while others were being decided,     *)
(* rejected or left to expire (approval.py:248, ApprovalRequest.batchable).*)
(***************************************************************************)
BatchedExposureStaysLow ==
  \A p \in Proposals :
    ExposureTier(TotalCost(
      {q \in Proposals : /\ request[q].batched
                         /\ AggregationKey(q) = AggregationKey(p)
                         /\ request[q].created \in
                              request[p].created .. request[p].created + Window}))
      = Low
=============================================================================
